CONSTANTS
    alice = alice
    bob = bob
    secret = secret
    sealed = sealed
    plain = plain
    w1 = w1
    w2 = w2
    Users = {alice, bob}
    Actions = {secret, sealed, plain}
    Workers = {w1}
    NonceMaxAge = 0
    MfaMaxAge = 0
    Unissued = Unissued
    NoOne = NoOne
    NoNonce = NoNonce
    NoTask = NoTask
    TriggeredBy <- MCTriggeredBy
    Sensitive = {secret, sealed}
    Nonces = {n1, n2}
    Tasks = {t1, t2}
    BackendOf <- MCSharedBackend
SPECIFICATION Spec
SYMMETRY MCSymmetry
INVARIANTS NonceUsedOnce DecisionBound SeparationOfDuties
PROPERTIES FirstUseAccepted NoncePromise
