CONSTANTS
    Users = {a, b}
    Actions = {v1}
    Nonces = {n1}
    Workers = {w}
    BackendOf <- MCBackendOf
    NonceMaxAge = 0
    MfaMaxAge = 0
    Unissued = Unissued
    Tasks = {t1, t2}
    Authoritative = TRUE
    MaxLate = 1
    NoForm = NoForm
    Unread = Unread
SPECIFICATION Spec
SYMMETRY MCSymmetry
INVARIANT SignOffIsGated
