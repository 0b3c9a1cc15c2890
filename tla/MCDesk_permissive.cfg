CONSTANTS
    Users = {a, b}
    Actions = {v1}
    Nonces = {n1}
    Workers = {w}
    BackendOf <- MCBackendOf
    NonceMaxAge = 0
    MfaMaxAge = 0
    Unissued = Unissued
    Tasks = {t1, t2}
    Clerks = {clerk}
    Authoritative = FALSE
    MaxLate = 1
    NoForm = NoForm
    Unread = Unread
    Incidents = {i1}
    Events = {e1}
    Skew = 1
    MaxTime = 2
    NoEvent = NoEvent
    Candidates = {c1, c2}
    Types = {"rule", "sop"}
    MaxBatch = 1
SPECIFICATION MCSpec
CONSTRAINT OneEntry
SYMMETRY MCSymmetry
INVARIANTS DeskTypeOK SignedAfterDecision SignatureBound ContainedWasInvestigated GuardianSigned DecisionsStand
