CONSTANTS
    Users = {a, b}
    Admins = {a, b}
    Actions = {r1}
    Nonces = {n1}
    Workers = {w}
    BackendOf <- MCBackendOf
    NonceMaxAge = 0
    MfaMaxAge = 0
    Unissued = Unissued
    Tasks = {t1, t2}
    Authoritative = TRUE
    MaxLate = 1
    NoOne = NoOne
    NoForm = NoForm
    Unread = Unread
SPECIFICATION MCSpec
SYMMETRY MCSymmetry
PROPERTY DeliveredOnOk
