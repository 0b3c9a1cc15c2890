CONSTANTS
    Requests = {d1}
    Users = {a, b}
    Public = Public
    References = {r1, r2}
    Emails = {ea, eb}
    Files <- MCFiles
    NoReference = NoReference
    Nobody = Nobody
    NoFile = NoFile
    Tasks = {t1}
    MaxLate = 1
    NoForm = NoForm
    Unread = Unread
SPECIFICATION MCSpec
SYMMETRY MCSymmetry
CONSTRAINT OneDetour
INVARIANTS BothTypesOK NothingLeavesUnverified StepsInOrder AuditedIsDone ProofsBelong 
