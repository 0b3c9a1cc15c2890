CONSTANTS
    FailureThreshold = 3
    Window = 2
    Cooldown = 2
    Gets = {g1}
    Writes = {w1}
    Uploads = {u1}
    MaxAttempts = 3
    Outcomes <- MCAllOutcomes
    NoCall = NoCall
SPECIFICATION Spec
INVARIANTS BreakerSafe BacklogBounded
PROPERTIES ProbesSpaced HalfOpenAdmitsNobodyElse
