CONSTANTS
    FailureThreshold = 2
    Window = 1
    Cooldown = 2
    MaxAttempts = 3
    NoCall = NoCall
    Gets = {g1}
    Writes = {w1}
    Uploads = {}
    Outcomes <- MCAllOutcomes
SPECIFICATION FairSpec
PROPERTIES HalfOpenSettles
