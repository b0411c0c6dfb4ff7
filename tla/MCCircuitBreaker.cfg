SPECIFICATION FairSpec
CONSTANTS
    Calls = {c1, c2, c3, c4}
    FailureThreshold = 2
    SuccessThreshold = 2
    HalfOpenMaxConcurrent = 1
    Timeout = 2
CHECK_DEADLOCK FALSE
INVARIANTS
    TypeOK
    NoLeakedProbe
    OpenIsQuiet
    ClosedIsBelowThreshold
PROPERTIES
    AnswersKeepCooldown
    Recovers
