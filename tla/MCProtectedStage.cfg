SPECIFICATION FairStageSpec
CONSTANTS
    r1 = r1
    r2 = r2
    p1 = p1
    p2 = p2
    Runs = {r1, r2}
    Processes = {p1, p2}
    ProcessOf <- MCProcessOf
    Prints = {a}
    NoOne = NoOne
    LeaseMs = 1
    MaxNow = 2
    MaxBeats = 0
    MaxFaults = 1
    Copies = {m1, m2}
    IsExecution = FALSE
    CheckpointMs = 1
    MaxLosses = 1
CHECK_DEADLOCK FALSE
INVARIANTS
    StageTypeOK
    StageInv
    HandlerOnce
    CompletedAgrees
    AckedIsAnswered
PROPERTIES
    LiveClaimIsKept
    CheckpointImplementsClaim
    EveryDeliveryEnds
