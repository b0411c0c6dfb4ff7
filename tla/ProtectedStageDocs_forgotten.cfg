SPECIFICATION FairStageSpec
CONSTANTS
    r1 = r1
    r2 = r2
    r3 = r3
    p1 = p1
    p2 = p2
    Runs = {r1, r2, r3}
    Processes = {p1, p2}
    ProcessOf <- DocsProcessOf
    Prints = {a}
    NoOne = NoOne
    LeaseMs = 1
    MaxNow = 2
    MaxBeats = 0
    MaxFaults = 1
    Copies = {m1}
    IsExecution = FALSE
    CheckpointMs = 1
    MaxLosses = 0
CHECK_DEADLOCK FALSE
PROPERTY AbandonedIsResumed
