SPECIFICATION StageSpec
CONSTANTS
    r1 = r1
    r2 = r2
    r3 = r3
    p1 = p1
    p2 = p2
    Runs = {r1, r2}
    Processes = {p1, p2}
    ProcessOf <- DocsProcessOf
    Prints = {a}
    NoOne = NoOne
    LeaseMs = 1
    MaxNow = 2
    MaxBeats = 0
    MaxFaults = 1
    Copies = {m1, m2}
    IsExecution = TRUE
    CheckpointMs = 1
    MaxLosses = 1
CHECK_DEADLOCK FALSE
INVARIANT NeverReplayed
