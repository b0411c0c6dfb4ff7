SPECIFICATION Spec
CONSTANTS
    r1 = r1
    r2 = r2
    r3 = r3
    p1 = p1
    p2 = p2
    Runs = {r1, r2, r3}
    Processes = {p1, p2}
    ProcessOf <- MCProcessOf
    Prints = {a, b}
    NoOne = NoOne
    LeaseMs = 2
    MaxNow = 4
    MaxBeats = 1
    MaxFaults = 1
CHECK_DEADLOCK FALSE
SYMMETRY Symmetry
INVARIANTS
    TypeOK
    WorkerInv
    OneCompletion
    ReturnedIsRecorded
    SamePayload
PROPERTIES
    ImplementsClaim
