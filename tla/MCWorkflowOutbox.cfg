SPECIFICATION Spec
CONSTANTS
    Keys = {k1, k2}
    Payloads = {good, bad}
    Producers = {r1, r2}
    Publishers = {p1, p2}
    NoOne = NoOne
    Routed = {k1, k2}
    Malformed = {bad}
    MaxAttempts = 2
    LeaseMs = 2
    BatchSize = 2
    MaxNow = 3
    MaxFaults = 1
    BaseDelay = 1
    DelayCap = 2
    JitterPercent = 0
CHECK_DEADLOCK FALSE
SYMMETRY Symmetry
INVARIANTS
    TypeOK
    OutboxInv
    PublicationsWithinBudget
    CreationAgrees
    LeaseExclusive
    DeliveredWasPublished
PROPERTIES
    ImplementsHandoff
    ImplementsClaim
