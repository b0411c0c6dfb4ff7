SPECIFICATION Spec
CONSTANTS
    Keys = {k1}
    Payloads = {good}
    Producers = {r1}
    Publishers = {p1}
    NoOne = NoOne
    Routed = {k1}
    Malformed = {}
    MaxAttempts = 2
    LeaseMs = 2
    BatchSize = 1
    MaxNow = 3
    MaxFaults = 1
    BaseDelay = 1
    DelayCap = 2
    JitterPercent = 0
CHECK_DEADLOCK FALSE
INVARIANTS
    DeliveredIsNotLost
