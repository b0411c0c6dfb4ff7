SPECIFICATION FairSpec
CONSTANTS
    Keys = {k1}
    Payloads = {good}
    Producers = {r1}
    Publishers = {p1, p2}
    NoOne = NoOne
    Routed = {k1}
    Malformed = {}
    MaxAttempts = 3
    LeaseMs = 2
    BatchSize = 1
    MaxNow = 6
    MaxFaults = 1
    BaseDelay = 1
    DelayCap = 2
    JitterPercent = 0
CHECK_DEADLOCK FALSE
PROPERTIES
    AbandonedIsTakenOver
