SPECIFICATION FairSpec
CONSTANTS
    Keys = {k1, k2}
    Payloads = {good}
    Producers = {r1, r2}
    Publishers = {p1}
    NoOne = NoOne
    Routed = {k1}
    Malformed = {}
    MaxAttempts = 2
    LeaseMs = 2
    BatchSize = 1
    MaxNow = 5
    MaxFaults = 1
    BaseDelay = 1
    DelayCap = 2
    JitterPercent = 0
CHECK_DEADLOCK FALSE
PROPERTIES
    EventsSettle
    FailedIsRetried
    PendingIsClaimed
