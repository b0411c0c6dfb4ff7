SPECIFICATION Spec
CONSTANTS
    Sessions = {s1, s2}
    Leases = {l1, l2}
    Calls = {c1, c2}
    NoSession = NoSession
    NoLease = NoLease
    LeaseMs = 2
    MaxNow = 3
    MaxDiagnoses = 2
CHECK_DEADLOCK FALSE
INVARIANT ExpiryRequiresEvaluation
