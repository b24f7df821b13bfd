\* Two requests, one backend, one probe slot.
CONSTANTS
    r1 = r1  r2 = r2  b1 = b1  b2 = b2
    Requests <- TwoRequests
    Backends <- OneBackend
    CandidateLists <- OnlyFirst
    Checked <- NoneChecked
    FailThreshold = 1
    RecoveryTimeout = 1
    HalfOpenMaxRequests = 1
    DefaultRecovery = 1
    MaxAge = 1
SPECIFICATION Spec
INVARIANTS ProbeLimit
