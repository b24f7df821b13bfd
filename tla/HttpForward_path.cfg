\* Two requests over two backends, threshold 2; a half-open limit of 0 is normalised to 1.
CONSTANTS
    r1 = r1  r2 = r2  b1 = b1  b2 = b2
    Requests <- TwoRequests
    Backends <- TwoBackends
    CandidateLists <- FirstThenSecond
    Checked <- FirstChecked
    FailThreshold = 2
    RecoveryTimeout = 1
    HalfOpenMaxRequests = 0
    DefaultRecovery = 1
    MaxAge = 1
SPECIFICATION FairSpec
INVARIANTS TypeOK NoSlotLeak EpisodeInv
PROPERTIES KeepsPromise FailoverIsExhaustive EveryRequestEnds ProbingResolves ActiveCheckHeals
