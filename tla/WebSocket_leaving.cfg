\* A client that leaves after it was sent data.
CONSTANTS
    s1 = s1  b1 = b1  b2 = b2  b3 = b3
    Sessions <- OneSession
    Backends <- ThreeBackends
    CandidateLists <- Lists
    SSEOnly <- ThirdOnly
    Cfg <- Settings
    MaxMessages = 2
    MaxAge = 1
SPECIFICATION Spec
PROPERTIES LeavingIsNoFailure
