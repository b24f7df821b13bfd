\* One session over two backends with WebSocket and one without, two messages.
CONSTANTS
    s1 = s1  b1 = b1  b2 = b2  b3 = b3
    Sessions <- OneSession
    Backends <- ThreeBackends
    CandidateLists <- Lists
    SSEOnly <- ThirdOnly
    Cfg <- Settings
    MaxMessages = 2
    MaxAge = 1
SPECIFICATION FairSpec
INVARIANTS SlotsAreAccounted OneAnswer ToldOfEnd
PROPERTIES RelayEnds
