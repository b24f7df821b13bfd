\* Two callers reload at once, one closes the server; or one reload and a request.
CONSTANTS
    b1 = b1  b2 = b2  r1 = r1  p1 = p1  p2 = p2  c1 = c1
    sqlite = sqlite  other = other
    Backends <- TwoBackends
    Requests <- OneRequest
    Reloaders <- TwoReloaders
    Closers <- OneCloser
    Configs <- Toggle
    StartConfig <- Edited
    Cfg <- Settings
    MaxGen = 3
    MaxAge = 1
    Casts <- CallsOrRequest
SPECIFICATION FairSpec
INVARIANTS DownIsTruthful NoOrphanChecks CurrentLogIsOpen SlotsAreAccounted
PROPERTIES ReloadKeepsTrips CallsReturn
