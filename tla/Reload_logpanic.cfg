\* A request writes its usage entry while the token log is rebuilt.
CONSTANTS
    b1 = b1  b2 = b2  r1 = r1  p1 = p1  p2 = p2  c1 = c1
    sqlite = sqlite  other = other
    Backends <- OneBackend
    Requests <- OneRequest
    Reloaders <- OneReloader
    Closers <- NoOne
    Configs <- Toggle
    StartConfig <- Start
    Cfg <- Settings
    MaxGen = 2
    MaxAge = 1
    Casts <- ReloadAndRequest
SPECIFICATION Spec
INVARIANTS RequestsSurviveReload
