\* A signal while a request is handled.
CONSTANTS
    r1 = r1  r2 = r2  r3 = r3  p1 = p1  s1 = s1
    Requests <- TwoRequests
    Embedders <- NoOne
    Savers <- NoOne
    Limits <- AlwaysOne
    StartLimit = 1
    MaxSems = 1
SPECIFICATION Spec
PROPERTIES ShutdownIsGraceful
\* The process exits.
CHECK_DEADLOCK FALSE
