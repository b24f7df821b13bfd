\* Three requests for one or two slots, or no limit; the embedder reloads, the console saves.
CONSTANTS
    r1 = r1  r2 = r2  r3 = r3  p1 = p1  s1 = s1
    Requests <- ThreeRequests
    Embedders <- OneEmbedder
    Savers <- OneSaver
    Limits <- UpToTwo
    StartLimit = 1
    MaxSems = 2
SPECIFICATION FairSpec
INVARIANTS SlotsAreExact LimitIsEnforced
PROPERTIES NoOvertaking EveryRequestEnds
\* The process exits.
CHECK_DEADLOCK FALSE
