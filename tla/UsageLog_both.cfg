\* Either mode: full channel and batch, failed writes, a forced close; two loggers on one file.
CONSTANTS
    old = old  new = new
    ChanCap = 2
    BatchCap = 2
    MaxEntries = 4
    Loggers <- TwoLoggers
    First = old
    MaxLines = 3
    MaxFiles = 3
SPECIFICATION FairSpec
INVARIANTS DropsAreCounted EntriesInOrder CloseDrains EntriesSurviveCleanup
PROPERTIES EveryEntrySettles
\* A closed logger has nothing left to do, and calls of Log are bounded.
CHECK_DEADLOCK FALSE
