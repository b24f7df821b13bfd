\* Two browsers sign in and save, the file is edited by hand once, the process is started again once.
CONSTANTS
    w1 = w1  w2 = w2
    Browsers <- TwoBrowsers
    Placeholder <- Mask
    Expanded <- Passwords
    StartFile <- Start
    Edits <- FormEdits
    HandEdits <- FileEdits
    NewPasswords = {"$VAR", "$REF", "$GONE"}
    NewLogs = {"log2", "nolog"}
    Unusable = {"nolog"}
    MaxSaves = 2
    MaxHandEdits = 1
    MaxStarts = 1
SPECIFICATION Spec
INVARIANTS FileLoads FileIsInForce UnseenIsKept SessionsMatchPassword
SYMMETRY Symmetry
