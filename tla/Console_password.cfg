\* One browser saves once.
CONSTANTS
    w1 = w1  w2 = w2
    Browsers <- OneBrowser
    Placeholder <- Mask
    Expanded <- Passwords
    StartFile <- Start
    Edits <- FormEdits
    HandEdits <- FileEdits
    NewPasswords = {"$VAR", "other"}
    NewLogs = {"log2", "nolog"}
    Unusable = {"nolog"}
    MaxSaves = 1
    MaxHandEdits = 0
    MaxStarts = 0
SPECIFICATION Spec
INVARIANTS PasswordIsNotBaked
CHECK_DEADLOCK FALSE
