SPECIFICATION FairSpec
CONSTANTS
    Ids = {r1}
    NoTime = NoTime
    Overlap = 1
    Lookback = 2
    Lag <- GreenBehind
    MaxLag = 1
    PassBudget = 9
    VerifyStrict = TRUE
    MaxWorkers = 1
    RunOptions <- EveryMode
    Faults = {"fatal", "lock", "read", "lostreply", "crash", "disconnect", "delete", "logfail"}
    MaxClock = 3
    MaxEdits = 2
PROPERTIES
    PassEnds
    WritesOnlyWhereAsked
    VerifiedPassKeepsUp
    OverwritesOnlyOlder
