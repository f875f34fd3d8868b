SPECIFICATION FairSpec
CONSTANTS
    Ids = {r1}
    NoTime = NoTime
    Overlap = 2
    Lookback = 3
    Lag <- GreenBehind
    MaxLag = 1
    PassBudget = 1
    VerifyStrict = FALSE
    MaxWorkers = 1
    RunOptions <- ApplyBoth
    Faults = {"lostreply"}
    MaxClock = 5
    MaxEdits = 3
PROPERTY Converges
