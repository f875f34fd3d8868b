SPECIFICATION Spec
CONSTANTS
    Ids = {r1}
    NoTime = NoTime
    Overlap = 2
    Lookback = 3
    Lag <- NoLag
    MaxLag = 0
    PassBudget = 1
    VerifyStrict = FALSE
    MaxWorkers = 1
    RunOptions <- ApplyBoth
    Faults = {"disconnect"}
    MaxClock = 5
    MaxEdits = 2
INVARIANT NoSilentMiss
