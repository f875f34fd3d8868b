SPECIFICATION Spec
CONSTANTS
    Ids = {r1, r2}
    NoTime = NoTime
    Overlap = 2
    Lookback = 3
    Lag <- BlueAhead
    MaxLag = 1
    PassBudget = 1
    VerifyStrict = FALSE
    MaxWorkers = 2
    RunOptions <- ApplyBoth
    Faults = {"lock", "fatal"}
    MaxClock = 3
    MaxEdits = 2
SYMMETRY Symmetry
INVARIANTS
    TypeOK
    NoSilentMiss
    PassInv
