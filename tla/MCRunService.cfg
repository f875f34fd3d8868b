SPECIFICATION FairSpec
CONSTANTS
    Requests = {r1, r2}
    Commands = {r2}
    NumFiles = 2
    Tables <- TwoAndOne
    Discovered = {2}
    NoTable = NoTable
    Missing = Missing
    Partial = Partial
    MaxTime = 2
INVARIANTS TypeOK OneRunAtATime FlagIsReleased ServerNeverCrosses FileIsWhole NoForeignCheckpoint FailureStaysInItsFile
PROPERTIES NeverGoesBack OkMeansAllTables EveryRequestIsAnswered
