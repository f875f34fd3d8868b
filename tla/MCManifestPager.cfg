SPECIFICATION FairSpec
CONSTANTS
    Keys <- ThreeRows
    NoTime = NoTime
    PageSize = 2
    Unit = 2
    WinStart = 1
    WinEnd = 3
    StartNow = 3
    MaxNow = 4
    MaxEdits = 2
INVARIANTS
    TypeOK
    ManifestIsCurrent
PROPERTY FetchEnds
