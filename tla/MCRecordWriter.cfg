SPECIFICATION FairSpec
CONSTANTS
    Fields <- TwoFields
    NoRow = NoRow
    Tables <- SomeTables
    MaxHttp = 2
    MaxLock = 2
    MaxRead = 3
    Faults = {"status", "timeout", "late", "broken", "locked", "cancel", "schema"}
    MaxEdits = 2
INVARIANTS
    TypeOK
    OneRecord
    RefusedOnlyIfForced
PROPERTIES
    KeepsContract
    CopiedInFull
    Finishes
