SPECIFICATION Spec
CONSTANTS
    Ids = {r1, r2}
    NoTime = NoTime
    Times <- MCTimes
    MaxJournal = 2
SYMMETRY MCSymmetry
INVARIANTS
    MergeIsLastWriteWins
    NeverBackwards
    SecondPlanOnlyEchoes
\* a pass over tables at rest runs once and the model stops
CHECK_DEADLOCK FALSE
