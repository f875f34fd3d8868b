SPECIFICATION FairSpec
CONSTANTS
    NumOps = 5
    BatchSize = 4
    Workers = {w1, w2, w3}
INVARIANTS TypeOK RootCauseReported BatchBarrier
PROPERTIES KeepsContract Terminates
\* applyPlan returns: the plan ends.
CHECK_DEADLOCK FALSE
