SPECIFICATION FairSpec
CONSTANTS
    Ids <- TwoRows
    NoTime = NoTime
    End = 6
    MaxLookback = 6
    Lookback = 2
    HeadSize = 1
    MinSpan = 1
    MaxIterations = 4
    MaxTouches = 1
INVARIANTS TypeOK LowIsDivergent FirstPassHasWork FindsTheBoundary
PROPERTY Terminates
\* The search answers once.
CHECK_DEADLOCK FALSE
