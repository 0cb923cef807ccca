CONSTANTS
    BlockSize <- MCBlockSize
    MARKERS   <- MCMARKERS
    MaxSize   <- MCMaxSize

SPECIFICATION Spec

INVARIANTS
    TypeOK
    MarkersInsideRange
    GoodRangePasses
    PassMeansAllKept
    LimboRefused
    EstimateWithinOneGap
    WraparoundCaughtByCollision

\* A check ends.
CHECK_DEADLOCK FALSE
