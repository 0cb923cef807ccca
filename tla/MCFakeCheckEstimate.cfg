CONSTANTS
    BlockSize <- MCBlockSize
    MARKERS   <- MCMARKERS
    MaxSize   <- MCMaxSize

SPECIFICATION Spec

INVARIANT EstimateBracketsRealSize

\* A check ends.
CHECK_DEADLOCK FALSE
