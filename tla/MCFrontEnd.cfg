CONSTANTS
    Images    <- MCImages
    ScanLimit <- MCScanLimit
    MaxDepth  <- MCMaxDepth

SPECIFICATION Spec

INVARIANTS
    TypeOK
    WritesAsAsked
    NeverRiskyUnasked
    ExitTellsTheEnd

\* The program ends.
CHECK_DEADLOCK FALSE
