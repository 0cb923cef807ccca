CONSTANTS
    SectorSize   <- MCSectorSize
    LogicalSizes <- MCLogicalSizes
    MaxBlock     <- MCMaxBlock
    MaxLen       <- MCMaxLen

SPECIFICATION FairSpec

INVARIANTS
    TypeOK
    OutsideUntouched
    FrozenImageInPlace
    SuccessIsDurableImage
    AdmittedFits

PROPERTIES
    NothingWrittenTwice
    Terminates

\* A flash ends.
CHECK_DEADLOCK FALSE
