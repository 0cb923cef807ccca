CONSTANTS
    Sectors    <- MCSectors
    SectorSize <- MCSectorSize
    Byte       <- MCByte
    Cap        <- MCCap

SPECIFICATION Spec

INVARIANTS
    TypeOK
    CacheBounded
    CleanMatchesDevice

PROPERTY ImplementsDevice

\* A dropped cache is gone.
CHECK_DEADLOCK FALSE
