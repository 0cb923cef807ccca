CONSTANTS
    Disks      <- MCDisks
    Numbers    <- MCNumbers
    LockTries  <- MCLockTries
    MaxMounts  <- MCMaxMounts
    MaxMounted <- MCMaxMounted
    MaxNoise   <- MCMaxNoise

SPECIFICATION Spec

INVARIANTS
    TypeOK
    OnlyLateMountsRemain
    

\* The flash that follows is not part of this.
CHECK_DEADLOCK FALSE
