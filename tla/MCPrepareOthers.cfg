CONSTANTS
    Disks      <- MCAllDisks
    Numbers    <- MCNumbers
    LockTries  <- MCLockTries
    MaxMounts  <- MCMaxMounts
    MaxMounted <- MCMaxMounted
    MaxNoise   <- MCMaxNoise

SPECIFICATION Spec

INVARIANT OthersLeftAlone

\* The flash that follows is not part of this.
CHECK_DEADLOCK FALSE
