CONSTANTS
    SectorSizes   <- MCSectorSizes
    NtfsSector    <- MCNtfsSector
    MiB           <- MCMiB
    GptArrayBytes <- MCGptArrayBytes
    FloorBytes    <- MCFloorBytes
    LoaderBytes   <- MCLoaderBytes
    Slots         <- MCSlots
    Names         <- MCNames
    Fold          <- MCFold
    NameSlots     <- MCNameSlots
    BadNames      <- MCBadNames
    LoaderDirs    <- MCLoaderDirs
    LoaderNames   <- MCLoaderNames
    Jobs          <- MCJobs

SPECIFICATION Spec

INVARIANT
    LinkedDirsSkipped

\* A run ends.
CHECK_DEADLOCK FALSE
