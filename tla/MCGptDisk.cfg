CONSTANTS
    SectorSizes   <- MCSectorSizes
    NtfsSector    <- MCNtfsSector
    MiB           <- MCMiB
    GptArrayBytes <- MCGptArrayBytes
    FloorBytes    <- MCFloorBytes
    LoaderBytes   <- MCLoaderBytes
    MaxBytes      <- MCMaxBytes

SPECIFICATION Spec

INVARIANTS
    TypeOK
    NeverMisfit
    FirmwareFindsTable
    OldSignaturesGone
    LoaderSurvives

\* A run ends.
CHECK_DEADLOCK FALSE
