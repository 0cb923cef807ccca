CONSTANTS
    f1 = f1
    f2 = f2
    Files          <- MCFiles
    RereadAttempts <- MCRereadAttempts
    NodeTries      <- MCNodeTries

SPECIFICATION FairSpec

INVARIANTS
    TypeOK
    ConsentBeforeWrite
    NeverFormatsStale
    SuccessIsComplete

PROPERTY Terminates

\* A flash ends.
CHECK_DEADLOCK FALSE
