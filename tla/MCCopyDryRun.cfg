CONSTANTS
    f1 = f1
    f2 = f2
    Files          <- MCFiles
    RereadAttempts <- MCRereadAttempts
    NodeTries      <- MCNodeTries

SPECIFICATION Spec

INVARIANT DryRunForetells

\* A flash ends.
CHECK_DEADLOCK FALSE
