\* The server's name cannot be resolved.
CONSTANTS
    MaxClock = 3
    MaxReplies = 1
SPECIFICATION FairSpec
INVARIANT FailuresAreReported
CHECK_DEADLOCK FALSE
