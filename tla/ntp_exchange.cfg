\* The NTP exchange against a network that loses, duplicates and reorders.
CONSTANTS
    MaxClock = 3
    MaxReplies = 3
SPECIFICATION FairSpec
INVARIANTS
    TypeOK
    TimeIsFresh
    HeldWhileOpen
PROPERTIES
    Implements
    Settles
CHECK_DEADLOCK FALSE
