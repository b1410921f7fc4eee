\* One thread changes activity among other things; a strip that may fail; fairness.
SPECIFICATION FairSpec
CONSTANTS
    Clients = {c1}
    Levels = {1}
    InitialLevel = 1
    InitialOn = TRUE
    QueueLen = 3
    HasLeds = TRUE
    IdleCap = "low"
    StripFaults = TRUE
    Ops = {"commit","source","activity","key","user"}
INVARIANTS
    SleepDark
PROPERTIES
    BlackoutDelivered
    Settles
CHECK_DEADLOCK FALSE
