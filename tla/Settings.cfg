\* Loads, resets and saves race each other, with restarts at any point, after
\* other firmware has left its records in the flash.
CONSTANTS
    Base = 3
    MaxBrightness = 1
    Clients = {c1}
    Choices <- OnOrOff
    InitialGlobal <- On
    NumSelectors = 1
    NumSlots = 2
    Initial <- NoSuchSlot
    Foreign <- OtherFirmware
SPECIFICATION FairSpec
INVARIANTS SaveOwed RetainedValid RecordsRead
PROPERTIES ResetStands SavesSettle
