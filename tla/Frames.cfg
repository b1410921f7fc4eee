CONSTANTS
    QueueLen = 3
    Events <- MCEvents
    NoEvent = NoEvent
    Coord <- MCCoord
    Peak = 3
    PendingCap = 3
    Triggers = 2
    MaxTrials = 2
    Tick = 2
    Fittings <- MCFittings
    MaxLag = 1
    ClockWrap = 16
    CentralAhead = 11
VIEW Observed
SPECIFICATION Spec
INVARIANTS
    HitsExact
    TrialsExact
    FramesPaced
    HalvesInStep
PROPERTIES
    RingIsQueue

