\* Two threads use every operation but activity changes; a strip that may fail.
SPECIFICATION Spec
CONSTANTS
    Clients = {c1, c2}
    Levels = {1, 2}
    InitialLevel = 1
    InitialOn = TRUE
    QueueLen = 3
    HasLeds = TRUE
    IdleCap = "low"
    StripFaults = TRUE
    Ops = {"commit", "source", "select", "inhibit", "key", "user", "level", "charge", "reset"}
SYMMETRY ClientSymmetry
INVARIANTS
    NoLostWakeup
    EvaluationPending
    FreshGates
    PaintedCurrent
    InputServed
    AnimationArmed
    DarkWhenBlocked
