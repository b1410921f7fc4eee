SPECIFICATION Spec
CONSTANTS
    NumConditions = 3
    NumOverlays = 2
    NumTriggers = 1
    Sides <- EitherSide
    Defects <- SomeDefect
    Scopes <- SomeScope
    Locals <- LocalOne
    Busy = TRUE
INVARIANTS
    FaultsExcluded
    ControlSettled
