CONSTANTS
    Callers = {c1, c2}
    Peripherals = {left}
    Central = right
    Presses <- SomePresses
    Togglers = {left}
    NumSlots = 2
    HueMax = 1
    SatMax = 1
    BrtMax = 1
    MinPeriod = 1
    MaxPeriod = 2
    HueStep = 3
    SatStep = 2
    BrtStep = 2
    PeriodStep = 3
    Defaults <- Plain
SYMMETRY CallerSymmetry
SPECIFICATION Spec
INVARIANT AcceptedEverywhere
PROPERTIES OnlyAddressed LoneCommandAgrees ChangesAnnounced
