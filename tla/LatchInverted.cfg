SPECIFICATION Spec
CONSTANTS
    Callers = {keymap, trigger}
    Peripherals = {left}
    Reboots = FALSE
INVARIANTS
    NeverInverted
