\* Two peripherals, one of which refuses everything; no calls.  What the items
\* hold does not matter here.
CONSTANTS
    Clients = {}
    NumSources = 2
    NumItems = 9
    Values = {0}
    ResetItems = {}
    Default = 0
    Broken = {0}
    Irregular = {}
    Layouts <- MCLayouts
SPECIFICATION WalkSpec
INVARIANT WalkInStep
PROPERTY PeersServed
