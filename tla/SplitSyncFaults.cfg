\* One invoking thread, one peripheral, every irregularity but blips.
CONSTANTS
    Clients = {c1}
    NumSources = 1
    NumItems = 2
    Values = {0, 1}
    ResetItems = {1, 2}
    Default = 0
    Broken = {}
    Irregular = {"local", "reject", "drop", "refuse", "query", "switch"}
SPECIFICATION Spec
PROPERTY CompletionSound
