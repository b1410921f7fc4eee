\* Calls that overlap and fail, one peripheral that comes and goes.
CONSTANTS
    Clients = {c1, c2}
    NumSources = 1
    NumItems = 1
    Values = {0, 1}
    ResetItems = {1}
    Default = 0
    Broken = {}
    Irregular = {"reject"}
SPECIFICATION FairSpec
INVARIANTS SyncAlive ReplicasAgree
PROPERTY Converges
