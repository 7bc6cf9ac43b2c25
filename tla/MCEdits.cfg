SPECIFICATION FairSpec
CONSTANTS
    l1 = l1  v1 = v1  v2 = v2
    noContent = noContent  noSpec = noSpec  noConfig = noConfig  edited = edited
    NoContent = noContent  NoSpec = noSpec  NoConfig = noConfig  Edited = edited
    Libraries = {}
    Contents = {v1, v2}
    Specs <- RecoveringSpecs
    StatusKeepsHash = TRUE
    UserOps = {"monitor", "secret", "crd"}
    Starts <- Full
    MaxUid = 1
    MaxEdits = 3
    MaxFaults = 1
    MaxFlips = 0
    MaxPods = 0
    MaxTime = 1

PROPERTIES Converges
CHECK_DEADLOCK FALSE
