SPECIFICATION FairSpec
CONSTANTS
    l1 = l1  v1 = v1  v2 = v2
    noContent = noContent  noSpec = noSpec  noConfig = noConfig  edited = edited
    NoContent = noContent  NoSpec = noSpec  NoConfig = noConfig  Edited = edited
    Libraries = {}
    Contents = {v1, v2}
    Specs <- OneSecretSpec
    StatusKeepsHash = TRUE
    UserOps = {"monitor", "secret"}
    Starts <- WithTheSecret
    MaxUid = 1
    MaxEdits = 2
    MaxFaults = 0
    MaxFlips = 2
    MaxPods = 1
    MaxTime = 1
PROPERTIES ReadyColumnTruthful
CHECK_DEADLOCK FALSE
