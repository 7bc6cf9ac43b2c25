SPECIFICATION FairSpec
CONSTANTS
    l1 = l1  v1 = v1  v2 = v2
    noContent = noContent  noSpec = noSpec  noConfig = noConfig  edited = edited
    NoContent = noContent  NoSpec = noSpec  NoConfig = noConfig  Edited = edited
    Libraries = {}
    Contents = {v1, v2}
    Specs <- OneSpec
    StatusKeepsHash = TRUE
    UserOps = {"monitor"}
    Starts <- Bare
    MaxUid = 1
    MaxEdits = 1
    MaxFaults = 0
    MaxFlips = 2
    MaxPods = 1
    MaxTime = 3

PROPERTIES Converges GoesQuiet ConfigEventsStop
CHECK_DEADLOCK FALSE
