SPECIFICATION FairSpec
CONSTANTS
    l1 = l1  v1 = v1  v2 = v2
    noContent = noContent  noSpec = noSpec  noConfig = noConfig  edited = edited
    NoContent = noContent  NoSpec = noSpec  NoConfig = noConfig  Edited = edited
    Libraries = {l1}
    Contents = {v1, v2}
    Specs <- ReferringSpecs
    StatusKeepsHash = TRUE
    UserOps = {"monitor", "library", "secret", "child"}
    Starts <- Referred
    MaxUid = 1
    MaxEdits = 2
    MaxFaults = 0
    MaxFlips = 1
    MaxPods = 1
    MaxTime = 1

INVARIANTS RestsOnlyWhenDone
PROPERTIES Converges
CHECK_DEADLOCK FALSE
