SPECIFICATION FairSpec
CONSTANTS
    l1 = l1  v1 = v1  v2 = v2
    noContent = noContent  noSpec = noSpec  noConfig = noConfig  edited = edited
    NoContent = noContent  NoSpec = noSpec  NoConfig = noConfig  Edited = edited
    Libraries = {}
    Contents = {v1, v2}
    Specs <- PlainSpecs
    StatusKeepsHash = TRUE
    UserOps = {"monitor"}
    Starts <- Bare
    MaxUid = 2
    MaxEdits = 3
    MaxFaults = 1
    MaxFlips = 0
    MaxPods = 0
    MaxTime = 1
INVARIANTS TypeOK OwnerAlive ObservedMeansApplied
PROPERTIES RolloutAfterConfig ImplementsRollout Converges DeletionCompletes
CHECK_DEADLOCK FALSE
