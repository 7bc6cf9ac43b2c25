SPECIFICATION FairSpec
CONSTANTS
    Procs = {A, B}
    MaxUid = 2
    Scopes <- HandoverAndRivals
INVARIANTS OwnersHold
PROPERTIES ConvergesAcrossProcesses NothingLeftBehind
CHECK_DEADLOCK FALSE
