SPECIFICATION FanoutSpec
CONSTANTS
    MaxUid = 2
    MaxEdits = 3
    MaxFaults = 1
    Monitors = {m1, m2}
    Listing = {m1}
    NoMonitor = NoMonitor
INVARIANTS TypeOK ObservedMeansJudged NoLostWakeup
PROPERTIES ObservedNeverRegresses SettlesDown ReachesEveryMonitor
CHECK_DEADLOCK FALSE
