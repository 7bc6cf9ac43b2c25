SPECIFICATION Spec
CONSTANTS
    NoObject = noObject
    Names = {"a"}
    ServiceNames = {"a"}
    Specs <- PushOnlySpecs
    ServiceMonitorEnabled = TRUE
    MaxEdits = 1
    MaxPods = 1
    MaxFaults = 0
INVARIANTS ProbePortOpen
CHECK_DEADLOCK FALSE
