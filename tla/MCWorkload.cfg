SPECIFICATION Spec
CONSTANTS
    NoObject = noObject
    Names = {"a", "b"}
    ServiceNames = {"a", "b"}
    Specs <- UsualSpecs
    ServiceMonitorEnabled = TRUE
    MaxEdits = 2
    MaxPods = 2
    MaxFaults = 1
INVARIANTS ScrapesItsOwn ScrapeReachesSink NeverPanics OwnUpdateAdmitted BuiltAsWritten
PROPERTIES DeploymentAcceptable RollsOnConfigChange
CHECK_DEADLOCK FALSE
