SPECIFICATION Spec
CONSTANTS
    nil = nil  nan = nan  noHash = noHash  noPreset = noPreset
    Nil = nil  NaN = nan  NoHash = noHash  NoPreset = noPreset
    Definitions <- StarKey
    Presets <- AllPresets
    Atoi <- AtoiTable
    BuiltinMetrics <- BuiltinMetricsTable
    BuiltinPresets <- BuiltinPresetsTable
    MaxLists = 1
    MaxLength = 1
INVARIANTS SomeStatementLeft
CHECK_DEADLOCK FALSE
