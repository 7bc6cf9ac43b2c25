SPECIFICATION Spec
CONSTANTS
    nil = nil  nan = nan  noHash = noHash  noPreset = noPreset
    Nil = nil  NaN = nan  NoHash = noHash  NoPreset = noPreset
    Definitions <- UsualDefinitions
    Presets <- AllPresets
    Atoi <- AtoiTable
    BuiltinMetrics <- BuiltinMetricsTable
    BuiltinPresets <- BuiltinPresetsTable
    MaxLists = 3
    MaxLength = 2
INVARIANTS CollectsTheUnion NeverZeroInterval HashMovesOnlyByMapOrder LaterWins
CHECK_DEADLOCK FALSE
