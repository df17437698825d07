CONSTANTS
    Elsewhere <- Ways
    Unwatchable = {"shut"}
    TargetStays = TRUE  EarlyEdits = FALSE
    MaxSteps = 3
    Outputs <- TwoOutputs
    Wording <- Tried
    Tables <- TriedTables
    Home = TRUE
    MaxEdits = 3
    Parts = {"loading", "watching"}
SPECIFICATION PartsSpec
INVARIANTS RunsWhatIsSaid RefusesRightly WatchesHeld
PROPERTIES EditsTakeEffect
CHECK_DEADLOCK FALSE
