SPECIFICATION Spec
CONSTANTS
    Backend = "metal3"
    StaleReads = FALSE
    RunStrategies = {"", "Always", "Halted"}
    EditWhenSettled = TRUE
    MaxEdits = 2
    MaxFaults = 0
    MaxLag = 0
CHECK_DEADLOCK FALSE
PROPERTY EveryRestartServed
