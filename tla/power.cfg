SPECIFICATION MCSpec
CONSTANTS
    Backend = "openstack"
    StaleReads = TRUE
    RunStrategies = {"", "Always", "Halted"}
    EditWhenSettled = TRUE
    MaxEdits = 3
    MaxFaults = 1
    MaxLag = 1
CHECK_DEADLOCK FALSE
INVARIANTS
    TypeOK
    RestartOnce
    QuietIsConverged
PROPERTIES
    NoRestartLost
    HastyPowerConverges
