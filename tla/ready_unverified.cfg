SPECIFICATION Spec
CONSTANTS
    Backend = "openstack"
    StaleReads = TRUE
    RunStrategies = {"Always", "Halted"}
    EditWhenSettled = FALSE
    MaxEdits = 2
    MaxFaults = 0
    MaxLag = 0
CHECK_DEADLOCK FALSE
PROPERTY ReadyIsVerified
