SPECIFICATION Spec
CONSTANTS
    i1 = i1  i2 = i2  i3 = i3
    h1 = h1  h2 = h2
    keep = keep
    Instances <- TwoInstances
    Hosts <- OneHost
    Matching <- OneHost
    NoHost = NoHost
    NoInstance = NoInstance
    Backend = "openstack"
    MaxConcurrentReconciles = 2
    MaxLag = 0
    MaxFaults = 1
    Labels <- LabelKeys
    InventoryLabels <- NoLabels
    PersistentLabels <- NoLabels
SYMMETRY Symmetry
CHECK_DEADLOCK FALSE
INVARIANT ReadyIsAllocated
