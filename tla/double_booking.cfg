SPECIFICATION Spec
CONSTANTS
    i1 = i1  i2 = i2  i3 = i3
    h1 = h1  h2 = h2
    keep = keep
    Instances <- ThreeInstances
    Hosts <- OneHost
    Matching <- OneHost
    NoHost = NoHost
    NoInstance = NoInstance
    Backend = "metal3"
    MaxConcurrentReconciles = 2
    MaxLag = 0
    MaxFaults = 0
    Labels <- LabelKeys
    InventoryLabels <- NoLabels
    PersistentLabels <- NoLabels
SYMMETRY Symmetry
CHECK_DEADLOCK FALSE
INVARIANT NoDoubleBooking
