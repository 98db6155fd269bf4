SPECIFICATION MCSpec
CONSTANTS
    i1 = i1  i2 = i2  i3 = i3
    h1 = h1  h2 = h2
    keep = keep
    Instances <- ThreeInstances
    Hosts <- TwoHosts
    Matching <- TwoHosts
    NoHost = NoHost
    NoInstance = NoInstance
    Backend = "openstack"
    MaxConcurrentReconciles = 2
    MaxLag = 1
    MaxFaults = 1
    Labels <- LabelKeys
    InventoryLabels <- OwnLabel
    PersistentLabels <- KeptLabel
SYMMETRY Interchangeable
CHECK_DEADLOCK FALSE
INVARIANTS
    TypeOK
    LockExclusion
    ClaimStillFree
    ReleaseAfterManagement
    NoLockLeak
    ClaimsStayRecorded
    LabelsStayRecorded
    BookedOnce
    HolderManages
PROPERTIES
    PersistentLabelsStay
    ImplementsHostClaims
