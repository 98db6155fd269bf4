SPECIFICATION Spec
CONSTANTS
    u1 = u1
    u2 = u2
    u3 = u3
    small = small
    large = large
    j1 = j1
    j2 = j2
    j3 = j3
    Instances = {u1, u2, u3}
    HostTypes = {small, large}
    NoType = NoType
    MaxReplicas = 2
    Jobs = {j1, j2, j3}
    NoJob = NoJob
    NoVersion = NoVersion
    Environments <- OnlyStaleList
CHECK_DEADLOCK FALSE
INVARIANT QuietMatchesReplicas
