SPECIFICATION FairSpec
CONSTANTS
    Pools = {p1}
    Leases = {a1}
    NoLease = NoLease
    NoObj = NoObj
    MaxFaults = 1
PROPERTY SuspendedReported
CHECK_DEADLOCK FALSE
