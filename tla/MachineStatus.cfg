SPECIFICATION FairSpec
CONSTANTS
    Pools = {p1, p2}
    Leases = {a1}
    NoLease = NoLease
    NoObj = NoObj
    MaxFaults = 3
INVARIANTS TypeOK VolumesReclaimed NoLostWakeup
PROPERTIES LostStaysLost StatusConverges DeletionCompletes
CHECK_DEADLOCK FALSE
