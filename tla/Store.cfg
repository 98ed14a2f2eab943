CONSTANTS
    Vals = {v1, v2}
    Threads = {t1, t2}
    Addrs = {a1, a2, a3}
    Num = 2
    ReleaseTime = 1
    MaxTime = 2
    Incidents = {"late", "reconnect", "unwatch"}
    MaxIncidents = 1
SPECIFICATION StoreSpec
SYMMETRY Symmetric
INVARIANTS PoolInv HoldersSafe Durable 
PROPERTIES PairsTogether 
CHECK_DEADLOCK FALSE
