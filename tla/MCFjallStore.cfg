SPECIFICATION FairSpec
CONSTANTS
    t1 = t1
    Key = {k1, k2}
    Value = {v1}
    Absent = Absent
    Thread = {t1, t2, t3}
    Nobody = Nobody
    Untouched = Untouched
    Ttl = {1}
    Reentrant = FALSE
    Careless = FALSE
    MaxTime = 1
    Workloads <- SomeWorkloads
INVARIANTS KeyspacesAgree
PROPERTIES SnapshotStable CasAtomic LockReleased Refines
