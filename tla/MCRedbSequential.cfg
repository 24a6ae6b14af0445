SPECIFICATION Spec
CONSTANTS
    Key = {k1, k2}
    Value = {v1}
    Absent = Absent
    Thread = {t1}
    Nobody = Nobody
    Untouched = Untouched
    Ttl = {1}
    MaxTime = 2
    Op <- SequentialOps
    Reentrant = FALSE
    Careless = FALSE
INVARIANT NoOrphanTtl
PROPERTIES SnapshotStable Refines
