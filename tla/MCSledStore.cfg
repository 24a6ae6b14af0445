SPECIFICATION Spec
CONSTANTS
    Key = {k1, k2}
    Value = {v1}
    Absent = Absent
    Thread = {t1, t2}
    Untouched = Untouched
    Ttl = {1}
    MaxTime = 1
    Workloads <- SomeWorkloads
    Careless = FALSE
SYMMETRY Symmetry
INVARIANTS TreesAgree SnapshotHonest
PROPERTY Refines
