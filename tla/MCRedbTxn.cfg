SPECIFICATION FairSpec
CONSTANTS
    Key = {k1}
    Value = {v1, v2}
    Absent = Absent
    Thread = {t1, t2}
    Nobody = Nobody
    Untouched = Untouched
    Ttl = {1}
    MaxTime = 1
    Op <- TxnOps
    Reentrant = FALSE
    Careless = TRUE
INVARIANTS TxnIsolation ReadYourWrites
PROPERTIES CasAtomic LockReleased
