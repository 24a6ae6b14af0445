SPECIFICATION Spec
CONSTANTS
    Key = {k1}
    Value = {v1}
    Absent = Absent
    Thread = {t1, t2}
    Nobody = Nobody
    Untouched = Untouched
    Ttl = {1}
    MaxTime = 1
    Op = {"put", "put_with_ttl", "get"}
    Reentrant = FALSE
    Careless = TRUE
PROPERTY EvictsOnlyExpired
