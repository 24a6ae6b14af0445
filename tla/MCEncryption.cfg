SPECIFICATION Spec
CONSTANTS
    Absent = Absent
    Failed = Failed
    None = None
    NoWrite = NoWrite
    Keys = {k1, k2}
    Values = {v1, v2}
    Keks = {kek1, kek2}
    MaxVersions = 3
    MaxOps = 3
    CellValues = {u1}
    Cells = {c1, c2}
    Secrets = {s1, s2}
    Threads = {t1, t2}
    MaxCellOps = 3
SYMMETRY Symmetry
INVARIANTS TypeOK HandlesReadTheirWrites ReadsOwnOrFails RotationSound ReopenLosesNothing
