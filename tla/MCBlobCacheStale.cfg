CONSTANTS
    k1 = k1  k2 = k2  k3 = k3  k4 = k4
    v1 = v1  v2 = v2
    Key = {k1, k2, k3, k4}
    Val = {v1, v2}
    None = None
    MaxFreq = 3
    MaxTime = 1
    Caps <- SmallCaps
    Stacks <- SafeStacks
    Uses = {"read_through"}
    Lengths = {0, 1, 3}
    Budgets = {3}
    Wrapped = {"lru", "arc", "tinylfu"}
    MaxCount = 8
    Task = {t1, t2}
    Adapters = {"blob"}
    FillCap = 2
    Item = {a, b}
    Capacity = 2
    Hash = {0, 1}
    MaxAgings = 1
SPECIFICATION Spec
INVARIANTS BlobNeverStale
SYMMETRY Symmetry
