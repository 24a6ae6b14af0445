SPECIFICATION Spec
CONSTANTS
    doc = doc
    short = short
    long = long
    Task = {t1, t2}
    Value = {short, long}
    Size <- SizeOf
    NamedKey <- SomeKeys
    NoExt = NoExt
    KeyOrder <- Keys
    DirOrder <- Paths
    Prefix <- SomePrefixes
    Hole = Hole
    Absent = Absent
    Stock <- SomeStocks
    Capacity = 3
    MaxOps = 2
    MaxCrashes = 1
    k1 = k1
    k2 = k2
    Client = {c1, c2}
    Names <- SomeNames
    Payload = {x, y}
    Missing = Missing
    Unknown = Unknown
    Attempts = {0, 2}
    Initial <- SomeObjects
    x = x
    y = y
    PartNumber = {1, 2}
    UploadId = {1, 2, 3, 4}
    Margin = 1
    TokenLife = {1}
    MaxClock = 2
    MaxPage = 1
    MaxCalls = 2
    MaxSteps = 4
    MaxFaults <- SomeFaults
SYMMETRY Symmetry
CHECK_DEADLOCK FALSE
INVARIANTS BlobStateOK BlobsWhole ListingsRight AckedWritesStay 
PROPERTY ConditionsHonoured
