SPECIFICATION Spec
CONSTANTS
    NaN = NaN
    NegZero = NegZero
    Null = Null
    Schema <- SomeSchemas
    Target <- SomeTargets
    Cell <- SomeCells
    Number = {0, 1, 2}
    GroupSize = {1, 2}
    BatchSize = 2
    MaxBatches = 2
    MaxRows = 2
    Tab = 0
    Slash = 1
    Underscore = 2
    Letter = 3
    NullValue = NullValue
    PartValue <- SomeValues
    RowId = {r1, r2}
    Width = {1, 2}
    MaxJobs = 2
CHECK_DEADLOCK FALSE
INVARIANTS TableReadsRight PruningSound DatasetReadsRight
