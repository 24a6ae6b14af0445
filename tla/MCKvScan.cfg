SPECIFICATION Spec
CONSTANTS
    Key <- ThreeKeys
    KeysInOrder <- InByteOrder
    Value = {v1, v2}
    OldValue = {v1}
    NewValue = {v2}
    Absent = Absent
    Untouched = Untouched
    Unbounded = Unbounded
    MaxByte = 1
    MaxLen = 2
    Ttl = {1}
    MaxTime = 1
    MaxExpiring = 1
    MaxStaged = 2
    MaxWrites = 1
    Backend = {"redb", "sled", "fjall"}
INVARIANTS ScanComplete ScanHonest
