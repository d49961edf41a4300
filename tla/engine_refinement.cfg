SPECIFICATION Spec
CONSTANTS
    Keys = {1, 2}
    Ops <- MCOps
    SyncWrites = TRUE
    MemLimit = 2
    SegLimit = 1
    L0Trigger = 10
    L1Max = 10
    Writers = 1
    Faults = {"append", "build", "manifest"}
    MaxSeq = 3
    MaxCrashes = 2
    MaxFaults = 1
INVARIANTS
    IndInv
    ReadInv
    NoGapInv
PROPERTIES
    ImplementsKVStore
