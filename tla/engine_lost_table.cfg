SPECIFICATION Spec
CONSTANTS
    Keys = {1, 2}
    Ops <- MCOpsPutDelete
    SyncWrites = TRUE
    MemLimit = 1
    SegLimit = 2
    L0Trigger = 10
    L1Max = 10
    Writers = 1
    Faults = {"lostsst"}
    MaxSeq = 3
    MaxCrashes = 2
    MaxFaults = 1
INVARIANTS
    Durable
