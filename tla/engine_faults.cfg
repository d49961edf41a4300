SPECIFICATION Spec
CONSTANTS
    Keys = {1}
    Ops <- MCOpsPutDelete
    SyncWrites = TRUE
    MemLimit = 1
    SegLimit = 2
    L0Trigger = 10
    L1Max = 10
    Writers = 1
    Faults = {"append", "sync", "tornwal", "build", "manifest", "tornmanifest", "power", "lostsst"}
    MaxSeq = 3
    MaxCrashes = 1
    MaxFaults = 1
PROPERTIES
    SnapshotReadsStable
CHECK_DEADLOCK FALSE
