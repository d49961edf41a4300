SPECIFICATION Spec
CONSTANTS
    MaxLevel = 2
    Keys = {1, 2, 3}
    Batches <- MCBatches
    Scans <- MCScans
    MemLimit = 2
    MaxSeq = 4
INVARIANTS
    TypeOK
    ListsSorted
    SnapshotScanExact
    GetLinearizable
    ScanComplete
    ReadersInv
