SPECIFICATION Spec
CONSTANTS
    Keys = {1, 2}
    Ops <- MCOps
    SyncWrites = TRUE
    MemLimit = 2
    SegLimit = 1
    L0Trigger = 10
    L1Max = 10
    Writers = 1
    Faults = {"append", "build", "manifest", "power"}
    MaxSeq = 4
    MaxCrashes = 2
    MaxFaults = 1
INVARIANTS
    TypeOK
    Durable
    ReadsSurviveCrash
    SeqFresh
    VersionMatchesManifest
PROPERTIES
    LiveFilesImmutable
    CutoffMonotone
