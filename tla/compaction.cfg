SPECIFICATION Spec
CONSTANTS
    Keys = {1, 2}
    Ops <- MCOps
    L0Trigger = 1
    L1Max = 4
    SplitSize = 1
    Faults = {"build", "read", "manifest"}
    MaxSeq = 3
    MaxSnapshots = 1
    MaxEvents = 1
INVARIANTS
    TypeOK
    ValuesKept
    DeletesKept
    TablesBacked
    ManifestAgrees
    SeqNotReused
    CompactionInv
VIEW MCView
