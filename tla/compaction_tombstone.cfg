SPECIFICATION Spec
CONSTANTS
    Keys = {1, 2}
    Ops <- MCOps
    L0Trigger = 1
    L1Max = 2
    SplitSize = 1
    Faults = {}
    MaxSeq = 3
    MaxSnapshots = 1
    MaxEvents = 0
INVARIANTS
    TombstonesShadow
