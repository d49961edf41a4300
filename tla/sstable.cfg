SPECIFICATION Spec
CONSTANTS
    RestartInterval = 2
    Tables <- MCTables
    Targets <- MCTargets
    BlockSize = 4
    Capacities = {4}
    Readers = {r1, r2}
    r1 = r1
    r2 = r2
    Hash <- MCHash
    WordBits = 16
    Faults = {"read"}
    MaxFiles = 2
    MaxEvents = 1
SYMMETRY ReaderSymmetry
INVARIANTS
    TypeOK
    CacheBounded
    CacheCoherent
    ScanPrefix
    ScanExact
    FilterComplete
CHECK_DEADLOCK FALSE
