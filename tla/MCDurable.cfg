SPECIFICATION DurableSpec
CONSTANTS
    t1 = t1
    t2 = t2
    t3 = t3
    k1 = k1
    k2 = k2
    None = None
    Txn = {t1, t2, t3}
    Key = {k1, k2}
    Shards = 1
    Hash <- OneShard
    Collector = {}
    Kind = {"ser"}
    Op = {"put"}
    MaxOps = 2
    Fallible = FALSE
    MaxTs = 4
    MaxCrash = 1
    Faulty = FALSE
SYMMETRY Symmetry
CHECK_DEADLOCK FALSE
INVARIANTS
    LogTimestampsUnique
    KeyRecordsInOrder
    RecoveryKeepsDependencies
    SurvivorsIsolated
PROPERTIES
    RecoveryIsComplete
