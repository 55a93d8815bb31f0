SPECIFICATION DurableSpec
CONSTANTS
    t1 = t1
    t2 = t2
    t3 = t3
    k1 = k1
    k2 = k2
    None = None
    Txn = {t1, t2, t3}
    Key = {k1}
    Shards = 1
    Hash <- OneKey
    Collector = {g1}
    Kind = {"si"}
    Op = {"put", "delete"}
    MaxOps = 2
    Fallible = FALSE
    MaxTs = 4
    MaxCrash = 2
    Faulty = TRUE
SYMMETRY Symmetry
CHECK_DEADLOCK FALSE
INVARIANTS
    AckedIsSynced
    RecoveredSnapshots
