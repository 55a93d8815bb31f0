SPECIFICATION Spec
CONSTANTS
    t1 = t1
    t2 = t2
    t3 = t3
    k1 = k1
    k2 = k2
    None = None
    Txn = {t1, t2, t3}
    Key = {k1, k2}
    Shards = 2
    Hash <- TwoShards
    Collector = {}
    Kind = {"ser"}
    Op = {"put"}
    MaxOps = 2
    Fallible = FALSE
    MaxTs = 4
SYMMETRY Symmetry
CHECK_DEADLOCK FALSE
INVARIANTS
    NoReadOnlyAnomaly
