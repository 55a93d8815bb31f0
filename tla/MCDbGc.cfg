SPECIFICATION Spec
CONSTANTS
    t1 = t1
    t2 = t2
    t3 = t3
    k1 = k1
    k2 = k2
    None = None
    Txn = {t1, t2, t3}
    Key = {k1}
    Shards = 1
    Hash <- OneKey
    Collector = {g1, g2}
    Kind = {"si", "snapshot"}
    Op = {"put", "delete"}
    MaxOps = 2
    Fallible = TRUE
    MaxTs = 4
SYMMETRY Symmetry
CHECK_DEADLOCK FALSE
INVARIANTS
    SnapshotsIntact
    DbInv
PROPERTIES
    OracleContract
