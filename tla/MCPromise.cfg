SPECIFICATION Spec
CONSTANTS
    Txn = {t1, t2, t3}
    Key = {k1, k2}
    None = None
    Timestamp = {1, 2}
SYMMETRY Symmetry
CHECK_DEADLOCK FALSE
INVARIANTS
    IInv
    StableReads
