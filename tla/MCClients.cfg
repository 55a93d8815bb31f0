SPECIFICATION ClientsSpec
CONSTANTS
    w1 = w1
    w2 = w2
    w3 = w3
    None = None
    Txn = {w1, w2, w3}
    Key = {"counter", "alice", "bob", "mode", "limit", "a", "b", "c"}
    Shards = 2
    Hash <- ExampleHash
    Collector = {g1}
    Kind = {"si", "ser", "snapshot"}
    Op = {"put", "delete"}
    MaxOps = 4
    Fallible = TRUE
    MaxTs = 7
CHECK_DEADLOCK FALSE
INVARIANTS
    CounterExact
    MoneyConserved
    SomeoneOnCall
    ReportsWhole
    LastWriterWins
    CountsWhatIsRead
PROPERTIES
    ClientReturns
    TimestampsSettle
    GarbageReclaimed
