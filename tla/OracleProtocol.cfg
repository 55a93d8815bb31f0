SPECIFICATION FairSpec
CONSTANTS
    Committer = {c1, c2, c3, c4}
    Reader = {r1, r2, r3}
    Collector = {g1}
    MaxTs = 7
INVARIANTS
    IInv
    WatermarkBelowInFlight
    WatermarkTight
    TimestampsUnique
    NoReaderBelowSweep
    RegistryMatchesHandles
PROPERTIES
    WatermarkMonotone
    WatermarkCatchesUp
