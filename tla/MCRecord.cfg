SPECIFICATION CodecSpec
CONSTANTS
    Radix = 3
    LenBytes = 1
    TsBytes = 2
    Commits <- SmallCommits
    MaxDamage = 2
    None = None
    Corrupt = Corrupt
CHECK_DEADLOCK FALSE
INVARIANTS
    RoundTrip
    Canonical
    TornIsCorrupt
