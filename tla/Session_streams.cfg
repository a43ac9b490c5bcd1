SPECIFICATION SFairSpec
CONSTANTS
    Hblocks = {b1, b2}
    MaxEntries = 2
    MaxBlockedStreams = 1
    MaxInserts = 3
    MaxOutstanding = 1
    MaxQueue = 2
    MaxReports = 2
    MaxLines = 1
    Caps = {}
    Uses = {"cancel", "unref"}
INVARIANTS NoError SInv
PROPERTY ContextsEnd
