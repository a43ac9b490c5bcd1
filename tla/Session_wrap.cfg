SPECIFICATION SSpec
CONSTANTS
    Hblocks = {b1}
    MaxEntries = 2
    MaxBlockedStreams = 1
    MaxInserts = 5
    MaxOutstanding = 1
    MaxQueue = 2
    MaxReports = 1
    MaxLines = 2
    Caps = {0, 2}
    Uses = {"nameref", "dup", "cancel"}
INVARIANTS STypeOK NoMisread NoError BlockedExact KnownCovers
