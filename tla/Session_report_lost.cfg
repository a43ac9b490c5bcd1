SPECIFICATION SSpec
CONSTANTS
    Hblocks = {b1}
    MaxEntries = 2
    MaxBlockedStreams = 1
    MaxInserts = 4
    MaxOutstanding = 1
    MaxQueue = 2
    MaxReports = 2
    MaxLines = 1
    Caps = {}
    Uses = {}
INVARIANT NoReportLost
