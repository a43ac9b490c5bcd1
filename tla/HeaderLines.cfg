SPECIFICATION HLSpec
CONSTANTS
    Code <- MCCode
    ByteBits = 6
    WordBytes = 4
    PairBits = 8
    UintBits = 11
    GroupBits = 5
    StaticTable <- MCStaticTable
    MaxEntries = 32
    Entries <- MCEntries
    IntLimit = 40
    MaxStrlen = 12
    Blocks <- MCBlocks
    Options <- MCOptions
    Applications <- MCApplications
    NoHdr = NoHdr
    NoRef = NoRef
INVARIANTS LinesExact ErrorsReal OutInBounds RoundsBounded
CHECK_DEADLOCK FALSE
