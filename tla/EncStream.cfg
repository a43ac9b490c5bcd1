SPECIFICATION ESpec
CONSTANTS
    Code <- MCCode
    ByteBits = 4
    WordBytes = 4
    PairBits = 8
    UintBits = 7
    GroupBits = 3
    RingInit = 3
    None = None
    MaxCapacity = 6
    Overhead = 2
    StaticNames <- MCStaticNames
    IntLimit = 7
    EmptyNameRoom = 1
    MaxInstructions = 3
    MaxQueue = 2
    Instructions <- MCInstructions
    AllocMayFail = TRUE
INVARIANTS MemoryExact InBounds CapacityExact
PROPERTIES TableImplemented
CHECK_DEADLOCK FALSE
