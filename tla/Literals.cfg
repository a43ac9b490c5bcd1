SPECIFICATION LSpec
CONSTANTS
    Code <- MCCode
    ByteBits = 4
    WordBytes = 4
    PairBits = 8
    UintBits = 5
    GroupBits = 2
    PrefixWidths = {1, 2}
    Strings <- MCStrings
    IntInputs <- MCIntInputs
    HuffInputs <- MCHuffInputs
    StreamInputs <- MCStreamInputs
    Rooms = {0, 2, 9}
    Grow = 1
INVARIANTS StringsReadBack IntsExact InstructionsExact HuffmanExact NoOverrun RoomNeeded
CHECK_DEADLOCK FALSE
