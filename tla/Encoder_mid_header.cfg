SPECIFICATION ESpec
CONSTANTS
    s1 = s1
    s2 = s2
    Streams = {s1, s2}
    MaxRiskedStreams = 1
    MaxAbsId = 4
    RealMaxCapacity = 6
    Capacities = {4, 6}
    EntrySizes = {2, 4}
    ArrSlots = 2
    ArrBytes = 6
    MemGuard = TRUE
    MaxArrs = 1
    MidHeader = {"ack", "ici"}
    OneBlockPerStream = TRUE
    Fields <- MCFields
    Overhead = 2
    Word = 7
    UseDup = TRUE
    Flags = {"none", "no_index", "no_dyn"}
SYMMETRY StreamSymmetry
INVARIANTS TableExact InProgressKept HInv EInv CopiesStay
PROPERTY EvictionSafe
CHECK_DEADLOCK FALSE
