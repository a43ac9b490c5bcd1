SPECIFICATION ESpec
CONSTANTS
    s1 = s1
    s2 = s2
    Streams = {s1, s2}
    MaxRiskedStreams = 1
    MaxAbsId = 5
    RealMaxCapacity = 6
    Capacities = {6}
    EntrySizes = {2, 3}
    ArrSlots = 2
    ArrBytes = 6
    MemGuard = FALSE
    MaxArrs = 1
    MidHeader = {}
    OneBlockPerStream = FALSE
    Fields <- MCTwoFields
    Overhead = 2
    Word = 7
    UseDup = TRUE
    Flags = {"none"}
SYMMETRY StreamSymmetry
INVARIANTS RefsLive UnackedLive RefsBracketed ProgramsSafe
