SPECIFICATION ESpec
CONSTANTS
    s1 = s1
    s2 = s2
    Streams = {s1}
    MaxRiskedStreams = 1
    MaxAbsId = 4
    RealMaxCapacity = 6
    Capacities = {6}
    EntrySizes = {2, 4}
    ArrSlots = 2
    ArrBytes = 6
    MemGuard = TRUE
    MaxArrs = 1
    MidHeader = {}
    OneBlockPerStream = FALSE
    Fields <- MCFields
    Overhead = 2
    Word = 7
    UseDup = TRUE
    Flags = {"none", "no_dyn"}
SYMMETRY StreamSymmetry
PROPERTY NoDynUntouched
