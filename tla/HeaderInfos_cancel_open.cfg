SPECIFICATION HSpec
CONSTANTS
    Streams = {s1, s2}
    MaxRiskedStreams = 1
    MaxAbsId = 2
    RealMaxCapacity = 4
    Capacities = {4}
    EntrySizes = {1}
    ArrSlots = 2
    ArrBytes = 4
    MemGuard = TRUE
    MaxArrs = 1
    MidHeader = {"cancel"}
    OneBlockPerStream = FALSE
INVARIANT InProgressKept
