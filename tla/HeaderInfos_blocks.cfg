SPECIFICATION HFairSpec
CONSTANTS
    Streams = {s1, s2}
    MaxRiskedStreams = 1
    MaxAbsId = 2
    RealMaxCapacity = 5
    Capacities = {1, 5}
    EntrySizes = {1}
    ArrSlots = 1
    ArrBytes = 2
    MemGuard = TRUE
    MaxArrs = 3
    MidHeader = {}
    OneBlockPerStream = FALSE
INVARIANTS HTypeOK NoFault RiskedListExact StreamsAtRiskCounted RiskBounded RingPerStream HInv
PROPERTY RiskEnds
