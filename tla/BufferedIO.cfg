SPECIFICATION FairSpec
CONSTANTS
    Capacity = 3
    Steps = 8
    Interval = 2
    MaxTime = 3
    None = None
INVARIANTS
    TypeOK
    OutputClosedLast
    CleanExitFlushed
    DropLogTrue
    LossesReportedOnce
    AlertsLimited
PROPERTIES
    EveryOtherStepDropped
    BothThreadsEnd
    ImplementsLossyFifo
