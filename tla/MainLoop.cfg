SPECIFICATION FairSpec
CONSTANTS
    MaxMessages = 5
    MaxThreads = 2
CHECK_DEADLOCK FALSE
INVARIANTS
    TypeOK
    AnsweredInOrder
    CleanExitWasShutdown
    ServedInSessionOnly
PROPERTIES
    LoopLeftProcessEnds
