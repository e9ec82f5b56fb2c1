SPECIFICATION FairSpec
CONSTANTS
    r = r
    s = s
    b = b
    l = l
    Kind <- OneOfEach
    MaxThreads = 3
    MaxQueries = 2
    Main = Main
    Nobody = Nobody
CHECK_DEADLOCK FALSE
INVARIANTS
    TypeOK
    IndexIsHeldBriefly
PROPERTIES
    QueriesAreAnswered
    ReindexesRun
    TasksEnd
