SPECIFICATION FairSpec
CONSTANTS
    NPools = 2
    PoolSize = 2
    MaxRetry = 2
    Signals = {SIGTERM, SIGINT}
    HandlersRunIn <- AnyThread
    Main = main
    Nobody = nobody
    Writer = writer
INVARIANTS StateTellsTheTruth LoggerOutlivesWorkers TasksFindWorkers
PROPERTIES ShutdownCompletes
CHECK_DEADLOCK FALSE
