SPECIFICATION FairSpec
CONSTANTS
    Jobs = {j1, j2}
    Threads = {t1, t2, t3}
    NoJob = NoJob
INVARIANTS
    TypeOK
    SingleFlight
    QueueMatchesThreads
    NobodyStranded
PROPERTIES
    ImplementsLifecycle
    RunningEnds
    ThreadsReclaimed
