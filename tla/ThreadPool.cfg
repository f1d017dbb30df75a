SPECIFICATION FairSpec
CONSTANTS
    Workers = {w1, w2, w3}
    Clients = {c1, c2}
    Tasks = {t1, t2, t3}
    NoTask = NoTask
INVARIANTS
    TypeOK
    WakeupsCoverQueue
    NobodySleepsAfterShutdown
    ShutdownDrains
PROPERTIES
    ImplementsTaskPool
    EveryTaskFinishes
    DestructorReturns
