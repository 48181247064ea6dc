SPECIFICATION FairSpec
CONSTANTS
    a = a
    b = b
    c = c
    Items = {a, b, c}
    FlushCallers = {f1}
    Closer = closer
    Workers = {w1, w2}
    NoTask = NoTask
    Group <- MCGroup
    Window <- MCWindow
    RetryDelay = 2
    MaxFailures = 1
    Eager = TRUE
    EarlyFire = TRUE
CHECK_DEADLOCK FALSE
INVARIANTS
    TypeOK
    SingleWorker
    Wakeup
    Retained
    WiredShutdownFinishes
PROPERTIES
    ImplementsReliableQueue
    EventuallyProcessed
    CallsReturn
