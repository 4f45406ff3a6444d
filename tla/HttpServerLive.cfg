SPECIFICATION FairSpec
CONSTANTS
    Conns = {c1, c2}
    Fds = {3}
    NumWorkers = 1
    PoolThreads = {p1}
    QueueCapacity = 1
    KeepAliveTime = 0
    CleanupPeriod = 0
    MaxRequests = 2
    ClientResets = FALSE
    Signals = TRUE
    NoConn = NoConn
    NoFd = NoFd
PROPERTIES LocksReleased RequestsAnswered ZombiesCollected ShutdownReturns
\* The server stops after the signal, or when its clients stay silent.
CHECK_DEADLOCK FALSE
