SPECIFICATION Spec
CONSTANTS
    Conns = {c1, c2}
    Fds = {3}
    NumWorkers = 2
    PoolThreads = {p1}
    QueueCapacity = 1
    KeepAliveTime = 0
    CleanupPeriod = 0
    MaxRequests = 2
    ClientResets = TRUE
    Signals = TRUE
    NoConn = NoConn
    NoFd = NoFd
SYMMETRY MCSymmetry
INVARIANTS TablesOwnDescriptors NoDescriptorLeak
PROPERTIES ClosedForAReason
\* The server stops after the signal, or when its clients stay silent.
CHECK_DEADLOCK FALSE
