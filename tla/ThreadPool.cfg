SPECIFICATION FairSpec
CONSTANTS
    Workers = {w1, w2, w3}
    Callers = {c1, c2}
    Tasks = {t1, t2, t3}
    Nobody = Nobody
    NoTask = NoTask
INVARIANTS ExactlyOnce CountHonest NoLostWakeup
PROPERTIES TasksComplete ShutdownCompletes
\* The destructor may hang in join, or be done.
CHECK_DEADLOCK FALSE
