SPECIFICATION PurgerSpec
CONSTANTS
    Task = {i1, i2, i3}
    Worker = {w1, w2}
    QueueSize = 6
    NoTask = NoTask
    IncludeLocked = TRUE
    Faults = {i1, i2}
    Interference = {i2}
\* The call returns and the pool comes to rest.
CHECK_DEADLOCK FALSE
INVARIANTS
    CountIsExact
    CountIsHonest
    NothingLeftUnlocked
    UndisturbedIsComplete
PROPERTIES
    BatchRefined
    PurgeReturns
