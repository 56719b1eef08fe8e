SPECIFICATION PoolSpec
CONSTANTS
    Task = {t1, t2, t3, t4, t5}
    Worker = {w1, w2}
    QueueSize = 1
    NoTask = NoTask
\* The client may submit nothing more and the pool is then at rest.
CHECK_DEADLOCK FALSE
INVARIANTS
    QueueImpliesSaturation
    BoundedStragglers
PROPERTIES
    EveryTaskSettles
