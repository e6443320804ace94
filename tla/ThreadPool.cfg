SPECIFICATION Spec
CONSTANTS
    Workers = {w1, w2}
    Tasks = {t1, t2, t3}
    NoTask = NoTask
    ClockBound = 2
INVARIANTS PoolInv
PROPERTIES ImplementsTaskPool PoolProgress
