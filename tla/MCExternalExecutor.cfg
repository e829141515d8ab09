SPECIFICATION FairSpec
CONSTANTS
    Runners = {r1, r2}
    Posters = {p1}
    Owner = main
    Work = {w1, w2, w3}
    MaxSpurious = 1
    None = None
INVARIANTS
    NoLostWakeup
    EachOnceInOrder
    MutexHeldByRunner
PROPERTIES
    NoneAbandoned
    ImplementsWorkPool
    JoinReturns
CHECK_DEADLOCK FALSE
