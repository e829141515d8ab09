SPECIFICATION FairSpec
CONSTANTS
    NELEMS = 4
    Stages = 5
    Parallelisms <- MCParallelisms
    Func <- MCFunc
INVARIANTS
    Conveyor
    ClosedWhenComplete
    InFlightBound
    InternalPushNeverBlocks
    SomebodyGoesOn
    NothingRunsAfterJoin
PROPERTIES
    ImplementsOrderedMap
