SPECIFICATION FairSpec
CONSTANTS
    MaxElems = 5
    MaxTasks = 3
INVARIANTS
    NoFail
    PushSucceeds
PROPERTIES
    BenchEnds
CHECK_DEADLOCK FALSE
