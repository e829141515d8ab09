SPECIFICATION FairSpec
CONSTANTS
    MaxPosts = 5
INVARIANTS
    TimerGuardsBatch
    ElementsInOrder
PROPERTIES
    ReturnsAfterClose
    EveryElementFlushed
CHECK_DEADLOCK FALSE
