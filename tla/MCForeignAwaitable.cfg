SPECIFICATION FairSpec
CONSTANTS
    Incrementers = {i1, i2, i3}
    Programs <- AsUsed
INVARIANTS
    DestroyedAlone
    ResultReady
    NoMissedIncrement
PROPERTIES
    Completes
CHECK_DEADLOCK FALSE
