SPECIFICATION FairSpec
CONSTANTS
    Incrementers = {i1, i2}
    Programs <- SpawnAgain
INVARIANTS
    SafeToAwaitAgain
CHECK_DEADLOCK FALSE
