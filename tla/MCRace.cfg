SPECIFICATION FairRaceSpec
CONSTANTS
    Rounds = 3
INVARIANTS
    TimersOutliveTheirWaits
    OnlyLosersAborted
PROPERTIES
    LoopEnds
CHECK_DEADLOCK FALSE
