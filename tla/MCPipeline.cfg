SPECIFICATION FairSpec
CONSTANTS
    NELEMS = 4
    Stages = 5
    w1 = w1
    w2 = w2
    w3 = w3
    w4 = w4
    w5 = w5
    w6 = w6
    Workers = {w1, w2, w3, w4, w5, w6}
    StageOf <- MCStageOf
    Driver = main
    ChanType <- MCChanType
    Func <- MCFunc
INVARIANTS
    TypeOK
    TokenConservation
    SomebodyGoesOn
    ClosedBehindTheWork
PROPERTIES
    ImplementsParallelMap
