SPECIFICATION FairServerSpec
CONSTANTS
    Acceptors = {a1, a2}
    Clients = {c1, c2, c3}
INVARIANTS
    NothingLeft
PROPERTIES
    Answered
    ShutsDown
CHECK_DEADLOCK FALSE
