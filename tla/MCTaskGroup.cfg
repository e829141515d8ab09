SPECIFICATION FairGroupSpec
CONSTANTS
    Programs <- MCPrograms
INVARIANTS
    AsAsserted
PROPERTIES
    Joins
CHECK_DEADLOCK FALSE
