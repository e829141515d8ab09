SPECIFICATION FairSpec
CONSTANTS
    MaxDepth = 4
    AwaitedKinds = {"task", "int", "void"}
    Executor = executor
PROPERTIES
    AwaiterResumed
CHECK_DEADLOCK FALSE
