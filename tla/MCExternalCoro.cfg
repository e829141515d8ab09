SPECIFICATION FairSpec
CONSTANTS
    MaxDepth = 5
    AwaitedKinds = {"task", "int"}
    Executor = executor
INVARIANTS
    StackIntact
    CompleteOnReturn
PROPERTIES
    AwaiterResumed
CHECK_DEADLOCK FALSE
