SPECIFICATION FairSpec
CONSTANTS
    Clients = {c1, c2}
    Free = Free
    MaxOperations = 4
INVARIANTS
    RunningIffPending
    FifoCompletion
    StoppedMeansDrained
PROPERTIES
    ImplementsLifecycle
    AcceptedCompletes
    StopReturns
