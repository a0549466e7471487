SPECIFICATION FairSpec
CONSTANTS
    f1 = f1
    f2 = f2
    w = w
    c1 = c1
    c2 = c2
    Files = {f1, f2}
    Worker = w
    Clients = {c1}
    NoFile = NoFile
    MaxAttempts = 3
    Overlap = FALSE
    MaxRequests = 1
    MaxFaults = 1
CHECK_DEADLOCK FALSE
INVARIANTS
    ExecutionBudget
PROPERTIES
    ImplementsLifecycle
    QueuedFilesSettle
