SPECIFICATION RestartedSpec
CONSTANTS
    f1 = f1
    f2 = f2
    w = w
    c1 = c1
    c2 = c2
    Files = {f1}
    Worker = w
    Clients = {c1}
    NoFile = NoFile
    MaxAttempts = 2
    Overlap = FALSE
    MaxRequests = 0
    MaxFaults = 1
CHECK_DEADLOCK FALSE
PROPERTIES
    FailedFilesMoveOn
