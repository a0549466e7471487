SPECIFICATION Spec
CONSTANTS
    f1 = f1
    f2 = f2
    w = w
    c1 = c1
    c2 = c2
    Files = {f1}
    Worker = w
    Clients = {c1}
    NoFile = NoFile
    MaxAttempts = 2
    Overlap = TRUE
    MaxRequests = 1
    MaxFaults = 0
CHECK_DEADLOCK FALSE
PROPERTIES
    TerminalIsFinal
