SPECIFICATION Spec
CONSTANTS
    f1 = f1
    w = w
    c1 = c1
    c2 = c2
    Files = {f1}
    Worker = w
    Clients = {c1}
    Nobody = Nobody
    NoItem = NoItem
    MaxRuns = 2
    MaxEdits = 1
    MaxFaults = 0
CHECK_DEADLOCK FALSE
INVARIANTS
    OneRunAtATime
