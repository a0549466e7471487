SPECIFICATION RestartedSpec
CONSTANTS
    f1 = f1
    w = w
    c1 = c1
    c2 = c2
    Files = {f1}
    Worker = w
    Clients = {}
    Nobody = Nobody
    NoItem = NoItem
    MaxRuns = 2
    MaxEdits = 1
    MaxFaults = 1
CHECK_DEADLOCK FALSE
PROPERTIES
    ScheduleGoesOn
