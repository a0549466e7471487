SPECIFICATION Spec
CONSTANTS
    f1 = f1
    w = w
    c1 = c1
    c2 = c2
    Files = {f1}
    Worker = w
    Clients = {c1, c2}
    Nobody = Nobody
    NoItem = NoItem
    MaxRuns = 2
    MaxEdits = 2
    MaxFaults = 2
SYMMETRY Symmetry
CHECK_DEADLOCK FALSE
INVARIANTS
    TypeOK
    OneRunPerProcess
    NoOrphanedRun
    SeenIsQueued
    CompletedIsCurrent
    ChangeQueuedOnce
PROPERTIES
    NoteNeverGoesBack
