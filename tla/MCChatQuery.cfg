SPECIFICATION Spec
CONSTANTS
    f = f
    g = g
    n = n
    t = t
    u = u
    p = p
    q = q
    Nothing = Nothing
    Files = {f, g}
    Contents <- MCContents
    Opaque <- MCOpaque
    ChunkSize = 1
    NoteName <- MCNoteName
    Extracted <- MCExtracted
    ModelSize = 64
    CollectionSize = 64
    Threads = {t, u}
    Filters <- MCFilters
    TopK = 2
    ListLimit = 2
    MaxQueries = 1
    MaxAttempts = 2
    MaxEdits = 1
    MaxFaults = 1
SYMMETRY Symmetry
CHECK_DEADLOCK FALSE
INVARIANTS
    TypeOK
    RowsAreBacked
    PointsBelong
    CitedChunkIsOfMemory
    SearchFitsCollection
