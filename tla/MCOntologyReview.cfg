SPECIFICATION Spec
CONSTANTS
    a = a
    b = b
    c = c
    g = g
    h1 = h1
    h2 = h2
    i = i
    p = p
    q = q
    Terms = {a, b, c}
    Tags = {g}
    Spellings = {"plain", "capital"}
    Hashes = {h1, h2}
    Ingests = {i}
    Reviewers = {p, q}
    Nothing = Nothing
    Similar <- MCSimilar
    Extractions <- MCExtractions
    MaxIngests = 2
    MaxReviews = 2
    MaxFaults = 1
SYMMETRY Symmetry
CHECK_DEADLOCK FALSE
INVARIANTS
    TypeOK
    ReviewQueueComplete
    DecisionsAgree
    AuditExplains
    TaggedIsFound
    AliasesEnd
PROPERTIES
    ImplementsDecision
