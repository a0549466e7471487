SPECIFICATION Spec
CONSTANTS
    n1 = n1
    n2 = n2
    n3 = n3
    n4 = n4
    s1 = s1
    s2 = s2
    s3 = s3
    gone = gone
    p = p
    q = q
    c1 = c1
    c2 = c2
    Nothing = Nothing
    Projects <- MCProjects
    Labels <- MCLabels
    VaultPaths = {"canonical", "linked", "relative"}
    Listing <- MCListing
    Stem <- MCStem
    Vaults <- MCVaults
    Memory <- MCMemory
    Recent <- MCRecent
    Requests <- MCRequests
    HitLists <- MCHitLists
CHECK_DEADLOCK FALSE
INVARIANTS
    TypeOK
    WalkIsBounded
    AnswerRanked
    FiltersAgree
PROPERTIES
    EveryQueryEnds
