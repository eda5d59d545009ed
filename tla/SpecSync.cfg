SPECIFICATION FairSpec
CONSTANTS
    s1 = s1
    s2 = s2
    a1 = a1
    Sections <- MCSections
    NoId = NoId
    Edits <- MCEdits
    Authors <- MCAuthors
    Syncs <- MCSyncs
    Commits = 4
    Nothing = Nothing
    MaxMerge = 2
    MaxMishaps = 1
INVARIANTS
    TypeOK
    NoGuardedSaveClobbers
PROPERTIES
    DeliveryActsOnce
    IndexCatchesUp
CHECK_DEADLOCK FALSE
