SPECIFICATION FairSpec
CONSTANTS
    s1 = s1
    s2 = s2
    a1 = a1
    Sections <- MCOneSection
    NoId = NoId
    Edits <- MCEdits
    Authors <- MCAuthors
    Syncs <- MCOneSync
    Commits = 2
    Nothing = Nothing
    MaxMerge = 2
    MaxMishaps = 1
PROPERTIES
    RefusedPushLandsLate
CHECK_DEADLOCK FALSE
