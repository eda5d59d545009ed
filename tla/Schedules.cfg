SPECIFICATION FairSpec
CONSTANTS
    s1 = s1
    s2 = s2
    w1 = w1
    w2 = w2
    Schedules <- MCSchedules
    Sweepers <- MCSweepers
    ClaimLimit = 2
    GiveUpAfter = 2
    MaxDisturbances = 1
INVARIANTS
    TypeOK
    OneSweepPerSchedule
    FailureCountIsTrue
PROPERTIES
    StoppedOnlyAfterFailures
    EveryDueScheduleFires
    StopIsAnnounced
CHECK_DEADLOCK FALSE
