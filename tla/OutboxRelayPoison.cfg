SPECIFICATION FairSpec
CONSTANTS
    r1 = r1
    r2 = r2
    p1 = p1
    NoOne = NoOne
    Events <- MCEvents
    Endpoints <- MCEndpoints
    Relays <- MCOneRelay
    Poison <- FirstIsPoison
    Batch = 2
    MaxFaults = 0
    MaxCrashes = 0
PROPERTY
    FanoutFailureStrandsNothing
