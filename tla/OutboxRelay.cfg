SPECIFICATION FairSpec
CONSTANTS
    r1 = r1
    r2 = r2
    p1 = p1
    NoOne = NoOne
    Events <- MCEvents
    Endpoints <- MCEndpoints
    Relays <- MCRelays
    Poison <- NoPoison
    Batch = 2
    MaxFaults = 1
    MaxCrashes = 1
INVARIANTS
    TypeOK
    ExpandedAtMostOnce
    StampedIffExpanded
PROPERTIES
    EveryEventExpanded
