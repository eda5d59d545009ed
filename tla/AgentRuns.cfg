SPECIFICATION Spec
CONSTANTS
    a1 = a1
    i1 = i1
    r1 = r1
    r2 = r2
    c1 = c1
    c2 = c2
    n1 = n1
    n2 = n2
    Agents <- MCAgents
    Nobody = Nobody
    Items <- MCItems
    Runs <- MCRuns
    Calls <- MCCalls
    Notes <- MCNotes
    NoNote = NoNote
    MaxTrace = 2
    MaxSteps = 3
    MaxCrashes = 1
SYMMETRY Symmetry
INVARIANTS
    TypeOK
    NoNoteClearedUndelivered
    TraceIsLatestSteps
PROPERTY
    OwnedRunStaysFinished
    ImplementsAtomicRuns
CHECK_DEADLOCK FALSE
