CONSTANTS
    Items <- MCItems
    Keys <- MCKeys
    NoItem = NoItem
    NoKey = NoKey
    Leaf = 2
    Scenes <- MCScenes
    TreeCalls <- MCCalls
    MaxTreeCalls = 2
    Work <- MCWork
    NoWork = NoWork
    Over <- MCOver
    ProductOf <- MCProductOf
    Finished <- MCFinished
    Releases <- MCReleases
    Cycles <- MCCycles
    NoSlot = NoSlot
    Products <- MCProducts
    Shared = Shared
    Boards <- MCBoards
    PlanCalls <- MCCalls
    MaxPlanCalls = 3
    Tickets <- MCTickets
    Stages <- MCStages
    Backlog = backlog
    Archived = Archived
    NoStage = NoStage
    Orders <- MCOrders
    BuiltIn <- MCBuiltIn
    Gates <- MCGates
    FieldGates <- MCFieldGates
    GateCalls <- MCCalls
    MaxGateCalls = 3
    Users <- MCUsers
    Invites <- MCInvites
    NoInvite = NoInvite
    MemberCalls <- MCCalls
    MaxMemberCalls = 3
    LastDay = 3
    MonthOf <- MCMonthOf
    People <- MCPeople
    Everyone = Everyone
    Budgets <- MCBudgets
    Reports <- MCReports
    Caps <- MCCaps
    NoCap = NoCap
    SpendCalls <- MCCalls
    MaxSpendCalls = 3
    c1 = c1
    c2 = c2
    epic = epic
    group = group
    card = card
    new = new
    key1 = key1
    key2 = key2
    w1 = w1
    w2 = w2
    w3 = w3
    r1 = r1
    r2 = r2
    y1 = y1
    y2 = y2
    p1 = p1
    p2 = p2
    x1 = x1
    backlog = backlog
    build = build
    ship = ship
    g1 = g1
    g2 = g2
    u1 = u1
    u2 = u2
    u3 = u3
    i1 = i1
SPECIFICATION WorkspaceSpec
INVARIANTS WorkspaceTypeOK LevelRule SlotFitsWork StatusIsAStage CapIsACeiling OwnerRemains CascadeCarriesAll
PROPERTIES ChosenParentStays DeletedStaysGone GatesHonoured
SYMMETRY Sym
CHECK_DEADLOCK FALSE
