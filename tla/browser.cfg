SPECIFICATION Spec
CONSTANTS
    c1 = c1
    c2 = c2
    o1 = o1
    o2 = o2
    FaultsOf <- FaultsOfEach
    Calls = {c1, c2}
    Slots = {c1, c2}
    MaxSignIns = 2
    Tabs = {c1}
    Idle = 12
    Lifetime = 60
    WarnAt = 2
    PingFloor = 2
    PingCeiling = 3
    BillOf <- BillOfEach
    MaxTyped = 4
    SessionsOf <- SessionsOfEach
    Total = 2
    MaxPolls = 5
    Callback = TRUE
    MaxMoves = 3
    Handlers = {c1, c2}
    owner = owner
    Names = {owner}
    Username = owner
    DoorsOf <- DoorsOfEach
    LimitOf <- LimitOfEach
    WindowOf <- WindowOfEach
    DurationOf <- WindowOfEach
    ResetsOf <- ResetsOfEach
    MaxAttempts = 2
    Profiles = {o1, o2}
    ProfileOf <- Owners
    SweepBatch = 1
    ViewBatch = 1
INVARIANTS
    TypeOK
    CallsTrue
    SessionsTrue
    DoorsHold
    ClocksAgree
    PayPageTrue
    ReturnTrue
PROPERTIES
    ReasonKept
    AccountSettles
    PayerSettles
CHECK_DEADLOCK FALSE
