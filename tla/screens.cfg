SPECIFICATION Spec
CONSTANTS
    c1 = c1
    c2 = c2
    a1 = a1
    a2 = a2
    None = None
    CallsOf <- CallsOfEach
    FaultsOf <- FaultsOfEach
    Total = 2
    MaxPanels = 2
    MaxIntents = 2
    MaxElsewhere = 1
    Unheard = FALSE
    TypedBy <- TypedByEach
    HurriedBy <- HurriedByEach
    SecretsOf <- SecretsOfEach
    RequestsOf <- RequestsOfEach
    Requests = {r1}
    AdminsOf <- AdminsOfEach
INVARIANTS
    TypeOK
    MovesOnce
    PanelTruthful
    ConnectTrue
    KeysTrue
    ReviewTrue
PROPERTIES
    ScreensSettle
CHECK_DEADLOCK FALSE
