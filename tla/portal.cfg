SPECIFICATION Spec
CONSTANTS
    op = op
    dev = dev
    adm = adm
    l1 = l1
    l2 = l2
    r0 = r0
    r1 = r1
    r2 = r2
    None = None
    Blank = Blank
    Junk = Junk
    Desks <- PortalDesks
    Hasty <- HastyDesks
    AccountsOf <- PortalAccounts
    RolesOf <- PortalRoles
    LoadsOf <- PortalLoads
    Links <- PortalLinks
    Figures <- TypedFigures
    Tried <- TriedTypes
    Currencies <- AllCurrencies
    SplitCurrencies <- BillCurrencies
    Default = "USD"
    MaxForms = 2
    MaxCalls = 1
SYMMETRY Symmetry
INVARIANTS
    TypeOK
    RoleFits
    CopyMatchesShown
    PatientSeesTrue
    FormTrue
CHECK_DEADLOCK FALSE
