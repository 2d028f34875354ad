SPECIFICATION Spec
CONSTANTS
    Links = {l1}
    Payments = {p1, p2}
    Handlers = {h1, h2}
    Sweepers = {}
    NoLink = NoLink
    NoPay = NoPay
    LinkTerms <- Purchases
    Amounts <- AmountsTwo
    MaxOps = 0
    MaxFaults = 0
    LateReceipts = FALSE
    OperatorSets = {"active", "cancelled"}
    AdminKinds = {"refund"}
INVARIANTS
    TotalsExact
    StatusJustified
    FullLinkRefuses
SYMMETRY Symmetry
CHECK_DEADLOCK FALSE
