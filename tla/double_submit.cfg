SPECIFICATION Spec
CONSTANTS
    Links = {l1}
    Payments = {p1}
    Handlers = {h1, h2}
    Sweepers = {}
    NoLink = NoLink
    NoPay = NoPay
    LinkTerms <- Reserves
    Amounts <- AmountsTwo
    MaxOps = 2
    MaxFaults = 0
    LateReceipts = FALSE
    OperatorSets = {}
    AdminKinds = {}
INVARIANT
    DecidedOnCurrentBalance
CHECK_DEADLOCK FALSE
