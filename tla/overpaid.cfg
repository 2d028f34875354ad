SPECIFICATION Spec
CONSTANTS
    Links = {l1}
    Payments = {p1, p2}
    Handlers = {h1, h2}
    Sweepers = {}
    NoLink = NoLink
    NoPay = NoPay
    LinkTerms <- Bills
    Amounts <- AmountsTwo
    MaxOps = 0
    MaxFaults = 0
    LateReceipts = FALSE
    OperatorSets = {}
    AdminKinds = {}
INVARIANT
    NeverOverpaid
CHECK_DEADLOCK FALSE
