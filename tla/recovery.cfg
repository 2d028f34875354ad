SPECIFICATION FairSpec
CONSTANTS
    Links = {l1}
    Payments = {p1}
    Handlers = {h1}
    Sweepers = {s1}
    NoLink = NoLink
    NoPay = NoPay
    LinkTerms <- Purchases
    Amounts <- AmountsTwo
    MaxOps = 1
    MaxFaults = 1
    LateReceipts = TRUE
    OperatorSets = {}
    AdminKinds = {}
PROPERTIES
    PaidIsSeen
    AbandonedIsClosed
CHECK_DEADLOCK FALSE
