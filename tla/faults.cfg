SPECIFICATION Spec
CONSTANTS
    Links = {l1}
    Payments = {p1}
    Handlers = {h1, h2}
    Sweepers = {}
    NoLink = NoLink
    NoPay = NoPay
    LinkTerms <- Reserves
    Amounts <- AmountsTwo
    MaxOps = 1
    MaxFaults = 2
    LateReceipts = FALSE
    OperatorSets = {}
    AdminKinds = {}
INVARIANTS
    TypeOK
    IndInv
    ClosedIsFinal
    AuditTruthful
    HooksFollowRow
SYMMETRY Symmetry
CHECK_DEADLOCK FALSE
