------------------------------- MODULE PayerReturn -------------------------------
(***************************************************************************)
(* After the hosted page: the payer's browser is sent back to the portal   *)
(* (app/l/[slug]/return/page.tsx), which asks the server what became of    *)
(* the payment, a few times if it must, says so, and hands the payer on to *)
(* the integrator or to the receipt (app/r/[orderId]/page.tsx).            *)
(*                                                                         *)
(* The server's part is handlePublicPaymentStatus and handlePublicReceipt: *)
(* the record follows the gateway's order when it is read.                 *)
(***************************************************************************)
EXTENDS Domain, Gateway

CONSTANTS
    Total,      \* what is paid
    MaxPolls,   \* how often the page asks again (five times)
    Callback,   \* whether the integrator wants the payer back
    MaxMoves,   \* bound: changes of the order
    MaxFaults   \* bound: calls that fail

\* What the constants are to be; Browser assumes it of its instance.
ConstantsFit ==
    /\ Total \in Nat \ {0} /\ MaxPolls \in Nat /\ Callback \in BOOLEAN
    /\ MaxMoves \in Nat /\ MaxFaults \in Nat

VARIABLES
    order,      \* the gateway's order
    row,        \* the server's record
    moves,
    poll,       \* the question under way: "none", "waiting" for its timer, "sent", "ok", "failed"
    answer,     \* the record it was answered with
    attempts, status, err,      \* the page: status is the record last read, or None
    away,       \* where the payer is: "gateway", "here", or sent on to "success" or "failure"
    receipt,    \* the receipt in the other tab: "none", "loading", "refused" or "shown"
    printed,    \* the record it is made of
    touched,    \* ghost: whether the card was ever held or charged
    faults

gateway == <<order, row, moves, touched>>
page    == <<poll, answer, attempts, status, err, away>>
tab     == <<receipt, printed>>
vars    == <<gateway, page, tab, faults>>

-----------------------------------------------------------------------------
None == [status |-> "none", auth |-> 0, cap |-> 0, ref |-> 0]

RowOf(o) ==
    [status |-> IF o.status \in Recognised THEN StatusFromOrder(o.status) ELSE "initiated",
     auth |-> o.auth, cap |-> o.cap, ref |-> o.ref]

\* The row is only read again from the gateway while it is in flight.
Reread == IF row.status = "initiated" THEN RowOf(order) ELSE row

Init ==
    /\ order \in {NoOrder, Closed("PENDING")}
    /\ row = RowOf(NoOrder) /\ moves = 0
    /\ poll = "none" /\ answer = None /\ attempts = 0
    /\ status = None /\ err = FALSE /\ away = "gateway"
    /\ receipt = "none" /\ printed = None
    /\ touched = FALSE /\ faults = 0

\* The order is settled, before or after the payer is back.
GatewaySettles ==
    /\ order.status \in {"NONE", "PENDING"}
    /\ order' \in {Closed("FAILED"), Closed("CANCELLED"), Closed("EXPIRED"),
                   Paid("purchase", Total), Paid("authorize", Total)}
    /\ touched' = (touched \/ order'.auth > 0)
    /\ UNCHANGED <<row, moves, page, tab, faults>>

\* The operator captures, refunds or voids; the record follows.
OperatorMoves(kind, amt) ==
    /\ moves < MaxMoves
    /\ moves' = moves + 1
    /\ Accepts(order, kind, amt)
    /\ order' = After(order, kind, amt)
    /\ row' = RowOf(order')
    /\ UNCHANGED <<touched, page, tab, faults>>

-----------------------------------------------------------------------------
\* The gateway sends the browser back: the page is drawn and asks at once.
Arrive ==
    /\ away = "gateway"
    /\ away' = "here" /\ poll' = "sent"
    /\ UNCHANGED <<gateway, answer, attempts, status, err, tab, faults>>

Serve ==
    /\ poll = "sent"
    /\ row' = Reread
    /\ answer' = row'
    /\ poll' = "ok"
    /\ UNCHANGED <<order, moves, touched, attempts, status, err, away, tab, faults>>

ServeFails ==
    /\ faults < MaxFaults /\ faults' = faults + 1
    /\ poll = "sent"
    /\ poll' = "failed"
    /\ UNCHANGED <<gateway, answer, attempts, status, err, away, tab>>

\* poll()'s answer: asked again only while the payment is open.
TakeStatus ==
    /\ poll = "ok"
    /\ status' = answer
    /\ poll' = IF answer.status = "initiated" /\ attempts < MaxPolls THEN "waiting" ELSE "none"
    /\ UNCHANGED <<gateway, answer, attempts, err, away, tab, faults>>

TakeFailure ==
    /\ poll = "failed"
    /\ err' = TRUE
    /\ poll' = "none"
    /\ UNCHANGED <<gateway, answer, attempts, status, away, tab, faults>>

AskAgain ==
    /\ poll = "waiting"
    /\ attempts' = attempts + 1
    /\ poll' = "sent"
    /\ UNCHANGED <<gateway, answer, status, err, away, tab, faults>>

\* continueURL, chosen by the server for the record it answers with.
Taken      == {"paid", "partially_captured", "authorized", "partially_refunded", "refunded"}
NotTaken   == {"failed", "cancelled", "expired"}
\* Mutant: whatever is not a success goes to the page of failure.
ContinueAnywhere(s) == IF ~Callback THEN "no" ELSE IF s \in Taken THEN "success" ELSE "failure"

ContinueTo(s) ==
    IF ~Callback THEN "no"
    ELSE IF s \in Taken THEN "success"
    ELSE IF s \in NotTaken THEN "failure"
    ELSE "no"

\* By itself after a moment, or by its link.
Continue ==
    /\ away = "here"
    /\ ContinueTo(status.status) # "no"
    /\ away' = ContinueTo(status.status)
    /\ UNCHANGED <<gateway, poll, answer, attempts, status, err, tab, faults>>

-----------------------------------------------------------------------------
\* outcomeFor: what the page says.
Tone ==
    IF err THEN "failed"
    ELSE CASE status.status \in {"paid", "partially_captured"}      -> "success"
           [] status.status = "authorized"                          -> "reserved"
           [] status.status \in {"partially_refunded", "refunded",
                                "cancelled", "expired"}             -> "released"
           [] status.status = "initiated"                           -> "pending"
           [] OTHER                                                 -> "failed"

\* "No money has been taken", "Nothing was charged"; also before the first answer.
SaysNothingTaken == ~err /\ status.status \in {"none", "failed", "cancelled", "expired"}

ReceiptOffered == status.status \in Taken

\* The receipt, from here or from the operator's panel, for a payment it has one for.
OpenReceipt ==
    /\ receipt = "none"
    /\ receipt' = "loading"
    /\ UNCHANGED <<gateway, page, printed, faults>>

ReceiptRead ==
    /\ receipt = "loading"
    /\ row' = Reread
    /\ receipt' = IF row'.status \in Taken THEN "shown" ELSE "refused"
    /\ printed' = IF row'.status \in Taken THEN row' ELSE None
    /\ UNCHANGED <<order, moves, touched, page, faults>>

\* "Amount paid", with what was kept, or "Amount reserved", with the whole amount.
Settled == printed.status \in {"paid", "partially_captured", "partially_refunded"}
AmountSaid == IF Settled THEN printed.cap - printed.ref ELSE Total

CloseReceipt ==
    /\ receipt \in {"refused", "shown"}
    /\ receipt' = "none" /\ printed' = None
    /\ UNCHANGED <<gateway, page, faults>>

-----------------------------------------------------------------------------
Asking == Serve \/ ServeFails \/ TakeStatus \/ TakeFailure \/ AskAgain

Next ==
    \/ GatewaySettles \/ Arrive \/ Asking \/ Continue \/ OpenReceipt \/ ReceiptRead \/ CloseReceipt
    \/ \E kind \in Kinds, amt \in 1..Total : OperatorMoves(kind, amt)

Spec == Init /\ [][Next]_vars

\* Calls are answered and timers fire.
FairSpec == Spec /\ WF_vars(Asking)

-----------------------------------------------------------------------------
Row == [status : PaymentStatus \cup {"none"}, auth : Nat, cap : Nat, ref : Nat]

\* The types of the variables: the page's, and the rest.
PageFits ==
    /\ answer \in Row /\ status \in Row
    /\ poll \in {"none", "waiting", "sent", "ok", "failed"}
    /\ attempts \in 0..MaxPolls /\ err \in BOOLEAN
    /\ away \in {"gateway", "here", "success", "failure"}
RestFits ==
    /\ order \in Order /\ row \in Row /\ printed \in Row
    /\ moves \in 0..MaxMoves /\ faults \in 0..MaxFaults
    /\ touched \in BOOLEAN
    /\ receipt \in {"none", "loading", "refused", "shown"}
TypeOK == PageFits /\ RestFits

\* "No money has been taken", "Nothing was charged": true when it is said, and as long
\* as it is, although the gateway settles and the operator captures while it stands there.
NothingTakenTrue == SaysNothingTaken /\ status # None => order.cap = 0

\* "An authorization ... must never read like a failure": nor any payment the page has
\* once seen made, whichever call fails after.
NeverReadsFailed == status.status \in Taken => Tone # "failed"

\* "a redirect can never land somebody on a page claiming a result neither side knows
\* yet": the integrator's page of success is reached only with a card held or charged,
\* the page of failure only with nothing taken.
RedirectTrue ==
    /\ away = "success" => touched
    /\ away = "failure" => order.cap = 0

\* "Offered only once something actually happened to the card".
ReceiptTrue == ReceiptOffered => touched

\* A receipt that says "Amount paid" never says more than was taken.
PaidTrue == receipt = "shown" /\ Settled => AmountSaid <= order.cap

\* The page comes to rest.
AskingEnds == <>[](poll = "none")

\* "a payer whose money has moved should never be left on a page with no way forward".
WayForward ==
    away = "here" /\ poll = "none" /\ order.cap > 0 => ReceiptOffered \/ ContinueTo(status.status) # "no"

\* An authorization "must never read like a failure": a page that shows one is about a
\* payment that did fail, or says that it could not tell.
FailureTrue == away = "here" /\ Tone = "failed" /\ ~err => order.auth = 0

\* settled is "false when nothing has actually left the cardholder's account": a receipt
\* that says so is not about money that was taken.
ReservedTrue == receipt = "shown" /\ ~Settled => printed.cap = 0

-----------------------------------------------------------------------------
(* The inductive invariant *)

\* What the gateway's statuses say of the money.
OrderTrue ==
    /\ order.status \in {"NONE", "PENDING", "FAILED", "CANCELLED", "EXPIRED"} => order.cap = 0
    /\ order.status = "AUTHORIZED" => order.cap = 0
    /\ order.status \in Recognised \ {"FAILED", "CANCELLED", "EXPIRED"} => touched

\* A record was true when it was read, and what it says of the money stays so.
Past(r) ==
    /\ r.cap <= order.cap
    /\ r.status \in Taken => touched
    /\ r.status \in NotTaken =>
         order.status \in {"FAILED", "CANCELLED", "EXPIRED"} /\ order.cap = 0
    /\ r.status = "none" => r = None

\* The page asks until it knows, and then no more.
AskingTrue ==
    /\ status.status \in Taken => poll = "none" /\ ~err
    /\ err => poll = "none"
    /\ poll = "waiting" => attempts < MaxPolls
    /\ away = "gateway" => poll = "none" /\ status = None /\ ~err

\* What the payer was sent on to.
SentOn ==
    /\ away = "success" => touched
    /\ away = "failure" => order.status \in {"FAILED", "CANCELLED", "EXPIRED"} /\ order.cap = 0

IInv ==
    /\ TypeOK /\ OrderTrue
    /\ Past(row) /\ Past(answer) /\ Past(status) /\ Past(printed)
    /\ AskingTrue /\ SentOn
=============================================================================
