------------------------------- MODULE PayLink -------------------------------
(***************************************************************************)
(* The money path of the server: pay links, checkout attempts, the         *)
(* reconciliation with the gateway, and the merchant's captures, refunds   *)
(* and voids.                                                              *)
(*                                                                         *)
(* Every HTTP handler and every reconcile worker is a process.  It keeps   *)
(* what the Go function holds in its locals (the payment it loaded, the    *)
(* amount, the transaction id) in job[w], and takes one step for each call *)
(* it makes: one SQL statement or transaction, or one gateway request.     *)
(* Nothing serialises two of them: there is no lock and no version column, *)
(* so between two steps of one, any other may run, the payer may act, and  *)
(* the server may stop.                                                    *)
(***************************************************************************)
EXTENDS Domain, Gateway

CONSTANTS
    Links,          \* pay_links rows that may be created
    Payments,       \* checkout attempts (each is a payments row and an order)
    Handlers,       \* concurrent HTTP handlers
    Sweepers,       \* concurrent workers of the background sweep
    LinkTerms,      \* the terms links are created with
    Amounts,        \* the amounts payers type in
    NoLink, NoPay,  \* neither a link nor a payment
    MaxOps,         \* bound: operations recorded on one payment
    MaxFaults,      \* bound: crashes, failed statements, lost responses
    LateReceipts,   \* whether an order can be read before it has a receipt
    OperatorSets,   \* the statuses operators give a link
    AdminKinds      \* what Merchant Administration does behind the server's back

ASSUME FinitePayments == IsFiniteSet(Payments)
ASSUME AmountsPositive == Amounts \subseteq Nat \ {0}
ASSUME TermsValid == \A t \in LinkTerms : ValidTerms(t)
ASSUME AbsentValues == NoLink \notin Links /\ NoPay \notin Payments
ASSUME BoundsNatural == MaxOps \in Nat /\ MaxFaults \in Nat
ASSUME LateReceiptsBoolean == LateReceipts \in BOOLEAN
ASSUME OutsideChoices == /\ OperatorSets \subseteq {"active", "paused", "cancelled"}
                         /\ AdminKinds \subseteq Kinds

VARIABLES
    terms,          \* pay_links: the columns fixed at creation
    linkStatus,     \* pay_links.status; "none" before the row exists
    usedCount,      \* pay_links.used_count: checkouts opened
    paidCount,      \* pay_links.paid_count
    paidMinor,      \* pay_links.paid_minor
    lapsed,         \* whether pay_links.expires_at has passed
    payment,        \* the payments row of each attempt
    order,          \* the gateway's order of each attempt
    txns,           \* the transactions the gateway accepted from the server
    page,           \* the payer's hosted page: "none", "open" or "expired"
    ops,            \* payment_operations, per payment
    hooks,          \* webhook_deliveries rows, as <<payment, event>>
    job,            \* the locals of each process
    faults,         \* faults so far
    lost,           \* ghost: links with a row written and no recompute after
    untold          \* ghost: payments whose notification was lost

links   == <<terms, linkStatus, usedCount, lapsed>>
totals  == <<paidCount, paidMinor>>
gateway == <<order, txns, page>>
ghosts  == <<lost, untold>>
vars    == <<links, totals, payment, gateway, ops, hooks, job, faults, ghosts>>

Workers   == Handlers \cup Sweepers
JobKinds  == {"none", "checkout", "refresh"} \cup Kinds

NoTerms == [type |-> "static", mode |-> "purchase", amount |-> 0, target |-> 0,
            min |-> 0, max |-> 0, maxUses |-> 0, hooked |-> FALSE,
            expires |-> FALSE]

NewRow(l, a) == [link |-> l, amount |-> a, status |-> "initiated", auth |-> 0,
                 cap |-> 0, ref |-> 0, completed |-> FALSE, receipt |-> FALSE]

NoRow == [NewRow(NoLink, 0) EXCEPT !.status = "none"]

IdleJob == [kind |-> "none", pc |-> "idle", pay |-> NoPay, row |-> NoRow,
            old |-> FALSE, amt |-> 0, txn |-> 0, ok |-> FALSE]

Init ==
    /\ terms = [l \in Links |-> NoTerms]
    /\ linkStatus = [l \in Links |-> "none"]
    /\ usedCount = [l \in Links |-> 0]
    /\ paidCount = [l \in Links |-> 0]
    /\ paidMinor = [l \in Links |-> 0]
    /\ lapsed = [l \in Links |-> FALSE]
    /\ payment = [p \in Payments |-> NoRow]
    /\ order = [p \in Payments |-> NoOrder]
    /\ txns = [p \in Payments |-> {}]
    /\ page = [p \in Payments |-> "none"]
    /\ ops = [p \in Payments |-> {}]
    /\ hooks = {}
    /\ job = [w \in Workers |-> IdleJob]
    /\ faults = 0
    /\ lost = {}
    /\ untold = {}

-----------------------------------------------------------------------------
\* What a process does next.  A local nothing will read again is cleared.

At(w, pc)     == job[w].pc = pc
Goto(w, pc)   == job' = [job EXCEPT ![w].pc = pc]
Finish(w)     == job' = [job EXCEPT ![w] = IdleJob]
Performing(w) == job[w].kind \in Kinds

\* applyOrderOutcome returns to its caller: perform goes on to decide, unless
\* this was the outcome of its own operation; a refresh has nothing left to do.
Return(w) == IF Performing(w) /\ ~job[w].ok THEN Goto(w, "decide") ELSE Finish(w)

Fault == faults < MaxFaults /\ faults' = faults + 1

-----------------------------------------------------------------------------
\* Links.

CreateLink(l, t) ==
    /\ linkStatus[l] = "none"
    /\ terms' = [terms EXCEPT ![l] = t]
    /\ linkStatus' = [linkStatus EXCEPT ![l] = "active"]
    /\ UNCHANGED <<usedCount, lapsed, totals, payment, gateway, ops, hooks, job,
                   faults, ghosts>>

\* The operator writes the status he asks for, whatever the counters say.
SetLinkStatus(l, s) ==
    /\ linkStatus[l] # "none"
    /\ linkStatus' = [linkStatus EXCEPT ![l] = s]
    /\ UNCHANGED <<terms, usedCount, lapsed, totals, payment, gateway, ops, hooks,
                   job, faults, ghosts>>

LinkExpires(l) ==
    /\ linkStatus[l] # "none" /\ terms[l].expires /\ ~lapsed[l]
    /\ lapsed' = [lapsed EXCEPT ![l] = TRUE]
    /\ UNCHANGED <<terms, linkStatus, usedCount, totals, payment, gateway, ops,
                   hooks, job, faults, ghosts>>

Payable(l) ==
    /\ linkStatus[l] # "none"
    /\ EffectiveStatus(terms[l], linkStatus[l], lapsed[l], paidCount[l], paidMinor[l])
         = "active"

LinkStep ==
    \E l \in Links :
        \/ \E t \in LinkTerms : CreateLink(l, t)
        \/ \E s \in OperatorSets : SetLinkStatus(l, s)
        \/ LinkExpires(l)

-----------------------------------------------------------------------------
\* Checkout.  The order id is fresh; nothing is reserved on the link.

Fresh(p) == payment[p] = NoRow /\ \A w \in Workers : job[w].pay # p

StartCheckout(w, l, p, a) ==
    /\ At(w, "idle") /\ Fresh(p)
    /\ Payable(l) /\ AmountAllowed(terms[l], paidMinor[l], a)
    /\ job' = [job EXCEPT ![w] = [IdleJob EXCEPT !.kind = "checkout", !.pc = "open",
                                                 !.pay = p, !.row = NewRow(l, a)]]
    /\ UNCHANGED <<links, totals, payment, gateway, ops, hooks, faults, ghosts>>

\* INITIATE CHECKOUT: a session, but no order yet.
OpenSession(w) ==
    /\ At(w, "open")
    /\ \/ Goto(w, "insert")
       \/ Finish(w)
    /\ UNCHANGED <<links, totals, payment, gateway, ops, hooks, faults, ghosts>>

CreatePayment(w) ==
    /\ At(w, "insert")
    /\ \/ /\ payment' = [payment EXCEPT ![job[w].pay] = job[w].row]
          /\ Goto(w, "count")
          /\ UNCHANGED faults
       \/ Fault /\ Finish(w) /\ UNCHANGED payment
    /\ UNCHANGED <<links, totals, gateway, ops, hooks, ghosts>>

\* used_count, whose failure is ignored; then the payer is sent to the page.
CountUse(w) ==
    /\ At(w, "count")
    /\ LET l == job[w].row.link
       IN  \/ usedCount' = [usedCount EXCEPT ![l] = @ + 1] /\ UNCHANGED faults
           \/ Fault /\ UNCHANGED usedCount
    /\ page' = [page EXCEPT ![job[w].pay] = "open"]
    /\ Finish(w)
    /\ UNCHANGED <<terms, linkStatus, lapsed, totals, payment, order, txns, ops,
                   hooks, ghosts>>

Checkout(w) ==
    \/ \E l \in Links, p \in Payments, a \in Amounts : StartCheckout(w, l, p, a)
    \/ OpenSession(w)
    \/ CreatePayment(w)
    \/ CountUse(w)

-----------------------------------------------------------------------------
\* The payer, the gateway and Merchant Administration.

GatewayMoves(p, o) ==
    /\ order' = [order EXCEPT ![p] = o]
    /\ UNCHANGED <<links, totals, payment, txns, page, ops, hooks, job, faults, ghosts>>

\* The payer submits a card; the order exists in a status we do not recognise
\* (an authentication in progress) until it is paid or declined.
PayerStarts(p) == /\ page[p] = "open" /\ order[p].status = "NONE"
                  /\ GatewayMoves(p, Closed("PENDING"))

PayerPays(p) == /\ page[p] = "open" /\ order[p].status = "PENDING"
                /\ LET t == terms[payment[p].link]
                   IN  GatewayMoves(p, Paid(t.mode, payment[p].amount))

PayerDeclined(p) == /\ page[p] = "open" /\ order[p].status = "PENDING"
                    /\ GatewayMoves(p, Closed("FAILED"))

HoldLapses(p) == order[p].status = "AUTHORIZED" /\ GatewayMoves(p, Closed("EXPIRED"))

MerchantAdmin(p) ==
    \E kind \in AdminKinds, amt \in 1 .. order[p].auth :
        Accepts(order[p], kind, amt) /\ GatewayMoves(p, After(order[p], kind, amt))

\* The session has timed out and abandonAfter has passed since the attempt
\* was created: the code relies on the first coming well before the second.
PageTimesOut(p) ==
    /\ payment[p] # NoRow /\ page[p] # "expired"
    /\ \A w \in Workers : ~(job[w].pay = p /\ job[w].kind = "checkout")
    /\ page' = [page EXCEPT ![p] = "expired"]
    /\ UNCHANGED <<links, totals, payment, order, txns, ops, hooks, job, faults, ghosts>>

World ==
    \E p \in Payments : \/ PayerStarts(p) \/ PayerPays(p) \/ PayerDeclined(p)
                        \/ HoldLapses(p) \/ MerchantAdmin(p) \/ PageTimesOut(p)

-----------------------------------------------------------------------------
\* Refreshing an attempt: the return page, the portal's views, the sweep.

Load(w, kind, pc, p) ==
    /\ At(w, "idle") /\ payment[p] # NoRow
    /\ job' = [job EXCEPT ![w] = [IdleJob EXCEPT !.kind = kind, !.pc = pc,
                                                 !.pay = p, !.row = payment[p]]]
    /\ UNCHANGED <<links, totals, payment, gateway, ops, hooks, faults, ghosts>>

Pending(p) == payment[p].status = "initiated"
MissingReferences(p) == /\ ~payment[p].receipt
                        /\ payment[p].status \notin {"initiated", "failed", "expired"}

StartStatus(w, p) == Pending(p) /\ Load(w, "refresh", "retrieve", p)

StartView(w, p) == /\ Pending(p) \/ ~payment[p].receipt
                   /\ Load(w, "refresh", "queued", p)

StartLinkView(w, p) == /\ Pending(p) \/ MissingReferences(p)
                       /\ Load(w, "refresh", "queued", p)

\* Mutant: the sweep forgets an attempt at the age it gives it up.
StartSweepShort(w, p) == /\ Pending(p) /\ page[p] # "expired"
                         /\ \A v \in Sweepers : job[v].pay # p
                         /\ Load(w, "refresh", "queued", p)

\* One sweep runs at a time and lists a payment once.
StartSweep(w, p) == /\ Pending(p)
                    /\ \A v \in Sweepers : job[v].pay # p
                    /\ Load(w, "refresh", "queued", p)

\* Mutant: the age of the attempt is not looked at.
TooOldAtOnce(p) == payment[p] # NoRow

\* Mutant: the two times are subtracted the wrong way round.
TooOldNever(p) == payment[p] = NoRow

\* reconcileOne reads the clock before it asks the gateway.
TooOld(p) == page[p] = "expired"

Begin(w) ==
    /\ At(w, "queued")
    /\ job' = [job EXCEPT ![w].pc = "retrieve", ![w].old = TooOld(job[w].pay)]
    /\ UNCHANGED <<links, totals, payment, gateway, ops, hooks, faults, ghosts>>

\* A known status is mirrored on the row in memory; any other is left alone.
RetrieveOk(w) ==
    /\ At(w, "retrieve") /\ order[job[w].pay].status # "NONE"
    /\ LET o == order[job[w].pay]
       IN  IF o.status \in Recognised
           THEN \E receipt \in IF LateReceipts THEN BOOLEAN ELSE {TRUE} :
                    job' = [job EXCEPT ![w].pc = "save", ![w].old = FALSE,
                                       ![w].row = Mirror(@, o, receipt)]
           ELSE Return(w)
    /\ UNCHANGED <<links, totals, payment, gateway, ops, hooks, faults, ghosts>>

\* The gateway answers 400: it has no such order.
RetrieveMissing(w) ==
    /\ At(w, "retrieve") /\ order[job[w].pay].status = "NONE"
    /\ IF job[w].old
       THEN job' = [job EXCEPT ![w].pc = "abandon", ![w].row = Abandoned(@)]
       ELSE Finish(w)
    /\ UNCHANGED <<links, totals, payment, gateway, ops, hooks, faults, ghosts>>

RetrieveFails(w) ==
    /\ At(w, "retrieve")
    /\ Finish(w)
    /\ UNCHANGED <<links, totals, payment, gateway, ops, hooks, faults, ghosts>>

\* The abandoned row is written; the link's totals are left as they are.
Abandon(w) ==
    /\ At(w, "abandon")
    /\ \/ payment' = [payment EXCEPT ![job[w].pay] = job[w].row] /\ UNCHANGED faults
       \/ Fault /\ UNCHANGED payment
    /\ Finish(w)
    /\ UNCHANGED <<links, totals, gateway, ops, hooks, ghosts>>

-----------------------------------------------------------------------------
\* applyOrderOutcome's three writes: the row, the link's totals, the webhook.

Save(w) ==
    /\ At(w, "save")
    /\ \/ /\ payment' = [payment EXCEPT ![job[w].pay] = job[w].row]
          /\ Goto(w, "totals")
          /\ UNCHANGED faults
       \/ Fault /\ Return(w) /\ UNCHANGED payment
    /\ UNCHANGED <<links, totals, gateway, ops, hooks, ghosts>>

\* Mutant: the counters are incremented rather than derived.
RecomputeByIncrement(l) ==
    LET count == paidCount[l] + 1
        paid  == CollectedOn(payment, l)
    IN  /\ paidCount' = [paidCount EXCEPT ![l] = count]
        /\ paidMinor' = [paidMinor EXCEPT ![l] = paid]
        /\ linkStatus' = [linkStatus EXCEPT
                            ![l] = RecomputedStatus(terms[l], @, count, paid)]

Recompute(l) ==
    LET count == CommittedOn(payment, l)
        paid  == CollectedOn(payment, l)
    IN  /\ paidCount' = [paidCount EXCEPT ![l] = count]
        /\ paidMinor' = [paidMinor EXCEPT ![l] = paid]
        /\ linkStatus' = [linkStatus EXCEPT
                            ![l] = RecomputedStatus(terms[l], @, count, paid)]

Totals(w) ==
    /\ At(w, "totals")
    /\ LET l == job[w].row.link
       IN  \/ Recompute(l) /\ lost' = lost \ {l} /\ UNCHANGED faults
           \/ Fault /\ lost' = lost \cup {l} /\ UNCHANGED <<totals, linkStatus>>
    /\ Goto(w, "notify")
    /\ UNCHANGED <<terms, usedCount, lapsed, payment, gateway, ops, hooks, untold>>

\* Mutant: the unique key is on the payment alone.
QueueWebhookOnce(p, row) ==
    IF \E e \in Events : <<p, e>> \in hooks
    THEN UNCHANGED hooks
    ELSE hooks' = hooks \cup {<<p, e>> : e \in EventFor(row.status)}

\* The unique key on (integration, event, payment) drops a repeat.
QueueWebhook(p, row) ==
    hooks' = hooks \cup {<<p, e>> : e \in EventFor(row.status)}

Notify(w) ==
    /\ At(w, "notify")
    /\ \/ /\ IF terms[job[w].row.link].hooked
             THEN QueueWebhook(job[w].pay, job[w].row) ELSE UNCHANGED hooks
          /\ UNCHANGED <<faults, untold>>
       \/ Fault /\ untold' = untold \cup {job[w].pay} /\ UNCHANGED hooks
    /\ Return(w)
    /\ UNCHANGED <<links, totals, payment, gateway, ops, lost>>

Refresh(w) ==
    \/ Begin(w) \/ RetrieveOk(w) \/ RetrieveMissing(w) \/ RetrieveFails(w)
    \/ Abandon(w) \/ Save(w) \/ Totals(w) \/ Notify(w)

-----------------------------------------------------------------------------
\* perform: capture, refund or void, after a refresh of the payment.

StartPerform(w, p, kind) ==
    /\ Cardinality(ops[p]) < MaxOps
    /\ Load(w, kind, "retrieve", p)

\* The row is read again; if that fails the copy in memory is used.
Decide(w) ==
    /\ At(w, "decide")
    /\ \E row \in {payment[job[w].pay], job[w].row} :
        /\ \/ row = payment[job[w].pay] /\ UNCHANGED faults
           \/ Fault
        /\ \/ \E amt \in OperationAmounts(job[w].kind, row) :
                job' = [job EXCEPT ![w].pc = "alloc", ![w].row = row, ![w].amt = amt]
           \/ Finish(w)
    /\ UNCHANGED <<links, totals, payment, gateway, ops, hooks, ghosts>>

\* Transaction 1 is the payer's; each recorded operation takes the next id.
NextTransactionID(p) == Cardinality(ops[p]) + 2

Alloc(w) ==
    /\ At(w, "alloc")
    /\ \/ job' = [job EXCEPT ![w].pc = "send", ![w].txn = NextTransactionID(job[w].pay)]
       \/ Finish(w)
    /\ UNCHANGED <<links, totals, payment, gateway, ops, hooks, faults, ghosts>>

Accepted(w) ==
    LET j == job[w] IN /\ Accepts(order[j.pay], j.kind, j.amt)
                       /\ \A t \in txns[j.pay] : t.id # j.txn

\* The gateway carries the operation out and returns the order as it now
\* stands; or it does and the response is lost.
SendOk(w) ==
    /\ At(w, "send") /\ Accepted(w)
    /\ LET j == job[w]
           o == After(order[j.pay], j.kind, j.amt)
       IN  /\ order' = [order EXCEPT ![j.pay] = o]
           /\ txns' = [txns EXCEPT ![j.pay] =
                         @ \cup {[id |-> j.txn, type |-> j.kind, amt |-> j.amt]}]
           /\ \/ /\ job' = [job EXCEPT ![w].pc = "record", ![w].ok = TRUE,
                                       ![w].row = Mirror(@, o, FALSE)]
                 /\ UNCHANGED faults
              \/ Fault /\ Goto(w, "record")
    /\ UNCHANGED <<links, totals, payment, page, ops, hooks, ghosts>>

\* It refuses, or is not reached.
SendFails(w) ==
    /\ At(w, "send")
    /\ \/ ~Accepted(w) /\ UNCHANGED faults
       \/ Fault
    /\ Goto(w, "record")
    /\ UNCHANGED <<links, totals, payment, gateway, ops, hooks, ghosts>>

\* Mutant: an error of the gateway is not looked at.
OutcomeUnchecked(w) == IF job[w].txn > 0 THEN "success" ELSE "failed"

\* The audit row: a second row with the same transaction id breaks a unique
\* key, and that error, like any other, is only logged.
Outcome(w) == IF job[w].ok THEN "success" ELSE "failed"

CreatePaymentOperation(p, op) ==
    IF \E x \in ops[p] : x.txn = op.txn
    THEN UNCHANGED ops
    ELSE ops' = [ops EXCEPT ![p] = @ \cup {op}]

Record(w) ==
    /\ At(w, "record")
    /\ LET j == job[w]
       IN  \/ /\ CreatePaymentOperation(j.pay, [txn |-> j.txn, type |-> j.kind,
                                                amt |-> j.amt, status |-> Outcome(w)])
              /\ UNCHANGED faults
           \/ Fault /\ UNCHANGED ops
    /\ IF job[w].ok
       THEN job' = [job EXCEPT ![w].pc = "save", ![w].amt = 0, ![w].txn = 0]
       ELSE Finish(w)
    /\ UNCHANGED <<links, totals, payment, gateway, hooks, ghosts>>

Perform(w) ==
    \/ Decide(w) \/ Alloc(w) \/ SendOk(w) \/ SendFails(w) \/ Record(w)

-----------------------------------------------------------------------------
\* The server stops and starts again: every process is gone.

Crash ==
    /\ Fault
    /\ \E w \in Workers : ~At(w, "idle")
    /\ job' = [w \in Workers |-> IdleJob]
    /\ lost' = lost \cup {job[w].row.link : w \in {v \in Workers : At(v, "totals")}}
    /\ untold' = untold \cup
         {job[w].pay : w \in {v \in Workers : At(v, "totals") \/ At(v, "notify")}}
    /\ UNCHANGED <<links, totals, payment, gateway, ops, hooks>>

Handler(w) ==
    \/ Checkout(w)
    \/ \E p \in Payments : \/ StartStatus(w, p) \/ StartView(w, p) \/ StartLinkView(w, p)
                           \/ \E kind \in Kinds : StartPerform(w, p, kind)

Next ==
    \/ LinkStep
    \/ World
    \/ \E w \in Handlers : Handler(w)
    \/ \E w \in Sweepers, p \in Payments : StartSweep(w, p)
    \/ \E w \in Workers : Refresh(w) \/ Perform(w)
    \/ Crash

Spec == Init /\ [][Next]_vars

-----------------------------------------------------------------------------
(* Types *)

Row == [link : Links \cup {NoLink}, amount : Nat, status : PaymentStatus \cup {"none"},
        auth : Nat, cap : Nat, ref : Nat, completed : BOOLEAN, receipt : BOOLEAN]

Steps == {"idle", "open", "insert", "count", "queued", "retrieve", "abandon",
          "save", "totals", "notify", "decide", "alloc", "send", "record"}

Job == [kind : JobKinds, pc : Steps, pay : Payments \cup {NoPay}, row : Row,
        old : BOOLEAN, amt : Nat, txn : Nat, ok : BOOLEAN]

Txn == [id : Nat, type : Kinds, amt : Nat]
Op  == [txn : Nat, type : Kinds, amt : Nat, status : {"success", "failed"}]

\* Every variable holds the values its column, field or local may hold; only
\* the sum in paid_minor is left untyped.
TypeOK ==
    /\ terms \in [Links -> LinkTerms \cup {NoTerms}]
    /\ linkStatus \in [Links -> LinkStatus \cup {"none"}]
    /\ usedCount \in [Links -> Nat]
    /\ paidCount \in [Links -> Nat]
    /\ DOMAIN paidMinor = Links
    /\ lapsed \in [Links -> BOOLEAN]
    /\ payment \in [Payments -> Row]
    /\ order \in [Payments -> Order]
    /\ txns \in [Payments -> SUBSET Txn]
    /\ page \in [Payments -> {"none", "open", "expired"}]
    /\ ops \in [Payments -> SUBSET Op]
    /\ hooks \subseteq Payments \X Events
    /\ job \in [Workers -> Job]
    /\ faults \in 0 .. MaxFaults
    /\ lost \subseteq Links
    /\ untold \subseteq Payments

-----------------------------------------------------------------------------
(* Safety *)

\* What the record of a payment says, in the table or in the hands of a
\* process that is about to write it, has happened at the gateway: never more
\* captured or refunded than there was, and nothing at all before the first
\* answer (applyOrderOutcome: amounts come straight from the gateway rather
\* than being accumulated locally).
PastOf(row, o) == /\ row.cap <= o.cap /\ row.ref <= o.ref
                  /\ row.status \in {"none", "initiated"} =>
                       row.auth = 0 /\ row.cap = 0 /\ row.ref = 0

RecordIsPast ==
    /\ \A p \in Payments : PastOf(payment[p], order[p])
    /\ \A w \in Workers : job[w].pay # NoPay => PastOf(job[w].row, order[job[w].pay])

\* The counters on a link are those of its payment rows, except between the
\* two writes of some applyOrderOutcome or after a recomputation that failed,
\* however many handlers and workers write the rows (RecomputeLinkTotals:
\* "deriving is the only way the totals stay correct").
Stale(l) == l \in lost \/ \E w \in Workers : At(w, "totals") /\ job[w].row.link = l

TotalsExact ==
    \A l \in Links : ~Stale(l) =>
        paidCount[l] = CommittedOn(payment, l) /\ paidMinor[l] = CollectedOn(payment, l)

\* A link that turned payers away by itself is entitled to: the stored
\* limit_reached and settled are taken back in the transaction that brings the
\* counters below the limit, whatever the order of its four updates.
StatusJustified ==
    \A l \in Links :
        /\ linkStatus[l] = "limit_reached" =>
             terms[l].maxUses > 0 /\ paidCount[l] >= terms[l].maxUses
        /\ linkStatus[l] = "settled" =>
             terms[l].type = "split" /\ paidMinor[l] >= terms[l].target

\* A link whose payments have used it up, or paid its bill, takes no payer
\* once the outcomes in hand are written, even when the operator has set it
\* active again (EffectiveStatus folds the limits into the stored status).
FullLinkRefuses ==
    \A l \in Links : ~Stale(l) /\ Payable(l) =>
        /\ terms[l].maxUses > 0 => CommittedOn(payment, l) < terms[l].maxUses
        /\ terms[l].type = "split" => CollectedOn(payment, l) < terms[l].target

\* An attempt recorded as failed, cancelled or expired will never take money:
\* its order is closed at the gateway, or there is none and the page on which
\* the payer could make one is gone (the reason for abandonAfter).
ClosedIsFinal ==
    \A p \in Payments : payment[p].status \in {"failed", "cancelled", "expired"} =>
        \/ order[p].status \in {"FAILED", "CANCELLED", "EXPIRED"}
        \/ order[p].status = "NONE" /\ page[p] = "expired"

\* An attempt has a completion time exactly when it is neither open nor only
\* reserved, although every process decides from its own copy of the row
\* ("An authorization is not finished business").
CompletedExactly ==
    \A p \in Payments :
        payment[p].completed <=> payment[p].status \notin {"none", "initiated", "authorized"}

\* A success in the audit trail is a transaction of the gateway, with the same
\* id, type and amount, though ids are allocated from a count that two
\* processes may read together and a crash may leave behind.
AuditTruthful ==
    \A p \in Payments : \A op \in ops[p] : op.status = "success" =>
        [id |-> op.txn, type |-> op.type, amt |-> op.amt] \in txns[p]

\* What an integrator has been told of a payment happened at the gateway.
HooksTruthful ==
    \A p \in Payments :
        /\ <<p, "succeeded">> \in hooks => order[p].cap > 0
        /\ <<p, "refunded">> \in hooks => order[p].ref > 0
        /\ <<p, "failed">> \in hooks => order[p].status = "FAILED"
        /\ <<p, "authorized">> \in hooks => order[p].status \notin {"NONE", "PENDING", "FAILED"}

\* The integrator has been told of the outcome on record, unless a process is
\* on its way to tell or the notification was lost to a fault.
HooksFollowRow ==
    \A p \in Payments :
        \/ payment[p] = NoRow \/ ~terms[payment[p].link].hooked
        \/ p \in untold
        \/ \E w \in Workers : job[w].pay = p /\ (At(w, "totals") \/ At(w, "notify"))
        \/ \A e \in EventFor(payment[p].status) : <<p, e>> \in hooks

\* A use is given back only by an authorization released at the gateway: no
\* interleaving of outcomes lets a link count fewer payers than before
\* otherwise (RecomputeLinkTotals: "a voided authorization gives it back").
Released(l) == \E p \in Payments : payment[p].link = l /\ order[p].status \in {"CANCELLED", "EXPIRED"}

UseReturnedOnlyByRelease ==
    [][\A l \in Links : paidCount'[l] < paidCount[l] => Released(l)]_vars

-----------------------------------------------------------------------------
(* Liveness *)

\* The server runs its handlers and its sweep; the gateway answers again and
\* again; a page left open times out.  Nothing is assumed of payers,
\* operators or Merchant Administration.
Fairness ==
    /\ \A w \in Workers : WF_vars(Refresh(w) \/ Perform(w) \/ (Checkout(w) /\ ~At(w, "idle")))
    /\ \A w \in Workers : SF_vars(RetrieveOk(w) \/ RetrieveMissing(w))
    /\ \A p \in Payments : SF_vars(\E w \in Sweepers : StartSweep(w, p))
    /\ \A p \in Payments : WF_vars(PageTimesOut(p))

FairSpec == Spec /\ Fairness

\* An attempt whose order the payer has settled does not stay initiated, even
\* when the payer never comes back (reconcilePending: "without this the attempt
\* would sit at Pending forever even though the money moved").
PaidIsSeen ==
    \A p \in Payments :
        order[p].status \in Recognised ~> payment[p].status # "initiated"

\* An attempt whose payer never did anything is recorded as expired.
AbandonedIsClosed ==
    \A p \in Payments :
        page[p] = "expired" /\ order[p].status = "NONE" ~> payment[p].status = "expired"

-----------------------------------------------------------------------------
(* What the documents say and the code does not do *)

\* api/README.md, "Overpaying is impossible": the contributions to a split
\* bill never add up to more than its total.
NeverOverpaid ==
    \A l \in Links : terms[l].type = "split" =>
        CollectedOn(payment, l) <= terms[l].target

\* api/README.md, "Every attempt - including failures - ... is written to
\* payment_operations": when nothing is under way and nothing has failed, each
\* transaction the gateway accepted from the server is in the audit trail.
AuditComplete ==
    (\A w \in Workers : At(w, "idle")) =>
        \A p \in Payments : \A t \in txns[p] :
            [txn |-> t.id, type |-> t.type, amt |-> t.amt, status |-> "success"] \in ops[p]

\* api/README.md, "A double submit, or a capture someone made in Merchant
\* Administration, is caught here": an operation the gateway carries out was
\* decided on the balance it then has.
DecidedOnCurrentBalance ==
    \A w \in Workers : At(w, "send") /\ Accepted(w) =>
        LET o == order[job[w].pay]
        IN  job[w].row.cap = o.cap /\ job[w].row.ref = o.ref

\* public_handlers.go, "replaying this is harmless": writing an outcome never
\* takes back captured or refunded money that was on record.
NoRollback ==
    [][\A p \in Payments : /\ payment'[p].cap >= payment[p].cap
                           /\ payment'[p].ref >= payment[p].ref]_vars
=============================================================================
