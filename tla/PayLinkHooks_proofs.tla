------------------------- MODULE PayLinkHooks_proofs -------------------------
(***************************************************************************)
(* What integrators are told, and when a use is given back: three more     *)
(* properties of PayLink, for every value of the constants.                *)
(*                                                                         *)
(* The inductive invariant of PayLink_proofs knows that a record was true  *)
(* of its order.  These properties need to know a little more of orders    *)
(* (one in a status that says so has money), of records (a failed one has  *)
(* a failed order) and of links (a payment's is never created again); that *)
(* is ToldInv, and the rest is read from how a step may change a row, the  *)
(* locals of a process and an order.                                       *)
(***************************************************************************)
EXTENDS PayLinkSafety_proofs

RefundedOrders == {"PARTIALLY_REFUNDED", "REFUNDED"}
RefundedRows   == {"partially_refunded", "refunded"}
ReleasedOrders == {"CANCELLED", "EXPIRED"}

\* An order in a status that speaks of money has some: nothing is captured or
\* refunded for an amount of zero.
OrderTold(o) == /\ o.status \in MoneyOrders => o.cap > 0
                /\ o.status \in RefundedOrders => o.ref > 0

\* What a record says was true of its order, and cannot cease to be.
Told(row, o) == /\ row.status = "failed" => o.status = "FAILED"
                /\ row.status \in RefundedRows => o.ref > 0

\* A record is of a positive amount, on a link that exists.
Live(row) == row.amount > 0 /\ linkStatus[row.link] # "none"

\* A process that has mirrored an order and not yet returned.
Writing(j) == j.ok \/ j.pc \in {"save", "totals", "notify"}

JobTold(j) ==
    /\ j.pc # "idle" => Live(j.row) /\ Told(j.row, order[j.pay])
    /\ Writing(j) => j.row.status # "initiated"

RowTold(p) == payment[p] # NoRow => Live(payment[p]) /\ Told(payment[p], order[p])

ToldInv == /\ \A p \in Payments : RowTold(p) /\ OrderTold(order[p])
           /\ \A w \in Workers : JobTold(job[w])

\* The outcome on record is told, or its process is on its way: that of the
\* last who wrote the row.
FollowInv ==
    \A p \in Payments :
        \/ payment[p] = NoRow \/ ~terms[payment[p].link].hooked
        \/ p \in untold
        \/ \E w \in Workers : /\ job[w].pay = p /\ (At(w, "totals") \/ At(w, "notify"))
                              /\ job[w].row.status = payment[p].status
        \/ \A e \in EventFor(payment[p].status) : <<p, e>> \in hooks

\* The counter of a link with no release behind it is at most what the rows
\* say, even before they are counted.
UseInv == \A l \in Links : Released(l) \/ paidCount[l] <= CommittedOn(payment, l)

-----------------------------------------------------------------------------
(* How an order moves *)

\* What any step may do to an order: it only moves on, and what was said of it
\* for good stays so.
Onward(o, o2, pg) == /\ Advances(o, o2, pg) /\ OrderTold(o2)
                     /\ o.status = "FAILED" => o2.status = "FAILED"
                     /\ o.status \in ReleasedOrders => o2.status \in ReleasedOrders

\* An accepted operation of a positive amount moves the order onward (Gateway).
LEMMA AfterOnward ==
    ASSUME NEW o \in Order, OrderOK(o), OrderTold(o), NEW kind \in Kinds, NEW amt \in Nat,
           kind # "void" => amt > 0, Accepts(o, kind, amt), NEW pg
    PROVE  Onward(o, After(o, kind, amt), pg)
<1>1. Advances(o, After(o, kind, amt), pg)
  BY AfterAdvances
<1> USE DEF OrderTold, OrderOK, MoneyOrders, RefundedOrders, ReleasedOrders
<1>2. o.cap \in Nat /\ o.ref \in Nat
  BY DEF Order
<1>3. CASE kind = "capture"
  <2>1. o.status \in {"AUTHORIZED", "PARTIALLY_CAPTURED"} /\ amt > 0
    BY <1>3 DEF Accepts
  <2>2. /\ After(o, kind, amt).status \in {"CAPTURED", "PARTIALLY_CAPTURED"}
        /\ After(o, kind, amt).cap = o.cap + amt
    BY <1>3, AfterFields
  <2> QED
    BY <1>1, <1>2, <2>1, <2>2 DEF Onward
<1>4. CASE kind = "refund"
  <2>1. o.cap > 0 /\ amt > 0
    BY <1>2, <1>4 DEF Accepts
  <2>2. /\ After(o, kind, amt).status \in RefundedOrders
        /\ After(o, kind, amt).cap = o.cap /\ After(o, kind, amt).ref = o.ref + amt
    BY <1>4, AfterFields
  <2> QED
    BY <1>1, <1>2, <2>1, <2>2 DEF Onward
<1>5. CASE kind = "void"
  <2>1. o.status = "AUTHORIZED"
    BY <1>5 DEF Accepts
  <2>2. After(o, kind, amt).status = "CANCELLED"
    BY <1>5, AfterFields
  <2> QED
    BY <1>1, <2>1, <2>2 DEF Onward
<1> QED
  BY <1>3, <1>4, <1>5 DEF Kinds

\* An order that does not move is onward of itself.
LEMMA StayOnward ==
    ASSUME NEW o \in Order, OrderTold(o), NEW pg
    PROVE  Onward(o, o, pg)
BY DEF Onward, Advances, Order

\* The payer's card, and the hold that lapses.
LEMMA PayerOnward ==
    ASSUME IndInv, ToldInv, NEW p \in Payments, NEW o, GatewayMoves(p, o),
           PayerStarts(p) \/ PayerPays(p) \/ PayerDeclined(p) \/ HoldLapses(p)
    PROVE  Onward(order[p], order'[p], page[p])
<1>1. /\ order[p] \in Order /\ OrderOK(order[p]) /\ payment[p] \in Row /\ RowOK(p)
      /\ order \in [Payments -> Order]
  BY PaymentFacts DEF IndInv, TypeOK
<1> USE DEF Onward, OrderTold, Advances, OrderOK, MoneyOrders, RefundedOrders,
            ReleasedOrders, ClosedOrders
<1>2. ASSUME NEW s, s \in {"PENDING", "FAILED", "EXPIRED"},
             order' = [order EXCEPT ![p] = Closed(s)],
             \/ s = "PENDING" /\ page[p] = "open" /\ order[p].status = "NONE"
             \/ s = "FAILED" /\ order[p].status = "PENDING"
             \/ s = "EXPIRED" /\ order[p].status = "AUTHORIZED"
      PROVE  Onward(order[p], order'[p], page[p])
  <2>1. order'[p] = Closed(s)
    BY <1>1, <1>2
  <2>2. Closed(s).status = s /\ Closed(s).cap = 0 /\ Closed(s).ref = 0
    BY DEF Closed
  <2>3. order[p].cap = 0 /\ order[p].ref = 0
    BY <1>1, <1>2
  <2> QED
    BY <1>2, <2>1, <2>2, <2>3
<1>3. CASE PayerPays(p)
  <2> DEFINE a == payment[p].amount
             m == terms[payment[p].link].mode
  <2>1. page[p] = "open" /\ order[p].status = "PENDING" /\ order' = [order EXCEPT ![p] = Paid(m, a)]
    BY <1>3 DEF PayerPays, GatewayMoves
  <2>2. payment[p] # NoRow
    BY <1>1, <2>1 DEF RowOK
  <2>3. a \in Nat /\ a > 0
    BY <1>1, <2>2 DEF ToldInv, RowTold, Live, Row
  <2>4. order[p].cap = 0 /\ order[p].ref = 0
    BY <1>1, <2>1
  <2> HIDE DEF a, m
  <2>5. /\ Paid(m, a).status \in {"AUTHORIZED", "CAPTURED"}
        /\ Paid(m, a).status = "CAPTURED" => Paid(m, a).cap = a
        /\ Paid(m, a).cap \in Nat /\ Paid(m, a).ref = 0
    BY <2>3 DEF Paid
  <2>6. order'[p] = Paid(m, a)
    BY <1>1, <2>1
  <2> QED
    BY <2>1, <2>3, <2>4, <2>5, <2>6
<1>4. CASE PayerStarts(p) \/ PayerDeclined(p) \/ HoldLapses(p)
  BY <1>2, <1>4 DEF PayerStarts, PayerDeclined, HoldLapses, GatewayMoves
<1> QED
  BY <1>3, <1>4

\* Every step moves every order onward.
LEMMA OrdersOnward ==
    ASSUME IndInv, ToldInv, [Next]_vars, NEW q \in Payments
    PROVE  Onward(order[q], order'[q], page[q])
<1>1. /\ order \in [Payments -> Order] /\ order[q] \in Order /\ OrderTold(order[q])
  BY DEF IndInv, TypeOK, ToldInv
<1>2. CASE UNCHANGED order
  BY <1>1, <1>2, StayOnward
<1>3. ASSUME NEW p \in Payments, NEW o, order' = [order EXCEPT ![p] = o],
             Onward(order[p], order'[p], page[p])
      PROVE  Onward(order[q], order'[q], page[q])
  <2>1. q # p => order'[q] = order[q]
    BY <1>1, <1>3
  <2> QED
    BY <1>1, <1>3, <2>1, StayOnward
<1>4. ASSUME NEW p \in Payments,
             PayerStarts(p) \/ PayerPays(p) \/ PayerDeclined(p) \/ HoldLapses(p)
      PROVE  Onward(order[q], order'[q], page[q])
  <2>1. PICK o : GatewayMoves(p, o)
    BY <1>4 DEF PayerStarts, PayerPays, PayerDeclined, HoldLapses
  <2> QED
    BY <1>3, <1>4, <2>1, PayerOnward DEF GatewayMoves
<1>5. ASSUME NEW p \in Payments, MerchantAdmin(p)
      PROVE  Onward(order[q], order'[q], page[q])
  <2>0. order[p] \in Order /\ OrderOK(order[p]) /\ OrderTold(order[p])
    BY PaymentFacts DEF ToldInv
  <2>1. PICK kind \in AdminKinds, amt \in 1 .. order[p].auth :
          Accepts(order[p], kind, amt) /\ GatewayMoves(p, After(order[p], kind, amt))
    BY <1>5 DEF MerchantAdmin
  <2>2. amt \in Nat /\ amt > 0 /\ kind \in Kinds
    BY <2>0, OutsideChoices DEF Order
  <2>3. order' = [order EXCEPT ![p] = After(order[p], kind, amt)]
    BY <2>1 DEF GatewayMoves
  <2>4. Onward(order[p], order'[p], page[p])
    BY <1>1, <2>0, <2>1, <2>2, <2>3, AfterOnward
  <2> QED
    BY <1>3, <2>3, <2>4
<1>6. ASSUME NEW w \in Workers, SendOk(w)
      PROVE  Onward(order[q], order'[q], page[q])
  <2> DEFINE p == job[w].pay
             o == After(order[p], job[w].kind, job[w].amt)
  <2>1. /\ At(w, "send") /\ ~At(w, "idle") /\ Accepts(order[p], job[w].kind, job[w].amt)
        /\ order' = [order EXCEPT ![p] = o]
    BY <1>6 DEF SendOk, At, Accepted
  <2>2. /\ p \in Payments /\ order[p] \in Order /\ OrderOK(order[p]) /\ OrderTold(order[p])
        /\ job[w].kind \in Kinds /\ job[w].amt \in Nat
        /\ job[w].kind # "void" => job[w].amt > 0
    BY <2>1, JobFacts DEF LocalOK, At, Job, ToldInv
  <2>3. Onward(order[p], order'[p], page[p])
    BY <1>1, <2>1, <2>2, AfterOnward
  <2> HIDE DEF o, p
  <2> QED
    BY <1>3, <2>1, <2>2, <2>3
<1>7. CASE ~UNCHANGED order
  <2>1. Next
    BY <1>7 DEF vars, gateway
  <2>2. \/ \E p \in Payments : \/ PayerStarts(p) \/ PayerPays(p) \/ PayerDeclined(p)
                               \/ HoldLapses(p) \/ MerchantAdmin(p)
        \/ \E w \in Workers : SendOk(w)
    BY <1>7, <2>1 DEF Next, LinkStep, CreateLink, SetLinkStatus, LinkExpires, World,
       PageTimesOut, Handler, Checkout, StartCheckout, OpenSession, CreatePayment, CountUse,
       StartStatus, StartView, StartLinkView, StartPerform, StartSweep, Load, Refresh, Begin,
       RetrieveOk, RetrieveMissing, RetrieveFails, Abandon, Save, Totals, Notify, Perform,
       Decide, Alloc, SendFails, Record, Crash, gateway
  <2> QED
    BY <1>4, <1>5, <1>6, <2>2
<1> QED
  BY <1>2, <1>7
-----------------------------------------------------------------------------
(* What a step does to links, rows and locals *)

\* A link that exists goes on existing, on its terms.
LEMMA LinksStay ==
    ASSUME IndInv, [Next]_vars, NEW l \in Links, linkStatus[l] # "none"
    PROVE  linkStatus'[l] # "none" /\ terms'[l] = terms[l]
<1>0. /\ linkStatus \in [Links -> LinkStatus \cup {"none"}]
      /\ terms \in [Links -> LinkTerms \cup {NoTerms}]
  BY DEF IndInv, TypeOK
<1>1. CASE UNCHANGED <<terms, linkStatus>>
  BY <1>1
<1>2. ASSUME NEW k \in Links, NEW t, CreateLink(k, t)
      PROVE  linkStatus'[l] # "none" /\ terms'[l] = terms[l]
  BY <1>0, <1>2 DEF CreateLink
<1>3. ASSUME NEW k \in Links, NEW s \in OperatorSets, SetLinkStatus(k, s)
      PROVE  linkStatus'[l] # "none" /\ terms'[l] = terms[l]
  <2>1. s # "none" /\ UNCHANGED terms /\ linkStatus' = [linkStatus EXCEPT ![k] = s]
    BY <1>3, OutsideChoices DEF SetLinkStatus
  <2> QED
    BY <1>0, <2>1
<1>4. ASSUME NEW w \in Workers, Totals(w), ~UNCHANGED linkStatus
      PROVE  linkStatus'[l] # "none" /\ terms'[l] = terms[l]
  <2> DEFINE k == job[w].row.link
  <2>1. Recompute(k) /\ UNCHANGED terms
    BY <1>4 DEF Totals
  <2>2. PICK n, m : linkStatus' = [linkStatus EXCEPT ![k] = RecomputedStatus(terms[k], @, n, m)]
    BY <2>1 DEF Recompute
  <2>3. RecomputedStatus(terms[k], linkStatus[l], n, m) # "none"
    BY DEF RecomputedStatus
  <2> HIDE DEF k
  <2> QED
    BY <1>0, <2>1, <2>2, <2>3
<1>5. ASSUME LinkStep PROVE linkStatus'[l] # "none" /\ terms'[l] = terms[l]
  BY <1>1, <1>2, <1>3, <1>5 DEF LinkStep, LinkExpires
<1>6. ASSUME World \/ Crash PROVE linkStatus'[l] # "none" /\ terms'[l] = terms[l]
  BY <1>1, <1>6 DEF World, GatewayMoves, PayerStarts, PayerPays, PayerDeclined, HoldLapses,
     MerchantAdmin, PageTimesOut, Crash, links
<1>7. ASSUME NEW w, \/ Handler(w) \/ \E p : StartSweep(w, p)
                    \/ (Refresh(w) /\ ~Totals(w)) \/ Perform(w)
      PROVE  linkStatus'[l] # "none" /\ terms'[l] = terms[l]
  BY <1>1, <1>7 DEF Handler, Checkout, StartCheckout, OpenSession, CreatePayment, CountUse,
     StartStatus, StartView, StartLinkView, StartPerform, StartSweep, Load, Refresh, Begin,
     RetrieveOk, RetrieveMissing, RetrieveFails, Abandon, Save, Notify, Perform, Decide,
     Alloc, SendOk, SendFails, Record, links
<1>8. ASSUME NEW w \in Workers, Totals(w) PROVE linkStatus'[l] # "none" /\ terms'[l] = terms[l]
  BY <1>1, <1>4, <1>8 DEF Totals
<1>9. CASE Next
  BY <1>5, <1>6, <1>7, <1>8, <1>9 DEF Next
<1>10. CASE UNCHANGED vars
  BY <1>1, <1>10 DEF vars, links
<1> QED
  BY <1>9, <1>10

\* A row is written by a process that holds its attempt: inserted, given up, or
\* saved on the way to the link's totals.
Writes(w, p) ==
    /\ job[w].pay = p /\ payment'[p] = job[w].row
    /\ \/ At(w, "insert") /\ payment[p] = NoRow
       \/ At(w, "abandon")
       \/ At(w, "save") /\ Goto(w, "totals")

LEMMA RowsWritten ==
    ASSUME IndInv, [Next]_vars, NEW p \in Payments
    PROVE  payment'[p] = payment[p] \/ \E w \in Workers : Writes(w, p)
<1>0. payment \in [Payments -> Row]
  BY DEF IndInv, TypeOK
<1>1. CASE UNCHANGED payment
  BY <1>1
<1>2. ASSUME NEW w \in Workers, CreatePayment(w) \/ Save(w) \/ Abandon(w), ~UNCHANGED payment
      PROVE  payment'[p] = payment[p] \/ Writes(w, p)
  <2>1. /\ payment' = [payment EXCEPT ![job[w].pay] = job[w].row]
        /\ \/ At(w, "insert") \/ At(w, "abandon")
           \/ At(w, "save") /\ Goto(w, "totals")
    BY <1>2 DEF CreatePayment, Save, Abandon
  <2>2. CASE job[w].pay # p
    BY <1>0, <2>1, <2>2
  <2>3. CASE job[w].pay = p
    <3>1. At(w, "insert") => payment[p] = NoRow
      BY <2>3, JobFacts DEF LocalOK, At
    <3> QED
      BY <1>0, <2>1, <2>3, <3>1 DEF Writes
  <2> QED
    BY <2>2, <2>3
<1>3. \/ UNCHANGED payment
      \/ \E w \in Workers : (CreatePayment(w) \/ Save(w) \/ Abandon(w)) /\ ~UNCHANGED payment
  BY DEF Next, LinkStep, CreateLink, SetLinkStatus, LinkExpires, World, GatewayMoves,
     PayerStarts, PayerPays, PayerDeclined, HoldLapses, MerchantAdmin, PageTimesOut, Handler,
     Checkout, StartCheckout, OpenSession, CountUse, StartStatus, StartView, StartLinkView,
     StartPerform, StartSweep, Load, Refresh, Begin, RetrieveOk, RetrieveMissing, RetrieveFails,
     Totals, Notify, Perform, Decide, Alloc, SendOk, SendFails, Record, Crash, vars, Workers
<1> QED
  BY <1>1, <1>2, <1>3

\* Where the locals of a process come from: they are unchanged, cleared, those
\* it had at another step, a new attempt's, loaded from the table, mirrored
\* from the order as it stands, or given up.
Cleared(w)  == job'[w] = IdleJob
Carries(w)  == /\ ~At(w, "idle")
               /\ job'[w].pay = job[w].pay /\ job'[w].row = job[w].row
               /\ Writing(job'[w]) => Writing(job[w])
Opens(w)    == /\ ~Writing(job'[w])
               /\ \E l \in Links, a \in Amounts : Payable(l) /\ job'[w].row = NewRow(l, a)
Loads(w)    == /\ ~Writing(job'[w])
               /\ job'[w].pay \in Payments /\ payment[job'[w].pay] # NoRow
               /\ job'[w].row = payment[job'[w].pay]
Mirrors(w)  == /\ ~At(w, "idle") /\ job'[w].pay = job[w].pay
               /\ order'[job[w].pay] \in Order /\ order'[job[w].pay].status \in Recognised
               /\ \E receipt \in BOOLEAN :
                    job'[w].row = Mirror(job[w].row, order'[job[w].pay], receipt)
GivesUp(w)  == /\ ~At(w, "idle") /\ job'[w].pay = job[w].pay
               /\ ~Writing(job'[w]) /\ job'[w].row = Abandoned(job[w].row)

Comes(w) == Cleared(w) \/ Carries(w) \/ Opens(w) \/ Loads(w) \/ Mirrors(w) \/ GivesUp(w)

\* The locals of a process are a record with a row and a step.
LEMMA OwnJob ==
    ASSUME IndInv, AuditInv, NEW w \in Workers
    PROVE  /\ job \in [Workers -> Job] /\ job[w] \in Job /\ job[w].ok \in BOOLEAN
           /\ job[w].ok => job[w].pc \in {"record", "save", "totals", "notify"}
BY DEF IndInv, TypeOK, AuditInv, OkIsTxn, Job

\* A process that goes to another step carries its record on.
LEMMA GotoCarries ==
    ASSUME IndInv, AuditInv, NEW w \in Workers, ~At(w, "idle"),
           NEW pc, Goto(w, pc), pc \in {"save", "totals", "notify"} => Writing(job[w])
    PROVE  Comes(w)
<1>1. job'[w].pay = job[w].pay /\ job'[w].row = job[w].row /\ job'[w].ok = job[w].ok
      /\ job'[w].pc = pc
  BY OwnJob DEF Goto, Job
<1> QED
  BY <1>1 DEF Comes, Carries, Writing

\* So does one that ends, which carries nothing.
LEMMA FinishCarries ==
    ASSUME IndInv, AuditInv, NEW w \in Workers, Finish(w)
    PROVE  Comes(w)
BY OwnJob DEF Finish, Comes, Cleared

LEMMA ReturnCarries ==
    ASSUME IndInv, AuditInv, NEW w \in Workers, ~At(w, "idle"), Return(w)
    PROVE  Comes(w)
BY GotoCarries, FinishCarries DEF Return

\* The steps of a refresh.
LEMMA RefreshComes ==
    ASSUME IndInv, AuditInv, NEW w \in Workers, Refresh(w)
    PROVE  Comes(w)
<1>0. /\ job \in [Workers -> Job] /\ job[w] \in Job
      /\ job[w].ok => job[w].pc \in {"record", "save", "totals", "notify"}
  BY OwnJob
<1>1. ~At(w, "idle") /\ job[w].pay \in Payments /\ order[job[w].pay] \in Order
  <2>1. ~At(w, "idle")
    BY DEF Refresh, Begin, RetrieveOk, RetrieveMissing, RetrieveFails, Abandon, Save, Totals,
       Notify, At
  <2> QED
    BY <2>1, JobFacts
<1>2. ASSUME Begin(w) PROVE Comes(w)
  <2>1. /\ job'[w].pay = job[w].pay /\ job'[w].row = job[w].row
        /\ job'[w].ok = job[w].ok /\ job'[w].pc = "retrieve" /\ ~job[w].ok
    BY <1>0, <1>2 DEF Begin, At, Job
  <2> QED
    BY <1>1, <2>1 DEF Comes, Carries, Writing
<1>3. ASSUME RetrieveOk(w), ~Return(w) PROVE Comes(w)
  <2>1. PICK receipt \in BOOLEAN :
          job' = [job EXCEPT ![w].pc = "save", ![w].old = FALSE,
                             ![w].row = Mirror(@, order[job[w].pay], receipt)]
    BY <1>3 DEF RetrieveOk
  <2>2. order' = order /\ order[job[w].pay].status \in Recognised
    BY <1>3 DEF RetrieveOk, gateway
  <2>3. job'[w].pay = job[w].pay /\ job'[w].row = Mirror(job[w].row, order[job[w].pay], receipt)
    BY <1>0, <2>1 DEF Job
  <2>4. Mirrors(w)
    BY <1>1, <2>2, <2>3 DEF Mirrors
  <2> QED
    BY <2>4 DEF Comes
<1>4. ASSUME RetrieveMissing(w), ~Finish(w) PROVE Comes(w)
  <2>1. /\ job' = [job EXCEPT ![w].pc = "abandon", ![w].row = Abandoned(@)]
        /\ At(w, "retrieve")
    BY <1>4 DEF RetrieveMissing
  <2>2. /\ job'[w].pay = job[w].pay /\ job'[w].row = Abandoned(job[w].row)
        /\ job'[w].pc = "abandon" /\ ~job'[w].ok
    BY <1>0, <2>1 DEF Job, At
  <2> QED
    BY <1>1, <2>2 DEF Comes, GivesUp, Writing
<1>5. ASSUME Finish(w) \/ Return(w) PROVE Comes(w)
  BY <1>1, <1>5, FinishCarries, ReturnCarries
<1>6. ASSUME Goto(w, "totals") \/ Goto(w, "notify"), Save(w) \/ Totals(w) PROVE Comes(w)
  <2>1. Writing(job[w])
    BY <1>6 DEF Save, Totals, At, Writing
  <2> QED
    BY <1>1, <1>6, <2>1, GotoCarries
<1> QED
  BY <1>2, <1>3, <1>4, <1>5, <1>6
     DEF Refresh, RetrieveFails, Abandon, Save, Totals, Notify

\* The steps of perform.
LEMMA PerformComes ==
    ASSUME IndInv, AuditInv, NEW w \in Workers, Perform(w)
    PROVE  Comes(w)
<1>0. /\ job \in [Workers -> Job] /\ job[w] \in Job
      /\ job[w].ok => job[w].pc \in {"record", "save", "totals", "notify"}
  BY OwnJob
<1>1. ~At(w, "idle") /\ job[w].pay \in Payments /\ LocalOK(job[w])
  <2>1. ~At(w, "idle")
    BY DEF Perform, Decide, Alloc, SendOk, SendFails, Record, At
  <2> QED
    BY <2>1, JobFacts
<1>2. ASSUME Decide(w) PROVE Comes(w)
  <2>1. CASE Finish(w)
    BY <2>1, FinishCarries
  <2>2. CASE ~Finish(w)
    <3>1. PICK row \in {payment[job[w].pay], job[w].row} :
            \E amt \in OperationAmounts(job[w].kind, row) :
              job' = [job EXCEPT ![w].pc = "alloc", ![w].row = row, ![w].amt = amt]
      BY <1>2, <2>2 DEF Decide
    <3>0. PICK amt : job' = [job EXCEPT ![w].pc = "alloc", ![w].row = row, ![w].amt = amt]
      BY <3>1
    <3>2. /\ job'[w].pay = job[w].pay /\ job'[w].row = row /\ job'[w].pc = "alloc"
          /\ job'[w].ok = job[w].ok /\ ~job[w].ok
      BY <1>0, <1>2, <3>0 DEF Job, Decide, At
    <3>3. payment[job[w].pay] # NoRow
      BY <1>1, <1>2 DEF LocalOK, Decide, At
    <3>4. Carries(w) \/ Loads(w)
      BY <1>1, <3>2, <3>3 DEF Carries, Loads, Writing
    <3> QED
      BY <3>4 DEF Comes
  <2> QED
    BY <2>1, <2>2
<1>3. ASSUME Alloc(w) PROVE Comes(w)
  <2>1. CASE Finish(w)
    BY <2>1, FinishCarries
  <2>2. CASE ~Finish(w)
    <3>1. /\ job' = [job EXCEPT ![w].pc = "send", ![w].txn = NextTransactionID(job[w].pay)]
          /\ ~job[w].ok
      BY <1>0, <1>3, <2>2 DEF Alloc, At
    <3>2. /\ job'[w].pay = job[w].pay /\ job'[w].row = job[w].row /\ job'[w].pc = "send"
          /\ job'[w].ok = job[w].ok
      BY <1>0, <3>1 DEF Job
    <3> QED
      BY <1>1, <3>1, <3>2 DEF Comes, Carries, Writing
  <2> QED
    BY <2>1, <2>2
<1>4. ASSUME SendFails(w) PROVE Comes(w)
  BY <1>1, <1>4, GotoCarries DEF SendFails
<1>5. ASSUME SendOk(w) PROVE Comes(w)
  <2> DEFINE p == job[w].pay
             o == After(order[p], job[w].kind, job[w].amt)
  <2>1. /\ At(w, "send") /\ Accepts(order[p], job[w].kind, job[w].amt)
        /\ order' = [order EXCEPT ![p] = o]
        /\ \/ job' = [job EXCEPT ![w].pc = "record", ![w].ok = TRUE,
                                 ![w].row = Mirror(@, o, FALSE)]
           \/ Goto(w, "record")
    BY <1>5 DEF SendOk, Accepted
  <2>2. CASE Goto(w, "record")
    BY <1>1, <2>2, GotoCarries
  <2>3. CASE ~Goto(w, "record")
    <3>1. order[p] \in Order /\ job[w].kind \in Kinds /\ job[w].amt \in Nat
      BY <1>0, <1>1, <2>1, JobFacts DEF LocalOK, At, Job
    <3>2. o \in Order /\ o.status \in Recognised
      BY <2>1, <3>1, AfterTypes
    <3>3. order'[p] = o
      BY <1>1, <2>1 DEF IndInv, TypeOK
    <3> HIDE DEF o
    <3>4. job'[w].pay = p /\ job'[w].row = Mirror(job[w].row, o, FALSE)
      <4> DEFINE m == Mirror(job[w].row, o, FALSE)
      <4>1. job' = [job EXCEPT ![w].pc = "record", ![w].ok = TRUE, ![w].row = m]
        BY <1>0, <2>1, <2>3 DEF Job
      <4> HIDE DEF m
      <4>2. job'[w].pay = p /\ job'[w].row = m
        BY <1>0, <4>1 DEF Job
      <4> QED
        BY <4>2 DEF m
    <3>5. Mirrors(w)
      BY <1>1, <3>2, <3>3, <3>4 DEF Mirrors
    <3> QED
      BY <3>5 DEF Comes
  <2> QED
    BY <2>2, <2>3
<1>6. ASSUME Record(w) PROVE Comes(w)
  <2>1. CASE Finish(w)
    BY <2>1, FinishCarries
  <2>2. CASE ~Finish(w)
    <3>1. job' = [job EXCEPT ![w].pc = "save", ![w].amt = 0, ![w].txn = 0] /\ job[w].ok
      BY <1>6, <2>2 DEF Record
    <3>2. job'[w].pay = job[w].pay /\ job'[w].row = job[w].row
      BY <1>0, <3>1 DEF Job
    <3> QED
      BY <1>1, <3>1, <3>2 DEF Comes, Carries, Writing
  <2> QED
    BY <2>1, <2>2
<1> QED
  BY <1>2, <1>3, <1>4, <1>5, <1>6 DEF Perform

\* Every step, for every process.
LEMMA LocalsCome ==
    ASSUME IndInv, AuditInv, [Next]_vars, NEW v \in Workers
    PROVE  job'[v] = job[v] \/ Comes(v)
<1>1. CASE UNCHANGED job
  BY <1>1
<1>2. ASSUME Crash PROVE job'[v] = job[v] \/ Comes(v)
  BY <1>2 DEF Crash, Comes, Cleared
<1>3. ASSUME NEW w \in Workers, Comes(w), \A u \in Workers : u # w => job'[u] = job[u]
      PROVE  job'[v] = job[v] \/ Comes(v)
  BY <1>3
<1>4. ASSUME NEW w \in Workers, NEW kind, NEW pc \in {"queued", "retrieve"},
             NEW p \in Payments, Load(w, kind, pc, p)
      PROVE  job'[v] = job[v] \/ Comes(v)
  <2> DEFINE j == [IdleJob EXCEPT !.kind = kind, !.pc = pc, !.pay = p, !.row = payment[p]]
  <2>1. job' = [job EXCEPT ![w] = j] /\ payment[p] # NoRow
    BY <1>4 DEF Load
  <2>2. j.pay = p /\ j.row = payment[p] /\ j.pc = pc /\ ~j.ok
    BY DEF IdleJob
  <2>3. job'[w] = j
    BY <2>1, OwnJob
  <2> HIDE DEF j
  <2>4. Comes(w)
    BY <2>1, <2>2, <2>3 DEF Comes, Loads, Writing
  <2> QED
    BY <1>3, <2>1, <2>4, OwnLocals
<1>5. ASSUME NEW w \in Handlers, Checkout(w) PROVE job'[v] = job[v] \/ Comes(v)
  <2>0. w \in Workers
    BY DEF Workers
  <2>1. ASSUME NEW l \in Links, NEW p \in Payments, NEW a \in Amounts, StartCheckout(w, l, p, a)
        PROVE  job'[v] = job[v] \/ Comes(v)
    <3> DEFINE j == [IdleJob EXCEPT !.kind = "checkout", !.pc = "open",
                                    !.pay = p, !.row = NewRow(l, a)]
    <3>1. job' = [job EXCEPT ![w] = j] /\ Payable(l)
      BY <2>1 DEF StartCheckout
    <3>2. j.row = NewRow(l, a) /\ j.pc = "open" /\ ~j.ok
      BY DEF IdleJob
    <3>3. job'[w] = j
      BY <2>0, <3>1, OwnJob
    <3> HIDE DEF j
    <3>4. Comes(w)
      BY <3>1, <3>2, <3>3 DEF Comes, Opens, Writing
    <3> QED
      BY <1>3, <2>0, <3>1, <3>4, OwnLocals
  <2>2. ASSUME OpenSession(w) \/ CreatePayment(w) \/ CountUse(w)
        PROVE  job'[v] = job[v] \/ Comes(v)
    <3>1. ~At(w, "idle") /\ (Finish(w) \/ Goto(w, "insert") \/ Goto(w, "count"))
      BY <2>2 DEF OpenSession, CreatePayment, CountUse, At
    <3>2. Comes(w)
      BY <2>0, <3>1, GotoCarries, FinishCarries
    <3> QED
      BY <1>3, <2>0, <3>1, <3>2, OwnLocals
  <2> QED
    BY <1>5, <2>1, <2>2 DEF Checkout
<1>6. ASSUME NEW w \in Workers, Refresh(w) \/ Perform(w)
      PROVE  job'[v] = job[v] \/ Comes(v)
  <2>1. (\E j : job' = [job EXCEPT ![w] = j]) \/ Finish(w) \/ Return(w) \/ \E pc : Goto(w, pc)
    BY <1>6 DEF Refresh, Begin, RetrieveOk, RetrieveMissing, RetrieveFails, Abandon, Save,
       Totals, Notify, Perform, Decide, Alloc, SendOk, SendFails, Record
  <2> QED
    BY <1>3, <1>6, <2>1, OwnLocals, RefreshComes, PerformComes
<1>7. CASE LinkStep \/ World
  BY <1>7 DEF LinkStep, CreateLink, SetLinkStatus, LinkExpires, World, GatewayMoves,
     PayerStarts, PayerPays, PayerDeclined, HoldLapses, MerchantAdmin, PageTimesOut
<1>8. CASE Next
  BY <1>2, <1>4, <1>5, <1>6, <1>7, <1>8
     DEF Next, Handler, StartStatus, StartView, StartLinkView, StartSweep, StartPerform, Workers
<1> QED
  BY <1>1, <1>8 DEF vars
-----------------------------------------------------------------------------
(* Records tell what has happened *)

\* What a record says stays true as its order moves onward.
LEMMA ToldStays ==
    ASSUME NEW row, NEW o \in Order, NEW o2 \in Order, NEW pg, Told(row, o), Onward(o, o2, pg)
    PROVE  Told(row, o2)
BY DEF Told, Onward, Advances, Order

\* What applyOrderOutcome makes of a record is told of the order it mirrors.
LEMMA MirrorTold ==
    ASSUME NEW row \in Row, NEW o \in Order, o.status \in Recognised, OrderTold(o),
           NEW receipt \in BOOLEAN
    PROVE  /\ Told(Mirror(row, o, receipt), o)
           /\ Mirror(row, o, receipt).status # "initiated"
           /\ Mirror(row, o, receipt).link = row.link
           /\ Mirror(row, o, receipt).amount = row.amount
<1>1. Mirror(row, o, receipt).status = StatusFromOrder(o.status)
  BY DEF Mirror, Row
<1>2. /\ StatusFromOrder(o.status) = "failed" => o.status = "FAILED"
      /\ StatusFromOrder(o.status) \in RefundedRows => o.status \in RefundedOrders
      /\ StatusFromOrder(o.status) # "initiated"
  BY DEF StatusFromOrder, Recognised, RefundedRows, RefundedOrders
<1>3. Mirror(row, o, receipt).link = row.link /\ Mirror(row, o, receipt).amount = row.amount
  BY DEF Mirror, Row
<1> QED
  BY <1>1, <1>2, <1>3 DEF Told, OrderTold

\* What ToldInv says of a process under way.
LEMMA JobTells ==
    ASSUME IndInv, ToldInv, NEW w \in Workers, ~At(w, "idle")
    PROVE  /\ job[w].pay \in Payments /\ job[w].row \in Row /\ job[w].row.link \in Links
           /\ Live(job[w].row) /\ Told(job[w].row, order[job[w].pay])
BY JobFacts DEF ToldInv, JobTold, LocalOK, At

\* Every process goes on telling the truth.
LEMMA JobToldStep ==
    ASSUME IndInv, AuditInv, ToldInv, [Next]_vars, NEW v \in Workers
    PROVE  JobTold(job[v])'
<1> DEFINE p == job[v].pay
<1>0. \A q \in Payments : /\ order[q] \in Order /\ order'[q] \in Order
                          /\ Onward(order[q], order'[q], page[q])
  <2>1. order \in [Payments -> Order] /\ order' \in [Payments -> Order]
    BY NextInv DEF IndInv, TypeOK
  <2> QED
    BY <2>1, OrdersOnward
<1>1. JobTold(job[v]) /\ job[v] \in Job
  BY OwnJob DEF ToldInv
<1>2. ASSUME ~At(v, "idle")
      PROVE  /\ p \in Payments /\ job[v].row \in Row /\ job[v].row.link \in Links
             /\ job[v].row.amount > 0 /\ linkStatus'[job[v].row.link] # "none"
             /\ Told(job[v].row, order'[p])
  <2>1. /\ p \in Payments /\ job[v].row \in Row /\ job[v].row.link \in Links
        /\ Live(job[v].row) /\ Told(job[v].row, order[p])
    BY <1>2, JobTells
  <2>2. job[v].row.amount > 0 /\ linkStatus'[job[v].row.link] # "none"
    BY <2>1, LinksStay DEF Live
  <2> QED
    BY <1>0, <2>1, <2>2, ToldStays
<1>3. CASE job'[v] = job[v]
  BY <1>1, <1>2, <1>3 DEF JobTold, At, Live
<1>4. CASE Cleared(v)
  BY <1>4 DEF Cleared, JobTold, IdleJob, Writing
<1>5. CASE Carries(v)
  BY <1>1, <1>2, <1>5 DEF Carries, JobTold, Live
<1>6. CASE Opens(v)
  <2>1. PICK l \in Links, a \in Amounts : Payable(l) /\ job'[v].row = NewRow(l, a)
    BY <1>6 DEF Opens
  <2>2. job'[v].row.amount > 0 /\ job'[v].row.link = l /\ job'[v].row.status = "initiated"
    BY <2>1, AmountsPositive DEF NewRow
  <2>3. linkStatus'[l] # "none"
    BY <2>1, LinksStay DEF Payable
  <2> QED
    BY <1>6, <2>2, <2>3 DEF Opens, JobTold, Live, Told, RefundedRows
<1>7. CASE Loads(v)
  <2> DEFINE q == job'[v].pay
  <2>1. q \in Payments /\ payment[q] # NoRow /\ job'[v].row = payment[q] /\ ~Writing(job'[v])
    BY <1>7 DEF Loads
  <2>2. payment[q].link \in Links /\ Live(payment[q]) /\ Told(payment[q], order[q])
    BY <2>1, PaymentFacts DEF RowOK, ToldInv, RowTold
  <2>3. Told(payment[q], order'[q])
    BY <1>0, <2>1, <2>2, ToldStays
  <2>4. payment[q].amount > 0 /\ linkStatus'[payment[q].link] # "none"
    BY <2>2, LinksStay DEF Live
  <2> HIDE DEF q
  <2> QED
    BY <2>1, <2>3, <2>4 DEF JobTold, Live, q
<1>8. CASE Mirrors(v)
  <2>1. PICK receipt \in BOOLEAN : job'[v].row = Mirror(job[v].row, order'[p], receipt)
    BY <1>8 DEF Mirrors
  <2>2. /\ ~At(v, "idle") /\ job'[v].pay = p
        /\ order'[p] \in Order /\ order'[p].status \in Recognised
    BY <1>8 DEF Mirrors
  <2>3. OrderTold(order'[p])
    BY <1>0, <1>2, <2>2 DEF Onward
  <2>4. /\ Told(job'[v].row, order'[p]) /\ job'[v].row.status # "initiated"
        /\ job'[v].row.link = job[v].row.link /\ job'[v].row.amount = job[v].row.amount
    BY <1>2, <2>1, <2>2, <2>3, MirrorTold
  <2> QED
    BY <1>2, <2>2, <2>4 DEF JobTold, Live
<1>9. CASE GivesUp(v)
  <2>1. /\ ~At(v, "idle") /\ job'[v].pay = p /\ ~Writing(job'[v])
        /\ job'[v].row = Abandoned(job[v].row)
    BY <1>9 DEF GivesUp
  <2>2. /\ job'[v].row.status = "expired" /\ job'[v].row.link = job[v].row.link
        /\ job'[v].row.amount = job[v].row.amount
    BY <1>2, <2>1 DEF Abandoned, Row
  <2> QED
    BY <1>2, <2>1, <2>2 DEF JobTold, Live, Told, RefundedRows
<1> QED
  BY <1>3, <1>4, <1>5, <1>6, <1>7, <1>8, <1>9, LocalsCome DEF Comes

\* So does every row.
LEMMA RowToldStep ==
    ASSUME IndInv, ToldInv, [Next]_vars, NEW p \in Payments
    PROVE  RowTold(p)'
<1>0. /\ order[p] \in Order /\ order'[p] \in Order
      /\ Onward(order[p], order'[p], page[p])
  BY NextInv, OrdersOnward DEF IndInv, TypeOK
<1>1. CASE payment'[p] = payment[p]
  <2> SUFFICES ASSUME payment[p] # NoRow
               PROVE  (Live(payment[p]) /\ Told(payment[p], order[p]))'
    BY <1>1 DEF RowTold
  <2>1. payment[p].link \in Links /\ Live(payment[p]) /\ Told(payment[p], order[p])
    BY PaymentFacts DEF RowOK, ToldInv, RowTold
  <2>2. Told(payment[p], order'[p])
    BY <1>0, <2>1, ToldStays
  <2> QED
    BY <1>1, <2>1, <2>2, LinksStay DEF Live
<1>2. ASSUME NEW w \in Workers, Writes(w, p) PROVE RowTold(p)'
  <2>1. ~At(w, "idle") /\ job[w].pay = p /\ payment'[p] = job[w].row
    BY <1>2 DEF Writes, At
  <2>2. job[w].row.link \in Links /\ Live(job[w].row) /\ Told(job[w].row, order[p])
    BY <2>1, JobTells
  <2>3. Told(job[w].row, order'[p])
    BY <1>0, <2>2, ToldStays
  <2> QED
    BY <2>1, <2>2, <2>3, LinksStay DEF RowTold, Live
<1> QED
  BY <1>1, <1>2, RowsWritten

\* Every step keeps ToldInv.
LEMMA NextTold == IndInv /\ AuditInv /\ ToldInv /\ [Next]_vars => ToldInv'
<1> SUFFICES ASSUME IndInv, AuditInv, ToldInv, [Next]_vars PROVE ToldInv'
  OBVIOUS
<1>1. \A p \in Payments : OrderTold(order[p])'
  BY OrdersOnward DEF Onward, OrderTold
<1>2. \A p \in Payments : RowTold(p)'
  BY RowToldStep
<1>3. \A w \in Workers : JobTold(job[w])'
  BY JobToldStep
<1> QED
  BY <1>1, <1>2, <1>3 DEF ToldInv

LEMMA InitTold == Init => ToldInv
BY DEF Init, ToldInv, RowTold, OrderTold, NoOrder, JobTold, IdleJob, Writing, MoneyOrders,
   RefundedOrders

\* What the later proofs rest on, together.
AllInv == IndInv /\ AuditInv /\ ToldInv

LEMMA AllInvariant == Spec => []AllInv
<1>1. Init => AuditInv
  BY DEF Init, AuditInv, AuditTruthful, OkIsTxn, IdleJob
<1>2. AllInv /\ [Next]_vars => AllInv'
  BY NextInv, NextAudit, NextTold DEF AllInv
<1>3. Init => AllInv
  BY <1>1, InitInv, InitTold DEF AllInv
<1> QED
  BY <1>2, <1>3, PTL DEF Spec
-----------------------------------------------------------------------------
(* Notifications *)

\* What an event says of an order.
TrueOf(e, o) == /\ e = "succeeded" => o.cap > 0
                /\ e = "refunded" => o.ref > 0
                /\ e = "failed" => o.status = "FAILED"
                /\ e = "authorized" => o.status \notin {"NONE", "PENDING", "FAILED"}

\* It stays true as the order moves onward.
LEMMA TrueStays ==
    ASSUME NEW e, NEW o \in Order, NEW o2 \in Order, NEW pg, TrueOf(e, o), Onward(o, o2, pg)
    PROVE  TrueOf(e, o2)
<1>1. o.status \notin {"NONE", "PENDING", "FAILED"}
        <=> o.status \in MoneyOrders \cup {"AUTHORIZED", "CANCELLED", "EXPIRED"}
  BY DEF Order, OrderStatus, MoneyOrders
<1>2. o2.status \notin {"NONE", "PENDING", "FAILED"}
        <=> o2.status \in MoneyOrders \cup {"AUTHORIZED", "CANCELLED", "EXPIRED"}
  BY DEF Order, OrderStatus, MoneyOrders
<1>3. o.cap \in Nat /\ o2.cap \in Nat /\ o.ref \in Nat /\ o2.ref \in Nat
  BY DEF Order
<1> QED
  BY <1>1, <1>2, <1>3 DEF TrueOf, Onward, Advances

\* What EventFor makes of a record is true of its order.
LEMMA EventTrue ==
    ASSUME NEW row \in Row, NEW o \in Order, NEW pg, RecordOK(row, o, pg), Told(row, o),
           OrderTold(o), NEW e \in EventFor(row.status)
    PROVE  TrueOf(e, o)
<1>1. /\ e = "succeeded" => row.status \in {"paid", "partially_captured"}
      /\ e = "authorized" => row.status = "authorized"
      /\ e = "refunded" => row.status \in RefundedRows
      /\ e = "failed" => row.status = "failed"
  BY DEF EventFor, RefundedRows
<1>2. row.status \in {"paid", "partially_captured"} => o.cap > 0
  BY DEF RecordOK, OrderTold, MoneyRows
<1>3. row.status = "authorized" => o.status \notin {"NONE", "PENDING", "FAILED"}
  BY DEF RecordOK, MoneyOrders
<1> QED
  BY <1>1, <1>2, <1>3 DEF TrueOf, Told

\* Notifications come from processes at their last step, and stay.
LEMMA HooksCome ==
    ASSUME IndInv, [Next]_vars
    PROVE  /\ hooks \subseteq hooks' /\ untold \subseteq untold'
           /\ \A p \in Payments, e \in Events : <<p, e>> \in hooks' =>
                \/ <<p, e>> \in hooks
                \/ \E w \in Workers : /\ At(w, "notify") /\ job[w].pay = p
                                      /\ e \in EventFor(job[w].row.status)
<1>1. CASE UNCHANGED <<hooks, untold>>
  BY <1>1
<1>2. ASSUME NEW w \in Workers, Notify(w)
      PROVE  /\ hooks \subseteq hooks' /\ untold \subseteq untold'
             /\ \A p \in Payments, e \in Events : <<p, e>> \in hooks' =>
                  \/ <<p, e>> \in hooks
                  \/ At(w, "notify") /\ job[w].pay = p /\ e \in EventFor(job[w].row.status)
  BY <1>2 DEF Notify, QueueWebhook
<1>3. ASSUME Crash PROVE hooks' = hooks /\ untold \subseteq untold'
  BY <1>3 DEF Crash
<1>4. ASSUME LinkStep \/ World PROVE UNCHANGED <<hooks, untold>>
  BY <1>4 DEF LinkStep, CreateLink, SetLinkStatus, LinkExpires, World, GatewayMoves,
     PayerStarts, PayerPays, PayerDeclined, HoldLapses, MerchantAdmin, PageTimesOut, ghosts
<1>5. ASSUME NEW w, \/ Handler(w) \/ \E p : StartSweep(w, p)
                    \/ (Refresh(w) /\ ~Notify(w)) \/ Perform(w)
      PROVE  UNCHANGED <<hooks, untold>>
  BY <1>5 DEF Handler, Checkout, StartCheckout, OpenSession, CreatePayment, CountUse,
     StartStatus, StartView, StartLinkView, StartPerform, StartSweep, Load, Refresh, Begin,
     RetrieveOk, RetrieveMissing, RetrieveFails, Abandon, Save, Totals, Perform, Decide,
     Alloc, SendOk, SendFails, Record, ghosts
<1>6. CASE Next
  BY <1>1, <1>2, <1>3, <1>4, <1>5, <1>6 DEF Next
<1>7. CASE UNCHANGED vars
  BY <1>1, <1>7 DEF vars, ghosts
<1> QED
  BY <1>6, <1>7

\* HooksTruthful, event by event.
LEMMA TruthfulEvents ==
    ASSUME IndInv
    PROVE  HooksTruthful <=>
             \A p \in Payments, e \in Events : <<p, e>> \in hooks => TrueOf(e, order[p])
BY DEF HooksTruthful, TrueOf, Events

\* What an integrator has been told of a payment has happened at the gateway,
\* whichever process told it and from however old a copy (queueWebhook).
THEOREM HooksAlwaysTruthful == Spec => []HooksTruthful
<1>1. Init => HooksTruthful
  BY DEF Init, HooksTruthful
<1>2. AllInv /\ AllInv' /\ HooksTruthful /\ [Next]_vars => HooksTruthful'
  <2> SUFFICES ASSUME AllInv, AllInv', HooksTruthful, [Next]_vars,
                      NEW p \in Payments, NEW e \in Events, <<p, e>> \in hooks'
               PROVE  TrueOf(e, order'[p])
    <3>1. HooksTruthful' <=>
            \A q \in Payments, f \in Events : <<q, f>> \in hooks' => TrueOf(f, order'[q])
      BY DEF HooksTruthful, TrueOf, Events
    <3> QED
      BY <3>1
  <2> USE DEF AllInv
  <2>1. /\ order[p] \in Order /\ order'[p] \in Order /\ OrderTold(order[p])
        /\ Onward(order[p], order'[p], page[p])
    BY OrdersOnward DEF IndInv, TypeOK, ToldInv
  <2>2. CASE <<p, e>> \in hooks
    BY <2>1, <2>2, TruthfulEvents, TrueStays
  <2>3. ASSUME NEW w \in Workers, At(w, "notify"), job[w].pay = p,
               e \in EventFor(job[w].row.status)
        PROVE  TrueOf(e, order'[p])
    <3>1. /\ job[w].row \in Row /\ RecordOK(job[w].row, order[p], page[p])
          /\ Told(job[w].row, order[p])
      BY <2>3, JobFacts, JobTells DEF At
    <3>2. TrueOf(e, order[p])
      BY <2>1, <2>3, <3>1, EventTrue
    <3> QED
      BY <2>1, <3>2, TrueStays
  <2> QED
    BY <2>2, <2>3, HooksCome
<1> QED
  BY <1>1, <1>2, AllInvariant, PTL DEF Spec

\* A process on its way to tell gets there, or what it would have told is lost
\* to a fault, or told.
LEMMA TellerStep ==
    ASSUME IndInv, [Next]_vars, NEW w \in Workers, At(w, "totals") \/ At(w, "notify")
    PROVE  \/ job'[w] = job[w]
           \/ Goto(w, "notify")
           \/ job[w].pay \in untold'
           \/ terms[job[w].row.link].hooked =>
                \A e \in EventFor(job[w].row.status) : <<job[w].pay, e>> \in hooks'
<1>1. ASSUME NEW v \in Workers, v # w, \A u \in Workers : u # v => job'[u] = job[u]
      PROVE  job'[w] = job[w]
  BY <1>1
<1>2. CASE UNCHANGED job
  BY <1>2
<1>3. CASE Crash
  BY <1>3 DEF Crash
<1>4. CASE Totals(w) \/ Notify(w)
  BY <1>4 DEF Totals, Notify, QueueWebhook
<1>5. ASSUME NEW v \in Workers, NEW kind, NEW pc, NEW p, Load(v, kind, pc, p)
      PROVE  job'[w] = job[w]
  <2>1. v # w /\ \E j : job' = [job EXCEPT ![v] = j]
    BY <1>5 DEF Load, At
  <2> QED
    BY <1>1, <2>1, OwnLocals
<1>6. ASSUME NEW v \in Handlers, Checkout(v) PROVE job'[w] = job[w]
  <2>1. v # w /\ v \in Workers
    BY <1>6 DEF Checkout, StartCheckout, OpenSession, CreatePayment, CountUse, At, Workers
  <2>2. (\E j : job' = [job EXCEPT ![v] = j]) \/ Finish(v) \/ \E pc : Goto(v, pc)
    BY <1>6 DEF Checkout, StartCheckout, OpenSession, CreatePayment, CountUse
  <2> QED
    BY <1>1, <2>1, <2>2, OwnLocals
<1>7. ASSUME NEW v \in Workers, Refresh(v) \/ Perform(v), ~(v = w /\ (Totals(w) \/ Notify(w)))
      PROVE  job'[w] = job[w]
  <2>1. v # w
    BY <1>7 DEF Refresh, Begin, RetrieveOk, RetrieveMissing, RetrieveFails, Abandon,
       Save, Perform, Decide, Alloc, SendOk, SendFails, Record, At
  <2>2. (\E j : job' = [job EXCEPT ![v] = j]) \/ Finish(v) \/ Return(v) \/ \E pc : Goto(v, pc)
    BY <1>7 DEF Refresh, Begin, RetrieveOk, RetrieveMissing, RetrieveFails, Abandon, Save,
       Totals, Notify, Perform, Decide, Alloc, SendOk, SendFails, Record
  <2> QED
    BY <1>1, <2>1, <2>2, OwnLocals
<1>8. CASE LinkStep \/ World
  <2>1. UNCHANGED job
    BY <1>8 DEF LinkStep, CreateLink, SetLinkStatus, LinkExpires, World, GatewayMoves,
       PayerStarts, PayerPays, PayerDeclined, HoldLapses, MerchantAdmin, PageTimesOut
  <2> QED
    BY <1>2, <2>1
<1>9. CASE Next
  BY <1>3, <1>4, <1>5, <1>6, <1>7, <1>8, <1>9
     DEF Next, Handler, StartStatus, StartView, StartLinkView, StartSweep, StartPerform, Workers
<1>10. CASE UNCHANGED vars
  BY <1>2, <1>10 DEF vars
<1> QED
  BY <1>9, <1>10

\* An open or expired record has nothing to tell.
LEMMA SilentStatus == EventFor("initiated") = {} /\ EventFor("expired") = {}
BY DEF EventFor

\* Every step keeps the outcome on record told, or on its way.
LEMMA FollowStep == AllInv /\ AllInv' /\ FollowInv /\ [Next]_vars => FollowInv'
<1> SUFFICES ASSUME AllInv, AllInv', FollowInv, [Next]_vars, NEW p \in Payments
             PROVE  (\/ payment[p] = NoRow \/ ~terms[payment[p].link].hooked
                     \/ p \in untold
                     \/ \E w \in Workers : /\ job[w].pay = p /\ (At(w, "totals") \/ At(w, "notify"))
                                           /\ job[w].row.status = payment[p].status
                     \/ \A e \in EventFor(payment[p].status) : <<p, e>> \in hooks)'
  BY DEF FollowInv
<1> USE DEF AllInv
<1>0. job \in [Workers -> Job]
  BY DEF IndInv, TypeOK
<1>1. ASSUME NEW w \in Workers, Writes(w, p)
      PROVE  \/ \E v \in Workers : /\ job'[v].pay = p /\ job'[v].pc = "totals"
                                   /\ job'[v].row.status = payment'[p].status
             \/ EventFor(payment'[p].status) = {}
  <2>1. payment'[p] = job[w].row /\ job[w].pay = p
    BY <1>1 DEF Writes
  <2>2. CASE At(w, "insert") \/ At(w, "abandon")
    <3>1. payment'[p].status \in {"initiated", "expired"}
      BY <2>1, <2>2, JobFacts DEF LocalOK, At
    <3> QED
      BY <3>1, SilentStatus
  <2>3. CASE Goto(w, "totals")
    <3>1. job'[w].pay = p /\ job'[w].pc = "totals" /\ job'[w].row = payment'[p]
      BY <1>0, <2>1, <2>3 DEF Goto, Job
    <3> QED
      BY <3>1
  <2> QED
    BY <1>1, <2>2, <2>3 DEF Writes
<1>2. CASE payment'[p] = payment[p]
  <2>1. hooks \subseteq hooks' /\ untold \subseteq untold'
    BY HooksCome
  <2>2. payment[p] # NoRow => /\ payment[p].link \in Links
                              /\ terms'[payment[p].link] = terms[payment[p].link]
    BY PaymentFacts, LinksStay DEF RowOK, ToldInv, RowTold, Live
  <2>3. ASSUME NEW w \in Workers, job[w].pay = p, At(w, "totals") \/ At(w, "notify"),
               job[w].row.status = payment[p].status, payment[p] # NoRow,
               terms[payment[p].link].hooked
        PROVE  \/ p \in untold'
               \/ /\ job'[w].pay = p /\ job'[w].pc \in {"totals", "notify"}
                  /\ job'[w].row.status = payment[p].status
               \/ \A e \in EventFor(payment[p].status) : <<p, e>> \in hooks'
    <3>1. job[w].row.link = payment[p].link
      BY <2>3, JobFacts DEF LocalOK, At
    <3>2. Goto(w, "notify") => /\ job'[w].pay = p /\ job'[w].pc = "notify"
                               /\ job'[w].row = job[w].row
      BY <1>0, <2>3 DEF Goto, Job
    <3> QED
      BY <2>3, <3>1, <3>2, TellerStep DEF At
  <2> QED
    BY <1>2, <2>1, <2>2, <2>3 DEF FollowInv, At
<1> QED
  BY <1>1, <1>2, RowsWritten DEF At

\* An integrator has been told of the outcome on record, unless a process is
\* on its way to tell or a fault lost it: of two that write the row, the last
\* to write still comes to tell (applyOrderOutcome's third write).
THEOREM HooksAlwaysFollow == Spec => []HooksFollowRow
<1>1. Init => FollowInv
  BY DEF Init, FollowInv
<1>2. AllInv /\ AllInv' /\ FollowInv /\ [Next]_vars => FollowInv'
  BY FollowStep
<1>3. FollowInv => HooksFollowRow
  BY DEF FollowInv, HooksFollowRow
<1> QED
  BY <1>1, <1>2, <1>3, AllInvariant, PTL DEF Spec
-----------------------------------------------------------------------------
(* Uses given back *)

\* A payment stays on its link.
LEMMA LinkKept ==
    ASSUME IndInv, [Next]_vars, NEW p \in Payments, payment[p] # NoRow
    PROVE  payment'[p].link = payment[p].link
<1>1. ASSUME NEW w \in Workers, Writes(w, p) PROVE payment'[p].link = payment[p].link
  <2>1. job[w].pc \in {"save", "abandon"} /\ job[w].pay = p /\ payment'[p] = job[w].row
    BY <1>1 DEF Writes, At
  <2> QED
    BY <2>1, JobFacts DEF LocalOK
<1> QED
  BY <1>1, RowsWritten

\* A release is never undone.
LEMMA ReleaseStays ==
    ASSUME AllInv, [Next]_vars, NEW l \in Links, Released(l)
    PROVE  Released(l)'
<1>1. PICK p \in Payments : payment[p].link = l /\ order[p].status \in ReleasedOrders
  BY DEF Released, ReleasedOrders
<1>2. payment[p] # NoRow
  BY <1>1, AbsentValues DEF NoRow, NewRow
<1>3. payment'[p].link = l
  BY <1>1, <1>2, LinkKept DEF AllInv
<1>4. order'[p].status \in ReleasedOrders
  BY <1>1, OrdersOnward DEF AllInv, Onward
<1> QED
  BY <1>3, <1>4 DEF Released, ReleasedOrders

\* A payment that counts goes on counting, unless it has been released.
LEMMA CommittedStays ==
    ASSUME AllInv, [Next]_vars, NEW p \in Payments, payment[p].status \in Committed
    PROVE  payment'[p].status \in Committed \/ order'[p].status \in ReleasedOrders
<1> USE DEF AllInv
<1>0. /\ payment[p] \in Row /\ order[p] \in Order
      /\ RecordOK(payment[p], order[p], page[p]) /\ Onward(order[p], order'[p], page[p])
  BY PaymentFacts, OrdersOnward
<1>1. order[p].status \in MoneyOrders \cup {"AUTHORIZED", "CANCELLED", "EXPIRED"}
  BY <1>0 DEF RecordOK, Committed, MoneyRows
<1>2. ASSUME NEW w \in Workers, Writes(w, p), payment'[p].status \notin Committed
      PROVE  order'[p].status \in ReleasedOrders
  <2>1. ~At(w, "idle") /\ job[w].pay = p /\ payment'[p] = job[w].row
    BY <1>2 DEF Writes, At
  <2>2. /\ LocalOK(job[w]) /\ job[w].row \in Row /\ RecordOK(job[w].row, order[p], page[p])
        /\ JobTold(job[w])
    BY <2>1, JobFacts DEF ToldInv
  <2>3. ~At(w, "insert")
    BY <1>2, <2>1, <2>2, AbsentValues DEF Writes, At, LocalOK, NoRow, NewRow, Committed
  <2>4. ~At(w, "abandon")
    BY <1>1, <2>1, <2>2 DEF LocalOK, At, MoneyOrders
  <2>5. job[w].row.status \notin {"none", "initiated"}
    BY <1>2, <2>1, <2>2, <2>3, <2>4 DEF Writes, At, LocalOK, JobTold, Writing
  <2>6. job[w].row.status \in ClosedRows
    BY <1>2, <2>1, <2>2, <2>5 DEF Row, PaymentStatus, Committed, ClosedRows
  <2>7. order[p].status \in ReleasedOrders
    BY <1>1, <2>2, <2>6 DEF RecordOK, ClosedOrders, MoneyOrders, ReleasedOrders
  <2> QED
    BY <1>0, <2>7 DEF Onward
<1> QED
  BY <1>2, RowsWritten

\* So the rows of a link that has released nothing count no less than before.
LEMMA CommittedGrows ==
    ASSUME AllInv, AllInv', [Next]_vars, NEW l \in Links, ~Released(l)'
    PROVE  /\ CommittedOn(payment, l) \in Nat /\ CommittedOn(payment', l) \in Nat
           /\ CommittedOn(payment, l) <= CommittedOn(payment', l)
<1> DEFINE S == {p \in Payments : payment[p].link = l /\ payment[p].status \in Committed}
           T == {p \in Payments : payment'[p].link = l /\ payment'[p].status \in Committed}
<1>1. CommittedOn(payment, l) = Cardinality(S) /\ CommittedOn(payment', l) = Cardinality(T)
  BY DEF CommittedOn, AllInv, IndInv, TypeOK
<1>2. ASSUME NEW p \in S PROVE p \in T
  <2>1. payment[p] # NoRow
    BY DEF NoRow, NewRow, Committed
  <2>2. payment'[p].link = l
    BY <2>1, LinkKept DEF AllInv
  <2>3. payment'[p].status \in Committed
    BY <2>2, CommittedStays DEF Released, ReleasedOrders
  <2> QED
    BY <2>2, <2>3
<1>3. IsFiniteSet(S) /\ IsFiniteSet(T)
  BY FinitePayments, FS_Subset
<1>4. S \subseteq T
  BY <1>2
<1> HIDE DEF S, T
<1> QED
  BY <1>1, <1>3, <1>4, FS_Subset, FS_CardinalityType

\* The counter of a link is what it was, or what the rows say.
LEMMA CountsCome ==
    ASSUME IndInv, [Next]_vars, NEW l \in Links
    PROVE  paidCount'[l] = paidCount[l] \/ paidCount'[l] = CommittedOn(payment, l)
<1>0. paidCount \in [Links -> Nat]
  BY DEF IndInv, TypeOK
<1>1. CASE UNCHANGED paidCount
  BY <1>1
<1>2. ASSUME NEW w \in Workers, Totals(w)
      PROVE  paidCount'[l] = paidCount[l] \/ paidCount'[l] = CommittedOn(payment, l)
  <2>1. CASE UNCHANGED paidCount
    BY <2>1
  <2>2. CASE ~UNCHANGED paidCount
    <3>1. Recompute(job[w].row.link)
      BY <1>2, <2>2 DEF Totals, totals
    <3> QED
      BY <1>0, <3>1 DEF Recompute
  <2> QED
    BY <2>1, <2>2
<1>3. ASSUME LinkStep \/ World \/ Crash PROVE UNCHANGED paidCount
  BY <1>3 DEF LinkStep, CreateLink, SetLinkStatus, LinkExpires, World, GatewayMoves,
     PayerStarts, PayerPays, PayerDeclined, HoldLapses, MerchantAdmin, PageTimesOut, Crash,
     totals
<1>4. ASSUME NEW w, \/ Handler(w) \/ \E p : StartSweep(w, p)
                    \/ (Refresh(w) /\ ~Totals(w)) \/ Perform(w)
      PROVE  UNCHANGED paidCount
  BY <1>4 DEF Handler, Checkout, StartCheckout, OpenSession, CreatePayment, CountUse,
     StartStatus, StartView, StartLinkView, StartPerform, StartSweep, Load, Refresh, Begin,
     RetrieveOk, RetrieveMissing, RetrieveFails, Abandon, Save, Notify, Perform, Decide,
     Alloc, SendOk, SendFails, Record, totals
<1>5. CASE Next
  BY <1>1, <1>2, <1>3, <1>4, <1>5 DEF Next
<1>6. CASE UNCHANGED vars
  BY <1>1, <1>6 DEF vars, totals
<1> QED
  BY <1>5, <1>6

\* UseInv is inductive.
LEMMA UseStep == AllInv /\ AllInv' /\ UseInv /\ [Next]_vars => UseInv'
<1> SUFFICES ASSUME AllInv, AllInv', UseInv, [Next]_vars, NEW l \in Links, ~Released(l)'
             PROVE  paidCount'[l] <= CommittedOn(payment', l)
  BY DEF UseInv
<1>1. ~Released(l)
  BY ReleaseStays
<1>2. paidCount[l] <= CommittedOn(payment, l)
  BY <1>1 DEF UseInv
<1>3. paidCount[l] \in Nat
  BY DEF AllInv, IndInv, TypeOK
<1>4. paidCount'[l] = paidCount[l] \/ paidCount'[l] = CommittedOn(payment, l)
  BY CountsCome DEF AllInv
<1> QED
  BY <1>2, <1>3, <1>4, CommittedGrows

\* However recomputations and outcomes interleave, and however old the copies
\* that are written, a link counts fewer payers than it did only when an
\* authorization on it has been released (RecomputeLinkTotals).
THEOREM UseReturned == Spec => UseReturnedOnlyByRelease
<1>1. Init => UseInv
  <2> SUFFICES ASSUME Init, NEW l \in Links PROVE paidCount[l] <= CommittedOn(payment, l)
    BY DEF UseInv
  <2>1. paidCount[l] = 0 /\ DOMAIN payment = Payments
    BY DEF Init
  <2>2. IsFiniteSet({p \in DOMAIN payment :
                       payment[p].link = l /\ payment[p].status \in Committed})
    BY <2>1, FinitePayments, FS_Subset
  <2> QED
    BY <2>1, <2>2, FS_CardinalityType DEF CommittedOn
<1>2. AllInv /\ AllInv' /\ UseInv /\ [Next]_vars => UseInv'
  BY UseStep
<1>3. AllInv /\ UseInv /\ [Next]_vars
        => [\A l \in Links : paidCount'[l] < paidCount[l] => Released(l)]_vars
  <2> SUFFICES ASSUME AllInv, UseInv, [Next]_vars, NEW l \in Links,
                      paidCount'[l] < paidCount[l], ~Released(l)
               PROVE  FALSE
    OBVIOUS
  <2>1. paidCount[l] <= CommittedOn(payment, l) /\ paidCount[l] \in Nat
    BY DEF UseInv, AllInv, IndInv, TypeOK
  <2>2. paidCount'[l] = CommittedOn(payment, l)
    BY <2>1, CountsCome DEF AllInv
  <2>3. CommittedOn(payment, l) \in Nat
    <3>1. IsFiniteSet({p \in DOMAIN payment :
                         payment[p].link = l /\ payment[p].status \in Committed})
      BY FinitePayments, FS_Subset DEF AllInv, IndInv, TypeOK
    <3> QED
      BY <3>1, FS_CardinalityType DEF CommittedOn
  <2> QED
    BY <2>1, <2>2, <2>3
<1>4. Spec => []AllInv
  BY AllInvariant
<1>5. Spec => []UseInv
  BY <1>1, <1>2, <1>4, PTL DEF Spec
<1> QED
  BY <1>3, <1>4, <1>5, PTL DEF Spec, UseReturnedOnlyByRelease
=============================================================================
