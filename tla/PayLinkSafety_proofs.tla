------------------------ MODULE PayLinkSafety_proofs ------------------------
(***************************************************************************)
(* The safety properties of PayLink, proved for every value of the         *)
(* constants from the inductive invariant of PayLink_proofs.               *)
(*                                                                         *)
(* Four follow from that invariant in one state.  The totals of a link are *)
(* an invariant of their own: it is enough to know which steps write a row *)
(* or a counter, and that a step that writes a row without being followed  *)
(* by a recomputation changes neither what counts nor what is kept.        *)
(***************************************************************************)
EXTENDS PayLink_proofs, WellFoundedInduction

-----------------------------------------------------------------------------
(* What the inductive invariant says in one state *)

\* The columns, fields and locals keep their types.
THEOREM TypeCorrect == Spec => []TypeOK
<1>1. IndInv => TypeOK
  BY DEF IndInv
<1> QED
  BY <1>1, Invariance, PTL

\* No record, in the table or in a process, says more than the gateway has
\* done (applyOrderOutcome mirrors the order's totals).
THEOREM RecordsArePast == Spec => []RecordIsPast
<1>1. IndInv => RecordIsPast
  <2> SUFFICES ASSUME IndInv PROVE RecordIsPast
    OBVIOUS
  <2>1. ASSUME NEW row \in Row, NEW o \in Order, NEW pg, RecordOK(row, o, pg)
        PROVE  PastOf(row, o)
    BY <2>1 DEF RecordOK, PastOf, MoneyRows
  <2>2. \A p \in Payments : PastOf(payment[p], order[p])
    BY <2>1, PaymentFacts
  <2>3. ASSUME NEW w \in Workers, job[w].pay # NoPay
        PROVE  PastOf(job[w].row, order[job[w].pay])
    <3>1. ~At(w, "idle")
      BY <2>3, JobFacts DEF LocalOK, At, IdleJob
    <3> QED
      BY <2>1, <3>1, JobFacts
  <2> QED
    BY <2>2, <2>3 DEF RecordIsPast
<1> QED
  BY <1>1, Invariance, PTL

\* A payment recorded as failed, cancelled or expired will take no money:
\* the sweep gives an attempt up only when its payer can no longer pay.
THEOREM ClosedStaysClosed == Spec => []ClosedIsFinal
<1>1. IndInv => ClosedIsFinal
  BY PaymentFacts DEF ClosedIsFinal, RecordOK, ClosedRows, ClosedOrders
<1> QED
  BY <1>1, Invariance, PTL

\* A completion time is set exactly on the payments that are over
\* (applyOrderOutcome, reconcileOne).
THEOREM CompletionTimes == Spec => []CompletedExactly
<1>1. IndInv => CompletedExactly
  <2> SUFFICES ASSUME IndInv PROVE CompletedExactly
    OBVIOUS
  <2>1. ASSUME NEW p \in Payments
        PROVE  payment[p].completed <=>
                 payment[p].status \notin {"none", "initiated", "authorized"}
    <3>1. payment[p].status \in PaymentStatus \cup {"none"}
      BY PaymentFacts DEF Row
    <3>2. payment[p].completed <=> payment[p].status \in MoneyRows \cup ClosedRows
      BY PaymentFacts DEF RecordOK
    <3> QED
      BY <3>1, <3>2 DEF PaymentStatus, MoneyRows, ClosedRows
  <2> QED
    BY <2>1 DEF CompletedExactly
<1> QED
  BY <1>1, Invariance, PTL

-----------------------------------------------------------------------------
(* The totals of a link *)

\* A step of process w that is not at its recomputation leaves every stale
\* link stale.
LEMMA StaleKept ==
    ASSUME NEW w \in Workers, ~At(w, "totals"), lost \subseteq lost',
           \A v \in Workers : v # w => job'[v] = job[v], NEW l, Stale(l)
    PROVE  Stale(l)'
BY DEF Stale, At

\* The counters are read from the rows' link, status and kept amount alone: a
\* row may change in any other way, and so may one that neither counts nor
\* keeps anything before and after.
SameTotals(r, s) == \/ r = s
                    \/ /\ r.link = s.link \/ r.link = NoLink
                       /\ r.status \notin Committed /\ s.status \notin Committed
                       /\ r.cap - r.ref = 0 /\ s.cap - s.ref = 0

\* Rows that differ only in what does not count give the same totals.
LEMMA TotalsOfRows ==
    ASSUME NEW rows, NEW rows2, DOMAIN rows2 = DOMAIN rows, NEW l \in Links,
           \A p \in DOMAIN rows :
               \/ SameTotals(rows[p], rows2[p])
               \/ rows[p].link # l /\ rows2[p].link # l
    PROVE  CommittedOn(rows2, l) = CommittedOn(rows, l)
           /\ CollectedOn(rows2, l) = CollectedOn(rows, l)
<1>1. l # NoLink
  BY AbsentValues
<1>2. {p \in DOMAIN rows2 : rows2[p].link = l /\ rows2[p].status \in Committed}
        = {p \in DOMAIN rows : rows[p].link = l /\ rows[p].status \in Committed}
  BY DEF SameTotals
<1>3. \A p \in DOMAIN rows : KeptOn(rows2[p], l) = KeptOn(rows[p], l)
  BY <1>1 DEF SameTotals, KeptOn
<1>4. [p \in DOMAIN rows2 |-> KeptOn(rows2[p], l)] = [p \in DOMAIN rows |-> KeptOn(rows[p], l)]
  BY <1>3
<1> QED
  BY <1>2, <1>4 DEF CommittedOn, CollectedOn

\* A step of a process that writes neither counters nor rows, or writes a row
\* that changes no total.
LEMMA QuietStep ==
    ASSUME IndInv, TotalsExact, NEW w \in Workers, ~At(w, "totals"),
           UNCHANGED <<totals, lost>>,
           \A v \in Workers : v # w => job'[v] = job[v],
           DOMAIN payment' = Payments,
           \A p \in Payments : SameTotals(payment[p], payment'[p])
    PROVE  TotalsExact'
<1> SUFFICES ASSUME NEW l \in Links, ~Stale(l)'
             PROVE  (paidCount[l] = CommittedOn(payment, l) /\ paidMinor[l] = CollectedOn(payment, l))'
  BY DEF TotalsExact
<1>1. ~Stale(l)
  BY StaleKept
<1>2. DOMAIN payment = Payments
  BY DEF IndInv, TypeOK
<1>3. CommittedOn(payment', l) = CommittedOn(payment, l)
      /\ CollectedOn(payment', l) = CollectedOn(payment, l)
  BY <1>2, TotalsOfRows
<1>4. paidCount[l] = CommittedOn(payment, l) /\ paidMinor[l] = CollectedOn(payment, l)
  BY <1>1 DEF TotalsExact
<1>5. paidCount' = paidCount /\ paidMinor' = paidMinor
  BY DEF totals
<1> QED
  BY <1>3, <1>4, <1>5

\* A step that touches no row, no counter and no process.
LEMMA AsideStep ==
    ASSUME TotalsExact, UNCHANGED <<totals, payment, job, lost>>
    PROVE  TotalsExact'
BY DEF TotalsExact, Stale, At, totals

\* A step of process w away from its recomputation that writes no row.
LEMMA OwnStep ==
    ASSUME IndInv, TotalsExact, NEW w \in Workers, ~At(w, "totals"),
           UNCHANGED <<totals, payment, lost>>,
           \A v \in Workers : v # w => job'[v] = job[v]
    PROVE  TotalsExact'
<1>1. DOMAIN payment' = Payments /\ \A p \in Payments : SameTotals(payment[p], payment'[p])
  BY DEF IndInv, TypeOK, SameTotals
<1> QED
  BY <1>1, QuietStep

\* The ways a process goes on change its own locals only.
LEMMA OwnLocals ==
    ASSUME IndInv, NEW w \in Workers,
           \/ \E j : job' = [job EXCEPT ![w] = j]
           \/ Finish(w) \/ Return(w) \/ \E pc : Goto(w, pc)
    PROVE  \A v \in Workers : v # w => job'[v] = job[v]
BY DEF Finish, Return, Goto, IndInv, TypeOK

\* A new attempt counts for nothing.
LEMMA CreatePaymentTotals ==
    ASSUME IndInv, TotalsExact, NEW w \in Workers, CreatePayment(w) PROVE TotalsExact'
<1> DEFINE p == job[w].pay
<1>1. /\ At(w, "insert") /\ ~At(w, "totals") /\ ~At(w, "idle")
      /\ UNCHANGED <<totals, lost>>
      /\ \/ payment' = [payment EXCEPT ![p] = job[w].row] /\ Goto(w, "count")
         \/ Finish(w) /\ UNCHANGED payment
  BY DEF CreatePayment, At, ghosts
<1>2. \A v \in Workers : v # w => job'[v] = job[v]
  BY <1>1, OwnLocals
<1>3. CASE UNCHANGED payment
  BY <1>1, <1>2, <1>3, OwnStep
<1>4. CASE payment' = [payment EXCEPT ![p] = job[w].row]
  <2>1. payment \in [Payments -> Row] /\ p \in Payments
    BY <1>1, JobFacts DEF IndInv, TypeOK
  <2>2. payment[p] = NoRow /\ job[w].row.status = "initiated"
    BY <1>1, JobFacts DEF LocalOK, At
  <2>3. job[w].row.cap = 0 /\ job[w].row.ref = 0
    BY <1>1, <2>2, JobFacts DEF RecordOK, MoneyRows
  <2>4. SameTotals(NoRow, job[w].row)
    BY <2>2, <2>3 DEF SameTotals, NoRow, NewRow, Committed
  <2>5. \A q \in Payments : SameTotals(payment[q], payment'[q])
    BY <1>4, <2>1, <2>2, <2>4 DEF SameTotals
  <2>6. DOMAIN payment' = Payments
    BY <1>4, <2>1
  <2> QED
    BY <1>1, <1>2, <2>5, <2>6, QuietStep
<1> QED
  BY <1>1, <1>3, <1>4

\* reconcileOne leaves the totals alone when it gives an attempt up, and may:
\* a payment without an order never committed funds.
LEMMA AbandonTotals ==
    ASSUME IndInv, TotalsExact, NEW w \in Workers, Abandon(w) PROVE TotalsExact'
<1> DEFINE p == job[w].pay
<1>1. /\ At(w, "abandon") /\ ~At(w, "totals") /\ ~At(w, "idle")
      /\ UNCHANGED <<totals, lost>> /\ Finish(w)
      /\ payment' = [payment EXCEPT ![p] = job[w].row] \/ UNCHANGED payment
  BY DEF Abandon, At, ghosts
<1>2. \A v \in Workers : v # w => job'[v] = job[v]
  BY <1>1, OwnLocals
<1>3. CASE UNCHANGED payment
  BY <1>1, <1>2, <1>3, OwnStep
<1>4. CASE payment' = [payment EXCEPT ![p] = job[w].row]
  <2>1. payment \in [Payments -> Row] /\ p \in Payments
    BY <1>1, JobFacts DEF IndInv, TypeOK
  <2>2. /\ order[p].status = "NONE" /\ job[w].row.status = "expired"
        /\ job[w].row.link = payment[p].link
    BY <1>1, JobFacts DEF LocalOK, At
  <2>3. RecordOK(job[w].row, order[p], page[p]) /\ RecordOK(payment[p], order[p], page[p])
    BY <1>1, <2>1, JobFacts, PaymentFacts
  <2>4. /\ job[w].row.cap = 0 /\ job[w].row.ref = 0 /\ job[w].row.status \notin Committed
        /\ payment[p].cap = 0 /\ payment[p].ref = 0 /\ payment[p].status \notin Committed
    BY <2>2, <2>3 DEF RecordOK, MoneyRows, MoneyOrders, Committed
  <2>5. SameTotals(payment[p], job[w].row)
    BY <2>2, <2>4 DEF SameTotals
  <2>6. \A q \in Payments : SameTotals(payment[q], payment'[q])
    BY <1>4, <2>1, <2>5 DEF SameTotals
  <2>7. DOMAIN payment' = Payments
    BY <1>4, <2>1
  <2> QED
    BY <1>1, <1>2, <2>6, <2>7, QuietStep
<1> QED
  BY <1>1, <1>3, <1>4

\* A row that is written leaves its link stale, and no other.
LEMMA SaveTotals ==
    ASSUME IndInv, TotalsExact, NEW w \in Workers, Save(w) PROVE TotalsExact'
<1> DEFINE p == job[w].pay
           L == job[w].row.link
<1>1. /\ At(w, "save") /\ ~At(w, "totals") /\ ~At(w, "idle") /\ UNCHANGED <<totals, lost>>
      /\ \/ payment' = [payment EXCEPT ![p] = job[w].row] /\ Goto(w, "totals")
         \/ Return(w) /\ UNCHANGED payment
  BY DEF Save, At, ghosts
<1>2. \A v \in Workers : v # w => job'[v] = job[v]
  BY <1>1, OwnLocals
<1>3. CASE Return(w) /\ UNCHANGED payment
  BY <1>1, <1>2, <1>3, OwnStep
<1>4. CASE payment' = [payment EXCEPT ![p] = job[w].row] /\ Goto(w, "totals")
  <2> SUFFICES ASSUME NEW l \in Links, ~Stale(l)'
               PROVE  (paidCount[l] = CommittedOn(payment, l) /\ paidMinor[l] = CollectedOn(payment, l))'
    BY DEF TotalsExact
  <2>1. payment \in [Payments -> Row] /\ p \in Payments /\ job \in [Workers -> Job]
    BY <1>1, JobFacts DEF IndInv, TypeOK
  <2>2. payment[p].link = L
    BY <1>1, JobFacts DEF LocalOK, At
  <2>3. job'[w].pc = "totals" /\ job'[w].row.link = L
    BY <1>4, <2>1 DEF Goto, Job
  <2>4. l # L
    BY <2>3 DEF Stale, At
  <2>5. DOMAIN payment' = DOMAIN payment
        /\ \A q \in DOMAIN payment : \/ SameTotals(payment[q], payment'[q])
                                     \/ payment[q].link # l /\ payment'[q].link # l
    BY <1>4, <2>1, <2>2, <2>4 DEF SameTotals
  <2>6. CommittedOn(payment', l) = CommittedOn(payment, l)
        /\ CollectedOn(payment', l) = CollectedOn(payment, l)
    BY <2>5, TotalsOfRows
  <2>7. ~Stale(l)
    BY <1>1, <1>2, StaleKept
  <2> QED
    BY <1>1, <2>6, <2>7 DEF TotalsExact, totals
<1> QED
  BY <1>1, <1>3, <1>4

\* The recomputation makes its link exact, and a failed one leaves it lost.
LEMMA TotalsTotals ==
    ASSUME IndInv, TotalsExact, NEW w \in Workers, Totals(w) PROVE TotalsExact'
<1> DEFINE L == job[w].row.link
<1>1. /\ At(w, "totals") /\ ~At(w, "idle") /\ Goto(w, "notify") /\ UNCHANGED payment
      /\ \/ Recompute(L) /\ lost' = lost \ {L}
         \/ lost' = lost \cup {L} /\ UNCHANGED totals
  BY DEF Totals, At
<1>2. \A v \in Workers : v # w => job'[v] = job[v]
  BY <1>1, OwnLocals
<1>3. ASSUME NEW l \in Links, l # L, ~Stale(l)' PROVE ~Stale(l)
  BY <1>1, <1>2, <1>3 DEF Stale, At
<1>4. paidCount \in [Links -> Nat] /\ DOMAIN paidMinor = Links /\ L \in Links
  BY <1>1, JobFacts DEF IndInv, TypeOK, LocalOK, At
<1>5. CASE Recompute(L) /\ lost' = lost \ {L}
  <2>1. /\ paidCount' = [paidCount EXCEPT ![L] = CommittedOn(payment, L)]
        /\ paidMinor' = [paidMinor EXCEPT ![L] = CollectedOn(payment, L)]
    BY <1>5 DEF Recompute
  <2>2. ASSUME NEW l \in Links, ~Stale(l)'
        PROVE  paidCount'[l] = CommittedOn(payment, l) /\ paidMinor'[l] = CollectedOn(payment, l)
    <3>1. CASE l = L
      BY <1>4, <2>1, <3>1
    <3>2. CASE l # L
      BY <1>3, <1>4, <2>1, <2>2, <3>2 DEF TotalsExact
    <3> QED
      BY <3>1, <3>2
  <2> QED
    BY <1>1, <2>2 DEF TotalsExact
<1>6. CASE lost' = lost \cup {L} /\ UNCHANGED totals
  <2>1. ASSUME NEW l \in Links, l = L PROVE Stale(l)'
    BY <1>6, <2>1 DEF Stale
  <2>2. paidCount' = paidCount /\ paidMinor' = paidMinor /\ payment' = payment
    BY <1>1, <1>6 DEF totals
  <2> QED
    BY <1>3, <2>1, <2>2 DEF TotalsExact
<1> QED
  BY <1>1, <1>5, <1>6

\* A crash between the two writes leaves the link lost.
LEMMA CrashTotals ==
    ASSUME IndInv, TotalsExact, Crash PROVE TotalsExact'
<1>1. /\ lost' = lost \cup {job[w].row.link : w \in {v \in Workers : At(v, "totals")}}
      /\ UNCHANGED <<totals, payment>>
  BY DEF Crash
<1>2. ASSUME NEW l \in Links, ~Stale(l)' PROVE ~Stale(l)
  <2>1. l \notin lost'
    BY <1>2 DEF Stale
  <2>2. l \notin lost
    BY <1>1, <2>1
  <2>3. ASSUME NEW w \in Workers, At(w, "totals") PROVE job[w].row.link # l
    BY <1>1, <2>1, <2>3
  <2> QED
    BY <2>2, <2>3 DEF Stale
<1>3. payment' = payment /\ paidCount' = paidCount /\ paidMinor' = paidMinor
  BY <1>1 DEF totals
<1> QED
  BY <1>2, <1>3 DEF TotalsExact

\* Every step keeps the totals exact: one case per action.
LEMMA NextTotals == IndInv /\ TotalsExact /\ [Next]_vars => TotalsExact'
<1> SUFFICES ASSUME IndInv, TotalsExact, [Next]_vars PROVE TotalsExact'
  OBVIOUS
<1>1. CASE UNCHANGED vars \/ LinkStep \/ World
  <2>1. UNCHANGED <<totals, payment, job, lost>>
    BY <1>1 DEF vars, ghosts, LinkStep, CreateLink, SetLinkStatus, LinkExpires, World,
       GatewayMoves, PayerStarts, PayerPays, PayerDeclined, HoldLapses, MerchantAdmin,
       PageTimesOut
  <2> QED
    BY <2>1, AsideStep
<1>2. ASSUME NEW w \in Workers, NEW kind, NEW pc, NEW p, Load(w, kind, pc, p)
      PROVE  TotalsExact'
  <2>1. /\ ~At(w, "totals") /\ UNCHANGED <<totals, payment, lost>>
        /\ \E j : job' = [job EXCEPT ![w] = j]
    BY <1>2 DEF Load, At, ghosts
  <2> QED
    BY <2>1, OwnLocals, OwnStep
<1>3. ASSUME NEW w \in Handlers, Checkout(w) PROVE TotalsExact'
  <2>1. ASSUME (\E l \in Links, p \in Payments, a \in Amounts : StartCheckout(w, l, p, a))
               \/ OpenSession(w) \/ CountUse(w)
        PROVE  TotalsExact'
    <3>1. /\ ~At(w, "totals") /\ UNCHANGED <<totals, payment, lost>>
          /\ (\E j : job' = [job EXCEPT ![w] = j]) \/ Finish(w) \/ \E pc : Goto(w, pc)
      BY <2>1 DEF StartCheckout, OpenSession, CountUse, At, ghosts
    <3> QED
      BY <3>1, OwnLocals, OwnStep DEF Workers
  <2> QED
    BY <1>3, <2>1, CreatePaymentTotals DEF Checkout, Workers
<1>4. ASSUME NEW w \in Workers, Refresh(w) PROVE TotalsExact'
  <2>1. ASSUME Begin(w) \/ RetrieveOk(w) \/ RetrieveMissing(w) \/ RetrieveFails(w) \/ Notify(w)
        PROVE  TotalsExact'
    <3>1. ~At(w, "totals") /\ UNCHANGED <<totals, payment, lost>>
      BY <2>1 DEF Begin, RetrieveOk, RetrieveMissing, RetrieveFails, Notify, At, ghosts
    <3>2. (\E j : job' = [job EXCEPT ![w] = j]) \/ Finish(w) \/ Return(w)
      BY <2>1 DEF Begin, RetrieveOk, RetrieveMissing, RetrieveFails, Notify
    <3> QED
      BY <3>1, <3>2, OwnLocals, OwnStep
  <2> QED
    BY <1>4, <2>1, AbandonTotals, SaveTotals, TotalsTotals DEF Refresh
<1>5. ASSUME NEW w \in Workers, Perform(w) PROVE TotalsExact'
  <2>1. ~At(w, "totals") /\ UNCHANGED <<totals, payment, lost>>
    BY <1>5 DEF Perform, Decide, Alloc, SendOk, SendFails, Record, At, ghosts
  <2>2. (\E j : job' = [job EXCEPT ![w] = j]) \/ Finish(w) \/ \E pc : Goto(w, pc)
    BY <1>5 DEF Perform, Decide, Alloc, SendOk, SendFails, Record
  <2> QED
    BY <2>1, <2>2, OwnLocals, OwnStep
<1>6. CASE Next
  BY <1>1, <1>2, <1>3, <1>4, <1>5, <1>6, CrashTotals
     DEF Next, Handler, StartStatus, StartView, StartLinkView, StartSweep, StartPerform, Workers
<1> QED
  BY <1>1, <1>6

\* A sum of zeros is zero, in whatever order it is taken.
LEMMA SumOfZeros ==
    ASSUME NEW S, IsFiniteSet(S)
    PROVE  SumFunction([p \in S |-> 0]) = 0
<1> DEFINE zeros == [p \in S |-> 0]
           Step(f, s) == IF s = {} THEN 0
                         ELSE LET x == CHOOSE x \in s : TRUE IN zeros[x] + f[s \ {x}]
           iter == CHOOSE f : f = [s \in SUBSET S |-> Step(f, s)]
<1>1. SumFunction(zeros) = iter[S]
  BY DEF SumFunction, SumFunctionOnSet, FoldFunctionOnSet, MapThenFoldSet
<1>2. ASSUME NEW f, NEW s \in SUBSET S
      PROVE  Step(f, s) = IF s = {} THEN 0 ELSE 0 + f[s \ {CHOOSE x \in s : TRUE}]
  OBVIOUS
<1>3. iter = [s \in SUBSET S |-> Step(iter, s)]
  <2> DEFINE zero == [s \in SUBSET S |-> 0]
  <2>1. ASSUME NEW s \in SUBSET S PROVE Step(zero, s) = 0
    <3>1. zero[s \ {CHOOSE x \in s : TRUE}] = 0
      OBVIOUS
    <3> HIDE DEF zero, Step
    <3> QED
      BY <1>2, <3>1
  <2>2. zero = [s \in SUBSET S |-> Step(zero, s)]
    BY <2>1
  <2> HIDE DEF zero, Step
  <2> QED
    BY <2>2
<1> HIDE DEF iter, Step
<1> DEFINE T == {s \in SUBSET S : iter[s] # 0}
<1>4. T = {}
  <2> SUFFICES ASSUME T # {} PROVE FALSE
    OBVIOUS
  <2>1. IsWellFoundedOn(StrictSubsetOrdering(S), SUBSET S)
    BY FS_StrictSubsetOrderingWellFounded, FS_FiniteSubsetsOfFinite
  <2>2. PICK s \in T : \A y \in T : ~ (<<y, s>> \in StrictSubsetOrdering(S))
    BY <2>1, WFMin
  <2>3. s # {}
    BY <1>2, <1>3
  <2> DEFINE x == CHOOSE x \in s : TRUE
  <2>4. iter[s] = 0 + iter[s \ {x}]
    BY <1>2, <1>3, <2>3
  <2>5. s \ {x} \in SUBSET S /\ <<s \ {x}, s>> \in StrictSubsetOrdering(S)
    BY <2>3 DEF StrictSubsetOrdering
  <2> QED
    BY <2>2, <2>4, <2>5
<1> QED
  BY <1>1, <1>4

\* Before the first link there is nothing to count.
LEMMA InitTotals == Init => TotalsExact
<1> SUFFICES ASSUME Init, NEW l \in Links
             PROVE  paidCount[l] = CommittedOn(payment, l) /\ paidMinor[l] = CollectedOn(payment, l)
  BY DEF TotalsExact
<1>1. /\ paidCount[l] = 0 /\ paidMinor[l] = 0
      /\ payment = [p \in Payments |-> NoRow] /\ DOMAIN payment = Payments
  BY DEF Init
<1>2. NoRow.link = NoLink /\ l # NoLink
  BY AbsentValues DEF NoRow, NewRow
<1>3. CommittedOn(payment, l) = 0
  BY <1>1, <1>2, FS_EmptySet DEF CommittedOn
<1>4. [p \in DOMAIN payment |-> KeptOn(payment[p], l)] = [p \in Payments |-> 0]
  BY <1>1, <1>2 DEF KeptOn
<1>5. CollectedOn(payment, l) = 0
  BY <1>4, SumOfZeros, FinitePayments DEF CollectedOn
<1> QED
  BY <1>1, <1>3, <1>5

\* Unless a recomputation is due, the counters on a link are those of its
\* payment rows, however many processes write them (RecomputeLinkTotals).
THEOREM TotalsAlwaysExact == Spec => []TotalsExact
<1>1. Init => TotalsExact
  BY InitTotals
<1>2. IndInv /\ TotalsExact /\ [Next]_vars => TotalsExact'
  BY NextTotals
<1> QED
  BY <1>1, <1>2, Invariance, PTL DEF Spec

\* The terms of a link are valid, or it is not there yet (handleCreateLink).
LEMMA TermsTypes ==
    ASSUME IndInv, NEW l \in Links
    PROVE  terms[l] \in Terms /\ (terms[l].type = "split" => terms[l].target > 0)
<1>1. terms[l] \in LinkTerms \cup {NoTerms}
  BY DEF IndInv, TypeOK
<1>2. NoTerms \in Terms /\ NoTerms.type = "static"
  BY DEF NoTerms, Terms, LinkTypes, PaymentModes
<1> QED
  BY <1>1, <1>2, TermsValid DEF ValidTerms

\* Once the outcomes in hand are written, a link whose payments have used it
\* up or paid its bill takes no payer (EffectiveStatus).
THEOREM FullLinksRefuse == Spec => []FullLinkRefuses
<1>1. IndInv /\ TotalsExact => FullLinkRefuses
  <2> SUFFICES ASSUME IndInv, TotalsExact, NEW l \in Links, ~Stale(l), Payable(l)
               PROVE  /\ terms[l].maxUses > 0 => CommittedOn(payment, l) < terms[l].maxUses
                      /\ terms[l].type = "split" => CollectedOn(payment, l) < terms[l].target
    BY DEF FullLinkRefuses
  <2> DEFINE t == terms[l]
  <2>1. paidCount[l] = CommittedOn(payment, l) /\ paidMinor[l] = CollectedOn(payment, l)
    BY DEF TotalsExact
  <2>2. t \in Terms /\ (t.type = "split" => t.target > 0)
    BY TermsTypes
  <2>3. EffectiveStatus(t, linkStatus[l], lapsed[l], paidCount[l], paidMinor[l]) = "active"
    BY DEF Payable
  <2>4. t.maxUses \in Nat /\ t.target \in Nat /\ paidCount[l] \in Nat
    BY <2>2 DEF Terms, IndInv, TypeOK
  <2> HIDE DEF t
  <2>5. ~(t.maxUses > 0 /\ paidCount[l] >= t.maxUses)
    BY <2>3 DEF EffectiveStatus
  <2>6. ~(IsSplit(t) /\ RemainingMinor(t, paidMinor[l]) = 0)
    BY <2>3 DEF EffectiveStatus
  <2>7. t.type = "split" => paidMinor[l] < t.target
    BY <2>2, <2>6 DEF IsSplit, RemainingMinor
  <2> QED
    BY <2>1, <2>4, <2>5, <2>7 DEF t
<1> QED
  BY <1>1, Invariance, TotalsAlwaysExact, PTL

-----------------------------------------------------------------------------
(* The stored status of a link *)

\* The four updates of RecomputeLinkTotals leave no limit_reached below the
\* limit and no settled below the target.
LEMMA RecomputedJustified ==
    ASSUME NEW t \in Terms, t.type = "split" => t.target > 0, NEW stored, NEW count \in Nat,
           NEW paid, stored = "settled" => t.type = "split"
    PROVE  LET s == RecomputedStatus(t, stored, count, paid)
           IN  /\ s = "limit_reached" => t.maxUses > 0 /\ count >= t.maxUses
               /\ s = "settled" => t.type = "split" /\ paid >= t.target
BY DEF RecomputedStatus

\* Every step keeps the stored status justified: only Totals and operators write it.
LEMMA JustifiedStep == IndInv /\ StatusJustified /\ [Next]_vars => StatusJustified'
<1> SUFFICES ASSUME IndInv, StatusJustified, [Next]_vars PROVE StatusJustified'
  OBVIOUS
<1>0. /\ terms \in [Links -> LinkTerms \cup {NoTerms}] /\ linkStatus \in [Links -> LinkStatus \cup {"none"}]
      /\ paidCount \in [Links -> Nat] /\ DOMAIN paidMinor = Links
  BY DEF IndInv, TypeOK
<1>1. ASSUME UNCHANGED <<terms, linkStatus, totals>> PROVE StatusJustified'
  BY <1>1 DEF StatusJustified, totals
<1>2. ASSUME NEW l \in Links, NEW t \in LinkTerms, CreateLink(l, t) PROVE StatusJustified'
  BY <1>0, <1>2 DEF CreateLink, StatusJustified, totals
<1>3. ASSUME NEW l \in Links, NEW s \in OperatorSets, SetLinkStatus(l, s) PROVE StatusJustified'
  <2>1. s # "limit_reached" /\ s # "settled"
    BY OutsideChoices
  <2> QED
    BY <1>0, <1>3, <2>1 DEF SetLinkStatus, StatusJustified, totals
<1>4. ASSUME NEW w \in Workers, Totals(w) PROVE StatusJustified'
  <2>1. PICK l \in Links : Recompute(l) \/ UNCHANGED <<totals, linkStatus>>
    BY <1>4, JobFacts DEF Totals, LocalOK, At
  <2>2. UNCHANGED terms
    BY <1>4 DEF Totals
  <2>3. CASE Recompute(l)
    <3>1. /\ paidCount' = [paidCount EXCEPT ![l] = CommittedOn(payment, l)]
          /\ paidMinor' = [paidMinor EXCEPT ![l] = CollectedOn(payment, l)]
          /\ linkStatus' = [linkStatus EXCEPT ![l] =
               RecomputedStatus(terms[l], @, CommittedOn(payment, l), CollectedOn(payment, l))]
      BY <2>3 DEF Recompute
    <3>2. CommittedOn(payment, l) \in Nat
      BY <1>0, <2>3, <3>1, RecomputeTypes
    <3>3. terms[l] \in Terms /\ (terms[l].type = "split" => terms[l].target > 0)
      BY TermsTypes
    <3>4. linkStatus[l] = "settled" => terms[l].type = "split"
      BY DEF StatusJustified
    <3>5. ASSUME NEW k \in Links
          PROVE  /\ linkStatus'[k] = "limit_reached" =>
                      terms[k].maxUses > 0 /\ paidCount'[k] >= terms[k].maxUses
                 /\ linkStatus'[k] = "settled" =>
                      terms[k].type = "split" /\ paidMinor'[k] >= terms[k].target
      <4>1. CASE k = l
        <5>1. /\ linkStatus'[k] = RecomputedStatus(terms[l], linkStatus[l],
                                     CommittedOn(payment, l), CollectedOn(payment, l))
              /\ paidCount'[k] = CommittedOn(payment, l)
              /\ paidMinor'[k] = CollectedOn(payment, l)
          BY <1>0, <3>1, <4>1
        <5> QED
          BY <3>2, <3>3, <3>4, <4>1, <5>1, RecomputedJustified
      <4>2. CASE k # l
        BY <1>0, <3>1, <4>2 DEF StatusJustified
      <4> QED
        BY <4>1, <4>2
    <3> QED
      BY <2>2, <3>5 DEF StatusJustified
  <2> QED
    BY <1>1, <2>1, <2>2, <2>3
<1>5. ASSUME NEW w \in Workers, Refresh(w), ~Totals(w) PROVE StatusJustified'
  <2>1. UNCHANGED <<terms, linkStatus, totals>>
    BY <1>5 DEF Refresh, Begin, RetrieveOk, RetrieveMissing, RetrieveFails, Abandon, Save, Notify,
       links
  <2> QED
    BY <1>1, <2>1
<1>6. ASSUME UNCHANGED vars \/ Crash \/ World
             \/ (\E l \in Links : LinkExpires(l)) \/ (\E w \in Handlers : Checkout(w))
      PROVE  StatusJustified'
  <2>1. UNCHANGED <<terms, linkStatus, totals>>
    BY <1>6 DEF vars, links, Crash, LinkExpires, World, GatewayMoves, PayerStarts, PayerPays,
       PayerDeclined, HoldLapses, MerchantAdmin, PageTimesOut, Checkout, StartCheckout,
       OpenSession, CreatePayment, CountUse
  <2> QED
    BY <1>1, <2>1
<1>7. ASSUME NEW w \in Workers, Perform(w) \/ \E kind, pc, p : Load(w, kind, pc, p)
      PROVE  StatusJustified'
  <2>1. UNCHANGED <<terms, linkStatus, totals>>
    BY <1>7 DEF links, Perform, Decide, Alloc, SendOk, SendFails, Record, Load
  <2> QED
    BY <1>1, <2>1
<1>8. CASE Next
  BY <1>2, <1>3, <1>4, <1>5, <1>6, <1>7, <1>8
     DEF Next, LinkStep, Handler, StartStatus, StartView, StartLinkView, StartSweep, StartPerform, Workers
<1> QED
  BY <1>6, <1>8

\* A link marked limit_reached or settled has the counters that justify it,
\* whatever order outcomes, voids and refunds arrive in (RecomputeLinkTotals).
THEOREM StatusAlwaysJustified == Spec => []StatusJustified
<1>1. Init => StatusJustified
  BY DEF Init, StatusJustified
<1>2. IndInv /\ StatusJustified /\ [Next]_vars => StatusJustified'
  BY JustifiedStep
<1> QED
  BY <1>1, <1>2, Invariance, PTL DEF Spec

-----------------------------------------------------------------------------
(* The audit trail *)

\* A process that heard its operation succeed has it among the gateway's
\* transactions when it comes to write the audit row.
OkIsTxn(j) ==
    /\ j.ok => j.pc \in {"record", "save", "totals", "notify"}
    /\ j.ok /\ j.pc = "record" => [id |-> j.txn, type |-> j.kind, amt |-> j.amt] \in txns[j.pay]

AuditInv == AuditTruthful /\ \A w \in Workers : OkIsTxn(job[w])

\* A step of process w that writes no audit row and loses no transaction.
LEMMA AuditStep ==
    ASSUME IndInv, AuditInv, NEW w \in Workers, ops' = ops,
           \A p \in Payments : txns[p] \subseteq txns'[p],
           \A v \in Workers : v # w => job'[v] = job[v], OkIsTxn(job[w])'
    PROVE  AuditInv'
<1>1. AuditTruthful'
  BY DEF AuditInv, AuditTruthful
<1>2. ASSUME NEW v \in Workers PROVE OkIsTxn(job[v])'
  <2>1. CASE v = w
    BY <2>1
  <2>2. CASE v # w
    <3>1. OkIsTxn(job[v]) /\ (job[v].pc = "record" => job[v].pay \in Payments)
      BY JobFacts DEF AuditInv, At
    <3> QED
      BY <2>2, <3>1 DEF OkIsTxn
  <2> QED
    BY <2>1, <2>2
<1> QED
  BY <1>1, <1>2 DEF AuditInv

\* The usual case: the process goes on without a success in its locals, or
\* with one already recorded.
LEMMA AuditQuiet ==
    ASSUME IndInv, AuditInv, NEW w \in Workers, UNCHANGED <<ops, txns>>,
           \/ Finish(w) \/ Return(w)
           \/ \E pc : Goto(w, pc) /\ (job[w].ok => pc \in {"save", "totals", "notify"})
           \/ \E j : job' = [job EXCEPT ![w] = j] /\ ~j.ok
    PROVE  AuditInv'
<1>0. job[w] \in Job /\ job \in [Workers -> Job]
  BY DEF IndInv, TypeOK
<1>1. \A v \in Workers : v # w => job'[v] = job[v]
  BY OwnLocals
<1>2. ASSUME Finish(w) PROVE OkIsTxn(job[w])'
  <2>1. job'[w] = IdleJob /\ ~IdleJob.ok
    BY <1>0, <1>2 DEF Finish, IdleJob
  <2> QED
    BY <2>1 DEF OkIsTxn
<1>3. ASSUME NEW pc, Goto(w, pc), job[w].ok => pc \in {"save", "totals", "notify"}
      PROVE  OkIsTxn(job[w])'
  <2>1. job'[w].pc = pc /\ job'[w].ok = job[w].ok
    BY <1>0, <1>3 DEF Goto, Job
  <2> QED
    BY <1>3, <2>1 DEF OkIsTxn
<1>4. ASSUME Return(w) PROVE OkIsTxn(job[w])'
  BY <1>2, <1>3, <1>4 DEF Return
<1>5. ASSUME NEW j, job' = [job EXCEPT ![w] = j], ~j.ok PROVE OkIsTxn(job[w])'
  <2>1. job'[w] = j
    BY <1>0, <1>5
  <2> QED
    BY <1>5, <2>1 DEF OkIsTxn
<1>6. OkIsTxn(job[w])'
  BY <1>2, <1>3, <1>4, <1>5
<1> QED
  BY <1>1, <1>6, AuditStep

\* The steps of a refresh touch neither the audit rows nor the transactions.
LEMMA RefreshAudit ==
    ASSUME IndInv, AuditInv, NEW w \in Workers, Refresh(w) PROVE AuditInv'
<1>0. job[w] \in Job /\ OkIsTxn(job[w])
  BY DEF IndInv, TypeOK, AuditInv
<1>1. UNCHANGED <<ops, txns>>
  BY DEF Refresh, Begin, RetrieveOk, RetrieveMissing, RetrieveFails, Abandon, Save, Totals,
     Notify, gateway
<1>2. ASSUME Begin(w) PROVE AuditInv'
  <2> DEFINE j == [job[w] EXCEPT !.pc = "retrieve", !.old = TooOld(job[w].pay)]
  <2>1. job' = [job EXCEPT ![w] = j]
    BY <1>2 DEF Begin
  <2>2. ~j.ok
    BY <1>0, <1>2 DEF Begin, OkIsTxn, At, Job
  <2> QED
    BY <1>1, <2>1, <2>2, AuditQuiet
<1>3. ASSUME RetrieveOk(w), ~Return(w) PROVE AuditInv'
  <2>1. PICK receipt : job' = [job EXCEPT ![w].pc = "save", ![w].old = FALSE,
                                          ![w].row = Mirror(@, order[job[w].pay], receipt)]
    BY <1>3 DEF RetrieveOk
  <2> DEFINE j == [job[w] EXCEPT !.pc = "save", !.old = FALSE,
                                 !.row = Mirror(@, order[job[w].pay], receipt)]
  <2>2. job' = [job EXCEPT ![w] = j]
    BY <2>1
  <2>3. ~j.ok
    BY <1>0, <1>3 DEF RetrieveOk, OkIsTxn, At, Job
  <2> QED
    BY <1>1, <2>2, <2>3, AuditQuiet
<1>4. ASSUME RetrieveMissing(w), ~Finish(w) PROVE AuditInv'
  <2> DEFINE j == [job[w] EXCEPT !.pc = "abandon", !.row = Abandoned(@)]
  <2>1. job' = [job EXCEPT ![w] = j]
    BY <1>4 DEF RetrieveMissing
  <2>2. ~j.ok
    BY <1>0, <1>4 DEF RetrieveMissing, OkIsTxn, At, Job
  <2> QED
    BY <1>1, <2>1, <2>2, AuditQuiet
<1>5. ASSUME \/ Finish(w) \/ Return(w) \/ Goto(w, "totals") \/ Goto(w, "notify")
      PROVE  AuditInv'
  BY <1>1, <1>5, AuditQuiet
<1> QED
  BY <1>2, <1>3, <1>4, <1>5 DEF Refresh, RetrieveFails, Abandon, Save, Totals, Notify

\* perform allocates an id, sends, and records what it heard.
LEMMA PerformAudit ==
    ASSUME IndInv, AuditInv, NEW w \in Workers, Perform(w) PROVE AuditInv'
<1>0. /\ job[w] \in Job /\ OkIsTxn(job[w]) /\ job \in [Workers -> Job]
      /\ \A v \in Workers : OkIsTxn(job[v])
      /\ txns \in [Payments -> SUBSET Txn] /\ ops \in [Payments -> SUBSET Op]
  BY DEF IndInv, TypeOK, AuditInv
<1>1. ASSUME Decide(w) PROVE AuditInv'
  <2>1. UNCHANGED <<ops, txns>>
    BY <1>1 DEF Decide, gateway
  <2>2. CASE Finish(w)
    BY <2>1, <2>2, AuditQuiet
  <2>3. CASE ~Finish(w)
    <3>1. PICK row, amt : job' = [job EXCEPT ![w].pc = "alloc", ![w].row = row, ![w].amt = amt]
      BY <1>1, <2>3 DEF Decide
    <3> DEFINE j == [job[w] EXCEPT !.pc = "alloc", !.row = row, !.amt = amt]
    <3>2. job' = [job EXCEPT ![w] = j]
      BY <3>1
    <3>3. ~j.ok
      BY <1>0, <1>1 DEF Decide, OkIsTxn, At, Job
    <3> QED
      BY <2>1, <3>2, <3>3, AuditQuiet
  <2> QED
    BY <2>2, <2>3
<1>2. ASSUME Alloc(w) PROVE AuditInv'
  <2>1. UNCHANGED <<ops, txns>>
    BY <1>2 DEF Alloc, gateway
  <2> DEFINE j == [job[w] EXCEPT !.pc = "send", !.txn = NextTransactionID(job[w].pay)]
  <2>2. job' = [job EXCEPT ![w] = j] \/ Finish(w)
    BY <1>2 DEF Alloc
  <2>3. ~j.ok
    BY <1>0, <1>2 DEF Alloc, OkIsTxn, At, Job
  <2> QED
    BY <2>1, <2>2, <2>3, AuditQuiet
<1>3. ASSUME SendFails(w) PROVE AuditInv'
  <2>1. UNCHANGED <<ops, txns>> /\ Goto(w, "record") /\ ~job[w].ok
    BY <1>0, <1>3 DEF SendFails, gateway, OkIsTxn, At
  <2> QED
    BY <2>1, AuditQuiet
<1>4. ASSUME SendOk(w) PROVE AuditInv'
  <2> DEFINE p == job[w].pay
             t == [id |-> job[w].txn, type |-> job[w].kind, amt |-> job[w].amt]
  <2>1. /\ ops' = ops /\ txns' = [txns EXCEPT ![p] = @ \cup {t}]
        /\ At(w, "send") /\ ~At(w, "idle")
        /\ \/ job' = [job EXCEPT ![w].pc = "record", ![w].ok = TRUE,
                        ![w].row = Mirror(@, After(order[p], job[w].kind, job[w].amt), FALSE)]
           \/ Goto(w, "record")
    BY <1>4 DEF SendOk, At
  <2>2. p \in Payments
    BY <2>1, JobFacts
  <2>3. /\ job'[w].txn = job[w].txn /\ job'[w].kind = job[w].kind
        /\ job'[w].amt = job[w].amt /\ job'[w].pay = p /\ job'[w].pc = "record"
    <3>1. CASE Goto(w, "record")
      BY <1>0, <3>1 DEF Goto, Job
    <3>2. CASE ~Goto(w, "record")
      <4>1. PICK row : job' = [job EXCEPT ![w].pc = "record", ![w].ok = TRUE, ![w].row = row]
        BY <2>1, <3>2
      <4> QED
        BY <1>0, <4>1 DEF Job
    <3> QED
      BY <3>1, <3>2
  <2>4. t \in txns'[p] /\ \A q \in Payments : txns[q] \subseteq txns'[q]
    BY <1>0, <2>1, <2>2
  <2>5. OkIsTxn(job[w])'
    BY <2>3, <2>4 DEF OkIsTxn
  <2>6. \A v \in Workers : v # w => job'[v] = job[v]
    BY <1>0, <2>1 DEF Goto
  <2> QED
    BY <2>1, <2>4, <2>5, <2>6, AuditStep
<1>5. ASSUME Record(w) PROVE AuditInv'
  <2> DEFINE p == job[w].pay
             op == [txn |-> job[w].txn, type |-> job[w].kind, amt |-> job[w].amt,
                    status |-> Outcome(w)]
  <2>1. /\ UNCHANGED txns /\ At(w, "record") /\ ~At(w, "idle")
        /\ ops' = [ops EXCEPT ![p] = @ \cup {op}] \/ ops' = ops
    BY <1>5 DEF Record, CreatePaymentOperation, gateway, At
  <2>2. p \in Payments
    BY <2>1, JobFacts
  <2>3. job' = [job EXCEPT ![w].pc = "save", ![w].amt = 0, ![w].txn = 0] \/ Finish(w)
    BY <1>5 DEF Record
  <2>4. job'[w] = IdleJob \/ job'[w].pc = "save"
    BY <1>0, <2>3 DEF Finish, Job
  <2>5. \A v \in Workers : v # w => job'[v] = job[v]
    BY <1>0, <2>3 DEF Finish
  <2>6. op.status = "success" => [id |-> op.txn, type |-> op.type, amt |-> op.amt] \in txns[p]
    BY <1>0, <2>1 DEF Outcome, OkIsTxn, At
  <2> HIDE DEF op
  <2>7. AuditTruthful'
    BY <1>0, <2>1, <2>2, <2>6 DEF AuditInv, AuditTruthful
  <2>8. ASSUME NEW v \in Workers PROVE OkIsTxn(job[v])'
    BY <1>0, <2>1, <2>4, <2>5 DEF OkIsTxn, IdleJob
  <2> QED
    BY <2>7, <2>8 DEF AuditInv
<1> QED
  BY <1>1, <1>2, <1>3, <1>4, <1>5 DEF Perform

\* Every step keeps the audit invariant: one case per action.
LEMMA NextAudit == IndInv /\ AuditInv /\ [Next]_vars => AuditInv'
<1> SUFFICES ASSUME IndInv, AuditInv, [Next]_vars PROVE AuditInv'
  OBVIOUS
<1>0. /\ job \in [Workers -> Job] /\ \A v \in Workers : OkIsTxn(job[v])
  BY DEF IndInv, TypeOK, AuditInv
<1>1. ASSUME UNCHANGED vars \/ LinkStep \/ World PROVE AuditInv'
  <2>1. UNCHANGED <<ops, txns, job>>
    BY <1>1 DEF vars, gateway, LinkStep, CreateLink, SetLinkStatus, LinkExpires, World,
       GatewayMoves, PayerStarts, PayerPays, PayerDeclined, HoldLapses, MerchantAdmin,
       PageTimesOut
  <2> QED
    BY <2>1 DEF AuditInv, AuditTruthful, OkIsTxn
<1>2. ASSUME Crash PROVE AuditInv'
  <2>1. UNCHANGED <<ops, txns>> /\ \A v \in Workers : job'[v] = IdleJob
    BY <1>2 DEF Crash, gateway
  <2> QED
    BY <2>1 DEF AuditInv, AuditTruthful, OkIsTxn, IdleJob
<1>3. ASSUME NEW w \in Workers, NEW kind, NEW pc, NEW p, Load(w, kind, pc, p) PROVE AuditInv'
  <2> DEFINE j == [IdleJob EXCEPT !.kind = kind, !.pc = pc, !.pay = p, !.row = payment[p]]
  <2>1. job' = [job EXCEPT ![w] = j] /\ UNCHANGED <<ops, txns>>
    BY <1>3 DEF Load, gateway
  <2>2. ~j.ok
    BY DEF IdleJob
  <2> QED
    BY <2>1, <2>2, AuditQuiet
<1>4. ASSUME NEW w \in Handlers, Checkout(w) PROVE AuditInv'
  <2>1. UNCHANGED <<ops, txns>> /\ w \in Workers
    BY <1>4 DEF Checkout, StartCheckout, OpenSession, CreatePayment, CountUse, gateway, Workers
  <2>2. ASSUME NEW l \in Links, NEW p \in Payments, NEW a \in Amounts, StartCheckout(w, l, p, a)
        PROVE  AuditInv'
    <3> DEFINE j == [IdleJob EXCEPT !.kind = "checkout", !.pc = "open",
                                    !.pay = p, !.row = NewRow(l, a)]
    <3>1. job' = [job EXCEPT ![w] = j]
      BY <2>2 DEF StartCheckout
    <3>2. ~j.ok
      BY DEF IdleJob
    <3> QED
      BY <2>1, <3>1, <3>2, AuditQuiet
  <2>3. ASSUME OpenSession(w) \/ CreatePayment(w) \/ CountUse(w) PROVE AuditInv'
    <3>1. ~job[w].ok
      BY <1>0, <2>1, <2>3 DEF OpenSession, CreatePayment, CountUse, At, OkIsTxn
    <3>2. Finish(w) \/ \E pc : Goto(w, pc)
      BY <2>3 DEF OpenSession, CreatePayment, CountUse
    <3> QED
      BY <2>1, <3>1, <3>2, AuditQuiet
  <2> QED
    BY <1>4, <2>2, <2>3 DEF Checkout
<1>5. CASE Next
  BY <1>1, <1>2, <1>3, <1>4, <1>5, RefreshAudit, PerformAudit
     DEF Next, Handler, StartStatus, StartView, StartLinkView, StartSweep, StartPerform, Workers
<1> QED
  BY <1>1, <1>5

\* Whatever ids two processes read from the same count, and whatever responses
\* are lost, a success in payment_operations is a transaction the gateway
\* carried out (perform, CreatePaymentOperation).
THEOREM AuditAlwaysTruthful == Spec => []AuditTruthful
<1>1. Init => AuditInv
  BY DEF Init, AuditInv, AuditTruthful, OkIsTxn, IdleJob
<1>2. IndInv /\ AuditInv /\ [Next]_vars => AuditInv'
  BY NextAudit
<1>3. AuditInv => AuditTruthful
  BY DEF AuditInv
<1> QED
  BY <1>1, <1>2, <1>3, Invariance, PTL DEF Spec
=============================================================================
