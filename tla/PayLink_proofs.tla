--------------------------- MODULE PayLink_proofs ---------------------------
(***************************************************************************)
(* Proofs of the safety properties of PayLink, for any number of links,    *)
(* attempts, handlers and workers, any amounts and any bounds.             *)
(*                                                                         *)
(* First the data: what Mirror, After and the other operators return.      *)
(* Then the inductive invariant of PayLinkInv, one step per action; then   *)
(* the properties that follow from it.                                     *)
(***************************************************************************)
EXTENDS PayLinkInv, TLAPS, FiniteSetTheorems

-----------------------------------------------------------------------------
(* Records and orders *)

\* The rows of the code's constructors are rows (handlePublicCheckout).
LEMMA RowTypes ==
    /\ NoRow \in Row
    /\ \A l \in Links, a \in Nat : NewRow(l, a) \in Row
BY DEF NoRow, NewRow, Row, PaymentStatus

\* An idle process holds nothing.
LEMMA IdleTypes == IdleJob \in Job /\ LocalOK(IdleJob) /\ HeldOK(IdleJob)
BY RowTypes DEF IdleJob, Job, JobKinds, Steps, LocalOK, HeldOK

\* The known statuses are payment statuses, and none is an open one.
LEMMA StatusTypes ==
    ASSUME NEW s \in Recognised
    PROVE  /\ StatusFromOrder(s) \in PaymentStatus
           /\ StatusFromOrder(s) # "initiated" /\ StatusFromOrder(s) # "none"
BY DEF Recognised, StatusFromOrder, PaymentStatus

\* applyOrderOutcome leaves a row a row, and on the same link.
LEMMA MirrorTypes ==
    ASSUME NEW row \in Row, NEW o \in Order, o.status \in Recognised,
           NEW receipt \in BOOLEAN
    PROVE  /\ Mirror(row, o, receipt) \in Row
           /\ Mirror(row, o, receipt).link = row.link
           /\ Mirror(row, o, receipt).status # "none"
<1>1. StatusFromOrder(o.status) \in PaymentStatus /\ StatusFromOrder(o.status) # "none"
  BY StatusTypes
<1>2. (row.completed \/ StatusFromOrder(o.status) # "authorized") \in BOOLEAN
  BY DEF Row
<1>3. (row.receipt \/ receipt) \in BOOLEAN
  BY DEF Row
<1> QED
  BY <1>1, <1>2, <1>3 DEF Mirror, Row, Order

\* The order after a capture, a refund and a void, field by field.
LEMMA AfterFields ==
    ASSUME NEW o \in Order, NEW amt \in Nat
    PROVE  /\ After(o, "capture", amt) =
                [status |-> IF o.cap + amt = o.auth THEN "CAPTURED" ELSE "PARTIALLY_CAPTURED",
                 auth |-> o.auth, cap |-> o.cap + amt, ref |-> o.ref]
           /\ After(o, "refund", amt) =
                [status |-> IF o.ref + amt = o.cap THEN "REFUNDED" ELSE "PARTIALLY_REFUNDED",
                 auth |-> o.auth, cap |-> o.cap, ref |-> o.ref + amt]
           /\ After(o, "void", amt) =
                [status |-> "CANCELLED", auth |-> 0, cap |-> 0, ref |-> 0]
<1>1. After(o, "capture", amt) =
        [o EXCEPT !.cap = @ + amt,
                  !.status = IF o.cap + amt = o.auth THEN "CAPTURED" ELSE "PARTIALLY_CAPTURED"]
  BY DEF After
<1>2. After(o, "refund", amt) =
        [o EXCEPT !.ref = @ + amt,
                  !.status = IF o.ref + amt = o.cap THEN "REFUNDED" ELSE "PARTIALLY_REFUNDED"]
  BY DEF After
<1>3. After(o, "void", amt) = [status |-> "CANCELLED", auth |-> 0, cap |-> 0, ref |-> 0]
  BY DEF After, Closed
<1> QED
  BY <1>1, <1>2, <1>3 DEF Order

\* An accepted operation leaves an order an order, in a status we know.
LEMMA AfterTypes ==
    ASSUME NEW o \in Order, NEW kind \in Kinds, NEW amt \in Nat
    PROVE  After(o, kind, amt) \in Order /\ After(o, kind, amt).status \in Recognised
<1> DEFINE a == After(o, kind, amt)
<1>1. /\ a = [status |-> a.status, auth |-> a.auth, cap |-> a.cap, ref |-> a.ref]
      /\ a.auth \in Nat /\ a.cap \in Nat /\ a.ref \in Nat
      /\ a.status \in {"CAPTURED", "PARTIALLY_CAPTURED", "REFUNDED", "PARTIALLY_REFUNDED",
                       "CANCELLED"}
  <2>1. o.cap + amt \in Nat /\ o.ref + amt \in Nat /\ o.auth \in Nat /\ o.cap \in Nat /\ o.ref \in Nat
    BY DEF Order
  <2>2. CASE kind = "capture"
    <3>1. (IF o.cap + amt = o.auth THEN "CAPTURED" ELSE "PARTIALLY_CAPTURED")
            \in {"CAPTURED", "PARTIALLY_CAPTURED"}
      OBVIOUS
    <3>2. PICK s \in {"CAPTURED", "PARTIALLY_CAPTURED"} :
            a = [status |-> s, auth |-> o.auth, cap |-> o.cap + amt, ref |-> o.ref]
      BY <2>2, <3>1, AfterFields
    <3> HIDE DEF a
    <3> QED
      BY <2>1, <3>2
  <2>3. CASE kind = "refund"
    BY <2>1, <2>3, AfterFields
  <2>4. CASE kind = "void"
    BY <2>1, <2>4, AfterFields
  <2> QED
    BY <2>2, <2>3, <2>4 DEF Kinds
<1> HIDE DEF a
<1>2. a \in Order /\ a.status \in Recognised
  BY <1>1 DEF Order, OrderStatus, Recognised
<1> QED
  BY <1>2 DEF a

\* An accepted operation moves the order on (Gateway).
LEMMA AfterAdvances ==
    ASSUME NEW o \in Order, OrderOK(o), NEW kind \in Kinds, NEW amt \in Nat,
           kind # "void" => amt > 0, Accepts(o, kind, amt), NEW pg
    PROVE  OrderOK(After(o, kind, amt)) /\ Advances(o, After(o, kind, amt), pg)
<1> USE DEF OrderOK, Advances, MoneyOrders, ClosedOrders
<1>1. o.cap \in Nat /\ o.ref \in Nat
  BY DEF Order
<1>2. CASE kind = "capture"
  <2>1. o.status \in {"AUTHORIZED", "PARTIALLY_CAPTURED"}
    BY <1>2 DEF Accepts
  <2>2. /\ After(o, kind, amt).status \in {"CAPTURED", "PARTIALLY_CAPTURED"}
        /\ After(o, kind, amt).cap = o.cap + amt /\ After(o, kind, amt).ref = o.ref
    BY <1>2, AfterFields
  <2> QED
    BY <1>1, <2>1, <2>2
<1>3. CASE kind = "refund"
  <2>1. o.cap > 0
    BY <1>1, <1>3 DEF Accepts
  <2>2. o.status \in MoneyOrders
    BY <1>1, <2>1
  <2> QED
    BY <1>1, <1>3, <2>2, AfterFields
<1>4. CASE kind = "void"
  <2>1. o.status = "AUTHORIZED"
    BY <1>4 DEF Accepts
  <2>2. o.cap = 0 /\ o.ref = 0
    BY <2>1
  <2> QED
    BY <1>4, <2>1, <2>2, AfterFields
<1> QED
  BY <1>2, <1>3, <1>4 DEF Kinds

\* A record that was true of an order stays true as the order moves on.
LEMMA RecordSurvives ==
    ASSUME NEW row \in Row, NEW o \in Order, NEW o2 \in Order, NEW pg,
           RecordOK(row, o, pg), Advances(o, o2, pg)
    PROVE  RecordOK(row, o2, pg)
BY DEF RecordOK, Advances, Row, Order, MoneyRows, MoneyOrders, ClosedOrders, ClosedRows

\* What applyOrderOutcome makes of a record is true of the order it mirrors.
LEMMA MirrorRecord ==
    ASSUME NEW row \in Row, NEW o \in Order, NEW pg, NEW receipt \in BOOLEAN,
           o.status \in Recognised, OrderOK(o), RecordOK(row, o, pg)
    PROVE  RecordOK(Mirror(row, o, receipt), o, pg)
<1> DEFINE m == Mirror(row, o, receipt)
<1>1. /\ m.status = StatusFromOrder(o.status) /\ m.auth = o.auth
      /\ m.cap = o.cap /\ m.ref = o.ref
      /\ m.completed = (row.completed \/ StatusFromOrder(o.status) # "authorized")
  BY DEF Mirror, Row
<1>2. o.status = "AUTHORIZED" => ~row.completed
  BY DEF RecordOK, MoneyRows, ClosedRows, MoneyOrders, ClosedOrders, Row
<1>3. /\ StatusFromOrder(o.status) \in MoneyRows <=> o.status \in MoneyOrders
      /\ StatusFromOrder(o.status) \in ClosedRows <=> o.status \in ClosedOrders
      /\ StatusFromOrder(o.status) = "authorized" <=> o.status = "AUTHORIZED"
      /\ StatusFromOrder(o.status) \in MoneyRows \cup ClosedRows \cup {"authorized"}
  BY DEF Recognised, StatusFromOrder, MoneyRows, ClosedRows, MoneyOrders, ClosedOrders
<1>4. m.completed <=> m.status \in MoneyRows \cup ClosedRows
  BY <1>1, <1>2, <1>3 DEF MoneyRows, ClosedRows
<1> HIDE DEF m
<1>5. RecordOK(m, o, pg)
  BY <1>1, <1>3, <1>4 DEF RecordOK, OrderOK, MoneyRows, ClosedRows, Order
<1> QED
  BY <1>5 DEF m

-----------------------------------------------------------------------------
(* Steps of one process on its own locals *)

\* A fault stays within the bound.
LEMMA FaultTypes == TypeOK /\ Fault => faults' \in 0 .. MaxFaults
BY BoundsNatural DEF TypeOK, Fault

\* Locals j may be given to process w: it shares no attempt yet to be inserted.
Alone(w, j) ==
    \A v \in Workers \ {w} : j.pc \in {"open", "insert"} \/ job[v].pc \in {"open", "insert"} =>
        job[v].pay # j.pay

\* A process that goes on to a step after the insert holds its attempt as it did.
LEMMA KeepsAlone ==
    ASSUME IndInv, NEW w \in Workers, NEW j,
           \/ j = IdleJob
           \/ /\ j.pay = job[w].pay
              /\ j.pc \in {"open", "insert"} => job[w].pc \in {"open", "insert"}
    PROVE  Alone(w, j)
<1>1. Exclusive /\ \A v \in Workers : job[v].pc # "idle" => job[v].pay \in Payments
  BY DEF IndInv, JobsInv, LocalOK
<1>2. IdleJob.pc = "idle" /\ IdleJob.pay \notin Payments
  BY AbsentValues DEF IdleJob
<1> QED
  BY <1>1, <1>2 DEF Exclusive, Alone

\* Every payment stays on its link, and every order only moves on.
Kept(q) == /\ payment'[q] = NoRow <=> payment[q] = NoRow
           /\ payment'[q].link = payment[q].link
           /\ Advances(order[q], order'[q], page[q])

\* A step that leaves payments and orders alone keeps them all.
LEMMA UnchangedKept ==
    ASSUME IndInv, UNCHANGED <<payment, order>>, NEW q \in Payments
    PROVE  Kept(q)
<1>1. order[q] \in Order
  BY DEF IndInv, TypeOK
<1> QED
  BY <1>1 DEF Kept, Advances, Order

\* A step of process w, to locals that agree with the tables, keeps what is
\* known of every process.
LEMMA JobsStep ==
    ASSUME IndInv, NEW w \in Workers, NEW j \in Job,
           job' = [job EXCEPT ![w] = j], page' = page,
           order' \in [Payments -> Order], \A q \in Payments : Kept(q),
           LocalOK(j), Alone(w, j),
           j.pc # "idle" => RecordOK(j.row, order'[j.pay], page[j.pay])
    PROVE  JobsInv' /\ job' \in [Workers -> Job]
<1>1. job \in [Workers -> Job] /\ order \in [Payments -> Order]
  BY DEF IndInv, TypeOK
<1>2. job' \in [Workers -> Job]
  BY <1>1
<1>3. job'[w] = j /\ \A v \in Workers : v # w => job'[v] = job[v]
  BY <1>1
<1>4. ASSUME NEW v \in Workers
      PROVE  (LocalOK(job[v]) /\ HeldOK(job[v]))'
  <2>1. LocalOK(job[v]) /\ HeldOK(job[v]) /\ job[v].row \in Row
    BY <1>1 DEF IndInv, JobsInv, Job
  <2>2. CASE v = w
    <3>1. job'[v] = j
      BY <1>3, <2>2
    <3> QED
      BY <3>1 DEF LocalOK, HeldOK, Kept, Advances
  <2>3. CASE v # w
    <3>1. job'[v] = job[v]
      BY <1>3, <2>3
    <3>2. job[v].pc # "idle" => job[v].pay \in Payments
      BY <2>1 DEF LocalOK
    <3>3. HeldOK(job[v])'
      BY <1>1, <2>1, <3>1, <3>2, RecordSurvives DEF HeldOK, Kept
    <3>4. LocalOK(job[v])'
      BY <2>1, <3>1, <3>2 DEF LocalOK, Kept, Advances
    <3> QED
      BY <3>3, <3>4
  <2> QED
    BY <2>2, <2>3
<1>5. Exclusive'
  BY <1>3 DEF IndInv, JobsInv, Exclusive, Alone
<1> QED
  BY <1>2, <1>4, <1>5 DEF JobsInv

\* A step of process w on its own locals alone.
LEMMA LocalStep ==
    ASSUME IndInv, NEW w \in Workers, NEW j \in Job,
           job' = [job EXCEPT ![w] = j],
           UNCHANGED <<links, totals, payment, gateway, ops, hooks, ghosts>>,
           faults' = faults \/ Fault,
           LocalOK(j), HeldOK(j), Alone(w, j)
    PROVE  IndInv'
<1>1. UNCHANGED <<payment, order, page>> /\ order \in [Payments -> Order]
  BY DEF gateway, IndInv, TypeOK
<1>2. JobsInv' /\ job' \in [Workers -> Job]
  BY <1>1, JobsStep, UnchangedKept DEF HeldOK
<1>3. faults' \in 0 .. MaxFaults
  BY FaultTypes DEF IndInv, TypeOK
<1>4. TypeOK'
  BY <1>2, <1>3 DEF IndInv, TypeOK, links, totals, gateway, ghosts
<1>5. OpsInv' /\ PaymentsInv'
  BY <1>1 DEF IndInv, OpsInv, PaymentsInv, RowOK
<1> QED
  BY <1>2, <1>4, <1>5 DEF IndInv

\* A process that ends, changing nothing else.
LEMMA FinishStep ==
    ASSUME IndInv, NEW w \in Workers, Finish(w),
           UNCHANGED <<links, totals, payment, gateway, ops, hooks, ghosts>>,
           faults' = faults \/ Fault
    PROVE  IndInv'
BY IdleTypes, KeepsAlone, LocalStep DEF Finish

\* What the invariant says of one process.
LEMMA JobFacts ==
    ASSUME IndInv, NEW w \in Workers
    PROVE  /\ job[w] \in Job /\ LocalOK(job[w]) /\ HeldOK(job[w])
           /\ job[w].row \in Row
           /\ ~At(w, "idle") => /\ job[w].pay \in Payments
                                /\ order[job[w].pay] \in Order
                                /\ OrderOK(order[job[w].pay])
                                /\ RecordOK(job[w].row, order[job[w].pay], page[job[w].pay])
<1>1. job[w] \in Job /\ LocalOK(job[w]) /\ HeldOK(job[w])
  BY DEF IndInv, TypeOK, JobsInv
<1>2. job[w].row \in Row
  BY <1>1 DEF Job
<1>3. \A p \in Payments : order[p] \in Order /\ OrderOK(order[p])
  BY DEF IndInv, TypeOK, PaymentsInv
<1> QED
  BY <1>1, <1>2, <1>3 DEF LocalOK, HeldOK, At

\* And of one payment.
LEMMA PaymentFacts ==
    ASSUME IndInv, NEW p \in Payments
    PROVE  /\ payment[p] \in Row /\ order[p] \in Order /\ RowOK(p) /\ OrderOK(order[p])
           /\ RecordOK(payment[p], order[p], page[p])
BY DEF IndInv, TypeOK, PaymentsInv, RowOK

\* A process that goes on to a step that asks nothing more of its locals.
LEMMA GotoStep ==
    ASSUME IndInv, NEW w \in Workers, NEW pc \in Steps, ~At(w, "idle"),
           Goto(w, pc),
           pc \in {"insert", "save", "totals", "notify", "decide", "alloc", "send", "record"},
           pc = "insert" => At(w, "open"),
           pc # "insert" => job[w].pc \notin {"open", "insert"},
           pc \in {"decide", "alloc", "send", "record"} => job[w].kind \in Kinds,
           pc \in {"alloc", "send"} => job[w].kind = "void" \/ job[w].amt > 0,
           UNCHANGED <<links, totals, payment, gateway, ops, hooks, ghosts>>,
           faults' = faults \/ Fault
    PROVE  IndInv'
<1> DEFINE j == [job[w] EXCEPT !.pc = pc]
<1>1. job' = [job EXCEPT ![w] = j]
  BY DEF Goto
<1>2. job[w] \in Job /\ LocalOK(job[w]) /\ HeldOK(job[w])
  BY JobFacts
<1>3. /\ j \in Job /\ j.pc = pc /\ j.kind = job[w].kind /\ j.pay = job[w].pay
      /\ j.row = job[w].row /\ j.old = job[w].old /\ j.amt = job[w].amt
  BY <1>2 DEF Job
<1> HIDE DEF j
<1>4. LocalOK(j) /\ HeldOK(j)
  BY <1>2, <1>3 DEF LocalOK, HeldOK, At
<1> QED
  BY <1>1, <1>3, <1>4, KeepsAlone, LocalStep DEF At

\* applyOrderOutcome's return, to either caller.
LEMMA ReturnStep ==
    ASSUME IndInv, NEW w \in Workers, ~At(w, "idle"), Return(w),
           job[w].pc \notin {"open", "insert"},
           UNCHANGED <<links, totals, payment, gateway, ops, hooks, ghosts>>,
           faults' = faults \/ Fault
    PROVE  IndInv'
<1>1. CASE Performing(w) /\ ~job[w].ok
  BY <1>1, GotoStep DEF Return, Performing, Steps
<1>2. CASE ~(Performing(w) /\ ~job[w].ok)
  BY <1>2, FinishStep DEF Return
<1> QED
  BY <1>1, <1>2

\* A handler or a worker loads a payment (loadPaymentForUser).
LEMMA LoadStep ==
    ASSUME IndInv, NEW w \in Workers, NEW kind \in {"refresh"} \cup Kinds,
           NEW pc \in {"queued", "retrieve"}, NEW p \in Payments, Load(w, kind, pc, p)
    PROVE  IndInv'
<1> DEFINE j == [IdleJob EXCEPT !.kind = kind, !.pc = pc, !.pay = p, !.row = payment[p]]
<1>1. job' = [job EXCEPT ![w] = j] /\ At(w, "idle") /\ payment[p] # NoRow
  BY DEF Load
<1>2. payment[p] \in Row /\ RowOK(p) /\ RecordOK(payment[p], order[p], page[p])
  BY PaymentFacts
<1>3. IdleJob \in Job /\ ~IdleJob.old
  BY IdleTypes DEF IdleJob
<1>4. kind \in JobKinds /\ pc \in Steps
  BY DEF JobKinds, Steps
<1>5. /\ j \in Job /\ j.kind = kind /\ j.pc = pc /\ j.pay = p /\ j.row = payment[p] /\ ~j.old
  BY <1>2, <1>3, <1>4 DEF Job
<1> HIDE DEF j
<1>6. LocalOK(j) /\ HeldOK(j)
  BY <1>1, <1>2, <1>5 DEF LocalOK, HeldOK, RowOK
<1>7. Alone(w, j)
  BY <1>1, <1>5 DEF IndInv, JobsInv, LocalOK, Alone
<1> QED
  BY <1>1, <1>5, <1>6, <1>7, LocalStep DEF Load

-----------------------------------------------------------------------------
(* The actions that change locals only *)

\* handlePublicCheckout takes a fresh order id.
LEMMA StartCheckoutInv ==
    ASSUME IndInv, NEW w \in Workers, NEW l \in Links, NEW p \in Payments,
           NEW a \in Amounts, StartCheckout(w, l, p, a)
    PROVE  IndInv'
<1> DEFINE j == [IdleJob EXCEPT !.kind = "checkout", !.pc = "open", !.pay = p,
                                !.row = NewRow(l, a)]
<1>1. /\ payment[p] = NoRow /\ \A v \in Workers : job[v].pay # p
      /\ job' = [job EXCEPT ![w] = j]
  BY DEF StartCheckout, Fresh
<1>2. order[p] = NoOrder /\ page[p] = "none"
  BY <1>1, PaymentFacts DEF RowOK
<1>3. a \in Nat /\ NewRow(l, a) \in Row
  BY AmountsPositive, RowTypes
<1>4. IdleJob \in Job /\ ~IdleJob.old
  BY IdleTypes DEF IdleJob
<1>5. /\ j \in Job /\ j.kind = "checkout" /\ j.pc = "open" /\ j.pay = p
      /\ j.row = NewRow(l, a) /\ ~j.old
  BY <1>3, <1>4 DEF Job, JobKinds, Steps
<1> HIDE DEF j
<1>6. LocalOK(j)
  BY <1>1, <1>2, <1>5 DEF LocalOK, NewRow
<1>7. RecordOK(NewRow(l, a), NoOrder, "none")
  BY DEF RecordOK, NewRow, NoOrder, MoneyRows, ClosedRows
<1>8. HeldOK(j)
  BY <1>2, <1>5, <1>7 DEF HeldOK
<1>9. Alone(w, j)
  BY <1>1, <1>5 DEF Alone
<1> QED
  BY <1>1, <1>5, <1>6, <1>8, <1>9, LocalStep DEF StartCheckout

\* InitiateCheckout opens a session, or fails.
LEMMA OpenSessionInv == ASSUME IndInv, NEW w \in Workers, OpenSession(w) PROVE IndInv'
<1>1. CASE Goto(w, "insert")
  BY <1>1, GotoStep DEF OpenSession, At, Steps
<1>2. CASE Finish(w)
  BY <1>2, FinishStep DEF OpenSession
<1> QED
  BY <1>1, <1>2 DEF OpenSession

\* reconcileOne reads the clock.
LEMMA BeginInv == ASSUME IndInv, NEW w \in Workers, Begin(w) PROVE IndInv'
<1> DEFINE j == [job[w] EXCEPT !.pc = "retrieve", !.old = TooOld(job[w].pay)]
<1>1. job' = [job EXCEPT ![w] = j] /\ At(w, "queued")
  BY DEF Begin, IndInv, TypeOK
<1>2. job[w] \in Job /\ LocalOK(job[w]) /\ HeldOK(job[w])
  BY JobFacts
<1>3. TooOld(job[w].pay) \in BOOLEAN
  BY DEF TooOld
<1>4. /\ j \in Job /\ j.pc = "retrieve" /\ j.kind = job[w].kind /\ j.pay = job[w].pay
      /\ j.row = job[w].row /\ j.old = TooOld(job[w].pay)
  BY <1>2, <1>3 DEF Job, Steps
<1> HIDE DEF j
<1>5. LocalOK(j) /\ HeldOK(j)
  BY <1>1, <1>2, <1>4 DEF LocalOK, HeldOK, At, TooOld
<1> QED
  BY <1>1, <1>4, <1>5, KeepsAlone, LocalStep DEF Begin

\* RetrieveOrder answers, and the outcome is mirrored on the copy in memory.
LEMMA RetrieveOkInv == ASSUME IndInv, NEW w \in Workers, RetrieveOk(w) PROVE IndInv'
<1> DEFINE o == order[job[w].pay]
<1>1. At(w, "retrieve") /\ ~At(w, "idle")
  BY DEF RetrieveOk, At
<1>2. CASE o.status \notin Recognised
  BY <1>1, <1>2, ReturnStep DEF RetrieveOk, At
<1>3. CASE o.status \in Recognised
  <2>1. PICK receipt \in BOOLEAN :
          job' = [job EXCEPT ![w].pc = "save", ![w].old = FALSE,
                             ![w].row = Mirror(@, o, receipt)]
    BY <1>3, LateReceiptsBoolean DEF RetrieveOk
  <2> DEFINE m == Mirror(job[w].row, o, receipt)
             j == [job[w] EXCEPT !.pc = "save", !.old = FALSE, !.row = m]
  <2>2. job' = [job EXCEPT ![w] = j]
    BY <2>1 DEF IndInv, TypeOK
  <2>3. /\ job[w] \in Job /\ LocalOK(job[w]) /\ job[w].row \in Row /\ o \in Order /\ OrderOK(o)
        /\ RecordOK(job[w].row, o, page[job[w].pay])
    BY <1>1, JobFacts
  <2>4. m \in Row /\ m.link = job[w].row.link /\ m.status # "none"
    BY <1>3, <2>3, MirrorTypes
  <2>5. RecordOK(m, o, page[job[w].pay])
    BY <1>3, <2>3, MirrorRecord
  <2> HIDE DEF m
  <2>6. /\ j \in Job /\ j.pc = "save" /\ j.pay = job[w].pay /\ j.row = m /\ ~j.old
    BY <2>3, <2>4 DEF Job, Steps
  <2> HIDE DEF j
  <2>7. LocalOK(j) /\ HeldOK(j)
    BY <1>1, <2>3, <2>4, <2>5, <2>6 DEF LocalOK, HeldOK, At
  <2> QED
    BY <2>2, <2>6, <2>7, KeepsAlone, LocalStep DEF RetrieveOk
<1> QED
  BY <1>2, <1>3

\* RetrieveOrder answers 400: the attempt is given up, if it is old.
LEMMA RetrieveMissingInv ==
    ASSUME IndInv, NEW w \in Workers, RetrieveMissing(w) PROVE IndInv'
<1>1. CASE ~job[w].old
  BY <1>1, FinishStep DEF RetrieveMissing
<1>2. CASE job[w].old
  <2> DEFINE m == Abandoned(job[w].row)
             j == [job[w] EXCEPT !.pc = "abandon", !.row = m]
  <2>1. /\ At(w, "retrieve") /\ ~At(w, "idle") /\ order[job[w].pay].status = "NONE"
        /\ job' = [job EXCEPT ![w] = j]
    BY <1>2 DEF RetrieveMissing, At, IndInv, TypeOK
  <2>2. /\ job[w] \in Job /\ LocalOK(job[w]) /\ job[w].row \in Row
        /\ order[job[w].pay] \in Order /\ OrderOK(order[job[w].pay])
        /\ RecordOK(job[w].row, order[job[w].pay], page[job[w].pay])
    BY <2>1, JobFacts
  <2>3. page[job[w].pay] = "expired"
    BY <1>2, <2>2 DEF LocalOK
  <2>4. /\ m \in Row /\ m.link = job[w].row.link /\ m.status = "expired" /\ m.completed
        /\ m.cap = job[w].row.cap /\ m.ref = job[w].row.ref
    BY <2>2 DEF Abandoned, Row, PaymentStatus
  <2>5. m.cap = 0 /\ m.ref = 0
    BY <2>1, <2>2, <2>4 DEF OrderOK, RecordOK, MoneyOrders, Order, Row
  <2> HIDE DEF m
  <2>6. RecordOK(m, order[job[w].pay], page[job[w].pay])
    BY <2>1, <2>2, <2>3, <2>4, <2>5 DEF RecordOK, MoneyRows, ClosedRows, Order
  <2>7. j \in Job /\ j.pc = "abandon" /\ j.pay = job[w].pay /\ j.row = m
    BY <2>2, <2>4 DEF Job, Steps
  <2> HIDE DEF j
  <2>8. LocalOK(j) /\ HeldOK(j)
    BY <2>1, <2>2, <2>3, <2>4, <2>6, <2>7 DEF LocalOK, HeldOK, At
  <2> QED
    BY <2>1, <2>7, <2>8, KeepsAlone, LocalStep DEF RetrieveMissing
<1> QED
  BY <1>1, <1>2

\* RetrieveOrder fails.
LEMMA RetrieveFailsInv == ASSUME IndInv, NEW w \in Workers, RetrieveFails(w) PROVE IndInv'
BY FinishStep DEF RetrieveFails

\* What perform may send is an amount, and a positive one unless it is a void.
LEMMA OperationAmountTypes ==
    ASSUME NEW row \in Row, NEW kind \in Kinds, NEW amt \in OperationAmounts(kind, row)
    PROVE  amt \in Nat /\ (kind = "void" \/ amt > 0)
<1>1. row.auth \in Nat /\ CapturableMinor(row) \in Nat /\ RefundableMinor(row) \in Nat
  BY DEF Row, CapturableMinor, RefundableMinor
<1>2. CASE kind = "capture"
  BY <1>1, <1>2 DEF OperationAmounts
<1>3. CASE kind = "refund"
  BY <1>1, <1>3 DEF OperationAmounts
<1>4. CASE kind = "void"
  BY <1>1, <1>4 DEF OperationAmounts
<1> QED
  BY <1>2, <1>3, <1>4 DEF Kinds

\* perform reads the row again and decides the amount.
LEMMA DecideInv == ASSUME IndInv, NEW w \in Workers, Decide(w) PROVE IndInv'
<1>1. PICK row \in {payment[job[w].pay], job[w].row} :
        /\ faults' = faults \/ Fault
        /\ \/ \E amt \in OperationAmounts(job[w].kind, row) :
                job' = [job EXCEPT ![w].pc = "alloc", ![w].row = row, ![w].amt = amt]
           \/ Finish(w)
  BY DEF Decide
<1>2. /\ At(w, "decide") /\ ~At(w, "idle")
      /\ UNCHANGED <<links, totals, payment, gateway, ops, hooks, ghosts>>
  BY DEF Decide, At
<1>3. CASE Finish(w)
  BY <1>1, <1>2, <1>3, FinishStep
<1>4. ASSUME NEW amt \in OperationAmounts(job[w].kind, row),
             job' = [job EXCEPT ![w].pc = "alloc", ![w].row = row, ![w].amt = amt]
      PROVE  IndInv'
  <2> DEFINE j == [job[w] EXCEPT !.pc = "alloc", !.row = row, !.amt = amt]
  <2>1. job' = [job EXCEPT ![w] = j]
    BY <1>4 DEF IndInv, TypeOK
  <2>2. /\ job[w] \in Job /\ LocalOK(job[w]) /\ job[w].row \in Row /\ job[w].pay \in Payments
        /\ RecordOK(job[w].row, order[job[w].pay], page[job[w].pay])
    BY <1>2, JobFacts
  <2>3. /\ payment[job[w].pay] \in Row /\ RowOK(job[w].pay)
        /\ RecordOK(payment[job[w].pay], order[job[w].pay], page[job[w].pay])
    BY <2>2, PaymentFacts
  <2>4. /\ job[w].kind \in Kinds /\ payment[job[w].pay] # NoRow
        /\ job[w].row.link = payment[job[w].pay].link
    BY <1>2, <2>2 DEF LocalOK, At
  <2>5. /\ row \in Row /\ row.link = payment[job[w].pay].link /\ row.link \in Links
        /\ row.status # "none" /\ RecordOK(row, order[job[w].pay], page[job[w].pay])
    BY <1>2, <2>2, <2>3, <2>4 DEF RowOK, LocalOK, At
  <2>6. amt \in Nat /\ (job[w].kind = "void" \/ amt > 0)
    BY <1>4, <2>4, <2>5, OperationAmountTypes
  <2>7. /\ j \in Job /\ j.pc = "alloc" /\ j.kind = job[w].kind /\ j.pay = job[w].pay
        /\ j.row = row /\ j.amt = amt /\ j.old = job[w].old
    BY <2>2, <2>5, <2>6 DEF Job, Steps
  <2> HIDE DEF j
  <2>8. LocalOK(j) /\ HeldOK(j)
    BY <2>2, <2>4, <2>5, <2>6, <2>7 DEF LocalOK, HeldOK
  <2> QED
    BY <1>1, <1>2, <2>1, <2>7, <2>8, KeepsAlone, LocalStep
<1> QED
  BY <1>1, <1>3, <1>4

\* perform takes a transaction id.
LEMMA AllocInv == ASSUME IndInv, NEW w \in Workers, Alloc(w) PROVE IndInv'
<1>1. At(w, "alloc") /\ ~At(w, "idle")
  BY DEF Alloc, At
<1>2. CASE Finish(w)
  BY <1>2, FinishStep DEF Alloc
<1>3. CASE job' = [job EXCEPT ![w].pc = "send", ![w].txn = NextTransactionID(job[w].pay)]
  <2> DEFINE j == [job[w] EXCEPT !.pc = "send", !.txn = NextTransactionID(job[w].pay)]
  <2>1. job' = [job EXCEPT ![w] = j]
    BY <1>3 DEF IndInv, TypeOK
  <2>2. job[w] \in Job /\ LocalOK(job[w]) /\ HeldOK(job[w]) /\ job[w].pay \in Payments
    BY <1>1, JobFacts
  <2>3. NextTransactionID(job[w].pay) \in Nat
    BY <2>2, FS_CardinalityType DEF NextTransactionID, IndInv, OpsInv
  <2>4. /\ j \in Job /\ j.pc = "send" /\ j.kind = job[w].kind /\ j.pay = job[w].pay
        /\ j.row = job[w].row /\ j.amt = job[w].amt /\ j.old = job[w].old
    BY <2>2, <2>3 DEF Job, Steps
  <2> HIDE DEF j
  <2>5. LocalOK(j) /\ HeldOK(j)
    BY <1>1, <2>2, <2>4 DEF LocalOK, HeldOK, At
  <2> QED
    BY <2>1, <2>4, <2>5, KeepsAlone, LocalStep DEF Alloc
<1> QED
  BY <1>2, <1>3 DEF Alloc

\* The gateway refuses an operation, or is not reached.
LEMMA SendFailsInv == ASSUME IndInv, NEW w \in Workers, SendFails(w) PROVE IndInv'
<1>1. At(w, "send") /\ ~At(w, "idle") /\ LocalOK(job[w])
  BY JobFacts DEF SendFails, At
<1>2. job[w].kind \in Kinds
  BY <1>1 DEF LocalOK, At
<1> QED
  BY <1>1, <1>2, GotoStep DEF SendFails, At, Steps

-----------------------------------------------------------------------------
(* The actions that change the tables *)

\* A step that leaves payments, orders, pages and locals alone.
LEMMA TablesOnly ==
    ASSUME IndInv, UNCHANGED <<payment, order, page, job, ops>>, TypeOK'
    PROVE  IndInv'
<1>1. PaymentsInv' /\ OpsInv'
  BY DEF IndInv, PaymentsInv, RowOK, OpsInv
<1>2. JobsInv'
  BY DEF IndInv, JobsInv, Exclusive, LocalOK, HeldOK
<1> QED
  BY <1>1, <1>2 DEF IndInv

\* handleCreateLink.
LEMMA CreateLinkInv ==
    ASSUME IndInv, NEW l \in Links, NEW t \in LinkTerms, CreateLink(l, t) PROVE IndInv'
<1>1. TypeOK'
  BY DEF IndInv, TypeOK, CreateLink, LinkStatus, totals, gateway, ghosts
<1> QED
  BY <1>1, TablesOnly DEF CreateLink, gateway

\* handleSetLinkStatus.
LEMMA SetLinkStatusInv ==
    ASSUME IndInv, NEW l \in Links, NEW s \in OperatorSets, SetLinkStatus(l, s) PROVE IndInv'
<1>1. s \in LinkStatus
  BY OutsideChoices DEF LinkStatus
<1>2. TypeOK'
  BY <1>1 DEF IndInv, TypeOK, SetLinkStatus, totals, gateway, ghosts
<1> QED
  BY <1>2, TablesOnly DEF SetLinkStatus, gateway

\* A link's expires_at passes.
LEMMA LinkExpiresInv ==
    ASSUME IndInv, NEW l \in Links, LinkExpires(l) PROVE IndInv'
<1>1. TypeOK'
  BY DEF IndInv, TypeOK, LinkExpires, totals, gateway, ghosts
<1> QED
  BY <1>1, TablesOnly DEF LinkExpires, gateway

\* A step that moves one order on, and nothing else that the others look at.
LEMMA OrderMoves ==
    ASSUME IndInv, NEW p \in Payments, NEW o \in Order, payment[p] # NoRow,
           order' = [order EXCEPT ![p] = o], UNCHANGED <<payment, page, job>>,
           OrderOK(o), Advances(order[p], o, page[p])
    PROVE  PaymentsInv' /\ JobsInv' /\ order' \in [Payments -> Order]
<1>1. order \in [Payments -> Order] /\ payment \in [Payments -> Row]
  BY DEF IndInv, TypeOK
<1>2. order' \in [Payments -> Order]
  BY <1>1
<1>3. order'[p] = o /\ \A q \in Payments : q # p => order'[q] = order[q]
  BY <1>1
<1>4. \A q \in Payments : Advances(order[q], order'[q], page[q])
  <2>1. \A q \in Payments : Advances(order[q], order[q], page[q])
    BY <1>1 DEF Advances, Order
  <2> QED
    BY <1>3, <2>1
<1>5. PaymentsInv'
  <2> SUFFICES ASSUME NEW q \in Payments
               PROVE  RowOK(q)' /\ OrderOK(order'[q])
    BY DEF PaymentsInv, OrderOK
  <2>1. RecordOK(payment[q], order'[q], page[q])
    BY <1>1, <1>2, <1>4, PaymentFacts, RecordSurvives
  <2>2. RowOK(q) /\ OrderOK(order[q])
    BY PaymentFacts
  <2>3. RowOK(q)'
    BY <1>3, <2>1, <2>2 DEF RowOK
  <2> QED
    BY <1>3, <2>2, <2>3
<1>6. ASSUME NEW v \in Workers
      PROVE  LocalOK(job[v])' /\ HeldOK(job[v])'
  <2>1. LocalOK(job[v]) /\ HeldOK(job[v]) /\ job[v].row \in Row
    BY JobFacts
  <2>2. job[v].pc # "idle" => job[v].pay \in Payments
    BY <2>1 DEF LocalOK
  <2>3. HeldOK(job[v])'
    BY <1>1, <1>2, <1>4, <2>1, <2>2, RecordSurvives DEF HeldOK
  <2>4. LocalOK(job[v])'
    BY <1>4, <2>1, <2>2 DEF LocalOK, Advances
  <2> QED
    BY <2>3, <2>4
<1>7. Exclusive'
  BY DEF IndInv, JobsInv, Exclusive
<1> QED
  BY <1>2, <1>5, <1>6, <1>7 DEF JobsInv

\* An order moves on behind the server's back.
LEMMA GatewayMovesInv ==
    ASSUME IndInv, NEW p \in Payments, NEW o \in Order, payment[p] # NoRow,
           GatewayMoves(p, o), OrderOK(o), Advances(order[p], o, page[p])
    PROVE  IndInv'
<1>1. PaymentsInv' /\ JobsInv' /\ order' \in [Payments -> Order]
  BY OrderMoves DEF GatewayMoves
<1>2. TypeOK'
  BY <1>1 DEF IndInv, TypeOK, GatewayMoves, links, totals, ghosts
<1>3. OpsInv'
  BY DEF IndInv, OpsInv, GatewayMoves
<1> QED
  BY <1>1, <1>2, <1>3 DEF IndInv

\* An order closed by the payer's bank, by time or by nobody.
LEMMA ClosedTypes ==
    ASSUME NEW s \in OrderStatus \ MoneyOrders
    PROVE  Closed(s) \in Order /\ OrderOK(Closed(s)) /\ Closed(s).status = s
           /\ Closed(s).cap = 0 /\ Closed(s).ref = 0
BY DEF Closed, Order, OrderOK

\* The payer starts, pays, or is declined.
LEMMA PayerInv ==
    ASSUME IndInv, NEW p \in Payments, PayerStarts(p) \/ PayerPays(p) \/ PayerDeclined(p)
    PROVE  IndInv'
<1>1. /\ order[p] \in Order /\ OrderOK(order[p]) /\ payment[p] \in Row /\ RowOK(p)
      /\ page[p] = "open"
  BY PaymentFacts DEF PayerStarts, PayerPays, PayerDeclined
<1>2. payment[p] # NoRow /\ payment[p].link \in Links
  BY <1>1 DEF RowOK
<1>3. CASE PayerStarts(p)
  <2>1. "PENDING" \in OrderStatus \ MoneyOrders
    BY DEF OrderStatus, MoneyOrders
  <2>2. Advances(order[p], Closed("PENDING"), page[p])
    BY <1>1, <1>3, <2>1, ClosedTypes
       DEF PayerStarts, Advances, OrderOK, MoneyOrders, ClosedOrders
  <2> QED
    BY <1>2, <1>3, <2>1, <2>2, ClosedTypes, GatewayMovesInv DEF PayerStarts
<1>4. CASE PayerDeclined(p)
  <2>1. "FAILED" \in OrderStatus \ MoneyOrders
    BY DEF OrderStatus, MoneyOrders
  <2>2. Advances(order[p], Closed("FAILED"), page[p])
    BY <1>1, <1>4, <2>1, ClosedTypes
       DEF PayerDeclined, Advances, OrderOK, MoneyOrders, ClosedOrders
  <2> QED
    BY <1>2, <1>4, <2>1, <2>2, ClosedTypes, GatewayMovesInv DEF PayerDeclined
<1>5. CASE PayerPays(p)
  <2> DEFINE o == Paid(terms[payment[p].link].mode, payment[p].amount)
  <2>1. payment[p].amount \in Nat
    BY <1>1 DEF Row
  <2>2. /\ o \in Order /\ o.cap \in Nat /\ o.ref = 0
        /\ \/ o.status = "AUTHORIZED" /\ o.cap = 0
           \/ o.status = "CAPTURED"
    BY <2>1 DEF Paid, Order, OrderStatus
  <2> HIDE DEF o
  <2>3. OrderOK(o) /\ Advances(order[p], o, page[p])
    BY <1>1, <1>5, <2>2 DEF PayerPays, Advances, OrderOK, MoneyOrders, ClosedOrders, Order
  <2>4. GatewayMoves(p, o)
    BY <1>5 DEF PayerPays, o
  <2> QED
    BY <1>2, <2>2, <2>3, <2>4, GatewayMovesInv
<1> QED
  BY <1>3, <1>4, <1>5

\* The issuer releases an authorization.
LEMMA HoldLapsesInv ==
    ASSUME IndInv, NEW p \in Payments, HoldLapses(p) PROVE IndInv'
<1>1. order[p] \in Order /\ OrderOK(order[p]) /\ RowOK(p) /\ order[p].status = "AUTHORIZED"
  BY PaymentFacts DEF HoldLapses
<1>2. payment[p] # NoRow
  BY <1>1 DEF RowOK, NoOrder
<1>3. "EXPIRED" \in OrderStatus \ MoneyOrders
  BY DEF OrderStatus, MoneyOrders
<1>4. Advances(order[p], Closed("EXPIRED"), page[p])
  BY <1>1, <1>3, ClosedTypes DEF Advances, OrderOK, MoneyOrders, ClosedOrders
<1> QED
  BY <1>2, <1>3, <1>4, ClosedTypes, GatewayMovesInv DEF HoldLapses

\* An operation made in Merchant Administration.
LEMMA MerchantAdminInv ==
    ASSUME IndInv, NEW p \in Payments, MerchantAdmin(p) PROVE IndInv'
<1>1. order[p] \in Order /\ OrderOK(order[p]) /\ RowOK(p)
  BY PaymentFacts
<1>2. order[p].auth \in Nat
  BY <1>1 DEF Order
<1>3. PICK kind \in AdminKinds, amt \in 1 .. order[p].auth :
        Accepts(order[p], kind, amt) /\ GatewayMoves(p, After(order[p], kind, amt))
  BY DEF MerchantAdmin
<1>4. kind \in Kinds /\ amt \in Nat /\ amt > 0
  BY <1>2, OutsideChoices
<1>5. After(order[p], kind, amt) \in Order
  BY <1>1, <1>4, AfterTypes
<1>6. /\ OrderOK(After(order[p], kind, amt))
      /\ Advances(order[p], After(order[p], kind, amt), page[p])
  BY <1>1, <1>3, <1>4, AfterAdvances
<1>7. payment[p] # NoRow
  BY <1>1, <1>2 DEF RowOK, NoOrder
<1> QED
  BY <1>3, <1>5, <1>6, <1>7, GatewayMovesInv

\* The hosted page's session ends.
LEMMA PageTimesOutInv ==
    ASSUME IndInv, NEW p \in Payments, PageTimesOut(p) PROVE IndInv'
<1>1. /\ payment[p] # NoRow /\ page' = [page EXCEPT ![p] = "expired"]
      /\ \A w \in Workers : ~(job[w].pay = p /\ job[w].kind = "checkout")
      /\ UNCHANGED <<payment, order, job, ops>>
  BY DEF PageTimesOut
<1>2. /\ page' \in [Payments -> {"none", "open", "expired"}]
      /\ page'[p] = "expired" /\ \A q \in Payments : q # p => page'[q] = page[q]
  BY <1>1 DEF IndInv, TypeOK
<1>3. TypeOK'
  BY <1>2 DEF IndInv, TypeOK, PageTimesOut, links, totals, ghosts
<1>4. PaymentsInv'
  BY <1>1, <1>2 DEF IndInv, PaymentsInv, RowOK, RecordOK
<1>5. ASSUME NEW w \in Workers
      PROVE  LocalOK(job[w])' /\ HeldOK(job[w])'
  <2>1. LocalOK(job[w]) /\ HeldOK(job[w])
    BY JobFacts
  <2>2. job[w].pc # "idle" => job[w].pay \in Payments
    BY <2>1 DEF LocalOK
  <2>3. HeldOK(job[w])'
    BY <1>1, <1>2, <2>1, <2>2 DEF HeldOK, RecordOK
  <2>4. job[w].old => job[w].pc # "idle"
    BY <2>1, IdleTypes DEF LocalOK, IdleJob
  <2>5. LocalOK(job[w])'
    BY <1>1, <1>2, <2>1, <2>2, <2>4 DEF LocalOK
  <2> QED
    BY <2>3, <2>5
<1>6. Exclusive' /\ OpsInv'
  BY <1>1 DEF IndInv, JobsInv, Exclusive, OpsInv
<1> QED
  BY <1>3, <1>4, <1>5, <1>6, <1>1 DEF IndInv, JobsInv

\* What process w goes on with after a step that needs nothing new of it.
LEMMA OnwardLocals ==
    ASSUME IndInv, NEW w \in Workers, ~At(w, "idle"),
           job[w].pc \notin {"open", "insert"},
           Finish(w) \/ \E pc \in {"totals", "notify", "decide", "save", "record"} : Goto(w, pc),
           Goto(w, "decide") \/ Goto(w, "record") => job[w].kind \in Kinds
    PROVE  \E j \in Job : /\ job' = [job EXCEPT ![w] = j]
                          /\ LocalOK(j) /\ Alone(w, j)
                          /\ j = IdleJob \/ (j.row = job[w].row /\ j.pay = job[w].pay)
<1>1. CASE Finish(w)
  BY <1>1, IdleTypes, KeepsAlone DEF Finish
<1>2. ASSUME NEW pc \in {"totals", "notify", "decide", "save", "record"}, Goto(w, pc)
      PROVE  \E j \in Job : /\ job' = [job EXCEPT ![w] = j]
                            /\ LocalOK(j) /\ Alone(w, j)
                            /\ j = IdleJob \/ (j.row = job[w].row /\ j.pay = job[w].pay)
  <2> DEFINE j == [job[w] EXCEPT !.pc = pc]
  <2>1. job' = [job EXCEPT ![w] = j]
    BY <1>2 DEF Goto
  <2>2. job[w] \in Job /\ LocalOK(job[w])
    BY JobFacts
  <2>3. /\ j \in Job /\ j.pc = pc /\ j.kind = job[w].kind /\ j.pay = job[w].pay
        /\ j.row = job[w].row /\ j.old = job[w].old
    BY <2>2 DEF Job, Steps
  <2>4. pc \in {"decide", "record"} => job[w].kind \in Kinds
    BY <1>2
  <2> HIDE DEF j
  <2>5. LocalOK(j)
    BY <2>2, <2>3, <2>4 DEF LocalOK, At
  <2>6. Alone(w, j)
    BY <2>3, KeepsAlone
  <2> QED
    BY <2>1, <2>3, <2>5, <2>6
<1> QED
  BY <1>1, <1>2

\* Process w writes the row it holds, of a payment already inserted.
LEMMA RowWrite ==
    ASSUME IndInv, NEW w \in Workers, ~At(w, "idle"),
           job[w].pc \notin {"open", "insert"},
           payment' = [payment EXCEPT ![job[w].pay] = job[w].row],
           UNCHANGED <<order, page>>,
           Finish(w) \/ \E pc \in {"totals", "notify", "decide", "save", "record"} : Goto(w, pc),
           Goto(w, "decide") \/ Goto(w, "record") => job[w].kind \in Kinds
    PROVE  /\ JobsInv' /\ PaymentsInv'
           /\ job' \in [Workers -> Job] /\ payment' \in [Payments -> Row]
<1> DEFINE p   == job[w].pay
           row == job[w].row
<1>1. /\ job[w] \in Job /\ LocalOK(job[w]) /\ row \in Row /\ p \in Payments
      /\ RecordOK(row, order[p], page[p])
  BY JobFacts
<1>2. payment \in [Payments -> Row] /\ order \in [Payments -> Order]
  BY DEF IndInv, TypeOK
<1>3. /\ payment' \in [Payments -> Row]
      /\ payment'[p] = row /\ \A q \in Payments : q # p => payment'[q] = payment[q]
  BY <1>1, <1>2
<1>4. /\ row.status # "none" /\ row.link \in Links /\ payment[p] # NoRow
      /\ row.link = payment[p].link
  BY <1>1 DEF LocalOK, At
<1>5. row # NoRow
  BY <1>4 DEF NoRow, NewRow
<1>6. ASSUME NEW q \in Payments
      PROVE  Kept(q)
  <2>1. Advances(order[q], order'[q], page[q])
    BY <1>2 DEF Advances, Order
  <2> QED
    BY <1>3, <1>4, <1>5, <2>1 DEF Kept
<1>7. PaymentsInv'
  <2> SUFFICES ASSUME NEW q \in Payments
               PROVE  RowOK(q)' /\ OrderOK(order'[q])
    BY DEF PaymentsInv, OrderOK
  <2>1. RowOK(q) /\ OrderOK(order[q])
    BY PaymentFacts
  <2>2. CASE q = p
    BY <1>1, <1>3, <1>4, <1>5, <2>1, <2>2 DEF RowOK
  <2>3. CASE q # p
    BY <1>3, <2>1, <2>3 DEF RowOK
  <2> QED
    BY <2>1, <2>2, <2>3
<1>8. PICK j \in Job : /\ job' = [job EXCEPT ![w] = j]
                       /\ LocalOK(j) /\ Alone(w, j)
                       /\ j = IdleJob \/ (j.row = row /\ j.pay = p)
  BY OnwardLocals
<1>9. j.pc # "idle" => RecordOK(j.row, order'[j.pay], page[j.pay])
  BY <1>1, <1>8 DEF IdleJob
<1>10. JobsInv' /\ job' \in [Workers -> Job]
  BY <1>2, <1>6, <1>8, <1>9, JobsStep
<1> QED
  BY <1>3, <1>7, <1>10

\* Process w goes on, and payments, orders and pages stay as they are.
LEMMA MovesOn ==
    ASSUME IndInv, NEW w \in Workers, ~At(w, "idle"),
           job[w].pc \notin {"open", "insert"},
           UNCHANGED <<payment, order, page>>,
           Finish(w) \/ \E pc \in {"totals", "notify", "decide", "save", "record"} : Goto(w, pc),
           Goto(w, "decide") \/ Goto(w, "record") => job[w].kind \in Kinds
    PROVE  JobsInv' /\ PaymentsInv' /\ job' \in [Workers -> Job]
<1>1. PICK j \in Job : /\ job' = [job EXCEPT ![w] = j]
                       /\ LocalOK(j) /\ Alone(w, j)
                       /\ j = IdleJob \/ (j.row = job[w].row /\ j.pay = job[w].pay)
  BY OnwardLocals
<1>2. j.pc # "idle" => RecordOK(j.row, order[j.pay], page[j.pay])
  BY <1>1, JobFacts DEF IdleJob
<1>3. order \in [Payments -> Order]
  BY DEF IndInv, TypeOK
<1>4. JobsInv' /\ job' \in [Workers -> Job]
  BY <1>1, <1>2, <1>3, UnchangedKept, JobsStep
<1>5. PaymentsInv'
  BY DEF IndInv, PaymentsInv, RowOK
<1> QED
  BY <1>4, <1>5

\* The attempt's row is inserted.
LEMMA CreatePaymentInv == ASSUME IndInv, NEW w \in Workers, CreatePayment(w) PROVE IndInv'
<1>1. CASE Fault /\ Finish(w) /\ UNCHANGED payment
  BY <1>1, FinishStep DEF CreatePayment
<1>2. CASE /\ payment' = [payment EXCEPT ![job[w].pay] = job[w].row]
           /\ Goto(w, "count") /\ UNCHANGED faults
  <2> DEFINE p   == job[w].pay
             row == job[w].row
             j   == [job[w] EXCEPT !.pc = "count"]
  <2>1. /\ At(w, "insert") /\ ~At(w, "idle") /\ job' = [job EXCEPT ![w] = j]
        /\ UNCHANGED <<links, totals, gateway, ops, hooks, ghosts, faults>>
    BY <1>2 DEF CreatePayment, At, Goto
  <2>2. /\ job[w] \in Job /\ LocalOK(job[w]) /\ row \in Row /\ p \in Payments
        /\ RecordOK(row, order[p], page[p])
    BY <2>1, JobFacts
  <2>3. /\ payment[p] = NoRow /\ page[p] = "none" /\ row.status = "initiated"
        /\ row.link \in Links /\ job[w].kind = "checkout"
        /\ \A v \in Workers \ {w} : job[v].pay # p
    BY <2>1, <2>2 DEF LocalOK, At, IndInv, JobsInv, Exclusive
  <2>4. /\ payment \in [Payments -> Row] /\ order \in [Payments -> Order]
        /\ job \in [Workers -> Job]
    BY DEF IndInv, TypeOK
  <2>5. /\ payment' \in [Payments -> Row] /\ payment'[p] = row
        /\ \A q \in Payments : q # p => payment'[q] = payment[q]
    BY <1>2, <2>2, <2>4
  <2>6. row # NoRow
    BY <2>3 DEF NoRow, NewRow
  <2>7. /\ j \in Job /\ j.pc = "count" /\ j.kind = job[w].kind /\ j.pay = p /\ j.row = row
        /\ j.old = job[w].old
    BY <2>2 DEF Job, Steps
  <2> HIDE DEF j
  <2>8. /\ job' \in [Workers -> Job] /\ job'[w] = j
        /\ \A v \in Workers : v # w => job'[v] = job[v]
    BY <2>1, <2>4, <2>7
  <2>9. order' = order /\ page' = page
    BY <2>1 DEF gateway
  <2>10. PaymentsInv'
    <3> SUFFICES ASSUME NEW q \in Payments
                 PROVE  RowOK(q)' /\ OrderOK(order'[q])
      BY DEF PaymentsInv, OrderOK
    <3>1. RowOK(q) /\ OrderOK(order[q])
      BY PaymentFacts
    <3>2. CASE q = p
      BY <2>2, <2>3, <2>5, <2>6, <2>9, <3>1, <3>2 DEF RowOK
    <3>3. CASE q # p
      BY <2>5, <2>9, <3>1, <3>3 DEF RowOK
    <3> QED
      BY <2>9, <3>1, <3>2, <3>3
  <2>11. ASSUME NEW v \in Workers
         PROVE  LocalOK(job[v])' /\ HeldOK(job[v])'
    <3>1. CASE v = w
      BY <2>2, <2>3, <2>5, <2>6, <2>7, <2>8, <2>9, <3>1 DEF LocalOK, HeldOK
    <3>2. CASE v # w
      <4>1. LocalOK(job[v]) /\ HeldOK(job[v]) /\ job[v].pay # p /\ job'[v] = job[v]
        BY <2>3, <2>8, <3>2, JobFacts
      <4>2. job[v].pc # "idle" => job[v].pay \in Payments /\ payment'[job[v].pay] = payment[job[v].pay]
        BY <2>5, <4>1 DEF LocalOK
      <4> QED
        BY <2>9, <4>1, <4>2 DEF LocalOK, HeldOK
    <3> QED
      BY <3>1, <3>2
  <2>12. Exclusive'
    BY <2>7, <2>8 DEF IndInv, JobsInv, Exclusive
  <2>13. TypeOK' /\ OpsInv'
    BY <2>1, <2>5, <2>8 DEF IndInv, TypeOK, OpsInv, links, totals, gateway, ghosts
  <2> QED
    BY <2>10, <2>11, <2>12, <2>13 DEF IndInv, JobsInv
<1> QED
  BY <1>1, <1>2 DEF CreatePayment

\* The link's use is counted, and the payer goes to the page.
LEMMA CountUseInv == ASSUME IndInv, NEW w \in Workers, CountUse(w) PROVE IndInv'
<1> DEFINE p == job[w].pay
<1>1. /\ At(w, "count") /\ ~At(w, "idle") /\ Finish(w)
      /\ page' = [page EXCEPT ![p] = "open"]
      /\ UNCHANGED <<terms, linkStatus, lapsed, totals, payment, order, txns, ops, hooks, ghosts>>
      /\ \/ usedCount' = [usedCount EXCEPT ![job[w].row.link] = @ + 1] /\ UNCHANGED faults
         \/ Fault /\ UNCHANGED usedCount
  BY DEF CountUse, At
<1>2. /\ job[w] \in Job /\ LocalOK(job[w]) /\ job[w].row.link \in Links /\ p \in Payments
      /\ payment[p] # NoRow /\ page[p] # "expired"
  BY <1>1, JobFacts DEF LocalOK, At
<1>3. /\ page' \in [Payments -> {"none", "open", "expired"}]
      /\ page'[p] = "open" /\ \A q \in Payments : q # p => page'[q] = page[q]
  BY <1>1, <1>2 DEF IndInv, TypeOK
<1>4. job \in [Workers -> Job] /\ usedCount \in [Links -> Nat]
  BY DEF IndInv, TypeOK
<1>5. /\ job' \in [Workers -> Job] /\ job'[w] = IdleJob
      /\ \A v \in Workers : v # w => job'[v] = job[v]
  BY <1>1, <1>4, IdleTypes DEF Finish
<1>6. usedCount' \in [Links -> Nat] /\ faults' \in 0 .. MaxFaults
  BY <1>1, <1>2, <1>4, FaultTypes DEF IndInv, TypeOK
<1>7. TypeOK' /\ OpsInv'
  BY <1>1, <1>3, <1>5, <1>6 DEF IndInv, TypeOK, OpsInv, totals, ghosts
<1>8. PaymentsInv'
  BY <1>1, <1>2, <1>3 DEF IndInv, PaymentsInv, RowOK, RecordOK
<1>9. ASSUME NEW v \in Workers
      PROVE  LocalOK(job[v])' /\ HeldOK(job[v])'
  <2>1. CASE v = w
    BY <1>5, <2>1 DEF LocalOK, HeldOK, IdleJob
  <2>2. CASE v # w
    <3>1. LocalOK(job[v]) /\ HeldOK(job[v]) /\ job'[v] = job[v]
      BY <1>5, <2>2, JobFacts
    <3>2. job[v].pc # "idle" => job[v].pay \in Payments
      BY <3>1 DEF LocalOK
    <3>3. job[v].old => job[v].pc # "idle"
      BY <3>1 DEF LocalOK, IdleJob
    <3>4. HeldOK(job[v])'
      BY <1>1, <1>2, <1>3, <3>1, <3>2 DEF HeldOK, RecordOK
    <3>5. LocalOK(job[v])'
      BY <1>1, <1>2, <1>3, <3>1, <3>2, <3>3 DEF LocalOK
    <3> QED
      BY <3>4, <3>5
  <2> QED
    BY <2>1, <2>2
<1>10. Exclusive'
  <2>1. IdleJob.pc = "idle" /\ IdleJob.pay \notin Payments
    BY AbsentValues DEF IdleJob
  <2>2. \A v \in Workers : job[v].pc \in {"open", "insert"} => job[v].pay \in Payments
    BY DEF IndInv, JobsInv, LocalOK
  <2> QED
    BY <1>5, <2>1, <2>2 DEF IndInv, JobsInv, Exclusive
<1> QED
  BY <1>7, <1>8, <1>9, <1>10 DEF IndInv, JobsInv

\* reconcileOne writes the attempt it gave up.
LEMMA AbandonInv == ASSUME IndInv, NEW w \in Workers, Abandon(w) PROVE IndInv'
<1>1. /\ At(w, "abandon") /\ ~At(w, "idle") /\ Finish(w)
      /\ UNCHANGED <<links, totals, gateway, ops, hooks, ghosts>>
  BY DEF Abandon, At
<1>2. CASE Fault /\ UNCHANGED payment
  BY <1>1, <1>2, FinishStep
<1>3. CASE payment' = [payment EXCEPT ![job[w].pay] = job[w].row] /\ UNCHANGED faults
  <2>1. ~Goto(w, "decide") /\ ~Goto(w, "record")
    <3>1. job' = [job EXCEPT ![w] = IdleJob] /\ job \in [Workers -> Job] /\ IdleJob.pc = "idle"
      BY <1>1 DEF Finish, IndInv, TypeOK, IdleJob
    <3>2. job[w] \in Job
      BY <3>1
    <3> QED
      BY <3>1, <3>2 DEF Goto, Job
  <2>2. /\ JobsInv' /\ PaymentsInv'
        /\ job' \in [Workers -> Job] /\ payment' \in [Payments -> Row]
    BY <1>1, <1>3, <2>1, RowWrite DEF At, gateway
  <2> QED
    BY <1>1, <1>3, <2>2 DEF IndInv, TypeOK, OpsInv, links, totals, gateway, ghosts
<1> QED
  BY <1>2, <1>3 DEF Abandon

\* A process goes to at most one step.
LEMMA GotoOne ==
    ASSUME IndInv, NEW w \in Workers, NEW pc, Goto(w, pc)
    PROVE  job'[w].pc = pc
BY DEF Goto, IndInv, TypeOK, Job

\* applyOrderOutcome writes the row.
LEMMA SaveInv == ASSUME IndInv, NEW w \in Workers, Save(w) PROVE IndInv'
<1>1. /\ At(w, "save") /\ ~At(w, "idle")
      /\ UNCHANGED <<links, totals, gateway, ops, hooks, ghosts>>
  BY DEF Save, At
<1>2. CASE Fault /\ Return(w) /\ UNCHANGED payment
  BY <1>1, <1>2, ReturnStep DEF At
<1>3. CASE /\ payment' = [payment EXCEPT ![job[w].pay] = job[w].row]
           /\ Goto(w, "totals") /\ UNCHANGED faults
  <2>1. ~Goto(w, "decide") /\ ~Goto(w, "record")
    BY <1>3, GotoOne
  <2>2. /\ JobsInv' /\ PaymentsInv'
        /\ job' \in [Workers -> Job] /\ payment' \in [Payments -> Row]
    BY <1>1, <1>3, <2>1, RowWrite DEF At, gateway
  <2> QED
    BY <1>1, <1>3, <2>2 DEF IndInv, TypeOK, OpsInv, links, totals, gateway, ghosts
<1> QED
  BY <1>2, <1>3 DEF Save

\* RecomputeLinkTotals leaves the counters counters and the status a status.
LEMMA RecomputeTypes ==
    ASSUME IndInv, NEW l \in Links, Recompute(l)
    PROVE  /\ paidCount' \in [Links -> Nat] /\ DOMAIN paidMinor' = Links
           /\ linkStatus' \in [Links -> LinkStatus \cup {"none"}]
<1>1. /\ paidCount \in [Links -> Nat] /\ DOMAIN paidMinor = Links
      /\ linkStatus \in [Links -> LinkStatus \cup {"none"}] /\ DOMAIN payment = Payments
  BY DEF IndInv, TypeOK
<1>2. CommittedOn(payment, l) \in Nat
  <2> DEFINE S == {p \in DOMAIN payment : payment[p].link = l /\ payment[p].status \in Committed}
  <2>1. S \in SUBSET Payments
    BY <1>1
  <2>2. IsFiniteSet(S)
    BY <2>1, FinitePayments, FS_Subset
  <2> QED
    BY <2>2, FS_CardinalityType DEF CommittedOn
<1>3. ASSUME NEW st \in LinkStatus \cup {"none"}, NEW t, NEW c, NEW m
      PROVE  RecomputedStatus(t, st, c, m) \in LinkStatus \cup {"none"}
  BY DEF RecomputedStatus, LinkStatus
<1> QED
  BY <1>1, <1>2, <1>3 DEF Recompute

\* applyOrderOutcome recomputes the link's totals.
LEMMA TotalsInv == ASSUME IndInv, NEW w \in Workers, Totals(w) PROVE IndInv'
<1> DEFINE l == job[w].row.link
<1>1. /\ At(w, "totals") /\ ~At(w, "idle") /\ Goto(w, "notify")
      /\ UNCHANGED <<terms, usedCount, lapsed, payment, gateway, ops, hooks, untold>>
      /\ \/ Recompute(l) /\ lost' = lost \ {l} /\ UNCHANGED faults
         \/ Fault /\ lost' = lost \cup {l} /\ UNCHANGED <<totals, linkStatus>>
  BY DEF Totals, At
<1>2. l \in Links
  BY <1>1, JobFacts DEF LocalOK, At
<1>3. JobsInv' /\ PaymentsInv' /\ job' \in [Workers -> Job]
  <2>1. ~Goto(w, "decide") /\ ~Goto(w, "record")
    BY <1>1, GotoOne
  <2> QED
    BY <1>1, <2>1, MovesOn DEF At, gateway
<1>4. /\ paidCount' \in [Links -> Nat] /\ DOMAIN paidMinor' = Links
      /\ linkStatus' \in [Links -> LinkStatus \cup {"none"}]
      /\ lost' \subseteq Links /\ faults' \in 0 .. MaxFaults
  <2>1. CASE Recompute(l) /\ lost' = lost \ {l} /\ UNCHANGED faults
    BY <1>2, <2>1, RecomputeTypes DEF IndInv, TypeOK
  <2>2. CASE Fault /\ lost' = lost \cup {l} /\ UNCHANGED <<totals, linkStatus>>
    BY <1>2, <2>2, FaultTypes DEF IndInv, TypeOK, totals
  <2> QED
    BY <1>1, <2>1, <2>2
<1>5. TypeOK' /\ OpsInv'
  BY <1>1, <1>3, <1>4 DEF IndInv, TypeOK, OpsInv, gateway
<1> QED
  BY <1>3, <1>5 DEF IndInv

\* applyOrderOutcome queues the notification.
LEMMA NotifyInv == ASSUME IndInv, NEW w \in Workers, Notify(w) PROVE IndInv'
<1>1. /\ At(w, "notify") /\ ~At(w, "idle") /\ Return(w)
      /\ UNCHANGED <<links, totals, payment, gateway, ops, lost>>
  BY DEF Notify, At
<1>2. job[w].pay \in Payments
  BY <1>1, JobFacts
<1>3. hooks' \subseteq Payments \X Events /\ untold' \subseteq Payments /\ faults' \in 0 .. MaxFaults
  <2>1. hooks \subseteq Payments \X Events /\ untold \subseteq Payments /\ faults \in 0 .. MaxFaults
    BY DEF IndInv, TypeOK
  <2>2. \A s : EventFor(s) \subseteq Events
    BY DEF EventFor, Events
  <2>3. UNCHANGED <<faults, untold>> \/ (Fault /\ untold' = untold \cup {job[w].pay})
    BY DEF Notify
  <2>4. UNCHANGED hooks \/ QueueWebhook(job[w].pay, job[w].row)
    BY DEF Notify
  <2>5. hooks' \subseteq Payments \X Events
    BY <1>2, <2>1, <2>2, <2>4 DEF QueueWebhook
  <2>6. untold' \subseteq Payments /\ faults' \in 0 .. MaxFaults
    BY <1>2, <2>1, <2>3, FaultTypes DEF IndInv
  <2> QED
    BY <2>5, <2>6
<1>4. JobsInv' /\ PaymentsInv' /\ job' \in [Workers -> Job]
  <2>1. CASE Performing(w) /\ ~job[w].ok
    <3>1. Goto(w, "decide") /\ job[w].kind \in Kinds
      BY <1>1, <2>1 DEF Return, Performing
    <3> QED
      BY <1>1, <3>1, MovesOn DEF At, gateway
  <2>2. CASE ~(Performing(w) /\ ~job[w].ok)
    <3>1. Finish(w)
      BY <1>1, <2>2 DEF Return
    <3>2. job'[w].pc = "idle"
      BY <3>1 DEF Finish, IdleJob, IndInv, TypeOK
    <3>3. ~Goto(w, "decide") /\ ~Goto(w, "record")
      BY <3>2, GotoOne
    <3> QED
      BY <1>1, <3>1, <3>3, MovesOn DEF At, gateway
  <2> QED
    BY <2>1, <2>2
<1>5. TypeOK' /\ OpsInv'
  BY <1>1, <1>3, <1>4 DEF IndInv, TypeOK, OpsInv, links, totals, gateway
<1> QED
  BY <1>4, <1>5 DEF IndInv

\* The gateway carries an operation out, with or without its answer arriving.
LEMMA SendOkInv == ASSUME IndInv, NEW w \in Workers, SendOk(w) PROVE IndInv'
<1> DEFINE p == job[w].pay
           o == After(order[p], job[w].kind, job[w].amt)
           t == [id |-> job[w].txn, type |-> job[w].kind, amt |-> job[w].amt]
           m == Mirror(job[w].row, o, FALSE)
           k == [job[w] EXCEPT !.pc = "record", !.ok = TRUE, !.row = m]
           j == [job[w] EXCEPT !.pc = "record"]
<1>1. /\ At(w, "send") /\ ~At(w, "idle") /\ Accepts(order[p], job[w].kind, job[w].amt)
      /\ order' = [order EXCEPT ![p] = o]
      /\ txns' = [txns EXCEPT ![p] = @ \cup {t}]
      /\ UNCHANGED <<links, totals, payment, page, ops, hooks, ghosts>>
  BY DEF SendOk, At, Accepted
<1>2. /\ job[w] \in Job /\ LocalOK(job[w]) /\ job[w].row \in Row /\ p \in Payments
      /\ order[p] \in Order /\ OrderOK(order[p])
      /\ RecordOK(job[w].row, order[p], page[p])
  BY <1>1, JobFacts
<1>3. /\ job[w].kind \in Kinds /\ job[w].amt \in Nat /\ job[w].txn \in Nat
      /\ job[w].kind = "void" \/ job[w].amt > 0
      /\ payment[p] # NoRow /\ job[w].row.link = payment[p].link
  BY <1>1, <1>2 DEF LocalOK, At, Job
<1>4. o \in Order /\ o.status \in Recognised
  BY <1>2, <1>3, AfterTypes
<1>5. OrderOK(o) /\ Advances(order[p], o, page[p])
  BY <1>1, <1>2, <1>3, AfterAdvances
<1> HIDE DEF o
<1>6. RecordOK(job[w].row, o, page[p])
  BY <1>2, <1>4, <1>5, RecordSurvives
<1>7. /\ m \in Row /\ m.link = job[w].row.link /\ m.status # "none"
      /\ RecordOK(m, o, page[p])
  BY <1>2, <1>4, <1>5, <1>6, MirrorTypes, MirrorRecord
<1> HIDE DEF m
<1>8. /\ order \in [Payments -> Order] /\ payment \in [Payments -> Row]
      /\ txns \in [Payments -> SUBSET Txn]
  BY DEF IndInv, TypeOK
<1>9. /\ order' \in [Payments -> Order] /\ order'[p] = o
      /\ \A q \in Payments : q # p => order'[q] = order[q]
  BY <1>1, <1>2, <1>4, <1>8
<1>10. ASSUME NEW q \in Payments
       PROVE  Kept(q)
  <2>1. Advances(order[q], order[q], page[q])
    BY <1>8 DEF Advances, Order
  <2> QED
    BY <1>1, <1>5, <1>9, <2>1 DEF Kept
<1>11. PaymentsInv'
  <2> SUFFICES ASSUME NEW q \in Payments
               PROVE  RowOK(q)' /\ OrderOK(order'[q])
    BY DEF PaymentsInv, OrderOK
  <2>1. RowOK(q) /\ OrderOK(order[q]) /\ payment[q] \in Row /\ order[q] \in Order
    BY PaymentFacts
  <2>2. RecordOK(payment[q], order'[q], page[q])
    BY <1>9, <1>10, <2>1, RecordSurvives DEF RowOK, Kept
  <2> QED
    BY <1>1, <1>3, <1>5, <1>9, <2>1, <2>2 DEF RowOK
<1>12. k \in Job /\ k.pc = "record" /\ k.kind = job[w].kind /\ k.pay = p /\ k.row = m
       /\ k.old = job[w].old
  BY <1>2, <1>7 DEF Job, Steps
<1>13. j \in Job /\ j.pc = "record" /\ j.kind = job[w].kind /\ j.pay = p /\ j.row = job[w].row
       /\ j.old = job[w].old
  BY <1>2 DEF Job, Steps
<1>14. \/ job' = [job EXCEPT ![w] = k] /\ faults' = faults
       \/ job' = [job EXCEPT ![w] = j] /\ Fault
  <2>1. job \in [Workers -> Job]
    BY DEF IndInv, TypeOK
  <2> QED
    BY <2>1 DEF SendOk, Goto, k, j, m, o
<1> HIDE DEF k, j
<1>15. LocalOK(k) /\ LocalOK(j) /\ Alone(w, k) /\ Alone(w, j)
  BY <1>1, <1>2, <1>3, <1>7, <1>12, <1>13, KeepsAlone DEF LocalOK, At
<1>16. JobsInv' /\ job' \in [Workers -> Job]
  <2>1. CASE job' = [job EXCEPT ![w] = k]
    BY <1>1, <1>7, <1>9, <1>10, <1>12, <1>15, <2>1, JobsStep
  <2>2. CASE job' = [job EXCEPT ![w] = j]
    BY <1>1, <1>6, <1>9, <1>10, <1>13, <1>15, <2>2, JobsStep
  <2> QED
    BY <1>14, <2>1, <2>2
<1>17. txns' \in [Payments -> SUBSET Txn] /\ faults' \in 0 .. MaxFaults
  <2>1. t \in Txn
    BY <1>3 DEF Txn
  <2>2. faults' \in 0 .. MaxFaults
    BY <1>14, FaultTypes DEF IndInv, TypeOK
  <2> HIDE DEF t
  <2> QED
    BY <1>1, <1>2, <1>8, <2>1, <2>2
<1>18. TypeOK' /\ OpsInv'
  BY <1>1, <1>9, <1>16, <1>17 DEF IndInv, TypeOK, OpsInv, links, totals, ghosts
<1> QED
  BY <1>11, <1>16, <1>18 DEF IndInv

\* perform writes the audit row.
LEMMA RecordInv == ASSUME IndInv, NEW w \in Workers, Record(w) PROVE IndInv'
<1> DEFINE op == [txn |-> job[w].txn, type |-> job[w].kind, amt |-> job[w].amt,
                  status |-> Outcome(w)]
           p  == job[w].pay
           k  == [job[w] EXCEPT !.pc = "save", !.amt = 0, !.txn = 0]
<1>1. /\ At(w, "record") /\ ~At(w, "idle")
      /\ UNCHANGED <<links, totals, payment, gateway, hooks, ghosts>>
      /\ \/ CreatePaymentOperation(p, op) /\ UNCHANGED faults
         \/ Fault /\ UNCHANGED ops
  BY DEF Record, At
<1>2. /\ job[w] \in Job /\ LocalOK(job[w]) /\ p \in Payments
      /\ RecordOK(job[w].row, order[p], page[p])
  BY <1>1, JobFacts
<1>3. op \in Op
  <2>1. job[w].kind \in Kinds /\ job[w].amt \in Nat /\ job[w].txn \in Nat
    BY <1>1, <1>2 DEF LocalOK, At, Job
  <2> QED
    BY <2>1 DEF Op, Outcome
<1> HIDE DEF op
<1>4. ops \in [Payments -> SUBSET Op] /\ \A q \in Payments : IsFiniteSet(ops[q])
  BY DEF IndInv, TypeOK, OpsInv
<1>5. UNCHANGED ops \/ ops' = [ops EXCEPT ![p] = @ \cup {op}]
  BY <1>1 DEF CreatePaymentOperation
<1>6. ops' \in [Payments -> SUBSET Op] /\ \A q \in Payments : IsFiniteSet(ops'[q])
  BY <1>2, <1>3, <1>4, <1>5, FS_AddElement
<1>7. faults' \in 0 .. MaxFaults
  BY <1>1, FaultTypes DEF IndInv, TypeOK
<1>8. JobsInv' /\ PaymentsInv' /\ job' \in [Workers -> Job]
  <2>1. CASE ~job[w].ok
    <3>1. Finish(w)
      BY <2>1 DEF Record
    <3>2. job'[w].pc = "idle"
      BY <3>1 DEF Finish, IdleJob, IndInv, TypeOK
    <3>3. ~Goto(w, "decide") /\ ~Goto(w, "record")
      BY <3>2, GotoOne
    <3> QED
      BY <1>1, <3>1, <3>3, MovesOn DEF At, gateway
  <2>2. CASE job[w].ok
    <3>1. job' = [job EXCEPT ![w] = k]
      BY <2>2 DEF Record, IndInv, TypeOK
    <3>2. k \in Job /\ k.pc = "save" /\ k.pay = p /\ k.row = job[w].row /\ k.old = job[w].old
      BY <1>2 DEF Job, Steps
    <3> HIDE DEF k
    <3>3. LocalOK(k) /\ Alone(w, k)
      BY <1>1, <1>2, <3>2, KeepsAlone DEF LocalOK, At
    <3>4. UNCHANGED <<payment, order, page>> /\ order \in [Payments -> Order]
      BY <1>1 DEF gateway, IndInv, TypeOK
    <3>5. JobsInv' /\ job' \in [Workers -> Job]
      BY <1>2, <3>1, <3>2, <3>3, <3>4, UnchangedKept, JobsStep
    <3> QED
      BY <3>4, <3>5 DEF IndInv, PaymentsInv, RowOK
  <2> QED
    BY <2>1, <2>2
<1>9. TypeOK' /\ OpsInv'
  BY <1>1, <1>6, <1>7, <1>8 DEF IndInv, TypeOK, OpsInv, links, totals, gateway, ghosts
<1> QED
  BY <1>8, <1>9 DEF IndInv

\* The server's process is killed: no locals are left to be wrong.
LEMMA CrashInv == ASSUME IndInv, Crash PROVE IndInv'
<1>1. /\ job' = [w \in Workers |-> IdleJob]
      /\ lost' = lost \cup {job[w].row.link : w \in {v \in Workers : At(v, "totals")}}
      /\ untold' = untold \cup
           {job[w].pay : w \in {v \in Workers : At(v, "totals") \/ At(v, "notify")}}
      /\ UNCHANGED <<links, totals, payment, gateway, ops, hooks>>
      /\ Fault
  BY DEF Crash
<1>2. \A w \in Workers : At(w, "totals") \/ At(w, "notify") =>
        job[w].row.link \in Links /\ job[w].pay \in Payments
  BY JobFacts DEF At, LocalOK
<1>3. lost' \subseteq Links /\ untold' \subseteq Payments /\ faults' \in 0 .. MaxFaults
  BY <1>1, <1>2, FaultTypes DEF IndInv, TypeOK
<1>4. job' \in [Workers -> Job] /\ \A w \in Workers : job'[w] = IdleJob
  BY <1>1, IdleTypes
<1>5. TypeOK' /\ OpsInv' /\ PaymentsInv'
  BY <1>1, <1>3, <1>4
     DEF IndInv, TypeOK, OpsInv, PaymentsInv, RowOK, links, totals, gateway
<1>6. JobsInv'
  BY <1>4 DEF JobsInv, Exclusive, LocalOK, HeldOK, IdleJob
<1> QED
  BY <1>5, <1>6 DEF IndInv

-----------------------------------------------------------------------------
(* The inductive invariant *)

\* The empty database and gateway satisfy the invariant.
LEMMA InitInv == Init => IndInv
<1> SUFFICES ASSUME Init PROVE IndInv
  OBVIOUS
<1>1. /\ \A p \in Payments : payment[p] = NoRow /\ order[p] = NoOrder /\ page[p] = "none"
      /\ \A w \in Workers : job[w] = IdleJob
      /\ \A p \in Payments : ops[p] = {}
  BY DEF Init
<1>2. TypeOK
  BY RowTypes, IdleTypes, BoundsNatural
     DEF Init, TypeOK, NoOrder, Order, OrderStatus
<1>3. RecordOK(NoRow, NoOrder, "none") /\ OrderOK(NoOrder)
  BY DEF RecordOK, OrderOK, NoRow, NewRow, NoOrder, MoneyRows, ClosedRows
<1>4. PaymentsInv
  BY <1>1, <1>3 DEF PaymentsInv, RowOK
<1>5. JobsInv
  <2>1. IdleJob.pc = "idle"
    BY DEF IdleJob
  <2> QED
    BY <1>1, <2>1, IdleTypes DEF JobsInv, Exclusive
<1>6. OpsInv
  BY <1>1, FS_EmptySet DEF OpsInv
<1> QED
  BY <1>2, <1>4, <1>5, <1>6 DEF IndInv

\* A step that changes nothing keeps the invariant.
LEMMA StutterInv == IndInv /\ UNCHANGED vars => IndInv'
<1> SUFFICES ASSUME IndInv, UNCHANGED vars PROVE IndInv'
  OBVIOUS
<1>1. TypeOK'
  BY DEF vars, IndInv, TypeOK, links, totals, gateway, ghosts
<1> QED
  BY <1>1, TablesOnly DEF vars, gateway

\* Every step keeps the invariant: one case per action.
LEMMA NextInv == IndInv /\ [Next]_vars => IndInv'
<1> SUFFICES ASSUME IndInv, Next PROVE IndInv'
  BY StutterInv
<1>1. CASE LinkStep
  BY <1>1, CreateLinkInv, SetLinkStatusInv, LinkExpiresInv DEF LinkStep
<1>2. CASE World
  BY <1>2, PayerInv, HoldLapsesInv, MerchantAdminInv, PageTimesOutInv DEF World
<1>3. ASSUME NEW w \in Handlers, Checkout(w) PROVE IndInv'
  BY <1>3, StartCheckoutInv, OpenSessionInv, CreatePaymentInv, CountUseInv DEF Checkout, Workers
<1>4. ASSUME NEW w \in Workers, NEW p \in Payments,
             StartStatus(w, p) \/ StartView(w, p) \/ StartLinkView(w, p) \/ StartSweep(w, p)
      PROVE  IndInv'
  BY <1>4, LoadStep DEF StartStatus, StartView, StartLinkView, StartSweep
<1>5. ASSUME NEW w \in Handlers, NEW p \in Payments, NEW kind \in Kinds, StartPerform(w, p, kind)
      PROVE  IndInv'
  BY <1>5, LoadStep DEF StartPerform, Workers
<1>6. ASSUME NEW w \in Workers, Refresh(w) PROVE IndInv'
  BY <1>6, BeginInv, RetrieveOkInv, RetrieveMissingInv, RetrieveFailsInv, AbandonInv,
     SaveInv, TotalsInv, NotifyInv DEF Refresh
<1>7. ASSUME NEW w \in Workers, Perform(w) PROVE IndInv'
  BY <1>7, DecideInv, AllocInv, SendOkInv, SendFailsInv, RecordInv DEF Perform
<1>8. CASE Crash
  BY <1>8, CrashInv
<1> QED
  BY <1>1, <1>2, <1>3, <1>4, <1>5, <1>6, <1>7, <1>8 DEF Next, Handler, Workers

\* Every record of a payment is an outcome its order really had: in the table
\* and in the locals of every handler and worker (applyOrderOutcome,
\* reconcileOne, perform).
THEOREM Invariance == Spec => []IndInv
<1>1. Init => IndInv
  BY InitInv
<1>2. IndInv /\ [Next]_vars => IndInv'
  BY NextInv
<1> QED
  BY <1>1, <1>2, PTL DEF Spec
=============================================================================
