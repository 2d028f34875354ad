----------------------------- MODULE PayLinkInv -----------------------------
(***************************************************************************)
(* The inductive invariant of PayLink, from which its safety properties    *)
(* are proved in PayLink_proofs.  It has three parts: what each process    *)
(* holds, what the gateway's orders look like, and how a payment's record, *)
(* wherever it is held, stands to its order.                               *)
(***************************************************************************)
EXTENDS PayLink

ClosedOrders  == {"FAILED", "CANCELLED", "EXPIRED"}
MoneyOrders   == {"PARTIALLY_CAPTURED", "CAPTURED", "PARTIALLY_REFUNDED", "REFUNDED"}
ClosedRows    == {"failed", "cancelled", "expired"}
MoneyRows     == {"partially_captured", "paid", "partially_refunded", "refunded"}

\* An order holds captured money exactly in the statuses that say so.
OrderOK(o) == o.status \notin MoneyOrders => o.cap = 0 /\ o.ref = 0

\* A record of a payment was true of its order at some earlier moment, and the
\* order has only moved on from there.
RecordOK(row, o, pg) ==
    /\ row.cap <= o.cap /\ row.ref <= o.ref
    /\ row.status \in {"none", "initiated"} => row.auth = 0
    /\ row.status \notin MoneyRows => row.cap = 0 /\ row.ref = 0
    /\ row.status = "authorized" => o.status \in MoneyOrders \cup {"AUTHORIZED", "CANCELLED", "EXPIRED"}
    /\ row.status \in MoneyRows => o.status \in MoneyOrders
    /\ row.status \in ClosedRows =>
         o.status \in ClosedOrders \/ (o.status = "NONE" /\ pg = "expired")
    /\ row.completed <=> row.status \in MoneyRows \cup ClosedRows

\* How an order moves: what it took stays taken, a closed one stays closed,
\* and there is none to come once the payer's page is gone.
Advances(o, o2, pg) ==
    /\ o.cap <= o2.cap /\ o.ref <= o2.ref
    /\ o.status \in MoneyOrders => o2.status \in MoneyOrders
    /\ o.status \in MoneyOrders \cup {"AUTHORIZED", "CANCELLED", "EXPIRED"} =>
         o2.status \in MoneyOrders \cup {"AUTHORIZED", "CANCELLED", "EXPIRED"}
    /\ o.status \in ClosedOrders => o2.status \in ClosedOrders
    /\ o.status = "NONE" /\ pg = "expired" => o2.status = "NONE"

\* What the locals of a process say about the tables, step by step.
LocalOK(j) ==
    /\ j.pc = "idle" => j = IdleJob
    /\ j.pc # "idle" =>
         j.pay \in Payments /\ j.row.link \in Links /\ j.row.status # "none"
    /\ j.pc \in {"open", "insert"} =>
         payment[j.pay] = NoRow /\ page[j.pay] = "none" /\ j.row.status = "initiated"
    /\ j.pc \in {"open", "insert", "count"} =>
         j.kind = "checkout" /\ page[j.pay] # "expired"
    /\ j.pc \notin {"idle", "open", "insert"} =>
         payment[j.pay] # NoRow /\ j.row.link = payment[j.pay].link
    /\ j.pc \in {"decide", "alloc", "send", "record"} => j.kind \in Kinds
    /\ j.pc \in {"alloc", "send"} /\ j.kind # "void" => j.amt > 0
    /\ j.old => page[j.pay] = "expired"
    /\ j.pc = "abandon" => /\ order[j.pay].status = "NONE" /\ page[j.pay] = "expired"
                           /\ j.row.status = "expired"

HeldOK(j) == j.pc # "idle" => RecordOK(j.row, order[j.pay], page[j.pay])

\* No process holds an attempt that another has yet to insert.
Exclusive ==
    \A w \in Workers : job[w].pc \in {"open", "insert"} =>
        \A v \in Workers \ {w} : job[v].pay # job[w].pay

RowOK(p) ==
    /\ payment[p] = NoRow => order[p] = NoOrder /\ page[p] = "none"
    /\ payment[p] # NoRow => payment[p].link \in Links /\ payment[p].status # "none"
    /\ RecordOK(payment[p], order[p], page[p])

JobsInv     == Exclusive /\ \A w \in Workers : LocalOK(job[w]) /\ HeldOK(job[w])
PaymentsInv == \A p \in Payments : RowOK(p) /\ OrderOK(order[p])
OpsInv      == \A p \in Payments : IsFiniteSet(ops[p])

\* Everything the proofs carry from one state to the next.  As a property:
\* every record of a payment, in the database or in the hands of a handler or
\* a worker, is an outcome that its order has really had.
IndInv == TypeOK /\ JobsInv /\ PaymentsInv /\ OpsInv
=============================================================================
