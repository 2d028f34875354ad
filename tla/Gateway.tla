------------------------------- MODULE Gateway -------------------------------
(***************************************************************************)
(* The payment gateway's order, as far as the server can tell it apart.    *)
(* The gateway is Mastercard's, outside the repository: this module is     *)
(* what api/internal/mpgs and the handlers that use it take for granted.   *)
(*                                                                         *)
(* An order does not exist until the payer does something on the hosted    *)
(* page (a RETRIEVE ORDER before that answers 400).  A transaction is      *)
(* refused when the balance does not allow it, and a transaction id may    *)
(* be used once within an order (mpgs.go, "Capture, Refund and Void each   *)
(* add a transaction to an existing order").                               *)
(***************************************************************************)
EXTENDS Integers

\* The status strings the server reads; "PENDING" stands for every status it
\* does not recognise, "NONE" for an order the gateway has not created.
OrderStatus == {"NONE", "PENDING", "AUTHORIZED", "PARTIALLY_CAPTURED",
                "CAPTURED", "PARTIALLY_REFUNDED", "REFUNDED", "FAILED",
                "CANCELLED", "EXPIRED"}

Order == [status : OrderStatus, auth : Nat, cap : Nat, ref : Nat]

NoOrder == [status |-> "NONE", auth |-> 0, cap |-> 0, ref |-> 0]

\* The payer confirms: PURCHASE takes the money, AUTHORIZE reserves it.
Paid(mode, amount) ==
    IF mode = "authorize"
    THEN [status |-> "AUTHORIZED", auth |-> amount, cap |-> 0, ref |-> 0]
    ELSE [status |-> "CAPTURED", auth |-> amount, cap |-> amount, ref |-> 0]

\* An order nothing will move again and that never took money.
Closed(status) == [status |-> status, auth |-> 0, cap |-> 0, ref |-> 0]

Kinds == {"capture", "refund", "void"}

\* Whether the gateway accepts a transaction of this kind on order o.
Accepts(o, kind, amt) ==
    \/ /\ kind = "capture"
       /\ o.status \in {"AUTHORIZED", "PARTIALLY_CAPTURED"}
       /\ o.cap + amt <= o.auth
    \/ /\ kind = "refund"
       /\ o.ref + amt <= o.cap
    \/ /\ kind = "void"
       /\ o.status = "AUTHORIZED"

\* The order after an accepted transaction.
After(o, kind, amt) ==
    CASE kind = "capture" ->
           [o EXCEPT !.cap = @ + amt,
                     !.status = IF o.cap + amt = o.auth
                                THEN "CAPTURED" ELSE "PARTIALLY_CAPTURED"]
      [] kind = "refund" ->
           [o EXCEPT !.ref = @ + amt,
                     !.status = IF o.ref + amt = o.cap
                                THEN "REFUNDED" ELSE "PARTIALLY_REFUNDED"]
      [] kind = "void" -> Closed("CANCELLED")

=============================================================================
