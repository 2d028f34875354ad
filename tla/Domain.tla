-------------------------------- MODULE Domain --------------------------------
(***************************************************************************)
(* The values of api/internal/domain: what a pay link and a payment are,   *)
(* and the decisions taken on one row at a time.  A link's `terms' are the *)
(* columns fixed when it is created; its moving columns (status,           *)
(* paid_count, paid_minor) are variables of the modules that use this one. *)
(* Amounts are minor units.  A zero stands for NULL in max_uses, as it     *)
(* does in the code for min_minor, max_minor and target_minor.             *)
(***************************************************************************)
EXTENDS Integers, Functions, FiniteSets

LinkTypes    == {"static", "dynamic", "split"}
PaymentModes == {"purchase", "authorize"}
LinkStatus   == {"active", "paused", "cancelled", "limit_reached", "settled"}

Terms == [type : LinkTypes, mode : PaymentModes, amount : Nat, target : Nat,
          min : Nat, max : Nat, maxUses : Nat, hooked : BOOLEAN,
          expires : BOOLEAN]

\* What handleCreateLink accepts: a fixed amount, or a bill total, or bounds
\* on the payer's own amount.
ValidTerms(t) ==
    /\ t \in Terms
    /\ CASE t.type = "static"  -> t.amount > 0 /\ t.target = 0 /\ t.min = 0 /\ t.max = 0
         [] t.type = "split"   -> t.target > 0 /\ t.min <= t.target /\ t.amount = 0 /\ t.max = 0
         [] t.type = "dynamic" -> /\ t.amount = 0 /\ t.target = 0
                                  /\ t.min > 0 /\ t.max > 0 => t.min <= t.max

IsSplit(t) == t.type = "split" /\ t.target > 0

\* What is still owed on a split bill, given what it has collected.
RemainingMinor(t, paid) ==
    IF IsSplit(t) /\ paid < t.target THEN t.target - paid ELSE 0

\* Mutant: the use limit is left to the stored status.
EffectiveStatusTrusting(t, stored, lapsed, count, paid) ==
    IF stored # "active" THEN stored
    ELSE IF lapsed THEN "expired"
    ELSE IF IsSplit(t) /\ RemainingMinor(t, paid) = 0 THEN "settled"
    ELSE "active"

\* Expiry, the bill's target and the use limit folded into the stored status.
EffectiveStatus(t, stored, lapsed, count, paid) ==
    IF stored \in {"paused", "cancelled"} THEN stored
    ELSE IF lapsed THEN "expired"
    ELSE IF IsSplit(t) /\ RemainingMinor(t, paid) = 0 THEN "settled"
    ELSE IF t.maxUses > 0 /\ count >= t.maxUses THEN "limit_reached"
    ELSE "active"

PayerChoosesAmount(t) == t.type \in {"dynamic", "split"}

\* The amounts a checkout accepts on a link that has collected `paid'.
AmountAllowed(t, paid, a) ==
    IF PayerChoosesAmount(t)
    THEN /\ a > 0
         /\ t.min > 0 => a >= t.min
         /\ t.max > 0 => a <= t.max
         /\ IsSplit(t) => a <= RemainingMinor(t, paid)
    ELSE a = t.amount /\ a > 0

-----------------------------------------------------------------------------

PaymentStatus == {"initiated", "authorized", "partially_captured", "paid",
                  "partially_refunded", "refunded", "failed", "cancelled",
                  "expired"}

\* Mutant: a refunded payment gives its use back.
CommittedUnlessRefunded == {"authorized", "partially_captured", "paid",
                            "partially_refunded"}

\* Statuses in which the payer has committed funds, so a use is consumed.
Committed == {"authorized", "partially_captured", "paid",
              "partially_refunded", "refunded"}

CapturableMinor(row) == IF row.auth > row.cap THEN row.auth - row.cap ELSE 0
RefundableMinor(row) == IF row.cap > row.ref THEN row.cap - row.ref ELSE 0

CanCapture(row) == /\ row.status \in {"authorized", "partially_captured"}
                   /\ CapturableMinor(row) > 0
CanVoid(row)    == row.status = "authorized" /\ row.cap = 0
CanRefund(row)  == RefundableMinor(row) > 0

\* The amounts perform may send for an operation on this row: an explicit
\* amount up to the balance, the whole balance when none is given, and the
\* authorized total for a void.
OperationAmounts(kind, row) ==
    CASE kind = "capture" -> IF CanCapture(row) THEN 1 .. CapturableMinor(row) ELSE {}
      [] kind = "refund"  -> IF CanRefund(row) THEN 1 .. RefundableMinor(row) ELSE {}
      [] kind = "void"    -> IF CanVoid(row) THEN {row.auth} ELSE {}

\* The gateway statuses we recognise, and what each becomes.
Recognised == {"AUTHORIZED", "PARTIALLY_CAPTURED", "CAPTURED",
               "PARTIALLY_REFUNDED", "REFUNDED", "FAILED", "CANCELLED",
               "EXPIRED"}

StatusFromOrder(s) ==
    CASE s = "AUTHORIZED"         -> "authorized"
      [] s = "PARTIALLY_CAPTURED" -> "partially_captured"
      [] s = "CAPTURED"           -> "paid"
      [] s = "PARTIALLY_REFUNDED" -> "partially_refunded"
      [] s = "REFUNDED"           -> "refunded"
      [] s = "FAILED"             -> "failed"
      [] s = "CANCELLED"          -> "cancelled"
      [] s = "EXPIRED"            -> "expired"

\* Mutant: the totals of the order are added to those on record.
MirrorAccumulating(row, o, receipt) ==
    [row EXCEPT !.status    = StatusFromOrder(o.status),
                !.auth      = o.auth,
                !.cap       = @ + o.cap,
                !.ref       = @ + o.ref,
                !.receipt   = @ \/ receipt,
                !.completed = @ \/ StatusFromOrder(o.status) # "authorized"]

\* Mutant: an authorization is given a completion time.
MirrorCompleting(row, o, receipt) ==
    [row EXCEPT !.status    = StatusFromOrder(o.status),
                !.auth      = o.auth,
                !.cap       = o.cap,
                !.ref       = o.ref,
                !.receipt   = @ \/ receipt,
                !.completed = TRUE]

\* applyOrderOutcome's changes to the payment it holds in memory.  The order
\* may or may not carry a receipt yet; one already recorded is kept.
Mirror(row, o, receipt) ==
    [row EXCEPT !.status    = StatusFromOrder(o.status),
                !.auth      = o.auth,
                !.cap       = o.cap,
                !.ref       = o.ref,
                !.receipt   = @ \/ receipt,
                !.completed = @ \/ StatusFromOrder(o.status) # "authorized"]

\* Mutant: the row is given the summary's name for it, not a payment status.
AbandonedByName(row) == [row EXCEPT !.status = "abandoned", !.completed = TRUE]

\* reconcileOne's changes when the gateway has no order and the time is up.
Abandoned(row) == [row EXCEPT !.status = "expired", !.completed = TRUE]

\* What an integrator is told of a payment in this status.
Events == {"succeeded", "authorized", "refunded", "failed"}

\* Mutant: reserved funds are announced as money taken.
EventForReserved(s) ==
    CASE s \in {"paid", "partially_captured", "authorized"} -> {"succeeded"}
      [] s \in {"refunded", "partially_refunded"}           -> {"refunded"}
      [] s = "failed"                                       -> {"failed"}
      [] OTHER                                              -> {}

EventFor(s) ==
    CASE s \in {"paid", "partially_captured"}     -> {"succeeded"}
      [] s = "authorized"                         -> {"authorized"}
      [] s \in {"refunded", "partially_refunded"} -> {"refunded"}
      [] s = "failed"                             -> {"failed"}
      [] OTHER                                    -> {}

-----------------------------------------------------------------------------

\* RecomputeLinkTotals derives both counters from the payment rows: how many
\* of a link's have committed funds, and what they have kept.
CommittedOn(rows, l) ==
    Cardinality({p \in DOMAIN rows : rows[p].link = l /\ rows[p].status \in Committed})

KeptOn(row, l) == IF row.link = l THEN row.cap - row.ref ELSE 0

CollectedOn(rows, l) == SumFunction([p \in DOMAIN rows |-> KeptOn(rows[p], l)])

\* Mutant: a refund or a void does not reopen the link.
RecomputedStatusClosing(t, stored, count, paid) ==
    IF stored # "active" THEN stored
    ELSE IF t.maxUses > 0 /\ count >= t.maxUses THEN "limit_reached"
    ELSE IF t.type = "split" /\ paid >= t.target THEN "settled"
    ELSE stored

\* Its four conditional updates of the stored status, in their order.
RecomputedStatus(t, stored, count, paid) ==
    LET full   == t.maxUses > 0 /\ count >= t.maxUses
        met    == t.target > 0 /\ paid >= t.target
        limit  == IF stored = "active" /\ full THEN "limit_reached" ELSE stored
        reopen == IF limit = "limit_reached" /\ ~full THEN "active" ELSE limit
        settle == IF reopen = "active" /\ t.type = "split" /\ met
                  THEN "settled" ELSE reopen
    IN  IF settle = "settled" /\ ~met THEN "active" ELSE settle

=============================================================================
