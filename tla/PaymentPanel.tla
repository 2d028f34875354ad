------------------------------ MODULE PaymentPanel ------------------------------
(***************************************************************************)
(* The panel an operator captures, refunds and voids a payment with        *)
(* (components/PaymentActions.tsx, opened from screens/LinkDetail.tsx):    *)
(* what it shows, what it sends, and what it makes of the answers.         *)
(*                                                                         *)
(* The server performs an operation in one step here; PayLink takes that   *)
(* step apart.  A panel that was closed is gone with its state, but a call *)
(* it made is not; the next panel has a number of its own.                 *)
(***************************************************************************)
EXTENDS Domain, Gateway

CONSTANTS
    Total,          \* what the payer was asked for
    Calls,          \* calls that may be under way together
    MaxPanels,      \* bound: panels opened
    MaxIntents,     \* bound: actions begun
    MaxElsewhere,   \* bound: operations made elsewhere, in Merchant Administration
    Unheard         \* whether an answer may be lost

\* What the constants are to be; Screens assumes it of its instance.
ConstantsFit ==
    /\ Total \in Nat \ {0} /\ MaxPanels \in Nat /\ MaxIntents \in Nat
    /\ MaxElsewhere \in Nat /\ Unheard \in BOOLEAN

VARIABLES
    order,      \* the gateway's order
    row,        \* the server's record of it
    panel,      \* the panel that is open, or 0
    panels,     \* panels opened so far
    detail,     \* the payment the panel shows, or Unread
    loading, busy, error,
    action,     \* the form that is open in the panel, or "none"
    amount,     \* its amount, 0 when left empty
    done,       \* the operation the panel reports, or "none"
    call,       \* the calls under way
    intents,    \* actions begun so far
    moved,      \* ghost: how often each of them moved money
    elsewhere   \* operations made elsewhere so far

money == <<order, row, moved>>
shown == <<detail, loading, busy, error, action, amount, done>>
count == <<panel, panels, intents, elsewhere>>
vars  == <<money, shown, count, call>>

-----------------------------------------------------------------------------
Unread == [status |-> "none", auth |-> 0, cap |-> 0, ref |-> 0]
Free == [step |-> "free", what |-> "load", amount |-> 0, panel |-> 0, intent |-> 0, row |-> Unread]

\* The record of an order; one the gateway has not settled leaves the row as begun.
RowOf(o) ==
    [status |-> IF o.status \in Recognised THEN StatusFromOrder(o.status) ELSE "initiated",
     auth |-> o.auth, cap |-> o.cap, ref |-> o.ref]

Init ==
    /\ order \in {NoOrder, Closed("FAILED"), Paid("purchase", Total), Paid("authorize", Total)}
    /\ row = RowOf(order)
    /\ panel = 0 /\ panels = 0 /\ intents = 0 /\ elsewhere = 0
    /\ detail = Unread /\ loading = FALSE /\ busy = FALSE /\ error = FALSE
    /\ action = "none" /\ amount = 0 /\ done = "none"
    /\ call = [c \in Calls |-> Free]
    /\ moved = [i \in 1..MaxIntents |-> 0]

Send(c, what, amt) ==
    /\ call[c] = Free
    /\ call' = [call EXCEPT ![c] = [Free EXCEPT !.step = "sent", !.what = what, !.amount = amt,
                                                !.panel = panel', !.intent = intents]]

\* A row of LinkDetail is pressed: the panel is mounted and reads the payment.
OpenPanel(c) ==
    /\ panel = 0 /\ panels < MaxPanels
    /\ panel' = panels + 1 /\ panels' = panels + 1
    /\ detail' = Unread /\ loading' = TRUE /\ busy' = FALSE /\ error' = FALSE
    /\ action' = "none" /\ amount' = 0 /\ done' = "none"
    /\ Send(c, "load", 0)
    /\ UNCHANGED <<money, intents, elsewhere>>

\* The cross, the backdrop or Escape, whatever is under way.
ClosePanel ==
    /\ panel # 0
    /\ panel' = 0
    /\ UNCHANGED <<money, shown, panels, intents, elsewhere, call>>

\* The buttons of a payment that is shown with no form open.
Buttons ==
    {k \in Kinds : \/ k = "capture" /\ CanCapture(detail)
                   \/ k = "refund"  /\ CanRefund(detail)
                   \/ k = "void"    /\ CanVoid(detail)}
AtRest == panel # 0 /\ ~loading /\ detail # Unread /\ action = "none"

\* begin: the amount starts as what the payment as shown has left.
BeginAction(kind) ==
    /\ AtRest /\ kind \in Buttons
    /\ intents < MaxIntents
    /\ intents' = intents + 1
    /\ action' = kind
    /\ amount' = IF kind = "capture" THEN CapturableMinor(detail) ELSE RefundableMinor(detail)
    /\ error' = FALSE /\ done' = "none"
    /\ UNCHANGED <<money, detail, loading, busy, panel, panels, elsewhere, call>>

TypeAmount(a) ==
    /\ panel # 0 /\ action \in {"capture", "refund"}
    /\ amount' = a
    /\ UNCHANGED <<money, detail, loading, busy, error, action, done, count, call>>

Back ==
    /\ panel # 0 /\ action # "none" /\ ~busy
    /\ action' = "none" /\ error' = FALSE
    /\ UNCHANGED <<money, detail, loading, busy, amount, done, count, call>>

\* Mutant: Enter confirms although an answer is awaited.
ConfirmTwice(c) ==
    /\ panel # 0 /\ action # "none"
    /\ busy' = TRUE /\ error' = FALSE
    /\ UNCHANGED panel
    /\ Send(c, action, amount)
    /\ UNCHANGED <<money, detail, loading, action, amount, done, panels, intents, elsewhere>>

\* confirm, from its button or with Enter.
Confirm(c) ==
    /\ panel # 0 /\ action # "none" /\ ~busy
    /\ busy' = TRUE /\ error' = FALSE
    /\ UNCHANGED panel
    /\ Send(c, action, amount)
    /\ UNCHANGED <<money, detail, loading, action, amount, done, panels, intents, elsewhere>>

-----------------------------------------------------------------------------
Reply(c, step, r) == call' = [call EXCEPT ![c].step = step, ![c].row = r]

\* handleGetPayment asks the gateway about an attempt that is not settled yet, or whose
\* receipt is missing.
ServeLoad(c) ==
    /\ call[c].step = "sent" /\ call[c].what = "load"
    /\ row' \in {RowOf(order)} \cup (IF row.status = "initiated" THEN {} ELSE {row})
    /\ Reply(c, "ok", row')
    /\ UNCHANGED <<order, moved, shown, count>>

\* perform: the order is read again, and an empty amount is all of what it has left.
Asked(c, r) ==
    CASE call[c].what = "void"    -> r.auth
      [] call[c].amount # 0       -> call[c].amount
      [] call[c].what = "capture" -> CapturableMinor(r)
      [] call[c].what = "refund"  -> RefundableMinor(r)

\* Mutant: what the gateway does not accept is answered like what it does.
PerformUnread(c) ==
    LET kind == call[c].what
        amt  == Asked(c, RowOf(order))
    IN  /\ call[c].step = "sent" /\ kind \in Kinds
        /\ IF order # NoOrder /\ amt \in OperationAmounts(kind, RowOf(order))
           THEN /\ order' = After(order, kind, amt)
                /\ moved' = [moved EXCEPT ![call[c].intent] = @ + 1]
           ELSE UNCHANGED <<order, moved>>
        /\ row' = RowOf(order')
        /\ Reply(c, "ok", row')
        /\ UNCHANGED <<shown, count>>

Perform(c) ==
    LET kind == call[c].what
        amt  == Asked(c, RowOf(order))
    IN  /\ call[c].step = "sent" /\ kind \in Kinds
        /\ IF order # NoOrder /\ amt \in OperationAmounts(kind, RowOf(order))
           THEN /\ order' = After(order, kind, amt)
                /\ moved' = [moved EXCEPT ![call[c].intent] = @ + 1]
                /\ row' = RowOf(order')
                /\ Reply(c, "ok", row')
           ELSE /\ row' = RowOf(order)
                /\ Reply(c, "refused", Unread)
                /\ UNCHANGED <<order, moved>>
        /\ UNCHANGED <<shown, count>>

\* The server or the gateway cannot be reached, or was not heard in time.
Refuse(c) ==
    /\ \/ call[c].step = "sent"
       \/ call[c].step = "ok" /\ Unheard
    /\ Reply(c, "refused", Unread)
    /\ UNCHANGED <<money, shown, count>>

\* Somebody works in Merchant Administration.
Elsewhere(kind, amt) ==
    /\ elsewhere < MaxElsewhere
    /\ elsewhere' = elsewhere + 1
    /\ Accepts(order, kind, amt) /\ amt > 0
    /\ order' = After(order, kind, amt)
    /\ UNCHANGED <<row, moved, shown, panel, panels, intents, call>>

-----------------------------------------------------------------------------
Finish(c) == call' = [call EXCEPT ![c] = Free]

\* A closed panel's answers change nothing any more.
Late(c) ==
    /\ call[c].step \in {"ok", "refused"}
    /\ call[c].panel # panel
    /\ Finish(c)
    /\ UNCHANGED <<money, shown, count>>

TakeLoad(c) ==
    /\ call[c].step \in {"ok", "refused"} /\ call[c].what = "load"
    /\ call[c].panel = panel
    /\ detail' = IF call[c].step = "ok" THEN call[c].row ELSE detail
    /\ error' = (call[c].step = "refused")
    /\ loading' = FALSE
    /\ Finish(c)
    /\ UNCHANGED <<money, busy, action, amount, done, count>>

TakeDone(c) ==
    /\ call[c].step = "ok" /\ call[c].what \in Kinds
    /\ call[c].panel = panel
    /\ detail' = call[c].row
    /\ action' = "none" /\ done' = call[c].what
    /\ busy' = FALSE
    /\ Finish(c)
    /\ UNCHANGED <<money, loading, error, amount, count>>

\* The form stays as it was, to be tried again.
TakeRefusal(c) ==
    /\ call[c].step = "refused" /\ call[c].what \in Kinds
    /\ call[c].panel = panel
    /\ error' = TRUE /\ busy' = FALSE
    /\ Finish(c)
    /\ UNCHANGED <<money, detail, loading, action, amount, done, count>>

-----------------------------------------------------------------------------
Serve(c)  == ServeLoad(c) \/ Perform(c) \/ Refuse(c)
Take(c)   == Late(c) \/ TakeLoad(c) \/ TakeDone(c) \/ TakeRefusal(c)

Next ==
    \/ \E c \in Calls : OpenPanel(c) \/ Confirm(c) \/ Serve(c) \/ Take(c)
    \/ ClosePanel \/ Back
    \/ \E kind \in Kinds : BeginAction(kind) \/ (\E amt \in 1..Total : Elsewhere(kind, amt))
    \/ \E a \in 0..(Total + 1) : TypeAmount(a)

Spec == Init /\ [][Next]_vars

\* Every call is answered, if only by a timeout.
FairSpec == Spec /\ \A c \in Calls : WF_vars(Serve(c) \/ Take(c))

-----------------------------------------------------------------------------
Shown == [status : PaymentStatus \cup {"none"}, auth : Nat, cap : Nat, ref : Nat]

CallRecord ==
    [step : {"free", "sent", "ok", "refused"}, what : Kinds \cup {"load"},
     amount : Nat, panel : Nat, intent : Nat, row : Shown]
\* The types, by whom they belong to.
MoneyFits == order \in Order /\ row \in Shown /\ moved \in [1..MaxIntents -> Nat]
CountFits ==
    /\ panel \in 0..MaxPanels /\ panels \in 0..MaxPanels /\ intents \in 0..MaxIntents
    /\ elsewhere \in 0..MaxElsewhere
ShownFits ==
    /\ detail \in Shown /\ loading \in BOOLEAN /\ busy \in BOOLEAN /\ error \in BOOLEAN
    /\ action \in Kinds \cup {"none"} /\ done \in Kinds \cup {"none"} /\ amount \in Nat
CallFits == call \in [Calls -> CallRecord]

\* The types of the variables.
TypeOK == MoneyFits /\ CountFits /\ ShownFits /\ CallFits

\* Each action an operator begins moves money once at most, however fast the panel is
\* closed and opened again: as long as no answer is lost.
MovesOnce == \A i \in 1..MaxIntents : moved[i] <= 1

\* "Captured.", "Refunded." and "Hold released." are said of an action that moved money.
DoneTruthful == panel # 0 /\ done # "none" => intents > 0 /\ moved[intents] > 0

\* An error on an open form is about that form: nothing of it moved, as long as no
\* answer is lost.
ErrorTruthful == panel # 0 /\ action # "none" /\ error => moved[intents] = 0

\* Both: nothing the panel says of an action is wrong.
PanelTruthful == DoneTruthful /\ ErrorTruthful

\* The panel never waits for good.
BusyEnds == panel # 0 /\ (busy \/ loading) ~> panel = 0 \/ ~(busy \/ loading)

\* "a duplicate submission ... is caught here instead of moving money twice": an action
\* whose answer was lost and that is tried again moves money once.
RetryCaught == [][\A i \in 1..MaxIntents : moved[i] > 0 => moved'[i] = moved[i]]_vars

\* "Nothing to do here -- this payment is settled." is said of a payment that is.
SettledSaid == AtRest /\ Buttons = {} => detail.status \notin {"initiated", "failed"}

-----------------------------------------------------------------------------
(* The inductive invariant *)

\* A call under way; an operation, or the load a panel begins with.
Open(c) == call[c].step # "free"

Op(c)   == Open(c) /\ call[c].what \in Kinds

\* Calls belong to panels that were opened; operations to actions that were begun, which
\* have moved money if, and only if, the call was answered so.
CallsFit ==
    \A c \in Calls :
        /\ Open(c) => call[c].panel \in 1..panels
        /\ Op(c) => /\ call[c].intent \in 1..intents
                    /\ call[c].step = "ok" <=> moved[call[c].intent] > 0

\* No action has two calls, and no panel two loads.
OneCall == \A c \in Calls, d \in Calls : Op(c) /\ Op(d) /\ call[c].intent = call[d].intent => c = d

OneLoad ==
    \A c \in Calls, d \in Calls :
        /\ Open(c) /\ call[c].what = "load" /\ Open(d) /\ call[d].what = "load"
        /\ call[c].panel = call[d].panel
        => c = d

\* Actions not begun yet have moved nothing.
Unmoved == \A i \in 1..MaxIntents : i > intents => moved[i] = 0

\* The panel that is open is the last one, and waits for its own calls.
Waits ==
    panel # 0 =>
        /\ panel = panels
        /\ \A c \in Calls : Open(c) /\ call[c].panel = panel =>
              IF call[c].what = "load" THEN loading
              ELSE busy /\ action # "none" /\ call[c].intent = intents
        /\ loading => action = "none" /\ ~busy
        /\ busy => action # "none" /\ ~error

\* A form that can be confirmed is of an action that has moved nothing and has no call.
Ready ==
    panel # 0 /\ action # "none" =>
        /\ intents > 0
        /\ ~busy => moved[intents] = 0 /\ \A c \in Calls : Op(c) => call[c].intent # intents

IInv ==
    /\ TypeOK
    /\ CallsFit /\ OneCall /\ OneLoad /\ Unmoved
    /\ Waits /\ Ready
    /\ MovesOnce /\ DoneTruthful
=============================================================================
