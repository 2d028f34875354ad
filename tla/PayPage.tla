-------------------------------- MODULE PayPage --------------------------------
(***************************************************************************)
(* The page behind a pay link (app/l/[slug]/page.tsx): it reads the link,  *)
(* starts a checkout with the server, loads the gateway's checkout.js and  *)
(* hands the payer over to the hosted page.                                *)
(*                                                                         *)
(* The link is one row of Domain.  Other payers and the operator change it *)
(* while this page is up; the page reads it once.                          *)
(***************************************************************************)
EXTENDS Domain, Sequences

CONSTANTS
    Bill,           \* the link's terms
    MaxTyped,       \* bound: the largest amount typed
    MaxSessions,    \* bound: checkouts the page starts
    MaxFaults       \* bound: times checkout.js does not load, calls that fail

\* What the constants are to be; Browser assumes it of its instances.
ConstantsFit ==
    ValidTerms(Bill) /\ MaxTyped \in Nat /\ MaxSessions \in Nat /\ MaxFaults \in Nat

VARIABLES
    page,       \* "loading", "missing", "shown", "refusing", or "hosted": the payer has gone on
    left,       \* what the page says is left of the bill
    amount,     \* what the payer typed, 0 when nothing
    pay,        \* where pay() is: "idle", "starting", "script"
    error,
    script,     \* checkout.js: "none", "loading", "failed" or "loaded"
    waiting,    \* whether pay() listens to a script that has an event to come
    session,    \* the session pay() has in hand
    sessions,   \* the checkouts started, each with its amount and what had been paid
    stored, paid,   \* the link's status and what others have paid of it
    faults

browser == <<page, left, amount, pay, error, script, waiting, session>>
vars    == <<browser, sessions, stored, paid, faults>>

-----------------------------------------------------------------------------
Status   == EffectiveStatus(Bill, stored, FALSE, 0, paid)
Fault    == faults < MaxFaults /\ faults' = faults + 1
Busy     == pay # "idle"
OpenPage == page = "shown" /\ UNCHANGED page

Init ==
    /\ page = "loading" /\ left = 0 /\ amount = 0 /\ pay = "idle" /\ error = FALSE
    /\ script = "none" /\ waiting = FALSE
    /\ session = 0 /\ sessions = <<>>
    /\ stored = "active" /\ paid = 0 /\ faults = 0

\* The page is loaded, the first time or again; nothing of it is left from before.
Reload ==
    /\ page \in {"shown", "refusing", "missing"}
    /\ page' = "loading" /\ left' = 0 /\ amount' = 0 /\ pay' = "idle" /\ error' = FALSE
    /\ script' = "none" /\ waiting' = FALSE /\ session' = 0
    /\ Fault
    /\ UNCHANGED <<sessions, stored, paid>>

\* On a shared bill what is left is offered first.
LinkRead ==
    /\ page = "loading"
    /\ page' = IF Status = "active" THEN "shown" ELSE "refusing"
    /\ left' = RemainingMinor(Bill, paid)
    /\ amount' = RemainingMinor(Bill, paid)
    /\ UNCHANGED <<pay, error, script, waiting, session, sessions, stored, paid, faults>>

LinkMissing ==
    /\ Fault
    /\ page = "loading"
    /\ page' = "missing"
    /\ UNCHANGED <<left, amount, pay, error, script, waiting, session, sessions, stored, paid>>

TypeAmount(a) ==
    /\ OpenPage /\ PayerChoosesAmount(Bill)
    /\ amount' = a
    /\ UNCHANGED <<left, pay, error, script, waiting, session, sessions, stored, paid, faults>>

\* pay(): its button is held back while it runs.
Pay ==
    /\ OpenPage /\ ~Busy
    /\ pay' = "starting" /\ error' = FALSE
    /\ UNCHANGED <<left, amount, script, waiting, session, sessions, stored, paid, faults>>

-----------------------------------------------------------------------------
Sent == IF PayerChoosesAmount(Bill) THEN amount ELSE Bill.amount

\* Mutant: an error leaves the button held back.
FailHeld == error' = TRUE /\ UNCHANGED pay

Fail == pay' = "idle" /\ error' = TRUE

\* loadCheckoutScript: at once when it is there; otherwise by the events of the element,
\* its own or the one an earlier call left behind.
AwaitScript ==
    /\ pay' = "script"
    /\ script' = IF script = "none" THEN "loading" ELSE script
    /\ waiting' = (script \in {"none", "loading"})

\* Mutant: the amount is not held against what is left.
CheckoutOfAnything ==
    /\ OpenPage /\ pay = "starting"
    /\ Status = "active"
    /\ Len(sessions) < MaxSessions
    /\ sessions' = Append(sessions, [amount |-> Sent, paid |-> paid])
    /\ session' = Len(sessions')
    /\ AwaitScript
    /\ UNCHANGED <<left, amount, error, stored, paid, faults>>

CheckoutStarted ==
    /\ OpenPage /\ pay = "starting"
    /\ Status = "active" /\ AmountAllowed(Bill, paid, Sent)
    /\ Len(sessions) < MaxSessions
    /\ sessions' = Append(sessions, [amount |-> Sent, paid |-> paid])
    /\ session' = Len(sessions')
    /\ AwaitScript
    /\ UNCHANGED <<left, amount, error, stored, paid, faults>>

\* Refused, or never heard of.
CheckoutRefused ==
    /\ OpenPage /\ pay = "starting"
    /\ Fail
    /\ UNCHANGED <<left, amount, script, waiting, session, sessions, stored, paid, faults>>

ScriptLoads ==
    /\ script = "loading"
    /\ script' = "loaded"
    /\ UNCHANGED <<page, left, amount, pay, error, waiting, session, sessions, stored, paid, faults>>

ScriptFails ==
    /\ Fault
    /\ script = "loading"
    /\ script' = "failed" /\ waiting' = FALSE
    /\ IF page = "shown" /\ pay = "script" /\ waiting THEN Fail ELSE UNCHANGED <<pay, error>>
    /\ UNCHANGED <<page, left, amount, session, sessions, stored, paid>>

\* The browser leaves for the hosted page with the session in hand.
ShowPaymentPage ==
    /\ page = "shown" /\ pay = "script" /\ script = "loaded"
    /\ page' = "hosted"
    /\ UNCHANGED <<left, amount, pay, error, script, waiting, session, sessions, stored, paid, faults>>

-----------------------------------------------------------------------------
OthersPay(a) ==
    /\ Status = "active" /\ AmountAllowed(Bill, paid, a)
    /\ paid' = IF IsSplit(Bill) THEN paid + a ELSE paid
    /\ UNCHANGED <<browser, sessions, stored, faults>>

Pause ==
    /\ stored' = IF stored = "active" THEN "paused" ELSE "active"
    /\ Fault
    /\ UNCHANGED <<browser, sessions, paid>>

Answer == LinkRead \/ CheckoutStarted \/ CheckoutRefused \/ ScriptLoads \/ ShowPaymentPage

Next ==
    \/ Reload \/ LinkMissing \/ Pay \/ Answer \/ ScriptFails \/ Pause
    \/ \E a \in 0..MaxTyped : TypeAmount(a)
    \/ \E a \in 1..MaxTyped : OthersPay(a)

Spec == Init /\ [][Next]_vars

\* Calls are answered, and a script that is asked for is loaded unless it fails.
FairSpec == Spec /\ WF_vars(Answer)

-----------------------------------------------------------------------------
\* The types of the variables.
TypeOK ==
    /\ page \in {"loading", "missing", "shown", "refusing", "hosted"}
    /\ left \in Nat /\ amount \in Nat /\ paid \in Nat /\ stored \in LinkStatus
    /\ pay \in {"idle", "starting", "script"} /\ error \in BOOLEAN /\ waiting \in BOOLEAN
    /\ script \in {"none", "loading", "failed", "loaded"}
    /\ session \in 0..Len(sessions) /\ Len(sessions) <= MaxSessions
    /\ faults \in 0..MaxFaults

\* The payer is handed over with the checkout started last, never with one left from
\* an earlier press.
HostedIsLast == page = "hosted" => session = Len(sessions) /\ session > 0

\* A checkout asks for no more than is left of the bill, although others have paid since
\* the page was read and filled its amount in.
WithinBill ==
    \A n \in DOMAIN sessions :
        IsSplit(Bill) => sessions[n].amount + sessions[n].paid <= Bill.target

\* An error is an invitation to press again: the button is not held back.
ErrorFreesButton == error => ~Busy

\* A press ends with the hosted page or an error.
PressSettles == Busy /\ page = "shown" ~> ~Busy \/ page # "shown"

\* "Could not open the secure payment page. Please try again.": so does the press after.
TryAgainWorks == Busy /\ script = "failed" ~> ~Busy \/ page # "shown"

-----------------------------------------------------------------------------
(* The inductive invariant *)

\* pay() waits for checkout.js with the checkout started last in hand, and goes on so.
InHand ==
    /\ page = "hosted" => pay = "script"
    /\ pay = "script" => session = Len(sessions) /\ session > 0

IInv ==
    /\ TypeOK /\ sessions \in Seq([amount : Nat, paid : Nat])
    /\ InHand /\ WithinBill /\ ErrorFreesButton
=============================================================================
