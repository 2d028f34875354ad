--------------------------------- MODULE Sweep ---------------------------------
(***************************************************************************)
(* Which attempts are asked about (reconcile.go, PendingPayments).  The    *)
(* background sweep takes a bounded batch, the oldest that are still       *)
(* initiated and were not asked about lately; a view of the portal takes a *)
(* smaller one of the attempts it shows.  What an answer does to a payment *)
(* is the subject of PayLink; here it settles an attempt or does not.      *)
(*                                                                         *)
(* Attempts are numbered as they are created, and those of an instance are *)
(* made within one interval of the sweep: they pass the horizon of 14 days *)
(* together, some 10000 sweeps later.                                      *)
(***************************************************************************)
EXTENDS Naturals, FiniteSets

CONSTANTS
    MaxAttempts,    \* bound: attempts
    Profiles,       \* an operator in an environment, to whom credentials belong
    ProfileOf,      \* the profile of each attempt's link
    SweepBatch,     \* 4 * maxReconcileBatch
    ViewBatch,      \* maxReconcileBatch
    MaxFaults       \* bound: credentials removed, calls not heard, marks not written, restarts

Attempts == 1..MaxAttempts

\* What the constants are to be; Browser assumes it of its instance.
ConstantsFit ==
    /\ MaxAttempts \in Nat /\ MaxFaults \in Nat
    /\ SweepBatch \in Nat \ {0} /\ ViewBatch \in Nat \ {0}
    /\ ProfileOf \in [Attempts -> Profiles]

VARIABLES
    created,    \* attempts made so far
    initiated,  \* those whose status is initiated
    over,      \* those whose payer has paid, or can no longer
    lately,     \* those asked about since the last sweep began (last_checked_at)
    connected,  \* profiles with credentials
    targets,    \* what the sweep, and a view, have still to ask about
    past,       \* whether the horizon has passed
    asked,      \* ghost: attempts the gateway was asked about
    cut,        \* ghost: attempts whose profile has been without credentials
    faults      \* faults so far

vars == <<created, initiated, over, lately, connected, targets, past, asked, cut, faults>>

Init ==
    /\ created = 0
    /\ initiated = {} /\ over = {} /\ lately = {}
    /\ connected = Profiles
    /\ targets = [k \in {"sweep", "view"} |-> {}]
    /\ past = FALSE
    /\ asked = {} /\ cut = {}
    /\ faults = 0

Fault == faults < MaxFaults /\ faults' = faults + 1

-----------------------------------------------------------------------------
\* A checkout is started with the credentials of the link's profile.
CreatePayment ==
    /\ created < MaxAttempts /\ ~past
    /\ ProfileOf[created + 1] \in connected
    /\ created' = created + 1
    /\ initiated' = initiated \cup {created + 1}
    /\ UNCHANGED <<over, lately, connected, targets, past, asked, cut, faults>>

\* The payer pays, is refused, or stays away until his page has timed out.
AttemptEnds(p) ==
    /\ p \in initiated \ over
    /\ over' = over \cup {p}
    /\ UNCHANGED <<created, initiated, lately, connected, targets, past, asked, cut, faults>>

\* His return page asks about this one attempt.
PayerReturns(p) ==
    /\ p \in initiated \cap over
    /\ ProfileOf[p] \in connected
    /\ initiated' = initiated \ {p}
    /\ UNCHANGED <<created, over, lately, connected, targets, past, asked, cut, faults>>

Disconnect(o) ==
    /\ Fault
    /\ o \in connected
    /\ connected' = connected \ {o}
    /\ cut' = cut \cup {p \in 1..created : ProfileOf[p] = o}
    /\ UNCHANGED <<created, initiated, over, lately, targets, past, asked>>

Connect(o) ==
    /\ o \notin connected
    /\ connected' = connected \cup {o}
    /\ UNCHANGED <<created, initiated, over, lately, targets, past, asked, cut, faults>>

-----------------------------------------------------------------------------
\* PendingPayments: its filter (`recent' are too lately asked about), order and limit.
Eligible(owners, recent) ==
    IF past THEN {} ELSE {p \in initiated \ recent : ProfileOf[p] \in owners}

Oldest(S, limit) == {p \in S : Cardinality({q \in S : q < p}) < limit}

\* reconcilePending skips, before it asks, whose credentials it does not find.
Resolved(S) == {p \in S : ProfileOf[p] \in connected}

\* StartReconciler.  A sweep that took its time finds some of its own marks old.
StartSweep ==
    /\ targets["sweep"] = {}
    /\ \E recent \in SUBSET lately :
         targets' = [targets EXCEPT !["sweep"] = Resolved(Oldest(Eligible(Profiles, recent), SweepBatch))]
    /\ lately' = {}
    /\ UNCHANGED <<created, initiated, over, connected, past, asked, cut, faults>>

\* reconcileScope and reconcileLink, whose interval is shorter.
View(owners) ==
    /\ targets["view"] = {}
    /\ \E recent \in SUBSET lately :
         targets' = [targets EXCEPT !["view"] = Resolved(Oldest(Eligible(owners, recent), ViewBatch))]
    /\ UNCHANGED <<created, initiated, over, lately, connected, past, asked, cut, faults>>

\* The reader is gone, and what was left of his request with him.
LeaveView ==
    /\ targets["view"] # {}
    /\ targets' = [targets EXCEPT !["view"] = {}]
    /\ UNCHANGED <<created, initiated, over, lately, connected, past, asked, cut, faults>>

\* reconcileOne, which marks the attempt.
Ask(k, p) ==
    /\ p \in targets[k]
    /\ targets' = [targets EXCEPT ![k] = @ \ {p}]
    /\ asked' = asked \cup {p}
    /\ lately' = lately \cup {p}
    /\ initiated' = initiated \ ({p} \cap over)
    /\ UNCHANGED <<created, over, connected, past, cut, faults>>

\* The gateway is not heard; the attempt is marked all the same.
AskUnheard(k, p) ==
    /\ Fault
    /\ p \in targets[k]
    /\ targets' = [targets EXCEPT ![k] = @ \ {p}]
    /\ asked' = asked \cup {p}
    /\ lately' = lately \cup {p}
    /\ UNCHANGED <<created, initiated, over, connected, past, cut>>

\* The mark fails; its error is dropped.
AskUnmarked(k, p) ==
    /\ Fault
    /\ p \in targets[k]
    /\ targets' = [targets EXCEPT ![k] = @ \ {p}]
    /\ asked' = asked \cup {p}
    /\ UNCHANGED <<created, initiated, over, lately, connected, past, cut>>

Restart ==
    /\ Fault
    /\ targets' = [k \in {"sweep", "view"} |-> {}]
    /\ UNCHANGED <<created, initiated, over, lately, connected, past, asked, cut>>

\* By the time the horizon passes, everybody has paid or left, and sweeps that find
\* somebody to ask about have long come to an end.
HorizonPasses ==
    /\ ~past
    /\ created = MaxAttempts
    /\ initiated \subseteq over
    /\ targets["sweep"] = {} /\ targets["view"] = {}
    /\ Resolved(Oldest(Eligible(Profiles, {}), SweepBatch)) = {}
    /\ past' = TRUE
    /\ UNCHANGED <<created, initiated, over, lately, connected, targets, asked, cut, faults>>

Asks(k) == \E p \in targets[k] : Ask(k, p)

Next ==
    \/ CreatePayment
    \/ \E p \in initiated : AttemptEnds(p) \/ PayerReturns(p)
    \/ \E o \in Profiles : Disconnect(o) \/ Connect(o)
    \/ StartSweep
    \/ \E owners \in SUBSET Profiles : View(owners)
    \/ LeaveView
    \/ \E k \in {"sweep", "view"} : Asks(k) \/ \E p \in targets[k] : AskUnheard(k, p) \/ AskUnmarked(k, p)
    \/ Restart
    \/ HorizonPasses

Spec == Init /\ [][Next]_vars

\* The ticker, the workers, and the window for paying.
FairSpec ==
    /\ Spec
    /\ WF_vars(StartSweep)
    /\ WF_vars(Asks("sweep"))
    /\ WF_vars(\E p \in initiated : AttemptEnds(p))

-----------------------------------------------------------------------------
\* The types of the variables.
TypeOK ==
    /\ created \in 0..MaxAttempts
    /\ initiated \subseteq 1..created /\ over \subseteq 1..created
    /\ lately \subseteq 1..created /\ asked \subseteq 1..created /\ cut \subseteq 1..created
    /\ connected \subseteq Profiles
    /\ targets \in [{"sweep", "view"} -> SUBSET (1..created)]
    /\ past \in BOOLEAN /\ faults \in 0..MaxFaults

\* "A bounded sweep eventually covers everything": however many attempts there are, each
\* is settled although its payer never returns and nobody looks, unless some operator is
\* without credentials.
SweepCovers ==
    \A p \in Attempts :
        p \in initiated ~> p \notin initiated \/ past \/ connected # Profiles

\* The same without the condition: an attempt whose own operator has been connected all
\* along does not pass the horizon without having been asked about.
NothingMissed == past => initiated \subseteq asked \cup cut
=============================================================================
