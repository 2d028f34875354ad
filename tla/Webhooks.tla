------------------------------- MODULE Webhooks -------------------------------
(***************************************************************************)
(* Delivery of the queued notifications: one dispatcher goroutine takes    *)
(* what is due, oldest first and at most BatchLimit at a time, calls each  *)
(* integrator, and records the outcome or the time of the next attempt.    *)
(*                                                                         *)
(* A delivery is due from its next_attempt_at on; `due' lists those whose  *)
(* time has come in the order it came, which is the order of the query.    *)
(* Only the dispatcher changes a row once it is queued, so the copies it   *)
(* holds are those in the table.  PayLink decides what is queued.          *)
(***************************************************************************)
EXTENDS Integers, Sequences

CONSTANTS
    Deliveries,     \* webhook_deliveries rows that may be queued
    Integrations,   \* the integrations they may be for
    Owner,          \* the integration of each delivery
    Waits,          \* the number of waits in webhookBackoff
    BatchLimit,     \* rows one drain reads
    MaxFaults       \* bound: crashes and failed statements

ASSUME OwnerIntegration == Owner \in [Deliveries -> Integrations]
ASSUME WaitsPositive == Waits \in Nat \ {0}
ASSUME BatchPositive == BatchLimit \in Nat \ {0}
ASSUME FaultsNatural == MaxFaults \in Nat

VARIABLES
    row,        \* each delivery's status and attempts
    due,        \* the pending deliveries whose time has come, in order
    batch,      \* what is left of the dispatcher's current batch
    step,       \* what the dispatcher does next with its head
    url,        \* the integrations that have a webhook URL
    faults,     \* faults so far
    calls,      \* ghost: calls made for each delivery
    told,       \* ghost: deliveries an integrator has accepted
    hopeless    \* ghost: deliveries given up for want of a URL

dispatcher == <<batch, step>>
ghosts     == <<calls, told, hopeless>>
vars       == <<row, due, dispatcher, url, faults, ghosts>>

DeliveryStatus == {"none", "pending", "delivered", "exhausted"}

Elements(s) == {s[i] : i \in DOMAIN s}

\* A sequence without one of its elements.
Place(s, d)   == CHOOSE i \in DOMAIN s : s[i] = d
Without(s, d) == SubSeq(s, 1, Place(s, d) - 1) \o SubSeq(s, Place(s, d) + 1, Len(s))

Init ==
    /\ row = [d \in Deliveries |-> [status |-> "none", attempts |-> 0]]
    /\ due = <<>>
    /\ batch = <<>>
    /\ step = "idle"
    /\ url \in SUBSET Integrations
    /\ faults = 0
    /\ calls = [d \in Deliveries |-> 0]
    /\ told = {}
    /\ hopeless = {}

Fault == faults < MaxFaults /\ faults' = faults + 1

-----------------------------------------------------------------------------
\* Around the dispatcher.

\* Due at once, if the integration wants to hear of it.
QueueWebhook(d) ==
    /\ row[d].status = "none" /\ Owner[d] \in url
    /\ row' = [row EXCEPT ![d].status = "pending"]
    /\ due' = Append(due, d)
    /\ UNCHANGED <<dispatcher, url, faults, ghosts>>

UpdateEndpoints(i) ==
    /\ url' \in {url \cup {i}, url \ {i}}
    /\ UNCHANGED <<row, due, dispatcher, faults, ghosts>>

WaitPasses(d) ==
    /\ row[d].status = "pending" /\ d \notin Elements(due)
    /\ due' = Append(due, d)
    /\ UNCHANGED <<row, dispatcher, url, faults, ghosts>>

-----------------------------------------------------------------------------
\* The dispatcher.

\* Mutant: it waits until there is a whole batch.
DueWebhooksFull == IF Len(due) < BatchLimit THEN <<>> ELSE SubSeq(due, 1, BatchLimit)

DueWebhooks == SubSeq(due, 1, IF Len(due) < BatchLimit THEN Len(due) ELSE BatchLimit)

Drain ==
    /\ step = "idle" /\ DueWebhooks # <<>>
    /\ batch' = DueWebhooks
    /\ step' = "lookup"
    /\ UNCHANGED <<row, due, url, faults, ghosts>>

\* The integration is read, its URL looked at, and its keys opened.  Any error
\* of these is taken for one that no retry can mend.
Lookup ==
    /\ step = "lookup"
    /\ LET d == Head(batch)
       IN  \/ Owner[d] \in url /\ step' = "send" /\ UNCHANGED <<faults, hopeless>>
           \/ /\ Owner[d] \notin url /\ step' = "giveUp"
              /\ hopeless' = hopeless \cup {d} /\ UNCHANGED faults
           \/ Fault /\ step' = "giveUp" /\ UNCHANGED hopeless
    /\ UNCHANGED <<row, due, batch, url, calls, told>>

\* Mutant: any answer is an acceptance.
AnswersAny == {"accepts", "refuses"} \X {"delivered", "retry"}

\* Whether the integrator accepts, and what the dispatcher makes of it: it may
\* accept and its answer come too late.
Answers == {<<"accepts", "delivered">>, <<"accepts", "retry">>, <<"refuses", "retry">>}

Send ==
    /\ step = "send"
    /\ LET d == Head(batch)
       IN  \E a \in Answers :
             /\ calls' = [calls EXCEPT ![d] = @ + 1]
             /\ told' = IF a[1] = "accepts" THEN told \cup {d} ELSE told
             /\ step' = a[2]
    /\ UNCHANGED <<row, due, batch, url, faults, hopeless>>

NextInBatch ==
    /\ batch' = Tail(batch)
    /\ step' = IF Len(batch) > 1 THEN "lookup" ELSE "idle"

\* A row whose status or time is written leaves the due ones; one whose update
\* failed stays where it was.
Mark(d, status) ==
    /\ row' = [row EXCEPT ![d] = [status |-> status, attempts |-> @.attempts + 1]]
    /\ due' = Without(due, d)
    /\ UNCHANGED faults

MarkFails == Fault /\ UNCHANGED <<row, due>>

MarkWebhookDelivered ==
    /\ step = "delivered"
    /\ Mark(Head(batch), "delivered") \/ MarkFails
    /\ NextInBatch
    /\ UNCHANGED <<url, ghosts>>

\* Mutant: the attempt just made is not counted.
ExhaustedLate(d) == step = "giveUp" \/ row[d].attempts > Waits - 1

\* fail: whether this was the last attempt.
Exhausted(d) == step = "giveUp" \/ row[d].attempts >= Waits - 1

MarkWebhookRetry ==
    /\ step \in {"retry", "giveUp"}
    /\ LET d == Head(batch)
       IN  \/ Mark(d, IF Exhausted(d) THEN "exhausted" ELSE "pending")
           \/ MarkFails
    /\ NextInBatch
    /\ UNCHANGED <<url, ghosts>>

Dispatch == Drain \/ Lookup \/ Send \/ MarkWebhookDelivered \/ MarkWebhookRetry

\* The server stops and starts again.
Crash ==
    /\ Fault
    /\ step # "idle" /\ step' = "idle"
    /\ batch' = <<>>
    /\ UNCHANGED <<row, due, url, ghosts>>

Next ==
    \/ \E d \in Deliveries : QueueWebhook(d) \/ WaitPasses(d)
    \/ \E i \in Integrations : UpdateEndpoints(i)
    \/ Dispatch
    \/ Crash

Spec == Init /\ [][Next]_vars

\* The ticker drains the queue every 20 seconds, a drain goes on to its end,
\* and time passes.
Fairness == WF_vars(Dispatch) /\ \A d \in Deliveries : WF_vars(WaitPasses(d))

FairSpec == Spec /\ Fairness

-----------------------------------------------------------------------------
(* Properties *)

TypeOK ==
    /\ row \in [Deliveries -> [status : DeliveryStatus, attempts : Nat]]
    /\ due \in Seq(Deliveries)
    /\ batch \in Seq(Deliveries)
    /\ step \in {"idle", "lookup", "send", "delivered", "retry", "giveUp"}
    /\ url \subseteq Integrations
    /\ faults \in 0 .. MaxFaults
    /\ calls \in [Deliveries -> Nat]
    /\ told \subseteq Deliveries
    /\ hopeless \subseteq Deliveries

\* The dispatcher works on what is due, once each, and what is due is pending.
Distinct(s) == \A i, j \in DOMAIN s : s[i] = s[j] => i = j

QueueOK ==
    /\ Distinct(due) /\ Distinct(batch)
    /\ step = "idle" <=> batch = <<>>
    /\ Elements(batch) \subseteq Elements(due)
    /\ \A d \in Elements(due) : row[d].status = "pending"
    /\ step = "delivered" => Head(batch) \in told

\* A call that is not counted on the row yet.
Uncounted(d) == IF step \in {"delivered", "retry"} /\ d = Head(batch) THEN 1 ELSE 0

CountOK ==
    \A d \in Deliveries :
        /\ calls[d] <= row[d].attempts + faults + Uncounted(d)
        /\ row[d].status = "none" => row[d].attempts = 0
        /\ row[d].status = "pending" => row[d].attempts < Waits
        /\ row[d].attempts <= Waits

\* The invariant the proofs carry: batch, queue and table agree, and no call
\* goes uncounted without a fault.
DeliveryInv == TypeOK /\ QueueOK /\ CountOK

\* However restarts and failed updates fall, an integrator is called at most
\* once for each wait in the schedule, plus once for each fault that lost the
\* count of a call (fail, MarkWebhookRetry).
CallsBounded == \A d \in Deliveries : calls[d] <= Waits + faults

Promise == INSTANCE Outbox WITH fate <- [d \in Deliveries |-> row[d].status]

\* The queue keeps the promise of Outbox: a delivery marked delivered was
\* accepted, and one that is settled is never sent or settled again.
KeepsPromise == Promise!Spec

\* Nothing stays in the queue for ever: whatever integrators answer, whatever
\* else is due, a notification is delivered or given up.
Settles == \A d \in Deliveries :
    row[d].status = "pending" ~> row[d].status \in {"delivered", "exhausted"}

-----------------------------------------------------------------------------
(* What the documents say and the code does not do *)

\* INTEGRATION.md, "retried after 30s, 2m, 10m, 1h, 6h and 24h, then given up
\* on": a notification that is given up for being refused has been retried once
\* after each of the waits.
RetriedOnSchedule ==
    \A d \in Deliveries :
        row[d].status = "exhausted" /\ d \notin hopeless => calls[d] = Waits + 1

\* webhooks.go, "permanent marks the failures no retry can fix": a
\* notification is given up for want of a URL or after its attempts, and for
\* nothing that passes.
GivenUpForCause ==
    \A d \in Deliveries :
        row[d].status = "exhausted" => d \in hopeless \/ row[d].attempts = Waits
=============================================================================
