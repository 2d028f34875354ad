-------------------------------- MODULE Outbox --------------------------------
(***************************************************************************)
(* What the notification queue promises an integrator, without saying how: *)
(* a notification is sent only while its fate is open, its fate is decided *)
(* once, and it is called delivered only if the integrator accepted it.    *)
(* It may be accepted several times; it may be accepted and still be given *)
(* up.                                                                     *)
(***************************************************************************)
EXTENDS Naturals

CONSTANT Deliveries     \* the notifications there may be

VARIABLES
    fate,   \* "none" before it is queued, then "pending", then final
    calls,  \* how often the integrator has been called
    told    \* the notifications he has accepted

Fates == {"none", "pending", "delivered", "exhausted"}

Init ==
    /\ fate = [d \in Deliveries |-> "none"]
    /\ calls = [d \in Deliveries |-> 0]
    /\ told = {}

Queue(d) ==
    /\ fate[d] = "none"
    /\ fate' = [fate EXCEPT ![d] = "pending"]
    /\ UNCHANGED <<calls, told>>

Call(d) ==
    /\ fate[d] = "pending"
    /\ calls' = [calls EXCEPT ![d] = @ + 1]
    /\ told' \in {told, told \cup {d}}
    /\ UNCHANGED fate

Confirm(d) ==
    /\ fate[d] = "pending" /\ d \in told
    /\ fate' = [fate EXCEPT ![d] = "delivered"]
    /\ UNCHANGED <<calls, told>>

GiveUp(d) ==
    /\ fate[d] = "pending"
    /\ fate' = [fate EXCEPT ![d] = "exhausted"]
    /\ UNCHANGED <<calls, told>>

Next == \E d \in Deliveries : Queue(d) \/ Call(d) \/ Confirm(d) \/ GiveUp(d)

Spec == Init /\ [][Next]_<<fate, calls, told>>
=============================================================================
