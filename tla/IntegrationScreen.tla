------------------------------ MODULE IntegrationScreen ------------------------------
(***************************************************************************)
(* Where an integrator manages the credentials of a system that calls the  *)
(* API (screens/Integrations.tsx), with what the server does of it         *)
(* (integration_portal_handlers.go, store/integrations.go).                *)
(*                                                                         *)
(* One integrator and one name: a test integration, and the live one that  *)
(* a granted request makes.  Secrets are numbered in the order they are    *)
(* issued; the newest of an integration is the one that works.             *)
(***************************************************************************)
EXTENDS Naturals, Sequences

CONSTANTS
    Calls,          \* calls that may be under way together
    Hurried,        \* whether the person acts, or leaves, while a call is under way
    MaxSecrets,     \* secrets issued of one integration
    MaxRequests,    \* requests for live credentials
    MaxFaults       \* calls lost on the way there or back, and writes that fail

Envs == {"test", "live"}

\* What the constants are to be; Screens assumes it of its instances.
ConstantsFit == MaxSecrets \in Nat \ {0} /\ MaxRequests \in Nat /\ MaxFaults \in Nat

VARIABLES
    secret,     \* the number of each integration's secret; 0 when it does not exist
    requests,   \* the requests for live credentials, in the order they were made
    here,       \* whether the screen is mounted
    list,       \* what it last read, "none" of an integration it did not find
    loading,    \* nothing has been read yet
    creating,   \* the "Creating..." of the button
    busy,       \* each card's one word for what is under way
    issued,     \* the secret each panel shows; 0 when there is no panel
    ack,        \* the secret on show when its "I have copied all three" was ticked
    inHand,     \* ghost: the newest secret of each that was acknowledged
    cut,        \* ghost: the integrations a session's end may have taken the newest secret of
    call,
    faults

server == <<secret, requests>>
panels == <<issued, ack, inHand, cut>>
vars   == <<server, here, list, loading, creating, busy, panels, call, faults>>

\* A new integration's panel belongs to the screen, a rotated one's to its card.
Panels == {"new"} \cup Envs
Of(p) == IF p = "new" THEN "test" ELSE p

-----------------------------------------------------------------------------
Acts == {"rotate", "endpoints", "live"}
Free == [step |-> "free", kind |-> "load", env |-> "test", card |-> TRUE, secret |-> 0,
         view |-> [e \in Envs |-> "none"], latest |-> "none"]
Idle == \A c \in Calls : call[c] = Free
Sent(kind, e) == [Free EXCEPT !.step = "sent", !.kind = kind, !.env = e]

NoView == [shown |-> [e \in Envs |-> "none"], latest |-> "none"]

Init ==
    /\ secret = [e \in Envs |-> 0] /\ requests = <<>>
    /\ here = TRUE /\ list = NoView /\ loading = TRUE /\ creating = FALSE
    /\ busy = [e \in Envs |-> "none"]
    /\ issued = [p \in Panels |-> 0] /\ ack = [p \in Panels |-> 0]
    /\ inHand = [e \in Envs |-> 0] /\ cut = {}
    /\ \E c \in Calls : call = [d \in Calls |-> IF d = c THEN Sent("load", "test") ELSE Free]
    /\ faults = 0

\* viewIntegration: the request it looks for is the open one.
Pending == \E i \in DOMAIN requests : requests[i] = "pending"
View == [e \in Envs |-> IF secret[e] = 0 THEN "none"
                        ELSE IF e = "live" THEN "live"
                        ELSE IF Pending THEN "pending" ELSE "idle"]
Latest == IF requests = <<>> THEN "none" ELSE requests[Len(requests)]

Card(e) == here /\ list.shown[e] # "none"
\* A panel covers the screen: nothing behind it can be pressed.
Uncovered == here /\ \A p \in Panels : issued[p] = 0
\* One call goes on; the others stay.
Turn(c, next) == call' = [call EXCEPT ![c] = next]
Press(kind, e) ==
    /\ Uncovered /\ (Hurried \/ Idle)
    /\ \E c \in Calls : call[c] = Free /\ Turn(c, Sent(kind, e))

-----------------------------------------------------------------------------
Create ==
    /\ Press("create", "test") /\ ~creating
    /\ creating' = TRUE
    /\ UNCHANGED <<server, here, list, loading, busy, panels, faults>>

\* act: the one word is written over, whatever else is under way.
Act(kind, e) ==
    /\ Card(e) /\ busy[e] # kind /\ Press(kind, e)
    /\ busy' = [busy EXCEPT ![e] = kind]
    /\ UNCHANGED <<server, here, list, loading, creating, panels, faults>>

SaveEndpoints(e) == Act("endpoints", e)
Rotate(e)        == Act("rotate", e)
GoLive           == list.shown["test"] = "idle" /\ Act("live", "test")

\* The panel's checkbox, and the Done it enables.
Acknowledge(p) ==
    /\ here /\ issued[p] # 0 /\ ack[p] = 0
    /\ ack' = [ack EXCEPT ![p] = issued[p]]
    /\ inHand' = [inHand EXCEPT ![Of(p)] = issued[p]]
    /\ UNCHANGED <<server, here, list, loading, creating, busy, issued, cut, call, faults>>

\* Mutant: Done closes the panel before anything was ticked.
DoneAnyTime(p) ==
    /\ here /\ issued[p] # 0
    /\ issued' = [issued EXCEPT ![p] = 0]
    /\ ack' = [ack EXCEPT ![p] = 0]
    /\ UNCHANGED <<server, here, list, loading, creating, busy, inHand, cut, call, faults>>

Done(p) ==
    /\ here /\ issued[p] # 0 /\ ack[p] # 0
    /\ issued' = [issued EXCEPT ![p] = 0]
    /\ ack' = [ack EXCEPT ![p] = 0]
    /\ UNCHANGED <<server, here, list, loading, creating, busy, inHand, cut, call, faults>>

\* "Developer docs" and the menu; the screen that comes back has nothing of this one.
Leave ==
    /\ Uncovered /\ (Hurried \/ Idle)
    /\ here' = FALSE
    /\ UNCHANGED <<server, list, loading, creating, busy, panels, call, faults>>

\* Panels not ticked, and the calls that would bring a secret, by whose it is.
Unseen == {Of(p) : p \in {q \in Panels : issued[q] # 0 /\ ack[q] = 0}} \cup
          {call[c].env : c \in {d \in Calls : call[d].kind \in {"create", "rotate"}}}

\* The session ends by itself: left idle, out of time or taken over elsewhere, whatever is
\* on the screen or under way.  (What it takes is kept account of for whoever waits.)
SessionEnds ==
    /\ here
    /\ here' = FALSE
    /\ issued' = [p \in Panels |-> 0] /\ ack' = [p \in Panels |-> 0]
    /\ cut' = IF Hurried THEN cut ELSE cut \cup Unseen
    /\ UNCHANGED <<server, list, loading, creating, busy, inHand, call, faults>>

\* Once what was under way has been answered.
Return ==
    /\ ~here /\ Idle
    /\ here' = TRUE /\ list' = NoView /\ loading' = TRUE
    /\ creating' = FALSE /\ busy' = [e \in Envs |-> "none"]
    /\ \E c \in Calls : Turn(c, Sent("load", "test"))
    /\ UNCHANGED <<server, panels, faults>>

-----------------------------------------------------------------------------
Screen  == <<here, list, loading, creating, busy, panels>>
At(c, kind, step) == call[c].kind = kind /\ call[c].step = step
Answer(c, step)   == call' = [call EXCEPT ![c].step = step]

ServeLoad(c) ==
    /\ At(c, "load", "sent")
    /\ call' = [call EXCEPT ![c].step = "ok", ![c].view = View, ![c].latest = Latest]
    /\ UNCHANGED <<server, Screen, faults>>

\* A secret is issued, and the call answered with it.
Issue(c, e, n) ==
    /\ secret' = [secret EXCEPT ![e] = n] /\ UNCHANGED requests
    /\ call' = [call EXCEPT ![c].step = "ok", ![c].secret = n]

\* A name is taken once.
ServeCreate(c) ==
    /\ At(c, "create", "sent")
    /\ IF secret["test"] # 0
       THEN Answer(c, "refused") /\ UNCHANGED server
       ELSE Issue(c, "test", 1)
    /\ UNCHANGED <<Screen, faults>>

\* The secret before stops working as this one is issued; a screen that is there waits
\* for it.
ServeRotate(c) ==
    LET e == call[c].env IN
    /\ At(c, "rotate", "sent") /\ secret[e] < MaxSecrets
    /\ Issue(c, e, secret[e] + 1)
    /\ cut' = IF here THEN cut \ {e} ELSE cut
    /\ UNCHANGED <<here, list, loading, creating, busy, issued, ack, inHand, faults>>

ServeEndpoints(c) ==
    /\ At(c, "endpoints", "sent")
    /\ \E step \in {"ok", "refused"} : Answer(c, step)
    /\ UNCHANGED <<server, Screen, faults>>

\* handleRequestLive looks for a live integration and an open request, and for a test
\* payment, before it writes.
CheckAsk(c) ==
    /\ At(c, "live", "sent")
    /\ \/ secret["live"] = 0 /\ ~Pending /\ Len(requests) < MaxRequests /\ Answer(c, "checked")
       \/ Answer(c, "refused")
    /\ UNCHANGED <<server, Screen, faults>>

\* Mutant: the request is written without a status.
WriteAskUnset(c) ==
    /\ At(c, "live", "checked")
    /\ requests' = Append(requests, "")
    /\ Answer(c, "ok")
    /\ UNCHANGED <<secret, Screen, faults>>

WriteAsk(c) ==
    /\ At(c, "live", "checked")
    /\ requests' = Append(requests, "pending")
    /\ Answer(c, "ok")
    /\ UNCHANGED <<secret, Screen, faults>>

\* The bank decides: an approval is recorded, and then makes the live integration, which
\* fails if there is one already.
Decide(i) ==
    /\ requests[i] = "pending"
    /\ \/ /\ requests' = [requests EXCEPT ![i] = "approved"]
          /\ secret' = [secret EXCEPT !["live"] = IF @ = 0 THEN 1 ELSE @]
          /\ UNCHANGED faults
       \/ /\ faults < MaxFaults /\ faults' = faults + 1
          /\ requests' = [requests EXCEPT ![i] = "approved"] /\ UNCHANGED secret
       \/ /\ requests' = [requests EXCEPT ![i] = "rejected"] /\ UNCHANGED <<secret, faults>>
    /\ UNCHANGED <<Screen, call>>

\* No answer: with the change made, or without.
Lose(c) ==
    /\ call[c].step \in {"sent", "checked", "ok"} /\ faults < MaxFaults
    /\ Answer(c, "refused")
    /\ faults' = faults + 1
    /\ UNCHANGED <<server, Screen>>

-----------------------------------------------------------------------------
\* The list is what came back last; after a failure it is empty.  A card it does not have
\* is gone, with the panel on it, and what that card asked for has nowhere to show.
ShowList(c, v) ==
    LET kept(p) == p = "new" \/ v.shown[p] # "none" IN
    /\ list' = v /\ loading' = FALSE
    /\ issued' = [p \in Panels |-> IF kept(p) THEN issued[p] ELSE 0]
    /\ ack' = [p \in Panels |-> IF kept(p) THEN ack[p] ELSE 0]
    /\ busy' = [e \in Envs |-> IF kept(e) THEN busy[e] ELSE "none"]
    /\ call' = [d \in Calls |->
                  IF d = c THEN Free
                  ELSE [call[d] EXCEPT !.card = @ /\ (call[d].kind \in Acts => kept(call[d].env))]]

\* `create' waits for the list it asks for; what a card does is not waited for.
TakeLoad(c) ==
    /\ here /\ call[c].kind \in {"load", "afterCreate"} /\ call[c].step \in {"ok", "refused"}
    /\ ShowList(c, IF call[c].step = "ok"
                   THEN [shown |-> call[c].view, latest |-> call[c].latest] ELSE NoView)
    /\ creating' = (creating /\ call[c].kind # "afterCreate")
    /\ UNCHANGED <<server, here, inHand, cut, faults>>

ServeAfterCreate(c) ==
    /\ At(c, "afterCreate", "sent")
    /\ call' = [call EXCEPT ![c].step = "ok", ![c].view = View, ![c].latest = Latest]
    /\ UNCHANGED <<server, Screen, faults>>

TakeCreated(c) ==
    /\ here /\ At(c, "create", "ok")
    /\ issued' = [issued EXCEPT !["new"] = call[c].secret]
    /\ Turn(c, Sent("afterCreate", "test"))
    /\ UNCHANGED <<server, here, list, loading, creating, busy, ack, inHand, cut, faults>>

\* What a card does ends in a fresh list, whether the card is still there or not.
TakeActed(c) ==
    LET e == call[c].env IN
    /\ here /\ call[c].kind \in Acts /\ call[c].step = "ok"
    /\ IF call[c].card
       THEN /\ busy' = [busy EXCEPT ![e] = "none"]
            /\ issued' = IF call[c].kind = "rotate" THEN [issued EXCEPT ![e] = call[c].secret] ELSE issued
       ELSE UNCHANGED <<busy, issued>>
    /\ Turn(c, Sent("load", "test"))
    /\ UNCHANGED <<server, here, list, loading, creating, ack, inHand, cut, faults>>

TakeRefusal(c) ==
    /\ here /\ call[c].kind \in {"create"} \cup Acts /\ call[c].step = "refused"
    /\ creating' = (creating /\ call[c].kind # "create")
    /\ busy' = IF call[c].kind \in Acts /\ call[c].card
               THEN [busy EXCEPT ![call[c].env] = "none"] ELSE busy
    /\ Turn(c, Free)
    /\ UNCHANGED <<server, here, list, loading, panels, faults>>

\* Nothing is left to show it; a call that arrives after the session is turned away.
TakeLate(c) ==
    /\ ~here /\ call[c].step \in {"sent", "ok", "refused"}
    /\ Turn(c, Free)
    /\ UNCHANGED <<server, Screen, faults>>

-----------------------------------------------------------------------------
Serve(c) ==
    \/ ServeLoad(c) \/ ServeAfterCreate(c) \/ ServeCreate(c) \/ ServeRotate(c)
    \/ ServeEndpoints(c) \/ CheckAsk(c) \/ WriteAsk(c) \/ Lose(c)
Take(c) == TakeLoad(c) \/ TakeCreated(c) \/ TakeActed(c) \/ TakeRefusal(c) \/ TakeLate(c)

Next ==
    \/ Create \/ GoLive \/ Leave \/ SessionEnds \/ Return
    \/ \E e \in Envs : SaveEndpoints(e) \/ Rotate(e)
    \/ \E p \in Panels : Acknowledge(p) \/ Done(p)
    \/ \E i \in DOMAIN requests : Decide(i)
    \/ \E c \in Calls : Serve(c) \/ Take(c)

Spec == Init /\ [][Next]_vars

\* Every call is answered, if only by a timeout.
FairSpec == Spec /\ \A c \in Calls : WF_vars(Serve(c) \/ Take(c))

-----------------------------------------------------------------------------
CallType ==
    [step : {"free", "sent", "checked", "ok", "refused"},
     kind : {"load", "afterCreate", "create"} \cup Acts,
     env : Envs, card : BOOLEAN, secret : 0..MaxSecrets,
     view : [Envs -> {"none", "idle", "pending", "live"}],
     latest : {"none", "pending", "approved", "rejected"}]

Lists == [shown : [Envs -> {"none", "idle", "pending", "live"}],
          latest : {"none", "pending", "approved", "rejected"}]
\* The types, by whom they belong to.
StoreFits ==
    /\ secret \in [Envs -> 0..MaxSecrets]
    /\ requests \in Seq({"pending", "approved", "rejected"})
ScreenFits ==
    /\ here \in BOOLEAN /\ loading \in BOOLEAN /\ creating \in BOOLEAN
    /\ list \in Lists
    /\ busy \in [Envs -> {"none"} \cup Acts]
PanelsFit ==
    /\ issued \in [Panels -> 0..MaxSecrets] /\ ack \in [Panels -> 0..MaxSecrets]
    /\ inHand \in [Envs -> 0..MaxSecrets] /\ cut \subseteq Envs
CallsFit == call \in [Calls -> CallType]

\* The types of the variables.
TypeOK == StoreFits /\ ScreenFits /\ PanelsFit /\ CallsFit /\ faults \in 0..MaxFaults

\* The calls that make an integration, whose end "Creating..." waits for.
Makes(c) == call[c].kind \in {"create", "afterCreate"}

\* Whatever the order of answers, "Creating..." stays only while its creation, or the
\* list it waits for, is under way; and one creation is under way at a time.
CreatingHonest ==
    here => /\ creating <=> \E c \in Calls : Makes(c)
            /\ \A c, d \in Calls : Makes(c) /\ Makes(d) => c = d

\* One word per card, written over by each press: it still never names a call that has
\* ended, so no button stays off for good.
BusyHonest ==
    here => \A e \in Envs : busy[e] # "none" =>
        \E c \in Calls : call[c].kind = busy[e] /\ call[c].env = e /\ call[c].card

\* "Nothing on the server can produce these a second time": the secret of an integration
\* is in the integrator's hands, on the screen, or on its way there, unless the session
\* ended over it: then until the next is issued.  (A live integration is made with a secret
\* nobody is shown: its first is collected by rotating.)
SecretInHand ==
    \A e \in Envs \ cut : secret[e] > (IF e = "live" THEN 1 ELSE 0) =>
        \/ inHand[e] = secret[e]
        \/ \E p \in Panels : Of(p) = e /\ issued[p] = secret[e]
        \/ \E c \in Calls : call[c].step = "ok" /\ call[c].env = e /\ call[c].secret = secret[e]

\* What a panel shows works, for an integrator who lets one call end before the next.
ShownWorks == \A p \in Panels : issued[p] # 0 => issued[p] = secret[Of(p)]

\* "OpenLiveRequestFor is what stops an integrator queuing the same request many times":
\* there is one open request at a time.
OneOpenRequest == \A i, j \in DOMAIN requests : requests[i] = "pending" /\ requests[j] = "pending" => i = j

\* "Not approved: ... Fix that and ask again": the screen says so when the bank declined.
RejectionShown == list.latest = "rejected" => list.shown["test"] \in {"rejected", "none"}

\* "Deliberately hard to dismiss by accident": a panel goes when it was acknowledged, and
\* neither with a list nor with the session.
PanelStays == [][\A p \in Panels : issued[p] # 0 /\ ack[p] = 0 => issued'[p] # 0]_vars

\* "I have copied all three": said of the secret the panel shows.
CopiedIsShown == \A p \in Panels : ack[p] # 0 => ack[p] = issued[p]
-----------------------------------------------------------------------------
(* The inductive invariant *)

\* What holds for an integrator who lets one call end before the next and loses none: one
\* call is under way, none that brings a secret while the screen is away, but those that a
\* session's end cut off, and no card goes while it waits.
OneUnderWay == \A c, d \in Calls : call[c] # Free /\ call[d] # Free => c = d
AwayCut     == ~here => \A c \in Calls :
                   call[c].kind \in {"create", "rotate"} => call[c].env \in cut
CardsStay   == \A c \in Calls : call[c].card

\* What was pressed was pressed with no panel open.
PressedUncovered ==
    \A c \in Calls : call[c].kind \in {"create"} \cup Acts => \A p \in Panels : issued[p] = 0

\* A call carries a secret when it was answered with one, and that one works.
SecretsCarried ==
    \A c \in Calls :
        /\ call[c].kind = "create" => call[c].env = "test"
        /\ call[c].secret # 0 => call[c].step = "ok" /\ call[c].kind \in {"create", "rotate"}
        /\ call[c].step = "ok" /\ call[c].kind \in {"create", "rotate"} =>
              call[c].secret # 0 /\ call[c].secret = secret[call[c].env]

\* A list that arrives has the card of every panel.
ListsFit ==
    \A c \in Calls : call[c].kind \in {"load", "afterCreate"} =>
        /\ call[c].step # "refused"
        /\ call[c].step = "ok" => \A e \in Envs : issued[e] # 0 => call[c].view[e] # "none"

\* What was ticked is in the integrator's hands.
AckFits == \A p \in Panels : ack[p] # 0 => ack[p] = issued[p] /\ inHand[Of(p)] = issued[p]

PatientInv ==
    /\ OneUnderWay /\ AwayCut /\ CardsStay
    /\ PressedUncovered /\ SecretsCarried /\ ListsFit /\ AckFits
    /\ ShownWorks /\ SecretInHand

IInv ==
    /\ TypeOK
    /\ CreatingHonest /\ BusyHonest
    /\ ~Hurried /\ MaxFaults = 0 => PatientInv
=============================================================================
