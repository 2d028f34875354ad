------------------------------ MODULE LiveReview ------------------------------
(***************************************************************************)
(* The bank's review of requests for live credentials: several             *)
(* administrators at their screens (screens/AdminLiveRequests.tsx), and    *)
(* what the server does with a decision (integration_portal_handlers.go).  *)
(*                                                                         *)
(* Each request is of an integration of its own.                           *)
(***************************************************************************)
EXTENDS Naturals

CONSTANTS
    Requests,       \* the requests, made or not yet
    Admins,         \* administrators, each at a screen
    Calls,          \* calls one screen may have under way together
    MaxFaults       \* calls lost on the way there or back, and writes that fail

\* What the constants are to be; Screens assumes it of its instances.
ConstantsFit == MaxFaults \in Nat

Tabs == {"pending", "approved", "rejected"}

VARIABLES
    status,     \* of each request: "none", or the tab it belongs to
    live,       \* whether its integration has live credentials
    told,       \* ghost: the decision each administrator was told is recorded
    tab, shown, loading,    \* each screen: its tab, and the requests on it, as they were read
    confirming, busy,       \* each card: "Yes, issue live credentials" is asked; a decision under way
    call,       \* the calls each screen has under way
    faults

server == <<status, live>>
cards  == <<confirming, busy>>
vars   == <<server, told, tab, shown, loading, cards, call, faults>>

Free == [step |-> "free", kind |-> "load", tab |-> "pending", request |-> "none",
         verdict |-> "approved", card |-> TRUE, answer |-> {}]
Load(t) == [Free EXCEPT !.step = "sent", !.tab = t]

Init ==
    /\ status \in [Requests -> {"none", "pending"}]
    /\ live = [r \in Requests |-> FALSE] /\ told = [a \in Admins |-> [r \in Requests |-> "none"]]
    /\ tab = [a \in Admins |-> "pending"] /\ shown = [a \in Admins |-> {}]
    /\ loading = [a \in Admins |-> TRUE]
    /\ confirming = [a \in Admins |-> [r \in Requests |-> FALSE]]
    /\ busy = [a \in Admins |-> [r \in Requests |-> FALSE]]
    /\ \E c \in Calls : call = [a \in Admins |-> [d \in Calls |-> IF d = c THEN Load("pending") ELSE Free]]
    /\ faults = 0

\* One call of a screen goes on to `next'; the others go on too, without the cards that
\* are gone.
Go(a, c, next, gone) ==
    call' = [call EXCEPT ![a] = [d \in Calls |->
                IF d = c THEN next ELSE [call[a][d] EXCEPT !.card = @ /\ call[a][d].request \notin gone]]]

\* Reading the tab: the list is gone, and its cards with it, until the answer is there.
Clear(a) ==
    /\ shown' = [shown EXCEPT ![a] = {}] /\ loading' = [loading EXCEPT ![a] = TRUE]
    /\ confirming' = [confirming EXCEPT ![a] = [r \in Requests |-> FALSE]]
    /\ busy' = [busy EXCEPT ![a] = [r \in Requests |-> FALSE]]

\* A card is there for a request the list has; it offers a decision while it reads pending.
Undecided(a, r) == [request |-> r, status |-> "pending"] \in shown[a]

-----------------------------------------------------------------------------
\* handleRequestLive, from an integrator's screen.
Ask(r) ==
    /\ status[r] = "none"
    /\ status' = [status EXCEPT ![r] = "pending"]
    /\ UNCHANGED <<live, told, tab, shown, loading, cards, call, faults>>

ChooseTab(a, t) ==
    /\ t # tab[a] /\ tab' = [tab EXCEPT ![a] = t]
    /\ Clear(a)
    /\ \E c \in Calls : call[a][c] = Free /\ Go(a, c, Load(t), Requests)
    /\ UNCHANGED <<server, told, faults>>

Approve(a, r) ==
    /\ Undecided(a, r) /\ ~confirming[a][r] /\ ~busy[a][r]
    /\ confirming' = [confirming EXCEPT ![a][r] = TRUE]
    /\ UNCHANGED <<server, told, tab, shown, loading, busy, call, faults>>

Cancel(a, r) ==
    /\ Undecided(a, r) /\ confirming[a][r]
    /\ confirming' = [confirming EXCEPT ![a][r] = FALSE]
    /\ UNCHANGED <<server, told, tab, shown, loading, busy, call, faults>>

\* decide: rejecting takes a note, approving a second press.
Decide(a, r, verdict) ==
    /\ Undecided(a, r) /\ ~busy[a][r] /\ (verdict = "approved" <=> confirming[a][r])
    /\ busy' = [busy EXCEPT ![a][r] = TRUE]
    /\ \E c \in Calls :
          /\ call[a][c] = Free
          /\ call' = [call EXCEPT ![a][c] = [Load(tab[a]) EXCEPT
                        !.kind = "review", !.request = r, !.verdict = verdict]]
    /\ UNCHANGED <<server, told, tab, shown, loading, confirming, faults>>

-----------------------------------------------------------------------------
Screens == <<tab, shown, loading, cards>>
At(a, c, kind, step) == call[a][c].kind = kind /\ call[a][c].step = step
Reply(a, c, step)    == call' = [call EXCEPT ![a][c].step = step]

\* A tab, as the server has it.
Listed(t) == {[request |-> r, status |-> status[r]] : r \in {q \in Requests : status[q] = t}}

\* handleListLiveRequests
ServeLoad(a, c) ==
    /\ At(a, c, "load", "sent")
    /\ call' = [call EXCEPT ![a][c] = [@ EXCEPT !.step = "ok", !.answer = Listed(call[a][c].tab)]]
    /\ UNCHANGED <<server, told, Screens, faults>>

\* Mutant: the decision is recorded whether or not the request is still open.
RecordAlways(a, c) ==
    /\ At(a, c, "review", "sent")
    /\ status' = [status EXCEPT ![call[a][c].request] = call[a][c].verdict]
    /\ Reply(a, c, IF call[a][c].verdict = "approved" THEN "recorded" ELSE "ok")
    /\ UNCHANGED <<live, told, Screens, faults>>

\* ReviewLiveRequest, "conditional on the request still being open".
Record(a, c) ==
    LET r == call[a][c].request IN
    /\ At(a, c, "review", "sent")
    /\ IF status[r] = "pending"
       THEN /\ status' = [status EXCEPT ![r] = call[a][c].verdict]
            /\ Reply(a, c, IF call[a][c].verdict = "approved" THEN "recorded" ELSE "ok")
       ELSE UNCHANGED status /\ Reply(a, c, "refused")
    /\ UNCHANGED <<live, told, Screens, faults>>

\* The live integration is a write of its own, after the decision.
MakeLive(a, c) ==
    /\ At(a, c, "review", "recorded")
    /\ live' = [live EXCEPT ![call[a][c].request] = TRUE]
    /\ Reply(a, c, "ok")
    /\ UNCHANGED <<status, told, Screens, faults>>

\* A write that fails, or a call or an answer that is lost.
Fail(a, c) ==
    /\ call[a][c].step \in {"sent", "recorded", "ok"} /\ faults < MaxFaults
    /\ Reply(a, c, "refused")
    /\ faults' = faults + 1
    /\ UNCHANGED <<server, told, Screens>>

-----------------------------------------------------------------------------
\* Mutant: a list that could not be read is not shown as empty.
TakeLoadRead(a, c) ==
    /\ call[a][c].kind = "load" /\ call[a][c].step \in {"ok", "refused"}
    /\ IF call[a][c].step = "ok"
       THEN /\ shown' = [shown EXCEPT ![a] = call[a][c].answer]
            /\ loading' = [loading EXCEPT ![a] = FALSE]
       ELSE UNCHANGED <<shown, loading>>
    /\ Go(a, c, Free, {})
    /\ UNCHANGED <<server, told, tab, cards, faults>>

\* A list is shown whichever tab it was asked for.
TakeLoad(a, c) ==
    /\ call[a][c].kind = "load" /\ call[a][c].step \in {"ok", "refused"}
    /\ LET list == IF call[a][c].step = "ok" THEN call[a][c].answer ELSE {}
           gone == Requests \ {x.request : x \in list}
       IN  /\ shown' = [shown EXCEPT ![a] = list]
           /\ confirming' = [confirming EXCEPT ![a] = [r \in Requests |-> @[r] /\ r \notin gone]]
           /\ busy' = [busy EXCEPT ![a] = [r \in Requests |-> @[r] /\ r \notin gone]]
           /\ Go(a, c, Free, gone)
    /\ loading' = [loading EXCEPT ![a] = FALSE]
    /\ UNCHANGED <<server, told, tab, faults>>

\* The decision is recorded: onDone reads again the tab it was taken on.
TakeDone(a, c) ==
    /\ At(a, c, "review", "ok")
    /\ told' = [told EXCEPT ![a][call[a][c].request] = call[a][c].verdict]
    /\ Clear(a)
    /\ Go(a, c, Load(call[a][c].tab), Requests)
    /\ UNCHANGED <<server, tab, faults>>

TakeRefusal(a, c) ==
    /\ At(a, c, "review", "refused")
    /\ IF call[a][c].card
       THEN /\ confirming' = [confirming EXCEPT ![a][call[a][c].request] = FALSE]
            /\ busy' = [busy EXCEPT ![a][call[a][c].request] = FALSE]
       ELSE UNCHANGED cards
    /\ call' = [call EXCEPT ![a][c] = Free]
    /\ UNCHANGED <<server, told, tab, shown, loading, faults>>

-----------------------------------------------------------------------------
Serve(a, c) == ServeLoad(a, c) \/ Record(a, c) \/ MakeLive(a, c) \/ Fail(a, c)
Take(a, c)  == TakeLoad(a, c) \/ TakeDone(a, c) \/ TakeRefusal(a, c)

Next ==
    \/ \E r \in Requests : Ask(r)
    \/ \E a \in Admins :
          \/ \E t \in Tabs : ChooseTab(a, t)
          \/ \E r \in Requests : Approve(a, r) \/ Cancel(a, r)
          \/ \E r \in Requests, v \in {"approved", "rejected"} : Decide(a, r, v)
          \/ \E c \in Calls : Serve(a, c) \/ Take(a, c)

Spec == Init /\ [][Next]_vars

\* Every call is answered, if only by a timeout.
FairSpec == Spec /\ \A a \in Admins, c \in Calls : WF_vars(Serve(a, c) \/ Take(a, c))

-----------------------------------------------------------------------------
Entry == [request : Requests, status : Tabs]

CallRecord ==
    [step : {"free", "sent", "recorded", "ok", "refused"}, kind : {"load", "review"}, tab : Tabs,
     request : Requests \cup {"none"}, verdict : {"approved", "rejected"},
     card : BOOLEAN, answer : SUBSET Entry]
CardsFit ==
    /\ confirming \in [Admins -> [Requests -> BOOLEAN]]
    /\ busy \in [Admins -> [Requests -> BOOLEAN]]

\* The types of the variables.
TypeOK ==
    /\ status \in [Requests -> Tabs \cup {"none"}] /\ live \in [Requests -> BOOLEAN]
    /\ told \in [Admins -> [Requests -> {"none", "approved", "rejected"}]]
    /\ tab \in [Admins -> Tabs] /\ shown \in [Admins -> SUBSET Entry]
    /\ loading \in [Admins -> BOOLEAN] /\ CardsFit
    /\ call \in [Admins -> [Calls -> CallRecord]] /\ faults \in 0..MaxFaults

\* "Two administrators working the same queue cannot both decide it": whoever was told a
\* decision is recorded was told the one that stands.
ToldStands == \A a \in Admins, r \in Requests : told[a][r] # "none" => told[a][r] = status[r]

\* ... and only one of them was.
DecidedByOne ==
    \A r \in Requests, a, b \in Admins : told[a][r] # "none" /\ told[b][r] # "none" => a = b

\* Whatever calls cross, an integration moves real money only after the bank's approval of
\* its request, and never after a rejection.
LiveIsApproved == \A r \in Requests : live[r] => status[r] = "approved"

\* All three.
ReviewTrue == ToldStands /\ DecidedByOne /\ LiveIsApproved

\* A screen says "Loading..." only while the list is on its way, or a decision is.
LoadingHonest == \A a \in Admins : loading[a] => \E c \in Calls : call[a][c] # Free
LoadingEnds   == \A a \in Admins : loading[a] ~> ~loading[a]

\* A card's buttons are off only while its own decision is under way.
BusyHonest ==
    \A a \in Admins, r \in Requests : busy[a][r] =>
        \E c \in Calls : call[a][c].kind = "review" /\ call[a][c].request = r /\ call[a][c].card

Quiet(a) == \A c \in Calls : call[a][c] = Free

\* "Approved - live credentials issued": said, once everyone was answered, of requests
\* whose credentials exist.
ApprovedIsLive ==
    (\A a \in Admins : Quiet(a)) =>
        \A a \in Admins, r \in Requests :
            [request |-> r, status |-> "approved"] \in shown[a] => live[r]

\* "Requests appear here when an integrator asks to go live": once it was answered, a
\* screen lists the requests of the tab it is on.
ListIsOfTab == \A a \in Admins : Quiet(a) => \A x \in shown[a] : x.status = tab[a]

-----------------------------------------------------------------------------
(* The inductive invariant *)

\* The call of a screen whose decision was recorded, and who has not heard of it yet.
Recorded(a, c, r) ==
    call[a][c].kind = "review" /\ call[a][c].request = r /\ call[a][c].step \in {"recorded", "ok"}

\* A decision under way is about a request that was made; one that is recorded stands.
DecisionsFit ==
    \A a \in Admins, c \in Calls : call[a][c].step # "free" /\ call[a][c].kind = "review" =>
        /\ call[a][c].request \in Requests
        /\ call[a][c].step \in {"recorded", "ok"} => status[call[a][c].request] = call[a][c].verdict
        /\ call[a][c].step = "recorded" => call[a][c].verdict = "approved"

\* Only a review has a decision recorded.
StepsFit == \A a \in Admins, c \in Calls : call[a][c].step = "recorded" => call[a][c].kind = "review"

\* Nothing is recorded of a request that is open.
OpenIsOpen ==
    \A r \in Requests : status[r] \in {"none", "pending"} =>
        \A a \in Admins : told[a][r] = "none" /\ \A c \in Calls : ~Recorded(a, c, r)

\* One decision is recorded of a request: an administrator was told of it, or a call is to tell.
OneDecision ==
    \A r \in Requests, a \in Admins, b \in Admins :
        /\ told[a][r] # "none" /\ told[b][r] # "none" => a = b
        /\ told[a][r] # "none" => \A d \in Calls : ~Recorded(b, d, r)
        /\ \A c \in Calls, d \in Calls : Recorded(a, c, r) /\ Recorded(b, d, r) => a = b /\ c = d

\* What a screen waits for is on its way: a list, and the decision of a card.
LoadsComing ==
    \A a \in Admins : loading[a] =>
        \E c \in Calls : call[a][c].kind = "load" /\ call[a][c].step # "free"

ScreensWait == LoadsComing /\ BusyHonest

IInv ==
    /\ TypeOK
    /\ DecisionsFit /\ StepsFit
    /\ OpenIsOpen /\ OneDecision
    /\ ToldStands /\ LiveIsApproved
=============================================================================
