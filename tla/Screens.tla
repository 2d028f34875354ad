------------------------------- MODULE Screens -------------------------------
(***************************************************************************)
(* The screens that change what the server holds, side by side: a          *)
(* payment's panel, the gateways' screen, the integrations and the bank's  *)
(* review.  They share no state, so a behaviour runs one of them, chosen   *)
(* at the start; a name that two of them use is one variable here, and a   *)
(* variable the chosen one does not have stays `Off'.                      *)
(*                                                                         *)
(* Two kinds of people use most of them; who they are and what they may do *)
(* are constants, functions of the part that is run.                       *)
(***************************************************************************)
EXTENDS Naturals, Sequences

Connects == {"crossing", "typing"}      \* operators at the gateways' screen
Keys     == {"hasty", "patient"}        \* integrators at theirs
Reviews  == {"desk", "bank"}            \* administrators at the bank's
Parts    == {"panel"} \cup Connects \cup Keys \cup Reviews

CONSTANTS
    CallsOf,        \* of each part: calls that may be under way together
    FaultsOf,       \* of each integrator and review: calls lost and writes that fail
    Total, MaxPanels, MaxIntents, MaxElsewhere, Unheard,    \* of the panel
    TypedBy,        \* of each operator: the gateways whose host and password are known
    HurriedBy, SecretsOf, RequestsOf,       \* of each integrator
    Requests, AdminsOf,                     \* of the reviews
    None

VARIABLES
    part, busy, call,
    loading, error, faults,
    order, row, panel, panels, detail, action, amount, done, intents, moved, elsewhere,
    held, active, portal, page, current, environment, host, password,
    secret, requests, here, list, creating, issued, ack, inHand, cut,
    status, live, told, tab, shown, confirming

Panel == INSTANCE PaymentPanel WITH Calls <- CallsOf["panel"]
Connect(p) == INSTANCE GatewayScreen WITH Calls <- CallsOf[p], Typed <- TypedBy[p]
Key(p) == INSTANCE IntegrationScreen WITH
    Calls <- CallsOf[p], Hurried <- HurriedBy[p], MaxSecrets <- SecretsOf[p],
    MaxRequests <- RequestsOf[p], MaxFaults <- FaultsOf[p]
Review(p) == INSTANCE LiveReview WITH
    Calls <- CallsOf[p], Admins <- AdminsOf[p], MaxFaults <- FaultsOf[p]

ASSUME ConstantsFit ==
    /\ Panel!ConstantsFit
    /\ \A p \in Connects : Connect(p)!ConstantsFit
    /\ \A p \in Keys : Key(p)!ConstantsFit
    /\ \A p \in Reviews : Review(p)!ConstantsFit

panelOnly   == <<order, row, panel, panels, detail, action, amount, done, intents, moved, elsewhere>>
connectOnly == <<held, active, portal, page, current, environment, host, password>>
keysOnly    == <<secret, requests, here, list, creating, issued, ack, inHand, cut>>
reviewOnly  == <<status, live, told, tab, shown, confirming>>
vars == <<part, busy, call, loading, error, faults, panelOnly, connectOnly, keysOnly, reviewOnly>>

-----------------------------------------------------------------------------
Off == "off"
NoPanel ==
    /\ order = Off /\ row = Off /\ panel = Off /\ panels = Off /\ detail = Off /\ action = Off
    /\ amount = Off /\ done = Off /\ intents = Off /\ moved = Off /\ elsewhere = Off
NoConnect ==
    /\ held = Off /\ active = Off /\ portal = Off /\ page = Off
    /\ current = Off /\ environment = Off /\ host = Off /\ password = Off
NoKeys ==
    /\ secret = Off /\ requests = Off /\ here = Off /\ list = Off
    /\ creating = Off /\ issued = Off /\ ack = Off /\ inHand = Off /\ cut = Off
NoReview ==
    status = Off /\ live = Off /\ told = Off /\ tab = Off /\ shown = Off /\ confirming = Off

Init ==
    \/ part = "panel" /\ Panel!Init /\ NoConnect /\ NoKeys /\ NoReview /\ faults = Off
    \/ \E p \in Connects :
          /\ part = p /\ Connect(p)!Init
          /\ NoPanel /\ NoKeys /\ NoReview /\ loading = Off /\ faults = Off
    \/ \E p \in Keys : part = p /\ Key(p)!Init /\ NoPanel /\ NoConnect /\ NoReview /\ error = Off
    \/ \E p \in Reviews : part = p /\ Review(p)!Init /\ NoPanel /\ NoConnect /\ NoKeys /\ error = Off

InPanel(A)      == part = "panel" /\ A /\ UNCHANGED <<part, connectOnly, keysOnly, reviewOnly, faults>>
InConnect(p, A) == part = p /\ A /\ UNCHANGED <<part, panelOnly, keysOnly, reviewOnly, loading, faults>>
InKeys(p, A)    == part = p /\ A /\ UNCHANGED <<part, panelOnly, connectOnly, reviewOnly, error>>
InReview(p, A)  == part = p /\ A /\ UNCHANGED <<part, panelOnly, connectOnly, keysOnly, error>>

Next ==
    \/ InPanel(Panel!Next)
    \/ \E p \in Connects : InConnect(p, Connect(p)!Next)
    \/ \E p \in Keys : InKeys(p, Key(p)!Next)
    \/ \E p \in Reviews : InReview(p, Review(p)!Next)

\* The fairness of PaymentPanel, GatewayScreen and LiveReview: every call is answered.
Fairness ==
    /\ \A c \in CallsOf["panel"] : WF_vars(InPanel(Panel!Serve(c) \/ Panel!Take(c)))
    /\ \A c \in CallsOf["crossing"] :
          WF_vars(InConnect("crossing", Connect("crossing")!Serve(c) \/ Connect("crossing")!Take(c)))
    /\ \A a \in AdminsOf["desk"], c \in CallsOf["desk"] :
          WF_vars(InReview("desk", Review("desk")!Serve(a, c) \/ Review("desk")!Take(a, c)))

Spec == Init /\ [][Next]_vars /\ Fairness

-----------------------------------------------------------------------------
\* The types of the variables of whichever runs.
TypeOK ==
    /\ part = "panel" => Panel!TypeOK
    /\ \A p \in Connects : part = p => Connect(p)!TypeOK
    /\ \A p \in Keys : part = p => Key(p)!TypeOK
    /\ \A p \in Reviews : part = p => Review(p)!TypeOK

\* An action an operator begins moves money once at most (PaymentPanel), as long as no
\* answer is lost.
MovesOnce == part = "panel" /\ ~Unheard => Panel!MovesOnce

\* What the panel says was done was done, and what it says was not was not (PaymentPanel).
PanelTruthful == part = "panel" /\ ~Unheard => Panel!PanelTruthful

\* A gateway is held under its own name, the operator works in one that is held, and the
\* portal and the screen say so (GatewayScreen).
ConnectTrue == \A p \in Connects : part = p => Connect(p)!ConnectTrue

\* A secret that is issued can be collected and works, for an integrator who lets one
\* call end before the next and loses none, unless his session ends over it; and no button
\* stays off for good (IntegrationScreen).
KeysTrue ==
    \A p \in Keys : part = p =>
        /\ Key(p)!CreatingHonest /\ Key(p)!BusyHonest
        /\ ~HurriedBy[p] /\ FaultsOf[p] = 0 => Key(p)!SecretInHand /\ Key(p)!ShownWorks

\* A request is decided once, by one administrator, live credentials follow an approval
\* only, and no card or list waits for nothing (LiveReview).
ReviewTrue ==
    \A p \in Reviews : part = p =>
        Review(p)!ReviewTrue /\ Review(p)!LoadingHonest /\ Review(p)!BusyHonest

\* No screen waits for good (PaymentPanel, GatewayScreen, LiveReview).
ScreensSettle ==
    /\ (part = "panel" /\ panel # 0 /\ (busy \/ loading))
          ~> (part = "panel" /\ (panel = 0 \/ ~(busy \/ loading)))
    /\ (part = "crossing" /\ busy /\ page # "left")
          ~> (part = "crossing" /\ (~busy \/ page = "left"))
    /\ \A a \in AdminsOf["desk"] : (part = "desk" /\ loading[a]) ~> (part = "desk" /\ ~loading[a])

-----------------------------------------------------------------------------
(* The inductive invariant *)

\* That of the part that runs.
Inv ==
    /\ part \in Parts
    /\ part = "panel" => Panel!TypeOK /\ (~Unheard => Panel!IInv)
    /\ \A p \in Connects : part = p => Connect(p)!IInv
    /\ \A p \in Keys : part = p => Key(p)!IInv
    /\ \A p \in Reviews : part = p => Review(p)!IInv /\ Review(p)!ScreensWait
=============================================================================
