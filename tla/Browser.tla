------------------------------- MODULE Browser -------------------------------
(***************************************************************************)
(* What becomes of a person's calls, side by side: the sealed channel, the *)
(* two doors of an account, its session and the clocks of that session;    *)
(* and the two pages of a payer, behind the link and after the gateway's,  *)
(* and the sweep for those who never come back.  They share no state, so a *)
(* behaviour runs one of them, chosen at the start; a name that two of     *)
(* them use is one variable here, and a variable that the chosen one does  *)
(* not have stays `Off'.                                                   *)
(*                                                                         *)
(* There are several pay pages and several pairs of doors: their bills and *)
(* limits are constants, functions of the part that is run.                *)
(***************************************************************************)
EXTENDS Naturals, Sequences

Pages == {"shared", "smooth", "price"}  \* pay pages
Doors == {"signIn", "doors"}            \* an account's
Parts == {"channel", "session", "clock", "back", "sweep"} \cup Pages \cup Doors

CONSTANTS
    FaultsOf,       \* of each part: what may go wrong in it
    Calls,                                              \* of the channel
    Slots, MaxSignIns,                                  \* of the session
    Tabs, Idle, Lifetime, WarnAt, PingFloor, PingCeiling,   \* of its clocks
    BillOf, MaxTyped, SessionsOf,                       \* of each pay page
    Total, MaxPolls, Callback, MaxMoves,                \* of the page after
    Handlers, Names, Username,                          \* of all doors,
    DoorsOf, LimitOf, WindowOf, DurationOf, ResetsOf,   \* and of each pair
    MaxAttempts, Profiles, ProfileOf, SweepBatch, ViewBatch     \* of the sweep

VARIABLES
    part, faults, call, live, session, stored,
    held, aged, opening, handshakes, runs,
    token, reason, takeover, issued, newest, signedOut, crossed,
    ended, idleFor, sincePing, warning, due, pinging, age, quiet, still, warned,
    page, left, amount, pay, error, script, waiting, sessions, paid,
    order, row, moves, poll, answer, attempts, status, err, away, receipt, printed, touched,
    lock, job, password,
    created, initiated, over, lately, connected, targets, past, asked, cut

Channel == INSTANCE Channel WITH MaxFaults <- FaultsOf["channel"]
Session == INSTANCE Session WITH MaxSessions <- MaxSignIns, MaxFaults <- FaultsOf["session"]
Clock   == INSTANCE SessionClock WITH MaxFaults <- FaultsOf["clock"]
Page(p) == INSTANCE PayPage WITH
    Bill <- BillOf[p], MaxSessions <- SessionsOf[p], MaxFaults <- FaultsOf[p]
Back    == INSTANCE PayerReturn WITH MaxFaults <- FaultsOf["back"]
Door(p) == INSTANCE Lockout WITH
    Doors <- DoorsOf[p], Limit <- LimitOf[p], Window <- WindowOf[p],
    Duration <- DurationOf[p], MaxResets <- ResetsOf[p]
Sweep   == INSTANCE Sweep WITH MaxFaults <- FaultsOf["sweep"]

ASSUME ConstantsFit ==
    /\ Channel!ConstantsFit /\ Session!ConstantsFit /\ Clock!ConstantsFit
    /\ \A p \in Pages : Page(p)!ConstantsFit
    /\ Back!ConstantsFit
    /\ \A p \in Doors : Door(p)!ConstantsFit
    /\ Sweep!ConstantsFit

channelOnly == <<held, aged, opening, handshakes, runs>>
sessionOnly == <<token, reason, takeover, issued, newest, signedOut>>
clockOnly   == <<ended, idleFor, sincePing, warning, due, pinging, age, quiet, still, warned>>
pageOnly    == <<page, left, amount, pay, error, script, waiting, sessions, paid>>
backOnly    == <<order, row, moves, poll, answer, attempts, status, err, away, receipt, printed, touched>>
lockOnly    == <<lock, job, password>>
sweepOnly   == <<created, initiated, over, lately, connected, targets, past, asked, cut>>
vars == <<part, faults, call, live, crossed, session, stored,
          channelOnly, sessionOnly, clockOnly, pageOnly, backOnly, lockOnly, sweepOnly>>

-----------------------------------------------------------------------------
Off == "off"
NoChannel ==
    held = Off /\ aged = Off /\ opening = Off /\ handshakes = Off /\ runs = Off
NoSession ==
    /\ token = Off /\ reason = Off /\ takeover = Off
    /\ issued = Off /\ newest = Off /\ signedOut = Off
NoClock ==
    /\ ended = Off /\ idleFor = Off /\ sincePing = Off /\ warning = Off /\ due = Off
    /\ pinging = Off /\ age = Off /\ quiet = Off /\ still = Off /\ warned = Off
NoPage ==
    /\ page = Off /\ left = Off /\ amount = Off /\ pay = Off /\ error = Off
    /\ script = Off /\ waiting = Off /\ sessions = Off /\ paid = Off
NoBack ==
    /\ order = Off /\ row = Off /\ moves = Off /\ poll = Off /\ answer = Off /\ attempts = Off
    /\ status = Off /\ err = Off /\ away = Off /\ receipt = Off /\ printed = Off /\ touched = Off
NoLock == lock = Off /\ job = Off /\ password = Off
NoSweep ==
    /\ created = Off /\ initiated = Off /\ over = Off /\ lately = Off /\ connected = Off
    /\ targets = Off /\ past = Off /\ asked = Off /\ cut = Off

Init ==
    \/ /\ NoPage /\ NoBack /\ NoSweep
       /\ \/ /\ part = "channel" /\ Channel!Init
             /\ NoSession /\ NoClock /\ NoLock /\ session = Off /\ stored = Off /\ crossed = Off
          \/ /\ part = "session" /\ Session!Init
             /\ NoChannel /\ NoClock /\ NoLock /\ stored = Off
          \/ /\ part = "clock" /\ Clock!Init
             /\ NoChannel /\ NoSession /\ NoLock
             /\ call = Off /\ live = Off /\ session = Off /\ crossed = Off
          \/ /\ \E p \in Doors : part = p /\ Door(p)!Init
             /\ NoChannel /\ NoSession /\ NoClock
             /\ call = Off /\ session = Off /\ stored = Off /\ faults = Off
    \/ /\ NoChannel /\ NoSession /\ NoClock /\ NoLock
       /\ call = Off /\ live = Off /\ crossed = Off
       /\ \/ /\ \E p \in Pages : part = p /\ Page(p)!Init
             /\ NoBack /\ NoSweep
          \/ part = "back" /\ Back!Init /\ NoPage /\ NoSweep /\ session = Off /\ stored = Off
          \/ part = "sweep" /\ Sweep!Init /\ NoPage /\ NoBack /\ session = Off /\ stored = Off

accountOnly == <<channelOnly, sessionOnly, clockOnly, lockOnly>>
payerOnly   == <<pageOnly, backOnly, sweepOnly>>

InChannel(A) ==
    /\ part = "channel" /\ A
    /\ UNCHANGED <<part, sessionOnly, clockOnly, lockOnly, payerOnly, session, stored, crossed>>
InSession(A) ==
    /\ part = "session" /\ A
    /\ UNCHANGED <<part, channelOnly, clockOnly, lockOnly, payerOnly, stored>>
InClock(A) ==
    /\ part = "clock" /\ A
    /\ UNCHANGED <<part, channelOnly, sessionOnly, lockOnly, payerOnly, call, live, session, crossed>>
InDoor(p, A) ==
    /\ part = p /\ A
    /\ UNCHANGED <<part, channelOnly, sessionOnly, clockOnly, payerOnly, call, session, stored, faults>>
InPage(p, A) ==
    /\ part = p /\ A
    /\ UNCHANGED <<part, accountOnly, backOnly, sweepOnly, call, live, crossed>>
InBack(A) ==
    /\ part = "back" /\ A
    /\ UNCHANGED <<part, accountOnly, pageOnly, sweepOnly, call, live, crossed, session, stored>>
InSweep(A) ==
    /\ part = "sweep" /\ A
    /\ UNCHANGED <<part, accountOnly, pageOnly, backOnly, call, live, crossed, session, stored>>

Next ==
    \/ InChannel(Channel!Next)
    \/ InSession(Session!Next)
    \/ InClock(Clock!Next)
    \/ \E p \in Pages : InPage(p, Page(p)!Next)
    \/ InBack(Back!Next)
    \/ \E p \in Doors : InDoor(p, Door(p)!Next)
    \/ InSweep(Sweep!Next)

\* The fairness of Channel, Session, Lockout, PayPage, PayerReturn and Sweep.
Fairness ==
    /\ \A c \in Calls : WF_vars(InChannel(Channel!CallStep(c)))
    /\ WF_vars(InChannel(Channel!ServeHandshake \/ Channel!Opened))
    /\ \A s \in Slots : WF_vars(InSession(Session!CallStep(s)))
    /\ SF_vars(InSession(\E s \in Slots : Session!Work(s)))
    /\ WF_vars(InPage("smooth", Page("smooth")!Answer))
    /\ WF_vars(InBack(Back!Asking))
    /\ WF_vars(InDoor("signIn", Door("signIn")!Tick))
    /\ WF_vars(InSweep(Sweep!StartSweep))
    /\ WF_vars(InSweep(Sweep!Asks("sweep")))
    /\ WF_vars(InSweep(\E p \in initiated : Sweep!AttemptEnds(p)))

Spec == Init /\ [][Next]_vars /\ Fairness

-----------------------------------------------------------------------------
\* The types of the variables of whichever runs.
TypeOK ==
    /\ part = "channel" => Channel!TypeOK
    /\ part = "session" => Session!TypeOK
    /\ part = "clock" => Clock!TypeOK
    /\ \A p \in Pages : part = p => Page(p)!TypeOK
    /\ part = "back" => Back!TypeOK
    /\ \A p \in Doors : part = p => Door(p)!TypeOK
    /\ part = "sweep" => Sweep!TypeOK

\* A call is served once at most, whatever it was repeated for, and its caller is told
\* what happened; while nothing goes wrong one handshake serves every call, and one fault
\* never leaves a call without a channel (Channel).
CallsTrue == part = "channel" => Channel!CallsTrue

\* One session on the server, and in the browser the token of the newest (Session).
SessionsTrue == part = "session" => Session!SessionsTrue

\* A door that closes is passed by no more answers than were under way, and after a
\* recovery nobody is in with the password before it (Lockout).
DoorsHold ==
    \A p \in Doors : part = p => Door(p)!FailuresBounded /\ Door(p)!RecoveredIsOut

\* The portal ends before the server does, after a warning, and a deserted one does
\* end (SessionClock).
ClocksAgree ==
    part = "clock" => Clock!PortalEndsFirst /\ Clock!DesertedEnds /\ Clock!WarnedFirst

\* The payer is handed over with the checkout started last, for no more than is left of
\* the bill, and may press again after an error (PayPage).
PayPageTrue ==
    \A p \in Pages : part = p =>
        Page(p)!HostedIsLast /\ Page(p)!WithinBill /\ Page(p)!ErrorFreesButton

\* What the payer reads, is sent on to and can print is true of the card (PayerReturn).
ReturnTrue ==
    part = "back" =>
        /\ Back!NothingTakenTrue /\ Back!NeverReadsFailed
        /\ Back!RedirectTrue /\ Back!ReceiptTrue /\ Back!PaidTrue

\* The notice of an ending that is known is not overwritten (Session).
ReasonKept ==
    [][part = "session" /\ session = 0 /\ reason \in {"idle", "expired"} => reason' \in {reason, "none"}]_vars

\* Every call is answered (Channel), a session that was ended elsewhere closes the portal
\* of whoever works in it (Session), and a closed door opens by itself (Lockout).
AccountSettles ==
    /\ \A c \in Calls :
          (part = "channel" /\ call[c].step # "idle") ~> (part = "channel" /\ Channel!Settled(c))
    /\ (part = "session" /\ session # 0 /\ token \notin live)
          ~> (part = "session" /\ (session = 0 \/ token \in live))
    /\ (part = "signIn" /\ Door("signIn")!Closed("signIn", Username))
          ~> (part = "signIn" /\ ~Door("signIn")!Closed("signIn", Username))

\* A press ends with the hosted page or an error (PayPage, while checkout.js loads), the
\* page after it stops asking (PayerReturn), and the attempt of a payer who never comes
\* back, though an older one is open, is settled while operators stay connected (Sweep).
PayerSettles ==
    /\ (part = "smooth" /\ pay # "idle" /\ page = "shown")
          ~> (part = "smooth" /\ (pay = "idle" \/ page # "shown"))
    /\ part = "back" => <>[](part = "back" /\ poll = "none")
    /\ (part = "sweep" /\ MaxAttempts \in initiated)
          ~> (part = "sweep" /\ (MaxAttempts \notin initiated \/ past \/ connected # Profiles))

-----------------------------------------------------------------------------
(* The inductive invariant *)

\* That of the part that runs.
Inv ==
    /\ part \in Parts
    /\ part = "channel" => Channel!IInv
    /\ part = "session" => Session!IInv
    /\ part = "clock" => Clock!IInv
    /\ \A p \in Pages : part = p => Page(p)!IInv
    /\ part = "back" => Back!IInv
    /\ \A p \in Doors : part = p => Door(p)!IInv
    /\ part = "sweep" => Sweep!TypeOK
=============================================================================
