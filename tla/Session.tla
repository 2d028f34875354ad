-------------------------------- MODULE Session --------------------------------
(***************************************************************************)
(* Signing in and out of the portal: the token the browser stores, the     *)
(* session its screens are drawn for (SessionProvider), the calls on their *)
(* way (lib/api.ts), and the sessions the server admits.                   *)
(*                                                                         *)
(* One account and one browser; `Elsewhere' is the same account signed in  *)
(* on another device.  A session is the number of its token.  A call reads *)
(* the stored token after it has been sealed, not when it is made.  When   *)
(* the clocks of a session run out is the subject of SessionClock.         *)
(***************************************************************************)
EXTENDS Naturals

CONSTANTS
    Slots,          \* calls that may be under way together
    MaxSessions,    \* bound: sessions the server issues
    MaxFaults       \* bound: reloads, lost or repeated calls, sessions that end

\* What the constants are to be; Browser assumes it of its instance.
ConstantsFit == MaxSessions \in Nat /\ MaxFaults \in Nat

VARIABLES
    token,      \* tokenStore
    session,    \* the session the portal shows, or None
    reason,     \* signedOutReason
    takeover,   \* whether the form asks to end a session elsewhere
    call,       \* the calls under way
    live,       \* the sessions the server admits
    issued,     \* sessions issued so far
    newest,     \* ghost: the last session this browser was given
    signedOut,  \* ghost: sessions whose sign-out has been answered
    crossed,    \* ghost: whether two sign-ins have been at the server together
    faults      \* faults so far

portal == <<token, session, reason, takeover>>
ghosts == <<newest, signedOut, crossed>>
vars   == <<portal, call, live, issued, ghosts, faults>>

None     == 0
Sessions == 1..MaxSessions
SignIns  == {"login", "force"}                      \* anonymous calls
Kinds    == SignIns \cup {"logout", "work", "restore", "refresh"}
Reasons  == {"none", "idle", "expired", "revoked"}

Free == [kind |-> "work", step |-> "free", sent |-> None, about |-> None]
Busy(kinds) == \E s \in Slots : call[s].step # "free" /\ call[s].kind \in kinds

Init ==
    /\ token = None
    /\ session = None
    /\ reason = "none"
    /\ takeover = FALSE
    /\ call = [s \in Slots |-> Free]
    /\ live = {}
    /\ issued = 0
    /\ newest = None
    /\ signedOut = {}
    /\ crossed = FALSE
    /\ faults = 0

Fault == faults < MaxFaults /\ faults' = faults + 1

-----------------------------------------------------------------------------
\* request(): the call is made; sealing it is the first thing that waits.
Begin(s, kind) ==
    /\ call[s].step = "free"
    /\ call' = [call EXCEPT ![s] =
                  [kind |-> kind, step |-> "sealing", sent |-> None, about |-> session]]

\* The sign-in form, which waits for one answer at a time.
SignIn(s, kind) ==
    /\ session = None
    /\ kind \in SignIns
    /\ kind = "force" => takeover
    /\ ~Busy(SignIns)
    /\ Begin(s, kind)
    /\ takeover' = FALSE
    /\ UNCHANGED <<token, session, reason, live, issued, ghosts, faults>>

CancelTakeover ==
    /\ takeover
    /\ takeover' = FALSE
    /\ UNCHANGED <<token, session, reason, call, live, issued, ghosts, faults>>

Close(why) ==
    /\ token' = None
    /\ session' = None
    /\ reason' = why

SignOut(s) ==
    /\ session # None
    /\ Begin(s, "logout")
    /\ Close("none")
    /\ UNCHANGED <<takeover, live, issued, ghosts, faults>>

EndSession(s, why) ==
    /\ Fault
    /\ session # None
    /\ Begin(s, "logout")
    /\ Close(why)
    /\ UNCHANGED <<takeover, live, issued, ghosts>>

\* Any other call of a signed-in screen, the timer's pings among them.
Work(s) ==
    /\ session # None
    /\ Begin(s, "work")
    /\ UNCHANGED <<portal, live, issued, ghosts, faults>>

Refresh(s) ==
    /\ session # None
    /\ token # None
    /\ Begin(s, "refresh")
    /\ UNCHANGED <<portal, live, issued, ghosts, faults>>

\* The page is loaded again: only the token is left, and a session is restored from it.
Reload(s) ==
    /\ Fault
    /\ session' = None
    /\ reason' = "none"
    /\ takeover' = FALSE
    /\ call' = [t \in Slots |-> IF t = s /\ token # None
                                THEN [Free EXCEPT !.kind = "restore", !.step = "sealing"]
                                ELSE Free]
    /\ UNCHANGED <<token, live, issued, ghosts>>

-----------------------------------------------------------------------------
\* attempt(): the token goes with the call as it is stored by now.
TokenFor(kind) == IF kind \in SignIns THEN None ELSE token

Send(s) ==
    /\ call[s].step = "sealing"
    /\ call' = [call EXCEPT ![s].step = "sent", ![s].sent = TokenFor(call[s].kind)]
    /\ UNCHANGED <<portal, live, issued, ghosts, faults>>

\* The channel was gone: sealed once more, with the token stored by then.
SendAgain(s) ==
    /\ Fault
    /\ call[s].step = "sent"
    /\ call' = [call EXCEPT ![s].step = "sealing"]
    /\ UNCHANGED <<portal, live, issued, ghosts>>

Answered(s, step) == call' = [call EXCEPT ![s].step = step]

\* Mutant: a sign-in does not ask about a session elsewhere.
ServeSignInAnyway(s) ==
    /\ call[s].step = "sent"
    /\ call[s].kind \in SignIns
    /\ Answered(s, "proved")
    /\ live' = IF call[s].kind = "force" THEN {} ELSE live
    /\ UNCHANGED <<portal, issued, ghosts, faults>>

\* handleLogin once the password is proved; a takeover ends what is there.
ServeSignIn(s) ==
    /\ call[s].step = "sent"
    /\ call[s].kind \in SignIns
    /\ Answered(s, IF call[s].kind = "login" /\ live # {} THEN "elsewhere" ELSE "proved")
    /\ live' = IF call[s].kind = "force" THEN {} ELSE live
    /\ UNCHANGED <<portal, issued, ghosts, faults>>

\* The session is issued under a lock of its own.
Issue(s) ==
    /\ call[s].step = "proved"
    /\ issued < MaxSessions
    /\ issued' = issued + 1
    /\ live' = live \cup {issued + 1}
    /\ call' = [call EXCEPT ![s].step = "ok", ![s].sent = issued + 1]
    /\ UNCHANGED <<portal, ghosts, faults>>

\* A wrong password, an account that is locked or suspended.
RefuseSignIn(s) ==
    /\ call[s].step = "sent"
    /\ call[s].kind \in SignIns
    /\ Answered(s, "refused")
    /\ UNCHANGED <<portal, live, issued, ghosts, faults>>

\* authenticated: nothing is served without a live session.
ServeWork(s) ==
    /\ call[s].step = "sent"
    /\ call[s].kind \notin SignIns
    /\ Answered(s, IF call[s].sent \in live THEN "ok" ELSE "refused")
    /\ live' = IF call[s].kind = "logout" THEN live \ {call[s].sent} ELSE live
    /\ UNCHANGED <<portal, issued, ghosts, faults>>

\* Idle or old, or gone with a restart.
SessionEnds(t) ==
    /\ Fault
    /\ t \in live
    /\ live' = live \ {t}
    /\ UNCHANGED <<portal, call, issued, ghosts>>

Elsewhere ==
    /\ Fault
    /\ issued < MaxSessions
    /\ issued' = issued + 1
    /\ live' = {issued + 1}
    /\ crossed' = (crossed \/ \E s \in Slots : call[s].step = "proved")
    /\ UNCHANGED <<portal, call, newest, signedOut>>

-----------------------------------------------------------------------------
Finish(s) == call' = [call EXCEPT ![s] = Free]

TakeSignIn(s) ==
    /\ call[s].kind \in SignIns
    /\ call[s].step = "ok"
    /\ token' = call[s].sent
    /\ session' = call[s].sent
    /\ reason' = "none"
    /\ newest' = call[s].sent
    /\ Finish(s)
    /\ UNCHANGED <<takeover, live, issued, signedOut, crossed, faults>>

AskTakeover(s) ==
    /\ call[s].step = "elsewhere"
    /\ takeover' = TRUE
    /\ Finish(s)
    /\ UNCHANGED <<token, session, reason, live, issued, ghosts, faults>>

\* me() answers with the session of the token it was sent with.
TakeSession(s) ==
    /\ call[s].kind \in {"restore", "refresh"}
    /\ call[s].step = "ok"
    /\ session' = call[s].sent
    /\ Finish(s)
    /\ UNCHANGED <<token, reason, takeover, live, issued, ghosts, faults>>

NoteSignOut(s) ==
    signedOut' = IF call[s].kind = "logout" THEN signedOut \cup {call[s].about} ELSE signedOut

TakeAnswer(s) ==
    /\ call[s].kind \in {"work", "logout"}
    /\ call[s].step = "ok"
    /\ NoteSignOut(s)
    /\ Finish(s)
    /\ UNCHANGED <<portal, live, issued, newest, crossed, faults>>

\* Mutant: a refusal writes over the reason that is known.
RejectedAnew(s) ==
    /\ call[s].step = "refused"
    /\ IF call[s].kind \in SignIns THEN UNCHANGED <<token, session, reason>> ELSE Close("revoked")
    /\ NoteSignOut(s)
    /\ Finish(s)
    /\ UNCHANGED <<takeover, live, issued, newest, crossed, faults>>

\* noteRejection: a 401 of a call that was not anonymous closes the portal.
Rejected(s) ==
    /\ call[s].step = "refused"
    /\ IF call[s].kind \in SignIns
       THEN UNCHANGED <<token, session, reason>>
       ELSE Close(IF reason = "none" THEN "revoked" ELSE reason)
    /\ NoteSignOut(s)
    /\ Finish(s)
    /\ UNCHANGED <<takeover, live, issued, newest, crossed, faults>>

\* Never answered, or not in a way the page could open.
Lost(s) ==
    /\ Fault
    /\ call[s].step \notin {"free", "sealing"}
    /\ Finish(s)
    /\ UNCHANGED <<portal, live, issued, ghosts>>

-----------------------------------------------------------------------------
Answer(s) == TakeSignIn(s) \/ AskTakeover(s) \/ TakeSession(s) \/ TakeAnswer(s) \/ Rejected(s)
CallStep(s) == Send(s) \/ ServeSignIn(s) \/ Issue(s) \/ RefuseSignIn(s) \/ ServeWork(s) \/ Answer(s)

Next ==
    \/ \E s \in Slots :
         \/ \E kind \in SignIns : SignIn(s, kind)
         \/ SignOut(s) \/ Work(s) \/ Refresh(s) \/ Reload(s)
         \/ \E why \in {"idle", "expired"} : EndSession(s, why)
         \/ CallStep(s) \/ SendAgain(s) \/ Lost(s)
    \/ CancelTakeover
    \/ \E t \in live : SessionEnds(t)
    \/ Elsewhere

Spec == Init /\ [][Next]_vars

\* Calls end, and the portal of somebody at work goes on making them.
FairSpec ==
    /\ Spec
    /\ \A s \in Slots : WF_vars(CallStep(s))
    /\ SF_vars(\E s \in Slots : Work(s))

-----------------------------------------------------------------------------
CallRecord ==
    [kind : Kinds, step : {"free", "sealing", "sent", "proved", "ok", "refused", "elsewhere"},
     sent : Nat, about : Nat]

\* The types, of the calls and of the rest.
CallFits == call \in [Slots -> CallRecord]
RestFits ==
    /\ token \in Nat /\ session \in Nat /\ newest \in Nat
    /\ reason \in Reasons
    /\ takeover \in BOOLEAN
    /\ live \subseteq Nat /\ signedOut \subseteq Nat
    /\ issued \in Nat /\ faults \in Nat /\ crossed \in BOOLEAN
TypeOK == CallFits /\ RestFits

\* "One account, one session": whatever the browser's calls and the other device do to
\* each other, the server admits one session of the account.  The check and the issue
\* are two steps, so a sign-in served between those of another is the exception.
OneSession == ~crossed => \A t, u \in live : t = u

\* The stored token is that of the last sign-in: no late answer brings an older one back.
NewestToken == token \in {None, newest}

\* Both.
SessionsTrue == OneSession /\ NewestToken

\* "Never overwrite a reason we already know": the notice of an ending that is known
\* stays until it is dismissed by the next sign-in, sign-out or load.
ReasonKept ==
    [][session = None /\ reason \in {"idle", "expired"} => reason' \in {reason, "none"}]_vars

\* A session ended elsewhere closes the portal of whoever is still at work in it.
DeadSessionCloses ==
    session # None /\ token \notin live ~> session = None \/ token \in live

\* "Tell the server first so the token stops being accepted": once a sign-out has
\* been answered, its session is over.
SignOutRevokes == signedOut \cap live = {}

\* "Deliberate: no notice to show on the way out": a notice appears only where no
\* sign-out is on its way, for that was the way out.
NoNoticeAfterSignOut ==
    [][\A s \in Slots :
         call[s].kind = "logout" /\ call[s].step = "refused" /\ reason = "none" => reason' = "none"]_vars

\* "a failed call still signs the person out here": a session on screen is the one
\* the browser holds a token for.
SessionHasToken == session # None => token = session

\* "A call refused for want of a session means it ended somewhere else": a refusal
\* closes a portal only if the server no longer admits its token.
RefusalMeansEnded ==
    [][\A s \in Slots :
         /\ call[s].step = "refused" /\ call[s].kind \notin SignIns
         /\ session # None /\ session' = None
         => token \notin live]_vars

-----------------------------------------------------------------------------
(* The inductive invariant *)

\* A sign-in under way.
SigningIn(s) == call[s].step # "free" /\ call[s].kind \in SignIns

\* The form waits for one answer at a time.
OneSignIn == \A s \in Slots, t \in Slots : SigningIn(s) /\ SigningIn(t) => s = t

\* A password that is proved finds no session, unless another sign-in came in between.
ProvedAlone ==
    \A s \in Slots : call[s].step = "proved" => SigningIn(s) /\ (~crossed => live = {})

IInv ==
    /\ TypeOK
    /\ OneSignIn /\ ProvedAlone
    /\ SessionsTrue
=============================================================================
