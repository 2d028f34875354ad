------------------------------ MODULE SessionClock ------------------------------
(***************************************************************************)
(* The clocks of one session: the timer of SessionProvider in every tab    *)
(* that shows it, and the two limits the server applies.  The server only  *)
(* sees calls; a tab that is in use pings it, so that what the portal      *)
(* takes for activity is activity to the server too.  Tabs share the       *)
(* stored token, but each has its own clocks.                              *)
(*                                                                         *)
(* Time moves in steps of one unit, which stands for the timer's second;   *)
(* a ping arrives before the next one unless it is lost.                   *)
(***************************************************************************)
EXTENDS Integers

CONSTANTS
    Tabs,
    Idle, Lifetime,         \* idleSeconds and lifetimeSeconds, as the server sends them
    WarnAt,                 \* WARN_AT_SECONDS
    PingFloor, PingCeiling, \* the 20 and 45 seconds of pingEvery
    MaxFaults               \* bound: lost pings, and units the machine sleeps

\* What the constants are to be; Browser assumes it of its instance.
ConstantsFit ==
    /\ Idle \in Nat \ {0} /\ Lifetime \in Nat \ {0} /\ WarnAt \in 1..Idle
    /\ PingFloor \in Nat \ {0} /\ PingCeiling \in Nat /\ PingFloor <= PingCeiling
    /\ MaxFaults \in Nat

VARIABLES
    ended,      \* each tab: "open", or the reason its session is gone
    idleFor,    \* time since lastActivity
    sincePing,  \* time since lastPing
    warning,    \* tabs that show the idle warning
    due,        \* tabs whose timer has yet to run in this unit
    pinging,    \* tabs with a ping under way
    stored,     \* whether the token is still in the browser
    age,        \* of the session
    quiet,      \* time since the server last saw a call
    still,      \* ghost: time since anybody touched any tab
    warned,     \* ghost: tabs that have warned since they were last touched
    faults      \* faults so far

tabs  == <<ended, idleFor, sincePing, warning>>
clock == <<age, quiet>>
vars  == <<tabs, due, pinging, stored, clock, still, warned, faults>>

Lesser(a, b)  == IF a <= b THEN a ELSE b
Greater(a, b) == IF a >= b THEN a ELSE b
PingEvery == Greater(PingFloor, Lesser(PingCeiling, Idle \div 3))

Open  == {t \in Tabs : ended[t] = "open"}
Alive == age <= Lifetime /\ quiet <= Idle
Horizon == Idle + PingEvery + 2     \* bound: how long a deserted browser is watched

Init ==
    /\ ended = [t \in Tabs |-> "open"]
    /\ idleFor = [t \in Tabs |-> 0]
    /\ sincePing = [t \in Tabs |-> 0]
    /\ warning = {}
    /\ due = {}
    /\ pinging = {}
    /\ stored = TRUE
    /\ age = 0 /\ quiet = 0 /\ still = 0
    /\ warned = {}
    /\ faults = 0

Fault == faults < MaxFaults /\ faults' = faults + 1

-----------------------------------------------------------------------------
Pass ==
    /\ due = {} /\ pinging = {}
    /\ still < Horizon
    /\ idleFor' = [t \in Tabs |-> IF t \in Open THEN idleFor[t] + 1 ELSE idleFor[t]]
    /\ sincePing' = [t \in Tabs |-> IF t \in Open THEN sincePing[t] + 1 ELSE sincePing[t]]
    /\ age' = age + 1
    /\ quiet' = quiet + 1
    /\ still' = still + 1
    /\ UNCHANGED <<ended, warning, pinging, stored, warned>>

Clock == Pass /\ due' = Open /\ UNCHANGED faults

\* The machine sleeps, or the browser holds back the timers of a hidden tab.
Sleep == Pass /\ Fault /\ due' = {}

\* Deliberate input in a tab (ACTIVITY_EVENTS); passive events do not count.
Touch(t) ==
    /\ idleFor' = [idleFor EXCEPT ![t] = 0]
    /\ still' = 0
    /\ warned' = warned \ {t}

Activity(t) ==
    /\ t \in Open
    /\ Touch(t)
    /\ UNCHANGED <<ended, sincePing, warning, due, pinging, stored, clock, faults>>

StaySignedIn(t) ==
    /\ t \in warning
    /\ Touch(t)
    /\ sincePing' = [sincePing EXCEPT ![t] = 0]
    /\ warning' = warning \ {t}
    /\ pinging' = pinging \cup {t}
    /\ UNCHANGED <<ended, due, stored, clock, faults>>

\* Mutant: the warning outlives the session.
EndWarned(t, reason) ==
    /\ ended' = [ended EXCEPT ![t] = reason]
    /\ stored' = FALSE
    /\ UNCHANGED warning

\* The portal closes in this tab, and the token goes for all of them.
End(t, reason) ==
    /\ ended' = [ended EXCEPT ![t] = reason]
    /\ warning' = warning \ {t}
    /\ stored' = FALSE

\* Mutant: a ping whether or not anybody is there.
PingDueAnyway(t) == sincePing[t] >= PingEvery

PingDue(t) == idleFor[t] < sincePing[t] /\ sincePing[t] >= PingEvery

TimeUp(t) ==
    /\ t \in due
    /\ age >= Lifetime \/ idleFor[t] >= Idle
    /\ End(t, IF age >= Lifetime THEN "expired" ELSE "idle")
    /\ due' = due \ {t}
    /\ UNCHANGED <<idleFor, sincePing, pinging, clock, still, warned, faults>>

Tick(t) ==
    /\ t \in due
    /\ age < Lifetime /\ idleFor[t] < Idle
    /\ due' = due \ {t}
    /\ IF Idle - idleFor[t] <= WarnAt
       THEN warning' = warning \cup {t} /\ warned' = warned \cup {t}
       ELSE warning' = warning \ {t} /\ UNCHANGED warned
    /\ IF PingDue(t)
       THEN sincePing' = [sincePing EXCEPT ![t] = 0] /\ pinging' = pinging \cup {t}
       ELSE UNCHANGED <<sincePing, pinging>>
    /\ UNCHANGED <<ended, idleFor, stored, clock, still, faults>>

\* touch() on the server, or a 401, which closes the tab.
Seen(t) ==
    IF stored /\ Alive
    THEN quiet' = 0 /\ UNCHANGED <<ended, warning, stored>>
    ELSE End(t, "revoked") /\ UNCHANGED quiet

Ping(t) ==
    /\ t \in pinging
    /\ pinging' = pinging \ {t}
    /\ IF t \in Open THEN Seen(t) ELSE UNCHANGED <<ended, warning, stored, quiet>>
    /\ due' = IF stored /\ Alive THEN due ELSE due \ {t}
    /\ UNCHANGED <<idleFor, sincePing, age, still, warned, faults>>

PingLost(t) ==
    /\ Fault
    /\ t \in pinging
    /\ pinging' = pinging \ {t}
    /\ UNCHANGED <<tabs, due, stored, clock, still, warned>>

-----------------------------------------------------------------------------
Next ==
    \/ Clock \/ Sleep
    \/ \E t \in Tabs :
         Activity(t) \/ StaySignedIn(t) \/ TimeUp(t) \/ Tick(t) \/ Ping(t) \/ PingLost(t)

Spec == Init /\ [][Next]_vars

-----------------------------------------------------------------------------
\* The types of the variables.
TypeOK ==
    /\ ended \in [Tabs -> {"open", "idle", "expired", "revoked"}]
    /\ idleFor \in [Tabs -> Nat] /\ sincePing \in [Tabs -> Nat]
    /\ warning \subseteq Open /\ warned \subseteq Tabs
    /\ due \subseteq Open /\ pinging \subseteq Tabs
    /\ stored \in BOOLEAN
    /\ age \in Nat /\ quiet \in Nat /\ still \in Nat /\ faults \in Nat

\* "Without this ... the next click would fail for no visible reason": as long as no ping
\* is lost, the server never ends a session before the portal does.  Of several tabs the
\* first to end ends it for all, and a limit below the least interval between pings leaves
\* no time for one.
Alone == \A t, u \in Tabs : t = u
PortalEndsFirst ==
    Alone /\ PingFloor <= Idle /\ faults = 0 => \A t \in Tabs : ended[t] # "revoked"

\* "a browser left alone still times out exactly as it should": pings never keep a deserted
\* session alive, by more than one interval between them and what the machine sleeps.
DesertedEnds == still > Idle + PingEvery + faults => ~Alive

\* Nobody is signed out for being idle without having been warned first; a limit of one
\* second leaves none for the warning.
WarnedFirst == Idle > 1 /\ faults = 0 => \A t \in Tabs : ended[t] = "idle" => t \in warned

-----------------------------------------------------------------------------
(* The inductive invariant *)

\* Between two runs of the timer the session is within both limits, at the next it may
\* have reached them; and the server has heard of the tab as lately as it pinged.
Within(t) ==
    t \in Open =>
        /\ stored
        /\ t \notin due => age < Lifetime /\ sincePing[t] < Idle
        /\ age <= Lifetime /\ sincePing[t] <= Idle
        /\ quiet <= sincePing[t] \/ (t \in pinging /\ quiet <= Idle)

\* Who has been idle for so long was warned by the timer, one unit ago at the latest.
Warns(t) ==
    LET seen == IF t \in due THEN idleFor[t] - 1 ELSE idleFor[t] IN
    /\ t \in Open /\ seen > 0 /\ seen >= Idle - WarnAt => t \in warned
    /\ ended[t] = "idle" => t \in warned

\* A tab that has something to tell the server does so within an interval.
Pings(t) ==
    /\ t \in Open => still <= idleFor[t]
    /\ t \in Open /\ sincePing[t] > idleFor[t] =>
         /\ idleFor[t] <= PingEvery + faults
         /\ t \notin due => idleFor[t] < PingEvery + faults
    /\ t \in pinging => still <= PingEvery + faults

\* What is so of each tab, and on which conditions.
Held(t) ==
    /\ Alone /\ PingFloor <= Idle /\ faults = 0 => Within(t) /\ ended[t] # "revoked"
    /\ Idle > 1 /\ faults = 0 => Warns(t)
    /\ Pings(t)

IInv ==
    /\ TypeOK
    /\ \A t \in Tabs : Held(t)
    /\ still <= PingEvery + faults + quiet
=============================================================================
