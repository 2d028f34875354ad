-------------------------------- MODULE Lockout --------------------------------
(***************************************************************************)
(* The two doors of an account on the server: signing in and recovering    *)
(* the password, each with the lockout that counts wrong answers           *)
(* (guard.go), and the sessions that follow (handleLogin, handleRecover).  *)
(*                                                                         *)
(* A handler looks the lock up, reads the account and checks what was      *)
(* typed, and only then counts or clears: the steps of several handlers    *)
(* mix.  Passwords are numbered; a session is known by the password it was *)
(* signed in with.  Time is a tick; what is older than the window has seen *)
(* that many.  Rate limits, which only refuse sooner, are left out.        *)
(***************************************************************************)
EXTENDS Naturals, FiniteSets

CONSTANTS
    Handlers,       \* requests served at once
    Names,          \* what the account's owner may type as a name
    Username,       \* the one among them that recovery clears
    Doors,          \* of "signIn" and "recovery"
    Limit,          \* MaxFailedAttempts
    Window,         \* FailureWindow, in ticks
    Duration,       \* LockoutDuration, in ticks
    MaxResets       \* bound: recoveries

\* What the constants are to be; Browser assumes it of its instances.
ConstantsFit ==
    /\ IsFiniteSet(Handlers)
    /\ Username \in Names /\ Doors \subseteq {"signIn", "recovery"}
    /\ Limit \in Nat \ {0} /\ Window \in Nat \ {0} /\ Duration \in Nat \ {0} /\ MaxResets \in Nat

VARIABLES
    lock,       \* signInLock and recoveryLock: a record for each name
    job,        \* the handlers' locals
    password,   \* users.password_hash
    live,       \* the sessions admitted
    crossed     \* ghost: whether a recovery passed a sign-in with the password before it

vars == <<lock, job, password, live, crossed>>

NoEntry == [failures |-> 0, since |-> 0, until |-> 0]
Free    == [door |-> "signIn", name |-> Username, step |-> "free", read |-> 0]

Init ==
    /\ lock = [d \in Doors |-> [n \in Names |-> NoEntry]]
    /\ job = [h \in Handlers |-> Free]
    /\ password = 1
    /\ live = {}
    /\ crossed = FALSE

At(h, door, step) == job[h].step = step /\ job[h].door = door
Goes(h, step)     == job' = [job EXCEPT ![h].step = step]
Done(h)           == job' = [job EXCEPT ![h] = Free]

Closed(door, name) == lock[door][name].until > 0
Clear(locks, door, name) ==
    IF door \in Doors THEN [locks EXCEPT ![door][name] = NoEntry] ELSE locks

-----------------------------------------------------------------------------
\* Mutant: the lock is not looked up.
OpenAnyway(h, door, name) ==
    /\ job[h].step = "free"
    /\ job' = [job EXCEPT ![h] = [door |-> door, name |-> name, step |-> "open", read |-> 0]]
    /\ UNCHANGED <<lock, password, live, crossed>>

\* locked: a lock that has served its time is taken away.
Open(h, door, name) ==
    /\ job[h].step = "free"
    /\ ~Closed(door, name)
    /\ lock' = IF lock[door][name].failures >= Limit THEN Clear(lock, door, name) ELSE lock
    /\ job' = [job EXCEPT ![h] = [door |-> door, name |-> name, step |-> "open", read |-> 0]]
    /\ UNCHANGED <<password, live, crossed>>

\* The account is read, and what was typed is right for it or not.
Check(h, step) ==
    /\ job[h].step = "open"
    /\ step \in {"wrong", "right"}
    /\ job' = [job EXCEPT ![h].step = step, ![h].read = password]
    /\ UNCHANGED <<lock, password, live, crossed>>

\* A suspended account, a new password that will not do, recovery not set up.
TurnAway(h) ==
    /\ job[h].step = "right"
    /\ Done(h)
    /\ UNCHANGED <<lock, password, live, crossed>>

\* fail on a record: a mistake older than the window starts a new one.
Failed(e) ==
    LET anew  == e.failures = 0 \/ e.since >= Window
        count == IF anew THEN 1 ELSE e.failures + 1
    IN  [failures |-> count, since |-> IF anew THEN 0 ELSE e.since,
         until |-> IF count >= Limit THEN Duration ELSE 0]

Fail(h) ==
    /\ job[h].step = "wrong"
    /\ LET door == job[h].door name == job[h].name
       IN  lock' = [lock EXCEPT ![door][name] = Failed(lock[door][name])]
    /\ Done(h)
    /\ UNCHANGED <<password, live, crossed>>

-----------------------------------------------------------------------------
\* handleLogin, from the password that is proved.
Succeed(h) ==
    /\ At(h, "signIn", "right")
    /\ lock' = Clear(lock, "signIn", job[h].name)
    /\ Goes(h, "proved")
    /\ UNCHANGED <<password, live, crossed>>

SessionActive(h) ==
    /\ At(h, "signIn", "proved")
    /\ live # {}
    /\ Done(h)
    /\ UNCHANGED <<lock, password, live, crossed>>

NoSession(h) ==
    /\ At(h, "signIn", "proved")
    /\ live = {}
    /\ Goes(h, "issue")
    /\ UNCHANGED <<lock, password, live, crossed>>

Force(h) ==
    /\ At(h, "signIn", "proved")
    /\ live' = {}
    /\ Goes(h, "issue")
    /\ UNCHANGED <<lock, password, crossed>>

Issue(h) ==
    /\ At(h, "signIn", "issue")
    /\ live' = live \cup {job[h].read}
    /\ Done(h)
    /\ UNCHANGED <<lock, password, crossed>>

\* handleRecover, from the answers that are right.
SetPassword(h) ==
    /\ At(h, "recovery", "right")
    /\ password <= MaxResets
    /\ password' = password + 1
    /\ Goes(h, "reset")
    /\ UNCHANGED <<lock, live, crossed>>

Passed(h) == job[h].door = "signIn" /\ job[h].step \in {"right", "proved", "issue"} /\ job[h].read # password

\* Mutant: recovery leaves the sessions as they are.
RevokeNobody(h) ==
    /\ At(h, "recovery", "reset")
    /\ crossed' = (crossed \/ \E g \in Handlers : Passed(g))
    /\ Goes(h, "ended")
    /\ UNCHANGED <<lock, password, live>>

RevokeUser(h) ==
    /\ At(h, "recovery", "reset")
    /\ live' = {}
    /\ crossed' = (crossed \/ \E g \in Handlers : Passed(g))
    /\ Goes(h, "ended")
    /\ UNCHANGED <<lock, password>>

\* The locks of both doors, the other one by the username.
Unlock(h) ==
    /\ At(h, "recovery", "ended")
    /\ lock' = Clear(Clear(lock, "recovery", job[h].name), "signIn", Username)
    /\ Done(h)
    /\ UNCHANGED <<password, live, crossed>>

-----------------------------------------------------------------------------
\* Signed out, idle or expired.
SessionEnds(v) ==
    /\ live' = live \ {v}
    /\ UNCHANGED <<lock, job, password, crossed>>

Aged(e) ==
    [failures |-> e.failures,
     since |-> IF e.since < Window /\ e.failures > 0 THEN e.since + 1 ELSE e.since,
     until |-> IF e.until > 0 THEN e.until - 1 ELSE 0]

Tick ==
    /\ lock' = [d \in Doors |-> [n \in Names |-> Aged(lock[d][n])]]
    /\ UNCHANGED <<job, password, live, crossed>>

\* Locks and sessions are kept in memory.
Restart ==
    /\ lock' = [d \in Doors |-> [n \in Names |-> NoEntry]]
    /\ job' = [h \in Handlers |-> Free]
    /\ live' = {}
    /\ UNCHANGED <<password, crossed>>

SignInStep(h)  == Succeed(h) \/ SessionActive(h) \/ NoSession(h) \/ Force(h) \/ Issue(h)
RecoverStep(h) == SetPassword(h) \/ RevokeUser(h) \/ Unlock(h)

Next ==
    \/ \E h \in Handlers :
         \/ \E door \in Doors, name \in Names : Open(h, door, name)
         \/ \E step \in {"wrong", "right"} : Check(h, step)
         \/ TurnAway(h) \/ Fail(h) \/ SignInStep(h) \/ RecoverStep(h)
    \/ \E v \in live : SessionEnds(v)
    \/ Tick \/ Restart

Spec == Init /\ [][Next]_vars

\* Time passes.
FairSpec == Spec /\ WF_vars(Tick)

-----------------------------------------------------------------------------
\* A record of a lock, and the locks of the doors.
Entry == [failures : Nat, since : 0..Window, until : 0..Duration]
Locks == [Doors -> [Names -> Entry]]

\* A handler's locals.
Steps == {"free", "open", "wrong", "right", "proved", "issue", "reset", "ended"}
Job   == [door : Doors \cup {"signIn"}, name : Names, read : 0..MaxResets + 1, step : Steps]

\* The types of the variables.
TypeOK ==
    /\ lock \in Locks /\ job \in [Handlers -> Job]
    /\ password \in 1..MaxResets + 1
    /\ live \subseteq 1..MaxResets + 1
    /\ crossed \in BOOLEAN

\* "How many wrong answers close the door": past that number come only the answers that
\* were under way when it closed, one for each of the other handlers.
FailuresBounded ==
    \A d \in Doors, n \in Names : lock[d][n].failures < Limit + Cardinality(Handlers)

\* "A reset ... signs every session out": what is admitted afterwards was signed in with
\* the new password.  The exception is a sign-in that had read the old one and was not yet
\* issued when the sessions were ended.
RecoveredIsOut ==
    (\E v \in live : v # password) => crossed \/ \E h \in Handlers : At(h, "recovery", "reset")

\* "It unlocks itself", whatever is typed meanwhile at a door that is closed, and although
\* an answer under way closes it anew.
UnlocksItself ==
    \A d \in Doors, n \in Names : Closed(d, n) ~> ~Closed(d, n)

\* "LockoutDuration is how long it stays closed": a closed door is opened by time, by a
\* right answer or by recovery, and not by one more mistake.
LockHolds ==
    [][\A h \in Handlers, d \in Doors, n \in Names : Fail(h) /\ Closed(d, n) => Closed(d, n)']_vars

\* "Neither the recovery budget nor an earlier sign-in lockout should keep the rightful
\* owner out", whichever of the names is typed.
RecoveredIsIn ==
    [][\A h \in Handlers : Unlock(h) => \A n \in Names : lock'["signIn"][n].until = 0]_vars

-----------------------------------------------------------------------------
(* The inductive invariant *)

\* The answers under way at a door that may still turn out wrong.
UnderWay(d, n) ==
    {h \in Handlers : job[h].step \in {"open", "wrong"} /\ job[h].door = d /\ job[h].name = n}

\* Past the limit each mistake was made by one of them.
Counted(d, n) ==
    lock[d][n].failures >= Limit =>
        lock[d][n].failures + Cardinality(UnderWay(d, n)) < Limit + Cardinality(Handlers)
FailuresCounted == \A d \in Doors, n \in Names : Counted(d, n)

\* Whoever is past the door has read the account.
OneRead(h)   == job[h].step \in {"right", "proved", "issue"} => job[h].read \in 1..password
PasswordRead == \A h \in Handlers : OneRead(h)

\* Who is past it with an older password came while it was changed.
PassedKnown ==
    (\E g \in Handlers : Passed(g)) => crossed \/ \E h \in Handlers : At(h, "recovery", "reset")

IInv == TypeOK /\ FailuresCounted /\ PasswordRead /\ RecoveredIsOut /\ PassedKnown
=============================================================================
