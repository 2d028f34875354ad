-------------------------------- MODULE Channel --------------------------------
(***************************************************************************)
(* The sealed channel as the browser holds it.  Every call of lib/api.ts   *)
(* is signed with a key agreed in a handshake (lib/secure.ts).  The page   *)
(* keeps one channel for all its calls, opens one when there is none or    *)
(* its own has aged, and repeats a call once when the server says it does  *)
(* not know the channel.  The server forgets channels when they expire     *)
(* and all of them when it restarts.                                       *)
(*                                                                         *)
(* A call here is one request(): its awaits (the handshake, the sealing,   *)
(* the fetch, the opening of the reply) are where calls interleave.        *)
(* Channels are numbered in the order they are made; keys, nonces and      *)
(* signatures are abstracted to the number of the channel they belong to.  *)
(***************************************************************************)
EXTENDS Naturals, FiniteSets

CONSTANTS
    Calls,      \* the calls the page makes
    MaxFaults   \* bound: restarts, expiries, lost messages, failed handshakes

\* What the constants are to be; Browser assumes it of its instance.
ConstantsFit == MaxFaults \in Nat

VARIABLES
    held,       \* the page's channel, or NoChannel
    aged,       \* whether its expiresAt has passed
    opening,    \* the handshake under way, which every caller shares
    call,       \* each call: where it stands and the channel it is sealed with
    handshakes, \* channels the server has made
    live,       \* channels the server knows
    runs,       \* ghost: how often the handler of each call ran
    faults      \* faults so far

page   == <<held, aged, opening>>
server == <<handshakes, live, runs>>
vars   == <<page, call, server, faults>>

NoChannel == 0
Steps     == {"idle", "waiting", "sealing", "sent", "answered", "gone", "over"}
Outcomes  == {"none", "value", "unopened", "unreachable", "no_channel"}

Init ==
    /\ held = NoChannel
    /\ aged = FALSE
    /\ opening = "none"
    /\ call = [c \in Calls |->
                 [step |-> "idle", seal |-> NoChannel, renewed |-> FALSE, shown |-> "none"]]
    /\ handshakes = 0
    /\ live = {}
    /\ runs = [c \in Calls |-> 0]
    /\ faults = 0

Fault == faults < MaxFaults /\ faults' = faults + 1
Settled(c) == call[c].step = "over"
Over(c, outcome) == [call EXCEPT ![c].step = "over", ![c].shown = outcome]

-----------------------------------------------------------------------------
\* attempt(): take the live channel, or wait for the handshake all callers share.
SealWith(c, channel, renewed) ==
    /\ call' = [call EXCEPT ![c].step = "sealing", ![c].seal = channel, ![c].renewed = renewed]
    /\ UNCHANGED opening

ShareOpening(c, renewed) ==
    /\ call' = [call EXCEPT ![c].step = "waiting", ![c].renewed = renewed]
    /\ opening' = IF opening = "none" THEN "asked" ELSE opening

EnsureChannel(c, channel, renewed) ==
    IF channel # NoChannel /\ ~aged
    THEN SealWith(c, channel, renewed)
    ELSE ShareOpening(c, renewed)

Start(c) ==
    /\ call[c].step = "idle"
    /\ EnsureChannel(c, held, FALSE)
    /\ UNCHANGED <<held, aged, server, faults>>

\* The second attempt drops the page's channel, whichever it is by now.
Renew(c) ==
    /\ call[c].step = "gone"
    /\ ~call[c].renewed
    /\ held' = NoChannel
    /\ EnsureChannel(c, NoChannel, TRUE)
    /\ UNCHANGED <<aged, server, faults>>

GiveUp(c) ==
    /\ call[c].step = "gone"
    /\ call[c].renewed
    /\ call' = Over(c, "no_channel")
    /\ UNCHANGED <<page, server, faults>>

\* What ends a handshake moves every call that waits for it.
Waiters == {c \in Calls : call[c].step = "waiting"}
Move(step, seal) ==
    [c \in Calls |-> IF c \in Waiters THEN [call[c] EXCEPT !.step = step, !.seal = seal]
                                      ELSE call[c]]

ServeHandshake ==
    /\ opening = "asked"
    /\ opening' = "made"
    /\ handshakes' = handshakes + 1
    /\ live' = live \cup {handshakes + 1}
    /\ UNCHANGED <<held, aged, call, runs, faults>>

Opened ==
    /\ opening = "made"
    /\ held' = handshakes
    /\ aged' = FALSE
    /\ opening' = "none"
    /\ call' = Move("sealing", handshakes)
    /\ UNCHANGED <<server, faults>>

\* Mutant: nobody is told that the handshake failed.
OpeningFailsSilently ==
    /\ Fault
    /\ opening # "none"
    /\ opening' = "none"
    /\ UNCHANGED <<held, aged, call, server>>

\* No answer, or not an ok one: an error with the code secure_channel_required.
OpeningFails ==
    /\ Fault
    /\ opening # "none"
    /\ opening' = "none"
    /\ call' = Move("gone", NoChannel)
    /\ UNCHANGED <<held, aged, server>>

Send(c) ==
    /\ call[c].step = "sealing"
    /\ call' = [call EXCEPT ![c].step = "sent"]
    /\ UNCHANGED <<page, server, faults>>

\* Mutant: the handler runs before the channel is looked up.
ServeFirst(c) ==
    /\ call[c].step = "sent"
    /\ runs' = [runs EXCEPT ![c] = @ + 1]
    /\ call' = [call EXCEPT ![c].step = IF call[c].seal \in live THEN "answered" ELSE "gone"]
    /\ UNCHANGED <<page, handshakes, live, faults>>

\* openChannel on the server: the handler runs only behind a channel it knows.
Serve(c) ==
    /\ call[c].step = "sent"
    /\ IF call[c].seal \in live
       THEN /\ runs' = [runs EXCEPT ![c] = @ + 1]
            /\ call' = [call EXCEPT ![c].step = "answered"]
       ELSE /\ call' = [call EXCEPT ![c].step = "gone"]
            /\ UNCHANGED runs
    /\ UNCHANGED <<page, handshakes, live, faults>>

\* The request took longer than the two minutes its timestamp is good for.
ServeLate(c) ==
    /\ Fault
    /\ call[c].step = "sent"
    /\ call' = [call EXCEPT ![c].step = "gone"]
    /\ UNCHANGED <<page, server>>

\* openResponse: with the channel the page holds now.
Opens(seal) == held = seal

Read(c) ==
    /\ call[c].step = "answered"
    /\ call' = Over(c, IF Opens(call[c].seal) THEN "value" ELSE "unopened")
    /\ UNCHANGED <<page, server, faults>>

\* The fetch fails, on the way there or on the way back: no code, no retry.
Lose(c) ==
    /\ Fault
    /\ call[c].step \in {"sent", "answered"}
    /\ call' = Over(c, "unreachable")
    /\ UNCHANGED <<page, server>>

\* The page takes a channel for dead a minute before the server does, so the server
\* outlives a call that was sealed in time; one that dawdles longer is ServeLate.
AgeOut ==
    /\ Fault
    /\ held # NoChannel
    /\ ~aged
    /\ aged' = TRUE
    /\ UNCHANGED <<held, opening, call, server>>

Expire(channel) ==
    /\ channel \in live
    /\ channel # held \/ aged
    /\ opening # "made" \/ channel # handshakes
    /\ \A c \in Calls : call[c].seal = channel => call[c].step \notin {"sealing", "sent"}
    /\ live' = live \ {channel}
    /\ UNCHANGED <<page, call, handshakes, runs, faults>>

Restart ==
    /\ Fault
    /\ live' = {}
    /\ UNCHANGED <<page, call, handshakes, runs>>

-----------------------------------------------------------------------------
CallStep(c) == Renew(c) \/ GiveUp(c) \/ Send(c) \/ Serve(c) \/ Read(c)

Next ==
    \/ \E c \in Calls : Start(c) \/ CallStep(c) \/ ServeLate(c) \/ Lose(c)
    \/ ServeHandshake \/ Opened \/ OpeningFails
    \/ AgeOut \/ Restart
    \/ \E channel \in live : Expire(channel)

Spec == Init /\ [][Next]_vars

\* A browser resumes what awaits, and every fetch ends.
FairSpec ==
    /\ Spec
    /\ \A c \in Calls : WF_vars(CallStep(c))
    /\ WF_vars(ServeHandshake \/ Opened)

-----------------------------------------------------------------------------
\* The types of the variables.
TypeOK ==
    /\ held \in Nat
    /\ aged \in BOOLEAN
    /\ opening \in {"none", "asked", "made"}
    /\ call \in [Calls -> [step : Steps, seal : Nat, renewed : BOOLEAN, shown : Outcomes]]
    /\ handshakes \in Nat
    /\ live \subseteq Nat
    /\ runs \in [Calls -> Nat]
    /\ faults \in Nat

\* The silent retry never repeats what the server has done: however handshakes,
\* restarts and lost messages fall, one request() runs its handler at most once.
RunsOnce == \A c \in Calls : runs[c] <= 1

\* What a caller is told is true of the server: a value means the handler ran, and
\* a call refused for want of a channel never ran, so it is safe to make it again.
ReportTrue ==
    \A c \in Calls :
        /\ call[c].shown = "value" => runs[c] = 1
        /\ call[c].shown = "no_channel" => runs[c] = 0

\* Calls made together share one handshake, and while nothing goes wrong they all
\* get their answer ("Concurrent callers share it").
QuietWorks ==
    faults = 0 =>
        /\ handshakes <= 1
        /\ \A c \in Calls : Settled(c) => call[c].shown = "value"

\* A retry is enough: it takes a second fault for the service to have no channel for a call.
RetryRecovers ==
    (\E c \in Calls : call[c].shown = "no_channel") => faults >= 2

\* All of these.
CallsTrue == RunsOnce /\ ReportTrue /\ QuietWorks /\ RetryRecovers

\* Every call comes to an end: no caller waits for a handshake nobody is making.
CallsSettle == \A c \in Calls : call[c].step # "idle" ~> Settled(c)

\* "a single silent re-handshake and retry is the right answer rather than
\* surfacing a failure the user can do nothing about": a call whose answer
\* reached the page is shown that answer.
AnswerIsShown == \A c \in Calls : call[c].shown # "unopened"

-----------------------------------------------------------------------------
(* The inductive invariant *)

\* The handler of a call has run once it is answered, and not before.
Served(c) ==
    /\ call[c].step # "over" => call[c].shown = "none"
    /\ call[c].step \in {"idle", "waiting", "sealing", "sent", "gone"} => runs[c] = 0
    /\ call[c].step = "answered" => runs[c] = 1
    /\ runs[c] <= 1
    /\ call[c].shown = "value" => runs[c] = 1
    /\ call[c].shown = "no_channel" => runs[c] = 0

\* What a call has been through counts the faults there have been.
Counted(c) ==
    /\ call[c].renewed \/ call[c].step = "gone" => faults >= 1
    /\ call[c].step \in {"sealing", "sent"} /\ call[c].seal \notin live => faults >= 1
    /\ call[c].step \in {"sealing", "sent"} /\ call[c].seal \notin live /\ call[c].renewed => faults >= 2
    /\ call[c].step = "gone" /\ call[c].renewed => faults >= 2
    /\ call[c].shown = "no_channel" => faults >= 2

\* Of a page no call of which has been sealed yet.
Fresh == held = NoChannel /\ \A c \in Calls : call[c].step \in {"idle", "waiting"} /\ ~call[c].renewed

\* A channel that is dead as it is handed over was killed by the first fault there was.
StillBorn == opening = "made" /\ handshakes \notin live => faults >= 2 \/ (faults >= 1 /\ Fresh)
HeldLives == held # NoChannel /\ held \notin live /\ ~aged => faults >= 1

\* Nothing has gone wrong yet: one channel, for all calls.
Started ==
    /\ handshakes = 1 /\ held = 1 /\ 1 \in live
    /\ \A c \in Calls :
          \/ call[c].step = "idle"
          \/ call[c].step \in {"sealing", "sent", "answered"} /\ call[c].seal = 1
          \/ call[c].step = "over" /\ call[c].shown = "value"
Quiet ==
    faults = 0 =>
        /\ ~aged
        /\ opening = "asked" => handshakes = 0 /\ Fresh
        /\ opening = "made"  => handshakes = 1 /\ handshakes \in live /\ Fresh
        /\ opening = "none"  => \/ handshakes = 0 /\ held = NoChannel
                                   /\ \A c \in Calls : call[c].step = "idle"
                                \/ Started

IInv ==
    /\ TypeOK
    /\ \A c \in Calls : Served(c) /\ Counted(c)
    /\ StillBorn /\ HeldLives
    /\ Quiet
=============================================================================
