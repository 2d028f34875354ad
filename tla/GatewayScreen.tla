------------------------------ MODULE GatewayScreen ------------------------------
(***************************************************************************)
(* Where an operator connects the gateways payments go through, one for    *)
(* rehearsals and one for real (screens/ConnectGateway.tsx), and what the  *)
(* server keeps of them (gateway_handlers.go, store/credentials.go).       *)
(*                                                                         *)
(* A password and a host belong to one gateway; `None' is an empty field.  *)
(* The gateway accepts a password at its own host only.                    *)
(***************************************************************************)
EXTENDS FiniteSets

CONSTANTS
    Calls,      \* calls that may be under way together
    Typed,      \* the gateways whose host and password the operator knows
    None

Envs == {"test", "live"}

\* What the constants are to be; Screens assumes it of its instances.
ConstantsFit ==
    /\ None \notin Envs \cup [host : Envs, password : Envs]
    /\ Typed \subseteq Envs

VARIABLES
    held,       \* the connections the server holds: of each one, its host and password
    active,     \* the one the operator works in
    portal,     \* what the rest of the portal goes by: session.environment and gatewayConnected
    page,       \* "form", "done" or "left"
    current,    \* what the page last read: which are held, and the active one
    environment, host, password,    \* the form
    busy, error,
    call        \* the calls under way

server == <<held, active>>
fields == <<environment, host, password>>
vars   == <<server, portal, page, current, fields, busy, error, call>>

-----------------------------------------------------------------------------
Nothing  == [held |-> {}, active |-> None]
Free     == [step |-> "free", kind |-> "load", env |-> "test", host |-> None, password |-> None,
             view |-> Nothing]
Held     == {e \in Envs : held[e] # None}
Working  == IF active = None THEN "test" ELSE active        \* ActiveEnvironment
View     == [held |-> Held, active |-> active]
Existing == environment \in current.held

\* The page is mounted, and asks what is held.
Mounted(ask) ==
    /\ page = "form" /\ current = Nothing
    /\ environment = "test" /\ host = "test" /\ password = None
    /\ busy = FALSE /\ error = FALSE
    /\ \E c \in Calls : call = [d \in Calls |-> IF d = c THEN ask ELSE Free]

Init ==
    /\ held \in {[e \in Envs |-> IF e \in S THEN [host |-> e, password |-> e] ELSE None] :
                   S \in SUBSET Envs}
    /\ active \in Envs \cup {None}
    /\ IF Held = {} THEN active = None ELSE active \in Held
    /\ portal = [environment |-> Working, connected |-> Held # {}]
    /\ Mounted([Free EXCEPT !.step = "sent"])

\* Continue, or a switch: everything is read again, and whoever waited is gone.
Reload ==
    /\ portal' = [environment |-> Working, connected |-> Held # {}]
    /\ page' = "form" /\ current' = Nothing
    /\ environment' = "test" /\ host' = "test" /\ password' = None
    /\ busy' = FALSE /\ error' = FALSE
    /\ \E c \in Calls : call' = [d \in Calls |-> IF d = c THEN [Free EXCEPT !.step = "sent"]
                                                          ELSE Free]

Form == page = "form"

-----------------------------------------------------------------------------
\* chooseEnvironment, which nothing holds back.
ChooseEnvironment(e) ==
    /\ Form
    /\ environment' = e /\ host' = e
    /\ password' = None
    /\ error' = FALSE
    /\ UNCHANGED <<server, portal, page, current, busy, call>>

TypePassword(p) ==
    /\ Form
    /\ password' = p
    /\ UNCHANGED <<server, portal, page, current, environment, host, busy, error, call>>

TypeHost(h) ==
    /\ Form
    /\ host' = h
    /\ UNCHANGED <<server, portal, page, current, environment, password, busy, error, call>>

Send(kind) ==
    \E c \in Calls :
        /\ call[c] = Free
        /\ call' = [call EXCEPT ![c] = [Free EXCEPT !.step = "sent", !.kind = kind,
                          !.env = environment, !.host = host, !.password = password]]

\* submit, from its button or with Enter, which does not ask whether one is under way.
Submit ==
    /\ Form
    /\ IF password = None /\ ~Existing
       THEN error' = TRUE /\ UNCHANGED <<busy, call>>
       ELSE error' = FALSE /\ busy' = TRUE /\ Send("save")
    /\ UNCHANGED <<server, portal, page, current, fields>>

\* "Work in ...", for a connection that is held and not worked in.
SwitchTo ==
    /\ Form /\ ~busy
    /\ Existing /\ environment # current.active
    /\ error' = FALSE /\ busy' = TRUE
    /\ Send("switch")
    /\ UNCHANGED <<server, portal, page, current, fields>>

ConnectOther ==
    /\ page = "done"
    /\ page' = "form" /\ error' = FALSE
    /\ UNCHANGED <<server, portal, current, fields, busy, call>>

Continue == page = "done" /\ Reload /\ UNCHANGED server

\* "Back to your workspace", for whoever has one; the page goes, its calls go on.
BackToWorkspace ==
    /\ Form /\ portal.connected
    /\ page' = "left"
    /\ UNCHANGED <<server, portal, current, fields, busy, error, call>>

\* From the menu: a page of its own, with nothing of the last one.
Return ==
    /\ page = "left" /\ \A c \in Calls : call[c] = Free
    /\ page' = "form" /\ current' = Nothing
    /\ environment' = "test" /\ host' = "test" /\ password' = None
    /\ busy' = FALSE /\ error' = FALSE
    /\ \E c \in Calls : call' = [call EXCEPT ![c] = [Free EXCEPT !.step = "sent"]]
    /\ UNCHANGED <<server, portal>>

-----------------------------------------------------------------------------
\* writeCredentials: the answer is what the server holds as it is written.
Reply(c)  == call' = [call EXCEPT ![c].step = "ok", ![c].view = View']
Refuse(c) == call' = [call EXCEPT ![c].step = "refused"]

\* handleGetCredentials
ServeLoad(c) ==
    /\ call[c].step = "sent" /\ call[c].kind = "load"
    /\ UNCHANGED <<server, portal, page, current, fields, busy, error>>
    /\ Reply(c)

\* Mutant: any gateway's host will do.
ResolveAnyHost(e, h) == IF h = None THEN e ELSE h

\* handleSaveCredentials: the host must be the gateway's that was chosen (resolveHost;
\* an empty one is that gateway's own), an empty password is the one that is held, and
\* the gateway itself is asked before anything is kept.
ResolveHost(e, h) == IF h = None THEN e ELSE IF h = e THEN h ELSE None

Save(c) ==
    LET e == call[c].env
        h == ResolveHost(e, call[c].host)
        p == IF call[c].password # None THEN call[c].password
             ELSE IF held[e] # None THEN held[e].password ELSE None
    IN  /\ call[c].step = "sent" /\ call[c].kind = "save"
        /\ IF h # None /\ p = h
           THEN /\ held' = [held EXCEPT ![e] = [host |-> h, password |-> p]]
                /\ active' = e
                /\ Reply(c)
           ELSE Refuse(c) /\ UNCHANGED server
        /\ UNCHANGED <<portal, page, current, fields, busy, error>>

\* SetActiveEnvironment
Switch(c) ==
    /\ call[c].step = "sent" /\ call[c].kind = "switch"
    /\ IF held[call[c].env] # None
       THEN active' = call[c].env /\ UNCHANGED held /\ Reply(c)
       ELSE UNCHANGED server /\ Refuse(c)
    /\ UNCHANGED <<portal, page, current, fields, busy, error>>

\* A limit, a gateway that is away, no answer: with the change made or without.
AnswerLost(c) ==
    /\ call[c].step \in {"sent", "ok"}
    /\ Refuse(c)
    /\ UNCHANGED <<server, portal, page, current, fields, busy, error>>

-----------------------------------------------------------------------------
Finish(c) == call' = [call EXCEPT ![c] = Free]
Here(c, kind, step) == page # "left" /\ call[c].kind = kind /\ call[c].step = step

\* The load's answer fills the form in, whatever it holds by now.
TakeLoad(c) ==
    /\ Here(c, "load", "ok")
    /\ current' = call[c].view
    /\ environment' = IF current'.active = None THEN "test" ELSE current'.active
    /\ host' = environment'
    /\ Finish(c)
    /\ UNCHANGED <<server, portal, page, password, busy, error>>

TakeSaved(c) ==
    /\ Here(c, "save", "ok")
    /\ current' = call[c].view
    /\ password' = None
    /\ page' = "done" /\ busy' = FALSE
    /\ portal' = [portal EXCEPT !.connected = TRUE]     \* markGatewayConnected
    /\ Finish(c)
    /\ UNCHANGED <<server, environment, host, error>>

TakeSwitched(c) == Here(c, "switch", "ok") /\ Reload /\ UNCHANGED server

TakeRefusal(c) ==
    /\ page # "left" /\ call[c].step = "refused"
    /\ IF call[c].kind = "load" THEN UNCHANGED <<busy, error>> ELSE error' = TRUE /\ busy' = FALSE
    /\ Finish(c)
    /\ UNCHANGED <<server, portal, page, current, fields>>

\* The page is gone: a load is dropped; a save still marks the session, and a switch
\* still loads the portal anew.
TakeLate(c) ==
    /\ page = "left" /\ call[c].step \in {"ok", "refused"}
    /\ IF call[c].step = "ok" /\ call[c].kind = "switch"
       THEN Reload
       ELSE /\ portal' = IF call[c].step = "ok" /\ call[c].kind = "save"
                         THEN [portal EXCEPT !.connected = TRUE] ELSE portal
            /\ Finish(c)
            /\ UNCHANGED <<page, current, fields, busy, error>>
    /\ UNCHANGED server

-----------------------------------------------------------------------------
Serve(c) == ServeLoad(c) \/ Save(c) \/ Switch(c) \/ AnswerLost(c)
Take(c)  == TakeLoad(c) \/ TakeSaved(c) \/ TakeSwitched(c) \/ TakeRefusal(c) \/ TakeLate(c)

Next ==
    \/ \E e \in Envs : ChooseEnvironment(e)
    \/ \E t \in Typed \cup {None} : TypePassword(t) \/ TypeHost(t)
    \/ Submit \/ SwitchTo \/ ConnectOther \/ Continue \/ BackToWorkspace \/ Return
    \/ \E c \in Calls : Serve(c) \/ Take(c)

Spec == Init /\ [][Next]_vars

\* Every call is answered, if only by a timeout.
FairSpec == Spec /\ \A c \in Calls : WF_vars(Serve(c) \/ Take(c))

-----------------------------------------------------------------------------
EnvOrNone == Envs \cup {None}
Views      == [held : SUBSET Envs, active : EnvOrNone]
Connection == [host : Envs, password : Envs] \cup {None}

CallRecord ==
    [step : {"free", "sent", "ok", "refused"}, kind : {"load", "save", "switch"},
     env : Envs, host : EnvOrNone, password : EnvOrNone, view : Views]
ScreenFits == /\ portal \in [environment : Envs, connected : BOOLEAN]
              /\ page \in {"form", "done", "left"} /\ current \in Views
              /\ environment \in Envs /\ host \in EnvOrNone /\ password \in EnvOrNone
              /\ busy \in BOOLEAN /\ error \in BOOLEAN

\* The types of the variables.
TypeOK ==
    /\ held \in [Envs -> Connection] /\ active \in EnvOrNone
    /\ ScreenFits /\ call \in [Calls -> CallRecord]

\* "Labelling the production gateway as a test connection is how a real charge gets
\* mistaken for a rehearsal": no order of toggles, late answers and repeated submits has
\* the server hold one under the other's name.
HeldUnderItsName == \A e \in Held : held[e] = [host |-> e, password |-> e]

\* The operator always works in a connection that is held.
ActiveHeld == IF Held = {} THEN active = None ELSE active \in Held

\* The portal lets an operator past the gate only if there is a connection.
GateHonest == portal.connected => Held # {}

\* The page waits while a save or a switch is under way, and not for good.
BusyHonest == page # "left" /\ busy => \E c \in Calls : call[c] # Free /\ call[c].kind # "load"
BusyEnds   == busy /\ page # "left" ~> ~busy \/ page = "left"

\* All of these.
ConnectTrue == HeldUnderItsName /\ ActiveHeld /\ GateHonest /\ BusyHonest

\* "switching the toggle reloads that profile rather than carrying the other one's
\* details across": so does everything else that changes the gateway the form is for.
ProfilesApart == [][environment' # environment => password' = None]_vars

\* "Live gateway connected", "Test gateway connected": said of the one that was.
DoneNames ==
    [][page = "form" /\ page' = "done" =>
          \E c \in Calls : call[c].kind = "save" /\ call[c].env = environment' /\ call'[c] = Free]_vars

\* "The rest of the portal reads the environment off the session": what it says of test
\* and live is what links are made in.
PortalMode == page = "left" /\ (\A c \in Calls : call[c] = Free) => portal.environment = Working

-----------------------------------------------------------------------------
(* The inductive invariant *)

\* A save that was accepted left a connection behind.
SavedHeld == \A c \in Calls : call[c].kind = "save" /\ call[c].step = "ok" => Held # {}

\* What the server holds needs nothing of the screen, but for the saves that were accepted.
ServerFits == /\ held \in [Envs -> Connection] /\ active \in EnvOrNone
              /\ HeldUnderItsName /\ ActiveHeld

IInv ==
    /\ TypeOK
    /\ HeldUnderItsName /\ ActiveHeld
    /\ GateHonest /\ SavedHeld
    /\ BusyHonest
=============================================================================
