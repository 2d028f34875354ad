--------------------------------- MODULE Portal ---------------------------------
(***************************************************************************)
(* The operator's portal: which screen is up and for whom, and the pay     *)
(* link it shows (store/AppProvider.tsx, the menus of Shell.tsx, and the   *)
(* links between screens).  Screens are swapped by setting `view'; calls   *)
(* that were made from one screen are answered on whichever is up then.    *)
(*                                                                         *)
(* Session and SessionClock say when a session begins and ends; here it    *)
(* just does.  What the forms hold is in LinkForm; what the lists show is  *)
(* left out.  The prototype's role switcher, its activation screens and    *)
(* the top menu have no control that leads to them, and are left out too.  *)
(***************************************************************************)
EXTENDS FiniteSets

CONSTANTS
    Accounts, RoleOf,   \* who may sign in, and each one's role
    Links,              \* the pay links that may come to be
    Loads,              \* bound: reads of a link's detail that may be under way together
    None,
    Hurried             \* whether anyone leaves a screen before its calls are answered

Roles == {"admin", "merchant", "sales", "merchant_management", "integrator"}
Setup == {"gateway", "recovery"}        \* what an account is asked for on the way in
Sessions == [user : Accounts, missing : SUBSET Setup]

\* What the constants are to be; Workspace assumes it of its instances.
ConstantsFit ==
    /\ RoleOf \in [Accounts -> Roles]
    /\ None \notin Accounts \cup Links \cup Sessions
    /\ "demo" \notin Accounts \cup {None}
    /\ Hurried \in BOOLEAN

VARIABLES
    view, role,
    session,    \* the session record: the account and what it must still set up
    asked,      \* the account a sign-in or a restored token is under way for
    registering,
    created,    \* createdLink: a link as it was last read, or None
    detail,     \* linkDetail's link, or None
    load,       \* the reads under way, some behind a change of status
    loading,    \* detailLoading
    creation,   \* the creation under way: the account, "demo" or None
    needs,      \* what the server finds missing of each account
    owner,      \* who made each link, or None
    paused,     \* the links that are paused
    opened,     \* ghost: the link last opened, or last made
    cut         \* ghost: a session ended by itself and left calls under way

who     == <<session, asked, registering>>
screen  == <<view, role>>
link    == <<created, detail, load, loading, creation>>
server  == <<needs, owner, paused>>
vars    == <<who, screen, link, server, opened, cut>>

-----------------------------------------------------------------------------
SignedOutViews == {"login", "register", "forgot-password", "activate", "otp", "pay"}
FullPages      == {"connect-gateway", "security-questions", "merchant-register"}
Create         == {"merchant-create-link", "sales-create-link"}
Lists          == {"merchant-links", "sales-links"}

\* The prototype's pages for the bank; their way in is the menu of a visitor.
BankPages == {"admin-dashboard", "admin-merchants", "admin-merchant-detail", "admin-create-merchant"}

\* Screens that still show the prototype's figures to whoever is not an operator.
Invented ==
    BankPages \cup
    {"admin-transactions", "admin-settings", "merchant-dashboard", "merchant-transactions",
     "merchant-branches", "merchant-create-branch", "merchant-sales", "merchant-create-team",
     "merchant-settings", "sales-dashboard", "sales-transactions"}

Dashboards == Invented \cup Create \cup Lists \cup
    {"merchant-link-created", "merchant-link-detail", "integrations", "developer-docs",
     "admin-live-requests"}
Views == SignedOutViews \cup FullPages \cup Dashboards

HomeFor(r) ==
    CASE r = "merchant_management" -> "merchant-register"
      [] r = "integrator"          -> "integrations"
      [] r = "admin"               -> "admin-live-requests"
      [] OTHER                     -> "sales-dashboard"

GateFor(missing, r) ==
    IF "gateway" \in missing THEN "connect-gateway"
    ELSE IF "recovery" \in missing THEN "security-questions"
    ELSE HomeFor(r)

SignedIn == session # None
Live     == SignedIn /\ RoleOf[session.user] = "sales"     \* an operator's own session

\* Shell's side menu, and the screens it stands beside ("merchant-register" by its name).
AdminMenu      == {"admin-live-requests"} \cup
                  IF SignedIn THEN {} ELSE {"admin-dashboard", "admin-merchants",
                                            "admin-transactions", "admin-settings"}
MerchantMenu   == {"merchant-create-link", "merchant-dashboard", "merchant-links",
                   "merchant-transactions", "merchant-branches", "merchant-sales",
                   "merchant-settings"}
SalesMenu      == {"sales-create-link", "sales-dashboard", "sales-links",
                   "sales-transactions", "connect-gateway"}
IntegratorMenu == {"integrations", "developer-docs", "connect-gateway"}
Shelled        == Dashboards \cup {"merchant-register"}

Menu ==
    CASE role = "admin"      -> AdminMenu
      [] role = "merchant"   -> MerchantMenu
      [] role = "sales"      -> SalesMenu
      [] role = "integrator" -> IntegratorMenu
      [] OTHER               -> {}

OwnLists  == IF role = "sales" THEN "sales-links" ELSE "merchant-links"
OwnCreate == IF role = "sales" THEN "sales-create-link" ELSE "merchant-create-link"
Connected == SignedIn /\ "gateway" \notin session.missing

\* The links a screen itself offers.
Offered ==
    CASE view = "login"                            -> {"register", "forgot-password"}
      [] view \in {"register", "forgot-password"}  -> {"login"}
      [] view = "connect-gateway"                  -> IF Connected THEN {"sales-dashboard"} ELSE {}
      [] view = "sales-dashboard"                  -> {"sales-create-link", "sales-links", "sales-transactions"}
      [] view = "merchant-dashboard"               -> {"merchant-create-link", "merchant-transactions"}
      [] view \in Lists                            -> {OwnCreate}
      [] view \in Create \cup {"merchant-link-detail"} -> {OwnLists}
      [] view = "merchant-link-created"            -> {"merchant-create-link", "merchant-links"}
      [] view = "merchant-branches"                -> {"merchant-create-branch"}
      [] view = "merchant-create-branch"           -> {"merchant-branches"}
      [] view = "merchant-sales"                   -> {"merchant-create-team"}
      [] view = "merchant-create-team"             -> {"merchant-sales"}
      [] view \in {"developer-docs", "integrations"} -> {"integrations", "developer-docs"}
      [] view \in BankPages -> {"admin-merchants", "admin-create-merchant", "admin-merchant-detail"}
      [] OTHER                                     -> {}

Ways == Offered \cup IF view \in Shelled THEN Menu ELSE {}

-----------------------------------------------------------------------------
Idle       == [step |-> "free", link |-> None, pause |-> FALSE]
Reading(l) == [step |-> "loading", link |-> l, pause |-> FALSE]

Init ==
    /\ view = "login" /\ role = "merchant"
    /\ session = None /\ asked = None /\ registering = FALSE
    /\ created = None /\ detail = None
    /\ load = [i \in Loads |-> Idle] /\ loading = FALSE
    /\ creation = None
    /\ needs \in [Accounts -> SUBSET Setup]
    /\ \A a \in Accounts : "gateway" \in needs[a] => RoleOf[a] \in {"sales", "integrator"}
    /\ owner = [l \in Links |-> None] /\ paused = {}
    /\ opened = None /\ cut = FALSE

Quiet    == creation = None /\ asked = None /\ ~registering /\ \A i \in Loads : load[i] = Idle
\* What a session left behind when it ended by itself, nobody knows to wait for.
MayLeave == Hurried \/ cut \/ Quiet

Go ==
    /\ MayLeave
    /\ view' \in Ways
    /\ UNCHANGED <<role, who, link, server, opened, cut>>

\* "Open workspace" on the prototype's merchant screen.
SetRole ==
    /\ MayLeave
    /\ view = "admin-merchant-detail"
    /\ role' = "merchant" /\ view' = HomeFor("merchant")
    /\ UNCHANGED <<who, link, server, opened, cut>>

-----------------------------------------------------------------------------
\* attemptSignIn, or the token a reloaded page finds.
SignIn(a) ==
    /\ MayLeave
    /\ view = "login" /\ asked = None
    /\ asked' = a
    /\ cut' = (cut /\ (SignedIn \/ ~Quiet))     \* with nothing left behind, a fresh start
    /\ UNCHANGED <<session, registering, screen, link, server, opened>>

\* Mutant: the menus stay those of whoever was here before.
SignInAnsweredAsBefore ==
    /\ asked # None
    /\ session' = [user |-> asked, missing |-> needs[asked]]
    /\ view' = GateFor(needs[asked], RoleOf[asked])
    /\ asked' = None
    /\ UNCHANGED <<role, registering, link, server, opened, cut>>

SignInAnswered ==
    /\ asked # None
    /\ session' = [user |-> asked, missing |-> needs[asked]]
    /\ role' = RoleOf[asked]
    /\ view' = GateFor(needs[asked], RoleOf[asked])
    /\ asked' = None
    /\ UNCHANGED <<registering, link, server, opened, cut>>

SignInRefused ==
    /\ asked # None
    /\ asked' = None
    /\ UNCHANGED <<session, registering, screen, link, server, opened, cut>>

\* The routing effect once there is no session any more.
Close ==
    /\ session' = None
    /\ view' = IF view \in SignedOutViews THEN view ELSE "login"
    /\ UNCHANGED <<role, asked, registering>>

\* Left idle, out of time or taken over elsewhere, whatever is under way.
SessionEnds ==
    /\ SignedIn
    /\ Close
    /\ cut' = (cut \/ ~MayLeave)
    /\ UNCHANGED <<link, server, opened>>

\* "Sign out", which the shell offers a visitor of the prototype too.
Logout ==
    /\ MayLeave
    /\ view \in Shelled
    /\ Close
    /\ created' = None
    /\ UNCHANGED <<detail, load, loading, creation, server, opened, cut>>

\* Everything but the stored token is gone, and with it whoever waited for an answer.
Reload ==
    /\ MayLeave
    /\ asked' = IF SignedIn THEN session.user ELSE None
    /\ session' = None /\ registering' = FALSE
    /\ view' = "login" /\ role' = "merchant"
    /\ created' = None /\ detail' = None
    /\ load' = [i \in Loads |-> Idle] /\ loading' = FALSE
    /\ creation' = None /\ cut' = FALSE
    /\ UNCHANGED <<server, opened>>

\* What connect-gateway and security-questions save (markGatewayConnected, refresh);
\* the screen stays, and its way on is a reload.
SetUp(what) ==
    /\ SignedIn
    /\ view = IF what = "gateway" THEN "connect-gateway" ELSE "security-questions"
    /\ needs' = [needs EXCEPT ![session.user] = @ \ {what}]
    /\ session' = [user |-> session.user, missing |-> session.missing \ {what}]
    /\ UNCHANGED <<asked, registering, screen, link, owner, paused, opened, cut>>

\* registerOperator: straight to sign-in once there is an account.
Register ==
    /\ view = "register" /\ ~registering
    /\ registering' = TRUE
    /\ UNCHANGED <<session, asked, screen, link, server, opened, cut>>

RegisterAnswered ==
    /\ registering
    /\ registering' = FALSE
    /\ view' \in {"login", view}
    /\ UNCHANGED <<session, asked, role, link, server, opened, cut>>

-----------------------------------------------------------------------------
AsRead(l) == [link |-> l, paused |-> l \in paused]

Generate ==
    /\ view \in Create
    /\ creation = None
    /\ creation' = IF Live THEN session.user ELSE "demo"
    /\ UNCHANGED <<who, screen, created, detail, load, loading, server, opened, cut>>

\* generateLive's answer, on whatever screen it finds.
LinkMade(l) ==
    /\ creation \in Accounts
    /\ owner[l] = None
    /\ owner' = [owner EXCEPT ![l] = creation]
    /\ created' = [link |-> l, paused |-> FALSE]
    /\ creation' = None
    /\ view' = "merchant-link-created"
    /\ opened' = l
    /\ UNCHANGED <<role, who, detail, load, loading, needs, paused, cut>>

\* The prototype's timer: a link that exists nowhere else.
DemoMade ==
    /\ creation = "demo"
    /\ creation' = None
    /\ view' = "merchant-link-created"
    /\ UNCHANGED <<role, who, created, detail, load, loading, server, opened, cut>>

CreateRefused ==
    /\ creation \in Accounts
    /\ creation' = None
    /\ view' \in {view, "connect-gateway"}      \* gateway_required
    /\ UNCHANGED <<role, who, created, detail, load, loading, server, opened, cut>>

-----------------------------------------------------------------------------
Shown == IF detail # None THEN detail ELSE created      \* activeApiLink

BeginLoad(i, l) ==
    /\ load[i] = Idle
    /\ load' = [load EXCEPT ![i] = Reading(l)]
    /\ loading' = TRUE

\* Mutant: the link opened before stays on the page until the new one is read.
OpenOverDetail(i, l) ==
    /\ MayLeave
    /\ Live /\ view \in Lists \cup {"sales-dashboard"}
    /\ owner[l] = session.user
    /\ created' = AsRead(l)
    /\ view' = "merchant-link-detail"
    /\ opened' = l
    /\ BeginLoad(i, l)
    /\ UNCHANGED <<role, who, detail, creation, server, cut>>

Open(i, l) ==
    /\ MayLeave
    /\ Live /\ view \in Lists \cup {"sales-dashboard"}
    /\ owner[l] = session.user
    /\ created' = AsRead(l) /\ detail' = None
    /\ view' = "merchant-link-detail"
    /\ opened' = l
    /\ BeginLoad(i, l)
    /\ UNCHANGED <<role, who, creation, server, cut>>

OpenDemo ==
    /\ ~Live /\ view \in Lists
    /\ view' = "merchant-link-detail"
    /\ UNCHANGED <<role, who, link, server, opened, cut>>

\* The Refresh button, and every money operation that went through.
RefreshLink(i) ==
    /\ view = "merchant-link-detail" /\ Shown # None
    /\ BeginLoad(i, Shown.link)
    /\ UNCHANGED <<screen, who, created, detail, creation, server, opened, cut>>

TogglePause(i) ==
    /\ view = "merchant-link-detail" /\ Shown # None
    /\ load[i] = Idle
    /\ load' = [load EXCEPT ![i] = [step |-> "pausing", link |-> Shown.link, pause |-> ~Shown.paused]]
    /\ UNCHANGED <<screen, who, created, detail, loading, creation, server, opened, cut>>

StatusSet(i) ==
    /\ load[i].step = "pausing"
    /\ paused' = IF load[i].pause THEN paused \cup {load[i].link} ELSE paused \ {load[i].link}
    /\ load' = [load EXCEPT ![i] = Reading(load[i].link)]
    /\ loading' = TRUE
    /\ UNCHANGED <<screen, who, created, detail, creation, needs, owner, opened, cut>>

StatusRefused(i) ==
    /\ load[i].step = "pausing"
    /\ load' = [load EXCEPT ![i] = Idle]
    /\ UNCHANGED <<screen, who, created, detail, loading, creation, server, opened, cut>>

Finish(i) ==
    /\ load[i].step = "loading"
    /\ load' = [load EXCEPT ![i] = Idle]
    /\ loading' = FALSE

\* Mutant: a read fills in the page, and not what is copied from it.
LoadedDetailOnly(i) ==
    /\ Finish(i)
    /\ detail' = AsRead(load[i].link)
    /\ UNCHANGED <<screen, who, created, creation, server, opened, cut>>

Loaded(i) ==
    /\ Finish(i)
    /\ detail' = AsRead(load[i].link)
    /\ created' = AsRead(load[i].link)
    /\ UNCHANGED <<screen, who, creation, server, opened, cut>>

LoadFailed(i) ==
    /\ Finish(i)
    /\ UNCHANGED <<screen, who, created, detail, creation, server, opened, cut>>

-----------------------------------------------------------------------------
Answer(i) == StatusSet(i) \/ StatusRefused(i) \/ Loaded(i) \/ LoadFailed(i)

Next ==
    \/ Go \/ SetRole \/ OpenDemo \/ Generate \/ DemoMade \/ CreateRefused
    \/ \E a \in Accounts : SignIn(a)
    \/ SignInAnswered \/ SignInRefused \/ SessionEnds \/ Logout \/ Reload
    \/ \E what \in Setup : SetUp(what)
    \/ Register \/ RegisterAnswered
    \/ \E l \in Links : LinkMade(l)
    \/ \E i \in Loads : RefreshLink(i) \/ TogglePause(i) \/ Answer(i) \/ (\E l \in Links : Open(i, l))

Spec     == Init /\ [][Next]_vars
FairSpec == Spec /\ \A i \in Loads : WF_vars(Answer(i))     \* every call is answered

-----------------------------------------------------------------------------
Read == [link : Links, paused : BOOLEAN] \cup {None}
Job  == [step : {"pausing", "loading"}, link : Links, pause : BOOLEAN] \cup {Idle}

\* The types of the variables.
TypeOK ==
    /\ view \in Views /\ role \in Roles
    /\ session \in Sessions \cup {None}
    /\ asked \in Accounts \cup {None} /\ registering \in BOOLEAN
    /\ created \in Read /\ detail \in Read
    /\ load \in [Loads -> Job]
    /\ loading \in BOOLEAN
    /\ creation \in Accounts \cup {"demo", None}
    /\ needs \in [Accounts -> SUBSET Setup]
    /\ owner \in [Links -> Accounts \cup {None}] /\ paused \subseteq Links
    /\ opened \in Links \cup {None} /\ cut \in BOOLEAN

\* A signed-in portal has the menus of its own account, whoever was here before
\* and whatever is answered late.
RoleFits == SignedIn => role = RoleOf[session.user]

\* On an operator's link page, "Copy link" copies the link the page shows, although
\* the one is createdLink and the other linkDetail.
CopyMatchesShown == view = "merchant-link-detail" /\ Live => Shown = created

\* The Refresh button is held back by reads, and never for good.
LoadingHonest  == loading => \E i \in Loads : load[i].step = "loading"
RefreshReturns == loading ~> ~loading

\* "Everything else belongs to a signed-in operator and is sent back to the sign-in page".
ScreenNeedsSession == view \notin SignedOutViews => SignedIn

\* "sent straight to the connect screen, because nothing else is usable until then".
GateHolds == SignedIn /\ "gateway" \in session.missing => view = "connect-gateway"

\* "Setting up recovery after a password is lost is impossible, so it is asked for on
\* the way in": nobody is past the gate without it.
RecoveryAsked == SignedIn /\ "recovery" \in session.missing => view \in FullPages

\* "what lands here is the real outcome": of the link that was opened.
OpenedIsShown == view = "merchant-link-detail" /\ Live => Shown.link = opened

\* "The shareable URL: a real one once a link has actually been created": on the
\* page of a new link, that link's.
CreatedIsShared ==
    view = "merchant-link-created" /\ Live /\ created # None => created.link = opened

\* The invariant those follow from.  Whoever waits has at most one kind of call under
\* way, made by the screen that is up, unless a session ended over it; a visitor alone
\* gets to the prototype's pages.
NoBankPages == SignedIn => view \notin BankPages
Waited ==
    /\ ScreenNeedsSession /\ (SignedIn => view \notin SignedOutViews)
    /\ GateHolds /\ OpenedIsShown /\ CreatedIsShared
    /\ asked # None => view = "login"
    /\ registering => view = "register"
    /\ creation # None => view \in Create /\ (creation = "demo" <=> ~Live)
    /\ \A i \in Loads : load[i] # Idle =>
          view = "merchant-link-detail" /\ (Live => load[i].link = opened)
IInv ==
    /\ TypeOK /\ RoleFits /\ NoBankPages
    /\ CopyMatchesShown /\ LoadingHonest
    /\ ~Hurried /\ ~cut => Waited

\* "The screens still carrying invented figures are hidden from a live session".
InventedHidden == SignedIn /\ ~Live => view \notin Invented
=============================================================================
