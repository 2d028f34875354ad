--------------------------- MODULE Workspace_proofs ---------------------------
(***************************************************************************)
(* The operator's workspace, for every value of the constants: any number  *)
(* of accounts with any roles, of links and of reads under way, and any    *)
(* figures and currencies.                                                 *)
(*                                                                         *)
(* Portal: role and menus need no patience, and follow from whom a screen  *)
(* is for.  What an operator who waits sees is true because there is one   *)
(* kind of call under way at a time, made by the screen that is up.        *)
(* LinkForm: a field is on screen only under the types that read it, and   *)
(* a change of type clears what the new one does not read.                 *)
(***************************************************************************)
EXTENDS Workspace, SequenceTheorems, TLAPS

-----------------------------------------------------------------------------
(* Portal *)

\* The screens a sign-in leads to, the pages of a link, and the ways in.
Homes == {"connect-gateway", "security-questions", "merchant-register", "integrations",
          "admin-live-requests", "sales-dashboard"}
LinkPages == {"merchant-link-created", "merchant-link-detail"}
Doors == {"login", "register"}

\* The portal opens at the sign-in page, with nobody there and nothing under way.
LEMMA DeskInitIInv ==
    ASSUME NEW at,
           Desk(at)!ConstantsFit, Desk(at)!Init
    PROVE  Desk(at)!IInv
<1> USE DEF Desk!ConstantsFit, Desk!Init
<1>1. Desk(at)!TypeOK
  BY DEF Desk!TypeOK, Desk!Setup, Desk!Sessions, Desk!Read, Desk!Job, Desk!Idle, Desk!Views,
       Desk!SignedOutViews, Desk!Roles
<1>2. Desk(at)!RoleFits /\ Desk(at)!NoBankPages /\ Desk(at)!CopyMatchesShown
         /\ Desk(at)!LoadingHonest
  BY DEF Desk!RoleFits, Desk!NoBankPages, Desk!SignedIn, Desk!CopyMatchesShown, Desk!LoadingHonest
<1>3. Desk(at)!Waited
  BY DEF Desk!Waited, Desk!ScreenNeedsSession, Desk!GateHolds, Desk!OpenedIsShown,
       Desk!CreatedIsShared, Desk!SignedIn, Desk!SignedOutViews
<1> QED
  BY <1>1, <1>2, <1>3 DEF Desk!IInv

\* Homes and gates are screens.
LEMMA DeskGateViews ==
    ASSUME NEW at,
           NEW missing, NEW r
    PROVE  /\ Desk(at)!GateFor(missing, r) \in Homes
           /\ "gateway" \in missing => Desk(at)!GateFor(missing, r) = "connect-gateway"
BY DEF Desk!GateFor, Desk!HomeFor, Homes

\* Those, the pages of a link and the ways in are screens of the portal.
LEMMA DeskScreens ==
    ASSUME NEW at
    PROVE  Homes \cup LinkPages \cup Doors \subseteq Desk(at)!Views
BY DEF Desk!Views, Desk!SignedOutViews, Desk!FullPages, Desk!Dashboards, Desk!Invented,
     Desk!BankPages, Desk!Create, Desk!Lists,
       Homes, LinkPages, Doors

\* The kinds of screens have none in common, but for the doors.
LEMMA DeskKinds ==
    ASSUME NEW at
    PROVE  /\ Doors \subseteq Desk(at)!SignedOutViews
           /\ Desk(at)!SignedOutViews
                \cap (Homes \cup LinkPages \cup Desk(at)!Create \cup Desk(at)!Lists) = {}
           /\ Desk(at)!BankPages
                \cap (Homes \cup LinkPages \cup Doors \cup Desk(at)!Create \cup Desk(at)!Lists) = {}
           /\ (Homes \cup LinkPages \cup Doors) \cap (Desk(at)!Create \cup Desk(at)!Lists) = {}
           /\ Desk(at)!Create \cap Desk(at)!Lists = {}
BY DEF Desk!SignedOutViews, Desk!BankPages, Desk!Create, Desk!Lists, Homes, LinkPages, Doors

\* Menus and links lead to screens of the portal.
LEMMA DeskWaysAreViews ==
    ASSUME NEW at
    PROVE  Desk(at)!Ways \subseteq Desk(at)!Views
<1>1. Desk(at)!Menu \subseteq Desk(at)!Views
  BY DEF Desk!Menu, Desk!AdminMenu, Desk!MerchantMenu, Desk!SalesMenu, Desk!IntegratorMenu,
       Desk!Views, Desk!SignedOutViews, Desk!FullPages, Desk!Dashboards, Desk!Invented,
       Desk!BankPages, Desk!Create, Desk!Lists
<1>2. {Desk(at)!OwnLists, Desk(at)!OwnCreate} \subseteq Desk(at)!Views
  BY DEF Desk!OwnLists, Desk!OwnCreate, Desk!Views, Desk!Dashboards, Desk!Create, Desk!Lists
<1>3. Desk(at)!Offered \subseteq Desk(at)!Views
  BY <1>2 DEF Desk!Offered, Desk!Views, Desk!SignedOutViews, Desk!Dashboards,
       Desk!Invented, Desk!BankPages, Desk!Create, Desk!Lists
<1> QED
  BY <1>1, <1>3 DEF Desk!Ways

\* Where Go leads.
LEMMA DeskWays ==
    ASSUME NEW at,
           NEW v \in Desk(at)!Ways
    PROVE  /\ view \in Desk(at)!SignedOutViews => v \in Desk(at)!SignedOutViews
           /\ view \notin Desk(at)!SignedOutViews => v \notin Desk(at)!SignedOutViews
           /\ view = "connect-gateway" => Desk(at)!Connected
           /\ Desk(at)!SignedIn /\ view \notin Desk(at)!BankPages => v \notin Desk(at)!BankPages
           /\ v # "merchant-link-detail" /\ v # "merchant-link-created"
<1>1. CASE v \in Desk(at)!Offered
  <2>1. CASE view \in {"login", "register", "forgot-password"}
    BY <1>1, <2>1 DEF Desk!Offered, Desk!SignedOutViews, Desk!BankPages, Desk!Lists, Desk!Create
  <2>2. CASE view = "connect-gateway"
    BY <1>1, <2>2 DEF Desk!Offered, Desk!SignedOutViews, Desk!BankPages, Desk!Lists, Desk!Create
  <2>3. CASE view \in {"sales-dashboard", "merchant-dashboard"}
    BY <1>1, <2>3 DEF Desk!Offered, Desk!SignedOutViews, Desk!BankPages, Desk!Lists, Desk!Create
  <2>4. CASE view \in Desk(at)!Lists \cup Desk(at)!Create \cup LinkPages
    BY <1>1, <2>4 DEF LinkPages, Desk!Offered, Desk!SignedOutViews, Desk!BankPages, Desk!Lists,
         Desk!Create, Desk!OwnLists, Desk!OwnCreate
  <2>5. CASE \/ view \in {"merchant-branches", "merchant-create-branch"}
             \/ view \in {"merchant-sales", "merchant-create-team"}
             \/ view \in {"developer-docs", "integrations"}
    BY <1>1, <2>5 DEF Desk!Offered, Desk!SignedOutViews, Desk!BankPages, Desk!Lists, Desk!Create
  <2>6. CASE view \in Desk(at)!BankPages
    BY <1>1, <2>6 DEF Desk!Offered, Desk!SignedOutViews, Desk!BankPages, Desk!Lists, Desk!Create
  <2> QED
    BY <1>1, <2>1, <2>2, <2>3, <2>4, <2>5, <2>6 DEF LinkPages, Desk!Offered
<1>2. CASE view \in Desk(at)!Shelled /\ v \in Desk(at)!Menu
  <2>1. view \notin Desk(at)!SignedOutViews /\ view # "connect-gateway"
    BY <1>2 DEF Desk!Shelled, Desk!SignedOutViews, Desk!Dashboards, Desk!Invented, Desk!BankPages,
         Desk!Create, Desk!Lists
  <2>2. v \in Desk(at)!AdminMenu \cup Desk(at)!MerchantMenu
              \cup Desk(at)!SalesMenu \cup Desk(at)!IntegratorMenu
    BY <1>2 DEF Desk!Menu
  <2>3. v \notin Desk(at)!SignedOutViews /\ v # "merchant-link-detail"
           /\ v # "merchant-link-created"
    BY <2>2 DEF Desk!AdminMenu, Desk!MerchantMenu, Desk!SalesMenu, Desk!IntegratorMenu,
         Desk!SignedOutViews
  <2>4. Desk(at)!SignedIn => v \notin Desk(at)!BankPages
    BY <2>2 DEF Desk!AdminMenu, Desk!MerchantMenu, Desk!SalesMenu, Desk!IntegratorMenu,
         Desk!BankPages
  <2> QED
    BY <2>1, <2>3, <2>4
<1> QED
  BY <1>1, <1>2 DEF Desk!Ways

\* A menu or a link on the screen leads to a screen of the same kind of visitor, and
\* whoever waits has nothing under way when it is used.
LEMMA DeskGoIInv ==
    ASSUME NEW at,
           Desk(at)!ConstantsFit, Desk(at)!IInv, Desk(at)!Go
    PROVE  Desk(at)!IInv'
<1>1. Desk(at)!TypeOK'
  BY DeskWaysAreViews DEF Desk!IInv, Desk!TypeOK, Desk!Go, Desk!who, Desk!link, Desk!server
<1>2. Desk(at)!RoleFits' /\ Desk(at)!NoBankPages'
  BY DeskWays DEF Desk!IInv, Desk!RoleFits, Desk!NoBankPages, Desk!SignedIn, Desk!Go, Desk!who
<1>3. Desk(at)!CopyMatchesShown'
  BY DeskWays DEF Desk!CopyMatchesShown, Desk!Go
<1>4. Desk(at)!LoadingHonest'
  BY DEF Desk!IInv, Desk!LoadingHonest, Desk!Go, Desk!link
<1>5. ASSUME at \notin Hasty, ~cut' PROVE Desk(at)!Waited'
  BY <1>5, DeskWays DEF Desk!IInv, Desk!Waited, Desk!ScreenNeedsSession, Desk!GateHolds,
       Desk!OpenedIsShown, Desk!CreatedIsShared, Desk!Connected, Desk!SignedIn, Desk!Go,
       Desk!MayLeave, Desk!Quiet, Desk!who, Desk!link
<1> QED
  BY <1>1, <1>2, <1>3, <1>4, <1>5 DEF Desk!IInv

\* The prototype's switch of roles is on a page for the bank, which no session sees.
LEMMA DeskSetRoleIInv ==
    ASSUME NEW at,
           Desk(at)!ConstantsFit, Desk(at)!IInv, Desk(at)!SetRole
    PROVE  Desk(at)!IInv'
<1>1. Desk(at)!TypeOK'
  BY DeskScreens DEF Desk!IInv, Desk!TypeOK, Desk!Roles, Desk!SetRole, Desk!HomeFor, Desk!who,
       Desk!link, Desk!server, Homes
<1>2. Desk(at)!RoleFits' /\ Desk(at)!NoBankPages'
  BY DEF Desk!IInv, Desk!RoleFits, Desk!NoBankPages, Desk!SignedIn, Desk!SetRole, Desk!BankPages,
       Desk!who
<1>3. Desk(at)!CopyMatchesShown'
  BY DEF Desk!CopyMatchesShown, Desk!SetRole, Desk!HomeFor
<1>4. Desk(at)!LoadingHonest'
  BY DEF Desk!IInv, Desk!LoadingHonest, Desk!SetRole, Desk!link
<1>5. ASSUME at \notin Hasty, ~cut' PROVE Desk(at)!Waited'
  <2>1. view \in Desk(at)!BankPages /\ view \notin Desk(at)!SignedOutViews
    BY DEF Desk!SetRole, Desk!BankPages, Desk!SignedOutViews
  <2>2. Desk(at)!SignedIn
    BY <1>5, <2>1 DEF Desk!IInv, Desk!Waited, Desk!ScreenNeedsSession, Desk!SetRole
  <2> QED
    BY <2>1, <2>2 DEF Desk!IInv, Desk!NoBankPages
<1> QED
  BY <1>1, <1>2, <1>3, <1>4, <1>5 DEF Desk!IInv

\* The prototype's detail page is opened by nobody who is an operator.
LEMMA DeskOpenDemoIInv ==
    ASSUME NEW at,
           Desk(at)!ConstantsFit, Desk(at)!IInv, Desk(at)!OpenDemo
    PROVE  Desk(at)!IInv'
<1>1. Desk(at)!TypeOK'
  BY DeskScreens DEF Desk!IInv, Desk!TypeOK, Desk!OpenDemo, Desk!who, Desk!link, Desk!server,
       LinkPages
<1>2. Desk(at)!RoleFits' /\ Desk(at)!NoBankPages'
  BY DeskKinds DEF Desk!IInv, Desk!RoleFits, Desk!NoBankPages, Desk!SignedIn, Desk!OpenDemo,
       Desk!who, LinkPages
<1>3. Desk(at)!CopyMatchesShown'
  BY DEF Desk!CopyMatchesShown, Desk!Live, Desk!SignedIn, Desk!OpenDemo, Desk!who
<1>4. Desk(at)!LoadingHonest'
  BY DEF Desk!IInv, Desk!LoadingHonest, Desk!OpenDemo, Desk!link
<1>5. ASSUME at \notin Hasty, ~cut' PROVE Desk(at)!Waited'
  BY <1>5, DeskKinds DEF Desk!IInv, Desk!Waited, Desk!ScreenNeedsSession, Desk!GateHolds,
       Desk!OpenedIsShown, Desk!CreatedIsShared, Desk!Live, Desk!SignedIn, Desk!OpenDemo, Desk!who,
       Desk!link, Homes, LinkPages, Doors
<1> QED
  BY <1>1, <1>2, <1>3, <1>4, <1>5 DEF Desk!IInv

\* A creation is under the account of whoever is signed in.
LEMMA DeskGenerateIInv ==
    ASSUME NEW at,
           Desk(at)!ConstantsFit, Desk(at)!IInv, Desk(at)!Generate
    PROVE  Desk(at)!IInv'
<1>1. Desk(at)!TypeOK'
  BY DEF Desk!IInv, Desk!TypeOK, Desk!Sessions, Desk!Live, Desk!SignedIn, Desk!Generate, Desk!who,
       Desk!screen, Desk!server
<1>2. Desk(at)!RoleFits' /\ Desk(at)!NoBankPages'
  BY DEF Desk!IInv, Desk!RoleFits, Desk!NoBankPages, Desk!SignedIn, Desk!Generate, Desk!who,
       Desk!screen
<1>3. Desk(at)!CopyMatchesShown'
  BY DEF Desk!IInv, Desk!CopyMatchesShown, Desk!Live, Desk!SignedIn, Desk!Shown, Desk!Generate,
       Desk!who, Desk!screen
<1>4. Desk(at)!LoadingHonest'
  BY DEF Desk!IInv, Desk!LoadingHonest, Desk!Generate
<1>5. ASSUME at \notin Hasty, ~cut' PROVE Desk(at)!Waited'
  BY <1>5 DEF Desk!ConstantsFit, Desk!IInv, Desk!TypeOK, Desk!Sessions, Desk!Waited,
       Desk!ScreenNeedsSession, Desk!GateHolds, Desk!OpenedIsShown, Desk!CreatedIsShared,
       Desk!Live, Desk!SignedIn, Desk!Shown, Desk!Generate, Desk!who, Desk!screen
<1> QED
  BY <1>1, <1>2, <1>3, <1>4, <1>5 DEF Desk!IInv

\* The prototype's timer runs out, for nobody who is an operator.
LEMMA DeskDemoMadeIInv ==
    ASSUME NEW at,
           Desk(at)!ConstantsFit, Desk(at)!IInv, Desk(at)!DemoMade
    PROVE  Desk(at)!IInv'
<1>1. Desk(at)!TypeOK'
  BY DeskScreens DEF Desk!IInv, Desk!TypeOK, Desk!DemoMade, Desk!who, Desk!server, LinkPages
<1>2. Desk(at)!RoleFits' /\ Desk(at)!NoBankPages'
  BY DeskKinds DEF Desk!IInv, Desk!RoleFits, Desk!NoBankPages, Desk!SignedIn, Desk!DemoMade,
       Desk!who, LinkPages
<1>3. Desk(at)!CopyMatchesShown'
  BY DEF Desk!CopyMatchesShown, Desk!DemoMade
<1>4. Desk(at)!LoadingHonest'
  BY DEF Desk!IInv, Desk!LoadingHonest, Desk!DemoMade
<1>5. ASSUME at \notin Hasty, ~cut' PROVE Desk(at)!Waited'
  BY <1>5, DeskGateViews, DeskKinds DEF Desk!ConstantsFit, Desk!IInv, Desk!Waited,
       Desk!ScreenNeedsSession, Desk!GateHolds, Desk!OpenedIsShown, Desk!CreatedIsShared,
       Desk!Live, Desk!SignedIn, Desk!DemoMade, Desk!who, LinkPages, Doors
<1> QED
  BY <1>1, <1>2, <1>3, <1>4, <1>5 DEF Desk!IInv

\* A refusal keeps the form or leads to the gateways.
LEMMA DeskCreateRefusedIInv ==
    ASSUME NEW at,
           Desk(at)!ConstantsFit, Desk(at)!IInv, Desk(at)!CreateRefused
    PROVE  Desk(at)!IInv'
<1>1. Desk(at)!TypeOK'
  BY DeskScreens DEF Desk!IInv, Desk!TypeOK, Desk!CreateRefused, Desk!who, Desk!server, Homes
<1>2. Desk(at)!RoleFits' /\ Desk(at)!NoBankPages'
  BY DeskKinds DEF Desk!IInv, Desk!RoleFits, Desk!NoBankPages, Desk!SignedIn, Desk!CreateRefused,
       Desk!who, Homes
<1>3. Desk(at)!CopyMatchesShown'
  BY DEF Desk!IInv, Desk!CopyMatchesShown, Desk!Live, Desk!SignedIn, Desk!Shown,
       Desk!CreateRefused, Desk!who
<1>4. Desk(at)!LoadingHonest'
  BY DEF Desk!IInv, Desk!LoadingHonest, Desk!CreateRefused
<1>5. ASSUME at \notin Hasty, ~cut' PROVE Desk(at)!Waited'
  BY <1>5, DeskKinds DEF Desk!ConstantsFit, Desk!IInv, Desk!Waited, Desk!ScreenNeedsSession,
       Desk!GateHolds, Desk!OpenedIsShown, Desk!CreatedIsShared, Desk!SignedIn, Desk!CreateRefused,
       Desk!who, Homes, LinkPages, Doors
<1> QED
  BY <1>1, <1>2, <1>3, <1>4, <1>5 DEF Desk!IInv

\* A sign-in is asked for at the sign-in page alone.
LEMMA DeskSignInIInv ==
    ASSUME NEW at,
           Desk(at)!ConstantsFit, Desk(at)!IInv, NEW a \in AccountsOf[at], Desk(at)!SignIn(a)
    PROVE  Desk(at)!IInv'
<1>1. Desk(at)!TypeOK'
  BY DEF Desk!IInv, Desk!TypeOK, Desk!SignIn, Desk!screen, Desk!link, Desk!server
<1>2. Desk(at)!RoleFits' /\ Desk(at)!NoBankPages'
  BY DEF Desk!IInv, Desk!RoleFits, Desk!NoBankPages, Desk!SignedIn, Desk!SignIn, Desk!screen
<1>3. Desk(at)!CopyMatchesShown'
  BY DEF Desk!CopyMatchesShown, Desk!SignIn, Desk!screen
<1>4. Desk(at)!LoadingHonest'
  BY DEF Desk!IInv, Desk!LoadingHonest, Desk!SignIn, Desk!link
<1>5. ASSUME at \notin Hasty, ~cut' PROVE Desk(at)!Waited'
  <2>1. /\ view = "login" /\ asked = None /\ asked' = a
        /\ UNCHANGED <<view, session, registering, created, detail, load, creation, opened>>
    BY DEF Desk!SignIn, Desk!screen, Desk!link
  <2>2. UNCHANGED <<Desk(at)!SignedIn, Desk(at)!Live>>
    BY <2>1 DEF Desk!SignedIn, Desk!Live
  <2>3. ~Desk(at)!SignedIn /\ Desk(at)!Quiet
    BY <1>5, <2>1, DeskKinds DEF Desk!IInv, Desk!Waited, Desk!MayLeave, Desk!SignIn, Doors
  <2>4. Desk(at)!ScreenNeedsSession' /\ Desk(at)!GateHolds'
           /\ Desk(at)!OpenedIsShown' /\ Desk(at)!CreatedIsShared'
    BY <2>1, <2>2, <2>3, DeskKinds DEF Desk!ScreenNeedsSession, Desk!GateHolds,
         Desk!OpenedIsShown, Desk!CreatedIsShared, Doors
  <2> QED
    BY <2>1, <2>2, <2>3, <2>4, DeskKinds DEF Desk!Waited, Desk!Quiet, Doors
<1> QED
  BY <1>1, <1>2, <1>3, <1>4, <1>5 DEF Desk!IInv

\* The answer to a sign-in sets account, role and screen together.
LEMMA DeskSignInAnsweredIInv ==
    ASSUME NEW at,
           Desk(at)!ConstantsFit, Desk(at)!IInv, Desk(at)!SignInAnswered
    PROVE  Desk(at)!IInv'
<1>1. Desk(at)!TypeOK'
  BY DeskScreens, DeskGateViews DEF Desk!ConstantsFit, Desk!IInv, Desk!TypeOK, Desk!Sessions,
       Desk!SignInAnswered, Desk!link, Desk!server
<1>2. Desk(at)!RoleFits' /\ Desk(at)!NoBankPages'
  BY DeskGateViews, DeskKinds DEF Desk!RoleFits, Desk!NoBankPages, Desk!SignInAnswered
<1>3. Desk(at)!CopyMatchesShown'
  BY DeskGateViews DEF Desk!CopyMatchesShown, Desk!SignInAnswered, Homes
<1>4. Desk(at)!LoadingHonest'
  BY DEF Desk!IInv, Desk!LoadingHonest, Desk!SignInAnswered, Desk!link
<1>5. ASSUME at \notin Hasty, ~cut' PROVE Desk(at)!Waited'
  <2>1. /\ view = "login" /\ creation = None /\ ~registering
        /\ \A i \in LoadsOf[at] : load[i] = Desk(at)!Idle
    BY <1>5, DeskKinds DEF Desk!IInv, Desk!Waited, Desk!SignInAnswered, Doors
  <2>2. /\ view' \in {"connect-gateway", "security-questions", "merchant-register",
                       "integrations", "admin-live-requests", "sales-dashboard"}
        /\ session' = [user |-> asked, missing |-> needs[asked]]
        /\ "gateway" \in session'.missing => view' = "connect-gateway"
    BY DeskGateViews DEF Desk!SignInAnswered, Homes
  <2>3. /\ asked' = None /\ registering' = registering /\ creation' = creation
        /\ load' = load
    BY DEF Desk!SignInAnswered, Desk!link
  <2>4. Desk(at)!SignedIn'
    BY DEF Desk!IInv, Desk!TypeOK, Desk!Sessions, Desk!SignedIn, Desk!ConstantsFit,
         Desk!SignInAnswered
  <2>5. view' \notin Desk(at)!SignedOutViews
           /\ view' \notin {"merchant-link-detail", "merchant-link-created"}
    BY <2>2, DeskKinds DEF Homes
  <2>6. Desk(at)!ScreenNeedsSession' /\ (Desk(at)!SignedIn' => view' \notin Desk(at)!SignedOutViews)
           /\ Desk(at)!GateHolds'
    BY <2>2, <2>4, <2>5 DEF Desk!ScreenNeedsSession, Desk!GateHolds
  <2>7. Desk(at)!OpenedIsShown' /\ Desk(at)!CreatedIsShared'
    BY <2>5 DEF Desk!OpenedIsShown, Desk!CreatedIsShared
  <2> QED
    BY <2>1, <2>3, <2>6, <2>7 DEF Desk!Waited
<1> QED
  BY <1>1, <1>2, <1>3, <1>4, <1>5 DEF Desk!IInv

\* A refused sign-in leaves everything else.
LEMMA DeskSignInRefusedIInv ==
    ASSUME NEW at,
           Desk(at)!ConstantsFit, Desk(at)!IInv, Desk(at)!SignInRefused
    PROVE  Desk(at)!IInv'
<1>1. Desk(at)!TypeOK'
  BY DEF Desk!IInv, Desk!TypeOK, Desk!SignInRefused, Desk!screen, Desk!link, Desk!server
<1>2. Desk(at)!RoleFits' /\ Desk(at)!NoBankPages'
  BY DEF Desk!IInv, Desk!RoleFits, Desk!NoBankPages, Desk!SignedIn, Desk!SignInRefused, Desk!screen
<1>3. Desk(at)!CopyMatchesShown'
  BY DEF Desk!IInv, Desk!CopyMatchesShown, Desk!Live, Desk!SignedIn, Desk!Shown,
       Desk!SignInRefused, Desk!screen, Desk!link
<1>4. Desk(at)!LoadingHonest'
  BY DEF Desk!IInv, Desk!LoadingHonest, Desk!SignInRefused, Desk!link
<1>5. ASSUME at \notin Hasty, ~cut' PROVE Desk(at)!Waited'
  BY <1>5 DEF Desk!IInv, Desk!Waited, Desk!ScreenNeedsSession, Desk!GateHolds, Desk!OpenedIsShown,
       Desk!CreatedIsShared, Desk!Live, Desk!SignedIn, Desk!SignInRefused, Desk!screen, Desk!link
<1> QED
  BY <1>1, <1>2, <1>3, <1>4, <1>5 DEF Desk!IInv

\* The end of a session leads whoever was in the portal to the sign-in page.
LEMMA DeskSessionEndsIInv ==
    ASSUME NEW at,
           Desk(at)!ConstantsFit, Desk(at)!IInv, Desk(at)!SessionEnds
    PROVE  Desk(at)!IInv'
<1>1. Desk(at)!TypeOK'
  BY DeskScreens DEF Desk!IInv, Desk!TypeOK, Desk!SessionEnds, Desk!Close, Desk!link, Desk!server,
       Doors
<1>2. Desk(at)!RoleFits' /\ Desk(at)!NoBankPages'
  BY DEF Desk!RoleFits, Desk!NoBankPages, Desk!SignedIn, Desk!SessionEnds, Desk!Close
<1>3. Desk(at)!CopyMatchesShown'
  BY DEF Desk!CopyMatchesShown, Desk!Live, Desk!SignedIn, Desk!SessionEnds, Desk!Close
<1>4. Desk(at)!LoadingHonest'
  BY DEF Desk!IInv, Desk!LoadingHonest, Desk!SessionEnds, Desk!link
<1>5. ASSUME at \notin Hasty, ~cut' PROVE Desk(at)!Waited'
  BY <1>5, DeskKinds DEF Desk!IInv, Desk!Waited, Desk!ScreenNeedsSession, Desk!GateHolds,
       Desk!OpenedIsShown, Desk!CreatedIsShared, Desk!SignedIn, Desk!SessionEnds, Desk!MayLeave,
       Desk!Quiet, Desk!Close, Desk!link, Doors
<1> QED
  BY <1>1, <1>2, <1>3, <1>4, <1>5 DEF Desk!IInv

\* So does "Log out", which forgets the link as well.
LEMMA DeskLogoutIInv ==
    ASSUME NEW at,
           Desk(at)!ConstantsFit, Desk(at)!IInv, Desk(at)!Logout
    PROVE  Desk(at)!IInv'
<1>1. Desk(at)!TypeOK'
  BY DeskScreens DEF Desk!IInv, Desk!TypeOK, Desk!Read, Desk!Logout, Desk!Close, Desk!server, Doors
<1>2. Desk(at)!RoleFits' /\ Desk(at)!NoBankPages'
  BY DEF Desk!RoleFits, Desk!NoBankPages, Desk!SignedIn, Desk!Logout, Desk!Close
<1>3. Desk(at)!CopyMatchesShown'
  BY DEF Desk!CopyMatchesShown, Desk!Live, Desk!SignedIn, Desk!Logout, Desk!Close
<1>4. Desk(at)!LoadingHonest'
  BY DEF Desk!IInv, Desk!LoadingHonest, Desk!Logout
<1>5. ASSUME at \notin Hasty, ~cut' PROVE Desk(at)!Waited'
  <2>1. Desk(at)!Quiet
    BY <1>5 DEF Desk!Logout, Desk!MayLeave
  <2>2. view' \in Desk(at)!SignedOutViews /\ session' = None
        /\ UNCHANGED <<asked, registering, load, creation>>
    BY DeskKinds DEF Desk!Logout, Desk!Close, Doors
  <2> QED
    BY <2>1, <2>2, DeskKinds DEF Desk!Waited, Desk!ScreenNeedsSession, Desk!GateHolds,
         Desk!OpenedIsShown, Desk!CreatedIsShared, Desk!Live, Desk!SignedIn, Desk!Quiet, LinkPages
<1> QED
  BY <1>1, <1>2, <1>3, <1>4, <1>5 DEF Desk!IInv

\* A reloaded page starts from the sign-in page, with the token it found.
LEMMA DeskReloadIInv ==
    ASSUME NEW at,
           Desk(at)!ConstantsFit, Desk(at)!IInv, Desk(at)!Reload
    PROVE  Desk(at)!IInv'
<1>1. Desk(at)!TypeOK'
  BY DeskScreens DEF Desk!IInv, Desk!TypeOK, Desk!Sessions, Desk!Read, Desk!Roles, Desk!Reload,
       Desk!Job, Desk!SignedIn, Desk!server, Doors
<1>2. Desk(at)!RoleFits' /\ Desk(at)!NoBankPages'
  BY DEF Desk!RoleFits, Desk!NoBankPages, Desk!SignedIn, Desk!Reload
<1>3. Desk(at)!CopyMatchesShown'
  BY DEF Desk!CopyMatchesShown, Desk!Reload
<1>4. Desk(at)!LoadingHonest'
  BY DEF Desk!LoadingHonest, Desk!Reload
<1>5. ASSUME at \notin Hasty, ~cut' PROVE Desk(at)!Waited'
  BY DeskKinds DEF Desk!Waited, Desk!ScreenNeedsSession, Desk!GateHolds, Desk!OpenedIsShown,
       Desk!CreatedIsShared, Desk!SignedIn, Desk!Reload, Doors
<1> QED
  BY <1>1, <1>2, <1>3, <1>4, <1>5 DEF Desk!IInv

\* What is set up is no longer missing, and the screen stays.
LEMMA DeskSetUpIInv ==
    ASSUME NEW at,
           Desk(at)!ConstantsFit, Desk(at)!IInv, NEW what \in Desk(at)!Setup, Desk(at)!SetUp(what)
    PROVE  Desk(at)!IInv'
<1>1. Desk(at)!TypeOK'
  BY DEF Desk!IInv, Desk!TypeOK, Desk!Sessions, Desk!SetUp, Desk!SignedIn, Desk!screen, Desk!link
<1>2. Desk(at)!RoleFits' /\ Desk(at)!NoBankPages'
  BY DEF Desk!IInv, Desk!RoleFits, Desk!NoBankPages, Desk!SetUp, Desk!screen
<1>3. Desk(at)!CopyMatchesShown'
  BY DEF Desk!CopyMatchesShown, Desk!SetUp, Desk!screen
<1>4. Desk(at)!LoadingHonest'
  BY DEF Desk!IInv, Desk!LoadingHonest, Desk!SetUp, Desk!link
<1>5. ASSUME at \notin Hasty, ~cut' PROVE Desk(at)!Waited'
  <2>1. /\ Desk(at)!SignedIn /\ UNCHANGED <<view, created, detail, load, creation, asked,
            registering, opened, cut>>
        /\ session' = [user |-> session.user, missing |-> session.missing \ {what}]
        /\ view \in {"connect-gateway", "security-questions"}
    BY DEF Desk!SetUp, Desk!screen, Desk!link
  <2>2. view \notin Desk(at)!SignedOutViews /\ view \notin Desk(at)!Create
    BY <2>1, DeskKinds DEF Homes
  <2>3. creation = None /\ asked = None /\ ~registering /\ \A i \in LoadsOf[at] :
           load[i] = Desk(at)!Idle
    BY <1>5, <2>1, <2>2 DEF Desk!IInv, Desk!Waited
  <2>4. session' \in Desk(at)!Sessions
    BY <2>1 DEF Desk!IInv, Desk!TypeOK, Desk!SignedIn, Desk!Sessions
  <2>5. Desk(at)!SignedIn' /\ session'.user = session.user
           /\ session'.missing \subseteq session.missing
    BY <2>1, <2>4 DEF Desk!SignedIn, Desk!ConstantsFit
  <2>6. Desk(at)!ScreenNeedsSession' /\ Desk(at)!GateHolds'
    BY <1>5, <2>1, <2>5 DEF Desk!IInv, Desk!Waited, Desk!ScreenNeedsSession, Desk!GateHolds
  <2>7. Desk(at)!OpenedIsShown' /\ Desk(at)!CreatedIsShared'
    BY <2>1 DEF Desk!OpenedIsShown, Desk!CreatedIsShared
  <2> QED
    BY <2>1, <2>2, <2>3, <2>6, <2>7 DEF Desk!Waited
<1> QED
  BY <1>1, <1>2, <1>3, <1>4, <1>5 DEF Desk!IInv

\* A registration is asked for at its own screen.
LEMMA DeskRegisterIInv ==
    ASSUME NEW at,
           Desk(at)!ConstantsFit, Desk(at)!IInv, Desk(at)!Register
    PROVE  Desk(at)!IInv'
<1>1. Desk(at)!TypeOK'
  BY DEF Desk!IInv, Desk!TypeOK, Desk!Register, Desk!screen, Desk!link, Desk!server
<1>2. Desk(at)!RoleFits' /\ Desk(at)!NoBankPages'
  BY DEF Desk!IInv, Desk!RoleFits, Desk!NoBankPages, Desk!SignedIn, Desk!Register, Desk!screen
<1>3. Desk(at)!CopyMatchesShown'
  BY DEF Desk!CopyMatchesShown, Desk!Register, Desk!screen
<1>4. Desk(at)!LoadingHonest'
  BY DEF Desk!IInv, Desk!LoadingHonest, Desk!Register, Desk!link
<1>5. ASSUME at \notin Hasty, ~cut' PROVE Desk(at)!Waited'
  BY <1>5 DEF Desk!IInv, Desk!Waited, Desk!ScreenNeedsSession, Desk!GateHolds, Desk!OpenedIsShown,
       Desk!CreatedIsShared, Desk!Live, Desk!SignedIn, Desk!Register, Desk!screen, Desk!link
<1> QED
  BY <1>1, <1>2, <1>3, <1>4, <1>5 DEF Desk!IInv

\* It leads to the sign-in page, or leaves the screen that is up.
LEMMA DeskRegisterAnsweredIInv ==
    ASSUME NEW at,
           Desk(at)!ConstantsFit, Desk(at)!IInv, Desk(at)!RegisterAnswered
    PROVE  Desk(at)!IInv'
<1>1. Desk(at)!TypeOK'
  <2>1. view' \in Desk(at)!Views
    BY DeskScreens DEF Desk!IInv, Desk!TypeOK, Desk!RegisterAnswered, Doors
  <2> QED
    BY <2>1 DEF Desk!IInv, Desk!TypeOK, Desk!RegisterAnswered, Desk!server, Desk!link
<1>2. Desk(at)!RoleFits' /\ Desk(at)!NoBankPages'
  BY DeskKinds DEF Desk!IInv, Desk!RoleFits, Desk!NoBankPages, Desk!SignedIn,
       Desk!RegisterAnswered, Doors
<1>3. Desk(at)!CopyMatchesShown'
  BY DEF Desk!IInv, Desk!CopyMatchesShown, Desk!Live, Desk!SignedIn, Desk!Shown,
       Desk!RegisterAnswered, Desk!link
<1>4. Desk(at)!LoadingHonest'
  BY DEF Desk!IInv, Desk!LoadingHonest, Desk!RegisterAnswered, Desk!link
<1>5. ASSUME at \notin Hasty, ~cut' PROVE Desk(at)!Waited'
  BY <1>5, DeskKinds DEF Desk!IInv, Desk!Waited, Desk!ScreenNeedsSession, Desk!GateHolds,
       Desk!OpenedIsShown, Desk!CreatedIsShared, Desk!SignedIn, Desk!RegisterAnswered, Desk!link,
       Doors
<1> QED
  BY <1>1, <1>2, <1>3, <1>4, <1>5 DEF Desk!IInv

\* A new link is the one its page shares.
LEMMA DeskLinkMadeIInv ==
    ASSUME NEW at,
           Desk(at)!ConstantsFit, Desk(at)!IInv, NEW l \in Links, Desk(at)!LinkMade(l)
    PROVE  Desk(at)!IInv'
<1>1. Desk(at)!TypeOK'
  BY DeskScreens DEF Desk!IInv, Desk!TypeOK, Desk!Read, Desk!LinkMade, Desk!who, LinkPages
<1>2. Desk(at)!RoleFits' /\ Desk(at)!NoBankPages'
  BY DeskKinds DEF Desk!IInv, Desk!RoleFits, Desk!NoBankPages, Desk!SignedIn, Desk!LinkMade,
       Desk!who, LinkPages
<1>3. Desk(at)!CopyMatchesShown'
  BY DEF Desk!CopyMatchesShown, Desk!LinkMade
<1>4. Desk(at)!LoadingHonest'
  BY DEF Desk!IInv, Desk!LoadingHonest, Desk!LinkMade
<1>5. ASSUME at \notin Hasty, ~cut' PROVE Desk(at)!Waited'
  BY <1>5, DeskKinds DEF Desk!ConstantsFit, Desk!IInv, Desk!Waited, Desk!ScreenNeedsSession,
       Desk!GateHolds, Desk!OpenedIsShown, Desk!CreatedIsShared, Desk!SignedIn, Desk!LinkMade,
       Desk!who, Homes, LinkPages, Doors
<1> QED
  BY <1>1, <1>2, <1>3, <1>4, <1>5 DEF Desk!IInv

\* "Refresh" reads the link that is shown.
LEMMA DeskRefreshLinkIInv ==
    ASSUME NEW at,
           Desk(at)!ConstantsFit, Desk(at)!IInv, NEW i \in LoadsOf[at], Desk(at)!RefreshLink(i)
    PROVE  Desk(at)!IInv'
<1>1. Desk(at)!TypeOK'
  BY DEF Desk!IInv, Desk!TypeOK, Desk!Read, Desk!RefreshLink, Desk!BeginLoad, Desk!Job,
       Desk!Reading, Desk!Shown, Desk!who, Desk!screen, Desk!server
<1>2. Desk(at)!RoleFits' /\ Desk(at)!NoBankPages'
  BY DEF Desk!IInv, Desk!RoleFits, Desk!NoBankPages, Desk!SignedIn, Desk!RefreshLink, Desk!who,
       Desk!screen
<1>3. Desk(at)!CopyMatchesShown'
  BY DEF Desk!IInv, Desk!CopyMatchesShown, Desk!Live, Desk!SignedIn, Desk!Shown, Desk!RefreshLink,
       Desk!who
<1>4. Desk(at)!LoadingHonest'
  BY DEF Desk!IInv, Desk!TypeOK, Desk!LoadingHonest, Desk!Reading, Desk!RefreshLink, Desk!BeginLoad
<1>5. ASSUME at \notin Hasty, ~cut' PROVE Desk(at)!Waited'
  <2>1. UNCHANGED <<view, session, asked, registering, creation, opened, cut>>
    BY DEF Desk!RefreshLink, Desk!screen, Desk!who
  <2>2. UNCHANGED <<Desk(at)!SignedIn, Desk(at)!Live>>
    BY <2>1 DEF Desk!SignedIn, Desk!Live
  <2>3. view = "merchant-link-detail"
    BY DEF Desk!RefreshLink
  <2>4. Desk(at)!ScreenNeedsSession' /\ (Desk(at)!SignedIn' => view' \notin Desk(at)!SignedOutViews)
           /\ Desk(at)!GateHolds'
    BY <1>5, <2>1, <2>2 DEF Desk!IInv, Desk!Waited, Desk!ScreenNeedsSession, Desk!GateHolds
  <2>5. ASSUME Desk(at)!Live PROVE Desk(at)!Shown.link = opened
    BY <1>5, <2>1, <2>3, <2>5 DEF Desk!IInv, Desk!Waited, Desk!OpenedIsShown
  <2>6. UNCHANGED <<created, detail>> /\ load' \in [LoadsOf[at] -> Desk(at)!Job]
        /\ \A j \in LoadsOf[at] : load'[j] # Desk(at)!Idle => load'[j].link = Desk(at)!Shown.link
            \/ load'[j] = load[j]
    BY <1>1 DEF Desk!TypeOK, Desk!RefreshLink, Desk!BeginLoad, Desk!Reading
  <2>7. Desk(at)!OpenedIsShown' /\ Desk(at)!CreatedIsShared'
    BY <1>5, <2>1, <2>2, <2>6 DEF Desk!IInv, Desk!Waited, Desk!OpenedIsShown, Desk!CreatedIsShared,
         Desk!Shown
  <2>8. \A j \in LoadsOf[at] : load'[j] # Desk(at)!Idle =>
          view' = "merchant-link-detail" /\ (Desk(at)!Live' => load'[j].link = opened')
    BY <1>5, <2>1, <2>2, <2>3, <2>5, <2>6 DEF Desk!IInv, Desk!Waited
  <2> QED
    BY <1>5, <2>1, <2>2, <2>4, <2>7, <2>8 DEF Desk!IInv, Desk!Waited
<1> QED
  BY <1>1, <1>2, <1>3, <1>4, <1>5 DEF Desk!IInv

\* "Pause" and "Resume" are about the link that is shown.
LEMMA DeskTogglePauseIInv ==
    ASSUME NEW at,
           Desk(at)!ConstantsFit, Desk(at)!IInv, NEW i \in LoadsOf[at], Desk(at)!TogglePause(i)
    PROVE  Desk(at)!IInv'
<1>1. Desk(at)!TypeOK'
  BY DEF Desk!IInv, Desk!TypeOK, Desk!Read, Desk!TogglePause, Desk!Job, Desk!Shown, Desk!who,
       Desk!screen, Desk!server
<1>2. Desk(at)!RoleFits' /\ Desk(at)!NoBankPages'
  BY DEF Desk!IInv, Desk!RoleFits, Desk!NoBankPages, Desk!SignedIn, Desk!TogglePause, Desk!who,
       Desk!screen
<1>3. Desk(at)!CopyMatchesShown'
  BY DEF Desk!IInv, Desk!CopyMatchesShown, Desk!Live, Desk!SignedIn, Desk!Shown, Desk!TogglePause,
       Desk!who
<1>4. Desk(at)!LoadingHonest'
  BY DEF Desk!IInv, Desk!LoadingHonest, Desk!Idle, Desk!TogglePause
<1>5. ASSUME at \notin Hasty, ~cut' PROVE Desk(at)!Waited'
  <2>1. UNCHANGED <<view, session, asked, registering, creation, opened, cut>>
    BY DEF Desk!TogglePause, Desk!screen, Desk!who
  <2>2. UNCHANGED <<Desk(at)!SignedIn, Desk(at)!Live>>
    BY <2>1 DEF Desk!SignedIn, Desk!Live
  <2>3. view = "merchant-link-detail"
    BY DEF Desk!TogglePause
  <2>4. Desk(at)!ScreenNeedsSession' /\ (Desk(at)!SignedIn' => view' \notin Desk(at)!SignedOutViews)
           /\ Desk(at)!GateHolds'
    BY <1>5, <2>1, <2>2 DEF Desk!IInv, Desk!Waited, Desk!ScreenNeedsSession, Desk!GateHolds
  <2>5. ASSUME Desk(at)!Live PROVE Desk(at)!Shown.link = opened
    BY <1>5, <2>1, <2>3, <2>5 DEF Desk!IInv, Desk!Waited, Desk!OpenedIsShown
  <2>6. UNCHANGED <<created, detail>> /\ load' \in [LoadsOf[at] -> Desk(at)!Job]
        /\ \A j \in LoadsOf[at] : load'[j] # Desk(at)!Idle => load'[j].link = Desk(at)!Shown.link
            \/ load'[j] = load[j]
    BY <1>1 DEF Desk!TypeOK, Desk!TogglePause
  <2>7. Desk(at)!OpenedIsShown' /\ Desk(at)!CreatedIsShared'
    BY <1>5, <2>1, <2>2, <2>6 DEF Desk!IInv, Desk!Waited, Desk!OpenedIsShown, Desk!CreatedIsShared,
         Desk!Shown
  <2>8. \A j \in LoadsOf[at] : load'[j] # Desk(at)!Idle =>
          view' = "merchant-link-detail" /\ (Desk(at)!Live' => load'[j].link = opened')
    BY <1>5, <2>1, <2>2, <2>3, <2>5, <2>6 DEF Desk!IInv, Desk!Waited
  <2> QED
    BY <1>5, <2>1, <2>2, <2>4, <2>7, <2>8 DEF Desk!IInv, Desk!Waited
<1> QED
  BY <1>1, <1>2, <1>3, <1>4, <1>5 DEF Desk!IInv

\* A change of status is followed by a read of the same link.
LEMMA DeskStatusSetIInv ==
    ASSUME NEW at,
           Desk(at)!ConstantsFit, Desk(at)!IInv, NEW i \in LoadsOf[at], Desk(at)!StatusSet(i)
    PROVE  Desk(at)!IInv'
<1>1. Desk(at)!TypeOK'
  BY DEF Desk!IInv, Desk!TypeOK, Desk!StatusSet, Desk!Job, Desk!Idle, Desk!Reading, Desk!who,
       Desk!screen
<1>2. Desk(at)!RoleFits' /\ Desk(at)!NoBankPages'
  BY DEF Desk!IInv, Desk!RoleFits, Desk!NoBankPages, Desk!SignedIn, Desk!StatusSet, Desk!who,
       Desk!screen
<1>3. Desk(at)!CopyMatchesShown'
  BY DEF Desk!IInv, Desk!CopyMatchesShown, Desk!Live, Desk!SignedIn, Desk!Shown, Desk!StatusSet,
       Desk!who, Desk!screen
<1>4. Desk(at)!LoadingHonest'
  BY DEF Desk!IInv, Desk!TypeOK, Desk!LoadingHonest, Desk!Reading, Desk!StatusSet
<1>5. ASSUME at \notin Hasty, ~cut' PROVE Desk(at)!Waited'
  <2>1. UNCHANGED <<view, session, asked, registering, creation, opened, cut>>
    BY DEF Desk!StatusSet, Desk!screen, Desk!who
  <2>2. UNCHANGED <<Desk(at)!SignedIn, Desk(at)!Live>>
    BY <2>1 DEF Desk!SignedIn, Desk!Live
  <2>3. view = "merchant-link-detail"
    BY <1>5 DEF Desk!IInv, Desk!Waited, Desk!StatusSet, Desk!Idle
  <2>4. Desk(at)!ScreenNeedsSession' /\ (Desk(at)!SignedIn' => view' \notin Desk(at)!SignedOutViews)
           /\ Desk(at)!GateHolds'
    BY <1>5, <2>1, <2>2 DEF Desk!IInv, Desk!Waited, Desk!ScreenNeedsSession, Desk!GateHolds
  <2>5. ASSUME Desk(at)!Live PROVE load[i].link = opened
    BY <1>5, <2>1, <2>5 DEF Desk!IInv, Desk!Waited, Desk!StatusSet, Desk!Idle
  <2>6. UNCHANGED <<created, detail>> /\ load' \in [LoadsOf[at] -> Desk(at)!Job]
        /\ \A j \in LoadsOf[at] : load'[j] # Desk(at)!Idle => load'[j].link = load[i].link
            \/ load'[j] = load[j]
    BY <1>1 DEF Desk!TypeOK, Desk!StatusSet, Desk!Reading
  <2>7. Desk(at)!OpenedIsShown' /\ Desk(at)!CreatedIsShared'
    BY <1>5, <2>1, <2>2, <2>6 DEF Desk!IInv, Desk!Waited, Desk!OpenedIsShown, Desk!CreatedIsShared,
         Desk!Shown
  <2>8. \A j \in LoadsOf[at] : load'[j] # Desk(at)!Idle =>
          view' = "merchant-link-detail" /\ (Desk(at)!Live' => load'[j].link = opened')
    BY <1>5, <2>1, <2>2, <2>3, <2>5, <2>6 DEF Desk!IInv, Desk!Waited
  <2> QED
    BY <1>5, <2>1, <2>2, <2>4, <2>7, <2>8 DEF Desk!IInv, Desk!Waited
<1> QED
  BY <1>1, <1>2, <1>3, <1>4, <1>5 DEF Desk!IInv

\* A refused change ends what was under way.
LEMMA DeskStatusRefusedIInv ==
    ASSUME NEW at,
           Desk(at)!ConstantsFit, Desk(at)!IInv, NEW i \in LoadsOf[at], Desk(at)!StatusRefused(i)
    PROVE  Desk(at)!IInv'
<1>1. Desk(at)!TypeOK'
  BY DEF Desk!IInv, Desk!TypeOK, Desk!StatusRefused, Desk!Job, Desk!who, Desk!screen, Desk!server
<1>2. Desk(at)!RoleFits' /\ Desk(at)!NoBankPages'
  BY DEF Desk!IInv, Desk!RoleFits, Desk!NoBankPages, Desk!SignedIn, Desk!StatusRefused, Desk!who,
       Desk!screen
<1>3. Desk(at)!CopyMatchesShown'
  BY DEF Desk!IInv, Desk!CopyMatchesShown, Desk!Live, Desk!SignedIn, Desk!Shown,
       Desk!StatusRefused, Desk!who, Desk!screen
<1>4. Desk(at)!LoadingHonest'
  BY DEF Desk!IInv, Desk!LoadingHonest, Desk!StatusRefused
<1>5. ASSUME at \notin Hasty, ~cut' PROVE Desk(at)!Waited'
  BY <1>5 DEF Desk!IInv, Desk!Waited, Desk!ScreenNeedsSession, Desk!GateHolds, Desk!OpenedIsShown,
       Desk!CreatedIsShared, Desk!Live, Desk!SignedIn, Desk!Shown, Desk!StatusRefused, Desk!who,
       Desk!screen, LinkPages, Doors
<1> QED
  BY <1>1, <1>2, <1>3, <1>4, <1>5 DEF Desk!IInv

\* A read fills in the page and what is copied from it alike.
LEMMA DeskLoadedIInv ==
    ASSUME NEW at,
           Desk(at)!ConstantsFit, Desk(at)!IInv, NEW i \in LoadsOf[at], Desk(at)!Loaded(i)
    PROVE  Desk(at)!IInv'
<1>1. Desk(at)!TypeOK'
  <2>1. load[i] \in Desk(at)!Job /\ load[i].step = "loading" /\ load[i].link \in Links
    BY DEF Desk!IInv, Desk!TypeOK, Desk!Loaded, Desk!Finish, Desk!Job, Desk!Idle
  <2>2. Desk(at)!AsRead(load[i].link) \in Desk(at)!Read
    BY <2>1 DEF Desk!AsRead, Desk!Read
  <2>3. load' \in [LoadsOf[at] -> Desk(at)!Job] /\ loading' \in BOOLEAN
    BY DEF Desk!IInv, Desk!TypeOK, Desk!Loaded, Desk!Finish, Desk!Job
  <2> QED
    BY <2>2, <2>3 DEF Desk!IInv, Desk!TypeOK, Desk!Loaded, Desk!screen, Desk!who, Desk!server
<1>2. Desk(at)!RoleFits' /\ Desk(at)!NoBankPages'
  BY DEF Desk!IInv, Desk!RoleFits, Desk!NoBankPages, Desk!SignedIn, Desk!Loaded, Desk!who,
       Desk!screen
<1>3. Desk(at)!CopyMatchesShown'
  BY DEF Desk!CopyMatchesShown, Desk!Shown, Desk!Loaded
<1>4. Desk(at)!LoadingHonest'
  BY DEF Desk!LoadingHonest, Desk!Loaded, Desk!Finish
<1>5. ASSUME at \notin Hasty, ~cut' PROVE Desk(at)!Waited'
  <2>1. UNCHANGED <<view, session, asked, registering, creation, opened, cut>>
    BY DEF Desk!Loaded, Desk!screen, Desk!who
  <2>2. UNCHANGED <<Desk(at)!SignedIn, Desk(at)!Live>>
    BY <2>1 DEF Desk!SignedIn, Desk!Live
  <2>3. view = "merchant-link-detail"
    BY <1>5 DEF Desk!IInv, Desk!Waited, Desk!Loaded, Desk!Finish, Desk!Idle
  <2>4. Desk(at)!ScreenNeedsSession' /\ (Desk(at)!SignedIn' => view' \notin Desk(at)!SignedOutViews)
           /\ Desk(at)!GateHolds'
    BY <1>5, <2>1, <2>2 DEF Desk!IInv, Desk!Waited, Desk!ScreenNeedsSession, Desk!GateHolds
  <2>5. ASSUME Desk(at)!Live PROVE load[i].link = opened
    BY <1>5, <2>1, <2>5 DEF Desk!IInv, Desk!Waited, Desk!Loaded, Desk!Finish, Desk!Idle
  <2>6. /\ detail' = [link |-> load[i].link, paused |-> load[i].link \in paused]
        /\ created' = detail'
    BY DEF Desk!Loaded, Desk!AsRead
  <2>7. \A j \in LoadsOf[at] : load'[j] # Desk(at)!Idle => load'[j] = load[j]
    BY DEF Desk!Loaded, Desk!Finish
  <2>8. Desk(at)!OpenedIsShown'
    BY <2>1, <2>2, <2>5, <2>6 DEF Desk!OpenedIsShown, Desk!Shown
  <2>9. Desk(at)!CreatedIsShared'
    BY <2>1, <2>3 DEF Desk!CreatedIsShared
  <2> QED
    BY <1>5, <2>1, <2>2, <2>4, <2>7, <2>8, <2>9 DEF Desk!IInv, Desk!Waited
<1> QED
  BY <1>1, <1>2, <1>3, <1>4, <1>5 DEF Desk!IInv

\* A read that fails changes neither.
LEMMA DeskLoadFailedIInv ==
    ASSUME NEW at,
           Desk(at)!ConstantsFit, Desk(at)!IInv, NEW i \in LoadsOf[at], Desk(at)!LoadFailed(i)
    PROVE  Desk(at)!IInv'
<1>1. Desk(at)!TypeOK'
  BY DEF Desk!IInv, Desk!TypeOK, Desk!LoadFailed, Desk!Finish, Desk!Job, Desk!Idle, Desk!who,
       Desk!screen, Desk!link, Desk!server, Homes, LinkPages, Doors
<1>2. Desk(at)!RoleFits' /\ Desk(at)!NoBankPages'
  BY DEF Desk!IInv, Desk!RoleFits, Desk!NoBankPages, Desk!SignedIn, Desk!LoadFailed, Desk!who,
       Desk!screen
<1>3. Desk(at)!CopyMatchesShown'
  BY DEF Desk!IInv, Desk!CopyMatchesShown, Desk!Live, Desk!SignedIn, Desk!Shown, Desk!LoadFailed,
       Desk!who, Desk!screen
<1>4. Desk(at)!LoadingHonest'
  BY DEF Desk!LoadingHonest, Desk!LoadFailed, Desk!Finish
<1>5. ASSUME at \notin Hasty, ~cut' PROVE Desk(at)!Waited'
  BY <1>5 DEF Desk!IInv, Desk!Waited, Desk!ScreenNeedsSession, Desk!GateHolds, Desk!OpenedIsShown,
       Desk!CreatedIsShared, Desk!Live, Desk!SignedIn, Desk!Shown, Desk!LoadFailed, Desk!Finish,
       Desk!who, Desk!screen, LinkPages, Doors
<1> QED
  BY <1>1, <1>2, <1>3, <1>4, <1>5 DEF Desk!IInv

\* A link that is opened is the one the page will be about.
LEMMA DeskOpenIInv ==
    ASSUME NEW at,
           Desk(at)!ConstantsFit, Desk(at)!IInv, NEW i \in LoadsOf[at], NEW l \in Links,
           Desk(at)!Open(i, l)
    PROVE  Desk(at)!IInv'
<1>1. Desk(at)!TypeOK'
  BY DeskScreens DEF Desk!IInv, Desk!TypeOK, Desk!Read, Desk!Open, Desk!BeginLoad, Desk!Job,
       Desk!Reading, Desk!AsRead, Desk!who, Desk!server, LinkPages
<1>2. Desk(at)!RoleFits' /\ Desk(at)!NoBankPages'
  BY DeskKinds DEF Desk!IInv, Desk!RoleFits, Desk!NoBankPages, Desk!SignedIn, Desk!Open, Desk!who,
       LinkPages
<1>3. Desk(at)!CopyMatchesShown'
  BY DEF Desk!CopyMatchesShown, Desk!Shown, Desk!Open
<1>4. Desk(at)!LoadingHonest'
  BY DEF Desk!IInv, Desk!TypeOK, Desk!LoadingHonest, Desk!Reading, Desk!Open, Desk!BeginLoad
<1>5. ASSUME at \notin Hasty, ~cut' PROVE Desk(at)!Waited'
  <2>1. /\ Desk(at)!Live /\ view \in Desk(at)!Lists \cup {"sales-dashboard"}
            /\ load[i] = Desk(at)!Idle
        /\ created' = [link |-> l, paused |-> l \in paused] /\ detail' = None
        /\ view' = "merchant-link-detail" /\ opened' = l
        /\ load' = [load EXCEPT ![i] = Desk(at)!Reading(l)]
        /\ UNCHANGED <<role, session, asked, registering, creation, cut>>
    BY DEF Desk!Open, Desk!AsRead, Desk!BeginLoad, Desk!who
  <2>2. /\ creation = None /\ asked = None /\ ~registering
        /\ \A j \in LoadsOf[at] : load[j] = Desk(at)!Idle
    BY <1>5 DEF Desk!Open, Desk!MayLeave, Desk!Quiet
  <2>3. UNCHANGED <<Desk(at)!SignedIn, Desk(at)!Live>> /\ Desk(at)!SignedIn
    BY <2>1 DEF Desk!SignedIn, Desk!Live
  <2>4. "gateway" \notin session.missing
    BY <1>5, <2>1, <2>3 DEF Desk!IInv, Desk!Waited, Desk!GateHolds, Desk!Lists
  <2>5. Desk(at)!ScreenNeedsSession' /\ (Desk(at)!SignedIn' => view' \notin Desk(at)!SignedOutViews)
           /\ Desk(at)!GateHolds'
    BY <2>1, <2>3, <2>4, DeskKinds DEF Desk!ScreenNeedsSession, Desk!GateHolds, LinkPages
  <2>6. Desk(at)!OpenedIsShown' /\ Desk(at)!CreatedIsShared'
    BY <2>1 DEF Desk!OpenedIsShown, Desk!CreatedIsShared, Desk!Shown
  <2>7. \A j \in LoadsOf[at] : load'[j] # Desk(at)!Idle => load'[j].link = l
    BY <2>1, <2>2 DEF Desk!Reading
  <2> QED
    BY <2>1, <2>2, <2>5, <2>6, <2>7 DEF Desk!Waited
<1> QED
  BY <1>1, <1>2, <1>3, <1>4, <1>5 DEF Desk!IInv

\* Every step of a portal keeps what is said of it.
LEMMA DeskNextIInv ==
    ASSUME NEW at,
           Desk(at)!ConstantsFit, Desk(at)!IInv, [Desk(at)!Next]_(Desk(at)!vars)
    PROVE  Desk(at)!IInv'
<1>1. CASE Desk(at)!Go
  BY <1>1, DeskGoIInv
<1>2. CASE Desk(at)!SetRole
  BY <1>2, DeskSetRoleIInv
<1>3. CASE Desk(at)!OpenDemo
  BY <1>3, DeskOpenDemoIInv
<1>4. CASE Desk(at)!Generate
  BY <1>4, DeskGenerateIInv
<1>5. CASE Desk(at)!DemoMade
  BY <1>5, DeskDemoMadeIInv
<1>6. CASE Desk(at)!CreateRefused
  BY <1>6, DeskCreateRefusedIInv
<1>7. ASSUME NEW a \in AccountsOf[at], Desk(at)!SignIn(a) PROVE Desk(at)!IInv'
  BY <1>7, DeskSignInIInv
<1>8. CASE Desk(at)!SignInAnswered
  BY <1>8, DeskSignInAnsweredIInv
<1>9. CASE Desk(at)!SignInRefused
  BY <1>9, DeskSignInRefusedIInv
<1>10. CASE Desk(at)!SessionEnds
  BY <1>10, DeskSessionEndsIInv
<1>11. CASE Desk(at)!Logout
  BY <1>11, DeskLogoutIInv
<1>12. CASE Desk(at)!Reload
  BY <1>12, DeskReloadIInv
<1>13. ASSUME NEW what \in Desk(at)!Setup, Desk(at)!SetUp(what) PROVE Desk(at)!IInv'
  BY <1>13, DeskSetUpIInv
<1>14. CASE Desk(at)!Register
  BY <1>14, DeskRegisterIInv
<1>15. CASE Desk(at)!RegisterAnswered
  BY <1>15, DeskRegisterAnsweredIInv
<1>16. ASSUME NEW l \in Links, Desk(at)!LinkMade(l) PROVE Desk(at)!IInv'
  BY <1>16, DeskLinkMadeIInv
<1>17. ASSUME NEW i \in LoadsOf[at], Desk(at)!RefreshLink(i) PROVE Desk(at)!IInv'
  BY <1>17, DeskRefreshLinkIInv
<1>18. ASSUME NEW i \in LoadsOf[at], Desk(at)!TogglePause(i) PROVE Desk(at)!IInv'
  BY <1>18, DeskTogglePauseIInv
<1>19. ASSUME NEW i \in LoadsOf[at], Desk(at)!StatusSet(i) PROVE Desk(at)!IInv'
  BY <1>19, DeskStatusSetIInv
<1>20. ASSUME NEW i \in LoadsOf[at], Desk(at)!StatusRefused(i) PROVE Desk(at)!IInv'
  BY <1>20, DeskStatusRefusedIInv
<1>21. ASSUME NEW i \in LoadsOf[at], Desk(at)!Loaded(i) PROVE Desk(at)!IInv'
  BY <1>21, DeskLoadedIInv
<1>22. ASSUME NEW i \in LoadsOf[at], Desk(at)!LoadFailed(i) PROVE Desk(at)!IInv'
  BY <1>22, DeskLoadFailedIInv
<1>23. ASSUME NEW i \in LoadsOf[at], NEW l \in Links, Desk(at)!Open(i, l) PROVE Desk(at)!IInv'
  BY <1>23, DeskOpenIInv
<1>24. CASE UNCHANGED Desk(at)!vars
  <2>1. UNCHANGED <<view, role, session, asked, registering, created, detail, load, loading,
           creation,
                    needs, owner, paused, opened, cut>>
    BY <1>24 DEF Desk!vars, Desk!who, Desk!screen, Desk!link, Desk!server
  <2>2. UNCHANGED <<Desk(at)!SignedIn, Desk(at)!Live, Desk(at)!Shown>>
    BY <2>1 DEF Desk!SignedIn, Desk!Live, Desk!Shown
  <2>3. Desk(at)!TypeOK' /\ Desk(at)!RoleFits' /\ Desk(at)!NoBankPages'
           /\ Desk(at)!CopyMatchesShown' /\ Desk(at)!LoadingHonest'
    BY <2>1, <2>2 DEF Desk!IInv, Desk!TypeOK, Desk!RoleFits, Desk!NoBankPages,
         Desk!CopyMatchesShown, Desk!LoadingHonest
  <2>4. ASSUME at \notin Hasty, ~cut' PROVE Desk(at)!Waited'
    BY <2>1, <2>2, <2>4 DEF Desk!IInv, Desk!Waited, Desk!ScreenNeedsSession, Desk!GateHolds,
         Desk!OpenedIsShown, Desk!CreatedIsShared
  <2> QED
    BY <2>3, <2>4 DEF Desk!IInv
<1> QED
  BY <1>1, <1>2, <1>3, <1>4, <1>5, <1>6, <1>7, <1>8, <1>9, <1>10, <1>11, <1>12, <1>13, <1>14,
     <1>15, <1>16, <1>17, <1>18, <1>19, <1>20, <1>21, <1>22, <1>23, <1>24 DEF Desk!Next, Desk!Answer

-----------------------------------------------------------------------------
(* LinkForm *)

\* The form starts empty.
LEMMA FormInitIInv ==
    ASSUME Form!ConstantsFit, Form!Init
    PROVE  Form!IInv
<1>1. form \in Form!Filled
  BY DEF Form!ConstantsFit, Form!Init, Form!BlankForm, Form!Filled, Form!Texts, Form!Types
<1>2. sent \in Seq(Form!Filled) /\ Len(sent) = 0
  BY DEF Form!Init
<1>3. since \in [Form!Fields -> Form!Types \cup {Blank}]
  BY DEF Form!Init
<1>6. Form!TypeOK
  <2>1. page \in {"list", "form", "made", "connect"} /\ mode \in {"wizard", "quick"}
    BY DEF Form!Init
  <2>2. step \in 1..4 /\ forms \in 0..MaxForms
    BY DEF Form!ConstantsFit, Form!Init
  <2>3. generating \in BOOLEAN /\ failed \in BOOLEAN
    BY DEF Form!Init
  <2>4. Len(sent) <= MaxCalls
    BY <1>1, <1>2, <1>3 DEF Form!ConstantsFit, Form!Init
  <2> QED
    BY <1>1, <1>2, <1>3, <2>1, <2>2, <2>3, <2>4 DEF Form!TypeOK
<1>7. \A f \in Form!Fields : form[f] = Blank
  BY DEF Form!Init, Form!BlankForm, Form!Fields, Form!Amounts
<1>4. Form!FreshForm /\ Form!NoAbandonedFigure
  BY <1>7 DEF Form!FreshForm, Form!NoAbandonedFigure, Form!Fields
<1>5. Form!TypedWhereRead /\ Form!GeneratingHonest
  BY DEF Form!Init, Form!TypedWhereRead, Form!GeneratingHonest, Form!Fields, Form!Amounts
<1> QED
  BY <1>4, <1>5, <1>6 DEF Form!IInv

\* A field of a form that is filled in holds a text.
LEMMA FormFieldHolds ==
    ASSUME NEW h \in Form!Filled, NEW f \in Form!Fields
    PROVE  h[f] \in Form!Texts
BY DEF Form!Filled, Form!Fields, Form!Amounts

\* A form with one field typed into.
LEMMA FormTypedIn ==
    ASSUME NEW h \in Form!Filled, NEW f \in Form!Fields, NEW text \in Form!Texts
    PROVE  /\ [h EXCEPT ![f] = text] \in Form!Filled
           /\ [h EXCEPT ![f] = text].type = h.type
           /\ \A g \in Form!Fields : [h EXCEPT ![f] = text][g] = IF g = f THEN text ELSE h[g]
BY DEF Form!Filled, Form!Fields, Form!Amounts

\* A form with another type chosen: what that type does not read is gone.
LEMMA FormKeptIn ==
    ASSUME Form!ConstantsFit, NEW h \in Form!Filled, NEW type \in Form!Types
    PROVE  /\ [Form!Kept(type, h) EXCEPT !.type = type] \in Form!Filled
           /\ [Form!Kept(type, h) EXCEPT !.type = type].type = type
           /\ \A g \in Form!Fields : [Form!Kept(type, h) EXCEPT !.type = type][g] =
                IF g \in Form!Amounts \ Form!ReadFor(type) THEN Blank ELSE h[g]
BY DEF Form!Filled, Form!Fields, Form!Amounts, Form!Kept, Form!ReadFor, Form!Texts

\* A form with "one-time use" toggled.
LEMMA FormOneTimeIn ==
    ASSUME NEW h \in Form!Filled
    PROVE  /\ [h EXCEPT !.once = ~@] \in Form!Filled
           /\ [h EXCEPT !.once = ~@].type = h.type
           /\ \A g \in Form!Fields : [h EXCEPT !.once = ~@][g] = h[g]
BY DEF Form!Filled, Form!Fields, Form!Amounts

\* A form with another currency.
LEMMA FormCurrencyIn ==
    ASSUME NEW h \in Form!Filled, NEW currency \in Currencies
    PROVE  /\ [h EXCEPT !.currency = currency] \in Form!Filled
           /\ [h EXCEPT !.currency = currency].type = h.type
           /\ \A g \in Form!Fields : [h EXCEPT !.currency = currency][g] = h[g]
BY DEF Form!Filled, Form!Fields, Form!Amounts

\* A form nobody has filled in.
LEMMA FormBlankIn ==
    ASSUME Form!ConstantsFit, NEW currency \in Currencies
    PROVE  /\ Form!BlankForm(currency) \in Form!Filled
           /\ \A g \in Form!Fields : Form!BlankForm(currency)[g] = Blank
BY DEF Form!ConstantsFit, Form!BlankForm, Form!Filled, Form!Fields, Form!Amounts, Form!Texts,
     Form!Types

\* The calls under way without one of them.
LEMMA FormWithoutIn ==
    ASSUME Form!IInv, NEW i \in DOMAIN sent
    PROVE  /\ Form!Without(i) \in Seq(Form!Filled)
           /\ Len(Form!Without(i)) = Len(sent) - 1
<1>1. /\ sent \in Seq(Form!Filled) /\ Len(sent) \in Nat /\ i \in 1..Len(sent)
      /\ \A k \in 1..Len(sent) : sent[k] \in Form!Filled
  BY DEF Form!IInv, Form!TypeOK
<1>2. SubSeq(sent, 1, i - 1) \in Seq(Form!Filled) /\ Len(SubSeq(sent, 1, i - 1)) = i - 1
  BY <1>1, SubSeqProperties
<1>3. /\ SubSeq(sent, i + 1, Len(sent)) \in Seq(Form!Filled)
      /\ Len(SubSeq(sent, i + 1, Len(sent))) = Len(sent) - i
  BY <1>1, SubSeqProperties
<1>4. /\ SubSeq(sent, 1, i - 1) \o SubSeq(sent, i + 1, Len(sent)) \in Seq(Form!Filled)
      /\ Len(SubSeq(sent, 1, i - 1) \o SubSeq(sent, i + 1, Len(sent))) = i - 1 + Len(sent) - i
  BY <1>2, <1>3, ConcatProperties
<1>5. i - 1 + Len(sent) - i = Len(sent) - 1
  BY <1>1
<1> QED
  BY <1>4, <1>5 DEF Form!Without

\* What keeps the fields keeps what is said of them.
LEMMA FormFieldsKept ==
    ASSUME Form!IInv, UNCHANGED <<form, since>>
    PROVE  /\ form' \in Form!Filled /\ since' \in [Form!Fields -> Form!Types \cup {Blank}]
           /\ Form!FreshForm' /\ Form!NoAbandonedFigure' /\ Form!TypedWhereRead'
BY DEF Form!IInv, Form!TypeOK, Form!FreshForm, Form!NoAbandonedFigure, Form!TypedWhereRead

\* So does what changes neither a field nor the type.
LEMMA FormSinceKept ==
    ASSUME Form!IInv, form' \in Form!Filled, since' = since, form'.type = form.type,
           \A g \in Form!Fields : form'[g] = form[g]
    PROVE  /\ since' \in [Form!Fields -> Form!Types \cup {Blank}]
           /\ Form!FreshForm' /\ Form!NoAbandonedFigure' /\ Form!TypedWhereRead'
BY DEF Form!IInv, Form!TypeOK, Form!FreshForm, Form!NoAbandonedFigure, Form!TypedWhereRead,
     Form!Fields

\* A form is opened with every field blank.
LEMMA FormStartNewLinkIInv ==
    ASSUME Form!ConstantsFit, Form!IInv, Form!StartNewLink
    PROVE  Form!IInv'
<1>1. /\ form' \in Form!Filled /\ \A g \in Form!Fields : form'[g] = Blank
  BY FormBlankIn DEF Form!IInv, Form!TypeOK, Form!StartNewLink, Form!Filled
<1>2. since' = [f \in Form!Fields |-> Blank]
  BY DEF Form!StartNewLink
<1>3. Form!TypeOK'
  <2>1. page' \in {"list", "form", "made", "connect"} /\ mode' \in {"wizard", "quick"}
    BY DEF Form!IInv, Form!TypeOK, Form!StartNewLink
  <2>5. forms \in 0..MaxForms
    BY DEF Form!IInv, Form!TypeOK
  <2>2. step' \in 1..4 /\ forms' \in 0..MaxForms
    BY <2>5 DEF Form!ConstantsFit, Form!StartNewLink
  <2>3. generating' \in BOOLEAN /\ failed' \in BOOLEAN
    BY DEF Form!IInv, Form!TypeOK, Form!StartNewLink
  <2>4. sent' \in Seq(Form!Filled) /\ Len(sent') <= MaxCalls
    BY DEF Form!IInv, Form!TypeOK, Form!StartNewLink
  <2> QED
    BY <1>1, <1>2, <2>1, <2>2, <2>3, <2>4 DEF Form!IInv, Form!TypeOK
<1>4. Form!FreshForm' /\ Form!NoAbandonedFigure'
  BY <1>1 DEF Form!FreshForm, Form!NoAbandonedFigure, Form!Fields
<1>5. Form!TypedWhereRead'
  BY <1>2 DEF Form!TypedWhereRead, Form!Fields
<1>6. Form!GeneratingHonest'
  BY DEF Form!IInv, Form!GeneratingHonest, Form!StartNewLink
<1> QED
  BY <1>3, <1>4, <1>5, <1>6 DEF Form!IInv

\* Leaving keeps the form as it is.
LEMMA FormLeaveIInv ==
    ASSUME Form!ConstantsFit, Form!IInv, Form!Leave
    PROVE  Form!IInv'
<1>1. UNCHANGED <<form, since, sent>> /\ generating' = generating
  BY DEF Form!Leave
<1>2. Form!TypeOK'
  BY <1>1 DEF Form!ConstantsFit, Form!IInv, Form!TypeOK, Form!Leave
<1>3. Form!GeneratingHonest'
  BY <1>1 DEF Form!IInv, Form!GeneratingHonest
<1> QED
  BY <1>1, <1>2, <1>3, FormFieldsKept DEF Form!IInv

\* So does the end of a session.
LEMMA FormSessionEndsIInv ==
    ASSUME Form!ConstantsFit, Form!IInv, Form!SessionEnds
    PROVE  Form!IInv'
<1>1. UNCHANGED <<form, since, sent>> /\ generating' = generating
  BY DEF Form!SessionEnds
<1>2. Form!TypeOK'
  BY <1>1 DEF Form!ConstantsFit, Form!IInv, Form!TypeOK, Form!SessionEnds
<1>3. Form!GeneratingHonest'
  BY <1>1 DEF Form!IInv, Form!GeneratingHonest
<1> QED
  BY <1>1, <1>2, <1>3, FormFieldsKept DEF Form!IInv

\* Switching to the wizard keeps the fields.
LEMMA FormModeWizardIInv ==
    ASSUME Form!ConstantsFit, Form!IInv, Form!ModeWizard
    PROVE  Form!IInv'
<1>1. UNCHANGED <<form, since, sent>> /\ generating' = generating
  BY DEF Form!ModeWizard, Form!Editable
<1>2. Form!TypeOK'
  BY <1>1 DEF Form!ConstantsFit, Form!IInv, Form!TypeOK, Form!ModeWizard, Form!Editable
<1>3. Form!GeneratingHonest'
  BY <1>1 DEF Form!IInv, Form!GeneratingHonest
<1> QED
  BY <1>1, <1>2, <1>3, FormFieldsKept DEF Form!IInv

\* So does switching to the quick form.
LEMMA FormModeQuickIInv ==
    ASSUME Form!ConstantsFit, Form!IInv, Form!ModeQuick
    PROVE  Form!IInv'
<1>1. UNCHANGED <<form, since, sent>> /\ generating' = generating
  BY DEF Form!ModeQuick, Form!Editable
<1>2. Form!TypeOK'
  BY <1>1 DEF Form!ConstantsFit, Form!IInv, Form!TypeOK, Form!ModeQuick, Form!Editable
<1>3. Form!GeneratingHonest'
  BY <1>1 DEF Form!IInv, Form!GeneratingHonest
<1> QED
  BY <1>1, <1>2, <1>3, FormFieldsKept DEF Form!IInv

\* So does going on to the next step.
LEMMA FormWizNextIInv ==
    ASSUME Form!ConstantsFit, Form!IInv, Form!WizNext
    PROVE  Form!IInv'
<1>1. UNCHANGED <<form, since, sent>> /\ generating' = generating
  BY DEF Form!WizNext, Form!Wizard, Form!Editable
<1>2. Form!TypeOK'
  BY <1>1 DEF Form!ConstantsFit, Form!IInv, Form!TypeOK, Form!WizNext, Form!Wizard, Form!Editable
<1>3. Form!GeneratingHonest'
  BY <1>1 DEF Form!IInv, Form!GeneratingHonest
<1> QED
  BY <1>1, <1>2, <1>3, FormFieldsKept DEF Form!IInv

\* So does going back.
LEMMA FormWizBackIInv ==
    ASSUME Form!ConstantsFit, Form!IInv, Form!WizBack
    PROVE  Form!IInv'
<1>1. UNCHANGED <<form, since, sent>> /\ generating' = generating
  BY DEF Form!WizBack, Form!Wizard, Form!Editable
<1>2. Form!TypeOK'
  BY <1>1 DEF Form!ConstantsFit, Form!IInv, Form!TypeOK, Form!WizBack, Form!Wizard, Form!Editable
<1>3. Form!GeneratingHonest'
  BY <1>1 DEF Form!IInv, Form!GeneratingHonest
<1> QED
  BY <1>1, <1>2, <1>3, FormFieldsKept DEF Form!IInv

\* A field is typed into under the type that is chosen, and only where that reads it.
LEMMA FormTypeIInv ==
    ASSUME Form!ConstantsFit, Form!IInv, NEW f \in Form!Fields, NEW text \in Form!Texts,
           Form!Type(f, text)
    PROVE  Form!IInv'
<1>1. /\ form' = [form EXCEPT ![f] = text] /\ since' = [since EXCEPT ![f] = form.type]
      /\ f \in Form!OnScreen /\ sent' = sent /\ generating' = generating
  BY DEF Form!Type, Form!Edit
<1>2. /\ form' \in Form!Filled /\ form'.type = form.type
      /\ \A g \in Form!Fields : form'[g] = IF g = f THEN text ELSE form[g]
  <2>1. form \in Form!Filled
    BY DEF Form!IInv, Form!TypeOK
  <2>2. /\ [form EXCEPT ![f] = text] \in Form!Filled
        /\ [form EXCEPT ![f] = text].type = form.type
        /\ \A g \in Form!Fields : [form EXCEPT ![f] = text][g] = IF g = f THEN text ELSE form[g]
    BY <2>1, FormTypedIn
  <2> QED
    BY <1>1, <2>2
<1>3. form.type \in Form!Types
  BY DEF Form!IInv, Form!TypeOK, Form!Filled
<1>4. since' \in [Form!Fields -> Form!Types \cup {Blank}] /\ \A g \in Form!Fields :
         since'[g] = IF g = f THEN form.type ELSE since[g]
  BY <1>1, <1>3 DEF Form!IInv, Form!TypeOK
<1>5. Form!TypeOK'
  BY <1>2, <1>4 DEF Form!IInv, Form!TypeOK, Form!Type, Form!Edit
<1>6. Form!FreshForm'
  BY <1>2, <1>3, <1>4 DEF Form!ConstantsFit, Form!IInv, Form!FreshForm
<1>7. Form!NoAbandonedFigure'
  BY <1>2, <1>4 DEF Form!IInv, Form!NoAbandonedFigure, Form!Fields
<1>8. f \in Form!Amounts => f \in Form!ReadFor(form.type)
  BY <1>1, <1>3 DEF Form!OnScreen, Form!QuickFields, Form!KindFields, Form!DetailFields,
       Form!LimitFields, Form!ReadFor, Form!Amounts, Form!Types
<1>9. Form!TypedWhereRead'
  BY <1>4, <1>8 DEF Form!IInv, Form!TypedWhereRead, Form!Fields
<1>10. Form!GeneratingHonest'
  BY <1>1 DEF Form!IInv, Form!GeneratingHonest
<1> QED
  BY <1>5, <1>6, <1>7, <1>9, <1>10 DEF Form!IInv

\* Choosing a type leaves no amount but those it shares with the type before it, and
\* that is the minimum alone.
LEMMA FormSelectLinkTypeIInv ==
    ASSUME Form!ConstantsFit, Form!IInv, NEW type \in Form!Types, Form!SelectLinkType(type)
    PROVE  Form!IInv'
<1>1. /\ form' = [Form!Kept(type, form) EXCEPT !.type = type] /\ UNCHANGED <<since, sent>>
      /\ generating' = generating
  BY DEF Form!SelectLinkType, Form!Edit
<1>2. /\ form' \in Form!Filled /\ form'.type = type
      /\ \A g \in Form!Fields : form'[g] = IF g \in Form!Amounts \ Form!ReadFor(type) THEN Blank
          ELSE form[g]
  <2>1. form \in Form!Filled
    BY DEF Form!IInv, Form!TypeOK
  <2>2. /\ [Form!Kept(type, form) EXCEPT !.type = type] \in Form!Filled
        /\ [Form!Kept(type, form) EXCEPT !.type = type].type = type
        /\ \A g \in Form!Fields : [Form!Kept(type, form) EXCEPT !.type = type][g] =
             IF g \in Form!Amounts \ Form!ReadFor(type) THEN Blank ELSE form[g]
    BY <2>1, FormKeptIn
  <2> QED
    BY <1>1, <2>2
<1>3. Form!TypeOK'
  BY <1>1, <1>2 DEF Form!IInv, Form!TypeOK, Form!SelectLinkType, Form!Edit
<1>4. Form!FreshForm'
  BY <1>1, <1>2 DEF Form!IInv, Form!FreshForm
<1>5. form.type \in Form!Types /\ \A g \in Form!Fields : since[g] \in Form!Types \cup {Blank}
  BY DEF Form!IInv, Form!TypeOK, Form!Filled
<1>6. ASSUME NEW g \in Form!Amounts \ {"min"}, form'[g] # Blank PROVE since'[g] = form'.type
  <2>1. g \in Form!Fields /\ g \in Form!ReadFor(type) /\ form[g] # Blank
    BY <1>2, <1>6 DEF Form!Fields
  <2>2. since[g] = form.type /\ since[g] # Blank
    BY <1>6, <2>1 DEF Form!IInv, Form!NoAbandonedFigure, Form!FreshForm
  <2>3. g \in Form!ReadFor(since[g])
    BY <1>6, <2>2 DEF Form!IInv, Form!TypedWhereRead
  <2>4. since[g] = type
    BY <1>5, <1>6, <2>1, <2>2, <2>3 DEF Form!ReadFor, Form!Amounts, Form!Types
  <2> QED
    BY <1>1, <1>2, <2>4
<1>7. Form!NoAbandonedFigure'
  BY <1>6 DEF Form!NoAbandonedFigure
<1>8. Form!TypedWhereRead' /\ Form!GeneratingHonest'
  BY <1>1 DEF Form!IInv, Form!TypedWhereRead, Form!GeneratingHonest
<1> QED
  BY <1>3, <1>4, <1>7, <1>8 DEF Form!IInv

\* A currency is no amount.
LEMMA FormSelectCurrencyIInv ==
    ASSUME Form!ConstantsFit, Form!IInv, NEW currency \in Currencies, Form!SelectCurrency(currency)
    PROVE  Form!IInv'
<1>1. /\ form' \in Form!Filled /\ form'.type = form.type
      /\ \A g \in Form!Fields : form'[g] = form[g]
  BY FormCurrencyIn DEF Form!IInv, Form!TypeOK, Form!SelectCurrency, Form!Edit
<1>2. UNCHANGED <<since, sent>> /\ generating' = generating
  BY DEF Form!SelectCurrency, Form!Edit
<1>3. Form!TypeOK'
  BY <1>1, <1>2 DEF Form!IInv, Form!TypeOK, Form!SelectCurrency, Form!Edit
<1>4. Form!GeneratingHonest'
  BY <1>2 DEF Form!IInv, Form!GeneratingHonest
<1> QED
  BY <1>1, <1>2, <1>3, <1>4, FormSinceKept DEF Form!IInv

\* Nor is "one-time use".
LEMMA FormToggleOneTimeIInv ==
    ASSUME Form!ConstantsFit, Form!IInv, Form!ToggleOneTime
    PROVE  Form!IInv'
<1>1. /\ form' \in Form!Filled /\ form'.type = form.type
      /\ \A g \in Form!Fields : form'[g] = form[g]
  BY FormOneTimeIn DEF Form!IInv, Form!TypeOK, Form!ToggleOneTime, Form!Edit
<1>2. UNCHANGED <<since, sent>> /\ generating' = generating
  BY DEF Form!ToggleOneTime, Form!Edit
<1>3. Form!TypeOK'
  BY <1>1, <1>2 DEF Form!IInv, Form!TypeOK, Form!ToggleOneTime, Form!Edit
<1>4. Form!GeneratingHonest'
  BY <1>2 DEF Form!IInv, Form!GeneratingHonest
<1> QED
  BY <1>1, <1>2, <1>3, <1>4, FormSinceKept DEF Form!IInv

\* The form is covered with a call under way.
LEMMA FormGenerateIInv ==
    ASSUME Form!ConstantsFit, Form!IInv, Form!Generate
    PROVE  Form!IInv'
<1>1. UNCHANGED <<form, since>> /\ sent' = Append(sent, form) /\ Len(sent) < MaxCalls
  BY DEF Form!Generate, Form!editing
<1>2. sent' \in Seq(Form!Filled) /\ Len(sent') = Len(sent) + 1 /\ Len(sent) \in Nat
  BY <1>1 DEF Form!IInv, Form!TypeOK
<1>3. Form!TypeOK'
  <2>1. page' \in {"list", "form", "made", "connect"} /\ mode' \in {"wizard", "quick"}
    BY DEF Form!IInv, Form!TypeOK, Form!Generate, Form!editing
  <2>2. step' \in 1..4 /\ forms' \in 0..MaxForms
    BY DEF Form!ConstantsFit, Form!IInv, Form!TypeOK, Form!Generate, Form!editing
  <2>3. generating' \in BOOLEAN /\ failed' \in BOOLEAN
    BY DEF Form!IInv, Form!TypeOK, Form!Generate, Form!editing
  <2>4. Len(sent') <= MaxCalls
    BY <1>1, <1>2, FormFieldsKept DEF Form!ConstantsFit, Form!IInv, Form!TypeOK, Form!Generate,
         Form!editing
  <2> QED
    BY <1>1, <1>2, FormFieldsKept, <2>1, <2>2, <2>3, <2>4 DEF Form!IInv, Form!TypeOK
<1>4. Form!GeneratingHonest'
  BY <1>2 DEF Form!GeneratingHonest
<1> QED
  BY <1>1, <1>3, <1>4, FormFieldsKept DEF Form!IInv

\* The page of the new link uncovers it.
LEMMA FormLinkMadeIInv ==
    ASSUME Form!ConstantsFit, Form!IInv, NEW i \in 1..MaxCalls, Form!LinkMade(i)
    PROVE  Form!IInv'
<1>1. UNCHANGED <<form, since>> /\ sent' = Form!Without(i) /\ i \in DOMAIN sent
         /\ generating' = FALSE
  BY DEF Form!LinkMade
<1>2. sent' \in Seq(Form!Filled) /\ Len(sent') = Len(sent) - 1 /\ Len(sent) \in Nat
  BY <1>1, FormWithoutIn DEF Form!IInv, Form!TypeOK
<1>3. Form!TypeOK'
  <2>1. page' \in {"list", "form", "made", "connect"} /\ mode' \in {"wizard", "quick"}
    BY DEF Form!IInv, Form!TypeOK, Form!LinkMade
  <2>2. step' \in 1..4 /\ forms' \in 0..MaxForms
    BY DEF Form!ConstantsFit, Form!IInv, Form!TypeOK, Form!LinkMade
  <2>3. generating' \in BOOLEAN /\ failed' \in BOOLEAN
    BY DEF Form!IInv, Form!TypeOK, Form!LinkMade
  <2>4. Len(sent') <= MaxCalls
    BY <1>1, <1>2, FormFieldsKept DEF Form!ConstantsFit, Form!IInv, Form!TypeOK, Form!LinkMade
  <2> QED
    BY <1>1, <1>2, FormFieldsKept, <2>1, <2>2, <2>3, <2>4 DEF Form!IInv, Form!TypeOK
<1>4. Form!GeneratingHonest'
  BY <1>1 DEF Form!GeneratingHonest
<1> QED
  BY <1>1, <1>3, <1>4, FormFieldsKept DEF Form!IInv

\* So does a refusal.
LEMMA FormRefusedIInv ==
    ASSUME Form!ConstantsFit, Form!IInv, NEW i \in 1..MaxCalls, Form!Refused(i)
    PROVE  Form!IInv'
<1>1. UNCHANGED <<form, since>> /\ sent' = Form!Without(i) /\ i \in DOMAIN sent
         /\ generating' = FALSE
  BY DEF Form!Refused
<1>2. sent' \in Seq(Form!Filled) /\ Len(sent') = Len(sent) - 1 /\ Len(sent) \in Nat
  BY <1>1, FormWithoutIn DEF Form!IInv, Form!TypeOK
<1>3. Form!TypeOK'
  <2>1. page' \in {"list", "form", "made", "connect"} /\ mode' \in {"wizard", "quick"}
    BY DEF Form!IInv, Form!TypeOK, Form!Refused
  <2>2. step' \in 1..4 /\ forms' \in 0..MaxForms
    BY DEF Form!ConstantsFit, Form!IInv, Form!TypeOK, Form!Refused
  <2>3. generating' \in BOOLEAN /\ failed' \in BOOLEAN
    BY DEF Form!IInv, Form!TypeOK, Form!Refused
  <2>4. Len(sent') <= MaxCalls
    BY <1>1, <1>2, FormFieldsKept DEF Form!ConstantsFit, Form!IInv, Form!TypeOK, Form!Refused
  <2> QED
    BY <1>1, <1>2, FormFieldsKept, <2>1, <2>2, <2>3, <2>4 DEF Form!IInv, Form!TypeOK
<1>4. Form!GeneratingHonest'
  BY <1>1 DEF Form!GeneratingHonest
<1> QED
  BY <1>1, <1>3, <1>4, FormFieldsKept DEF Form!IInv

\* Every step of the form keeps what is said of it.
LEMMA FormNextIInv ==
    ASSUME Form!ConstantsFit, Form!IInv, [Form!Next]_(Form!vars)
    PROVE  Form!IInv'
<1>1. CASE Form!StartNewLink
  BY <1>1, FormStartNewLinkIInv
<1>2. CASE Form!Leave
  BY <1>2, FormLeaveIInv
<1>3. CASE Form!ModeWizard
  BY <1>3, FormModeWizardIInv
<1>4. CASE Form!ModeQuick
  BY <1>4, FormModeQuickIInv
<1>5. CASE Form!WizNext
  BY <1>5, FormWizNextIInv
<1>6. CASE Form!WizBack
  BY <1>6, FormWizBackIInv
<1>7. ASSUME NEW f \in Form!Fields, NEW text \in Form!Texts, Form!Type(f, text) PROVE Form!IInv'
  BY <1>7, FormTypeIInv
<1>8. ASSUME NEW type \in Tried, Form!SelectLinkType(type) PROVE Form!IInv'
  BY <1>8, FormSelectLinkTypeIInv DEF Form!ConstantsFit
<1>9. ASSUME NEW currency \in Currencies, Form!SelectCurrency(currency) PROVE Form!IInv'
  BY <1>9, FormSelectCurrencyIInv
<1>10. CASE Form!ToggleOneTime
  BY <1>10, FormToggleOneTimeIInv
<1>11. CASE Form!Generate
  BY <1>11, FormGenerateIInv
<1>12. ASSUME NEW i \in 1..MaxCalls, Form!LinkMade(i) PROVE Form!IInv'
  BY <1>12, FormLinkMadeIInv
<1>13. ASSUME NEW i \in 1..MaxCalls, Form!Refused(i) PROVE Form!IInv'
  BY <1>13, FormRefusedIInv
<1>14. CASE Form!SessionEnds
  BY <1>14, FormSessionEndsIInv
<1>15. CASE UNCHANGED Form!vars
  BY <1>15, FormFieldsKept DEF Form!IInv, Form!TypeOK, Form!GeneratingHonest, Form!vars,
       Form!editing
<1> QED
  BY <1>1, <1>2, <1>3, <1>4, <1>5, <1>6, <1>7, <1>8, <1>9, <1>10, <1>11, <1>12, <1>13, <1>14,
     <1>15 DEF Form!Next

-----------------------------------------------------------------------------
(* The parts side by side *)

\* One part runs, and its invariant holds at the start.
LEMMA InitInv ==
    ASSUME Init
    PROVE  Inv
<1>1. ASSUME NEW p \in Desks, part = p, Desk(p)!Init PROVE Inv
  <2>1. Desk(p)!IInv
    BY <1>1, ConstantsFit, DeskInitIInv DEF ConstantsFit
  <2> QED
    BY <1>1, <2>1, ConstantsFit DEF Inv, Parts, ConstantsFit
<1>2. ASSUME part = "form", Form!Init PROVE Inv
  <2>1. Form!IInv
    BY <1>2, ConstantsFit, FormInitIInv DEF ConstantsFit
  <2> QED
    BY <1>2, <2>1, ConstantsFit DEF Inv, Parts, ConstantsFit
<1> QED
  BY <1>1, <1>2 DEF Init

\* A step of a desk, or one that leaves its variables alone, keeps its invariant.
LEMMA DeskStep ==
    ASSUME Inv, NEW p \in Desks, part = p, part' = part, [Desk(p)!Next]_(Desk(p)!vars)
    PROVE  Inv'
<1>1. Desk(p)!ConstantsFit /\ Desk(p)!IInv
  BY ConstantsFit DEF Inv, ConstantsFit
<1>2. Desk(p)!IInv'
  BY <1>1, DeskNextIInv
<1> QED
  BY <1>2, ConstantsFit DEF Inv, Parts, ConstantsFit

\* The same of the form.
LEMMA FormStep ==
    ASSUME Inv, part = "form", part' = part, [Form!Next]_(Form!vars)
    PROVE  Inv'
<1>1. Form!IInv'
  BY ConstantsFit, FormNextIInv DEF Inv, ConstantsFit
<1> QED
  BY <1>1, ConstantsFit DEF Inv, Parts, ConstantsFit

\* What leaves the variables of all alone leaves those of each alone.
LEMMA Stutter ==
    ASSUME UNCHANGED vars
    PROVE  part' = part /\ UNCHANGED Form!vars /\ \A p : UNCHANGED Desk(p)!vars
<1>1. part' = part /\ UNCHANGED deskOnly /\ UNCHANGED formOnly
  BY DEF vars
<1>2. UNCHANGED Form!vars
  BY <1>1 DEF formOnly, Form!vars, Form!editing
<1>3. ASSUME NEW p PROVE UNCHANGED Desk(p)!vars
  BY <1>1 DEF deskOnly, Desk!vars, Desk!who, Desk!screen, Desk!link, Desk!server
<1> QED
  BY <1>1, <1>2, <1>3

\* Every step keeps the invariant of the part that runs.
LEMMA NextInv ==
    ASSUME Inv, [Next]_vars
    PROVE  Inv'
<1>1. ASSUME NEW p \in Desks, InDesk(p, Desk(p)!Next) PROVE Inv'
  BY <1>1, DeskStep DEF InDesk
<1>2. CASE InForm(Form!Next)
  BY <1>2, FormStep DEF InForm
<1>3. CASE UNCHANGED vars
  <2>1. ASSUME NEW p \in Desks, part = p PROVE Inv'
    BY <1>3, <2>1, Stutter, DeskStep
  <2>2. ASSUME part = "form" PROVE Inv'
    BY <1>3, <2>2, Stutter, FormStep
  <2> QED
    BY <2>1, <2>2 DEF Inv, Parts
<1> QED
  BY <1>1, <1>2, <1>3 DEF Next

-----------------------------------------------------------------------------
\* The invariant of whichever part runs is inductive.  It says which kinds of screens a
\* session and a visitor can be on (Portal), that whoever waits has one kind of call under
\* way, made by the screen that is up and about the link it shows, and that a field of
\* the form was typed into under a type that reads it (LinkForm).
THEOREM Inductive == Spec => []Inv
<1>1. Init => Inv
  BY InitInv
<1>2. Inv /\ [Next]_vars => Inv'
  BY NextInv
<1> QED
  BY <1>1, <1>2, PTL DEF Spec

\* The types of the variables of whichever part runs.
THEOREM Typed == Spec => []TypeOK
<1>1. Inv => TypeOK
  BY DEF Inv, TypeOK, Desk!IInv, Form!IInv
<1> QED
  BY <1>1, Inductive, PTL

\* A signed-in portal has the menus of its own account, whoever was here before and
\* however late calls are answered (store/AppProvider.tsx).
THEOREM RolesFit == Spec => []RoleFits
<1>1. Inv => RoleFits
  BY DEF Inv, RoleFits, Desk!IInv
<1> QED
  BY <1>1, Inductive, PTL

\* What "Copy link" copies is what the page shows, and "Refresh" is held back only while
\* a read is under way, with any number of reads under way (screens/LinkDetail.tsx).
THEOREM CopiesMatch == Spec => []CopyMatchesShown
<1>1. Inv => CopyMatchesShown
  BY DEF Inv, CopyMatchesShown, Desk!IInv
<1> QED
  BY <1>1, Inductive, PTL

\* Whoever waits for answers sees no screen without a session, nothing but the connect
\* screen without a gateway, and the link that was opened or made: until a session ends by
\* itself over a call under way, and again from the next fresh start (store/AppProvider.tsx).
THEOREM PatientDoesSeeTrue == Spec => []PatientSeesTrue
<1>1. Inv => PatientSeesTrue
  <2>1. ASSUME Inv, NEW p \in Desks \ Hasty, part = p, ~cut PROVE Desk(p)!Waited
    BY <2>1 DEF Inv, Desk!IInv
  <2> QED
    BY <2>1 DEF PatientSeesTrue, Desk!Waited
<1> QED
  BY <1>1, Inductive, PTL

\* What a form holds was typed into it since it was opened, and what is sent was typed
\* for the type of link that is made (screens/CreateLink.tsx).
THEOREM FormIsTrue == Spec => []FormTrue
<1>1. Inv => FormTrue
  BY DEF Inv, FormTrue, Form!IInv
<1> QED
  BY <1>1, Inductive, PTL
=============================================================================
