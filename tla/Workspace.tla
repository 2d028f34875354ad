------------------------------- MODULE Workspace -------------------------------
(***************************************************************************)
(* The operator's workspace: the portal as whoever signs in at one browser *)
(* goes through it, and the form a pay link is made with.  At some desks   *)
(* screens are left whose calls are under way, at the others every answer  *)
(* is waited for.  Portal and LinkForm share no state, so a behaviour runs *)
(* one of them, chosen at the start; the variables of the other stay       *)
(* `Off'.                                                                  *)
(***************************************************************************)
EXTENDS Naturals

CONSTANTS
    Desks, Hasty,           \* the desks, and those where nobody waits for an answer
    AccountsOf, RolesOf,    \* of each desk: who may sign in there, and each one's role
    LoadsOf,                \* of each desk: reads of a link that may be under way together
    Links, None,
    Figures, Tried, Currencies, SplitCurrencies, Default, Blank, Junk,
    MaxForms, MaxCalls      \* of the form

Parts == Desks \cup {"form"}

VARIABLES
    part,
    view, role, session, asked, registering, created, detail, load, loading, creation,
    needs, owner, paused, opened, cut,
    page, mode, step, form, since, generating, sent, made, failed, forms

Desk(p) == INSTANCE Portal WITH
    Accounts <- AccountsOf[p], RoleOf <- RolesOf[p], Loads <- LoadsOf[p],
    Hurried <- (p \in Hasty)
Form == INSTANCE LinkForm

ASSUME ConstantsFit ==
    /\ "form" \notin Desks
    /\ \A p \in Desks : Desk(p)!ConstantsFit
    /\ Form!ConstantsFit

deskOnly == <<view, role, session, asked, registering, created, detail, load, loading, creation,
              needs, owner, paused, opened, cut>>
formOnly == <<page, mode, step, form, since, generating, sent, made, failed, forms>>
vars     == <<part, deskOnly, formOnly>>

-----------------------------------------------------------------------------
Off == "off"
NoDesk ==
    /\ view = Off /\ role = Off /\ session = Off /\ asked = Off /\ registering = Off
    /\ created = Off /\ detail = Off /\ load = Off /\ loading = Off /\ creation = Off
    /\ needs = Off /\ owner = Off /\ paused = Off /\ opened = Off /\ cut = Off
NoForm ==
    /\ page = Off /\ mode = Off /\ step = Off /\ form = Off /\ since = Off
    /\ generating = Off /\ sent = Off /\ made = Off /\ failed = Off /\ forms = Off

Init ==
    \/ \E p \in Desks : part = p /\ Desk(p)!Init /\ NoForm
    \/ part = "form" /\ Form!Init /\ NoDesk

InDesk(p, A) == part = p /\ A /\ UNCHANGED <<part, formOnly>>
InForm(A)    == part = "form" /\ A /\ UNCHANGED <<part, deskOnly>>

Next ==
    \/ \E p \in Desks : InDesk(p, Desk(p)!Next)
    \/ InForm(Form!Next)

Spec == Init /\ [][Next]_vars

-----------------------------------------------------------------------------
\* The types of the variables of whichever runs.
TypeOK ==
    /\ \A p \in Desks : part = p => Desk(p)!TypeOK
    /\ part = "form" => Form!TypeOK

\* A signed-in portal has the menus of its own account, whoever was at the browser
\* before and whatever is answered late (Portal).
RoleFits == \A p \in Desks : part = p => Desk(p)!RoleFits

\* "Copy link" copies the link the page shows, and "Refresh" is held back only by a read
\* that is under way (Portal).
CopyMatchesShown ==
    \A p \in Desks : part = p => Desk(p)!CopyMatchesShown /\ Desk(p)!LoadingHonest

\* Whoever waits for answers sees no screen without a session, nothing but the connect
\* screen without a gateway, and the link that was opened or made: until a session ends by
\* itself over a call under way, and again from the next fresh start (Portal).
PatientSeesTrue ==
    \A p \in Desks \ Hasty : part = p /\ ~cut =>
        /\ Desk(p)!ScreenNeedsSession /\ Desk(p)!GateHolds
        /\ Desk(p)!OpenedIsShown /\ Desk(p)!CreatedIsShared

\* A form starts empty, sends no figure typed for another type of link, and is covered
\* only while its link is being made (LinkForm).
FormTrue ==
    part = "form" => Form!FreshForm /\ Form!NoAbandonedFigure /\ Form!GeneratingHonest

\* The invariant behind them: that of the part that runs.
Inv ==
    /\ part \in Parts
    /\ \A p \in Desks : part = p => Desk(p)!IInv
    /\ part = "form" => Form!IInv
=============================================================================
