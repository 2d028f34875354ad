-------------------------------- MODULE LinkForm --------------------------------
(***************************************************************************)
(* The form a pay link is made with (screens/CreateLink.tsx): a guided     *)
(* wizard and a quick form over the same fields of AppProvider, what is    *)
(* sent when it is submitted, what handleCreateLink makes of it, and what  *)
(* the page of the new link says about it (screens/LinkCreated.tsx).       *)
(*                                                                         *)
(* A field holds Blank, Junk (text that is no number) or a figure; titles, *)
(* references, dates and when the customer is charged decide nothing here  *)
(* and are left out.  An overlay hides the form while a link is being      *)
(* made: nothing is changed under it, but the button still takes a key.    *)
(***************************************************************************)
EXTENDS Naturals, Sequences, TLC

CONSTANTS
    Figures,            \* the figures anyone types
    Tried,              \* the types of link anyone tries
    Currencies,         \* the currencies of the selects
    SplitCurrencies,    \* those a split bill's select offers
    Default,            \* the currency a select falls back to
    Blank, Junk,
    MaxForms, MaxCalls  \* bounds: times the form is opened, creations under way together

Types   == {"static", "dynamic", "split"}

\* What the constants are to be; Workspace assumes it of its instance.
ConstantsFit ==
    /\ Figures \subseteq Nat /\ Blank \notin Nat /\ Junk \notin Nat /\ Blank # Junk
    /\ Blank \notin Types
    /\ SplitCurrencies \subseteq Currencies /\ Default \in SplitCurrencies
    /\ Tried \subseteq Types
    /\ MaxForms \in Nat /\ MaxCalls \in Nat

VARIABLES
    page,       \* "list", "form", "made", or "connect" where the gateway is set up
    mode, step, \* createMode and wizardStep
    form,       \* the fields
    since,      \* ghost: the type each field was last typed under, or Blank
    generating,
    sent,       \* the creations under way: what the form held for each
    made,       \* the link whose page is up, as the server keeps it, or Blank
    failed,     \* whether createError is shown
    forms       \* forms opened so far

editing == <<page, mode, step, form, since, forms>>
vars    == <<editing, generating, sent, made, failed>>

-----------------------------------------------------------------------------
Amounts == {"amount", "target", "min", "max"}
Fields  == Amounts \cup {"scans"}
Texts   == Figures \cup {Blank, Junk}

\* The amounts handleCreateLink reads for a type of link.
ReadFor(type) ==
    CASE type = "static"  -> {"amount"}
      [] type = "dynamic" -> {"min", "max"}
      [] type = "split"   -> {"target", "min"}

BlankForm(currency) ==
    [amount |-> Blank, target |-> Blank, min |-> Blank, max |-> Blank, scans |-> Blank,
     type |-> "static", once |-> FALSE, currency |-> currency]

\* staleAmounts: what the other types leave behind goes when one is chosen.
Kept(type, fields) ==
    [f \in DOMAIN fields |-> IF f \in Amounts \ ReadFor(type) THEN Blank ELSE fields[f]]

Init ==
    /\ page = "list" /\ mode = "wizard" /\ step = 1
    /\ form = BlankForm(Default)
    /\ since = [f \in Fields |-> Blank]
    /\ generating = FALSE /\ sent = <<>> /\ made = Blank /\ failed = FALSE
    /\ forms = 0

\* Mutant: the limit of the link before is left in the form.
StartNewLinkLimited ==
    /\ page \in {"list", "made"}
    /\ forms < MaxForms
    /\ forms' = forms + 1
    /\ page' = "form" /\ step' = 1 /\ failed' = FALSE
    /\ form' = [BlankForm(form.currency) EXCEPT !.scans = form.scans]
    /\ since' = [f \in Fields |-> Blank]
    /\ made' = Blank
    /\ UNCHANGED <<mode, generating, sent>>

\* startNewLink; the form style and the currency stay as they were.
StartNewLink ==
    /\ page \in {"list", "made"}
    /\ forms < MaxForms
    /\ forms' = forms + 1
    /\ page' = "form" /\ step' = 1 /\ failed' = FALSE
    /\ form' = BlankForm(form.currency)
    /\ since' = [f \in Fields |-> Blank]
    /\ made' = Blank
    /\ UNCHANGED <<mode, generating, sent>>

\* "Cancel", "Done", and the way back from the connect screen.
Leave ==
    /\ page # "list" /\ ~generating
    /\ page' = "list" /\ made' = Blank
    /\ UNCHANGED <<mode, step, form, since, forms, generating, sent, failed>>

\* The session's end takes the form away, overlay and all; its answer is still to come.
SessionEnds ==
    /\ page # "list"
    /\ page' = "list" /\ made' = Blank
    /\ UNCHANGED <<mode, step, form, since, forms, generating, sent, failed>>

Editable == page = "form" /\ ~generating

ModeWizard == Editable /\ mode' = "wizard" /\ step' = 1
              /\ UNCHANGED <<page, form, since, forms, generating, sent, made, failed>>
ModeQuick  == Editable /\ mode' = "quick"
              /\ UNCHANGED <<page, step, form, since, forms, generating, sent, made, failed>>

-----------------------------------------------------------------------------
\* The fields each step puts on screen for the type that is chosen.
KindFields   == IF form.type = "split" THEN {"target"} ELSE {}
DetailFields == CASE form.type = "static"  -> {"amount"}
                  [] form.type = "dynamic" -> {"min", "max"}
                  [] form.type = "split"   -> {}
LimitFields  == {"scans"}
QuickFields  == (IF form.type = "static" THEN {"amount"} ELSE {}) \cup {"scans"}

OnScreen ==
    IF mode = "quick" THEN QuickFields
    ELSE CASE step = 1 -> KindFields
           [] step = 2 -> DetailFields
           [] step = 3 -> LimitFields
           [] OTHER    -> {}

\* The currency a select shows: its first one where it has no such option.
SelectShows(type, currency) ==
    IF type = "split" /\ currency \notin SplitCurrencies THEN Default ELSE currency
SelectOffers == IF form.type = "split" THEN SplitCurrencies ELSE Currencies
SelectOnScreen == (OnScreen \cap {"amount", "target"}) # {}

Edit(changed) ==
    /\ Editable
    /\ form' = changed
    /\ UNCHANGED <<page, mode, step, forms, generating, sent, made>>

Type(f, text) ==
    /\ f \in OnScreen
    /\ Edit([form EXCEPT ![f] = text])
    /\ since' = [since EXCEPT ![f] = form.type]
    /\ UNCHANGED failed

\* The wizard offers every type, the quick form all but a split bill.
SelectLinkType(type) ==
    /\ mode = "quick" \/ step = 1
    /\ mode = "quick" => type # "split"
    /\ Edit([Kept(type, form) EXCEPT !.type = type])
    /\ failed' = FALSE
    /\ UNCHANGED since

SelectCurrency(currency) ==
    /\ SelectOnScreen /\ currency \in SelectOffers
    /\ Edit([form EXCEPT !.currency = currency])
    /\ UNCHANGED <<since, failed>>

ToggleOneTime ==
    /\ mode = "quick" \/ step = 3
    /\ Edit([form EXCEPT !.once = ~@])
    /\ UNCHANGED <<since, failed>>

Wizard(to) ==
    /\ Editable /\ mode = "wizard"
    /\ step' = to
    /\ UNCHANGED <<page, mode, form, since, forms, generating, sent, made, failed>>
\* Mutant: a step past the last.
WizNextPast == step <= 4 /\ Wizard(step + 1)

WizNext == step < 4 /\ Wizard(step + 1)
WizBack == step > 1 /\ Wizard(step - 1)

-----------------------------------------------------------------------------
\* What the form says of the link being made.
LinkTypeLabel == IF form.type = "dynamic" THEN "dynamic" ELSE "static"
AmountDisplay == IF form.type = "dynamic" THEN Blank ELSE form.amount
MaxScansLabel == form.scans

\* generate and generateLive: nothing keeps the button from being pressed twice.
Generate ==
    /\ page = "form"
    /\ mode = "wizard" => step = 4
    /\ Len(sent) < MaxCalls
    /\ sent' = Append(sent, form)
    /\ generating' = TRUE /\ failed' = FALSE
    /\ UNCHANGED <<editing, made>>

\* maxUses: Number() of what is no number is sent as null, and no limit below one is kept.
Uses(f) == IF f.once THEN 1 ELSE IF f.scans \in Nat \ {0} THEN f.scans ELSE Blank

Figure(text) == IF text = Blank THEN 0 ELSE text

\* handleCreateLink's checks of the amounts.
Accepted(f) ==
    /\ \A a \in ReadFor(f.type) : f[a] # Junk
    /\ CASE f.type = "static"  -> Figure(f.amount) > 0
         [] f.type = "dynamic" -> f.min \in Nat \ {0} /\ f.max \in Nat \ {0} => f.min <= f.max
         [] f.type = "split"   -> Figure(f.target) > 0 /\ Figure(f.min) <= f.target

LinkOf(f) == [a \in ReadFor(f.type) |-> Figure(f[a])] @@
             [type |-> f.type, currency |-> f.currency, uses |-> Uses(f)]

Without(i) == SubSeq(sent, 1, i - 1) \o SubSeq(sent, i + 1, Len(sent))

LinkMade(i) ==
    /\ i \in DOMAIN sent
    /\ Accepted(sent[i])
    /\ made' = LinkOf(sent[i])
    /\ sent' = Without(i)
    /\ generating' = FALSE
    /\ page' = "made"
    /\ UNCHANGED <<mode, step, form, since, forms, failed>>

\* A form that is refused, a limit, a gateway that is missing, or no answer at all.
Refused(i) ==
    /\ i \in DOMAIN sent
    /\ sent' = Without(i)
    /\ generating' = FALSE /\ failed' = TRUE
    /\ page' \in {page, "connect"}
    /\ UNCHANGED <<mode, step, form, since, forms, made>>

Next ==
    \/ StartNewLink \/ Leave \/ SessionEnds \/ ModeWizard \/ ModeQuick \/ WizNext \/ WizBack
    \/ \E f \in Fields, text \in Texts : Type(f, text)
    \/ \E type \in Tried : SelectLinkType(type)
    \/ \E currency \in Currencies : SelectCurrency(currency)
    \/ ToggleOneTime \/ Generate
    \/ \E i \in 1..MaxCalls : LinkMade(i) \/ Refused(i)

Spec     == Init /\ [][Next]_vars
FairSpec == Spec /\ WF_vars(\E i \in 1..MaxCalls : LinkMade(i) \/ Refused(i))

-----------------------------------------------------------------------------
Filled ==
    [amount : Texts, target : Texts, min : Texts, max : Texts, scans : Texts,
     type : Types, once : BOOLEAN, currency : Currencies]

\* The types of the variables.
TypeOK ==
    /\ page \in {"list", "form", "made", "connect"}
    /\ mode \in {"wizard", "quick"} /\ step \in 1..4
    /\ form \in Filled /\ sent \in Seq(Filled)
    /\ since \in [Fields -> Types \cup {Blank}]
    /\ generating \in BOOLEAN /\ failed \in BOOLEAN
    /\ Len(sent) <= MaxCalls /\ forms \in 0..MaxForms

\* "the second link an operator made started as a half-filled copy of the first": no
\* more; whatever a form holds was typed into it since it was opened.
FreshForm == \A f \in Fields : form[f] # Blank => since[f] # Blank

\* "switching back showed a figure the operator had already abandoned": no more; an
\* amount that would be sent was typed under the type it is sent with.  A minimum is
\* the exception, see LeftAmountsDiscarded.
NoAbandonedFigure ==
    \A f \in Amounts \ {"min"} : form[f] # Blank => since[f] = form.type

\* The overlay is up only while a call is under way, and goes.
GeneratingHonest == generating => sent # <<>>
GeneratingEnds   == generating ~> ~generating

\* The invariant those follow from: a field is typed into only under the types that
\* read it.
TypedWhereRead == \A f \in Amounts : since[f] = Blank \/ f \in ReadFor(since[f])
IInv == TypeOK /\ FreshForm /\ NoAbandonedFigure /\ TypedWhereRead /\ GeneratingHonest

-----------------------------------------------------------------------------
\* "Changing the type discards the amounts belonging to the type being left."
LeftAmountsDiscarded ==
    \A f \in Amounts : form[f] # Blank => since[f] = form.type

\* "One-time use: Link closes after the first successful payment", and the page of the
\* new link shows that limit.
LimitShown == page = "made" /\ form.once => MaxScansLabel = made.uses

\* The page of a new bill shows the total it was made with.
AmountShown == page = "made" /\ made.type = "split" => AmountDisplay = made.target

\* "forgetting once would price a link in the wrong currency": a link is priced in the
\* currency the form showed.
PricedAsShown == page = "made" => made.currency = SelectShows(made.type, made.currency)
=============================================================================
