--------------------------- MODULE Screens_proofs ---------------------------
(***************************************************************************)
(* What the screens promise, for any number of calls, operators,           *)
(* administrators, requests and amounts.  Each part keeps an invariant of  *)
(* its own, that of its module, and a behaviour runs one part.             *)
(***************************************************************************)
EXTENDS Screens, SequenceTheorems, TLAPS

-----------------------------------------------------------------------------
(* A payment's panel (PaymentPanel) *)

-----------------------------------------------------------------------------

\* The types, by whom they belong to,
LEMMA PanelTypeParts == ASSUME Panel!TypeOK PROVE Panel!MoneyFits /\ Panel!CountFits
/\ Panel!ShownFits /\ Panel!CallFits
BY DEF Panel!TypeOK, Panel!MoneyFits, Panel!CountFits, Panel!ShownFits, Panel!CallFits,
     Panel!CallRecord

\* and back.
LEMMA PanelPartsType == ASSUME Panel!MoneyFits', Panel!CountFits', Panel!ShownFits', Panel!CallFits'
PROVE Panel!TypeOK'
BY DEF Panel!TypeOK, Panel!MoneyFits, Panel!CountFits, Panel!ShownFits, Panel!CallFits,
     Panel!CallRecord

-----------------------------------------------------------------------------
\* The gateway's orders and the records made of them.
LEMMA PanelAfterFits ==
    ASSUME NEW o \in Panel!Order, NEW kind \in Panel!Kinds, NEW amt \in Nat
    PROVE  Panel!After(o, kind, amt) \in Panel!Order
<1>1. o.cap + amt \in Nat /\ o.ref + amt \in Nat
  BY DEF Panel!Order
<1>2. CASE kind = "capture"
  <2>1. PICK s \in Panel!OrderStatus : s = IF o.cap + amt = o.auth THEN "CAPTURED"
           ELSE "PARTIALLY_CAPTURED"
    BY DEF Panel!OrderStatus
  <2>2. Panel!After(o, kind, amt) = [o EXCEPT !.cap = @ + amt, !.status = s]
    BY <1>2, <2>1 DEF Panel!After
  <2> QED
    BY <1>1, <2>2 DEF Panel!Order
<1>3. CASE kind = "refund"
  <2>1. PICK s \in Panel!OrderStatus : s = IF o.ref + amt = o.cap THEN "REFUNDED"
           ELSE "PARTIALLY_REFUNDED"
    BY DEF Panel!OrderStatus
  <2>2. Panel!After(o, kind, amt) = [o EXCEPT !.ref = @ + amt, !.status = s]
    BY <1>3, <2>1 DEF Panel!After
  <2> QED
    BY <1>1, <2>2 DEF Panel!Order
<1>4. CASE kind = "void"
  BY <1>4 DEF Panel!After, Panel!Closed, Panel!Order, Panel!OrderStatus
<1> QED
  BY <1>2, <1>3, <1>4 DEF Panel!Kinds

\* What a load is answered with,
LEMMA PanelRowFits ==
    ASSUME NEW o \in Panel!Order
    PROVE  Panel!RowOf(o) \in Panel!Shown
<1>1. PICK s \in Panel!PaymentStatus :
        s = IF o.status \in Panel!Recognised THEN Panel!StatusFromOrder(o.status) ELSE "initiated"
  BY DEF Panel!StatusFromOrder, Panel!Recognised, Panel!PaymentStatus
<1>2. Panel!RowOf(o) = [status |-> s, auth |-> o.auth, cap |-> o.cap, ref |-> o.ref]
  BY <1>1 DEF Panel!RowOf
<1> QED
  BY <1>2 DEF Panel!Shown, Panel!Order

\* what the panel shows before, and a call that is free.
LEMMA PanelUnreadFits == Panel!Unread \in Panel!Shown /\ Panel!Free \in Panel!CallRecord
/\ Panel!Free.step = "free"
BY DEF Panel!Unread, Panel!Shown, Panel!Free, Panel!CallRecord, Panel!Kinds

\* The balances a panel computes are amounts.
LEMMA PanelBalancesFit ==
    ASSUME NEW r \in Panel!Shown
    PROVE  Panel!CapturableMinor(r) \in Nat /\ Panel!RefundableMinor(r) \in Nat
BY DEF Panel!CapturableMinor, Panel!RefundableMinor, Panel!Shown

-----------------------------------------------------------------------------
\* What the ways to change the calls come to.
LEMMA PanelSendFits ==
    ASSUME Panel!CallFits, NEW c \in CallsOf["panel"], NEW what \in Panel!Kinds \cup {"load"},
           NEW amt \in Nat,
           panel' \in Nat, intents \in Nat, Panel!Send(c, what, amt)
    PROVE  /\ Panel!CallFits'
           /\ call[c].step = "free"
           /\ call'[c].step = "sent" /\ call'[c].what = what
           /\ call'[c].panel = panel' /\ call'[c].intent = intents
           /\ \A d \in CallsOf["panel"] : d # c => call'[d] = call[d]
<1>1. PICK p \in Nat : p = panel'
  OBVIOUS
<1> DEFINE new == [Panel!Free EXCEPT !.step = "sent", !.what = what, !.amount = amt, !.panel = p,
                               !.intent = intents]
<1>2. call' = [call EXCEPT ![c] = new] /\ call[c] = Panel!Free
  BY <1>1 DEF Panel!Send
<1>3. /\ new \in Panel!CallRecord
      /\ new.step = "sent" /\ new.what = what /\ new.panel = p /\ new.intent = intents
  BY PanelUnreadFits DEF Panel!CallRecord
<1> HIDE DEF new
<1> QED
  BY <1>1, <1>2, <1>3, PanelUnreadFits DEF Panel!CallFits

\* A call that is answered keeps what it was about; the others stay.
LEMMA PanelReplyFits ==
    ASSUME Panel!CallFits, NEW c \in CallsOf["panel"], NEW step \in {"ok", "refused"},
           NEW r \in Panel!Shown, Panel!Reply(c, step, r)
    PROVE  /\ Panel!CallFits'
           /\ call'[c].step = step /\ call'[c].what = call[c].what
           /\ call'[c].panel = call[c].panel /\ call'[c].intent = call[c].intent
           /\ \A d \in CallsOf["panel"] : d # c => call'[d] = call[d]
<1> DEFINE new == [call[c] EXCEPT !.step = step, !.row = r]
<1>1. call' = [call EXCEPT ![c] = new]
  BY DEF Panel!Reply
<1>2. /\ new \in Panel!CallRecord
      /\ new.step = step /\ new.what = call[c].what
      /\ new.panel = call[c].panel /\ new.intent = call[c].intent
  BY DEF Panel!CallRecord, Panel!CallFits
<1> HIDE DEF new
<1> QED
  BY <1>1, <1>2 DEF Panel!CallFits

\* An answer that is taken frees its call; the others stay.
LEMMA PanelFinishFits ==
    ASSUME Panel!CallFits, NEW c \in CallsOf["panel"], Panel!Finish(c)
    PROVE  /\ Panel!CallFits'
           /\ call'[c].step = "free"
           /\ \A d \in CallsOf["panel"] : d # c => call'[d] = call[d]
BY PanelUnreadFits DEF Panel!Finish, Panel!CallFits

-----------------------------------------------------------------------------
\* The operator's side.
LEMMA PanelOpenPanelKeeps ==
    ASSUME Panel!ConstantsFit, Panel!IInv, NEW c \in CallsOf["panel"], Panel!OpenPanel(c)
    PROVE  Panel!IInv'
<1>1. Panel!TypeOK /\ Panel!CallsFit /\ Panel!OneCall /\ Panel!OneLoad /\ Panel!Unmoved
         /\ Panel!MovesOnce
  BY DEF Panel!IInv
<1>2. Panel!MoneyFits /\ Panel!CountFits /\ Panel!ShownFits /\ Panel!CallFits
  BY <1>1, PanelTypeParts
<1>3. /\ panel = 0 /\ panels < MaxPanels /\ panel' = panels + 1 /\ panels' = panels + 1
      /\ detail' = Panel!Unread /\ loading' = TRUE /\ busy' = FALSE /\ error' = FALSE
      /\ action' = "none" /\ amount' = 0 /\ done' = "none"
      /\ Panel!Send(c, "load", 0)
      /\ UNCHANGED <<order, row, moved, intents, elsewhere>>
  BY DEF Panel!OpenPanel, Panel!money
<1>4. Panel!MoneyFits' /\ Panel!CountFits' /\ Panel!ShownFits' /\ panel' \in Nat /\ intents \in Nat
         /\ panels \in Nat
  <2>1. Panel!ShownFits'
    BY <1>3, PanelUnreadFits DEF Panel!ShownFits
  <2> QED
    BY <1>2, <1>3, <2>1 DEF Panel!MoneyFits, Panel!CountFits, Panel!ConstantsFit
<1>5. /\ Panel!CallFits' /\ call[c].step = "free"
      /\ call'[c].step = "sent" /\ call'[c].what = "load" /\ call'[c].panel = panel'
      /\ \A d \in CallsOf["panel"] : d # c => call'[d] = call[d]
  BY <1>2, <1>3, <1>4, PanelSendFits
<1>6. \A d \in CallsOf["panel"] : Panel!Op(d)' => d # c /\ Panel!Op(d)
  BY <1>5 DEF Panel!Op, Panel!Open, Panel!Kinds
<1>7. Panel!CallsFit'
  <2> SUFFICES ASSUME NEW d \in CallsOf["panel"]
               PROVE  /\ Panel!Open(d)' => call'[d].panel \in 1..panels'
                      /\ Panel!Op(d)' => /\ call'[d].intent \in 1..intents'
                                         /\ call'[d].step = "ok" <=> moved'[call'[d].intent] > 0
    BY DEF Panel!CallsFit
  <2>1. CASE d = c
    BY <1>3, <1>4, <1>5, <1>6, <2>1
  <2>2. CASE d # c
    BY <1>1, <1>3, <1>4, <1>5, <2>2 DEF Panel!CallsFit, Panel!Op, Panel!Open
  <2> QED
    BY <2>1, <2>2
<1>8. Panel!OneCall' /\ Panel!Unmoved' /\ Panel!MovesOnce' /\ Panel!OneLoad'
  <2>1. \A d \in CallsOf["panel"] : d # c /\ Panel!Open(d)' => Panel!Open(d)
           /\ call'[d].panel # panels + 1
    BY <1>1, <1>4, <1>5 DEF Panel!CallsFit, Panel!Open
  <2>2. Panel!OneLoad'
    BY <1>1, <1>3, <1>5, <2>1 DEF Panel!OneLoad
  <2> QED
    BY <1>1, <1>3, <1>5, <1>6, <2>2 DEF Panel!OneCall, Panel!Unmoved, Panel!MovesOnce
<1>9. Panel!Waits'
  <2> SUFFICES ASSUME NEW d \in CallsOf["panel"], Panel!Open(d)', call'[d].panel = panel'
               PROVE  call'[d].what = "load"
    BY <1>3 DEF Panel!Waits
  <2>1. d # c => Panel!Open(d) /\ call[d].panel = panels + 1
    BY <1>3, <1>5 DEF Panel!Open
  <2>2. d = c
    BY <1>1, <1>4, <2>1 DEF Panel!CallsFit
  <2> QED
    BY <1>5, <2>2
<1>10. Panel!Ready' /\ Panel!DoneTruthful'
  BY <1>3 DEF Panel!Ready, Panel!DoneTruthful
<1> QED
  BY <1>4, <1>5, <1>7, <1>8, <1>9, <1>10, PanelPartsType DEF Panel!IInv

\* Confirming begins the one call of the action.
LEMMA PanelConfirmKeeps ==
    ASSUME Panel!ConstantsFit, Panel!IInv, NEW c \in CallsOf["panel"], Panel!Confirm(c)
    PROVE  Panel!IInv'
<1>1. Panel!TypeOK /\ Panel!CallsFit /\ Panel!OneCall /\ Panel!OneLoad /\ Panel!Unmoved
         /\ Panel!Waits /\ Panel!Ready /\ Panel!MovesOnce /\ Panel!DoneTruthful
  BY DEF Panel!IInv
<1>2. Panel!MoneyFits /\ Panel!CountFits /\ Panel!ShownFits /\ Panel!CallFits
  BY <1>1, PanelTypeParts
<1>3. /\ panel # 0 /\ action # "none" /\ ~busy /\ busy' = TRUE /\ error' = FALSE
      /\ Panel!Send(c, action, amount)
      /\ UNCHANGED <<order, row, moved, detail, loading, action, amount, done, panel, panels,
                     intents, elsewhere>>
  BY DEF Panel!Confirm, Panel!money
<1>4. action \in Panel!Kinds /\ panel \in Nat /\ intents \in Nat /\ intents > 0
         /\ moved[intents] = 0
  BY <1>1, <1>2, <1>3 DEF Panel!ShownFits, Panel!CountFits, Panel!Ready
<1>5. Panel!MoneyFits' /\ Panel!CountFits' /\ Panel!ShownFits'
  BY <1>2, <1>3 DEF Panel!MoneyFits, Panel!CountFits, Panel!ShownFits
<1>6. /\ Panel!CallFits' /\ call[c].step = "free"
      /\ call'[c].step = "sent" /\ call'[c].what = action /\ call'[c].panel = panel
      /\ call'[c].intent = intents
      /\ \A d \in CallsOf["panel"] : d # c => call'[d] = call[d]
  BY <1>2, <1>3, <1>4, PanelSendFits DEF Panel!ShownFits
<1>7. \A d \in CallsOf["panel"] : d # c => (Panel!Op(d)' <=> Panel!Op(d))
         /\ (Panel!Open(d)' <=> Panel!Open(d))
  BY <1>6 DEF Panel!Op, Panel!Open
<1>8. Panel!CallsFit'
  <2> SUFFICES ASSUME NEW d \in CallsOf["panel"]
               PROVE  /\ Panel!Open(d)' => call'[d].panel \in 1..panels'
                      /\ Panel!Op(d)' => /\ call'[d].intent \in 1..intents'
                                         /\ call'[d].step = "ok" <=> moved'[call'[d].intent] > 0
    BY DEF Panel!CallsFit
  <2>1. CASE d = c
    BY <1>1, <1>2, <1>3, <1>4, <1>6, <2>1 DEF Panel!Waits, Panel!CountFits
  <2>2. CASE d # c
    BY <1>1, <1>3, <1>6, <1>7, <2>2 DEF Panel!CallsFit
  <2> QED
    BY <2>1, <2>2
<1>9. Panel!OneCall'
  <2>1. \A d \in CallsOf["panel"] : Panel!Op(d) => call[d].intent # intents
    BY <1>1, <1>3 DEF Panel!Ready
  <2> QED
    BY <1>1, <1>6, <1>7, <2>1 DEF Panel!OneCall
<1>10. Panel!Unmoved' /\ Panel!MovesOnce' /\ Panel!DoneTruthful' /\ Panel!OneLoad'
  <2>1. call'[c].what # "load"
    BY <1>4, <1>6 DEF Panel!Kinds
  <2>2. Panel!OneLoad'
    BY <1>1, <1>6, <1>7, <2>1 DEF Panel!OneLoad
  <2> QED
    BY <1>1, <1>3, <2>2 DEF Panel!Unmoved, Panel!MovesOnce, Panel!DoneTruthful
<1>11. Panel!Waits'
  <2>1. ~loading
    BY <1>1, <1>3 DEF Panel!Waits
  <2>2. \A d \in CallsOf["panel"] : d # c /\ Panel!Open(d) => call[d].panel # panel
    BY <1>1, <1>3, <2>1 DEF Panel!Waits
  <2> QED
    BY <1>1, <1>3, <1>4, <1>6, <1>7, <2>1, <2>2 DEF Panel!Waits, Panel!Kinds
<1>12. Panel!Ready'
  BY <1>3, <1>4 DEF Panel!Ready
<1> QED
  BY <1>5, <1>6, <1>8, <1>9, <1>10, <1>11, <1>12, PanelPartsType DEF Panel!IInv

\* What changes no call.
LEMMA PanelBeginActionKeeps ==
    ASSUME Panel!ConstantsFit, Panel!IInv, NEW kind \in Panel!Kinds, Panel!BeginAction(kind)
    PROVE  Panel!IInv'
<1>1. Panel!TypeOK /\ Panel!CallsFit /\ Panel!OneCall /\ Panel!OneLoad /\ Panel!Unmoved
         /\ Panel!Waits /\ Panel!MovesOnce
  BY DEF Panel!IInv
<1>2. Panel!MoneyFits /\ Panel!CountFits /\ Panel!ShownFits /\ Panel!CallFits
  BY <1>1, PanelTypeParts
<1>3. /\ panel # 0 /\ ~loading /\ action = "none" /\ intents < MaxIntents /\ intents' = intents + 1
      /\ action' = kind /\ error' = FALSE /\ done' = "none"
      /\ amount' = IF kind = "capture" THEN Panel!CapturableMinor(detail)
          ELSE Panel!RefundableMinor(detail)
      /\ UNCHANGED <<order, row, moved, detail, loading, busy, panel, panels, elsewhere, call>>
  BY DEF Panel!BeginAction, Panel!AtRest, Panel!money
<1>4. Panel!MoneyFits' /\ Panel!CountFits' /\ Panel!ShownFits' /\ Panel!CallFits' /\ intents \in Nat
  <2>1. amount' \in Nat
    BY <1>2, <1>3, PanelBalancesFit DEF Panel!ShownFits
  <2>2. intents \in Nat /\ intents + 1 \in 0..MaxIntents
    BY <1>2, <1>3 DEF Panel!CountFits, Panel!ConstantsFit
  <2>3. Panel!MoneyFits' /\ Panel!CountFits'
    BY <1>2, <1>3, <2>2 DEF Panel!MoneyFits, Panel!CountFits
  <2>4. Panel!ShownFits' /\ Panel!CallFits'
    BY <1>2, <1>3, <2>1 DEF Panel!ShownFits, Panel!CallFits
  <2> QED
    BY <2>2, <2>3, <2>4
<1>5. \A d \in CallsOf["panel"] : (Panel!Op(d)' <=> Panel!Op(d))
         /\ (Panel!Open(d)' <=> Panel!Open(d))
  BY <1>3 DEF Panel!Op, Panel!Open
<1>6. Panel!CallsFit' /\ Panel!OneCall' /\ Panel!OneLoad' /\ Panel!Unmoved' /\ Panel!MovesOnce'
  BY <1>1, <1>3, <1>4, <1>5 DEF Panel!CallsFit, Panel!OneCall, Panel!OneLoad, Panel!Unmoved,
       Panel!MovesOnce
<1>7. ~busy
  BY <1>1, <1>3 DEF Panel!Waits
<1>8. \A d \in CallsOf["panel"] : Panel!Open(d) => call[d].panel # panel
  BY <1>1, <1>3, <1>7 DEF Panel!Waits
<1>9. Panel!Waits'
  BY <1>1, <1>3, <1>5, <1>7, <1>8 DEF Panel!Waits
<1>10. Panel!Ready'
  <2>1. intents + 1 \in 1..MaxIntents /\ intents + 1 > intents
    BY <1>3, <1>4 DEF Panel!ConstantsFit
  <2>2. moved[intents + 1] = 0
    BY <1>1, <2>1 DEF Panel!Unmoved
  <2>3. \A d \in CallsOf["panel"] : Panel!Op(d) => call[d].intent # intents + 1
    BY <1>1, <1>4 DEF Panel!CallsFit
  <2> QED
    BY <1>3, <1>4, <1>5, <2>2, <2>3 DEF Panel!Ready
<1>11. Panel!DoneTruthful'
  BY <1>3 DEF Panel!DoneTruthful
<1> QED
  BY <1>4, <1>6, <1>9, <1>10, <1>11, PanelPartsType DEF Panel!IInv

\* Closing, typing, going back, and what happens elsewhere.
LEMMA PanelAsideKeeps ==
    ASSUME Panel!IInv, UNCHANGED <<moved, panels, intents, call, loading, busy, done>>,
           Panel!MoneyFits', Panel!CountFits', Panel!ShownFits',
           panel' = panel \/ panel' = 0,
           \/ UNCHANGED <<action, error>>
           \/ action' = "none" /\ ~error' /\ ~busy
    PROVE  Panel!IInv'
<1>1. Panel!TypeOK /\ Panel!CallsFit /\ Panel!OneCall /\ Panel!OneLoad /\ Panel!Unmoved
         /\ Panel!Waits /\ Panel!Ready /\ Panel!MovesOnce /\ Panel!DoneTruthful
  BY DEF Panel!IInv
<1>2. Panel!TypeOK'
  BY <1>1, PanelTypeParts, PanelPartsType DEF Panel!CallFits
<1>3. Panel!CallsFit' /\ Panel!OneCall' /\ Panel!OneLoad' /\ Panel!Unmoved' /\ Panel!MovesOnce'
         /\ Panel!DoneTruthful'
  BY <1>1 DEF Panel!CallsFit, Panel!OneCall, Panel!OneLoad, Panel!Unmoved, Panel!MovesOnce,
       Panel!DoneTruthful, Panel!Op, Panel!Open
<1>4. Panel!Waits'
  BY <1>1 DEF Panel!Waits, Panel!Open
<1>5. Panel!Ready'
  BY <1>1 DEF Panel!Ready, Panel!Op, Panel!Open
<1> QED
  BY <1>2, <1>3, <1>4, <1>5 DEF Panel!IInv

\* Closing, going back, typing an amount, and what others do to the order.
LEMMA PanelAsidesKeep ==
    ASSUME Panel!ConstantsFit, Panel!IInv,
           \/ Panel!ClosePanel \/ Panel!Back
           \/ \E a \in 0..(Total + 1) : Panel!TypeAmount(a)
           \/ \E kind \in Panel!Kinds, amt \in 1..Total : Panel!Elsewhere(kind, amt)
    PROVE  Panel!IInv'
<1>1. Panel!MoneyFits /\ Panel!CountFits /\ Panel!ShownFits
  BY PanelTypeParts DEF Panel!IInv
<1>2. CASE Panel!ClosePanel
  BY <1>1, <1>2, PanelAsideKeeps DEF Panel!ClosePanel, Panel!money, Panel!shown, Panel!MoneyFits,
       Panel!CountFits, Panel!ShownFits, Panel!ConstantsFit
<1>3. CASE Panel!Back
  BY <1>1, <1>3, PanelAsideKeeps DEF Panel!Back, Panel!money, Panel!count, Panel!MoneyFits,
       Panel!CountFits, Panel!ShownFits
<1>4. ASSUME NEW a \in 0..(Total + 1), Panel!TypeAmount(a) PROVE Panel!IInv'
  <2>1. a \in Nat
    BY DEF Panel!ConstantsFit
  <2> QED
    BY <1>1, <1>4, <2>1, PanelAsideKeeps DEF Panel!TypeAmount, Panel!money, Panel!count,
         Panel!MoneyFits, Panel!CountFits, Panel!ShownFits
<1>5. ASSUME NEW kind \in Panel!Kinds, NEW amt \in 1..Total, Panel!Elsewhere(kind, amt)
         PROVE Panel!IInv'
  <2>1. order' \in Panel!Order
    BY <1>1, <1>5, PanelAfterFits DEF Panel!Elsewhere, Panel!MoneyFits
  <2> QED
    BY <1>1, <1>5, <2>1, PanelAsideKeeps
       DEF Panel!Elsewhere, Panel!shown, Panel!MoneyFits, Panel!CountFits, Panel!ShownFits,
       Panel!ConstantsFit
<1> QED
  BY <1>2, <1>3, <1>4, <1>5

-----------------------------------------------------------------------------
\* The server's side.  An answer that moves nothing, and one that moves money.
LEMMA PanelAnswerKeeps ==
    ASSUME Panel!IInv, UNCHANGED <<moved, Panel!shown, Panel!count>>, Panel!MoneyFits',
           Panel!CallFits',
           NEW c \in CallsOf["panel"], call[c].step = "sent",
           call'[c].step \in {"ok", "refused"}, call'[c].what = call[c].what,
           call'[c].panel = call[c].panel, call'[c].intent = call[c].intent,
           call[c].what \in Panel!Kinds => call'[c].step = "refused",
           \A d \in CallsOf["panel"] : d # c => call'[d] = call[d]
    PROVE  Panel!IInv'
<1>1. Panel!TypeOK /\ Panel!CallsFit /\ Panel!OneCall /\ Panel!OneLoad /\ Panel!Unmoved
         /\ Panel!Waits /\ Panel!Ready /\ Panel!MovesOnce /\ Panel!DoneTruthful
  BY DEF Panel!IInv
<1>2. UNCHANGED <<detail, loading, busy, error, action, amount, done, panel, panels, intents,
         elsewhere>>
  BY DEF Panel!shown, Panel!count
<1>3. Panel!CountFits' /\ Panel!ShownFits'
  BY <1>1, <1>2, PanelTypeParts DEF Panel!CountFits, Panel!ShownFits
<1>4. \A d \in CallsOf["panel"] : /\ (Panel!Op(d)' <=> Panel!Op(d))
         /\ (Panel!Open(d)' <=> Panel!Open(d))
                                  /\ call'[d].intent = call[d].intent
                                      /\ call'[d].panel = call[d].panel
                                  /\ call'[d].what = call[d].what
  BY DEF Panel!Op, Panel!Open
<1>5. \A d \in CallsOf["panel"] : Panel!Op(d) => (call'[d].step = "ok" <=> call[d].step = "ok")
  BY DEF Panel!Op
<1>6. Panel!CallsFit' /\ Panel!OneCall' /\ Panel!OneLoad' /\ Panel!Unmoved' /\ Panel!MovesOnce'
         /\ Panel!DoneTruthful'
  BY <1>1, <1>2, <1>4, <1>5 DEF Panel!CallsFit, Panel!OneCall, Panel!OneLoad, Panel!Unmoved,
       Panel!MovesOnce, Panel!DoneTruthful
<1>7. Panel!Waits'
  BY <1>1, <1>2, <1>4 DEF Panel!Waits
<1>8. Panel!Ready'
  BY <1>1, <1>2, <1>4 DEF Panel!Ready
<1> QED
  BY <1>3, <1>6, <1>7, <1>8, PanelPartsType DEF Panel!IInv

\* An operation that moves money is the first of its action to do so.
LEMMA PanelMoveKeeps ==
    ASSUME Panel!ConstantsFit, Panel!IInv, UNCHANGED <<Panel!shown, Panel!count>>,
           Panel!MoneyFits', Panel!CallFits',
           NEW c \in CallsOf["panel"], call[c].step = "sent", call[c].what \in Panel!Kinds,
           moved' = [moved EXCEPT ![call[c].intent] = @ + 1],
           call'[c].step = "ok", call'[c].what = call[c].what,
           call'[c].panel = call[c].panel, call'[c].intent = call[c].intent,
           \A d \in CallsOf["panel"] : d # c => call'[d] = call[d]
    PROVE  Panel!IInv'
<1>1. Panel!TypeOK /\ Panel!CallsFit /\ Panel!OneCall /\ Panel!OneLoad /\ Panel!Unmoved
         /\ Panel!Waits /\ Panel!Ready /\ Panel!MovesOnce /\ Panel!DoneTruthful
  BY DEF Panel!IInv
<1>2. UNCHANGED <<detail, loading, busy, error, action, amount, done, panel, panels, intents,
         elsewhere>>
  BY DEF Panel!shown, Panel!count
<1>3. Panel!CountFits' /\ Panel!ShownFits' /\ Panel!MoneyFits /\ Panel!CountFits
  BY <1>1, <1>2, PanelTypeParts DEF Panel!CountFits, Panel!ShownFits
<1> DEFINE i == call[c].intent
<1>4. i \in 1..intents /\ i \in 1..MaxIntents /\ moved[i] = 0 /\ Panel!Op(c)
  <2>1. Panel!Op(c) /\ i \in 1..intents /\ ~(moved[i] > 0)
    BY <1>1 DEF Panel!Op, Panel!Open, Panel!CallsFit
  <2>2. i \in 1..MaxIntents
    BY <1>3, <2>1 DEF Panel!CountFits, Panel!ConstantsFit
  <2> QED
    BY <1>3, <2>1, <2>2 DEF Panel!MoneyFits
<1>5. moved'[i] = 1 /\ \A j \in 1..MaxIntents : j # i => moved'[j] = moved[j]
  BY <1>3, <1>4 DEF Panel!MoneyFits
<1>6. \A d \in CallsOf["panel"] : /\ (Panel!Op(d)' <=> Panel!Op(d))
         /\ (Panel!Open(d)' <=> Panel!Open(d))
                                  /\ call'[d].intent = call[d].intent
                                      /\ call'[d].panel = call[d].panel
                                  /\ call'[d].what = call[d].what
  BY DEF Panel!Op, Panel!Open
<1>7. \A d \in CallsOf["panel"] : d # c /\ Panel!Op(d) => call[d].intent # i
  BY <1>1, <1>4 DEF Panel!OneCall
<1> HIDE DEF i
<1>8. Panel!CallsFit'
  <2> SUFFICES ASSUME NEW d \in CallsOf["panel"]
               PROVE  /\ Panel!Open(d)' => call'[d].panel \in 1..panels'
                      /\ Panel!Op(d)' => /\ call'[d].intent \in 1..intents'
                                         /\ call'[d].step = "ok" <=> moved'[call'[d].intent] > 0
    BY DEF Panel!CallsFit
  <2>1. CASE d = c
    BY <1>1, <1>2, <1>4, <1>5, <1>6, <2>1 DEF Panel!CallsFit, i
  <2>2. CASE d # c
    <3>1. Panel!Op(d) => call[d].intent \in 1..MaxIntents
      BY <1>1, <1>3 DEF Panel!CallsFit, Panel!CountFits, Panel!ConstantsFit
    <3> QED
      BY <1>1, <1>2, <1>5, <1>6, <1>7, <2>2, <3>1 DEF Panel!CallsFit
  <2> QED
    BY <2>1, <2>2
<1>9. Panel!OneCall' /\ Panel!OneLoad'
  BY <1>1, <1>6 DEF Panel!OneCall, Panel!OneLoad
<1>10. Panel!Unmoved' /\ Panel!MovesOnce'
  <2> SUFFICES ASSUME NEW j \in 1..MaxIntents
               PROVE  (j > intents => moved'[j] = 0) /\ moved'[j] <= 1
    BY <1>2 DEF Panel!Unmoved, Panel!MovesOnce
  <2>1. CASE j = i
    BY <1>3, <1>4, <1>5, <2>1 DEF Panel!CountFits, Panel!ConstantsFit
  <2>2. CASE j # i
    BY <1>1, <1>5, <2>2 DEF Panel!Unmoved, Panel!MovesOnce
  <2> QED
    BY <2>1, <2>2
<1>11. Panel!DoneTruthful'
  <2>1. intents > 0 => intents \in 1..MaxIntents
    BY <1>3 DEF Panel!CountFits, Panel!ConstantsFit
  <2> QED
    BY <1>1, <1>2, <1>5, <2>1 DEF Panel!DoneTruthful
<1>12. Panel!Waits'
  BY <1>1, <1>2, <1>6 DEF Panel!Waits
<1>13. Panel!Ready'
  <2> SUFFICES ASSUME panel # 0, action # "none"
               PROVE  /\ intents > 0
                      /\ ~busy => moved'[intents] = 0 /\ \A d \in CallsOf["panel"] : Panel!Op(d)
                          => call[d].intent # intents
    BY <1>2, <1>6 DEF Panel!Ready
  <2>1. intents > 0 /\ intents \in 1..MaxIntents
    BY <1>1, <1>3 DEF Panel!Ready, Panel!CountFits, Panel!ConstantsFit
  <2>2. ~busy => i # intents
    BY <1>1, <1>4 DEF Panel!Ready, i
  <2> QED
    BY <1>1, <1>5, <2>1, <2>2 DEF Panel!Ready
<1> QED
  BY <1>3, <1>8, <1>9, <1>10, <1>11, <1>12, <1>13, PanelPartsType DEF Panel!IInv

\* What an operation asks the gateway for is an amount.
LEMMA PanelAskedFits ==
    ASSUME Panel!CallFits, NEW c \in CallsOf["panel"], NEW r \in Panel!Shown,
           call[c].what \in Panel!Kinds
    PROVE  Panel!Asked(c, r) \in Nat
<1>1. call[c].amount \in Nat /\ r.auth \in Nat
  BY DEF Panel!CallFits, Panel!CallRecord, Panel!Shown
<1>2. Panel!CapturableMinor(r) \in Nat /\ Panel!RefundableMinor(r) \in Nat
  BY PanelBalancesFit
<1>3. CASE call[c].what = "void"
  BY <1>1, <1>3 DEF Panel!Asked
<1>4. CASE call[c].what = "capture"
  BY <1>1, <1>2, <1>4 DEF Panel!Asked
<1>5. CASE call[c].what = "refund"
  BY <1>1, <1>2, <1>5 DEF Panel!Asked
<1> QED
  BY <1>3, <1>4, <1>5 DEF Panel!Kinds

\* No answer is lost, so a call that moved money is answered so.
LEMMA PanelServeKeeps ==
    ASSUME Panel!ConstantsFit, Unheard = FALSE, Panel!IInv, NEW c \in CallsOf["panel"],
           Panel!Serve(c)
    PROVE  Panel!IInv'
<1>1. Panel!MoneyFits /\ Panel!CountFits /\ Panel!ShownFits /\ Panel!CallFits
  BY PanelTypeParts DEF Panel!IInv
<1>2. Panel!RowOf(order) \in Panel!Shown
  BY <1>1, PanelRowFits DEF Panel!MoneyFits
<1>3. CASE Panel!ServeLoad(c)
  <2>1. PICK r \in Panel!Shown : row' = r
    BY <1>1, <1>2, <1>3 DEF Panel!MoneyFits, Panel!ServeLoad
  <2>2. /\ row' = r /\ Panel!Reply(c, "ok", r) /\ call[c].step = "sent" /\ call[c].what = "load"
        /\ UNCHANGED <<order, moved, Panel!shown, Panel!count>>
    BY <1>3, <2>1 DEF Panel!ServeLoad
  <2>3. Panel!MoneyFits'
    BY <1>1, <2>2 DEF Panel!MoneyFits
  <2> QED
    BY <1>1, <2>2, <2>3, PanelReplyFits, PanelAnswerKeeps DEF Panel!Kinds
<1>4. CASE Panel!Perform(c)
  <2> DEFINE amt == Panel!Asked(c, Panel!RowOf(order))
             accepted == order # Panel!NoOrder
             /\ amt \in Panel!OperationAmounts(call[c].what, Panel!RowOf(order))
  <2>1. call[c].step = "sent" /\ call[c].what \in Panel!Kinds /\ UNCHANGED <<Panel!shown,
           Panel!count>>
    BY <1>4 DEF Panel!Perform
  <2>2. amt \in Nat
    BY <1>1, <1>2, <2>1, PanelAskedFits
  <2>3. CASE accepted
    <3>1. PICK o \in Panel!Order : o = Panel!After(order, call[c].what, amt)
      BY <1>1, <2>1, <2>2, PanelAfterFits DEF Panel!MoneyFits
    <3>2. /\ order' = o /\ moved' = [moved EXCEPT ![call[c].intent] = @ + 1]
          /\ row' = Panel!RowOf(o) /\ Panel!Reply(c, "ok", Panel!RowOf(o))
      BY <1>4, <2>3, <3>1 DEF Panel!Perform
    <3>3. Panel!RowOf(o) \in Panel!Shown
      BY PanelRowFits
    <3>4. Panel!MoneyFits'
      <4>1. call[c].intent \in 1..MaxIntents
        BY <1>1, <2>1 DEF Panel!IInv, Panel!CallsFit, Panel!Op, Panel!Open, Panel!CountFits,
             Panel!ConstantsFit
      <4>2. moved[call[c].intent] + 1 \in Nat
        BY <1>1, <4>1 DEF Panel!MoneyFits
      <4>3. moved' \in [1..MaxIntents -> Nat]
        BY <1>1, <3>2, <4>1, <4>2 DEF Panel!MoneyFits
      <4> QED
        BY <3>2, <3>3, <4>3 DEF Panel!MoneyFits
    <3> QED
      BY <1>1, <2>1, <3>2, <3>3, <3>4, PanelReplyFits, PanelMoveKeeps
  <2>4. CASE ~accepted
    <3>1. /\ row' = Panel!RowOf(order) /\ Panel!Reply(c, "refused", Panel!Unread)
              /\ UNCHANGED <<order, moved>>
      BY <1>4, <2>4 DEF Panel!Perform
    <3>2. Panel!MoneyFits'
      BY <1>1, <1>2, <3>1 DEF Panel!MoneyFits
    <3> QED
      BY <1>1, <2>1, <3>1, <3>2, PanelUnreadFits, PanelReplyFits, PanelAnswerKeeps
  <2> QED
    BY <2>3, <2>4
<1>5. CASE Panel!Refuse(c)
  <2>1. call[c].step = "sent" /\ Panel!Reply(c, "refused", Panel!Unread)
           /\ UNCHANGED <<Panel!money, Panel!shown, Panel!count>>
    BY <1>5 DEF Panel!Refuse
  <2>2. Panel!MoneyFits' /\ UNCHANGED moved
    BY <1>1, <2>1 DEF Panel!MoneyFits, Panel!money
  <2> QED
    BY <1>1, <2>1, <2>2, PanelUnreadFits, PanelReplyFits, PanelAnswerKeeps
<1> QED
  BY <1>3, <1>4, <1>5 DEF Panel!Serve

-----------------------------------------------------------------------------
\* The panel takes an answer, or nobody does.
LEMMA PanelTakenKeeps ==
    ASSUME Panel!IInv, UNCHANGED <<Panel!money, Panel!count>>, Panel!ShownFits', Panel!CallFits',
           NEW c \in CallsOf["panel"], call'[c].step = "free", \A d \in CallsOf["panel"] : d # c
           => call'[d] = call[d],
           Panel!Waits', Panel!Ready', Panel!DoneTruthful'
    PROVE  Panel!IInv'
<1>1. Panel!TypeOK /\ Panel!CallsFit /\ Panel!OneCall /\ Panel!OneLoad /\ Panel!Unmoved
         /\ Panel!MovesOnce
  BY DEF Panel!IInv
<1>2. UNCHANGED <<order, row, moved, panel, panels, intents, elsewhere>>
  BY DEF Panel!money, Panel!count
<1>3. Panel!MoneyFits' /\ Panel!CountFits'
  BY <1>1, <1>2, PanelTypeParts DEF Panel!MoneyFits, Panel!CountFits
<1>4. \A d \in CallsOf["panel"] : /\ Panel!Op(d)' => Panel!Op(d) /\ call'[d] = call[d]
                                  /\ Panel!Open(d)' => Panel!Open(d) /\ call'[d] = call[d]
  BY DEF Panel!Op, Panel!Open
<1>5. Panel!CallsFit' /\ Panel!OneCall' /\ Panel!OneLoad' /\ Panel!Unmoved' /\ Panel!MovesOnce'
  BY <1>1, <1>2, <1>4 DEF Panel!CallsFit, Panel!OneCall, Panel!OneLoad, Panel!Unmoved,
       Panel!MovesOnce
<1> QED
  BY <1>3, <1>5, PanelPartsType DEF Panel!IInv

\* The panel takes its own answers only.
LEMMA PanelTakeKeeps ==
    ASSUME Panel!ConstantsFit, Panel!IInv, NEW c \in CallsOf["panel"], Panel!Take(c)
    PROVE  Panel!IInv'
<1>1. /\ Panel!MoneyFits /\ Panel!CountFits /\ Panel!ShownFits /\ Panel!CallFits
      /\ Panel!CallsFit /\ Panel!OneCall /\ Panel!OneLoad /\ Panel!Waits /\ Panel!Ready
          /\ Panel!DoneTruthful
  BY PanelTypeParts DEF Panel!IInv
<1>2. /\ Panel!Finish(c) /\ Panel!Open(c) /\ UNCHANGED <<Panel!money, Panel!count>>
      /\ UNCHANGED <<panel, panels, intents, moved>>
  BY DEF Panel!Take, Panel!Late, Panel!TakeLoad, Panel!TakeDone, Panel!TakeRefusal, Panel!Open,
       Panel!money, Panel!count
<1>3. /\ Panel!CallFits' /\ call'[c].step = "free"
      /\ \A d \in CallsOf["panel"] : d # c => call'[d] = call[d]
  BY <1>1, <1>2, PanelFinishFits
<1>4. \A d \in CallsOf["panel"] : /\ Panel!Op(d)' => d # c /\ Panel!Op(d) /\ call'[d] = call[d]
                                  /\ Panel!Open(d)' => d # c /\ Panel!Open(d) /\ call'[d] = call[d]
  BY <1>3 DEF Panel!Op, Panel!Open
<1>5. call[c].panel \in Nat /\ call[c].panel # 0 /\ call[c].row \in Panel!Shown
      /\ call[c].what \in Panel!Kinds \cup {"load"}
  BY <1>1, <1>2 DEF Panel!CallsFit, Panel!CallFits, Panel!CallRecord, Panel!CountFits
<1>6. CASE Panel!Late(c)
  <2>1. UNCHANGED <<detail, loading, busy, error, action, amount, done>>
    BY <1>6 DEF Panel!Late, Panel!shown
  <2>2. Panel!ShownFits'
    BY <1>1, <2>1 DEF Panel!ShownFits
  <2>3. Panel!Waits' /\ Panel!Ready' /\ Panel!DoneTruthful'
    BY <1>1, <1>2, <1>4, <2>1 DEF Panel!Waits, Panel!Ready, Panel!DoneTruthful
  <2> QED
    BY <1>2, <1>3, <2>2, <2>3, PanelTakenKeeps
<1>7. CASE Panel!TakeLoad(c)
  <2>1. /\ call[c].panel = panel /\ call[c].what = "load"
        /\ detail' = IF call[c].step = "ok" THEN call[c].row ELSE detail
        /\ error' = (call[c].step = "refused") /\ loading' = FALSE
        /\ UNCHANGED <<busy, action, amount, done>>
    BY <1>7 DEF Panel!TakeLoad
  <2>2. Panel!ShownFits'
    BY <1>1, <1>5, <2>1 DEF Panel!ShownFits
  <2>3. loading /\ action = "none" /\ ~busy
    BY <1>1, <1>2, <1>5, <2>1 DEF Panel!Waits
  <2>4. \A d \in CallsOf["panel"] : Panel!Open(d)' => call'[d].panel # panel
           \/ call'[d].what = "load"
    BY <1>1, <1>4, <1>5, <2>1, <2>3 DEF Panel!Waits
  <2>5. \A d \in CallsOf["panel"] : Panel!Open(d)' => call'[d].panel # panel
    BY <1>1, <1>2, <1>4, <2>1, <2>4 DEF Panel!OneLoad
  <2>6. Panel!Waits'
    BY <1>1, <1>2, <2>1, <2>3, <2>5 DEF Panel!Waits
  <2>7. Panel!Ready' /\ Panel!DoneTruthful'
    BY <1>1, <1>2, <2>1, <2>3 DEF Panel!Ready, Panel!DoneTruthful
  <2> QED
    BY <1>2, <1>3, <2>2, <2>6, <2>7, PanelTakenKeeps
<1>8. CASE Panel!TakeDone(c)
  <2>1. /\ call[c].panel = panel /\ call[c].what \in Panel!Kinds /\ call[c].step = "ok"
        /\ detail' = call[c].row /\ action' = "none" /\ done' = call[c].what /\ busy' = FALSE
        /\ UNCHANGED <<loading, error, amount>>
    BY <1>8 DEF Panel!TakeDone
  <2>2. Panel!ShownFits'
    BY <1>1, <1>5, <2>1 DEF Panel!ShownFits
  <2>3. busy /\ action # "none" /\ call[c].intent = intents /\ ~loading /\ Panel!Op(c)
    BY <1>1, <1>2, <1>5, <2>1 DEF Panel!Waits, Panel!Kinds, Panel!Op
  <2>4. \A d \in CallsOf["panel"] : Panel!Open(d)' => call'[d].panel # panel
    <3>1. ASSUME NEW d \in CallsOf["panel"], Panel!Open(d), d # c, call[d].panel = panel PROVE FALSE
      <4>1. call[d].what # "load" /\ call[d].intent = intents
        BY <1>1, <1>5, <2>1, <2>3, <3>1 DEF Panel!Waits
      <4>2. Panel!Op(d)
        BY <1>1, <3>1, <4>1 DEF Panel!Op, Panel!CallFits, Panel!CallRecord
      <4> QED
        BY <1>1, <2>3, <3>1, <4>1, <4>2 DEF Panel!OneCall
    <3> QED
      BY <1>4, <3>1
  <2>5. Panel!Waits' /\ Panel!Ready'
    BY <1>1, <1>2, <2>1, <2>3, <2>4 DEF Panel!Waits, Panel!Ready
  <2>6. Panel!DoneTruthful'
    BY <1>1, <1>2, <2>1, <2>3 DEF Panel!DoneTruthful, Panel!CallsFit, Panel!Ready
  <2> QED
    BY <1>2, <1>3, <2>2, <2>5, <2>6, PanelTakenKeeps
<1>9. CASE Panel!TakeRefusal(c)
  <2>1. /\ call[c].panel = panel /\ call[c].what \in Panel!Kinds /\ call[c].step = "refused"
        /\ error' = TRUE /\ busy' = FALSE
        /\ UNCHANGED <<detail, loading, action, amount, done>>
    BY <1>9 DEF Panel!TakeRefusal
  <2>2. Panel!ShownFits'
    BY <1>1, <2>1 DEF Panel!ShownFits
  <2>3. busy /\ action # "none" /\ call[c].intent = intents /\ ~loading /\ Panel!Op(c)
    BY <1>1, <1>2, <1>5, <2>1 DEF Panel!Waits, Panel!Kinds, Panel!Op
  <2>4. \A d \in CallsOf["panel"] : Panel!Op(d) /\ d # c => call[d].intent # intents
    BY <1>1, <2>3 DEF Panel!OneCall
  <2>5. \A d \in CallsOf["panel"] : Panel!Open(d)' => call'[d].panel # panel
    <3>1. ASSUME NEW d \in CallsOf["panel"], Panel!Open(d), d # c, call[d].panel = panel PROVE FALSE
      <4>1. call[d].what # "load" /\ call[d].intent = intents
        BY <1>1, <1>5, <2>1, <2>3, <3>1 DEF Panel!Waits
      <4>2. Panel!Op(d)
        BY <1>1, <3>1, <4>1 DEF Panel!Op, Panel!CallFits, Panel!CallRecord
      <4> QED
        BY <2>4, <3>1, <4>1, <4>2
    <3> QED
      BY <1>4, <3>1
  <2>6. Panel!Waits'
    BY <1>1, <1>2, <2>1, <2>3, <2>5 DEF Panel!Waits
  <2>7. Panel!Ready'
    <3>1. intents \in 1..MaxIntents /\ ~(moved[intents] > 0)
      BY <1>1, <2>1, <2>3 DEF Panel!CallsFit, Panel!CountFits
    <3>2. moved[intents] = 0
      BY <1>1, <3>1 DEF Panel!MoneyFits
    <3> QED
      BY <1>1, <1>2, <1>4, <2>1, <2>4, <3>2 DEF Panel!Ready
  <2>8. Panel!DoneTruthful'
    BY <1>1, <1>2, <2>1 DEF Panel!DoneTruthful
  <2> QED
    BY <1>2, <1>3, <2>2, <2>6, <2>7, <2>8, PanelTakenKeeps
<1> QED
  BY <1>6, <1>7, <1>8, <1>9 DEF Panel!Take

-----------------------------------------------------------------------------
\* The invariant holds at the start,
LEMMA PanelInitIInv ==
    ASSUME Panel!ConstantsFit, Panel!Init
    PROVE  Panel!IInv
<1>1. order \in Panel!Order
  <2>1. Total \in Nat
    BY DEF Panel!ConstantsFit
  <2> QED
    BY <2>1 DEF Panel!Init, Panel!NoOrder, Panel!Closed, Panel!Paid, Panel!Order, Panel!OrderStatus
<1>2. Panel!TypeOK
  <2>1. row \in Panel!Shown
    BY <1>1, PanelRowFits DEF Panel!Init
  <2>2. call \in [CallsOf["panel"] -> Panel!CallRecord]
    BY PanelUnreadFits DEF Panel!Init
  <2>3. Panel!MoneyFits /\ Panel!CallFits
    BY <1>1, <2>1, <2>2 DEF Panel!Init, Panel!MoneyFits, Panel!CallFits
  <2>4. Panel!CountFits
    BY DEF Panel!Init, Panel!CountFits, Panel!ConstantsFit
  <2>5. Panel!ShownFits
    BY PanelUnreadFits DEF Panel!Init, Panel!ShownFits
  <2> QED
    BY <2>3, <2>4, <2>5 DEF Panel!TypeOK, Panel!MoneyFits, Panel!CallFits, Panel!CountFits,
         Panel!ShownFits, Panel!CallRecord
<1>3. \A c \in CallsOf["panel"] : ~Panel!Open(c) /\ ~Panel!Op(c)
  BY PanelUnreadFits DEF Panel!Init, Panel!Open, Panel!Op
<1>4. Panel!CallsFit /\ Panel!OneCall /\ Panel!OneLoad
  BY <1>3 DEF Panel!CallsFit, Panel!OneCall, Panel!OneLoad
<1>5. Panel!Unmoved /\ Panel!MovesOnce /\ Panel!Waits /\ Panel!Ready /\ Panel!DoneTruthful
  BY DEF Panel!Init, Panel!Unmoved, Panel!MovesOnce, Panel!Waits, Panel!Ready, Panel!DoneTruthful
<1> QED
  BY <1>2, <1>4, <1>5 DEF Panel!IInv

\* and every step keeps it while no answer is lost.
LEMMA PanelNextIInv ==
    ASSUME Panel!ConstantsFit, Unheard = FALSE, Panel!IInv, [Panel!Next]_(Panel!vars)
    PROVE  Panel!IInv'
<1>1. CASE \E c \in CallsOf["panel"] : Panel!OpenPanel(c) \/ Panel!Confirm(c) \/ Panel!Serve(c)
         \/ Panel!Take(c)
  BY <1>1, PanelOpenPanelKeeps, PanelConfirmKeeps, PanelServeKeeps, PanelTakeKeeps
<1>2. CASE \/ Panel!ClosePanel \/ Panel!Back
           \/ \E a \in 0..(Total + 1) : Panel!TypeAmount(a)
           \/ \E kind \in Panel!Kinds, amt \in 1..Total : Panel!Elsewhere(kind, amt)
  BY <1>2, PanelAsidesKeep
<1>3. CASE \E kind \in Panel!Kinds : Panel!BeginAction(kind)
  BY <1>3, PanelBeginActionKeeps
<1>4. CASE UNCHANGED Panel!vars
  BY <1>4, PanelAsideKeeps, PanelTypeParts
     DEF Panel!vars, Panel!money, Panel!shown, Panel!count, Panel!IInv, Panel!MoneyFits,
     Panel!CountFits, Panel!ShownFits
<1> QED
  BY <1>1, <1>2, <1>3, <1>4 DEF Panel!Next

-----------------------------------------------------------------------------
\* The variables keep their types even where answers are lost and an action's second
\* attempt moves money again.
LEMMA PanelMoveTypes ==
    ASSUME Panel!MoneyFits, NEW i, NEW o \in Panel!Order, NEW r \in Panel!Shown,
           order' = o, row' = r, moved' = [moved EXCEPT ![i] = @ + 1]
    PROVE  Panel!MoneyFits'
<1>1. \A j \in 1..MaxIntents : moved'[j] \in Nat
  BY DEF Panel!MoneyFits
<1>2. moved' = [j \in 1..MaxIntents |-> moved'[j]]
  BY DEF Panel!MoneyFits
<1> QED
  BY <1>1, <1>2 DEF Panel!MoneyFits

\* The types need no such promise: they survive the server's steps, lost answers included,
LEMMA PanelServeTypes ==
    ASSUME Panel!MoneyFits, Panel!CountFits, Panel!ShownFits, Panel!CallFits,
           NEW c \in CallsOf["panel"], Panel!Serve(c)
    PROVE  Panel!MoneyFits' /\ Panel!CountFits' /\ Panel!ShownFits' /\ Panel!CallFits'
<1>1. Panel!CountFits' /\ Panel!ShownFits'
  <2>1. UNCHANGED <<Panel!shown, Panel!count>>
    BY DEF Panel!Serve, Panel!ServeLoad, Panel!Perform, Panel!Refuse
  <2> QED
    BY <2>1 DEF Panel!shown, Panel!count, Panel!CountFits, Panel!ShownFits
<1>2. Panel!RowOf(order) \in Panel!Shown /\ row \in Panel!Shown
  BY PanelRowFits DEF Panel!MoneyFits
<1>3. CASE Panel!ServeLoad(c)
  <2>1. PICK r \in Panel!Shown : row' = r
    BY <1>2, <1>3 DEF Panel!ServeLoad
  <2>2. row' = r /\ Panel!Reply(c, "ok", r) /\ UNCHANGED <<order, moved>>
    BY <1>3, <2>1 DEF Panel!ServeLoad
  <2> QED
    BY <1>1, <2>2, PanelReplyFits DEF Panel!MoneyFits
<1>4. CASE Panel!Perform(c)
  <2> DEFINE amt == Panel!Asked(c, Panel!RowOf(order))
             accepted == order # Panel!NoOrder
             /\ amt \in Panel!OperationAmounts(call[c].what, Panel!RowOf(order))
  <2>1. call[c].what \in Panel!Kinds
    BY <1>4 DEF Panel!Perform
  <2>2. amt \in Nat
    BY <1>2, <2>1, PanelAskedFits
  <2>3. CASE accepted
    <3>1. PICK o \in Panel!Order : o = Panel!After(order, call[c].what, amt)
      BY <2>1, <2>2, PanelAfterFits DEF Panel!MoneyFits
    <3>2. /\ order' = o /\ moved' = [moved EXCEPT ![call[c].intent] = @ + 1]
          /\ row' = Panel!RowOf(o) /\ Panel!Reply(c, "ok", Panel!RowOf(o))
      BY <1>4, <2>3, <3>1 DEF Panel!Perform
    <3>3. PICK r \in Panel!Shown : r = Panel!RowOf(o)
      BY PanelRowFits
    <3> QED
      BY <1>1, <3>2, <3>3, PanelMoveTypes, PanelReplyFits
  <2>4. CASE ~accepted
    <3>1. row' = Panel!RowOf(order) /\ Panel!Reply(c, "refused", Panel!Unread)
             /\ UNCHANGED <<order, moved>>
      BY <1>4, <2>4 DEF Panel!Perform
    <3> QED
      BY <1>1, <1>2, <3>1, PanelUnreadFits, PanelReplyFits DEF Panel!MoneyFits
  <2> QED
    BY <2>3, <2>4
<1>5. CASE Panel!Refuse(c)
  <2>1. Panel!Reply(c, "refused", Panel!Unread) /\ UNCHANGED Panel!money
    BY <1>5 DEF Panel!Refuse
  <2> QED
    BY <1>1, <2>1, PanelUnreadFits, PanelReplyFits DEF Panel!money, Panel!MoneyFits
<1> QED
  BY <1>3, <1>4, <1>5 DEF Panel!Serve

\* the panel's,
LEMMA PanelTakeTypes ==
    ASSUME Panel!MoneyFits, Panel!CountFits, Panel!ShownFits, Panel!CallFits,
           NEW c \in CallsOf["panel"], Panel!Take(c)
    PROVE  Panel!MoneyFits' /\ Panel!CountFits' /\ Panel!ShownFits' /\ Panel!CallFits'
<1>1. UNCHANGED <<Panel!money, Panel!count>> /\ Panel!Finish(c)
  BY DEF Panel!Take, Panel!Late, Panel!TakeLoad, Panel!TakeDone, Panel!TakeRefusal
<1>2. Panel!MoneyFits' /\ Panel!CountFits' /\ Panel!CallFits'
  BY <1>1, PanelFinishFits DEF Panel!money, Panel!count, Panel!MoneyFits, Panel!CountFits
<1>3. call[c].row \in Panel!Shown
  BY DEF Panel!CallFits, Panel!CallRecord
<1>4. Panel!ShownFits'
  <2>1. CASE Panel!Late(c)
    BY <2>1 DEF Panel!Late, Panel!shown, Panel!ShownFits
  <2>2. CASE Panel!TakeLoad(c)
    BY <1>3, <2>2 DEF Panel!TakeLoad, Panel!ShownFits
  <2>3. CASE Panel!TakeDone(c)
    BY <1>3, <2>3 DEF Panel!TakeDone, Panel!ShownFits
  <2>4. CASE Panel!TakeRefusal(c)
    BY <2>4 DEF Panel!TakeRefusal, Panel!ShownFits
  <2> QED
    BY <2>1, <2>2, <2>3, <2>4 DEF Panel!Take
<1> QED
  BY <1>2, <1>4

\* the operator's,
LEMMA PanelOperatorTypes ==
    ASSUME Panel!ConstantsFit, Panel!MoneyFits, Panel!CountFits, Panel!ShownFits, Panel!CallFits,
           \/ \E c \in CallsOf["panel"] : Panel!OpenPanel(c) \/ Panel!Confirm(c)
           \/ Panel!ClosePanel \/ Panel!Back
           \/ \E kind \in Panel!Kinds : Panel!BeginAction(kind)
           \/ \E kind \in Panel!Kinds, amt \in 1..Total : Panel!Elsewhere(kind, amt)
           \/ \E a \in 0..(Total + 1) : Panel!TypeAmount(a)
    PROVE  Panel!MoneyFits' /\ Panel!CountFits' /\ Panel!ShownFits' /\ Panel!CallFits'
<1>1. panel \in Nat /\ panels \in Nat /\ intents \in Nat /\ elsewhere \in Nat
  BY DEF Panel!CountFits
<1>2. ASSUME NEW c \in CallsOf["panel"], Panel!OpenPanel(c)
      PROVE  Panel!MoneyFits' /\ Panel!CountFits' /\ Panel!ShownFits' /\ Panel!CallFits'
  <2>1. Panel!MoneyFits' /\ Panel!CountFits'
    BY <1>1, <1>2 DEF Panel!OpenPanel, Panel!money, Panel!MoneyFits, Panel!CountFits,
         Panel!ConstantsFit
  <2>2. Panel!ShownFits'
    BY <1>2, PanelUnreadFits DEF Panel!OpenPanel, Panel!ShownFits
  <2>3. Panel!CallFits'
    <3>1. panel' \in Nat /\ Panel!Send(c, "load", 0)
      BY <1>1, <1>2 DEF Panel!OpenPanel
    <3> QED
      BY <1>1, <3>1, PanelSendFits
  <2> QED
    BY <2>1, <2>2, <2>3
<1>3. ASSUME NEW c \in CallsOf["panel"], Panel!Confirm(c)
      PROVE  Panel!MoneyFits' /\ Panel!CountFits' /\ Panel!ShownFits' /\ Panel!CallFits'
  <2>1. Panel!MoneyFits' /\ Panel!CountFits' /\ Panel!ShownFits' /\ panel' \in Nat
    BY <1>1, <1>3 DEF Panel!Confirm, Panel!money, Panel!MoneyFits, Panel!CountFits, Panel!ShownFits
  <2>2. action \in Panel!Kinds /\ amount \in Nat
    BY <1>3 DEF Panel!Confirm, Panel!ShownFits
  <2>3. Panel!CallFits'
    BY <1>1, <1>3, <2>1, <2>2, PanelSendFits DEF Panel!Confirm
  <2> QED
    BY <2>1, <2>3
<1>4. CASE Panel!ClosePanel \/ Panel!Back
  <2>1. CASE Panel!ClosePanel
    BY <1>1, <2>1
       DEF Panel!ClosePanel, Panel!money, Panel!shown, Panel!MoneyFits, Panel!CountFits,
       Panel!ShownFits, Panel!CallFits, Panel!ConstantsFit
  <2>2. CASE Panel!Back
    BY <2>2 DEF Panel!Back, Panel!money, Panel!count, Panel!MoneyFits, Panel!CountFits,
         Panel!ShownFits, Panel!CallFits
  <2> QED
    BY <1>4, <2>1, <2>2
<1>5. ASSUME NEW kind \in Panel!Kinds, Panel!BeginAction(kind)
      PROVE  Panel!MoneyFits' /\ Panel!CountFits' /\ Panel!ShownFits' /\ Panel!CallFits'
  <2>1. amount' \in Nat
    BY <1>5, PanelBalancesFit DEF Panel!BeginAction, Panel!ShownFits
  <2>2. intents' \in 0..MaxIntents
    BY <1>1, <1>5 DEF Panel!BeginAction, Panel!ConstantsFit
  <2> QED
    BY <1>5, <2>1, <2>2 DEF Panel!BeginAction, Panel!money, Panel!MoneyFits, Panel!CountFits,
         Panel!ShownFits, Panel!CallFits
<1>6. ASSUME NEW kind \in Panel!Kinds, NEW amt \in 1..Total, Panel!Elsewhere(kind, amt)
      PROVE  Panel!MoneyFits' /\ Panel!CountFits' /\ Panel!ShownFits' /\ Panel!CallFits'
  <2>1. order' \in Panel!Order
    BY <1>6, PanelAfterFits DEF Panel!Elsewhere, Panel!MoneyFits
  <2> QED
    BY <1>1, <1>6, <2>1
       DEF Panel!Elsewhere, Panel!shown, Panel!MoneyFits, Panel!CountFits, Panel!ShownFits,
       Panel!CallFits, Panel!ConstantsFit
<1>7. ASSUME NEW a \in 0..(Total + 1), Panel!TypeAmount(a)
      PROVE  Panel!MoneyFits' /\ Panel!CountFits' /\ Panel!ShownFits' /\ Panel!CallFits'
  BY <1>7 DEF Panel!TypeAmount, Panel!money, Panel!count, Panel!MoneyFits, Panel!CountFits,
       Panel!ShownFits, Panel!CallFits, Panel!ConstantsFit
<1> QED
  BY <1>2, <1>3, <1>4, <1>5, <1>6, <1>7

\* and so every step.
LEMMA PanelNextTypes ==
    ASSUME Panel!ConstantsFit, Panel!TypeOK, [Panel!Next]_(Panel!vars)
    PROVE  Panel!TypeOK'
<1>1. Panel!MoneyFits /\ Panel!CountFits /\ Panel!ShownFits /\ Panel!CallFits
  BY PanelTypeParts
<1>2. CASE \E c \in CallsOf["panel"] : Panel!Serve(c) \/ Panel!Take(c)
  BY <1>1, <1>2, PanelServeTypes, PanelTakeTypes, PanelPartsType
<1>3. CASE \/ \E c \in CallsOf["panel"] : Panel!OpenPanel(c) \/ Panel!Confirm(c)
           \/ Panel!ClosePanel \/ Panel!Back
           \/ \E kind \in Panel!Kinds : Panel!BeginAction(kind)
           \/ \E kind \in Panel!Kinds, amt \in 1..Total : Panel!Elsewhere(kind, amt)
           \/ \E a \in 0..(Total + 1) : Panel!TypeAmount(a)
  BY <1>1, <1>3, PanelOperatorTypes, PanelPartsType
<1>4. CASE UNCHANGED Panel!vars
  BY <1>4 DEF Panel!vars, Panel!money, Panel!shown, Panel!count, Panel!TypeOK, Panel!MoneyFits,
       Panel!CountFits, Panel!ShownFits, Panel!CallFits
<1> QED
  BY <1>2, <1>3, <1>4 DEF Panel!Next

-----------------------------------------------------------------------------
(* The gateways' screen (GatewayScreen) *)

\* The invariant, as what the server holds, what the screen makes of it, and their calls,
LEMMA ConnectParts ==
    ASSUME NEW who
    PROVE  Connect(who)!IInv <=> /\ Connect(who)!ServerFits /\ Connect(who)!ScreenFits
           /\ call \in [CallsOf[who] -> Connect(who)!CallRecord]
                                 /\ Connect(who)!GateHonest /\ Connect(who)!SavedHeld
                                     /\ Connect(who)!BusyHonest
BY DEF Connect!IInv, Connect!TypeOK, Connect!ServerFits, Connect!ScreenFits, Connect!CallRecord

\* and after a step.
LEMMA ConnectPartsNext ==
    ASSUME NEW who,
           Connect(who)!ServerFits', Connect(who)!ScreenFits',
           call' \in [CallsOf[who] -> Connect(who)!CallRecord],
           Connect(who)!GateHonest', Connect(who)!SavedHeld', Connect(who)!BusyHonest'
    PROVE  Connect(who)!IInv'
BY DEF Connect!IInv, Connect!TypeOK, Connect!ServerFits, Connect!ScreenFits, Connect!CallRecord

\* The records of calls that are free or just sent.
LEMMA ConnectRecordsFit ==
    ASSUME NEW who,
           Connect(who)!ConstantsFit
    PROVE  /\ Connect(who)!Free \in Connect(who)!CallRecord /\ Connect(who)!Free.step = "free"
               /\ Connect(who)!Free.kind = "load"
           /\ Connect(who)!Nothing \in Connect(who)!Views
           /\ [Connect(who)!Free EXCEPT !.step = "sent"] \in Connect(who)!CallRecord
           /\ [Connect(who)!Free EXCEPT !.step = "sent"].step = "sent"
               /\ [Connect(who)!Free EXCEPT !.step = "sent"].kind = "load"
<1>1. Connect(who)!Nothing \in Connect(who)!Views
  BY DEF Connect!Nothing, Connect!Views, Connect!Envs, Connect!EnvOrNone
<1>2. Connect(who)!Free \in Connect(who)!CallRecord /\ Connect(who)!Free.step = "free"
         /\ Connect(who)!Free.kind = "load"
  BY <1>1 DEF Connect!Free, Connect!CallRecord, Connect!Envs, Connect!EnvOrNone
<1>3. "sent" \in {"free", "sent", "ok", "refused"}
  OBVIOUS
<1> QED
  BY <1>1, <1>2, <1>3 DEF Connect!CallRecord

\* What a load is answered with is a view, and one works in an environment.
LEMMA ConnectViewFits ==
    ASSUME NEW who,
           Connect(who)!ServerFits
    PROVE  Connect(who)!View \in Connect(who)!Views /\ Connect(who)!Working \in Connect(who)!Envs
BY DEF Connect!ServerFits, Connect!View, Connect!Views, Connect!Held, Connect!Working,
     Connect!EnvOrNone, Connect!Envs

-----------------------------------------------------------------------------
\* The server's side: an accepted save, a switch.
LEMMA ConnectSaveFits ==
    ASSUME NEW who,
           Connect(who)!ConstantsFit, Connect(who)!ServerFits,
           call \in [CallsOf[who] -> Connect(who)!CallRecord], NEW c \in CallsOf[who],
           Connect(who)!Save(c)
    PROVE  /\ Connect(who)!ServerFits' /\ Connect(who)!Held \subseteq Connect(who)!Held'
           /\ call'[c].step = "ok" => Connect(who)!Held' # {}
<1> DEFINE e == call[c].env
           h == Connect(who)!ResolveHost(e, call[c].host)
           p == IF call[c].password # None THEN call[c].password
                ELSE IF held[e] # None THEN held[e].password ELSE None
<1>1. e \in Connect(who)!Envs /\ (h = e \/ h = None)
  BY DEF Connect!CallRecord, Connect!ResolveHost
<1>2. CASE h # None /\ p = h
  <2> DEFINE new == [host |-> e, password |-> e]
  <2>1. new \in [host : Connect(who)!Envs, password : Connect(who)!Envs] /\ new # None
    BY <1>1 DEF Connect!ConstantsFit
  <2>2. held' = [held EXCEPT ![e] = new] /\ active' = e
    BY <1>1, <1>2 DEF Connect!Save
  <2> HIDE DEF e, h, p, new
  <2>3. held' \in [Connect(who)!Envs -> Connect(who)!Connection] /\ held'[e] = new
        /\ \A f \in Connect(who)!Envs : f # e => held'[f] = held[f]
    BY <1>1, <2>1, <2>2 DEF Connect!ServerFits, Connect!Connection
  <2>4. e \in Connect(who)!Held' /\ Connect(who)!Held \subseteq Connect(who)!Held'
    BY <1>1, <2>1, <2>3 DEF Connect!Held
  <2>5. Connect(who)!HeldUnderItsName'
    <3> SUFFICES ASSUME NEW f \in Connect(who)!Envs, held'[f] # None
                 PROVE  held'[f] = [host |-> f, password |-> f]
      BY DEF Connect!HeldUnderItsName, Connect!Held
    <3>1. CASE f = e
      BY <2>3, <3>1 DEF new
    <3>2. CASE f # e
      BY <2>3, <3>2 DEF Connect!ServerFits, Connect!HeldUnderItsName, Connect!Held
    <3> QED
      BY <3>1, <3>2
  <2> QED
    BY <1>1, <2>2, <2>3, <2>4, <2>5 DEF Connect!ServerFits, Connect!ActiveHeld, Connect!EnvOrNone
<1>3. CASE ~(h # None /\ p = h)
  <2>1. UNCHANGED <<held, active>> /\ Connect(who)!Refuse(c)
    BY <1>3 DEF Connect!Save, Connect!server
  <2>2. call'[c].step = "refused"
    BY <2>1 DEF Connect!Refuse, Connect!CallRecord
  <2> QED
    BY <2>1, <2>2 DEF Connect!ServerFits, Connect!HeldUnderItsName, Connect!ActiveHeld, Connect!Held
<1> QED
  BY <1>2, <1>3

\* A switch changes the one worked in only.
LEMMA ConnectSwitchFits ==
    ASSUME NEW who,
           Connect(who)!ServerFits, call \in [CallsOf[who] -> Connect(who)!CallRecord],
           NEW c \in CallsOf[who], Connect(who)!Switch(c)
    PROVE  Connect(who)!ServerFits' /\ Connect(who)!Held' = Connect(who)!Held
<1>1. held' = held
  BY DEF Connect!Switch, Connect!server
<1>2. Connect(who)!Held' = Connect(who)!Held
  BY <1>1 DEF Connect!Held
<1>3. active' = active \/ (active' = call[c].env /\ held[call[c].env] # None)
  BY DEF Connect!Switch, Connect!server
<1>4. call[c].env \in Connect(who)!Envs
  BY DEF Connect!CallRecord
<1> QED
  BY <1>1, <1>2, <1>3, <1>4 DEF Connect!ServerFits, Connect!HeldUnderItsName, Connect!ActiveHeld,
       Connect!Held, Connect!EnvOrNone

\* A step of the screen leaves the server as it was.
LEMMA ConnectServerStays ==
    ASSUME NEW who,
           Connect(who)!ServerFits, UNCHANGED Connect(who)!server
    PROVE  Connect(who)!ServerFits' /\ Connect(who)!Held' = Connect(who)!Held
           /\ Connect(who)!Working' = Connect(who)!Working
BY DEF Connect!server, Connect!ServerFits, Connect!HeldUnderItsName, Connect!ActiveHeld,
     Connect!Held, Connect!Working

\* Answers, and calls that are taken off.
LEMMA ConnectReplyFits ==
    ASSUME NEW who,
           call \in [CallsOf[who] -> Connect(who)!CallRecord], NEW c \in CallsOf[who],
           Connect(who)!View' \in Connect(who)!Views, Connect(who)!Reply(c)
    PROVE  /\ call' \in [CallsOf[who] -> Connect(who)!CallRecord]
           /\ call'[c].kind = call[c].kind /\ call'[c].step = "ok"
           /\ \A d \in CallsOf[who] : d # c => call'[d] = call[d]
<1>1. call' = [call EXCEPT ![c] = [call[c] EXCEPT !.step = "ok", !.view = Connect(who)!View']]
  BY DEF Connect!Reply
<1>2. PICK v \in Connect(who)!Views : v = Connect(who)!View'
  OBVIOUS
<1>3. [call[c] EXCEPT !.step = "ok", !.view = v] \in Connect(who)!CallRecord
  BY DEF Connect!CallRecord
<1>4. /\ [call[c] EXCEPT !.step = "ok", !.view = v].kind = call[c].kind
      /\ [call[c] EXCEPT !.step = "ok", !.view = v].step = "ok"
  BY DEF Connect!CallRecord
<1>5. call' = [call EXCEPT ![c] = [call[c] EXCEPT !.step = "ok", !.view = v]]
  BY <1>1, <1>2
<1> QED
  BY <1>3, <1>4, <1>5

\* A call that is refused keeps its kind; the others stay.
LEMMA ConnectRefuseFits ==
    ASSUME NEW who,
           call \in [CallsOf[who] -> Connect(who)!CallRecord], NEW c \in CallsOf[who],
           Connect(who)!Refuse(c)
    PROVE  /\ call' \in [CallsOf[who] -> Connect(who)!CallRecord]
           /\ call'[c].kind = call[c].kind /\ call'[c].step = "refused"
           /\ \A d \in CallsOf[who] : d # c => call'[d] = call[d]
BY DEF Connect!Refuse, Connect!CallRecord

\* An answer that is taken frees its call; the others stay.
LEMMA ConnectFinishFits ==
    ASSUME NEW who,
           Connect(who)!ConstantsFit, call \in [CallsOf[who] -> Connect(who)!CallRecord],
           NEW c \in CallsOf[who], Connect(who)!Finish(c)
    PROVE  /\ call' \in [CallsOf[who] -> Connect(who)!CallRecord]
           /\ call'[c] = Connect(who)!Free
           /\ \A d \in CallsOf[who] : d # c => call'[d] = call[d]
<1>1. Connect(who)!Free \in Connect(who)!CallRecord
  BY ConnectRecordsFit
<1> QED
  BY <1>1 DEF Connect!Finish

\* A call that is sent was free; the others stay.
LEMMA ConnectSendFits ==
    ASSUME NEW who,
           Connect(who)!ConstantsFit, Connect(who)!ScreenFits,
           call \in [CallsOf[who] -> Connect(who)!CallRecord],
           NEW kind \in {"load", "save", "switch"}, Connect(who)!Send(kind)
    PROVE  /\ call' \in [CallsOf[who] -> Connect(who)!CallRecord]
           /\ \E c \in CallsOf[who] :
                 /\ call'[c].kind = kind /\ call'[c].step = "sent"
                 /\ \A d \in CallsOf[who] : d # c => call'[d] = call[d]
<1> DEFINE new == [Connect(who)!Free EXCEPT !.step = "sent", !.kind = kind,
                     !.env = environment, !.host = host, !.password = password]
<1>1. PICK c \in CallsOf[who] : call' = [call EXCEPT ![c] = new]
  BY DEF Connect!Send
<1>2. new \in Connect(who)!CallRecord /\ new.kind = kind /\ new.step = "sent"
  <2>1. Connect(who)!Free \in Connect(who)!CallRecord
    BY ConnectRecordsFit
  <2> QED
    BY <2>1 DEF Connect!CallRecord, Connect!ScreenFits
<1> HIDE DEF new
<1> QED
  BY <1>1, <1>2

\* A screen that is mounted anew has one call, its load.
LEMMA ConnectReloadFits ==
    ASSUME NEW who,
           Connect(who)!ConstantsFit, Connect(who)!ServerFits, UNCHANGED Connect(who)!server,
           Connect(who)!Reload
    PROVE  /\ Connect(who)!ScreenFits' /\ call' \in [CallsOf[who] -> Connect(who)!CallRecord]
           /\ Connect(who)!GateHonest' /\ Connect(who)!SavedHeld' /\ Connect(who)!BusyHonest'
<1>1. Connect(who)!Held' = Connect(who)!Held /\ Connect(who)!Working \in Connect(who)!Envs
  BY ConnectServerStays, ConnectViewFits
<1>2. PICK c \in CallsOf[who] :
         call' = [d \in CallsOf[who] |-> IF d = c THEN [Connect(who)!Free EXCEPT !.step = "sent"]
         ELSE Connect(who)!Free]
  BY DEF Connect!Reload
<1>3. /\ call' \in [CallsOf[who] -> Connect(who)!CallRecord]
      /\ \A d \in CallsOf[who] : call'[d].kind = "load"
  BY <1>2, ConnectRecordsFit
<1>4. Connect(who)!ScreenFits'
  <2>1. portal' \in [environment : Connect(who)!Envs, connected : BOOLEAN]
    BY <1>1 DEF Connect!Reload
  <2>2. current' \in Connect(who)!Views
    BY ConnectRecordsFit DEF Connect!Reload
  <2> QED
    BY <2>1, <2>2 DEF Connect!Reload, Connect!ScreenFits, Connect!Envs, Connect!EnvOrNone
<1>5. Connect(who)!GateHonest'
  BY <1>1 DEF Connect!GateHonest, Connect!Reload
<1>6. Connect(who)!SavedHeld' /\ Connect(who)!BusyHonest'
  BY <1>3 DEF Connect!SavedHeld, Connect!BusyHonest, Connect!Reload
<1> QED
  BY <1>3, <1>4, <1>5, <1>6

-----------------------------------------------------------------------------
\* The operator's side.
LEMMA ConnectFieldsKeep ==
    ASSUME NEW who,
           Connect(who)!ConstantsFit, Connect(who)!IInv, UNCHANGED <<Connect(who)!server, portal,
           current, busy, call>>,
           page' = page \/ (page' = "left") \/ (page = "done" /\ page' = "form"),
           environment' \in Connect(who)!Envs, host' \in Connect(who)!EnvOrNone,
           password' \in Connect(who)!EnvOrNone,
           error' \in BOOLEAN
    PROVE  Connect(who)!IInv'
<1>1. Connect(who)!ServerFits /\ Connect(who)!ScreenFits
         /\ call \in [CallsOf[who] -> Connect(who)!CallRecord] /\ Connect(who)!GateHonest
         /\ Connect(who)!SavedHeld /\ Connect(who)!BusyHonest
  BY ConnectParts
<1>2. Connect(who)!ServerFits' /\ Connect(who)!Held' = Connect(who)!Held
  BY <1>1, ConnectServerStays
<1>3. Connect(who)!ScreenFits'
  BY <1>1 DEF Connect!ScreenFits
<1>4. Connect(who)!GateHonest' /\ Connect(who)!SavedHeld'
  BY <1>1, <1>2 DEF Connect!GateHonest, Connect!SavedHeld
<1>5. Connect(who)!BusyHonest'
  BY <1>1 DEF Connect!BusyHonest
<1>6. call' \in [CallsOf[who] -> Connect(who)!CallRecord]
  BY <1>1
<1> QED
  BY <1>2, <1>3, <1>4, <1>5, <1>6, ConnectPartsNext

\* Filling in the form, and moving between it and the workspace.
LEMMA ConnectFormKeeps ==
    ASSUME NEW who,
           Connect(who)!ConstantsFit, Connect(who)!IInv,
           \/ \E e \in Connect(who)!Envs : Connect(who)!ChooseEnvironment(e)
           \/ \E t \in TypedBy[who] \cup {None} : Connect(who)!TypePassword(t)
               \/ Connect(who)!TypeHost(t)
           \/ Connect(who)!ConnectOther \/ Connect(who)!BackToWorkspace
    PROVE  Connect(who)!IInv'
<1>1. environment \in Connect(who)!Envs /\ host \in Connect(who)!EnvOrNone
         /\ password \in Connect(who)!EnvOrNone /\ error \in BOOLEAN
  BY DEF Connect!IInv, Connect!TypeOK, Connect!ScreenFits
<1>2. CASE \E e \in Connect(who)!Envs : Connect(who)!ChooseEnvironment(e)
  BY <1>1, <1>2, ConnectFieldsKeep DEF Connect!ChooseEnvironment, Connect!EnvOrNone
<1>3. CASE \E t \in TypedBy[who] \cup {None} : Connect(who)!TypePassword(t)
         \/ Connect(who)!TypeHost(t)
  <2>1. TypedBy[who] \cup {None} \subseteq Connect(who)!EnvOrNone
    BY DEF Connect!ConstantsFit, Connect!EnvOrNone
  <2> QED
    BY <1>1, <1>3, <2>1, ConnectFieldsKeep DEF Connect!TypePassword, Connect!TypeHost
<1>4. CASE Connect(who)!ConnectOther \/ Connect(who)!BackToWorkspace
  BY <1>1, <1>4, ConnectFieldsKeep DEF Connect!ConnectOther, Connect!BackToWorkspace, Connect!fields
<1> QED
  BY <1>2, <1>3, <1>4

\* A call is added, of which no save is answered yet.
LEMMA ConnectAskingKeeps ==
    ASSUME NEW who,
           Connect(who)!ConstantsFit, Connect(who)!IInv, UNCHANGED <<Connect(who)!server, portal>>,
           Connect(who)!ScreenFits',
           call' \in [CallsOf[who] -> Connect(who)!CallRecord],
           NEW c \in CallsOf[who], call'[c].step = "sent", \A d \in CallsOf[who] : d # c
           => call'[d] = call[d],
           busy' => call'[c].kind # "load"
    PROVE  Connect(who)!IInv'
<1>1. Connect(who)!ServerFits /\ Connect(who)!GateHonest /\ Connect(who)!SavedHeld
  BY ConnectParts
<1>2. Connect(who)!ServerFits' /\ Connect(who)!Held' = Connect(who)!Held
  BY <1>1, ConnectServerStays
<1>3. Connect(who)!GateHonest' /\ Connect(who)!SavedHeld'
  BY <1>1, <1>2 DEF Connect!GateHonest, Connect!SavedHeld
<1>4. Connect(who)!BusyHonest'
  BY ConnectRecordsFit DEF Connect!BusyHonest
<1> QED
  BY <1>2, <1>3, <1>4, ConnectPartsNext

\* Saving.
LEMMA ConnectSubmitKeeps ==
    ASSUME NEW who,
           Connect(who)!ConstantsFit, Connect(who)!IInv, Connect(who)!Submit
    PROVE  Connect(who)!IInv'
<1>1. Connect(who)!ScreenFits /\ call \in [CallsOf[who] -> Connect(who)!CallRecord]
         /\ Connect(who)!BusyHonest
  BY ConnectParts
<1>2. Connect(who)!ScreenFits'
  BY <1>1 DEF Connect!Submit, Connect!fields, Connect!ScreenFits
<1>3. CASE password = None /\ ~Connect(who)!Existing
  <2>1. UNCHANGED <<Connect(who)!server, portal, current, busy, call, page, environment, host,
           password>> /\ error' = TRUE
    BY <1>3 DEF Connect!Submit, Connect!fields
  <2> QED
    BY <1>1, <2>1, ConnectFieldsKeep DEF Connect!ScreenFits
<1>4. CASE ~(password = None /\ ~Connect(who)!Existing)
  <2>1. Connect(who)!Send("save")
    BY <1>4 DEF Connect!Submit
  <2>2. PICK c \in CallsOf[who] : /\ call' \in [CallsOf[who] -> Connect(who)!CallRecord]
                                  /\ call'[c].kind = "save" /\ call'[c].step = "sent"
                                  /\ \A d \in CallsOf[who] : d # c => call'[d] = call[d]
    BY <1>1, <2>1, ConnectSendFits
  <2> QED
    BY <1>2, <2>2, ConnectAskingKeeps DEF Connect!Submit
<1> QED
  BY <1>3, <1>4

\* Switching.
LEMMA ConnectSwitchToKeeps ==
    ASSUME NEW who,
           Connect(who)!ConstantsFit, Connect(who)!IInv, Connect(who)!SwitchTo
    PROVE  Connect(who)!IInv'
<1>1. Connect(who)!ScreenFits /\ call \in [CallsOf[who] -> Connect(who)!CallRecord]
  BY ConnectParts
<1>2. Connect(who)!ScreenFits'
  BY <1>1 DEF Connect!SwitchTo, Connect!fields, Connect!ScreenFits
<1>3. PICK c \in CallsOf[who] : /\ call' \in [CallsOf[who] -> Connect(who)!CallRecord]
                                /\ call'[c].kind = "switch" /\ call'[c].step = "sent"
                                /\ \A d \in CallsOf[who] : d # c => call'[d] = call[d]
  BY <1>1, ConnectSendFits DEF Connect!SwitchTo
<1> QED
  BY <1>2, <1>3, ConnectAskingKeeps DEF Connect!SwitchTo

\* Coming back to the screen, with the calls of the last visit still under way.
LEMMA ConnectReturnKeeps ==
    ASSUME NEW who,
           Connect(who)!ConstantsFit, Connect(who)!IInv, Connect(who)!Return
    PROVE  Connect(who)!IInv'
<1>1. Connect(who)!ScreenFits /\ call \in [CallsOf[who] -> Connect(who)!CallRecord]
  BY ConnectParts
<1>2. Connect(who)!ScreenFits'
  BY <1>1, ConnectRecordsFit DEF Connect!Return, Connect!ScreenFits, Connect!Envs, Connect!EnvOrNone
<1>3. PICK c \in CallsOf[who] :
         call' = [call EXCEPT ![c] = [Connect(who)!Free EXCEPT !.step = "sent"]]
  BY DEF Connect!Return
<1>4. /\ call' \in [CallsOf[who] -> Connect(who)!CallRecord] /\ call'[c].step = "sent"
      /\ \A d \in CallsOf[who] : d # c => call'[d] = call[d]
  BY <1>1, <1>3, ConnectRecordsFit
<1> QED
  BY <1>2, <1>4, ConnectAskingKeeps DEF Connect!Return

\* Reloading the page.
LEMMA ConnectReloadKeeps ==
    ASSUME NEW who,
           Connect(who)!ConstantsFit, Connect(who)!IInv, UNCHANGED Connect(who)!server,
           Connect(who)!Reload
    PROVE  Connect(who)!IInv'
BY ConnectParts, ConnectPartsNext, ConnectServerStays, ConnectReloadFits

-----------------------------------------------------------------------------
\* The server answers.
LEMMA ConnectAnswerKeeps ==
    ASSUME NEW who,
           Connect(who)!ConstantsFit, Connect(who)!IInv, UNCHANGED <<portal, page, current,
           Connect(who)!fields, busy, error>>,
           Connect(who)!ServerFits', Connect(who)!Held \subseteq Connect(who)!Held',
           call' \in [CallsOf[who] -> Connect(who)!CallRecord],
           NEW c \in CallsOf[who], call'[c].kind = call[c].kind,
           call[c].step # "free", call'[c].step # "free",
           call'[c].kind = "save" /\ call'[c].step = "ok" => Connect(who)!Held' # {},
           \A d \in CallsOf[who] : d # c => call'[d] = call[d]
    PROVE  Connect(who)!IInv'
<1>1. Connect(who)!ScreenFits /\ Connect(who)!GateHonest /\ Connect(who)!SavedHeld
         /\ Connect(who)!BusyHonest
  BY ConnectParts
<1>2. Connect(who)!ScreenFits'
  BY <1>1 DEF Connect!ScreenFits, Connect!fields
<1>3. Connect(who)!GateHonest' /\ Connect(who)!SavedHeld'
  BY <1>1 DEF Connect!GateHonest, Connect!SavedHeld
<1>4. Connect(who)!BusyHonest'
  BY <1>1, ConnectRecordsFit DEF Connect!BusyHonest
<1> QED
  BY <1>2, <1>3, <1>4, ConnectPartsNext

\* What the server does.
LEMMA ConnectServeKeeps ==
    ASSUME NEW who,
           Connect(who)!ConstantsFit, Connect(who)!IInv, NEW c \in CallsOf[who],
           Connect(who)!Serve(c)
    PROVE  Connect(who)!IInv'
<1>1. Connect(who)!ServerFits /\ call \in [CallsOf[who] -> Connect(who)!CallRecord]
  BY ConnectParts
<1>2. CASE Connect(who)!ServeLoad(c)
  <2>1. Connect(who)!ServerFits' /\ Connect(who)!Held' = Connect(who)!Held /\ Connect(who)!Reply(c)
           /\ call[c].kind = "load"
    BY <1>1, <1>2, ConnectServerStays DEF Connect!ServeLoad
  <2>2. Connect(who)!View' \in Connect(who)!Views
    BY <1>1, <2>1, <1>2, ConnectViewFits DEF Connect!ServeLoad, Connect!server, Connect!View,
         Connect!Views, Connect!ServerFits
  <2> QED
    BY <1>1, <1>2, <2>1, <2>2, ConnectReplyFits, ConnectAnswerKeeps DEF Connect!ServeLoad
<1>3. CASE Connect(who)!Save(c)
  <2>1. Connect(who)!ServerFits' /\ Connect(who)!Held \subseteq Connect(who)!Held'
           /\ (call'[c].step = "ok" => Connect(who)!Held' # {})
    BY <1>1, <1>3, ConnectSaveFits
  <2>2. Connect(who)!View' \in Connect(who)!Views
    BY <2>1 DEF Connect!ServerFits, Connect!View, Connect!Views, Connect!Held
  <2>3. /\ Connect(who)!Reply(c) \/ Connect(who)!Refuse(c)
        /\ call[c].step = "sent" /\ UNCHANGED <<portal, page, current, Connect(who)!fields, busy,
            error>>
    BY <1>3 DEF Connect!Save
  <2>4. /\ call' \in [CallsOf[who] -> Connect(who)!CallRecord]
        /\ call'[c].kind = call[c].kind /\ call'[c].step \in {"ok", "refused"}
        /\ \A d \in CallsOf[who] : d # c => call'[d] = call[d]
    BY <1>1, <2>2, <2>3, ConnectReplyFits, ConnectRefuseFits
  <2> QED
    BY <2>1, <2>3, <2>4, ConnectAnswerKeeps
<1>4. CASE Connect(who)!Switch(c)
  <2>1. Connect(who)!ServerFits' /\ Connect(who)!Held' = Connect(who)!Held
    BY <1>1, <1>4, ConnectSwitchFits
  <2>2. Connect(who)!View' \in Connect(who)!Views
    BY <2>1 DEF Connect!ServerFits, Connect!View, Connect!Views, Connect!Held
  <2>3. /\ Connect(who)!Reply(c) \/ Connect(who)!Refuse(c)
        /\ call[c].step = "sent" /\ call[c].kind = "switch"
        /\ UNCHANGED <<portal, page, current, Connect(who)!fields, busy, error>>
    BY <1>4 DEF Connect!Switch
  <2>4. /\ call' \in [CallsOf[who] -> Connect(who)!CallRecord]
        /\ call'[c].kind = call[c].kind /\ call'[c].step \in {"ok", "refused"}
        /\ \A d \in CallsOf[who] : d # c => call'[d] = call[d]
    BY <1>1, <2>2, <2>3, ConnectReplyFits, ConnectRefuseFits
  <2> QED
    BY <2>1, <2>3, <2>4, ConnectAnswerKeeps
<1>5. CASE Connect(who)!AnswerLost(c)
  <2>1. Connect(who)!ServerFits' /\ Connect(who)!Held' = Connect(who)!Held
    BY <1>1, <1>5, ConnectServerStays DEF Connect!AnswerLost
  <2>2. /\ Connect(who)!Refuse(c) /\ call[c].step \in {"sent", "ok"}
        /\ UNCHANGED <<portal, page, current, Connect(who)!fields, busy, error>>
    BY <1>5 DEF Connect!AnswerLost
  <2> QED
    BY <1>1, <2>1, <2>2, ConnectRefuseFits, ConnectAnswerKeeps
<1> QED
  BY <1>2, <1>3, <1>4, <1>5 DEF Connect!Serve

-----------------------------------------------------------------------------
\* The page takes an answer: the call is free again, and whoever waits waits for another.
LEMMA ConnectTakenKeeps ==
    ASSUME NEW who,
           Connect(who)!ConstantsFit, Connect(who)!IInv, UNCHANGED Connect(who)!server,
           Connect(who)!ScreenFits',
           NEW c \in CallsOf[who], Connect(who)!Finish(c),
           portal'.connected => portal.connected \/ (call[c].kind = "save" /\ call[c].step = "ok"),
           page' # "left" /\ busy' => page # "left" /\ busy /\ call[c].kind = "load"
    PROVE  Connect(who)!IInv'
<1>1. Connect(who)!ServerFits /\ call \in [CallsOf[who] -> Connect(who)!CallRecord]
         /\ Connect(who)!GateHonest /\ Connect(who)!SavedHeld /\ Connect(who)!BusyHonest
  BY ConnectParts
<1>2. Connect(who)!ServerFits' /\ Connect(who)!Held' = Connect(who)!Held
  BY <1>1, ConnectServerStays
<1>3. /\ call' \in [CallsOf[who] -> Connect(who)!CallRecord] /\ call'[c] = Connect(who)!Free
      /\ \A d \in CallsOf[who] : d # c => call'[d] = call[d]
  BY <1>1, ConnectFinishFits
<1>4. Connect(who)!GateHonest'
  BY <1>1, <1>2 DEF Connect!GateHonest, Connect!SavedHeld
<1>5. Connect(who)!SavedHeld'
  BY <1>1, <1>2, <1>3, ConnectRecordsFit DEF Connect!SavedHeld
<1>6. Connect(who)!BusyHonest'
  BY <1>1, <1>3 DEF Connect!BusyHonest
<1> QED
  BY <1>2, <1>3, <1>4, <1>5, <1>6, ConnectPartsNext

\* What the screen makes of an answer.
LEMMA ConnectTakeKeeps ==
    ASSUME NEW who,
           Connect(who)!ConstantsFit, Connect(who)!IInv, NEW c \in CallsOf[who],
           Connect(who)!Take(c)
    PROVE  Connect(who)!IInv'
<1>1. Connect(who)!ScreenFits /\ call \in [CallsOf[who] -> Connect(who)!CallRecord]
  BY ConnectParts
<1>2. CASE Connect(who)!TakeLoad(c)
  <2>1. call[c].view \in Connect(who)!Views
    BY <1>1 DEF Connect!CallRecord
  <2>2. Connect(who)!ScreenFits'
    BY <1>1, <1>2, <2>1 DEF Connect!TakeLoad, Connect!ScreenFits, Connect!Views, Connect!EnvOrNone,
         Connect!Envs
  <2> QED
    BY <1>2, <2>2, ConnectTakenKeeps DEF Connect!TakeLoad, Connect!Here
<1>3. CASE Connect(who)!TakeSaved(c)
  <2>1. call[c].view \in Connect(who)!Views
    BY <1>1 DEF Connect!CallRecord
  <2>2. Connect(who)!ScreenFits'
    BY <1>1, <1>3, <2>1 DEF Connect!TakeSaved, Connect!ScreenFits, Connect!EnvOrNone
  <2> QED
    BY <1>3, <2>2, ConnectTakenKeeps DEF Connect!TakeSaved, Connect!Here
<1>4. CASE Connect(who)!TakeSwitched(c)
  BY <1>4, ConnectReloadKeeps DEF Connect!TakeSwitched
<1>5. CASE Connect(who)!TakeRefusal(c)
  <2>1. Connect(who)!ScreenFits'
    BY <1>1, <1>5 DEF Connect!TakeRefusal, Connect!ScreenFits, Connect!fields
  <2> QED
    BY <1>5, <2>1, ConnectTakenKeeps DEF Connect!TakeRefusal
<1>6. CASE Connect(who)!TakeLate(c)
  <2>1. CASE call[c].step = "ok" /\ call[c].kind = "switch"
    BY <1>6, <2>1, ConnectReloadKeeps DEF Connect!TakeLate
  <2>2. CASE ~(call[c].step = "ok" /\ call[c].kind = "switch")
    <3>1. /\ page' = "left" /\ Connect(who)!Finish(c) /\ UNCHANGED <<Connect(who)!server, current,
              Connect(who)!fields, busy, error>>
          /\ portal' = IF call[c].step = "ok" /\ call[c].kind = "save"
                       THEN [portal EXCEPT !.connected = TRUE] ELSE portal
      BY <1>6, <2>2 DEF Connect!TakeLate
    <3>2. Connect(who)!ScreenFits'
      BY <1>1, <3>1 DEF Connect!ScreenFits, Connect!fields
    <3> QED
      BY <3>1, <3>2, ConnectTakenKeeps
  <2> QED
    BY <2>1, <2>2
<1> QED
  BY <1>2, <1>3, <1>4, <1>5, <1>6 DEF Connect!Take

-----------------------------------------------------------------------------
\* The invariant holds at the start,
LEMMA ConnectInitIInv ==
    ASSUME NEW who,
           Connect(who)!ConstantsFit, Connect(who)!Init
    PROVE  Connect(who)!IInv
<1>1. PICK S \in SUBSET Connect(who)!Envs :
         held = [e \in Connect(who)!Envs |-> IF e \in S THEN [host |-> e, password |-> e] ELSE None]
  BY DEF Connect!Init
<1>2. Connect(who)!ServerFits
  <2>1. held \in [Connect(who)!Envs -> Connect(who)!Connection]
    BY <1>1 DEF Connect!Connection
  <2>2. Connect(who)!HeldUnderItsName
    BY <1>1 DEF Connect!HeldUnderItsName, Connect!Held
  <2>3. active \in Connect(who)!EnvOrNone /\ Connect(who)!ActiveHeld
    BY DEF Connect!Init, Connect!ActiveHeld, Connect!EnvOrNone
  <2> QED
    BY <2>1, <2>2, <2>3 DEF Connect!ServerFits
<1>3. PICK c \in CallsOf[who] :
         call = [d \in CallsOf[who] |-> IF d = c THEN [Connect(who)!Free EXCEPT !.step = "sent"]
         ELSE Connect(who)!Free]
  BY DEF Connect!Init, Connect!Mounted
<1>4. call \in [CallsOf[who] -> Connect(who)!CallRecord] /\ \A d \in CallsOf[who] :
         call[d].kind = "load"
  BY <1>3, ConnectRecordsFit
<1>5. Connect(who)!ScreenFits
  <2>1. Connect(who)!Working \in Connect(who)!Envs
    BY <1>2, ConnectViewFits
  <2> QED
    BY <2>1, ConnectRecordsFit DEF Connect!Init, Connect!Mounted, Connect!ScreenFits, Connect!Envs,
         Connect!EnvOrNone
<1>6. Connect(who)!GateHonest
  BY DEF Connect!Init, Connect!GateHonest
<1>7. Connect(who)!SavedHeld /\ Connect(who)!BusyHonest
  BY <1>4 DEF Connect!SavedHeld, Connect!BusyHonest, Connect!Init, Connect!Mounted
<1> QED
  BY <1>2, <1>4, <1>5, <1>6, <1>7, ConnectParts

\* and every step keeps it.
LEMMA ConnectNextIInv ==
    ASSUME NEW who,
           Connect(who)!ConstantsFit, Connect(who)!IInv, [Connect(who)!Next]_(Connect(who)!vars)
    PROVE  Connect(who)!IInv'
<1>1. CASE \/ \E e \in Connect(who)!Envs : Connect(who)!ChooseEnvironment(e)
           \/ \E t \in TypedBy[who] \cup {None} : Connect(who)!TypePassword(t)
               \/ Connect(who)!TypeHost(t)
           \/ Connect(who)!ConnectOther \/ Connect(who)!BackToWorkspace
  BY <1>1, ConnectFormKeeps
<1>2. CASE Connect(who)!Submit \/ Connect(who)!SwitchTo \/ Connect(who)!Return
  BY <1>2, ConnectSubmitKeeps, ConnectSwitchToKeeps, ConnectReturnKeeps
<1>3. CASE Connect(who)!Continue
  BY <1>3, ConnectReloadKeeps DEF Connect!Continue
<1>4. CASE \E c \in CallsOf[who] : Connect(who)!Serve(c) \/ Connect(who)!Take(c)
  BY <1>4, ConnectServeKeeps, ConnectTakeKeeps
<1>5. CASE UNCHANGED Connect(who)!vars
  BY <1>5, ConnectFieldsKeep DEF Connect!vars, Connect!fields, Connect!IInv, Connect!TypeOK,
       Connect!ScreenFits
<1> QED
  BY <1>1, <1>2, <1>3, <1>4, <1>5 DEF Connect!Next

-----------------------------------------------------------------------------
(* The integrations' screen (IntegrationScreen) *)

\* The types, by whom they belong to,
LEMMA KeyTypeParts ==
    ASSUME NEW who
    PROVE  Key(who)!TypeOK <=> Key(who)!StoreFits /\ Key(who)!ScreenFits /\ Key(who)!PanelsFit
           /\ Key(who)!CallsFit /\ faults \in 0..FaultsOf[who]
BY DEF Key!TypeOK, Key!StoreFits, Key!ScreenFits, Key!PanelsFit, Key!CallsFit, Key!Lists

\* and after a step.
LEMMA KeyPartsType ==
    ASSUME NEW who,
           Key(who)!StoreFits', Key(who)!ScreenFits', Key(who)!PanelsFit', Key(who)!CallsFit',
           faults' \in 0..FaultsOf[who]
    PROVE  Key(who)!TypeOK'
BY DEF Key!TypeOK, Key!StoreFits, Key!ScreenFits, Key!PanelsFit, Key!CallsFit, Key!Lists

\* The button waits for one call,
LEMMA KeyCreatingMeans ==
    ASSUME NEW who,
           Key(who)!CreatingHonest, here
    PROVE  /\ creating <=> \E c \in CallsOf[who] : Key(who)!Makes(c)
           /\ \A c, d \in CallsOf[who] : Key(who)!Makes(c) /\ Key(who)!Makes(d) => c = d
BY DEF Key!CreatingHonest, Key!Makes

\* or for none while the screen is away.
LEMMA KeyMeansCreating ==
    ASSUME NEW who,
           here' => /\ creating' <=> \E c \in CallsOf[who] : Key(who)!Makes(c)'
                    /\ \A c, d \in CallsOf[who] : Key(who)!Makes(c)' /\ Key(who)!Makes(d)' => c = d
    PROVE  Key(who)!CreatingHonest'
BY DEF Key!CreatingHonest, Key!Makes

-----------------------------------------------------------------------------
\* What the ways to change the calls come to.
LEMMA KeyFreeFits ==
    ASSUME NEW who,
           Key(who)!ConstantsFit
    PROVE  /\ Key(who)!Free \in Key(who)!CallType /\ Key(who)!Free.step = "free"
               /\ Key(who)!Free.kind = "load" /\ Key(who)!Free.card
           /\ Key(who)!Free.secret = 0
BY DEF Key!Free, Key!CallType, Key!Envs, Key!Acts, Key!ConstantsFit

\* The record of a call that was just sent.
LEMMA KeySentFits ==
    ASSUME NEW who,
           Key(who)!ConstantsFit, NEW e \in Key(who)!Envs,
           NEW kind \in {"load", "afterCreate", "create"} \cup Key(who)!Acts
    PROVE  /\ Key(who)!Sent(kind, e) \in Key(who)!CallType /\ Key(who)!Sent(kind, e).step = "sent"
           /\ Key(who)!Sent(kind, e).kind = kind /\ Key(who)!Sent(kind, e).env = e
           /\ Key(who)!Sent(kind, e).card /\ Key(who)!Sent(kind, e).secret = 0
BY KeyFreeFits DEF Key!Sent, Key!CallType

\* A call that goes on; the others stay.
LEMMA KeyTurnFits ==
    ASSUME NEW who,
           Key(who)!CallsFit, NEW c \in CallsOf[who], NEW next \in Key(who)!CallType,
           Key(who)!Turn(c, next)
    PROVE  /\ Key(who)!CallsFit' /\ call'[c] = next
           /\ \A d \in CallsOf[who] : d # c => call'[d] = call[d]
BY DEF Key!CallsFit, Key!Turn

\* A call that is answered keeps what it was about; the others stay.
LEMMA KeyAnswerFits ==
    ASSUME NEW who,
           Key(who)!CallsFit, NEW c \in CallsOf[who], NEW step \in {"checked", "ok", "refused"},
           Key(who)!Answer(c, step)
    PROVE  /\ Key(who)!CallsFit'
           /\ call'[c].step = step /\ call'[c].kind = call[c].kind /\ call'[c].env = call[c].env
           /\ call'[c].card = call[c].card /\ call'[c].secret = call[c].secret
           /\ \A d \in CallsOf[who] : d # c => call'[d] = call[d]
<1> DEFINE next == [call[c] EXCEPT !.step = step]
<1>1. Key(who)!Turn(c, next)
  BY DEF Key!Answer, Key!CallsFit, Key!Turn
<1>2. /\ next \in Key(who)!CallType /\ next.step = step /\ next.kind = call[c].kind
          /\ next.env = call[c].env
      /\ next.card = call[c].card /\ next.secret = call[c].secret
  <2>1. call[c] \in Key(who)!CallType
    BY DEF Key!CallsFit
  <2> QED
    BY <2>1 DEF Key!CallType
<1> HIDE DEF next
<1> QED
  BY <1>1, <1>2, KeyTurnFits

\* What a load is answered with: the integrations that exist.
LEMMA KeyViewFits ==
    ASSUME NEW who,
           Key(who)!StoreFits
    PROVE  /\ Key(who)!View \in [Key(who)!Envs -> {"none", "idle", "pending", "live"}]
           /\ Key(who)!Latest \in {"none", "pending", "approved", "rejected"}
           /\ \A e \in Key(who)!Envs : Key(who)!View[e] = "none" <=> secret[e] = 0
<1>1. Key(who)!View \in [Key(who)!Envs -> {"none", "idle", "pending", "live"}]
  BY DEF Key!View
<1>2. \A e \in Key(who)!Envs : Key(who)!View[e] = "none" <=> secret[e] = 0
  BY DEF Key!View
<1>3. Key(who)!Latest \in {"none", "pending", "approved", "rejected"}
  <2>1. requests # <<>> => Len(requests) \in DOMAIN requests
    BY DEF Key!StoreFits
  <2> QED
    BY <2>1 DEF Key!Latest, Key!StoreFits
<1> QED
  BY <1>1, <1>2, <1>3

\* The answer with a list.
LEMMA KeyListedFits ==
    ASSUME NEW who,
           Key(who)!StoreFits, Key(who)!CallsFit, NEW c \in CallsOf[who], Key(who)!ServeLoad(c)
           \/ Key(who)!ServeAfterCreate(c)
    PROVE  /\ Key(who)!CallsFit'
           /\ call[c].kind \in {"load", "afterCreate"} /\ call[c].step = "sent"
           /\ call'[c].step = "ok" /\ call'[c].kind = call[c].kind /\ call'[c].env = call[c].env
           /\ call'[c].card = call[c].card /\ call'[c].secret = call[c].secret
           /\ \A e \in Key(who)!Envs : call'[c].view[e] = "none" <=> secret[e] = 0
           /\ \A d \in CallsOf[who] : d # c => call'[d] = call[d]
<1> DEFINE next == [call[c] EXCEPT !.step = "ok", !.view = Key(who)!View,
       !.latest = Key(who)!Latest]
<1>1. Key(who)!Turn(c, next)
  BY DEF Key!ServeLoad, Key!ServeAfterCreate, Key!CallsFit, Key!Turn
<1>2. /\ next \in Key(who)!CallType /\ next.step = "ok" /\ next.kind = call[c].kind
          /\ next.env = call[c].env
      /\ next.card = call[c].card /\ next.secret = call[c].secret /\ next.view = Key(who)!View
  <2>1. /\ Key(who)!View \in [Key(who)!Envs -> {"none", "idle", "pending", "live"}]
        /\ Key(who)!Latest \in {"none", "pending", "approved", "rejected"}
    BY KeyViewFits
  <2>2. call[c] \in Key(who)!CallType
    BY DEF Key!CallsFit
  <2> QED
    BY <2>1, <2>2 DEF Key!CallType
<1>3. call[c].kind \in {"load", "afterCreate"} /\ call[c].step = "sent"
  BY DEF Key!ServeLoad, Key!ServeAfterCreate, Key!At
<1>4. \A e \in Key(who)!Envs : Key(who)!View[e] = "none" <=> secret[e] = 0
  BY KeyViewFits
<1> HIDE DEF next
<1>5. Key(who)!CallsFit' /\ call'[c] = next /\ \A d \in CallsOf[who] : d # c => call'[d] = call[d]
  BY <1>1, <1>2, KeyTurnFits
<1> QED
  BY <1>2, <1>3, <1>4, <1>5

\* The answer with a secret, and what it does to the secrets.
LEMMA KeyIssuedFits ==
    ASSUME NEW who,
           Key(who)!ConstantsFit, Key(who)!StoreFits, Key(who)!CallsFit, NEW c \in CallsOf[who],
           NEW n \in 1..SecretsOf[who],
           NEW e \in Key(who)!Envs, Key(who)!Issue(c, e, n)
    PROVE  /\ Key(who)!StoreFits' /\ Key(who)!CallsFit'
           /\ secret'[e] = n /\ \A f \in Key(who)!Envs : f # e => secret'[f] = secret[f]
           /\ call'[c].step = "ok" /\ call'[c].kind = call[c].kind /\ call'[c].env = call[c].env
           /\ call'[c].card = call[c].card /\ call'[c].secret = n
           /\ \A d \in CallsOf[who] : d # c => call'[d] = call[d]
<1> DEFINE next == [call[c] EXCEPT !.step = "ok", !.secret = n]
<1>1. Key(who)!Turn(c, next)
  BY DEF Key!Issue, Key!CallsFit, Key!Turn
<1>2. /\ next \in Key(who)!CallType /\ next.step = "ok" /\ next.kind = call[c].kind
          /\ next.env = call[c].env
      /\ next.card = call[c].card /\ next.secret = n
  <2>1. n \in 0..SecretsOf[who] /\ call[c] \in Key(who)!CallType
    BY DEF Key!ConstantsFit, Key!CallsFit
  <2> QED
    BY <2>1 DEF Key!CallType
<1>3. Key(who)!StoreFits' /\ secret'[e] = n /\ \A f \in Key(who)!Envs : f # e
         => secret'[f] = secret[f]
  <2>1. n \in 0..SecretsOf[who]
    BY DEF Key!ConstantsFit
  <2> QED
    BY <2>1 DEF Key!Issue, Key!StoreFits
<1> HIDE DEF next
<1> QED
  BY <1>1, <1>2, <1>3, KeyTurnFits

\* A list is shown: the other calls keep all but their card.
LEMMA KeyShownFits ==
    ASSUME NEW who,
           Key(who)!ConstantsFit, Key(who)!CallsFit, Key(who)!PanelsFit, Key(who)!ScreenFits,
           NEW c \in CallsOf[who],
           NEW v \in Key(who)!Lists, Key(who)!ShowList(c, v)
    PROVE  /\ Key(who)!CallsFit' /\ call'[c] = Key(who)!Free /\ list' = v /\ ~loading'
           /\ \A d \in CallsOf[who] : d # c =>
                 /\ call'[d].step = call[d].step /\ call'[d].kind = call[d].kind
                 /\ call'[d].env = call[d].env /\ call'[d].secret = call[d].secret
                 /\ call'[d].card = (call[d].card
                     /\ (call[d].kind \in Key(who)!Acts => v.shown[call[d].env] # "none"))
                 /\ call[d] = Key(who)!Free => call'[d] = Key(who)!Free
           /\ \A e \in Key(who)!Envs : busy'[e] = IF v.shown[e] # "none" THEN busy[e] ELSE "none"
           /\ busy' \in [Key(who)!Envs -> {"none"} \cup Key(who)!Acts]
           /\ issued' \in [Key(who)!Panels -> 0..SecretsOf[who]]
               /\ ack' \in [Key(who)!Panels -> 0..SecretsOf[who]]
           /\ \A p \in Key(who)!Panels : IF p = "new" \/ v.shown[p] # "none"
                                         THEN issued'[p] = issued[p] /\ ack'[p] = ack[p]
                                         ELSE issued'[p] = 0 /\ ack'[p] = 0
<1> DEFINE kept(p) == p = "new" \/ v.shown[p] # "none"
           after == [d \in CallsOf[who] |->
                     IF d = c THEN Key(who)!Free
                     ELSE [call[d] EXCEPT !.card = @
                     /\ (call[d].kind \in Key(who)!Acts => kept(call[d].env))]]
<1>1. /\ call' = after /\ list' = v /\ loading' = FALSE
      /\ issued' = [p \in Key(who)!Panels |-> IF kept(p) THEN issued[p] ELSE 0]
      /\ ack' = [p \in Key(who)!Panels |-> IF kept(p) THEN ack[p] ELSE 0]
      /\ busy' = [e \in Key(who)!Envs |-> IF kept(e) THEN busy[e] ELSE "none"]
  BY DEF Key!ShowList
<1>2. \A e \in Key(who)!Envs : kept(e) <=> v.shown[e] # "none"
  BY DEF Key!Envs
<1>3. ASSUME NEW d \in CallsOf[who], d # c
      PROVE  /\ after[d] \in Key(who)!CallType
             /\ after[d].step = call[d].step /\ after[d].kind = call[d].kind
             /\ after[d].env = call[d].env /\ after[d].secret = call[d].secret
             /\ after[d].card = (call[d].card
                 /\ (call[d].kind \in Key(who)!Acts => v.shown[call[d].env] # "none"))
             /\ call[d] = Key(who)!Free => after[d] = Key(who)!Free
  <2>1. call[d] \in Key(who)!CallType
    BY DEF Key!CallsFit
  <2>2. call[d].env \in Key(who)!Envs
    BY <2>1 DEF Key!CallType
  <2>3. /\ after[d] = [call[d] EXCEPT !.card = call[d].card
                                        /\ (call[d].kind \in Key(who)!Acts
                                            => v.shown[call[d].env] # "none")]
    BY <1>2, <1>3, <2>2
  <2> HIDE DEF after
  <2>4. call[d] = Key(who)!Free => after[d] = Key(who)!Free
    <3>1. Key(who)!Free \in Key(who)!CallType /\ Key(who)!Free.card = TRUE
             /\ Key(who)!Free.kind \notin Key(who)!Acts
      BY KeyFreeFits DEF Key!Free, Key!Acts
    <3>2. [Key(who)!Free EXCEPT !.card = TRUE] = Key(who)!Free
      BY <3>1 DEF Key!CallType
    <3>3. ASSUME call[d] = Key(who)!Free PROVE after[d] = [Key(who)!Free EXCEPT !.card = TRUE]
      BY <2>3, <3>1, <3>3
    <3> QED
      BY <3>2, <3>3
  <2> QED
    BY <2>1, <2>3, <2>4 DEF Key!CallType
<1>4. after[c] = Key(who)!Free /\ after \in [CallsOf[who] -> Key(who)!CallType]
  BY <1>3, KeyFreeFits
<1>5. /\ busy' \in [Key(who)!Envs -> {"none"} \cup Key(who)!Acts]
      /\ \A e \in Key(who)!Envs : busy'[e] = IF v.shown[e] # "none" THEN busy[e] ELSE "none"
  BY <1>1, <1>2 DEF Key!ScreenFits
<1>6. /\ issued' \in [Key(who)!Panels -> 0..SecretsOf[who]]
          /\ ack' \in [Key(who)!Panels -> 0..SecretsOf[who]]
      /\ \A p \in Key(who)!Panels : IF kept(p) THEN issued'[p] = issued[p] /\ ack'[p] = ack[p]
                                               ELSE issued'[p] = 0 /\ ack'[p] = 0
  <2>1. 0 \in 0..SecretsOf[who]
    BY DEF Key!ConstantsFit
  <2> HIDE DEF kept
  <2> QED
    BY <1>1, <2>1 DEF Key!PanelsFit
<1>7. Key(who)!CallsFit' /\ call'[c] = Key(who)!Free
  BY <1>1, <1>4 DEF Key!CallsFit
<1>8. \A d \in CallsOf[who] : d # c =>
         /\ call'[d].step = call[d].step /\ call'[d].kind = call[d].kind
         /\ call'[d].env = call[d].env /\ call'[d].secret = call[d].secret
         /\ call'[d].card = (call[d].card
             /\ (call[d].kind \in Key(who)!Acts => v.shown[call[d].env] # "none"))
         /\ call[d] = Key(who)!Free => call'[d] = Key(who)!Free
  <2>1. \A d \in CallsOf[who] : call'[d] = after[d]
    BY <1>1
  <2> HIDE DEF after
  <2> QED
    BY <1>3, <2>1
<1>9. list' = v /\ ~loading'
  BY <1>1
<1> HIDE DEF after
<1> QED
  BY <1>5, <1>6, <1>7, <1>8, <1>9
-----------------------------------------------------------------------------
\* The words on the buttons.  No call ends, begins or changes what it is about.
LEMMA KeyWordsKeep ==
    ASSUME NEW who,
           Key(who)!CreatingHonest, Key(who)!BusyHonest, UNCHANGED <<here, creating, busy>>,
           \A d \in CallsOf[who] : /\ call'[d].kind = call[d].kind /\ call'[d].env = call[d].env
                                   /\ call'[d].card = call[d].card
    PROVE  Key(who)!CreatingHonest' /\ Key(who)!BusyHonest'
<1>1. Key(who)!CreatingHonest'
  <2>1. \A d \in CallsOf[who] : Key(who)!Makes(d)' <=> Key(who)!Makes(d)
    BY DEF Key!Makes
  <2> QED
    BY <2>1, KeyCreatingMeans, KeyMeansCreating
<1>2. Key(who)!BusyHonest'
  <2> SUFFICES ASSUME here, NEW e \in Key(who)!Envs, busy[e] # "none"
               PROVE  \E d \in CallsOf[who] : /\ call'[d].kind = busy[e] /\ call'[d].env = e
                                              /\ call'[d].card
    BY DEF Key!BusyHonest
  <2>1. PICK d \in CallsOf[who] : call[d].kind = busy[e] /\ call[d].env = e /\ call[d].card
    BY DEF Key!BusyHonest
  <2> QED
    BY <2>1
<1> QED
  BY <1>1, <1>2

\* One call is turned.
LEMMA KeyTurnWords ==
    ASSUME NEW who,
           Key(who)!CreatingHonest, Key(who)!BusyHonest, here, NEW c \in CallsOf[who],
           \A d \in CallsOf[who] : d # c => call'[d] = call[d],
           creating' <=> IF Key(who)!Makes(c)' THEN TRUE ELSE creating /\ ~Key(who)!Makes(c),
           creating \in BOOLEAN,
           Key(who)!Makes(c)' => Key(who)!Makes(c) \/ ~creating,
           \A e \in Key(who)!Envs : busy'[e] # "none" =>
              \/ call'[c].kind = busy'[e] /\ call'[c].env = e /\ call'[c].card
              \/ /\ busy'[e] = busy[e]
                 /\ ~(call[c].kind = busy[e] /\ call[c].env = e /\ call[c].card)
    PROVE  Key(who)!CreatingHonest' /\ Key(who)!BusyHonest'
<1>1. /\ creating <=> \E d \in CallsOf[who] : Key(who)!Makes(d)
      /\ \A d, e \in CallsOf[who] : Key(who)!Makes(d) /\ Key(who)!Makes(e) => d = e
  BY KeyCreatingMeans
<1>2. \A d \in CallsOf[who] : d # c => (Key(who)!Makes(d)' <=> Key(who)!Makes(d))
  BY DEF Key!Makes
<1>3. Key(who)!CreatingHonest'
  <2>1. creating' <=> \E d \in CallsOf[who] : Key(who)!Makes(d)'
    BY <1>1, <1>2
  <2>2. \A d, e \in CallsOf[who] : Key(who)!Makes(d)' /\ Key(who)!Makes(e)' => d = e
    BY <1>1, <1>2
  <2> QED
    BY <2>1, <2>2, KeyMeansCreating
<1>4. Key(who)!BusyHonest'
  <2> SUFFICES ASSUME NEW e \in Key(who)!Envs, busy'[e] # "none"
               PROVE  \E d \in CallsOf[who] : /\ call'[d].kind = busy'[e] /\ call'[d].env = e
                                              /\ call'[d].card
    BY DEF Key!BusyHonest
  <2>1. CASE call'[c].kind = busy'[e] /\ call'[c].env = e /\ call'[c].card
    BY <2>1
  <2>2. CASE /\ busy'[e] = busy[e]
             /\ ~(call[c].kind = busy[e] /\ call[c].env = e /\ call[c].card)
    <3>1. PICK d \in CallsOf[who] : call[d].kind = busy[e] /\ call[d].env = e /\ call[d].card
      BY <2>2 DEF Key!BusyHonest
    <3> QED
      BY <2>2, <3>1
  <2> QED
    BY <2>1, <2>2
<1> QED
  BY <1>3, <1>4

\* A press.
LEMMA KeyPressFits ==
    ASSUME NEW who,
           Key(who)!ConstantsFit, Key(who)!CallsFit, NEW e \in Key(who)!Envs,
           NEW kind \in {"create"} \cup Key(who)!Acts, Key(who)!Press(kind, e)
    PROVE  /\ here /\ \A p \in Key(who)!Panels : issued[p] = 0
           /\ ~HurriedBy[who] => Key(who)!Idle
           /\ Key(who)!CallsFit'
           /\ \E c \in CallsOf[who] :
                 /\ call[c] = Key(who)!Free /\ call'[c] = Key(who)!Sent(kind, e)
                 /\ \A d \in CallsOf[who] : d # c => call'[d] = call[d]
<1>1. PICK c \in CallsOf[who] : call[c] = Key(who)!Free /\ Key(who)!Turn(c, Key(who)!Sent(kind, e))
  BY DEF Key!Press, Key!Turn
<1>2. Key(who)!Sent(kind, e) \in Key(who)!CallType
  BY KeySentFits
<1>3. Key(who)!CallsFit' /\ call'[c] = Key(who)!Sent(kind, e) /\ \A d \in CallsOf[who] : d # c
         => call'[d] = call[d]
  BY <1>1, <1>2, KeyTurnFits
<1> QED
  BY <1>1, <1>3 DEF Key!Press, Key!Uncovered

\* Pressing "Create integration",
LEMMA KeyCreateTrue ==
    ASSUME NEW who,
           Key(who)!ConstantsFit, Key(who)!TypeOK, Key(who)!CreatingHonest, Key(who)!BusyHonest,
           Key(who)!Create
    PROVE  Key(who)!TypeOK' /\ Key(who)!CreatingHonest' /\ Key(who)!BusyHonest'
<1>1. Key(who)!StoreFits /\ Key(who)!ScreenFits /\ Key(who)!PanelsFit /\ Key(who)!CallsFit
         /\ faults \in 0..FaultsOf[who]
  BY KeyTypeParts
<1>2. /\ Key(who)!Press("create", "test") /\ ~creating /\ creating' = TRUE
      /\ UNCHANGED <<secret, requests, here, list, loading, busy, issued, ack, inHand, cut, faults>>
  BY DEF Key!Create, Key!server, Key!panels
<1>3. "test" \in Key(who)!Envs
  BY DEF Key!Envs
<1>4. PICK c \in CallsOf[who] :
         /\ call[c] = Key(who)!Free /\ call'[c] = Key(who)!Sent("create", "test")
         /\ \A d \in CallsOf[who] : d # c => call'[d] = call[d]
  BY <1>1, <1>2, <1>3, KeyPressFits
<1>5. here /\ Key(who)!CallsFit'
  BY <1>1, <1>2, <1>3, KeyPressFits
<1>6. Key(who)!TypeOK'
  BY <1>1, <1>2, <1>5, KeyPartsType DEF Key!StoreFits, Key!ScreenFits, Key!PanelsFit
<1>7. call'[c].kind = "create" /\ call[c].kind = "load"
  <2>1. "create" \in {"load", "afterCreate", "create"} \cup Key(who)!Acts
    OBVIOUS
  <2>2. Key(who)!Sent("create", "test").kind = "create"
    BY <1>3, <2>1, KeySentFits
  <2> QED
    BY <1>4, <2>2, KeyFreeFits
<1>8. \A e \in Key(who)!Envs : busy[e] # "load"
  BY <1>1 DEF Key!ScreenFits, Key!Acts
<1>9. creating \in BOOLEAN /\ Key(who)!Makes(c)' /\ ~Key(who)!Makes(c)
  BY <1>1, <1>7 DEF Key!ScreenFits, Key!Makes
<1>10. creating' <=> IF Key(who)!Makes(c)' THEN TRUE ELSE creating /\ ~Key(who)!Makes(c)
  BY <1>2, <1>9
<1>11. \A e \in Key(who)!Envs : busy'[e] = busy[e]
          /\ ~(call[c].kind = busy[e] /\ call[c].env = e /\ call[c].card)
  BY <1>2, <1>7, <1>8
<1>12. Key(who)!Makes(c)' => Key(who)!Makes(c) \/ ~creating
  BY <1>2
<1>13. Key(who)!CreatingHonest' /\ Key(who)!BusyHonest'
  BY <1>4, <1>5, <1>9, <1>10, <1>11, <1>12, KeyTurnWords
<1> QED
  BY <1>6, <1>13

\* a card's buttons,
LEMMA KeyActTrue ==
    ASSUME NEW who,
           Key(who)!ConstantsFit, Key(who)!TypeOK, Key(who)!CreatingHonest, Key(who)!BusyHonest,
           NEW kind \in Key(who)!Acts, NEW e \in Key(who)!Envs, Key(who)!Act(kind, e)
    PROVE  Key(who)!TypeOK' /\ Key(who)!CreatingHonest' /\ Key(who)!BusyHonest'
<1>1. Key(who)!StoreFits /\ Key(who)!ScreenFits /\ Key(who)!PanelsFit /\ Key(who)!CallsFit
         /\ faults \in 0..FaultsOf[who]
  BY KeyTypeParts
<1>2. /\ Key(who)!Press(kind, e) /\ busy' = [busy EXCEPT ![e] = kind]
      /\ UNCHANGED <<secret, requests, here, list, loading, creating, issued, ack, inHand, cut,
          faults>>
  BY DEF Key!Act, Key!server, Key!panels
<1>3. PICK c \in CallsOf[who] :
         /\ call[c] = Key(who)!Free /\ call'[c] = Key(who)!Sent(kind, e)
         /\ \A d \in CallsOf[who] : d # c => call'[d] = call[d]
  BY <1>1, <1>2, KeyPressFits
<1>4. here /\ Key(who)!CallsFit'
  BY <1>1, <1>2, KeyPressFits
<1>5. /\ busy' \in [Key(who)!Envs -> {"none"} \cup Key(who)!Acts]
      /\ busy'[e] = kind /\ \A f \in Key(who)!Envs : f # e => busy'[f] = busy[f]
  BY <1>1, <1>2 DEF Key!ScreenFits
<1>6. Key(who)!TypeOK'
  BY <1>1, <1>2, <1>4, <1>5, KeyPartsType DEF Key!StoreFits, Key!ScreenFits, Key!PanelsFit
<1>7. /\ call'[c].kind = kind /\ call'[c].env = e /\ call'[c].card
      /\ call[c].kind = "load"
  <2>1. kind \in {"load", "afterCreate", "create"} \cup Key(who)!Acts
    OBVIOUS
  <2>2. Key(who)!Sent(kind, e).kind = kind /\ Key(who)!Sent(kind, e).env = e
    BY <2>1, KeySentFits
  <2>3. Key(who)!Sent(kind, e).card
    BY <2>1, KeySentFits
  <2> QED
    BY <1>3, <2>2, <2>3, KeyFreeFits
<1>8. \A f \in Key(who)!Envs : busy[f] # "load"
  BY <1>1 DEF Key!ScreenFits, Key!Acts
<1>9. creating \in BOOLEAN /\ ~Key(who)!Makes(c)' /\ ~Key(who)!Makes(c)
  BY <1>1, <1>7 DEF Key!ScreenFits, Key!Makes, Key!Acts
<1>10. creating' <=> IF Key(who)!Makes(c)' THEN TRUE ELSE creating /\ ~Key(who)!Makes(c)
  BY <1>2, <1>9
<1>11. \A f \in Key(who)!Envs : busy'[f] # "none" =>
          \/ call'[c].kind = busy'[f] /\ call'[c].env = f /\ call'[c].card
          \/ /\ busy'[f] = busy[f]
             /\ ~(call[c].kind = busy[f] /\ call[c].env = f /\ call[c].card)
  BY <1>5, <1>7, <1>8
<1>12. Key(who)!CreatingHonest' /\ Key(who)!BusyHonest'
  BY <1>2, <1>3, <1>4, <1>9, <1>10, <1>11, KeyTurnWords
<1> QED
  BY <1>6, <1>12

\* and a panel's.
LEMMA KeyPanelTrue ==
    ASSUME NEW who,
           Key(who)!ConstantsFit, Key(who)!TypeOK, Key(who)!CreatingHonest, Key(who)!BusyHonest,
           NEW p \in Key(who)!Panels, Key(who)!Acknowledge(p) \/ Key(who)!Done(p)
    PROVE  Key(who)!TypeOK' /\ Key(who)!CreatingHonest' /\ Key(who)!BusyHonest'
<1>1. Key(who)!StoreFits /\ Key(who)!ScreenFits /\ Key(who)!PanelsFit /\ Key(who)!CallsFit
         /\ faults \in 0..FaultsOf[who]
  BY KeyTypeParts
<1>2. UNCHANGED <<secret, requests, here, list, loading, creating, busy, call, faults>>
  BY DEF Key!Acknowledge, Key!Done, Key!server
<1>3. Key(who)!PanelsFit'
  <2>1. Key(who)!Of(p) \in Key(who)!Envs /\ 0 \in 0..SecretsOf[who]
           /\ issued[p] \in 0..SecretsOf[who]
    BY <1>1 DEF Key!Of, Key!Panels, Key!Envs, Key!PanelsFit, Key!ConstantsFit
  <2>2. CASE Key(who)!Acknowledge(p)
    BY <1>1, <2>1, <2>2 DEF Key!Acknowledge, Key!PanelsFit
  <2>3. CASE Key(who)!Done(p)
    BY <1>1, <2>1, <2>3 DEF Key!Done, Key!PanelsFit
  <2> QED
    BY <2>2, <2>3
<1>4. Key(who)!TypeOK'
  BY <1>1, <1>2, <1>3, KeyPartsType DEF Key!StoreFits, Key!ScreenFits, Key!CallsFit
<1>5. Key(who)!CreatingHonest' /\ Key(who)!BusyHonest'
  BY <1>2, KeyWordsKeep
<1> QED
  BY <1>4, <1>5

\* Leaving forgets what the screen waits for,
LEMMA KeyLeaveTrue ==
    ASSUME NEW who,
           Key(who)!TypeOK, Key(who)!Leave
    PROVE  Key(who)!TypeOK' /\ Key(who)!CreatingHonest' /\ Key(who)!BusyHonest'
<1>1. Key(who)!TypeOK'
  BY DEF Key!Leave, Key!server, Key!panels, Key!TypeOK, Key!StoreFits, Key!ScreenFits,
       Key!PanelsFit, Key!CallsFit
<1> QED
  BY <1>1 DEF Key!Leave, Key!CreatingHonest, Key!BusyHonest

\* so does the end of a session,
LEMMA KeySessionEndsTrue ==
    ASSUME NEW who,
           Key(who)!ConstantsFit, Key(who)!TypeOK, Key(who)!SessionEnds
    PROVE  Key(who)!TypeOK' /\ Key(who)!CreatingHonest' /\ Key(who)!BusyHonest'
<1>1. Key(who)!StoreFits /\ Key(who)!ScreenFits /\ Key(who)!PanelsFit /\ Key(who)!CallsFit
         /\ faults \in 0..FaultsOf[who]
  BY KeyTypeParts
<1>2. /\ ~here'
      /\ UNCHANGED <<secret, requests, list, loading, creating, busy, inHand, call, faults>>
      /\ issued' = [p \in Key(who)!Panels |-> 0] /\ ack' = [p \in Key(who)!Panels |-> 0]
      /\ here' \in BOOLEAN
  BY DEF Key!SessionEnds, Key!server
<1>3. cut' \subseteq Key(who)!Envs
  <2>1. Key(who)!Unseen \subseteq Key(who)!Envs
    BY <1>1 DEF Key!Unseen, Key!Of, Key!Panels, Key!Envs, Key!CallsFit, Key!CallType
  <2> QED
    BY <1>1, <2>1 DEF Key!SessionEnds, Key!PanelsFit
<1>4. Key(who)!PanelsFit'
  <2>1. 0 \in 0..SecretsOf[who]
    BY DEF Key!ConstantsFit
  <2> QED
    BY <1>1, <1>2, <1>3, <2>1 DEF Key!PanelsFit
<1>5. Key(who)!TypeOK'
  BY <1>1, <1>2, <1>4, KeyPartsType DEF Key!StoreFits, Key!ScreenFits, Key!CallsFit
<1> QED
  BY <1>2, <1>5 DEF Key!CreatingHonest, Key!BusyHonest

\* and coming back waits for its load only.
LEMMA KeyReturnTrue ==
    ASSUME NEW who,
           Key(who)!ConstantsFit, Key(who)!TypeOK, Key(who)!Return
    PROVE  Key(who)!TypeOK' /\ Key(who)!CreatingHonest' /\ Key(who)!BusyHonest'
<1>1. Key(who)!StoreFits /\ Key(who)!ScreenFits /\ Key(who)!PanelsFit /\ Key(who)!CallsFit
         /\ faults \in 0..FaultsOf[who]
  BY KeyTypeParts
<1>2. PICK c \in CallsOf[who] : Key(who)!Turn(c, Key(who)!Sent("load", "test"))
  BY DEF Key!Return, Key!Turn
<1>3. /\ Key(who)!Sent("load", "test") \in Key(who)!CallType
          /\ Key(who)!Sent("load", "test").kind = "load"
  BY KeySentFits DEF Key!Envs
<1>4. /\ Key(who)!CallsFit' /\ call'[c] = Key(who)!Sent("load", "test")
      /\ \A d \in CallsOf[who] : d # c => call'[d] = Key(who)!Free
  <2>1. /\ Key(who)!CallsFit' /\ call'[c] = Key(who)!Sent("load", "test")
        /\ \A d \in CallsOf[who] : d # c => call'[d] = call[d]
    BY <1>1, <1>2, <1>3, KeyTurnFits
  <2>2. \A d \in CallsOf[who] : call[d] = Key(who)!Free
    BY DEF Key!Return, Key!Idle
  <2> QED
    BY <2>1, <2>2
<1>5. Key(who)!TypeOK'
  <2>1. Key(who)!ScreenFits'
    BY DEF Key!Return, Key!ScreenFits, Key!NoView, Key!Lists, Key!Envs
  <2> QED
    BY <1>1, <1>4, <2>1, KeyPartsType DEF Key!Return, Key!server, Key!panels, Key!StoreFits,
         Key!PanelsFit
<1>6. \A d \in CallsOf[who] : ~Key(who)!Makes(d)'
  BY <1>3, <1>4, KeyFreeFits DEF Key!Makes
<1>7. Key(who)!CreatingHonest'
  BY <1>6, KeyMeansCreating DEF Key!Return
<1>8. Key(who)!BusyHonest'
  BY DEF Key!Return, Key!BusyHonest
<1> QED
  BY <1>5, <1>7, <1>8

-----------------------------------------------------------------------------
\* The server's side leaves the screen alone.
LEMMA KeyServeTrue ==
    ASSUME NEW who,
           Key(who)!ConstantsFit, Key(who)!TypeOK, Key(who)!CreatingHonest, Key(who)!BusyHonest,
           NEW c \in CallsOf[who], Key(who)!Serve(c)
    PROVE  Key(who)!TypeOK' /\ Key(who)!CreatingHonest' /\ Key(who)!BusyHonest'
<1>1. Key(who)!StoreFits /\ Key(who)!ScreenFits /\ Key(who)!PanelsFit /\ Key(who)!CallsFit
         /\ faults \in 0..FaultsOf[who]
  BY KeyTypeParts
<1>2. /\ UNCHANGED <<here, list, loading, creating, busy, issued, ack, inHand>>
      /\ cut' \subseteq cut
  BY DEF Key!Serve, Key!ServeLoad, Key!ServeAfterCreate, Key!ServeCreate, Key!ServeRotate,
       Key!ServeEndpoints, Key!CheckAsk,
         Key!WriteAsk, Key!Lose, Key!Screen, Key!panels
<1>3. Key(who)!ScreenFits' /\ Key(who)!PanelsFit'
  BY <1>1, <1>2 DEF Key!ScreenFits, Key!PanelsFit
<1>4. SUFFICES /\ Key(who)!StoreFits' /\ Key(who)!CallsFit' /\ faults' \in 0..FaultsOf[who]
               /\ \A d \in CallsOf[who] : /\ call'[d].kind = call[d].kind
                   /\ call'[d].env = call[d].env
                                          /\ call'[d].card = call[d].card
  BY <1>2, <1>3, KeyWordsKeep, KeyPartsType
<1>5. CASE Key(who)!ServeLoad(c) \/ Key(who)!ServeAfterCreate(c)
  <2>1. Key(who)!StoreFits' /\ faults' = faults
    BY <1>1, <1>5 DEF Key!ServeLoad, Key!ServeAfterCreate, Key!server, Key!StoreFits
  <2> QED
    BY <1>1, <1>5, <2>1, KeyListedFits
<1>6. CASE UNCHANGED <<Key(who)!server, faults>> /\ \E step \in {"checked", "ok", "refused"} :
         Key(who)!Answer(c, step)
  <2>1. Key(who)!StoreFits'
    BY <1>1, <1>6 DEF Key!server, Key!StoreFits
  <2> QED
    BY <1>1, <1>6, <2>1, KeyAnswerFits
<1>7. CASE Key(who)!ServeEndpoints(c) \/ Key(who)!CheckAsk(c)
  BY <1>6, <1>7 DEF Key!ServeEndpoints, Key!CheckAsk
<1>8. CASE Key(who)!ServeCreate(c)
  <2>1. CASE secret["test"] # 0
    BY <1>6, <1>8, <2>1 DEF Key!ServeCreate, Key!server
  <2>2. CASE secret["test"] = 0
    <3>1. Key(who)!Issue(c, "test", 1) /\ UNCHANGED faults
      BY <1>8, <2>2 DEF Key!ServeCreate, Key!Issue
    <3>2. 1 \in 1..SecretsOf[who] /\ "test" \in Key(who)!Envs
      BY DEF Key!ConstantsFit, Key!Envs
    <3> QED
      BY <1>1, <3>1, <3>2, KeyIssuedFits
  <2> QED
    BY <2>1, <2>2
<1>9. CASE Key(who)!ServeRotate(c)
  <2> DEFINE e == call[c].env
             n == secret[e] + 1
  <2>1. secret[e] < SecretsOf[who] /\ Key(who)!Issue(c, e, n) /\ UNCHANGED faults
    BY <1>1, <1>9 DEF Key!ServeRotate, Key!StoreFits, Key!Issue
  <2>2. e \in Key(who)!Envs
    BY <1>1 DEF Key!CallsFit, Key!CallType
  <2>3. n \in 1..SecretsOf[who]
    BY <1>1, <2>1, <2>2 DEF Key!StoreFits, Key!ConstantsFit
  <2> HIDE DEF e, n
  <2> QED
    BY <1>1, <2>1, <2>2, <2>3, KeyIssuedFits
<1>10. CASE Key(who)!WriteAsk(c)
  <2>1. Key(who)!StoreFits'
    BY <1>1, <1>10 DEF Key!WriteAsk, Key!StoreFits
  <2> QED
    BY <1>1, <1>10, <2>1, KeyAnswerFits DEF Key!WriteAsk
<1>11. CASE Key(who)!Lose(c)
  <2>1. Key(who)!StoreFits' /\ faults' \in 0..FaultsOf[who]
    BY <1>1, <1>11 DEF Key!Lose, Key!server, Key!StoreFits, Key!ConstantsFit
  <2> QED
    BY <1>1, <1>11, <2>1, KeyAnswerFits DEF Key!Lose
<1> QED
  BY <1>5, <1>7, <1>8, <1>9, <1>10, <1>11 DEF Key!Serve

\* The bank's decisions.
LEMMA KeyDecideTrue ==
    ASSUME NEW who,
           Key(who)!ConstantsFit, Key(who)!TypeOK, Key(who)!CreatingHonest, Key(who)!BusyHonest,
           NEW i \in DOMAIN requests, Key(who)!Decide(i)
    PROVE  Key(who)!TypeOK' /\ Key(who)!CreatingHonest' /\ Key(who)!BusyHonest'
<1>1. Key(who)!StoreFits /\ Key(who)!ScreenFits /\ Key(who)!PanelsFit /\ Key(who)!CallsFit
         /\ faults \in 0..FaultsOf[who]
  BY KeyTypeParts
<1>2. UNCHANGED <<here, list, loading, creating, busy, issued, ack, inHand, cut, call>>
  BY DEF Key!Decide, Key!Screen, Key!panels
<1>3. Key(who)!ScreenFits' /\ Key(who)!PanelsFit' /\ Key(who)!CallsFit'
  BY <1>1, <1>2 DEF Key!ScreenFits, Key!PanelsFit, Key!CallsFit
<1>4. /\ \/ requests' = [requests EXCEPT ![i] = "approved"]
         \/ requests' = [requests EXCEPT ![i] = "rejected"]
      /\ \/ secret' = secret
         \/ secret' = [secret EXCEPT !["live"] = IF secret["live"] = 0 THEN 1 ELSE secret["live"]]
      /\ faults' = faults \/ (faults < FaultsOf[who] /\ faults' = faults + 1)
  BY DEF Key!Decide
<1>5. Key(who)!StoreFits'
  <2>1. requests' \in Seq({"pending", "approved", "rejected"})
    BY <1>1, <1>4, ExceptSeq DEF Key!StoreFits
  <2>2. secret' \in [Key(who)!Envs -> 0..SecretsOf[who]]
    BY <1>1, <1>4 DEF Key!StoreFits, Key!ConstantsFit
  <2> QED
    BY <2>1, <2>2 DEF Key!StoreFits
<1>6. faults' \in 0..FaultsOf[who]
  BY <1>1, <1>4 DEF Key!ConstantsFit
<1> QED
  BY <1>2, <1>3, <1>5, <1>6, KeyWordsKeep, KeyPartsType

-----------------------------------------------------------------------------
\* The screen takes an answer, or nobody does.
LEMMA KeyTakeLoadTrue ==
    ASSUME NEW who,
           Key(who)!ConstantsFit, Key(who)!TypeOK, Key(who)!CreatingHonest, Key(who)!BusyHonest,
           NEW c \in CallsOf[who], Key(who)!TakeLoad(c)
    PROVE  Key(who)!TypeOK' /\ Key(who)!CreatingHonest' /\ Key(who)!BusyHonest'
<1>1. Key(who)!StoreFits /\ Key(who)!ScreenFits /\ Key(who)!PanelsFit /\ Key(who)!CallsFit
         /\ faults \in 0..FaultsOf[who]
  BY KeyTypeParts
<1> DEFINE v == IF call[c].step = "ok"
                THEN [shown |-> call[c].view, latest |-> call[c].latest] ELSE Key(who)!NoView
<1>2. /\ here /\ call[c].kind \in {"load", "afterCreate"} /\ Key(who)!ShowList(c, v)
      /\ creating' = (creating /\ call[c].kind # "afterCreate")
      /\ UNCHANGED <<secret, requests, here, inHand, cut, faults>>
  BY DEF Key!TakeLoad, Key!server
<1>3. v \in Key(who)!Lists
  <2>1. call[c].view \in [Key(who)!Envs -> {"none", "idle", "pending", "live"}]
        /\ call[c].latest \in {"none", "pending", "approved", "rejected"}
    BY <1>1 DEF Key!CallsFit, Key!CallType
  <2> QED
    BY <2>1 DEF Key!NoView, Key!Lists
<1> HIDE DEF v
<1>4. /\ Key(who)!CallsFit' /\ call'[c] = Key(who)!Free /\ list' = v /\ ~loading'
      /\ \A d \in CallsOf[who] : d # c =>
            /\ call'[d].step = call[d].step /\ call'[d].kind = call[d].kind
            /\ call'[d].env = call[d].env /\ call'[d].secret = call[d].secret
            /\ call'[d].card = (call[d].card
                /\ (call[d].kind \in Key(who)!Acts => v.shown[call[d].env] # "none"))
            /\ call[d] = Key(who)!Free => call'[d] = Key(who)!Free
      /\ \A e \in Key(who)!Envs : busy'[e] = IF v.shown[e] # "none" THEN busy[e] ELSE "none"
      /\ busy' \in [Key(who)!Envs -> {"none"} \cup Key(who)!Acts]
      /\ issued' \in [Key(who)!Panels -> 0..SecretsOf[who]]
          /\ ack' \in [Key(who)!Panels -> 0..SecretsOf[who]]
  BY <1>1, <1>2, <1>3, KeyShownFits
<1>5. Key(who)!TypeOK'
  <2>1. loading' = FALSE
    BY <1>2 DEF Key!ShowList
  <2>2. Key(who)!ScreenFits'
    BY <1>1, <1>2, <1>3, <1>4, <2>1 DEF Key!ScreenFits
  <2> QED
    BY <1>1, <1>2, <1>4, <2>2, KeyPartsType DEF Key!StoreFits, Key!PanelsFit
<1>6. Key(who)!CreatingHonest'
  <2>1. /\ creating <=> \E d \in CallsOf[who] : Key(who)!Makes(d)
        /\ \A d, e \in CallsOf[who] : Key(who)!Makes(d) /\ Key(who)!Makes(e) => d = e
    BY <1>2, KeyCreatingMeans
  <2>2. ~Key(who)!Makes(c)' /\ \A d \in CallsOf[who] : d # c
           => (Key(who)!Makes(d)' <=> Key(who)!Makes(d))
    BY <1>4, KeyFreeFits DEF Key!Makes
  <2>3. Key(who)!Makes(c) <=> call[c].kind = "afterCreate"
    BY <1>2 DEF Key!Makes
  <2>4. creating' <=> \E d \in CallsOf[who] : Key(who)!Makes(d)'
    BY <1>2, <2>1, <2>2, <2>3
  <2> QED
    BY <2>1, <2>2, <2>4, KeyMeansCreating
<1>7. Key(who)!BusyHonest'
  <2> SUFFICES ASSUME NEW e \in Key(who)!Envs, busy'[e] # "none"
               PROVE  \E d \in CallsOf[who] : /\ call'[d].kind = busy'[e] /\ call'[d].env = e
                                              /\ call'[d].card
    BY DEF Key!BusyHonest
  <2>1. busy'[e] = busy[e] /\ v.shown[e] # "none"
    BY <1>4
  <2>2. PICK d \in CallsOf[who] : call[d].kind = busy[e] /\ call[d].env = e /\ call[d].card
    BY <1>2, <2>1 DEF Key!BusyHonest
  <2>3. busy[e] \in Key(who)!Acts
    BY <1>1, <2>1 DEF Key!ScreenFits
  <2>4. d # c
    BY <1>2, <2>2, <2>3 DEF Key!Acts
  <2> QED
    BY <1>4, <2>1, <2>2, <2>4
<1> QED
  BY <1>5, <1>6, <1>7

\* Answers to a screen that is there: to its button,
LEMMA KeyTakeCreatedTrue ==
    ASSUME NEW who,
           Key(who)!ConstantsFit, Key(who)!TypeOK, Key(who)!CreatingHonest, Key(who)!BusyHonest,
           NEW c \in CallsOf[who], Key(who)!TakeCreated(c)
    PROVE  Key(who)!TypeOK' /\ Key(who)!CreatingHonest' /\ Key(who)!BusyHonest'
<1>1. Key(who)!StoreFits /\ Key(who)!ScreenFits /\ Key(who)!PanelsFit /\ Key(who)!CallsFit
         /\ faults \in 0..FaultsOf[who]
  BY KeyTypeParts
<1>2. /\ here /\ call[c].kind = "create"
      /\ issued' = [issued EXCEPT !["new"] = call[c].secret]
      /\ Key(who)!Turn(c, Key(who)!Sent("afterCreate", "test"))
      /\ UNCHANGED <<secret, requests, here, list, loading, creating, busy, ack, inHand, cut,
          faults>>
  BY DEF Key!TakeCreated, Key!At, Key!server, Key!Turn
<1>3. Key(who)!Sent("afterCreate", "test") \in Key(who)!CallType
         /\ Key(who)!Sent("afterCreate", "test").kind = "afterCreate"
  BY KeySentFits DEF Key!Envs
<1>4. /\ Key(who)!CallsFit' /\ call'[c].kind = "afterCreate"
      /\ \A d \in CallsOf[who] : d # c => call'[d] = call[d]
  BY <1>1, <1>2, <1>3, KeyTurnFits
<1>5. Key(who)!TypeOK'
  <2>1. call[c].secret \in 0..SecretsOf[who]
    BY <1>1 DEF Key!CallsFit, Key!CallType
  <2>2. Key(who)!PanelsFit'
    BY <1>1, <1>2, <2>1 DEF Key!PanelsFit
  <2> QED
    BY <1>1, <1>2, <1>4, <2>2, KeyPartsType DEF Key!StoreFits, Key!ScreenFits
<1>6. Key(who)!Makes(c) /\ Key(who)!Makes(c)' /\ creating \in BOOLEAN
  BY <1>1, <1>2, <1>4 DEF Key!Makes, Key!ScreenFits
<1>7. creating
  BY <1>2, <1>6, KeyCreatingMeans
<1>8. \A e \in Key(who)!Envs : busy[e] # "create"
  BY <1>1 DEF Key!ScreenFits, Key!Acts
<1>9. \A e \in Key(who)!Envs : busy'[e] = busy[e]
         /\ ~(call[c].kind = busy[e] /\ call[c].env = e /\ call[c].card)
  BY <1>2, <1>8
<1>10. creating' <=> IF Key(who)!Makes(c)' THEN TRUE ELSE creating /\ ~Key(who)!Makes(c)
  BY <1>2, <1>6, <1>7
<1>11. Key(who)!CreatingHonest' /\ Key(who)!BusyHonest'
  BY <1>2, <1>4, <1>6, <1>9, <1>10, KeyTurnWords
<1> QED
  BY <1>5, <1>11

\* to its cards,
LEMMA KeyTakeActedTrue ==
    ASSUME NEW who,
           Key(who)!ConstantsFit, Key(who)!TypeOK, Key(who)!CreatingHonest, Key(who)!BusyHonest,
           NEW c \in CallsOf[who], Key(who)!TakeActed(c)
    PROVE  Key(who)!TypeOK' /\ Key(who)!CreatingHonest' /\ Key(who)!BusyHonest'
<1>1. Key(who)!StoreFits /\ Key(who)!ScreenFits /\ Key(who)!PanelsFit /\ Key(who)!CallsFit
         /\ faults \in 0..FaultsOf[who]
  BY KeyTypeParts
<1>2. /\ here /\ call[c].kind \in Key(who)!Acts
      /\ Key(who)!Turn(c, Key(who)!Sent("load", "test"))
      /\ UNCHANGED <<secret, requests, here, list, loading, creating, ack, inHand, cut, faults>>
  BY DEF Key!TakeActed, Key!server, Key!Turn
<1>3. Key(who)!Sent("load", "test") \in Key(who)!CallType
         /\ Key(who)!Sent("load", "test").kind = "load"
  BY KeySentFits DEF Key!Envs
<1>4. /\ Key(who)!CallsFit' /\ call'[c].kind = "load"
      /\ \A d \in CallsOf[who] : d # c => call'[d] = call[d]
  BY <1>1, <1>2, <1>3, KeyTurnFits
<1>5. /\ busy' \in [Key(who)!Envs -> {"none"} \cup Key(who)!Acts]
      /\ \A e \in Key(who)!Envs : busy'[e] # "none" =>
            busy'[e] = busy[e] /\ ~(call[c].env = e /\ call[c].card)
  <2>1. CASE call[c].card
    <3>1. busy' = [busy EXCEPT ![call[c].env] = "none"]
      BY <2>1 DEF Key!TakeActed
    <3> QED
      BY <1>1, <3>1 DEF Key!ScreenFits
  <2>2. CASE ~call[c].card
    BY <1>1, <2>2 DEF Key!TakeActed, Key!ScreenFits
  <2> QED
    BY <2>1, <2>2
<1>6. Key(who)!PanelsFit'
  <2>1. call[c].secret \in 0..SecretsOf[who] /\ call[c].env \in Key(who)!Envs
    BY <1>1 DEF Key!CallsFit, Key!CallType
  <2>2. issued' = issued \/ issued' = [issued EXCEPT ![call[c].env] = call[c].secret]
    BY DEF Key!TakeActed
  <2> QED
    BY <1>1, <1>2, <2>1, <2>2 DEF Key!PanelsFit
<1>7. Key(who)!TypeOK'
  BY <1>1, <1>2, <1>4, <1>5, <1>6, KeyPartsType DEF Key!StoreFits, Key!ScreenFits
<1>8. ~Key(who)!Makes(c) /\ ~Key(who)!Makes(c)' /\ creating \in BOOLEAN
  BY <1>1, <1>2, <1>4 DEF Key!Makes, Key!Acts, Key!ScreenFits
<1>9. Key(who)!CreatingHonest' /\ Key(who)!BusyHonest'
  BY <1>2, <1>4, <1>5, <1>8, KeyTurnWords
<1> QED
  BY <1>7, <1>9

\* refusals of either,
LEMMA KeyTakeRefusalTrue ==
    ASSUME NEW who,
           Key(who)!ConstantsFit, Key(who)!TypeOK, Key(who)!CreatingHonest, Key(who)!BusyHonest,
           NEW c \in CallsOf[who], Key(who)!TakeRefusal(c)
    PROVE  Key(who)!TypeOK' /\ Key(who)!CreatingHonest' /\ Key(who)!BusyHonest'
<1>1. Key(who)!StoreFits /\ Key(who)!ScreenFits /\ Key(who)!PanelsFit /\ Key(who)!CallsFit
         /\ faults \in 0..FaultsOf[who]
  BY KeyTypeParts
<1>2. /\ here /\ call[c].kind \in {"create"} \cup Key(who)!Acts
      /\ creating' = (creating /\ call[c].kind # "create")
      /\ busy' = IF call[c].kind \in Key(who)!Acts /\ call[c].card
                 THEN [busy EXCEPT ![call[c].env] = "none"] ELSE busy
      /\ Key(who)!Turn(c, Key(who)!Free)
      /\ UNCHANGED <<secret, requests, here, list, loading, issued, ack, inHand, cut, faults>>
  BY DEF Key!TakeRefusal, Key!server, Key!panels, Key!Turn
<1>3. /\ Key(who)!CallsFit' /\ call'[c] = Key(who)!Free
      /\ \A d \in CallsOf[who] : d # c => call'[d] = call[d]
  BY <1>1, <1>2, KeyFreeFits, KeyTurnFits
<1>4. /\ busy' \in [Key(who)!Envs -> {"none"} \cup Key(who)!Acts]
      /\ \A e \in Key(who)!Envs : busy'[e] # "none" =>
            busy'[e] = busy[e] /\ ~(call[c].kind = busy[e] /\ call[c].env = e /\ call[c].card)
  <2>1. CASE call[c].kind \in Key(who)!Acts /\ call[c].card
    <3>1. busy' = [busy EXCEPT ![call[c].env] = "none"]
      BY <1>2, <2>1
    <3> QED
      BY <1>1, <3>1 DEF Key!ScreenFits
  <2>2. CASE ~(call[c].kind \in Key(who)!Acts /\ call[c].card)
    BY <1>1, <1>2, <2>2 DEF Key!ScreenFits
  <2> QED
    BY <2>1, <2>2
<1>5. Key(who)!TypeOK'
  BY <1>1, <1>2, <1>3, <1>4, KeyPartsType DEF Key!StoreFits, Key!ScreenFits, Key!PanelsFit
<1>6. (Key(who)!Makes(c) <=> call[c].kind = "create") /\ ~Key(who)!Makes(c)' /\ creating \in BOOLEAN
  BY <1>1, <1>2, <1>3, KeyFreeFits DEF Key!Makes, Key!Acts, Key!ScreenFits
<1>7. Key(who)!CreatingHonest' /\ Key(who)!BusyHonest'
  BY <1>2, <1>3, <1>4, <1>6, KeyTurnWords
<1> QED
  BY <1>5, <1>7

\* and those to a screen, or a card, that is gone.
LEMMA KeyTakeLateTrue ==
    ASSUME NEW who,
           Key(who)!ConstantsFit, Key(who)!TypeOK, NEW c \in CallsOf[who], Key(who)!TakeLate(c)
    PROVE  Key(who)!TypeOK' /\ Key(who)!CreatingHonest' /\ Key(who)!BusyHonest'
<1>1. Key(who)!StoreFits /\ Key(who)!ScreenFits /\ Key(who)!PanelsFit /\ Key(who)!CallsFit
         /\ faults \in 0..FaultsOf[who]
  BY KeyTypeParts
<1>2. /\ ~here /\ Key(who)!Turn(c, Key(who)!Free)
      /\ UNCHANGED <<secret, requests, here, list, loading, creating, busy, issued, ack, inHand, cut,
          faults>>
  BY DEF Key!TakeLate, Key!server, Key!Screen, Key!panels, Key!Turn
<1>3. Key(who)!CallsFit'
  BY <1>1, <1>2, KeyFreeFits, KeyTurnFits
<1>4. Key(who)!TypeOK'
  BY <1>1, <1>2, <1>3, KeyPartsType DEF Key!StoreFits, Key!ScreenFits, Key!PanelsFit
<1> QED
  BY <1>2, <1>4 DEF Key!CreatingHonest, Key!BusyHonest

-----------------------------------------------------------------------------
\* An integrator who lets one call end before the next.  One call is turned, and it is the
\* only one under way.
LEMMA KeyPatientTurn ==
    ASSUME NEW who,
           Key(who)!ConstantsFit, NEW c \in CallsOf[who], \A d \in CallsOf[who] : d # c
           => call'[d] = Key(who)!Free,
           call'[c].card,
           ~here' /\ call'[c].kind \in {"create", "rotate"} => call'[c].env \in cut',
           call'[c].kind \in {"create"} \cup Key(who)!Acts => \A p \in Key(who)!Panels :
           issued'[p] = 0,
           call'[c].kind = "create" => call'[c].env = "test",
           call'[c].secret # 0 => call'[c].step = "ok" /\ call'[c].kind \in {"create", "rotate"},
           call'[c].step = "ok" /\ call'[c].kind \in {"create", "rotate"} =>
              call'[c].secret # 0 /\ call'[c].secret = secret'[call'[c].env],
           call'[c].kind \in {"load", "afterCreate"} =>
              /\ call'[c].step # "refused"
              /\ call'[c].step = "ok" => \A e \in Key(who)!Envs : issued'[e] # 0
                  => call'[c].view[e] # "none",
           Key(who)!AckFits', Key(who)!ShownWorks', Key(who)!SecretInHand'
    PROVE  Key(who)!PatientInv'
<1>1. /\ Key(who)!Free.card /\ Key(who)!Free.kind = "load" /\ Key(who)!Free.step = "free"
          /\ Key(who)!Free.secret = 0
  BY KeyFreeFits
<1>2. Key(who)!OneUnderWay' /\ Key(who)!AwayCut' /\ Key(who)!CardsStay'
  BY <1>1 DEF Key!OneUnderWay, Key!AwayCut, Key!CardsStay, Key!Free
<1>3. Key(who)!PressedUncovered'
  BY <1>1 DEF Key!PressedUncovered, Key!Acts
<1>4. Key(who)!SecretsCarried'
  BY <1>1 DEF Key!SecretsCarried
<1>5. Key(who)!ListsFit'
  BY <1>1 DEF Key!ListsFit
<1> QED
  BY <1>2, <1>3, <1>4, <1>5 DEF Key!PatientInv

\* The rest of the calls is free while one is under way.
LEMMA KeyOthersFree ==
    ASSUME NEW who,
           Key(who)!ConstantsFit, Key(who)!PatientInv, NEW c \in CallsOf[who], call[c].step # "free"
    PROVE  /\ \A d \in CallsOf[who] : d # c => call[d] = Key(who)!Free
           /\ ~here /\ call[c].kind \in {"create", "rotate"} => call[c].env \in cut
BY KeyFreeFits DEF Key!PatientInv, Key!OneUnderWay, Key!AwayCut, Key!Idle

\* One who waits presses a button while nothing is under way.
LEMMA KeyPatientPress ==
    ASSUME NEW who,
           Key(who)!ConstantsFit, Key(who)!TypeOK, Key(who)!PatientInv, ~HurriedBy[who],
           NEW e \in Key(who)!Envs, NEW kind \in {"create"} \cup Key(who)!Acts,
           Key(who)!Press(kind, e), kind = "create" => e = "test",
           UNCHANGED <<secret, here, issued, ack, inHand, cut>>
    PROVE  Key(who)!PatientInv'
<1>1. PICK c \in CallsOf[who] :
         /\ call'[c] = Key(who)!Sent(kind, e)
         /\ \A d \in CallsOf[who] : d # c => call'[d] = call[d]
  BY KeyPressFits, KeyTypeParts
<1>2. /\ here /\ \A p \in Key(who)!Panels : issued[p] = 0
      /\ \A d \in CallsOf[who] : call[d] = Key(who)!Free
  BY KeyPressFits, KeyTypeParts DEF Key!Idle
<1>3. /\ call'[c].step = "sent" /\ call'[c].kind = kind /\ call'[c].env = e /\ call'[c].card
      /\ call'[c].secret = 0
  <2>1. kind \in {"load", "afterCreate", "create"} \cup Key(who)!Acts
    OBVIOUS
  <2>2. /\ Key(who)!Sent(kind, e).step = "sent" /\ Key(who)!Sent(kind, e).kind = kind
            /\ Key(who)!Sent(kind, e).env = e
        /\ Key(who)!Sent(kind, e).card /\ Key(who)!Sent(kind, e).secret = 0
    BY <2>1, KeySentFits
  <2> QED
    BY <1>1, <2>2
<1>4. Key(who)!AckFits' /\ Key(who)!ShownWorks'
  BY DEF Key!PatientInv, Key!AckFits, Key!ShownWorks
<1>5. Key(who)!SecretInHand'
  <2>1. \A d \in CallsOf[who] : call[d].step # "ok"
    BY <1>2, KeyFreeFits
  <2> QED
    BY <2>1 DEF Key!PatientInv, Key!SecretInHand
<1>6. kind \notin {"load", "afterCreate"}
  BY DEF Key!Acts
<1> QED
  BY <1>1, <1>2, <1>3, <1>4, <1>5, <1>6, KeyPatientTurn

\* The panel closes on a secret that was ticked as copied.
LEMMA KeyPatientPanel ==
    ASSUME NEW who,
           Key(who)!ConstantsFit, Key(who)!TypeOK, Key(who)!PatientInv, NEW p \in Key(who)!Panels,
           Key(who)!Acknowledge(p) \/ Key(who)!Done(p)
    PROVE  Key(who)!PatientInv'
<1>1. Key(who)!PanelsFit /\ UNCHANGED <<secret, here, cut, call>>
  BY KeyTypeParts DEF Key!Acknowledge, Key!Done, Key!server
<1>2. Key(who)!AckFits /\ Key(who)!ShownWorks /\ Key(who)!SecretInHand /\ Key(who)!ListsFit
         /\ Key(who)!PressedUncovered
  BY DEF Key!PatientInv
<1>3. Key(who)!Of(p) \in Key(who)!Envs
  BY DEF Key!Of, Key!Panels, Key!Envs
<1>4. Key(who)!OneUnderWay' /\ Key(who)!AwayCut' /\ Key(who)!CardsStay' /\ Key(who)!SecretsCarried'
  BY <1>1 DEF Key!PatientInv, Key!OneUnderWay, Key!AwayCut, Key!Idle, Key!CardsStay,
       Key!SecretsCarried
<1>5. CASE Key(who)!Acknowledge(p)
  <2>1. /\ issued[p] # 0 /\ UNCHANGED issued
        /\ ack' = [ack EXCEPT ![p] = issued[p]]
            /\ inHand' = [inHand EXCEPT ![Key(who)!Of(p)] = issued[p]]
    BY <1>5 DEF Key!Acknowledge
  <2>2. issued[p] = secret[Key(who)!Of(p)]
    BY <1>2, <2>1 DEF Key!ShownWorks
  <2>3. /\ inHand'[Key(who)!Of(p)] = secret[Key(who)!Of(p)]
        /\ \A e \in Key(who)!Envs : e # Key(who)!Of(p) => inHand'[e] = inHand[e]
    BY <1>1, <1>3, <2>1, <2>2 DEF Key!PanelsFit
  <2>4. Key(who)!AckFits'
    <3> SUFFICES ASSUME NEW q \in Key(who)!Panels, ack'[q] # 0
                 PROVE  ack'[q] = issued[q] /\ inHand'[Key(who)!Of(q)] = issued[q]
      BY <2>1 DEF Key!AckFits
    <3>1. CASE q = p
      BY <1>1, <2>1, <2>2, <2>3, <3>1 DEF Key!PanelsFit
    <3>2. CASE q # p
      <4>1. ack[q] = ack'[q]
        BY <1>1, <2>1, <3>2 DEF Key!PanelsFit
      <4>2. ack[q] = issued[q] /\ inHand[Key(who)!Of(q)] = issued[q] /\ issued[q] # 0
        BY <1>2, <4>1 DEF Key!AckFits
      <4>3. issued[q] = secret[Key(who)!Of(q)] /\ Key(who)!Of(q) \in Key(who)!Envs
        BY <1>2, <4>2 DEF Key!ShownWorks, Key!Of, Key!Panels, Key!Envs
      <4> QED
        BY <2>3, <4>1, <4>2, <4>3
    <3> QED
      BY <3>1, <3>2
  <2>5. Key(who)!ShownWorks' /\ Key(who)!ListsFit' /\ Key(who)!PressedUncovered'
    BY <1>1, <1>2, <2>1 DEF Key!ShownWorks, Key!ListsFit, Key!PressedUncovered
  <2>6. Key(who)!SecretInHand'
    BY <1>1, <1>2, <2>1, <2>3 DEF Key!SecretInHand
  <2> QED
    BY <1>4, <2>4, <2>5, <2>6 DEF Key!PatientInv
<1>6. CASE Key(who)!Done(p)
  <2>1. /\ issued[p] # 0 /\ ack[p] # 0 /\ UNCHANGED inHand
        /\ issued' = [issued EXCEPT ![p] = 0] /\ ack' = [ack EXCEPT ![p] = 0]
    BY <1>6 DEF Key!Done
  <2>2. /\ issued'[p] = 0 /\ ack'[p] = 0
        /\ \A q \in Key(who)!Panels : q # p => issued'[q] = issued[q] /\ ack'[q] = ack[q]
    BY <1>1, <2>1 DEF Key!PanelsFit
  <2>3. inHand[Key(who)!Of(p)] = issued[p]
    BY <1>2, <2>1 DEF Key!AckFits
  <2>4. Key(who)!AckFits' /\ Key(who)!ShownWorks'
    BY <1>1, <1>2, <2>1, <2>2 DEF Key!AckFits, Key!ShownWorks
  <2>5. Key(who)!ListsFit' /\ Key(who)!PressedUncovered'
    BY <1>1, <1>2, <2>2 DEF Key!ListsFit, Key!PressedUncovered, Key!Panels
  <2>6. Key(who)!SecretInHand'
    BY <1>1, <1>2, <2>1, <2>2, <2>3 DEF Key!SecretInHand
  <2> QED
    BY <1>4, <2>4, <2>5, <2>6 DEF Key!PatientInv
<1> QED
  BY <1>5, <1>6

\* One who waits leaves no call behind.
LEMMA KeyPatientAway ==
    ASSUME NEW who,
           Key(who)!ConstantsFit, Key(who)!TypeOK, Key(who)!PatientInv, ~HurriedBy[who],
           Key(who)!Leave \/ Key(who)!Return
    PROVE  Key(who)!PatientInv'
<1>1. UNCHANGED <<secret, issued, ack, inHand, cut>> /\ Key(who)!Idle
  BY DEF Key!Leave, Key!Return, Key!Uncovered, Key!server, Key!panels
<1>2. Key(who)!AckFits' /\ Key(who)!ShownWorks'
  BY <1>1 DEF Key!PatientInv, Key!AckFits, Key!ShownWorks
<1>3. Key(who)!SecretInHand'
  <2>1. \A d \in CallsOf[who] : call[d].step # "ok"
    BY <1>1, KeyFreeFits DEF Key!Idle
  <2> QED
    BY <1>1, <2>1 DEF Key!PatientInv, Key!SecretInHand
<1>4. CASE Key(who)!Leave
  <2>1. UNCHANGED call
    BY <1>4 DEF Key!Leave
  <2> QED
    BY <1>1, <1>2, <1>3, <2>1, KeyFreeFits
       DEF Key!PatientInv, Key!OneUnderWay, Key!AwayCut, Key!Idle, Key!CardsStay,
       Key!PressedUncovered, Key!SecretsCarried,
           Key!ListsFit
<1>5. CASE Key(who)!Return
  <2>1. PICK c \in CallsOf[who] : Key(who)!Turn(c, Key(who)!Sent("load", "test"))
    BY <1>5 DEF Key!Return, Key!Turn
  <2>2. /\ Key(who)!Sent("load", "test") \in Key(who)!CallType
            /\ Key(who)!Sent("load", "test").step = "sent"
        /\ Key(who)!Sent("load", "test").kind = "load" /\ Key(who)!Sent("load", "test").card
        /\ Key(who)!Sent("load", "test").secret = 0
    BY KeySentFits DEF Key!Envs
  <2>3. call'[c] = Key(who)!Sent("load", "test") /\ \A d \in CallsOf[who] : d # c
           => call'[d] = Key(who)!Free
    <3>1. Key(who)!CallsFit /\ \A d \in CallsOf[who] : call[d] = Key(who)!Free
      BY <1>1, KeyTypeParts DEF Key!Idle
    <3>2. call'[c] = Key(who)!Sent("load", "test") /\ \A d \in CallsOf[who] : d # c
             => call'[d] = call[d]
      BY <2>1, <2>2, <3>1, KeyTurnFits
    <3> QED
      BY <3>1, <3>2
  <2>4. here'
    BY <1>5 DEF Key!Return
  <2> QED
    BY <1>2, <1>3, <2>2, <2>3, <2>4, KeyPatientTurn DEF Key!Acts
<1> QED
  BY <1>4, <1>5

\* The session's end takes a secret that is not in hand from a panel that was not ticked,
\* or from a call that would have brought it, and those are kept account of.
LEMMA KeyPatientCut ==
    ASSUME NEW who,
           Key(who)!ConstantsFit, Key(who)!TypeOK, Key(who)!PatientInv, ~HurriedBy[who],
           Key(who)!SessionEnds
    PROVE  Key(who)!PatientInv'
<1>1. /\ UNCHANGED <<secret, inHand, call>> /\ cut' = cut \cup Key(who)!Unseen
      /\ \A p \in Key(who)!Panels : issued'[p] = 0 /\ ack'[p] = 0
  BY DEF Key!SessionEnds, Key!server
<1>2. Key(who)!OneUnderWay' /\ Key(who)!CardsStay' /\ Key(who)!SecretsCarried'
  BY <1>1 DEF Key!PatientInv, Key!OneUnderWay, Key!CardsStay, Key!SecretsCarried
<1>3. Key(who)!PressedUncovered' /\ Key(who)!AckFits' /\ Key(who)!ShownWorks'
  BY <1>1 DEF Key!PressedUncovered, Key!AckFits, Key!ShownWorks
<1>4. Key(who)!ListsFit'
  BY <1>1 DEF Key!PatientInv, Key!ListsFit, Key!Panels
<1>5. \A c \in CallsOf[who] : call[c].kind \in {"create", "rotate"} => call[c].env \in cut'
  BY <1>1 DEF Key!Unseen
<1>6. Key(who)!AwayCut'
  BY <1>1, <1>5 DEF Key!AwayCut
<1>7. Key(who)!SecretInHand'
  <2> SUFFICES ASSUME NEW e \in Key(who)!Envs \ cut', secret[e] > (IF e = "live" THEN 1 ELSE 0)
               PROVE  inHand[e] = secret[e]
    BY <1>1 DEF Key!SecretInHand
  <2>1. secret[e] # 0
    BY KeyTypeParts DEF Key!StoreFits
  <2>2. \/ inHand[e] = secret[e]
        \/ \E p \in Key(who)!Panels : Key(who)!Of(p) = e /\ issued[p] = secret[e]
        \/ \E c \in CallsOf[who] : call[c].step = "ok" /\ call[c].env = e
            /\ call[c].secret = secret[e]
    BY <1>1 DEF Key!PatientInv, Key!SecretInHand
  <2>3. ASSUME NEW p \in Key(who)!Panels, Key(who)!Of(p) = e, issued[p] = secret[e]
        PROVE  inHand[e] = secret[e]
    <3>1. ack[p] # 0
      BY <1>1, <2>1, <2>3 DEF Key!Unseen
    <3> QED
      BY <2>3, <3>1 DEF Key!PatientInv, Key!AckFits
  <2>4. ~ \E c \in CallsOf[who] : call[c].env = e /\ call[c].secret = secret[e]
    BY <1>5, <2>1 DEF Key!PatientInv, Key!SecretsCarried
  <2> QED
    BY <2>2, <2>3, <2>4
<1> QED
  BY <1>2, <1>3, <1>4, <1>6, <1>7 DEF Key!PatientInv

\* What is answered after it is forgotten.
LEMMA KeyPatientTakeLate ==
    ASSUME NEW who,
           Key(who)!ConstantsFit, Key(who)!TypeOK, Key(who)!PatientInv, NEW c \in CallsOf[who],
           Key(who)!TakeLate(c)
    PROVE  Key(who)!PatientInv'
<1>1. Key(who)!CallsFit
  BY KeyTypeParts
<1>2. /\ ~here /\ call[c].step # "free" /\ Key(who)!Turn(c, Key(who)!Free)
      /\ UNCHANGED <<secret, here, issued, ack, inHand, cut>>
  BY DEF Key!TakeLate, Key!server, Key!Screen, Key!panels, Key!Turn
<1>3. \A d \in CallsOf[who] : call'[d] = Key(who)!Free /\ (d # c => call[d] = Key(who)!Free)
  BY <1>1, <1>2, KeyFreeFits, KeyTurnFits, KeyOthersFree
<1>4. Key(who)!AckFits' /\ Key(who)!ShownWorks'
  BY <1>2 DEF Key!PatientInv, Key!AckFits, Key!ShownWorks
<1>5. Key(who)!SecretInHand'
  <2> SUFFICES ASSUME NEW e \in Key(who)!Envs \ cut, secret[e] > (IF e = "live" THEN 1 ELSE 0)
               PROVE  \/ inHand[e] = secret[e]
                      \/ \E p \in Key(who)!Panels : Key(who)!Of(p) = e /\ issued[p] = secret[e]
    BY <1>2 DEF Key!SecretInHand
  <2>1. secret[e] # 0
    BY KeyTypeParts DEF Key!StoreFits
  <2>2. ~ \E d \in CallsOf[who] : call[d].env = e /\ call[d].secret = secret[e]
    BY <1>2, <2>1 DEF Key!PatientInv, Key!SecretsCarried, Key!AwayCut
  <2> QED
    BY <2>2 DEF Key!PatientInv, Key!SecretInHand
<1> QED
  BY <1>3, <1>4, <1>5, KeyFreeFits, KeyPatientTurn DEF Key!Acts

\* The server's side.
LEMMA KeyPatientAnswer ==
    ASSUME NEW who,
           Key(who)!ConstantsFit, Key(who)!TypeOK, Key(who)!PatientInv, NEW c \in CallsOf[who],
           UNCHANGED <<secret, here, issued, ack, inHand, cut>>,
           call[c].step \in {"sent", "checked"},
           call'[c].kind = call[c].kind, call'[c].env = call[c].env, call'[c].card = call[c].card,
           call'[c].secret = call[c].secret,
           \A d \in CallsOf[who] : d # c => call'[d] = call[d],
           call'[c].step = "ok" => call[c].kind \notin {"create", "rotate"},
           call[c].kind \in {"load", "afterCreate"} =>
              call'[c].step = "ok" /\ \A e \in Key(who)!Envs : call'[c].view[e] = "none"
              <=> secret[e] = 0
    PROVE  Key(who)!PatientInv'
<1>1. /\ \A d \in CallsOf[who] : d # c => call'[d] = Key(who)!Free
      /\ ~here /\ call[c].kind \in {"create", "rotate"} => call[c].env \in cut
  BY KeyOthersFree
<1>2. /\ Key(who)!AckFits /\ Key(who)!ShownWorks /\ Key(who)!SecretInHand
          /\ Key(who)!PressedUncovered /\ Key(who)!SecretsCarried /\ Key(who)!CardsStay
  BY DEF Key!PatientInv
<1>3. Key(who)!AckFits' /\ Key(who)!ShownWorks'
  BY <1>2 DEF Key!AckFits, Key!ShownWorks
<1>4. Key(who)!SecretInHand'
  <2>1. \A d \in CallsOf[who] : call[d].step = "ok" => call'[d] = call[d]
    OBVIOUS
  <2> SUFFICES ASSUME NEW e \in Key(who)!Envs \ cut, secret[e] > (IF e = "live" THEN 1 ELSE 0)
               PROVE  \/ inHand[e] = secret[e]
                      \/ \E p \in Key(who)!Panels : Key(who)!Of(p) = e /\ issued[p] = secret[e]
                      \/ \E d \in CallsOf[who] : /\ call'[d].step = "ok" /\ call'[d].env = e
                                                 /\ call'[d].secret = secret[e]
    BY DEF Key!SecretInHand
  <2>2. \/ inHand[e] = secret[e]
        \/ \E p \in Key(who)!Panels : Key(who)!Of(p) = e /\ issued[p] = secret[e]
        \/ \E d \in CallsOf[who] : call[d].step = "ok" /\ call[d].env = e
            /\ call[d].secret = secret[e]
    BY <1>2 DEF Key!SecretInHand
  <2>3. CASE \E d \in CallsOf[who] : call[d].step = "ok" /\ call[d].env = e
           /\ call[d].secret = secret[e]
    <3>1. PICK d \in CallsOf[who] : call[d].step = "ok" /\ call[d].env = e
             /\ call[d].secret = secret[e]
      BY <2>3
    <3>2. call'[d] = call[d]
      BY <2>1, <3>1
    <3> QED
      BY <3>1, <3>2
  <2> QED
    BY <2>2, <2>3
<1>5. \A e \in Key(who)!Envs : issued[e] # 0 => secret[e] # 0
  BY <1>2 DEF Key!ShownWorks, Key!Panels, Key!Of, Key!Envs
<1>6. call[c].secret = 0 /\ (call[c].kind = "create" => call[c].env = "test") /\ call[c].card
  BY <1>2 DEF Key!SecretsCarried, Key!CardsStay
<1>7. call[c].kind \in {"create"} \cup Key(who)!Acts => \A p \in Key(who)!Panels : issued[p] = 0
  BY <1>2 DEF Key!PressedUncovered
<1> QED
  BY <1>1, <1>3, <1>4, <1>5, <1>6, <1>7, KeyPatientTurn

\* A secret that is issued is on its way to the screen.
LEMMA KeyPatientIssue ==
    ASSUME NEW who,
           Key(who)!ConstantsFit, Key(who)!TypeOK, Key(who)!PatientInv, NEW c \in CallsOf[who],
           UNCHANGED <<here, issued, ack, inHand>>,
           \A e \in Key(who)!Envs : e \in cut /\ e \notin cut' => e = call[c].env /\ here,
           call[c].step = "sent", call[c].kind \in {"create", "rotate"},
           call'[c].step = "ok", call'[c].kind = call[c].kind, call'[c].env = call[c].env,
           call'[c].card = call[c].card, call'[c].secret # 0,
           call'[c].secret = secret'[call[c].env],
           \A e \in Key(who)!Envs : e # call[c].env => secret'[e] = secret[e],
           \A d \in CallsOf[who] : d # c => call'[d] = call[d]
    PROVE  Key(who)!PatientInv'
<1>1. /\ \A d \in CallsOf[who] : d # c => call'[d] = Key(who)!Free
      /\ ~here /\ call[c].kind \in {"create", "rotate"} => call[c].env \in cut
  BY KeyOthersFree
<1>2. /\ Key(who)!AckFits /\ Key(who)!ShownWorks /\ Key(who)!SecretInHand
          /\ Key(who)!PressedUncovered /\ Key(who)!SecretsCarried /\ Key(who)!CardsStay
  BY DEF Key!PatientInv
<1>3. \A p \in Key(who)!Panels : issued[p] = 0
  BY <1>2 DEF Key!PressedUncovered, Key!Acts
<1>4. Key(who)!AckFits' /\ Key(who)!ShownWorks'
  BY <1>2, <1>3 DEF Key!AckFits, Key!ShownWorks
<1>5. Key(who)!SecretInHand'
  <2> SUFFICES ASSUME NEW e \in Key(who)!Envs \ cut', secret'[e] > (IF e = "live" THEN 1 ELSE 0)
               PROVE  \/ inHand[e] = secret'[e]
                      \/ \E p \in Key(who)!Panels : Key(who)!Of(p) = e /\ issued[p] = secret'[e]
                      \/ \E d \in CallsOf[who] : /\ call'[d].step = "ok" /\ call'[d].env = e
                                                 /\ call'[d].secret = secret'[e]
    BY DEF Key!SecretInHand
  <2>1. CASE e = call[c].env
    BY <2>1
  <2>2. CASE e # call[c].env
    <3>1. secret'[e] = secret[e] /\ e \notin cut
      BY <2>2
    <3>2. \A d \in CallsOf[who] : call[d].step = "ok" => call'[d] = call[d]
      OBVIOUS
    <3> QED
      BY <1>2, <3>1, <3>2 DEF Key!SecretInHand
  <2> QED
    BY <2>1, <2>2
<1>6. (call[c].kind = "create" => call[c].env = "test") /\ call[c].card
  BY <1>2 DEF Key!SecretsCarried, Key!CardsStay
<1>7. call[c].kind \notin {"load", "afterCreate"}
  OBVIOUS
<1>8. ~here => call[c].env \in cut'
  <2>1. call[c].env \in Key(who)!Envs
    BY KeyTypeParts DEF Key!CallsFit, Key!CallType
  <2> QED
    BY <1>1, <2>1
<1> QED
  BY <1>1, <1>3, <1>4, <1>5, <1>6, <1>7, <1>8, KeyPatientTurn

\* No call is lost, so none that issues a secret is refused.
LEMMA KeyPatientServe ==
    ASSUME NEW who,
           Key(who)!ConstantsFit, Key(who)!TypeOK, Key(who)!PatientInv, FaultsOf[who] = 0,
           NEW c \in CallsOf[who], Key(who)!Serve(c)
    PROVE  Key(who)!PatientInv'
<1>1. Key(who)!StoreFits /\ Key(who)!CallsFit /\ faults \in 0..FaultsOf[who]
  BY KeyTypeParts
<1>2. UNCHANGED <<here, issued, ack, inHand>>
  BY DEF Key!Serve, Key!ServeLoad, Key!ServeAfterCreate, Key!ServeCreate, Key!ServeRotate,
       Key!ServeEndpoints, Key!CheckAsk,
         Key!WriteAsk, Key!Lose, Key!Screen, Key!panels
<1>3. CASE Key(who)!ServeLoad(c) \/ Key(who)!ServeAfterCreate(c)
  <2>1. UNCHANGED <<secret, cut>>
    BY <1>3 DEF Key!ServeLoad, Key!ServeAfterCreate, Key!server, Key!Screen, Key!panels
  <2>2. /\ call[c].kind \in {"load", "afterCreate"} /\ call[c].step = "sent"
        /\ call'[c].step = "ok" /\ call'[c].kind = call[c].kind /\ call'[c].env = call[c].env
        /\ call'[c].card = call[c].card /\ call'[c].secret = call[c].secret
        /\ \A e \in Key(who)!Envs : call'[c].view[e] = "none" <=> secret[e] = 0
        /\ \A d \in CallsOf[who] : d # c => call'[d] = call[d]
    BY <1>1, <1>3, KeyListedFits
  <2> QED
    BY <1>2, <2>1, <2>2, KeyPatientAnswer
<1>4. ASSUME UNCHANGED <<secret, cut>>, call[c].step \in {"sent", "checked"},
             call[c].kind \in {"create"} \cup Key(who)!Acts,
             NEW step \in {"checked", "ok", "refused"}, Key(who)!Answer(c, step),
             step = "ok" => call[c].kind \notin {"create", "rotate"}
      PROVE  Key(who)!PatientInv'
  <2>1. /\ call'[c].step = step /\ call'[c].kind = call[c].kind /\ call'[c].env = call[c].env
        /\ call'[c].card = call[c].card /\ call'[c].secret = call[c].secret
        /\ \A d \in CallsOf[who] : d # c => call'[d] = call[d]
    BY <1>1, <1>4, KeyAnswerFits
  <2>2. call[c].kind \notin {"load", "afterCreate"}
    BY <1>4 DEF Key!Acts
  <2> QED
    BY <1>2, <1>4, <2>1, <2>2, KeyPatientAnswer
<1>5. CASE Key(who)!ServeCreate(c)
  <2>1. call[c].step = "sent" /\ call[c].kind = "create"
    BY <1>5 DEF Key!ServeCreate, Key!At
  <2>2. CASE secret["test"] # 0
    BY <1>4, <1>5, <2>1, <2>2 DEF Key!ServeCreate, Key!server, Key!Screen, Key!panels
  <2>3. CASE secret["test"] = 0
    <3>1. Key(who)!Issue(c, "test", 1)
      BY <1>5, <2>3 DEF Key!ServeCreate
    <3>2. 1 \in 1..SecretsOf[who] /\ "test" \in Key(who)!Envs
      BY DEF Key!ConstantsFit, Key!Envs
    <3>3. /\ Key(who)!StoreFits' /\ Key(who)!CallsFit'
          /\ secret'["test"] = 1 /\ \A f \in Key(who)!Envs : f # "test" => secret'[f] = secret[f]
          /\ call'[c].step = "ok" /\ call'[c].kind = call[c].kind /\ call'[c].env = call[c].env
          /\ call'[c].card = call[c].card /\ call'[c].secret = 1
          /\ \A d \in CallsOf[who] : d # c => call'[d] = call[d]
      BY <1>1, <3>1, <3>2, KeyIssuedFits
    <3>4. call[c].env = "test" /\ UNCHANGED cut
      BY <1>5, <2>1 DEF Key!PatientInv, Key!SecretsCarried, Key!ServeCreate, Key!Screen, Key!panels
    <3> QED
      BY <1>2, <2>1, <3>3, <3>4, KeyPatientIssue
  <2> QED
    BY <2>2, <2>3
<1>6. CASE Key(who)!ServeRotate(c)
  <2> DEFINE e == call[c].env
             n == secret[e] + 1
  <2>1. /\ call[c].step = "sent" /\ call[c].kind = "rotate"
        /\ secret[e] < SecretsOf[who] /\ Key(who)!Issue(c, e, n)
    BY <1>1, <1>6 DEF Key!ServeRotate, Key!At, Key!StoreFits, Key!Issue
  <2>2. e \in Key(who)!Envs
    BY <1>1 DEF Key!CallsFit, Key!CallType
  <2>3. n \in 1..SecretsOf[who] /\ n # 0
    BY <1>1, <2>1, <2>2 DEF Key!StoreFits, Key!ConstantsFit
  <2> HIDE DEF n
  <2>4. /\ Key(who)!StoreFits' /\ Key(who)!CallsFit'
        /\ secret'[e] = n /\ \A f \in Key(who)!Envs : f # e => secret'[f] = secret[f]
        /\ call'[c].step = "ok" /\ call'[c].kind = call[c].kind /\ call'[c].env = call[c].env
        /\ call'[c].card = call[c].card /\ call'[c].secret = n
        /\ \A d \in CallsOf[who] : d # c => call'[d] = call[d]
    BY <1>1, <2>1, <2>2, <2>3, KeyIssuedFits
  <2>5. cut' = IF here THEN cut \ {e} ELSE cut
    BY <1>6 DEF Key!ServeRotate
  <2> QED
    BY <1>2, <2>1, <2>3, <2>4, <2>5, KeyPatientIssue
<1>7. CASE Key(who)!ServeEndpoints(c)
  BY <1>4, <1>7 DEF Key!ServeEndpoints, Key!At, Key!Acts, Key!server, Key!Screen, Key!panels
<1>8. CASE Key(who)!CheckAsk(c)
  BY <1>4, <1>8 DEF Key!CheckAsk, Key!At, Key!Acts, Key!server, Key!Screen, Key!panels
<1>9. CASE Key(who)!WriteAsk(c)
  BY <1>4, <1>9 DEF Key!WriteAsk, Key!At, Key!Acts, Key!Screen, Key!panels
<1>10. ~Key(who)!Lose(c)
  BY <1>1 DEF Key!Lose
<1> QED
  BY <1>3, <1>5, <1>6, <1>7, <1>8, <1>9, <1>10 DEF Key!Serve

\* The bank makes a live integration where there is none: nobody holds a secret of it yet.
LEMMA KeyPatientDecide ==
    ASSUME NEW who,
           Key(who)!ConstantsFit, Key(who)!TypeOK, Key(who)!PatientInv, NEW i \in DOMAIN requests,
           Key(who)!Decide(i)
    PROVE  Key(who)!PatientInv'
<1>1. Key(who)!StoreFits /\ UNCHANGED <<here, issued, ack, inHand, cut, call>>
  BY KeyTypeParts DEF Key!Decide, Key!Screen, Key!panels
<1>2. \A e \in Key(who)!Envs : secret'[e] = secret[e]
         \/ (e = "live" /\ secret[e] = 0 /\ secret'[e] = 1)
  <2>1. \/ secret' = secret
        \/ secret' = [secret EXCEPT !["live"] = IF secret["live"] = 0 THEN 1 ELSE secret["live"]]
    BY DEF Key!Decide
  <2> QED
    BY <1>1, <2>1 DEF Key!StoreFits
<1>3. Key(who)!OneUnderWay' /\ Key(who)!AwayCut' /\ Key(who)!CardsStay'
         /\ Key(who)!PressedUncovered' /\ Key(who)!ListsFit' /\ Key(who)!AckFits'
  BY <1>1 DEF Key!PatientInv, Key!OneUnderWay, Key!AwayCut, Key!Idle, Key!CardsStay,
       Key!PressedUncovered, Key!ListsFit, Key!AckFits
<1>4. Key(who)!SecretsCarried'
  <2>1. \A c \in CallsOf[who] : call[c].env \in Key(who)!Envs
    BY KeyTypeParts DEF Key!CallsFit, Key!CallType
  <2> QED
    BY <1>1, <1>2, <2>1 DEF Key!PatientInv, Key!SecretsCarried
<1>5. Key(who)!ShownWorks'
  <2>1. \A p \in Key(who)!Panels : Key(who)!Of(p) \in Key(who)!Envs
    BY DEF Key!Of, Key!Panels, Key!Envs
  <2> QED
    BY <1>1, <1>2, <2>1 DEF Key!PatientInv, Key!ShownWorks
<1>6. Key(who)!SecretInHand'
  BY <1>1, <1>2 DEF Key!PatientInv, Key!SecretInHand
<1> QED
  BY <1>3, <1>4, <1>5, <1>6 DEF Key!PatientInv

\* The screen takes an answer.
LEMMA KeyPatientTakeLoad ==
    ASSUME NEW who,
           Key(who)!ConstantsFit, Key(who)!TypeOK, Key(who)!PatientInv, NEW c \in CallsOf[who],
           Key(who)!TakeLoad(c)
    PROVE  Key(who)!PatientInv'
<1>1. Key(who)!ScreenFits /\ Key(who)!PanelsFit /\ Key(who)!CallsFit
  BY KeyTypeParts
<1>2. /\ here' /\ call[c].kind \in {"load", "afterCreate"} /\ call[c].step \in {"ok", "refused"}
      /\ UNCHANGED <<secret, inHand, cut>>
  BY DEF Key!TakeLoad, Key!server
<1>3. call[c].step = "ok" /\ \A e \in Key(who)!Envs : issued[e] # 0 => call[c].view[e] # "none"
  BY <1>2 DEF Key!PatientInv, Key!ListsFit
<1> DEFINE v == [shown |-> call[c].view, latest |-> call[c].latest]
<1>4. Key(who)!ShowList(c, v)
  BY <1>3 DEF Key!TakeLoad
<1>5. v \in Key(who)!Lists
  BY <1>1 DEF Key!CallsFit, Key!CallType, Key!Lists
<1>6. v.shown = call[c].view
  OBVIOUS
<1> HIDE DEF v
<1>7. /\ call'[c] = Key(who)!Free
      /\ \A d \in CallsOf[who] : d # c => (call[d] = Key(who)!Free => call'[d] = Key(who)!Free)
      /\ \A p \in Key(who)!Panels : IF p = "new" \/ v.shown[p] # "none"
                                    THEN issued'[p] = issued[p] /\ ack'[p] = ack[p]
                                    ELSE issued'[p] = 0 /\ ack'[p] = 0
  BY <1>1, <1>4, <1>5, KeyShownFits
<1>8. \A d \in CallsOf[who] : call'[d] = Key(who)!Free
  BY <1>2, <1>7, KeyOthersFree
<1>9. \A p \in Key(who)!Panels : issued'[p] = issued[p] /\ (ack'[p] = ack[p] \/ ack'[p] = 0)
  BY <1>3, <1>6, <1>7 DEF Key!Panels
<1>10. Key(who)!AckFits' /\ Key(who)!ShownWorks'
  BY <1>2, <1>9 DEF Key!PatientInv, Key!AckFits, Key!ShownWorks
<1>11. Key(who)!SecretInHand'
  <2>1. \A d \in CallsOf[who] : call[d].step = "ok" => call[d].secret = 0
    <3>1. \A d \in CallsOf[who] : d # c => call[d].step # "ok"
      BY <1>2, KeyOthersFree, KeyFreeFits
    <3> QED
      BY <1>2, <3>1 DEF Key!PatientInv, Key!SecretsCarried
  <2> SUFFICES ASSUME NEW e \in Key(who)!Envs \ cut, secret[e] > (IF e = "live" THEN 1 ELSE 0)
               PROVE  \/ inHand[e] = secret[e]
                      \/ \E p \in Key(who)!Panels : Key(who)!Of(p) = e /\ issued'[p] = secret[e]
    BY <1>2 DEF Key!SecretInHand
  <2>2. secret[e] # 0
    BY KeyTypeParts DEF Key!StoreFits
  <2>3. \/ inHand[e] = secret[e]
        \/ \E p \in Key(who)!Panels : Key(who)!Of(p) = e /\ issued[p] = secret[e]
    BY <2>1, <2>2 DEF Key!PatientInv, Key!SecretInHand
  <2> QED
    BY <1>9, <2>3
<1> QED
  BY <1>2, <1>8, <1>10, <1>11, KeyFreeFits, KeyPatientTurn DEF Key!Acts

\* The secret that was on its way is on the screen: of a new integration,
LEMMA KeyPatientTakeCreated ==
    ASSUME NEW who,
           Key(who)!ConstantsFit, Key(who)!TypeOK, Key(who)!PatientInv, NEW c \in CallsOf[who],
           Key(who)!TakeCreated(c)
    PROVE  Key(who)!PatientInv'
<1>1. Key(who)!PanelsFit /\ Key(who)!CallsFit /\ Key(who)!StoreFits
  BY KeyTypeParts
<1>2. /\ here' /\ call[c].kind = "create" /\ call[c].step = "ok"
      /\ issued' = [issued EXCEPT !["new"] = call[c].secret]
      /\ Key(who)!Turn(c, Key(who)!Sent("afterCreate", "test"))
      /\ UNCHANGED <<secret, ack, inHand, cut>>
  BY DEF Key!TakeCreated, Key!At, Key!server, Key!Turn
<1>3. /\ Key(who)!Sent("afterCreate", "test") \in Key(who)!CallType
          /\ Key(who)!Sent("afterCreate", "test").step = "sent"
      /\ Key(who)!Sent("afterCreate", "test").kind = "afterCreate"
          /\ Key(who)!Sent("afterCreate", "test").card
      /\ Key(who)!Sent("afterCreate", "test").secret = 0
  BY KeySentFits DEF Key!Envs
<1>4. /\ call'[c] = Key(who)!Sent("afterCreate", "test")
      /\ \A d \in CallsOf[who] : d # c => call[d] = Key(who)!Free /\ call'[d] = Key(who)!Free
  <2>1. call'[c] = Key(who)!Sent("afterCreate", "test") /\ \A d \in CallsOf[who] : d # c
           => call'[d] = call[d]
    BY <1>1, <1>2, <1>3, KeyTurnFits
  <2>2. \A d \in CallsOf[who] : d # c => call[d] = Key(who)!Free
    BY <1>2, KeyOthersFree
  <2> QED
    BY <2>1, <2>2
<1>5. /\ \A p \in Key(who)!Panels : issued[p] = 0
      /\ call[c].env = "test" /\ call[c].secret = secret["test"] /\ call[c].secret # 0
  BY <1>2 DEF Key!PatientInv, Key!PressedUncovered, Key!SecretsCarried
<1>6. issued'["new"] = secret["test"] /\ \A p \in Key(who)!Panels : p # "new" => issued'[p] = 0
  BY <1>1, <1>2, <1>5 DEF Key!PanelsFit, Key!Panels
<1>7. \A p \in Key(who)!Panels : ack[p] = 0
  BY <1>5 DEF Key!PatientInv, Key!AckFits
<1>8. Key(who)!AckFits' /\ Key(who)!ShownWorks'
  BY <1>2, <1>6, <1>7 DEF Key!AckFits, Key!ShownWorks, Key!Of
<1>9. Key(who)!SecretInHand'
  <2> SUFFICES ASSUME NEW e \in Key(who)!Envs \ cut, secret[e] > (IF e = "live" THEN 1 ELSE 0)
               PROVE  \/ inHand[e] = secret[e]
                      \/ \E p \in Key(who)!Panels : Key(who)!Of(p) = e /\ issued'[p] = secret[e]
    BY <1>2 DEF Key!SecretInHand
  <2>1. CASE e = "test"
    BY <1>6, <2>1 DEF Key!Panels, Key!Of
  <2>2. CASE e # "test"
    <3>1. secret[e] # 0
      BY <1>1 DEF Key!StoreFits
    <3>2. \A d \in CallsOf[who] : call[d].step = "ok" => call[d].env = "test"
      BY <1>4, <1>5, KeyFreeFits
    <3> QED
      BY <1>5, <2>2, <3>1, <3>2 DEF Key!PatientInv, Key!SecretInHand
  <2> QED
    BY <2>1, <2>2
<1> QED
  BY <1>2, <1>3, <1>4, <1>8, <1>9, KeyPatientTurn DEF Key!Acts

\* or of a rotated one.
LEMMA KeyPatientTakeActed ==
    ASSUME NEW who,
           Key(who)!ConstantsFit, Key(who)!TypeOK, Key(who)!PatientInv, NEW c \in CallsOf[who],
           Key(who)!TakeActed(c)
    PROVE  Key(who)!PatientInv'
<1>1. Key(who)!PanelsFit /\ Key(who)!CallsFit /\ Key(who)!StoreFits
  BY KeyTypeParts
<1> DEFINE e == call[c].env
<1>2. /\ here' /\ call[c].kind \in Key(who)!Acts /\ call[c].step = "ok"
      /\ Key(who)!Turn(c, Key(who)!Sent("load", "test"))
      /\ UNCHANGED <<secret, ack, inHand, cut>> /\ call[c].card
      /\ issued' = IF call[c].kind = "rotate" THEN [issued EXCEPT ![e] = call[c].secret] ELSE issued
  BY DEF Key!TakeActed, Key!server, Key!Turn, Key!PatientInv, Key!CardsStay
<1>3. /\ Key(who)!Sent("load", "test") \in Key(who)!CallType
          /\ Key(who)!Sent("load", "test").step = "sent"
      /\ Key(who)!Sent("load", "test").kind = "load" /\ Key(who)!Sent("load", "test").card
      /\ Key(who)!Sent("load", "test").secret = 0
  BY KeySentFits DEF Key!Envs
<1>4. /\ call'[c] = Key(who)!Sent("load", "test")
      /\ \A d \in CallsOf[who] : d # c => call[d] = Key(who)!Free /\ call'[d] = Key(who)!Free
  <2>1. call'[c] = Key(who)!Sent("load", "test") /\ \A d \in CallsOf[who] : d # c
           => call'[d] = call[d]
    BY <1>1, <1>2, <1>3, KeyTurnFits
  <2>2. \A d \in CallsOf[who] : d # c => call[d] = Key(who)!Free
    BY <1>2, KeyOthersFree
  <2> QED
    BY <2>1, <2>2
<1>5. \A p \in Key(who)!Panels : issued[p] = 0 /\ ack[p] = 0
  BY <1>2 DEF Key!PatientInv, Key!PressedUncovered, Key!AckFits
<1>6. e \in Key(who)!Envs /\ e \in Key(who)!Panels /\ Key(who)!Of(e) = e
  BY <1>1 DEF Key!CallsFit, Key!CallType, Key!Panels, Key!Of, Key!Envs
<1> HIDE DEF e
<1>7. CASE call[c].kind = "rotate"
  <2>1. call[c].secret = secret[e]
    BY <1>2, <1>7 DEF Key!PatientInv, Key!SecretsCarried, e
  <2>2. issued'[e] = secret[e] /\ \A p \in Key(who)!Panels : p # e => issued'[p] = 0
    BY <1>1, <1>2, <1>5, <1>6, <1>7, <2>1 DEF Key!PanelsFit
  <2>3. Key(who)!AckFits' /\ Key(who)!ShownWorks'
    BY <1>2, <1>5, <1>6, <2>2 DEF Key!AckFits, Key!ShownWorks
  <2>4. Key(who)!SecretInHand'
    <3> SUFFICES ASSUME NEW f \in Key(who)!Envs \ cut, secret[f] > (IF f = "live" THEN 1 ELSE 0)
                 PROVE  \/ inHand[f] = secret[f]
                        \/ \E p \in Key(who)!Panels : Key(who)!Of(p) = f /\ issued'[p] = secret[f]
      BY <1>2 DEF Key!SecretInHand
    <3>1. CASE f = e
      BY <1>6, <2>2, <3>1
    <3>2. CASE f # e
      <4>1. secret[f] # 0
        BY <1>1 DEF Key!StoreFits
      <4>2. \A d \in CallsOf[who] : call[d].step = "ok" => call[d].env = e
        BY <1>4, KeyFreeFits DEF e
      <4> QED
        BY <1>5, <3>2, <4>1, <4>2 DEF Key!PatientInv, Key!SecretInHand
    <3> QED
      BY <3>1, <3>2
  <2> QED
    BY <1>2, <1>3, <1>4, <2>3, <2>4, KeyPatientTurn DEF Key!Acts
<1>8. CASE call[c].kind # "rotate"
  <2>1. issued' = issued
    BY <1>2, <1>8
  <2>2. call[c].secret = 0
    BY <1>2, <1>8 DEF Key!PatientInv, Key!SecretsCarried, Key!Acts
  <2>3. Key(who)!AckFits' /\ Key(who)!ShownWorks'
    BY <1>2, <2>1 DEF Key!PatientInv, Key!AckFits, Key!ShownWorks
  <2>4. Key(who)!SecretInHand'
    <3> SUFFICES ASSUME NEW f \in Key(who)!Envs \ cut, secret[f] > (IF f = "live" THEN 1 ELSE 0)
                 PROVE  inHand[f] = secret[f]
      BY <1>2 DEF Key!SecretInHand
    <3>1. secret[f] # 0
      BY <1>1 DEF Key!StoreFits
    <3>2. \A d \in CallsOf[who] : call[d].step = "ok" => call[d].secret = 0
      BY <1>4, <2>2, KeyFreeFits
    <3> QED
      BY <1>5, <3>1, <3>2 DEF Key!PatientInv, Key!SecretInHand
  <2> QED
    BY <1>2, <1>3, <1>4, <2>3, <2>4, KeyPatientTurn DEF Key!Acts
<1> QED
  BY <1>7, <1>8

\* What was refused issued nothing.
LEMMA KeyPatientTakeRefusal ==
    ASSUME NEW who,
           Key(who)!ConstantsFit, Key(who)!TypeOK, Key(who)!PatientInv, NEW c \in CallsOf[who],
           Key(who)!TakeRefusal(c)
    PROVE  Key(who)!PatientInv'
<1>1. Key(who)!CallsFit
  BY KeyTypeParts
<1>2. /\ here' /\ call[c].step = "refused" /\ Key(who)!Turn(c, Key(who)!Free)
      /\ UNCHANGED <<secret, issued, ack, inHand, cut>>
  BY DEF Key!TakeRefusal, Key!server, Key!panels, Key!Turn
<1>3. \A d \in CallsOf[who] : call'[d] = Key(who)!Free /\ call[d].step # "ok"
  <2>1. call'[c] = Key(who)!Free /\ \A d \in CallsOf[who] : d # c => call'[d] = call[d]
    BY <1>1, <1>2, KeyFreeFits, KeyTurnFits
  <2>2. \A d \in CallsOf[who] : d # c => call[d] = Key(who)!Free
    BY <1>2, KeyOthersFree
  <2> QED
    BY <1>2, <2>1, <2>2, KeyFreeFits
<1>4. Key(who)!AckFits' /\ Key(who)!ShownWorks'
  BY <1>2 DEF Key!PatientInv, Key!AckFits, Key!ShownWorks
<1>5. Key(who)!SecretInHand'
  BY <1>2, <1>3 DEF Key!PatientInv, Key!SecretInHand
<1> QED
  BY <1>2, <1>3, <1>4, <1>5, KeyFreeFits, KeyPatientTurn DEF Key!Acts

-----------------------------------------------------------------------------
\* The invariant holds at the start,
LEMMA KeyInitIInv ==
    ASSUME NEW who,
           Key(who)!ConstantsFit, Key(who)!Init
    PROVE  Key(who)!IInv
<1>1. PICK c \in CallsOf[who] :
         call = [d \in CallsOf[who] |-> IF d = c THEN Key(who)!Sent("load", "test")
         ELSE Key(who)!Free]
  BY DEF Key!Init
<1>2. /\ Key(who)!Sent("load", "test") \in Key(who)!CallType
          /\ Key(who)!Sent("load", "test").step = "sent"
      /\ Key(who)!Sent("load", "test").kind = "load" /\ Key(who)!Sent("load", "test").card
      /\ Key(who)!Sent("load", "test").secret = 0
  BY KeySentFits DEF Key!Envs
<1>3. Key(who)!TypeOK
  <2>1. Key(who)!CallsFit
    BY <1>1, <1>2, KeyFreeFits DEF Key!CallsFit
  <2>0. 0 \in 0..SecretsOf[who]
    BY DEF Key!ConstantsFit
  <2>2. Key(who)!StoreFits
    <3>1. secret = [e \in Key(who)!Envs |-> 0] /\ requests = <<>>
      BY DEF Key!Init
    <3> QED
      BY <2>0, <3>1 DEF Key!StoreFits
  <2>3. Key(who)!ScreenFits
    <3>1. /\ here \in BOOLEAN /\ loading \in BOOLEAN /\ creating \in BOOLEAN
          /\ busy \in [Key(who)!Envs -> {"none"} \cup Key(who)!Acts]
      BY DEF Key!Init
    <3>2. Key(who)!NoView \in Key(who)!Lists
      BY DEF Key!NoView, Key!Lists
    <3> QED
      BY <3>1, <3>2 DEF Key!Init, Key!ScreenFits
  <2>4. Key(who)!PanelsFit
    <3>1. /\ issued = [p \in Key(who)!Panels |-> 0] /\ ack = [p \in Key(who)!Panels |-> 0]
          /\ inHand = [e \in Key(who)!Envs |-> 0] /\ cut = {}
      BY DEF Key!Init
    <3>2. issued \in [Key(who)!Panels -> 0..SecretsOf[who]]
             /\ ack \in [Key(who)!Panels -> 0..SecretsOf[who]]
      BY <2>0, <3>1
    <3>3. inHand \in [Key(who)!Envs -> 0..SecretsOf[who]]
      BY <2>0, <3>1
    <3> QED
      BY <3>1, <3>2, <3>3 DEF Key!PanelsFit
  <2>5. faults \in 0..FaultsOf[who]
    <3>1. faults = 0
      BY DEF Key!Init
    <3> QED
      BY <3>1 DEF Key!ConstantsFit
  <2> QED
    BY <2>1, <2>2, <2>3, <2>4, <2>5, KeyTypeParts
<1>4. \A d \in CallsOf[who] : /\ call[d].kind = "load" /\ call[d].card /\ call[d].secret = 0
                              /\ call[d].step \in {"sent", "free"}
  BY <1>1, <1>2, KeyFreeFits
<1>5. Key(who)!CreatingHonest /\ Key(who)!BusyHonest
  BY <1>4 DEF Key!Init, Key!CreatingHonest, Key!BusyHonest, Key!Makes
<1>6. Key(who)!PatientInv
  <2>1. Key(who)!OneUnderWay /\ Key(who)!AwayCut /\ Key(who)!CardsStay
    BY <1>1, <1>4 DEF Key!Init, Key!OneUnderWay, Key!AwayCut, Key!CardsStay
  <2>2. Key(who)!PressedUncovered /\ Key(who)!SecretsCarried /\ Key(who)!ListsFit
    BY <1>4 DEF Key!PressedUncovered, Key!SecretsCarried, Key!ListsFit, Key!Acts
  <2>3. Key(who)!AckFits /\ Key(who)!ShownWorks /\ Key(who)!SecretInHand
    BY DEF Key!Init, Key!AckFits, Key!ShownWorks, Key!SecretInHand
  <2> QED
    BY <2>1, <2>2, <2>3 DEF Key!PatientInv
<1> QED
  BY <1>3, <1>5, <1>6 DEF Key!IInv

\* A step of something else leaves each card's word as honest as it was.
LEMMA KeyStayWords ==
    ASSUME NEW who,
           Key(who)!BusyHonest, UNCHANGED <<here, busy, call>>
    PROVE  Key(who)!BusyHonest'
<1> SUFFICES ASSUME here, NEW e \in Key(who)!Envs, busy[e] # "none"
             PROVE  \E c \in CallsOf[who] : call'[c].kind = busy[e] /\ call'[c].env = e
                    /\ call'[c].card
  BY DEF Key!BusyHonest
<1>1. PICK c \in CallsOf[who] : call[c].kind = busy[e] /\ call[c].env = e /\ call[c].card
  BY DEF Key!BusyHonest
<1> QED
  BY <1>1

\* and every step keeps it.
LEMMA KeyNextIInv ==
    ASSUME NEW who,
           Key(who)!ConstantsFit, Key(who)!IInv, [Key(who)!Next]_(Key(who)!vars)
    PROVE  Key(who)!IInv'
<1>1. Key(who)!TypeOK /\ Key(who)!CreatingHonest /\ Key(who)!BusyHonest
         /\ (~HurriedBy[who] /\ FaultsOf[who] = 0 => Key(who)!PatientInv)
  BY DEF Key!IInv
<1>2. CASE Key(who)!Create
  <2>1. ~HurriedBy[who] /\ FaultsOf[who] = 0 => Key(who)!PatientInv'
    BY <1>1, <1>2, KeyPatientPress DEF Key!Create, Key!panels, Key!server, Key!Envs
  <2> QED
    BY <1>1, <1>2, <2>1, KeyCreateTrue DEF Key!IInv
<1>3. ASSUME NEW kind \in Key(who)!Acts, NEW e \in Key(who)!Envs, Key(who)!Act(kind, e)
         PROVE Key(who)!IInv'
  <2>1. kind # "create"
    BY DEF Key!Acts
  <2>2. ~HurriedBy[who] /\ FaultsOf[who] = 0 => Key(who)!PatientInv'
    BY <1>1, <1>3, <2>1, KeyPatientPress DEF Key!Act, Key!panels, Key!server
  <2> QED
    BY <1>1, <1>3, <2>2, KeyActTrue DEF Key!IInv
<1>4. CASE Key(who)!GoLive \/ \E e \in Key(who)!Envs : Key(who)!SaveEndpoints(e)
         \/ Key(who)!Rotate(e)
  BY <1>3, <1>4 DEF Key!GoLive, Key!SaveEndpoints, Key!Rotate, Key!Acts, Key!Envs
<1>5. CASE Key(who)!Leave \/ Key(who)!Return
  BY <1>1, <1>5, KeyLeaveTrue, KeyReturnTrue, KeyPatientAway DEF Key!IInv
<1>6. CASE \E p \in Key(who)!Panels : Key(who)!Acknowledge(p) \/ Key(who)!Done(p)
  BY <1>1, <1>6, KeyPanelTrue, KeyPatientPanel DEF Key!IInv
<1>7. CASE \E i \in DOMAIN requests : Key(who)!Decide(i)
  BY <1>1, <1>7, KeyDecideTrue, KeyPatientDecide DEF Key!IInv
<1>8. CASE \E c \in CallsOf[who] : Key(who)!Serve(c)
  BY <1>1, <1>8, KeyServeTrue, KeyPatientServe DEF Key!IInv
<1>9. ASSUME NEW c \in CallsOf[who], Key(who)!Take(c) PROVE Key(who)!IInv'
  <2>1. Key(who)!TypeOK' /\ Key(who)!CreatingHonest' /\ Key(who)!BusyHonest'
    BY <1>1, <1>9, KeyTakeLoadTrue, KeyTakeCreatedTrue, KeyTakeActedTrue, KeyTakeRefusalTrue,
         KeyTakeLateTrue DEF Key!Take
  <2>2. ~HurriedBy[who] /\ FaultsOf[who] = 0 => Key(who)!PatientInv'
    BY <1>1, <1>9, KeyPatientTakeLoad, KeyPatientTakeCreated, KeyPatientTakeActed,
         KeyPatientTakeRefusal, KeyPatientTakeLate
       DEF Key!Take
  <2> QED
    BY <2>1, <2>2 DEF Key!IInv
<1>10. CASE UNCHANGED Key(who)!vars
  <2>1. UNCHANGED <<secret, requests, here, list, loading, creating, busy, issued, ack, inHand,
           cut, call, faults>>
    BY <1>10 DEF Key!vars, Key!server, Key!panels
  <2>2. Key(who)!TypeOK' /\ Key(who)!CreatingHonest'
    BY <1>1, <2>1
       DEF Key!TypeOK, Key!StoreFits, Key!ScreenFits, Key!PanelsFit, Key!CallsFit,
       Key!CreatingHonest, Key!Makes
  <2>4. Key(who)!BusyHonest'
    BY <1>1, <2>1, KeyStayWords
  <2>3. ASSUME Key(who)!PatientInv PROVE Key(who)!PatientInv'
    <3>1. Key(who)!OneUnderWay' /\ Key(who)!AwayCut' /\ Key(who)!CardsStay'
             /\ Key(who)!PressedUncovered' /\ Key(who)!SecretsCarried'
      BY <2>1, <2>3
         DEF Key!PatientInv, Key!OneUnderWay, Key!AwayCut, Key!Idle, Key!CardsStay,
         Key!PressedUncovered, Key!SecretsCarried
    <3>2. Key(who)!ListsFit' /\ Key(who)!AckFits' /\ Key(who)!ShownWorks'
      BY <2>1, <2>3 DEF Key!PatientInv, Key!ListsFit, Key!AckFits, Key!ShownWorks
    <3>3. Key(who)!SecretInHand'
      BY <2>1, <2>3 DEF Key!PatientInv, Key!SecretInHand
    <3> QED
      BY <3>1, <3>2, <3>3 DEF Key!PatientInv
  <2> QED
    BY <1>1, <2>2, <2>3, <2>4 DEF Key!IInv
<1>11. CASE Key(who)!SessionEnds
  BY <1>1, <1>11, KeySessionEndsTrue, KeyPatientCut DEF Key!IInv
<1> QED
  BY <1>2, <1>4, <1>5, <1>6, <1>7, <1>8, <1>9, <1>10, <1>11 DEF Key!Next

-----------------------------------------------------------------------------
(* The bank's review (LiveReview) *)

-----------------------------------------------------------------------------
\* What the ways to change the calls come to.
LEMMA ReviewRecordsFit ==
    ASSUME NEW who
    PROVE  /\ Review(who)!Free \in Review(who)!CallRecord /\ Review(who)!Free.step = "free"
               /\ Review(who)!Free.kind = "load"
           /\ \A t \in Review(who)!Tabs :
                 /\ Review(who)!Load(t) \in Review(who)!CallRecord
                 /\ Review(who)!Load(t).step = "sent" /\ Review(who)!Load(t).kind = "load"
BY DEF Review!Free, Review!Load, Review!CallRecord, Review!Tabs

\* A call goes on, and the others but for the cards they lose.
LEMMA ReviewGoTurns ==
    ASSUME NEW who,
           call \in [AdminsOf[who] -> [CallsOf[who] -> Review(who)!CallRecord]],
           NEW a \in AdminsOf[who], NEW c \in CallsOf[who],
           NEW next \in Review(who)!CallRecord, NEW gone, Review(who)!Go(a, c, next, gone)
    PROVE  /\ call' \in [AdminsOf[who] -> [CallsOf[who] -> Review(who)!CallRecord]]
           /\ call'[a][c] = next
           /\ \A b \in AdminsOf[who], d \in CallsOf[who] : b # a \/ d # c =>
                 /\ call'[b][d].step = call[b][d].step /\ call'[b][d].kind = call[b][d].kind
                 /\ call'[b][d].request = call[b][d].request
                 /\ call'[b][d].verdict = call[b][d].verdict
<1> DEFINE after == [d \in CallsOf[who] |->
                     IF d = c THEN next
                     ELSE [call[a][d] EXCEPT !.card = @ /\ call[a][d].request \notin gone]]
<1>1. call' = [call EXCEPT ![a] = after]
  BY DEF Review!Go
<1>2. ASSUME NEW d \in CallsOf[who], d # c
      PROVE  /\ after[d] \in Review(who)!CallRecord
             /\ after[d].step = call[a][d].step /\ after[d].kind = call[a][d].kind
             /\ after[d].request = call[a][d].request /\ after[d].verdict = call[a][d].verdict
  <2>1. call[a][d] \in Review(who)!CallRecord
    OBVIOUS
  <2> QED
    BY <1>2, <2>1 DEF Review!CallRecord
<1>3. after \in [CallsOf[who] -> Review(who)!CallRecord] /\ after[c] = next
  BY <1>2
<1> HIDE DEF after
<1>4. call'[a] = after /\ \A b \in AdminsOf[who] : b # a => call'[b] = call[b]
  BY <1>1
<1> QED
  BY <1>1, <1>2, <1>3, <1>4

\* A call is answered; the others stay.
LEMMA ReviewReplyTurns ==
    ASSUME NEW who,
           call \in [AdminsOf[who] -> [CallsOf[who] -> Review(who)!CallRecord]],
           NEW a \in AdminsOf[who], NEW c \in CallsOf[who],
           NEW step \in {"free", "sent", "recorded", "ok", "refused"}, Review(who)!Reply(a, c, step)
    PROVE  /\ call' \in [AdminsOf[who] -> [CallsOf[who] -> Review(who)!CallRecord]]
           /\ call'[a][c].step = step /\ call'[a][c].kind = call[a][c].kind
           /\ call'[a][c].request = call[a][c].request /\ call'[a][c].verdict = call[a][c].verdict
           /\ \A b \in AdminsOf[who], d \in CallsOf[who] : b # a \/ d # c
               => call'[b][d] = call[b][d]
<1>1. call[a][c] \in Review(who)!CallRecord
  OBVIOUS
<1>2. call' = [call EXCEPT ![a] = [call[a] EXCEPT ![c] = [call[a][c] EXCEPT !.step = step]]]
  BY DEF Review!Reply
<1>3. [call[a][c] EXCEPT !.step = step] \in Review(who)!CallRecord
  BY <1>1 DEF Review!CallRecord
<1>4. /\ [call[a][c] EXCEPT !.step = step].step = step
      /\ [call[a][c] EXCEPT !.step = step].kind = call[a][c].kind
      /\ [call[a][c] EXCEPT !.step = step].request = call[a][c].request
      /\ [call[a][c] EXCEPT !.step = step].verdict = call[a][c].verdict
  BY <1>1 DEF Review!CallRecord
<1> QED
  BY <1>2, <1>3, <1>4

\* A call becomes another; the others stay.
LEMMA ReviewOneTurns ==
    ASSUME NEW who,
           call \in [AdminsOf[who] -> [CallsOf[who] -> Review(who)!CallRecord]],
           NEW a \in AdminsOf[who], NEW c \in CallsOf[who],
           NEW next \in Review(who)!CallRecord, call' = [call EXCEPT ![a][c] = next]
    PROVE  /\ call' \in [AdminsOf[who] -> [CallsOf[who] -> Review(who)!CallRecord]]
           /\ call'[a][c] = next
           /\ \A b \in AdminsOf[who], d \in CallsOf[who] : b # a \/ d # c
               => call'[b][d] = call[b][d]
OBVIOUS

-----------------------------------------------------------------------------
\* What is not a decision: nothing is recorded that was not, and what was recorded stands.
LEMMA ReviewNothingDecided ==
    ASSUME NEW who,
           Review(who)!OpenIsOpen, Review(who)!OneDecision, Review(who)!ToldStands, told' = told,
           \A r \in Requests : status'[r] = status[r]
           \/ (status[r] = "none" /\ status'[r] = "pending"),
           \A r \in Requests, a \in AdminsOf[who], c \in CallsOf[who] :
           Review(who)!Recorded(a, c, r)' => Review(who)!Recorded(a, c, r)
    PROVE  Review(who)!OpenIsOpen' /\ Review(who)!OneDecision' /\ Review(who)!ToldStands'
<1>1. Review(who)!OpenIsOpen'
  BY DEF Review!OpenIsOpen
<1>2. Review(who)!OneDecision'
  BY DEF Review!OneDecision
<1>3. Review(who)!ToldStands'
  BY DEF Review!ToldStands, Review!OpenIsOpen
<1> QED
  BY <1>1, <1>2, <1>3

\* A request that is made was none before.
LEMMA ReviewAskKeeps ==
    ASSUME NEW who,
           Review(who)!IInv, NEW r \in Requests, Review(who)!Ask(r)
    PROVE  Review(who)!IInv'
<1> USE DEF Review!Ask, Review!cards
<1>1. Review(who)!TypeOK /\ Review(who)!DecisionsFit /\ Review(who)!StepsFit
         /\ Review(who)!OpenIsOpen /\ Review(who)!OneDecision /\ Review(who)!ToldStands
         /\ Review(who)!LiveIsApproved
  BY DEF Review!IInv
<1>2. \A q \in Requests : status'[q] = status[q] \/ (status[q] = "none" /\ status'[q] = "pending")
  BY <1>1 DEF Review!TypeOK
<1>3. Review(who)!TypeOK'
  BY <1>1 DEF Review!TypeOK, Review!Tabs, Review!CardsFit
<1>4. Review(who)!DecisionsFit' /\ Review(who)!StepsFit'
  <2>1. Review(who)!StepsFit'
    BY <1>1 DEF Review!StepsFit
  <2>2. ASSUME NEW a \in AdminsOf[who], NEW c \in CallsOf[who], call[a][c].step # "free",
           call[a][c].kind = "review",
               call[a][c].step \in {"recorded", "ok"}
        PROVE  status'[call[a][c].request] = call[a][c].verdict
    BY <1>1, <1>2, <2>2 DEF Review!DecisionsFit, Review!OpenIsOpen, Review!Recorded
  <2> QED
    BY <1>1, <2>1, <2>2 DEF Review!DecisionsFit
<1>5. Review(who)!OpenIsOpen' /\ Review(who)!OneDecision' /\ Review(who)!ToldStands'
  <2>1. \A q \in Requests, a \in AdminsOf[who], c \in CallsOf[who] : Review(who)!Recorded(a, c, q)'
           => Review(who)!Recorded(a, c, q)
    BY DEF Review!Recorded
  <2> HIDE DEF Review!Ask
  <2> QED
    BY <1>1, <1>2, <2>1, ReviewNothingDecided DEF Review!Ask
<1>6. Review(who)!LiveIsApproved'
  BY <1>1, <1>2 DEF Review!LiveIsApproved
<1> QED
  BY <1>3, <1>4, <1>5, <1>6 DEF Review!IInv

\* What touches neither the requests nor what was told, and turns one call that is not
\* recorded, or loses one.
LEMMA ReviewScreenKeeps ==
    ASSUME NEW who,
           Review(who)!IInv, UNCHANGED <<status, told>>,
           \A r \in Requests : live'[r] => live[r],
           NEW a \in AdminsOf[who], NEW c \in CallsOf[who],
           call'[a][c].step \in {"free", "sent", "refused"} \/ call'[a][c].kind = "load",
           call'[a][c].step = "recorded" => call'[a][c].kind = "review",
           call'[a][c].kind = "review" /\ call'[a][c].step # "free"
           => call'[a][c].request \in Requests,
           \A b \in AdminsOf[who], d \in CallsOf[who] : b # a \/ d # c =>
                 /\ call'[b][d].step = call[b][d].step /\ call'[b][d].kind = call[b][d].kind
                 /\ call'[b][d].request = call[b][d].request
                 /\ call'[b][d].verdict = call[b][d].verdict
    PROVE  Review(who)!DecisionsFit' /\ Review(who)!StepsFit' /\ Review(who)!OpenIsOpen'
           /\ Review(who)!OneDecision' /\ Review(who)!ToldStands' /\ Review(who)!LiveIsApproved'
<1>1. Review(who)!DecisionsFit /\ Review(who)!StepsFit /\ Review(who)!OpenIsOpen
         /\ Review(who)!OneDecision /\ Review(who)!ToldStands /\ Review(who)!LiveIsApproved
  BY DEF Review!IInv
<1>2. Review(who)!DecisionsFit'
  <2> SUFFICES ASSUME NEW b \in AdminsOf[who], NEW d \in CallsOf[who],
                      call'[b][d].step # "free", call'[b][d].kind = "review"
               PROVE  /\ call'[b][d].request \in Requests
                      /\ call'[b][d].step \in {"recorded", "ok"} =>
                            status[call'[b][d].request] = call'[b][d].verdict
                      /\ call'[b][d].step = "recorded" => call'[b][d].verdict = "approved"
    BY DEF Review!DecisionsFit
  <2>1. CASE b = a /\ d = c
    BY <2>1
  <2>2. CASE b # a \/ d # c
    BY <1>1, <2>2 DEF Review!DecisionsFit
  <2> QED
    BY <2>1, <2>2
<1>3. Review(who)!StepsFit'
  BY <1>1 DEF Review!StepsFit
<1>4. Review(who)!OpenIsOpen' /\ Review(who)!OneDecision' /\ Review(who)!ToldStands'
  <2>1. ASSUME NEW r \in Requests, NEW b \in AdminsOf[who], NEW d \in CallsOf[who],
           Review(who)!Recorded(b, d, r)'
        PROVE  Review(who)!Recorded(b, d, r)
    BY <2>1 DEF Review!Recorded
  <2> QED
    BY <1>1, <2>1, ReviewNothingDecided
<1>5. Review(who)!LiveIsApproved'
  BY <1>1 DEF Review!LiveIsApproved
<1> QED
  BY <1>2, <1>3, <1>4, <1>5

\* The types, variable by variable,
LEMMA ReviewTypeParts ==
    ASSUME NEW who,
           Review(who)!TypeOK
    PROVE  /\ status \in [Requests -> Review(who)!Tabs \cup {"none"}]
               /\ live \in [Requests -> BOOLEAN]
           /\ told \in [AdminsOf[who] -> [Requests -> {"none", "approved", "rejected"}]]
           /\ tab \in [AdminsOf[who] -> Review(who)!Tabs]
               /\ shown \in [AdminsOf[who] -> SUBSET Review(who)!Entry]
           /\ loading \in [AdminsOf[who] -> BOOLEAN] /\ Review(who)!CardsFit
           /\ call \in [AdminsOf[who] -> [CallsOf[who] -> Review(who)!CallRecord]]
               /\ faults \in 0..FaultsOf[who]
BY DEF Review!TypeOK, Review!CardsFit, Review!CallRecord

\* and back.
LEMMA ReviewPartsType ==
    ASSUME NEW who,
           status' \in [Requests -> Review(who)!Tabs \cup {"none"}],
           live' \in [Requests -> BOOLEAN],
           told' \in [AdminsOf[who] -> [Requests -> {"none", "approved", "rejected"}]],
           tab' \in [AdminsOf[who] -> Review(who)!Tabs],
           shown' \in [AdminsOf[who] -> SUBSET Review(who)!Entry],
           loading' \in [AdminsOf[who] -> BOOLEAN], Review(who)!CardsFit',
           call' \in [AdminsOf[who] -> [CallsOf[who] -> Review(who)!CallRecord]],
           faults' \in 0..FaultsOf[who]
    PROVE  Review(who)!TypeOK'
BY DEF Review!TypeOK, Review!CardsFit, Review!CallRecord

\* A list that is cleared.
LEMMA ReviewClearFits ==
    ASSUME NEW who,
           Review(who)!TypeOK, NEW a \in AdminsOf[who], Review(who)!Clear(a)
    PROVE  /\ shown' \in [AdminsOf[who] -> SUBSET Review(who)!Entry]
               /\ loading' \in [AdminsOf[who] -> BOOLEAN]
           /\ Review(who)!CardsFit'
BY DEF Review!TypeOK, Review!Clear, Review!CardsFit

\* What the server lists of a tab.
LEMMA ReviewListedFits ==
    ASSUME NEW who,
           NEW t \in Review(who)!Tabs
    PROVE  Review(who)!Listed(t) \in SUBSET Review(who)!Entry
BY DEF Review!Listed, Review!Entry

\* Choosing another tab.
LEMMA ReviewChooseTabKeeps ==
    ASSUME NEW who,
           Review(who)!IInv, NEW a \in AdminsOf[who], NEW t \in Review(who)!Tabs,
           Review(who)!ChooseTab(a, t)
    PROVE  Review(who)!IInv'
<1>1. Review(who)!TypeOK
  BY DEF Review!IInv
<1>2. PICK c \in CallsOf[who] : Review(who)!Go(a, c, Review(who)!Load(t), Requests)
  BY DEF Review!ChooseTab
<1>3. /\ call' \in [AdminsOf[who] -> [CallsOf[who] -> Review(who)!CallRecord]]
      /\ call'[a][c] = Review(who)!Load(t)
      /\ \A b \in AdminsOf[who], d \in CallsOf[who] : b # a \/ d # c =>
            /\ call'[b][d].step = call[b][d].step /\ call'[b][d].kind = call[b][d].kind
            /\ call'[b][d].request = call[b][d].request
            /\ call'[b][d].verdict = call[b][d].verdict
  <2>1. call \in [AdminsOf[who] -> [CallsOf[who] -> Review(who)!CallRecord]]
    BY <1>1, ReviewTypeParts
  <2>2. Review(who)!Load(t) \in Review(who)!CallRecord
    BY ReviewRecordsFit
  <2> QED
    BY <2>1, <2>2, <1>2, ReviewGoTurns
<1>4. UNCHANGED <<status, live, told, faults>>
  BY DEF Review!ChooseTab, Review!server
<1>5. Review(who)!TypeOK'
  <2>1. tab' \in [AdminsOf[who] -> Review(who)!Tabs]
    BY <1>1, ReviewTypeParts DEF Review!ChooseTab
  <2>2. Review(who)!Clear(a)
    BY DEF Review!ChooseTab
  <2> QED
    BY <1>1, <1>3, <1>4, <2>1, <2>2, ReviewClearFits, ReviewTypeParts, ReviewPartsType
<1>6. Review(who)!DecisionsFit' /\ Review(who)!StepsFit' /\ Review(who)!OpenIsOpen'
         /\ Review(who)!OneDecision' /\ Review(who)!ToldStands' /\ Review(who)!LiveIsApproved'
  BY <1>3, <1>4, ReviewRecordsFit, ReviewScreenKeeps
<1> QED
  BY <1>5, <1>6 DEF Review!IInv

\* What only the cards of a screen change about,
LEMMA ReviewCardKeeps ==
    ASSUME NEW who,
           Review(who)!IInv, Review(who)!CardsFit', UNCHANGED <<Review(who)!server, told, tab,
           shown, loading, call, faults>>
    PROVE  Review(who)!IInv'
<1>1. Review(who)!TypeOK /\ Review(who)!DecisionsFit /\ Review(who)!StepsFit
         /\ Review(who)!OpenIsOpen /\ Review(who)!OneDecision /\ Review(who)!ToldStands
         /\ Review(who)!LiveIsApproved
  BY DEF Review!IInv
<1>2. UNCHANGED <<status, live, told, tab, shown, loading, call, faults>>
  BY DEF Review!server
<1>3. Review(who)!TypeOK'
  BY <1>1, <1>2, ReviewTypeParts, ReviewPartsType
<1>4. Review(who)!DecisionsFit' /\ Review(who)!StepsFit'
  BY <1>1, <1>2 DEF Review!DecisionsFit, Review!StepsFit
<1>5. Review(who)!OpenIsOpen' /\ Review(who)!OneDecision' /\ Review(who)!ToldStands'
  BY <1>1, <1>2, ReviewNothingDecided DEF Review!Recorded
<1>6. Review(who)!LiveIsApproved'
  BY <1>1, <1>2 DEF Review!LiveIsApproved
<1> QED
  BY <1>3, <1>4, <1>5, <1>6 DEF Review!IInv

\* as approving does,
LEMMA ReviewApproveKeeps ==
    ASSUME NEW who,
           Review(who)!IInv, NEW a \in AdminsOf[who], NEW r \in Requests, Review(who)!Approve(a, r)
    PROVE  Review(who)!IInv'
<1>1. Review(who)!CardsFit'
  BY DEF Review!IInv, Review!TypeOK, Review!CardsFit, Review!Approve
<1> QED
  BY <1>1, ReviewCardKeeps DEF Review!Approve

\* and thinking better of it.
LEMMA ReviewCancelKeeps ==
    ASSUME NEW who,
           Review(who)!IInv, NEW a \in AdminsOf[who], NEW r \in Requests, Review(who)!Cancel(a, r)
    PROVE  Review(who)!IInv'
<1>1. Review(who)!CardsFit'
  BY DEF Review!IInv, Review!TypeOK, Review!CardsFit, Review!Cancel
<1> QED
  BY <1>1, ReviewCardKeeps DEF Review!Cancel

\* A decision is sent; nothing is recorded yet.
LEMMA ReviewDecideKeeps ==
    ASSUME NEW who,
           Review(who)!IInv, NEW a \in AdminsOf[who], NEW r \in Requests,
           NEW v \in {"approved", "rejected"},
           Review(who)!Decide(a, r, v)
    PROVE  Review(who)!IInv'
<1>1. Review(who)!TypeOK
  BY DEF Review!IInv
<1> DEFINE asked == [Review(who)!Load(tab[a]) EXCEPT !.kind = "review", !.request = r,
       !.verdict = v]
<1>2. asked \in Review(who)!CallRecord /\ asked.step = "sent" /\ asked.request = r
  <2>1. Review(who)!Load(tab[a]) \in Review(who)!CallRecord
           /\ Review(who)!Load(tab[a]).step = "sent"
    BY <1>1, ReviewRecordsFit, ReviewTypeParts
  <2> QED
    BY <2>1 DEF Review!CallRecord
<1>3. PICK c \in CallsOf[who] : call' = [call EXCEPT ![a][c] = asked]
  BY DEF Review!Decide
<1> HIDE DEF asked
<1>4. /\ call' \in [AdminsOf[who] -> [CallsOf[who] -> Review(who)!CallRecord]]
      /\ call'[a][c] = asked
      /\ \A b \in AdminsOf[who], d \in CallsOf[who] : b # a \/ d # c => call'[b][d] = call[b][d]
  BY <1>1, <1>2, <1>3, ReviewOneTurns, ReviewTypeParts
<1>5. UNCHANGED <<status, live, told, tab, shown, loading, faults>>
  BY DEF Review!Decide, Review!server
<1>6. Review(who)!TypeOK'
  <2>1. Review(who)!CardsFit'
    BY <1>1 DEF Review!TypeOK, Review!CardsFit, Review!Decide
  <2> QED
    BY <1>1, <1>4, <1>5, <2>1, ReviewTypeParts, ReviewPartsType
<1>7. Review(who)!DecisionsFit' /\ Review(who)!StepsFit' /\ Review(who)!OpenIsOpen'
         /\ Review(who)!OneDecision' /\ Review(who)!ToldStands' /\ Review(who)!LiveIsApproved'
  BY <1>2, <1>4, <1>5, ReviewScreenKeeps
<1> QED
  BY <1>6, <1>7 DEF Review!IInv

\* A list is read.
LEMMA ReviewServeLoadKeeps ==
    ASSUME NEW who,
           Review(who)!IInv, NEW a \in AdminsOf[who], NEW c \in CallsOf[who],
           Review(who)!ServeLoad(a, c)
    PROVE  Review(who)!IInv'
<1>1. Review(who)!TypeOK
  BY DEF Review!IInv
<1> DEFINE listed == Review(who)!Listed(call[a][c].tab)
           next == [call[a][c] EXCEPT !.step = "ok", !.answer = listed]
<1>2. next \in Review(who)!CallRecord /\ next.step = "ok" /\ next.kind = "load"
  <2>1. call[a][c] \in Review(who)!CallRecord /\ call[a][c].kind = "load"
    BY <1>1, ReviewTypeParts DEF Review!ServeLoad, Review!At
  <2>2. listed \in SUBSET Review(who)!Entry
    BY <2>1, ReviewListedFits DEF Review!CallRecord
  <2> HIDE DEF listed
  <2> QED
    BY <2>1, <2>2 DEF Review!CallRecord
<1>3. call' = [call EXCEPT ![a][c] = next]
  BY <1>1, ReviewTypeParts DEF Review!ServeLoad
<1> HIDE DEF next
<1>4. /\ call' \in [AdminsOf[who] -> [CallsOf[who] -> Review(who)!CallRecord]]
      /\ call'[a][c] = next
      /\ \A b \in AdminsOf[who], d \in CallsOf[who] : b # a \/ d # c => call'[b][d] = call[b][d]
  BY <1>1, <1>2, <1>3, ReviewOneTurns, ReviewTypeParts
<1>5. UNCHANGED <<status, live, told, tab, shown, loading, confirming, busy, faults>>
  BY DEF Review!ServeLoad, Review!server, Review!Screens, Review!cards
<1>6. Review(who)!TypeOK'
  <2>1. Review(who)!CardsFit'
    BY <1>1, <1>5, ReviewTypeParts DEF Review!CardsFit
  <2> QED
    BY <1>1, <1>4, <1>5, <2>1, ReviewTypeParts, ReviewPartsType
<1>7. Review(who)!DecisionsFit' /\ Review(who)!StepsFit' /\ Review(who)!OpenIsOpen'
         /\ Review(who)!OneDecision' /\ Review(who)!ToldStands' /\ Review(who)!LiveIsApproved'
  BY <1>2, <1>4, <1>5, ReviewScreenKeeps
<1> QED
  BY <1>6, <1>7 DEF Review!IInv

\* A call that fails tells nobody of a decision.
LEMMA ReviewFailKeeps ==
    ASSUME NEW who,
           Review(who)!ConstantsFit, Review(who)!IInv, NEW a \in AdminsOf[who],
           NEW c \in CallsOf[who], Review(who)!Fail(a, c)
    PROVE  Review(who)!IInv'
<1>1. Review(who)!TypeOK /\ Review(who)!DecisionsFit
  BY DEF Review!IInv
<1>2. Review(who)!Reply(a, c, "refused") /\ call[a][c].step # "free"
  BY DEF Review!Fail
<1>3. /\ call' \in [AdminsOf[who] -> [CallsOf[who] -> Review(who)!CallRecord]]
      /\ call'[a][c].step = "refused" /\ call'[a][c].kind = call[a][c].kind
      /\ call'[a][c].request = call[a][c].request /\ call'[a][c].verdict = call[a][c].verdict
      /\ \A b \in AdminsOf[who], d \in CallsOf[who] : b # a \/ d # c => call'[b][d] = call[b][d]
  BY <1>1, <1>2, ReviewReplyTurns, ReviewTypeParts
<1>4. UNCHANGED <<status, live, told, tab, shown, loading, confirming, busy>>
  BY DEF Review!Fail, Review!server, Review!Screens, Review!cards
<1>5. Review(who)!TypeOK'
  <2>1. Review(who)!CardsFit'
    BY <1>1, <1>4, ReviewTypeParts DEF Review!CardsFit
  <2>2. faults' \in 0..FaultsOf[who]
    BY <1>1, ReviewTypeParts DEF Review!Fail, Review!ConstantsFit
  <2> QED
    BY <1>1, <1>3, <1>4, <2>1, <2>2, ReviewTypeParts, ReviewPartsType
<1>6. Review(who)!DecisionsFit' /\ Review(who)!StepsFit' /\ Review(who)!OpenIsOpen'
         /\ Review(who)!OneDecision' /\ Review(who)!ToldStands' /\ Review(who)!LiveIsApproved'
  <2>1. call[a][c].kind = "review" => call[a][c].request \in Requests
    BY <1>1, <1>2 DEF Review!DecisionsFit
  <2>2. /\ call'[a][c].step = "refused"
        /\ call'[a][c].kind = "review" => call'[a][c].request \in Requests
    BY <2>1, <1>3
  <2>3. \A b \in AdminsOf[who], d \in CallsOf[who] : b # a \/ d # c =>
           /\ call'[b][d].step = call[b][d].step /\ call'[b][d].kind = call[b][d].kind
           /\ call'[b][d].request = call[b][d].request
           /\ call'[b][d].verdict = call[b][d].verdict
    BY <1>3
  <2> QED
    BY <2>2, <2>3, <1>4, ReviewScreenKeeps
<1> QED
  BY <1>5, <1>6 DEF Review!IInv

\* A list arrives.
LEMMA ReviewTakeLoadKeeps ==
    ASSUME NEW who,
           Review(who)!IInv, NEW a \in AdminsOf[who], NEW c \in CallsOf[who],
           Review(who)!TakeLoad(a, c)
    PROVE  Review(who)!IInv'
<1>1. Review(who)!TypeOK
  BY DEF Review!IInv
<1> DEFINE listed == IF call[a][c].step = "ok" THEN call[a][c].answer ELSE {}
           gone == Requests \ {x.request : x \in listed}
<1>2. /\ Review(who)!Go(a, c, Review(who)!Free, gone) /\ shown' = [shown EXCEPT ![a] = listed]
      /\ confirming' = [confirming EXCEPT ![a] = [r \in Requests |-> @[r] /\ r \notin gone]]
      /\ busy' = [busy EXCEPT ![a] = [r \in Requests |-> @[r] /\ r \notin gone]]
      /\ loading' = [loading EXCEPT ![a] = FALSE]
  BY DEF Review!TakeLoad
<1>3. listed \in SUBSET Review(who)!Entry
  BY <1>1, ReviewTypeParts DEF Review!CallRecord
<1> HIDE DEF listed, gone
<1>4. /\ call' \in [AdminsOf[who] -> [CallsOf[who] -> Review(who)!CallRecord]]
      /\ call'[a][c] = Review(who)!Free
      /\ \A b \in AdminsOf[who], d \in CallsOf[who] : b # a \/ d # c =>
            /\ call'[b][d].step = call[b][d].step /\ call'[b][d].kind = call[b][d].kind
            /\ call'[b][d].request = call[b][d].request
            /\ call'[b][d].verdict = call[b][d].verdict
  <2>1. call \in [AdminsOf[who] -> [CallsOf[who] -> Review(who)!CallRecord]]
    BY <1>1, ReviewTypeParts
  <2>2. Review(who)!Free \in Review(who)!CallRecord
    BY ReviewRecordsFit
  <2> QED
    BY <2>1, <2>2, <1>2, ReviewGoTurns
<1>5. UNCHANGED <<status, live, told, tab, faults>>
  BY DEF Review!TakeLoad, Review!server
<1>6. Review(who)!TypeOK'
  <2>1. shown' \in [AdminsOf[who] -> SUBSET Review(who)!Entry]
           /\ loading' \in [AdminsOf[who] -> BOOLEAN]
    BY <1>1, <1>2, <1>3, ReviewTypeParts
  <2>2. Review(who)!CardsFit'
    BY <1>1, <1>2, ReviewTypeParts DEF Review!CardsFit
  <2> QED
    BY <1>1, <1>4, <1>5, <2>1, <2>2, ReviewTypeParts, ReviewPartsType
<1>7. Review(who)!DecisionsFit' /\ Review(who)!StepsFit' /\ Review(who)!OpenIsOpen'
         /\ Review(who)!OneDecision' /\ Review(who)!ToldStands' /\ Review(who)!LiveIsApproved'
  BY <1>4, <1>5, ReviewRecordsFit, ReviewScreenKeeps
<1> QED
  BY <1>6, <1>7 DEF Review!IInv

\* An administrator who is refused is told of no decision.
LEMMA ReviewTakeRefusalKeeps ==
    ASSUME NEW who,
           Review(who)!IInv, NEW a \in AdminsOf[who], NEW c \in CallsOf[who],
           Review(who)!TakeRefusal(a, c)
    PROVE  Review(who)!IInv'
<1>1. Review(who)!TypeOK /\ Review(who)!DecisionsFit
  BY DEF Review!IInv
<1>2. /\ call' \in [AdminsOf[who] -> [CallsOf[who] -> Review(who)!CallRecord]]
      /\ call'[a][c] = Review(who)!Free
      /\ \A b \in AdminsOf[who], d \in CallsOf[who] : b # a \/ d # c => call'[b][d] = call[b][d]
  BY <1>1, ReviewOneTurns, ReviewRecordsFit, ReviewTypeParts DEF Review!TakeRefusal
<1>3. UNCHANGED <<status, live, told, tab, shown, loading, faults>>
  BY DEF Review!TakeRefusal, Review!server
<1>4. Review(who)!TypeOK'
  <2>1. call[a][c].request \in Requests
    BY <1>1 DEF Review!TakeRefusal, Review!At, Review!DecisionsFit
  <2>2. CASE call[a][c].card
    <3>1. /\ confirming' = [confirming EXCEPT ![a][call[a][c].request] = FALSE]
          /\ busy' = [busy EXCEPT ![a][call[a][c].request] = FALSE]
      BY <2>2 DEF Review!TakeRefusal
    <3>2. Review(who)!CardsFit'
      BY <1>1, <2>1, <3>1, ReviewTypeParts DEF Review!CardsFit
    <3> QED
      BY <1>1, <1>2, <1>3, <3>2, ReviewTypeParts, ReviewPartsType
  <2>3. CASE ~call[a][c].card
    <3>1. Review(who)!CardsFit'
      BY <1>1, <2>3, ReviewTypeParts DEF Review!TakeRefusal, Review!cards, Review!CardsFit
    <3> QED
      BY <1>1, <1>2, <1>3, <3>1, ReviewTypeParts, ReviewPartsType
  <2> QED
    BY <2>2, <2>3
<1>5. Review(who)!DecisionsFit' /\ Review(who)!StepsFit' /\ Review(who)!OpenIsOpen'
         /\ Review(who)!OneDecision' /\ Review(who)!ToldStands' /\ Review(who)!LiveIsApproved'
  <2>1. call'[a][c].step = "free" /\ call'[a][c].kind = "load"
    BY <1>2, ReviewRecordsFit
  <2>2. \A b \in AdminsOf[who], d \in CallsOf[who] : b # a \/ d # c =>
           /\ call'[b][d].step = call[b][d].step /\ call'[b][d].kind = call[b][d].kind
           /\ call'[b][d].request = call[b][d].request
           /\ call'[b][d].verdict = call[b][d].verdict
    BY <1>2
  <2> QED
    BY <2>1, <2>2, <1>3, ReviewScreenKeeps
<1> QED
  BY <1>4, <1>5 DEF Review!IInv

-----------------------------------------------------------------------------
\* The decision itself, its second write, and the news of it.
LEMMA ReviewRecordKeeps ==
    ASSUME NEW who,
           Review(who)!IInv, NEW a \in AdminsOf[who], NEW c \in CallsOf[who],
           Review(who)!Record(a, c)
    PROVE  Review(who)!IInv'
<1>1. Review(who)!TypeOK /\ Review(who)!DecisionsFit /\ Review(who)!StepsFit
         /\ Review(who)!OpenIsOpen /\ Review(who)!OneDecision /\ Review(who)!ToldStands
         /\ Review(who)!LiveIsApproved
  BY DEF Review!IInv
<1> DEFINE r == call[a][c].request
           v == call[a][c].verdict
<1>2. /\ call[a][c].kind = "review" /\ call[a][c].step = "sent" /\ r \in Requests
      /\ v \in {"approved", "rejected"}
      /\ UNCHANGED <<live, told, tab, shown, loading, confirming, busy, faults>>
  BY <1>1, ReviewTypeParts DEF Review!Record, Review!At, Review!Screens, Review!cards,
       Review!DecisionsFit, Review!CallRecord
<1>3. Review(who)!CardsFit'
  BY <1>1, <1>2, ReviewTypeParts DEF Review!CardsFit
<1>4. CASE status[r] # "pending"
  <2>1. UNCHANGED status /\ Review(who)!Reply(a, c, "refused")
    BY <1>4 DEF Review!Record
  <2>2. /\ call' \in [AdminsOf[who] -> [CallsOf[who] -> Review(who)!CallRecord]]
        /\ call'[a][c].step = "refused" /\ call'[a][c].kind = call[a][c].kind
        /\ call'[a][c].request = r
        /\ \A b \in AdminsOf[who], d \in CallsOf[who] : b # a \/ d # c => call'[b][d] = call[b][d]
    BY <1>1, <2>1, ReviewReplyTurns, ReviewTypeParts
  <2>3. Review(who)!TypeOK'
    BY <1>1, <1>2, <1>3, <2>1, <2>2, ReviewTypeParts, ReviewPartsType
  <2>4. Review(who)!DecisionsFit' /\ Review(who)!StepsFit' /\ Review(who)!OpenIsOpen'
           /\ Review(who)!OneDecision' /\ Review(who)!ToldStands' /\ Review(who)!LiveIsApproved'
    BY <1>2, <2>1, <2>2, ReviewScreenKeeps
  <2> QED
    BY <2>3, <2>4 DEF Review!IInv
<1>5. CASE status[r] = "pending"
  <2> DEFINE next == IF v = "approved" THEN "recorded" ELSE "ok"
  <2>1. status' = [status EXCEPT ![r] = v] /\ Review(who)!Reply(a, c, next)
    BY <1>5 DEF Review!Record
  <2>2. next \in {"free", "sent", "recorded", "ok", "refused"}
        /\ next \in {"recorded", "ok"} /\ (next = "recorded" => v = "approved")
    BY <1>2
  <2> HIDE DEF next
  <2>3. /\ call' \in [AdminsOf[who] -> [CallsOf[who] -> Review(who)!CallRecord]]
        /\ call'[a][c].step = next /\ call'[a][c].kind = "review"
        /\ call'[a][c].request = r /\ call'[a][c].verdict = v
        /\ \A b \in AdminsOf[who], d \in CallsOf[who] : b # a \/ d # c => call'[b][d] = call[b][d]
    BY <1>1, <1>2, <2>1, <2>2, ReviewReplyTurns, ReviewTypeParts
  <2> HIDE DEF r, v
  <2>4. status'[r] = v /\ \A q \in Requests : q # r => status'[q] = status[q]
    BY <1>1, <1>2, <2>1, ReviewTypeParts
  <2>5. Review(who)!TypeOK'
    <3>1. status' \in [Requests -> Review(who)!Tabs \cup {"none"}]
      BY <1>1, <1>2, <2>1, ReviewTypeParts DEF Review!Tabs
    <3> QED
      BY <1>1, <1>2, <1>3, <2>3, <3>1, ReviewTypeParts, ReviewPartsType
  <2>6. \A b \in AdminsOf[who] : told[b][r] = "none" /\ \A d \in CallsOf[who] :
           ~Review(who)!Recorded(b, d, r)
    BY <1>1, <1>2, <1>5 DEF Review!OpenIsOpen
  <2>7. \A b \in AdminsOf[who], d \in CallsOf[who], q \in Requests :
           Review(who)!Recorded(b, d, q)' => Review(who)!Recorded(b, d, q)
           \/ (b = a /\ d = c /\ q = r)
    BY <2>3 DEF Review!Recorded
  <2>8. Review(who)!DecisionsFit'
    <3> SUFFICES ASSUME NEW b \in AdminsOf[who], NEW d \in CallsOf[who],
                        call'[b][d].step # "free", call'[b][d].kind = "review"
                 PROVE  /\ call'[b][d].request \in Requests
                        /\ call'[b][d].step \in {"recorded", "ok"} =>
                              status'[call'[b][d].request] = call'[b][d].verdict
                        /\ call'[b][d].step = "recorded" => call'[b][d].verdict = "approved"
      BY DEF Review!DecisionsFit
    <3>1. CASE b = a /\ d = c
      BY <1>2, <2>2, <2>3, <2>4, <3>1
    <3>2. CASE b # a \/ d # c
      BY <1>1, <2>3, <2>4, <2>6, <3>2 DEF Review!DecisionsFit, Review!Recorded
    <3> QED
      BY <3>1, <3>2
  <2>9. Review(who)!StepsFit'
    <3> SUFFICES ASSUME NEW b \in AdminsOf[who], NEW d \in CallsOf[who],
           call'[b][d].step = "recorded"
                 PROVE  call'[b][d].kind = "review"
      BY DEF Review!StepsFit
    <3> QED
      BY <1>1, <2>3 DEF Review!StepsFit
  <2>10. Review(who)!OpenIsOpen'
    <3> SUFFICES ASSUME NEW q \in Requests, status'[q] \in {"none", "pending"}
                 PROVE  \A b \in AdminsOf[who] : told'[b][q] = "none" /\ \A d \in CallsOf[who] :
                        ~Review(who)!Recorded(b, d, q)'
      BY DEF Review!OpenIsOpen
    <3>1. q # r
      BY <1>2, <2>4
    <3> QED
      BY <1>1, <1>2, <2>4, <2>7, <3>1 DEF Review!OpenIsOpen
  <2>11. Review(who)!OneDecision'
    <3> SUFFICES ASSUME NEW q \in Requests, NEW b \in AdminsOf[who], NEW e \in AdminsOf[who]
                 PROVE  /\ told'[b][q] # "none" /\ told'[e][q] # "none" => b = e
                        /\ told'[b][q] # "none" => \A d \in CallsOf[who] :
                            ~Review(who)!Recorded(e, d, q)'
                        /\ \A d \in CallsOf[who], f \in CallsOf[who] :
                              Review(who)!Recorded(b, d, q)' /\ Review(who)!Recorded(e, f, q)'
                              => b = e /\ d = f
      BY DEF Review!OneDecision
    <3>1. CASE q = r
      BY <1>2, <2>6, <2>7, <3>1
    <3>2. CASE q # r
      BY <1>1, <1>2, <2>7, <3>2 DEF Review!OneDecision
    <3> QED
      BY <3>1, <3>2
  <2>12. Review(who)!ToldStands'
    BY <1>1, <1>2, <2>4, <2>6 DEF Review!ToldStands
  <2>13. Review(who)!LiveIsApproved'
    BY <1>1, <1>2, <1>5, <2>4 DEF Review!LiveIsApproved
  <2> QED
    BY <2>5, <2>8, <2>9, <2>10, <2>11, <2>12, <2>13 DEF Review!IInv
<1> QED
  BY <1>4, <1>5

\* Credentials are made of what is recorded as approved.
LEMMA ReviewMakeLiveKeeps ==
    ASSUME NEW who,
           Review(who)!IInv, NEW a \in AdminsOf[who], NEW c \in CallsOf[who],
           Review(who)!MakeLive(a, c)
    PROVE  Review(who)!IInv'
<1>1. Review(who)!TypeOK /\ Review(who)!DecisionsFit /\ Review(who)!StepsFit
         /\ Review(who)!OpenIsOpen /\ Review(who)!OneDecision /\ Review(who)!ToldStands
         /\ Review(who)!LiveIsApproved
  BY DEF Review!IInv
<1> DEFINE r == call[a][c].request
<1>2. /\ call[a][c].kind = "review" /\ call[a][c].step = "recorded" /\ r \in Requests
      /\ status[r] = "approved" /\ call[a][c].verdict = "approved"
      /\ live' = [live EXCEPT ![r] = TRUE] /\ Review(who)!Reply(a, c, "ok")
      /\ UNCHANGED <<status, told, tab, shown, loading, confirming, busy, faults>>
  BY <1>1 DEF Review!MakeLive, Review!At, Review!Screens, Review!cards, Review!DecisionsFit
<1>3. /\ call' \in [AdminsOf[who] -> [CallsOf[who] -> Review(who)!CallRecord]]
      /\ call'[a][c].step = "ok" /\ call'[a][c].kind = "review"
      /\ call'[a][c].request = r /\ call'[a][c].verdict = "approved"
      /\ \A b \in AdminsOf[who], d \in CallsOf[who] : b # a \/ d # c => call'[b][d] = call[b][d]
  BY <1>1, <1>2, ReviewReplyTurns, ReviewTypeParts
<1> HIDE DEF r
<1>4. Review(who)!TypeOK'
  <2>1. Review(who)!CardsFit' /\ live' \in [Requests -> BOOLEAN]
    BY <1>1, <1>2, ReviewTypeParts DEF Review!CardsFit
  <2> QED
    BY <1>1, <1>2, <1>3, <2>1, ReviewTypeParts, ReviewPartsType
<1>5. Review(who)!DecisionsFit' /\ Review(who)!StepsFit'
  <2> SUFFICES ASSUME NEW b \in AdminsOf[who], NEW d \in CallsOf[who]
               PROVE  /\ call'[b][d].step # "free" /\ call'[b][d].kind = "review" =>
                            /\ call'[b][d].request \in Requests
                            /\ call'[b][d].step \in {"recorded", "ok"} =>
                                  status[call'[b][d].request] = call'[b][d].verdict
                            /\ call'[b][d].step = "recorded" => call'[b][d].verdict = "approved"
                      /\ call'[b][d].step = "recorded" => call'[b][d].kind = "review"
    BY <1>2 DEF Review!DecisionsFit, Review!StepsFit
  <2>1. CASE b = a /\ d = c
    BY <1>2, <1>3, <2>1
  <2>2. CASE b # a \/ d # c
    BY <1>1, <1>3, <2>2 DEF Review!DecisionsFit, Review!StepsFit
  <2> QED
    BY <2>1, <2>2
<1>6. Review(who)!OpenIsOpen' /\ Review(who)!OneDecision' /\ Review(who)!ToldStands'
  <2>1. ASSUME NEW q \in Requests, NEW b \in AdminsOf[who], NEW d \in CallsOf[who],
           Review(who)!Recorded(b, d, q)'
        PROVE  Review(who)!Recorded(b, d, q)
    <3>1. CASE b = a /\ d = c
      BY <1>2, <1>3, <2>1, <3>1 DEF Review!Recorded, r
    <3>2. CASE b # a \/ d # c
      BY <1>3, <2>1, <3>2 DEF Review!Recorded
    <3> QED
      BY <3>1, <3>2
  <2> QED
    BY <1>1, <1>2, <2>1, ReviewNothingDecided
<1>7. Review(who)!LiveIsApproved'
  BY <1>1, <1>2, ReviewTypeParts DEF Review!LiveIsApproved
<1> QED
  BY <1>4, <1>5, <1>6, <1>7 DEF Review!IInv

\* Who sent the call that recorded the decision is told, and nobody else.
LEMMA ReviewTakeDoneKeeps ==
    ASSUME NEW who,
           Review(who)!IInv, NEW a \in AdminsOf[who], NEW c \in CallsOf[who],
           Review(who)!TakeDone(a, c)
    PROVE  Review(who)!IInv'
<1>1. Review(who)!TypeOK /\ Review(who)!DecisionsFit /\ Review(who)!StepsFit
         /\ Review(who)!OpenIsOpen /\ Review(who)!OneDecision /\ Review(who)!ToldStands
         /\ Review(who)!LiveIsApproved
  BY DEF Review!IInv
<1> DEFINE r == call[a][c].request
           v == call[a][c].verdict
           next == Review(who)!Load(call[a][c].tab)
<1>2. /\ Review(who)!Recorded(a, c, r) /\ r \in Requests /\ status[r] = v
          /\ v \in {"approved", "rejected"}
      /\ told' = [told EXCEPT ![a][r] = v] /\ Review(who)!Clear(a)
          /\ Review(who)!Go(a, c, next, Requests)
      /\ UNCHANGED <<status, live, tab, faults>>
  BY <1>1, ReviewTypeParts DEF Review!TakeDone, Review!At, Review!Recorded, Review!server,
       Review!DecisionsFit, Review!CallRecord
<1>3. next \in Review(who)!CallRecord /\ next.step = "sent" /\ next.kind = "load"
  BY <1>1, ReviewTypeParts, ReviewRecordsFit DEF Review!CallRecord
<1> HIDE DEF next, r, v
<1>4. /\ call' \in [AdminsOf[who] -> [CallsOf[who] -> Review(who)!CallRecord]]
      /\ call'[a][c] = next
      /\ \A b \in AdminsOf[who], d \in CallsOf[who] : b # a \/ d # c =>
            /\ call'[b][d].step = call[b][d].step /\ call'[b][d].kind = call[b][d].kind
            /\ call'[b][d].request = call[b][d].request
            /\ call'[b][d].verdict = call[b][d].verdict
  <2>1. call \in [AdminsOf[who] -> [CallsOf[who] -> Review(who)!CallRecord]]
    BY <1>1, ReviewTypeParts
  <2> QED
    BY <2>1, <1>2, <1>3, ReviewGoTurns
<1>5. /\ told'[a][r] = v
      /\ \A b \in AdminsOf[who], q \in Requests : b # a \/ q # r => told'[b][q] = told[b][q]
      /\ told' \in [AdminsOf[who] -> [Requests -> {"none", "approved", "rejected"}]]
  BY <1>1, <1>2, ReviewTypeParts
<1>6. Review(who)!TypeOK'
  BY <1>1, <1>2, <1>4, <1>5, ReviewClearFits, ReviewTypeParts, ReviewPartsType
<1>7. Review(who)!DecisionsFit' /\ Review(who)!StepsFit'
  <2> SUFFICES ASSUME NEW b \in AdminsOf[who], NEW d \in CallsOf[who]
               PROVE  /\ call'[b][d].step # "free" /\ call'[b][d].kind = "review" =>
                            /\ call'[b][d].request \in Requests
                            /\ call'[b][d].step \in {"recorded", "ok"} =>
                                  status[call'[b][d].request] = call'[b][d].verdict
                            /\ call'[b][d].step = "recorded" => call'[b][d].verdict = "approved"
                      /\ call'[b][d].step = "recorded" => call'[b][d].kind = "review"
    BY <1>2 DEF Review!DecisionsFit, Review!StepsFit
  <2>1. CASE b = a /\ d = c
    BY <1>3, <1>4, <2>1
  <2>2. CASE b # a \/ d # c
    BY <1>1, <1>4, <2>2 DEF Review!DecisionsFit, Review!StepsFit
  <2> QED
    BY <2>1, <2>2
<1>8. \A b \in AdminsOf[who], d \in CallsOf[who], q \in Requests :
         Review(who)!Recorded(b, d, q)' => Review(who)!Recorded(b, d, q) /\ (b # a \/ d # c)
  BY <1>3, <1>4 DEF Review!Recorded
<1>9. Review(who)!OpenIsOpen'
  <2>1. status[r] \notin {"none", "pending"}
    BY <1>2
  <2> QED
    BY <1>1, <1>2, <1>5, <1>8, <2>1 DEF Review!OpenIsOpen
<1>10. Review(who)!OneDecision'
  <2> SUFFICES ASSUME NEW q \in Requests, NEW b \in AdminsOf[who], NEW e \in AdminsOf[who]
               PROVE  /\ told'[b][q] # "none" /\ told'[e][q] # "none" => b = e
                      /\ told'[b][q] # "none" => \A d \in CallsOf[who] :
                          ~Review(who)!Recorded(e, d, q)'
                      /\ \A d \in CallsOf[who], f \in CallsOf[who] :
                            Review(who)!Recorded(b, d, q)' /\ Review(who)!Recorded(e, f, q)'
                            => b = e /\ d = f
    BY DEF Review!OneDecision
  <2>1. CASE q = r
    <3>1. \A g \in AdminsOf[who] : told[g][r] = "none"
      BY <1>1, <1>2 DEF Review!OneDecision
    <3>2. \A g \in AdminsOf[who], d \in CallsOf[who] : Review(who)!Recorded(g, d, r) => g = a
             /\ d = c
      BY <1>1, <1>2 DEF Review!OneDecision
    <3> QED
      BY <1>5, <1>8, <2>1, <3>1, <3>2
  <2>2. CASE q # r
    BY <1>1, <1>5, <1>8, <2>2 DEF Review!OneDecision
  <2> QED
    BY <2>1, <2>2
<1>11. Review(who)!ToldStands'
  BY <1>1, <1>2, <1>5 DEF Review!ToldStands
<1>12. Review(who)!LiveIsApproved'
  BY <1>1, <1>2 DEF Review!LiveIsApproved
<1> QED
  BY <1>6, <1>7, <1>9, <1>10, <1>11, <1>12 DEF Review!IInv

-----------------------------------------------------------------------------
\* The invariant holds at the start,
LEMMA ReviewInitIInv ==
    ASSUME NEW who,
           Review(who)!ConstantsFit, Review(who)!Init
    PROVE  Review(who)!IInv
<1> PICK first \in CallsOf[who] :
        call = [a \in AdminsOf[who] |-> [d \in CallsOf[who] |-> IF d = first
        THEN Review(who)!Load("pending") ELSE Review(who)!Free]]
  BY DEF Review!Init
<1>1. "pending" \in Review(who)!Tabs
  BY DEF Review!Tabs
<1>2. ASSUME NEW a \in AdminsOf[who], NEW d \in CallsOf[who]
      PROVE  /\ call[a][d] \in Review(who)!CallRecord /\ call[a][d].kind = "load"
             /\ call[a][d].step \in {"free", "sent"}
  BY <1>1, ReviewRecordsFit
<1>3. Review(who)!TypeOK
  <2>1. call \in [AdminsOf[who] -> [CallsOf[who] -> Review(who)!CallRecord]]
    BY <1>1, ReviewRecordsFit
  <2> QED
    BY <1>1, <2>1 DEF Review!Init, Review!TypeOK, Review!ConstantsFit, Review!Tabs, Review!CardsFit
<1>4. \A a \in AdminsOf[who], d \in CallsOf[who], r \in Requests : ~Review(who)!Recorded(a, d, r)
         /\ told[a][r] = "none"
  BY <1>2 DEF Review!Recorded, Review!Init
<1>5. Review(who)!DecisionsFit /\ Review(who)!StepsFit
  BY <1>2 DEF Review!DecisionsFit, Review!StepsFit
<1>6. Review(who)!OpenIsOpen /\ Review(who)!OneDecision /\ Review(who)!ToldStands
         /\ Review(who)!LiveIsApproved
  <2>1. \A a \in AdminsOf[who], r \in Requests : told[a][r] = "none"
    BY DEF Review!Init
  <2>2. \A r \in Requests : ~live[r]
    BY DEF Review!Init
  <2> QED
    BY <1>4, <2>1, <2>2 DEF Review!OpenIsOpen, Review!OneDecision, Review!ToldStands,
         Review!LiveIsApproved
<1> QED
  BY <1>3, <1>5, <1>6 DEF Review!IInv

\* and every step keeps it.
LEMMA ReviewNextIInv ==
    ASSUME NEW who,
           Review(who)!ConstantsFit, Review(who)!IInv, [Review(who)!Next]_(Review(who)!vars)
    PROVE  Review(who)!IInv'
<1>1. CASE \E r \in Requests : Review(who)!Ask(r)
  BY <1>1, ReviewAskKeeps
<1>2. CASE \E a \in AdminsOf[who], t \in Review(who)!Tabs : Review(who)!ChooseTab(a, t)
  BY <1>2, ReviewChooseTabKeeps
<1>3. CASE \E a \in AdminsOf[who], r \in Requests : Review(who)!Approve(a, r)
         \/ Review(who)!Cancel(a, r)
  BY <1>3, ReviewApproveKeeps, ReviewCancelKeeps
<1>4. CASE \E a \in AdminsOf[who], r \in Requests, v \in {"approved", "rejected"} :
         Review(who)!Decide(a, r, v)
  BY <1>4, ReviewDecideKeeps
<1>5. CASE \E a \in AdminsOf[who], c \in CallsOf[who] : Review(who)!Serve(a, c)
  BY <1>5, ReviewServeLoadKeeps, ReviewRecordKeeps, ReviewMakeLiveKeeps, ReviewFailKeeps
       DEF Review!Serve
<1>6. CASE \E a \in AdminsOf[who], c \in CallsOf[who] : Review(who)!Take(a, c)
  BY <1>6, ReviewTakeLoadKeeps, ReviewTakeDoneKeeps, ReviewTakeRefusalKeeps DEF Review!Take
<1>7. CASE UNCHANGED Review(who)!vars
  <2>1. UNCHANGED <<Review(who)!server, told, tab, shown, loading, call, faults>>
           /\ Review(who)!CardsFit'
    BY <1>7, ReviewTypeParts DEF Review!vars, Review!server, Review!cards, Review!IInv,
         Review!CardsFit
  <2> QED
    BY <2>1, ReviewCardKeeps
<1> QED
  BY <1>1, <1>2, <1>3, <1>4, <1>5, <1>6, <1>7 DEF Review!Next

-----------------------------------------------------------------------------
\* What the screens wait for.
LEMMA ReviewGoCards ==
    ASSUME NEW who,
           call \in [AdminsOf[who] -> [CallsOf[who] -> Review(who)!CallRecord]],
           NEW a \in AdminsOf[who], NEW c \in CallsOf[who],
           NEW next \in Review(who)!CallRecord, NEW gone, Review(who)!Go(a, c, next, gone)
    PROVE  \A b \in AdminsOf[who], d \in CallsOf[who] : b # a \/ d # c =>
              call'[b][d].card = (call[b][d].card /\ (b = a => call[a][d].request \notin gone))
<1> DEFINE after == [d \in CallsOf[who] |->
                     IF d = c THEN next
                     ELSE [call[a][d] EXCEPT !.card = @ /\ call[a][d].request \notin gone]]
<1>1. call' = [call EXCEPT ![a] = after]
  BY DEF Review!Go
<1>2. ASSUME NEW d \in CallsOf[who], d # c
      PROVE  after[d].card = (call[a][d].card /\ call[a][d].request \notin gone)
  <2>1. call[a][d] \in Review(who)!CallRecord
    OBVIOUS
  <2> QED
    BY <1>2, <2>1 DEF Review!CallRecord
<1> HIDE DEF after
<1>3. call'[a] = after /\ \A b \in AdminsOf[who] : b # a => call'[b] = call[b]
  BY <1>1
<1>4. \A b \in AdminsOf[who], d \in CallsOf[who] : call[b][d].card \in BOOLEAN
  BY DEF Review!CallRecord
<1> QED
  BY <1>2, <1>3, <1>4

\* Reading a tab anew: the screen waits for that call, and for nothing else.
LEMMA ReviewClearWaits ==
    ASSUME NEW who,
           Review(who)!TypeOK, Review(who)!ScreensWait, NEW a \in AdminsOf[who],
           NEW c \in CallsOf[who], NEW t \in Review(who)!Tabs,
           Review(who)!Clear(a), Review(who)!Go(a, c, Review(who)!Load(t), Requests)
    PROVE  Review(who)!ScreensWait'
<1>1. /\ call'[a][c] = Review(who)!Load(t)
      /\ \A b \in AdminsOf[who], d \in CallsOf[who] : b # a \/ d # c =>
            /\ call'[b][d].step = call[b][d].step /\ call'[b][d].kind = call[b][d].kind
            /\ call'[b][d].request = call[b][d].request
  BY ReviewGoTurns, ReviewRecordsFit, ReviewTypeParts
<1>2. \A b \in AdminsOf[who], d \in CallsOf[who] : b # a => call'[b][d].card = call[b][d].card
  <2>1. \A b \in AdminsOf[who] : b # a => call'[b] = call[b]
    BY ReviewTypeParts DEF Review!Go
  <2> QED
    BY <2>1
<1>3. /\ \A b \in AdminsOf[who] : b # a => loading'[b] = loading[b] /\ busy'[b] = busy[b]
      /\ \A r \in Requests : ~busy'[a][r]
  BY ReviewTypeParts DEF Review!Clear, Review!CardsFit
<1>4. Review(who)!LoadsComing'
  <2> SUFFICES ASSUME NEW b \in AdminsOf[who], loading'[b]
               PROVE  \E d \in CallsOf[who] : call'[b][d].kind = "load" /\ call'[b][d].step # "free"
    BY DEF Review!LoadsComing
  <2>1. CASE b = a
    BY <1>1, <2>1, ReviewRecordsFit
  <2>2. CASE b # a
    BY <1>1, <1>3, <2>2 DEF Review!ScreensWait, Review!LoadsComing
  <2> QED
    BY <2>1, <2>2
<1>5. Review(who)!BusyHonest'
  BY <1>1, <1>2, <1>3 DEF Review!ScreensWait, Review!BusyHonest
<1> QED
  BY <1>4, <1>5 DEF Review!ScreensWait

\* One call is turned or one is made, and the screens stay as they are.
LEMMA ReviewTurnWaits ==
    ASSUME NEW who,
           Review(who)!ScreensWait, UNCHANGED loading, NEW a \in AdminsOf[who],
           NEW c \in CallsOf[who],
           call[a][c].kind = "load" /\ call[a][c].step # "free" =>
              call'[a][c].kind = "load" /\ call'[a][c].step # "free",
           \A b \in AdminsOf[who], d \in CallsOf[who] : b # a \/ d # c => call'[b][d] = call[b][d],
           \A b \in AdminsOf[who], r \in Requests : busy'[b][r] =>
              \/ busy[b][r] /\ (b = a /\ call[a][c].kind = "review" /\ call[a][c].request = r
                                   /\ call[a][c].card
                                => /\ call'[a][c].kind = "review" /\ call'[a][c].request = r
                                   /\ call'[a][c].card)
              \/ b = a /\ call'[a][c].kind = "review" /\ call'[a][c].request = r /\ call'[a][c].card
    PROVE  Review(who)!ScreensWait'
<1>1. Review(who)!LoadsComing'
  BY DEF Review!ScreensWait, Review!LoadsComing
<1>2. Review(who)!BusyHonest'
  <2> SUFFICES ASSUME NEW b \in AdminsOf[who], NEW r \in Requests, busy'[b][r]
               PROVE  \E d \in CallsOf[who] : /\ call'[b][d].kind = "review"
                      /\ call'[b][d].request = r
                                               /\ call'[b][d].card
    BY DEF Review!BusyHonest
  <2>1. CASE b = a /\ call'[a][c].kind = "review" /\ call'[a][c].request = r /\ call'[a][c].card
    BY <2>1
  <2>2. CASE ~(b = a /\ call'[a][c].kind = "review" /\ call'[a][c].request = r /\ call'[a][c].card)
    <3>1. busy[b][r] /\ ~(/\ b = a /\ call[a][c].kind = "review" /\ call[a][c].request = r
                          /\ call[a][c].card)
      BY <2>2
    <3>2. PICK d \in CallsOf[who] : /\ call[b][d].kind = "review" /\ call[b][d].request = r
                                    /\ call[b][d].card
      BY <3>1 DEF Review!ScreensWait, Review!BusyHonest
    <3> QED
      BY <3>1, <3>2
  <2> QED
    BY <2>1, <2>2
<1> QED
  BY <1>1, <1>2 DEF Review!ScreensWait

\* A call that goes on without ending is still waited for.
LEMMA ReviewAnswerWaits ==
    ASSUME NEW who,
           Review(who)!TypeOK, Review(who)!ScreensWait, NEW a \in AdminsOf[who],
           NEW c \in CallsOf[who], UNCHANGED <<loading, busy>>,
           NEW next \in Review(who)!CallRecord, call' = [call EXCEPT ![a][c] = next],
           call[a][c].step # "free" => next.step # "free",
           next.kind = call[a][c].kind, next.request = call[a][c].request,
           next.card = call[a][c].card
    PROVE  Review(who)!ScreensWait'
<1>1. call'[a][c] = next /\ \A b \in AdminsOf[who], d \in CallsOf[who] : b # a \/ d # c
         => call'[b][d] = call[b][d]
  BY ReviewOneTurns, ReviewTypeParts
<1> QED
  BY <1>1, ReviewTurnWaits

\* So it is through what the server does.
LEMMA ReviewServeWaits ==
    ASSUME NEW who,
           Review(who)!TypeOK, Review(who)!ScreensWait, NEW a \in AdminsOf[who],
           NEW c \in CallsOf[who], Review(who)!Serve(a, c)
    PROVE  Review(who)!ScreensWait'
<1>1. UNCHANGED <<loading, busy>>
  BY DEF Review!Serve, Review!ServeLoad, Review!Record, Review!MakeLive, Review!Fail,
       Review!Screens, Review!cards
<1>2. call[a][c] \in Review(who)!CallRecord
  BY ReviewTypeParts
<1>3. CASE Review(who)!ServeLoad(a, c)
  <2> DEFINE listed == Review(who)!Listed(call[a][c].tab)
             next == [call[a][c] EXCEPT !.step = "ok", !.answer = listed]
  <2>1. listed \in SUBSET Review(who)!Entry
    BY <1>2, ReviewListedFits DEF Review!CallRecord
  <2>2. call' = [call EXCEPT ![a][c] = next]
    BY <1>3, ReviewTypeParts DEF Review!ServeLoad
  <2> HIDE DEF listed
  <2>3. /\ next \in Review(who)!CallRecord /\ next.step = "ok" /\ next.kind = call[a][c].kind
        /\ next.request = call[a][c].request /\ next.card = call[a][c].card
    BY <1>2, <2>1 DEF Review!CallRecord
  <2> HIDE DEF next
  <2> QED
    BY <1>1, <2>2, <2>3, ReviewAnswerWaits
<1>4. ASSUME NEW step \in {"recorded", "ok", "refused"}, Review(who)!Reply(a, c, step)
      PROVE  Review(who)!ScreensWait'
  <2> DEFINE next == [call[a][c] EXCEPT !.step = step]
  <2>1. call' = [call EXCEPT ![a][c] = next]
    BY <1>4, ReviewTypeParts DEF Review!Reply
  <2>2. /\ next \in Review(who)!CallRecord /\ next.step # "free" /\ next.kind = call[a][c].kind
        /\ next.request = call[a][c].request /\ next.card = call[a][c].card
    BY <1>2 DEF Review!CallRecord
  <2> HIDE DEF next
  <2> QED
    BY <1>1, <2>1, <2>2, ReviewAnswerWaits
<1>5. CASE Review(who)!Record(a, c)
  BY <1>4, <1>5 DEF Review!Record
<1>6. CASE Review(who)!MakeLive(a, c) \/ Review(who)!Fail(a, c)
  BY <1>4, <1>6 DEF Review!MakeLive, Review!Fail
<1> QED
  BY <1>3, <1>5, <1>6 DEF Review!Serve

\* A list that arrives takes the cards away that it has no request for: a card that stays
\* keeps its decision.
LEMMA ReviewTakeLoadWaits ==
    ASSUME NEW who,
           Review(who)!TypeOK, Review(who)!ScreensWait, NEW a \in AdminsOf[who],
           NEW c \in CallsOf[who], Review(who)!TakeLoad(a, c)
    PROVE  Review(who)!ScreensWait'
<1>1. PICK listed, gone :
        /\ gone = Requests \ {x.request : x \in listed}
        /\ busy' = [busy EXCEPT ![a] = [r \in Requests |-> @[r] /\ r \notin gone]]
        /\ Review(who)!Go(a, c, Review(who)!Free, gone)
  BY DEF Review!TakeLoad
<1>2. call[a][c].kind = "load" /\ loading' = [loading EXCEPT ![a] = FALSE]
  BY DEF Review!TakeLoad
<1>3. \A b \in AdminsOf[who], d \in CallsOf[who] : b # a \/ d # c =>
         /\ call'[b][d].step = call[b][d].step /\ call'[b][d].kind = call[b][d].kind
         /\ call'[b][d].request = call[b][d].request
  <2>1. call \in [AdminsOf[who] -> [CallsOf[who] -> Review(who)!CallRecord]]
    BY ReviewTypeParts
  <2>2. Review(who)!Free \in Review(who)!CallRecord
    BY ReviewRecordsFit
  <2> QED
    BY <2>1, <2>2, <1>1, ReviewGoTurns
<1>4. \A b \in AdminsOf[who], d \in CallsOf[who] : b # a \/ d # c =>
         call'[b][d].card = (call[b][d].card /\ (b = a => call[a][d].request \notin gone))
  BY <1>1, ReviewGoCards, ReviewRecordsFit, ReviewTypeParts
<1>5. /\ \A b \in AdminsOf[who] : b # a => loading'[b] = loading[b] /\ busy'[b] = busy[b]
      /\ ~loading'[a]
      /\ \A r \in Requests : busy'[a][r] => busy[a][r] /\ r \notin gone
  BY <1>1, <1>2, ReviewTypeParts DEF Review!CardsFit
<1>6. Review(who)!LoadsComing'
  BY <1>3, <1>5 DEF Review!ScreensWait, Review!LoadsComing
<1>7. Review(who)!BusyHonest'
  <2> SUFFICES ASSUME NEW b \in AdminsOf[who], NEW r \in Requests, busy'[b][r]
               PROVE  \E d \in CallsOf[who] : /\ call'[b][d].kind = "review"
                      /\ call'[b][d].request = r
                                               /\ call'[b][d].card
    BY DEF Review!BusyHonest
  <2>1. busy[b][r] /\ (b = a => r \notin gone)
    BY <1>5
  <2>2. PICK d \in CallsOf[who] : call[b][d].kind = "review" /\ call[b][d].request = r
           /\ call[b][d].card
    BY <2>1 DEF Review!ScreensWait, Review!BusyHonest
  <2> QED
    BY <1>2, <1>3, <1>4, <2>1, <2>2
<1> QED
  BY <1>6, <1>7 DEF Review!ScreensWait

\* A card whose decision was refused waits no longer.
LEMMA ReviewTakeRefusalWaits ==
    ASSUME NEW who,
           Review(who)!TypeOK, Review(who)!ScreensWait, NEW a \in AdminsOf[who],
           NEW c \in CallsOf[who], Review(who)!TakeRefusal(a, c)
    PROVE  Review(who)!ScreensWait'
<1>1. call[a][c].kind = "review" /\ UNCHANGED loading
         /\ call' = [call EXCEPT ![a][c] = Review(who)!Free]
  BY DEF Review!TakeRefusal, Review!At
<1>2. \A b \in AdminsOf[who], d \in CallsOf[who] : b # a \/ d # c => call'[b][d] = call[b][d]
  BY <1>1, ReviewOneTurns, ReviewRecordsFit, ReviewTypeParts
<1>3. \A b \in AdminsOf[who], r \in Requests : busy'[b][r] =>
         busy[b][r] /\ ~(b = a /\ call[a][c].request = r /\ call[a][c].card)
  <2>1. CASE call[a][c].card
    <3>1. busy' = [busy EXCEPT ![a][call[a][c].request] = FALSE]
      BY <2>1 DEF Review!TakeRefusal
    <3> QED
      BY <3>1, ReviewTypeParts DEF Review!CardsFit
  <2>2. CASE ~call[a][c].card
    BY <2>2 DEF Review!TakeRefusal, Review!cards
  <2> QED
    BY <2>1, <2>2
<1> QED
  BY <1>1, <1>2, <1>3, ReviewTurnWaits

\* A card that begins to wait has a call.
LEMMA ReviewDecideWaits ==
    ASSUME NEW who,
           Review(who)!TypeOK, Review(who)!ScreensWait, NEW a \in AdminsOf[who], NEW r \in Requests,
           NEW v \in {"approved", "rejected"}, Review(who)!Decide(a, r, v)
    PROVE  Review(who)!ScreensWait'
<1> DEFINE asked == [Review(who)!Load(tab[a]) EXCEPT !.kind = "review", !.request = r,
       !.verdict = v]
<1>1. asked \in Review(who)!CallRecord /\ asked.kind = "review" /\ asked.request = r /\ asked.card
  <2>1. Review(who)!Load(tab[a]) \in Review(who)!CallRecord /\ Review(who)!Load(tab[a]).card
    BY ReviewRecordsFit, ReviewTypeParts DEF Review!Load, Review!Free
  <2> QED
    BY <2>1 DEF Review!CallRecord
<1>2. PICK c \in CallsOf[who] : call[a][c] = Review(who)!Free
         /\ call' = [call EXCEPT ![a][c] = asked]
  BY DEF Review!Decide
<1>3. busy' = [busy EXCEPT ![a][r] = TRUE] /\ UNCHANGED loading
  BY DEF Review!Decide
<1> HIDE DEF asked
<1>4. call'[a][c] = asked /\ \A b \in AdminsOf[who], d \in CallsOf[who] : b # a \/ d # c
         => call'[b][d] = call[b][d]
  BY <1>1, <1>2, ReviewOneTurns, ReviewTypeParts
<1>5. \A b \in AdminsOf[who], q \in Requests : busy'[b][q] => busy[b][q] \/ (b = a /\ q = r)
  BY <1>3, ReviewTypeParts DEF Review!CardsFit
<1>6. call[a][c].kind = "load" /\ call[a][c].step = "free"
  BY <1>2, ReviewRecordsFit
<1> QED
  BY <1>1, <1>3, <1>4, <1>5, <1>6, ReviewTurnWaits

\* It holds at the start,
LEMMA ReviewInitWaits ==
    ASSUME NEW who,
           Review(who)!ConstantsFit, Review(who)!Init
    PROVE  Review(who)!ScreensWait
<1>1. PICK first \in CallsOf[who] :
        call = [a \in AdminsOf[who] |-> [d \in CallsOf[who] |-> IF d = first
        THEN Review(who)!Load("pending") ELSE Review(who)!Free]]
  BY DEF Review!Init
<1>2. Review(who)!Load("pending").kind = "load" /\ Review(who)!Load("pending").step # "free"
  BY ReviewRecordsFit DEF Review!Tabs
<1>3. Review(who)!LoadsComing
  BY <1>1, <1>2 DEF Review!LoadsComing
<1>4. Review(who)!BusyHonest
  BY DEF Review!Init, Review!BusyHonest
<1> QED
  BY <1>3, <1>4 DEF Review!ScreensWait

\* and every step keeps it.
LEMMA ReviewNextWaits ==
    ASSUME NEW who,
           Review(who)!ConstantsFit, Review(who)!IInv, Review(who)!ScreensWait,
           [Review(who)!Next]_(Review(who)!vars)
    PROVE  Review(who)!ScreensWait'
<1>1. Review(who)!TypeOK
  BY DEF Review!IInv
<1>2. CASE UNCHANGED <<loading, busy, call>>
  BY <1>2 DEF Review!ScreensWait, Review!LoadsComing, Review!BusyHonest
<1>3. ASSUME NEW a \in AdminsOf[who], NEW t \in Review(who)!Tabs, Review(who)!ChooseTab(a, t)
         PROVE Review(who)!ScreensWait'
  BY <1>1, <1>3, ReviewClearWaits DEF Review!ChooseTab
<1>4. ASSUME NEW a \in AdminsOf[who], NEW c \in CallsOf[who], Review(who)!TakeDone(a, c)
         PROVE Review(who)!ScreensWait'
  <2>1. call[a][c].tab \in Review(who)!Tabs
    BY <1>1, ReviewTypeParts DEF Review!CallRecord
  <2> QED
    BY <1>1, <1>4, <2>1, ReviewClearWaits DEF Review!TakeDone
<1>5. CASE \/ \E r \in Requests : Review(who)!Ask(r)
           \/ \E a \in AdminsOf[who], r \in Requests : Review(who)!Approve(a, r)
               \/ Review(who)!Cancel(a, r)
           \/ UNCHANGED Review(who)!vars
  BY <1>2, <1>5 DEF Review!Ask, Review!Approve, Review!Cancel, Review!vars, Review!cards
<1>6. CASE \E a \in AdminsOf[who], r \in Requests, v \in {"approved", "rejected"} :
         Review(who)!Decide(a, r, v)
  BY <1>1, <1>6, ReviewDecideWaits
<1>7. CASE \E a \in AdminsOf[who], c \in CallsOf[who] : Review(who)!Serve(a, c)
  BY <1>1, <1>7, ReviewServeWaits
<1>8. CASE \E a \in AdminsOf[who], c \in CallsOf[who] : Review(who)!Take(a, c)
  BY <1>1, <1>4, <1>8, ReviewTakeLoadWaits, ReviewTakeRefusalWaits DEF Review!Take
<1> QED
  BY <1>3, <1>5, <1>6, <1>7, <1>8 DEF Review!Next

-----------------------------------------------------------------------------
(* The screens side by side *)

\* One part runs, and its invariant holds at the start.
LEMMA InitInv ==
    ASSUME Init
    PROVE  Inv
<1>1. CASE part = "panel" /\ Panel!Init
  <2>1. Panel!IInv
    BY <1>1, ConstantsFit, PanelInitIInv
  <2>2. Panel!TypeOK
    BY <2>1 DEF Panel!IInv
  <2> QED
    BY <1>1, <2>1, <2>2 DEF Inv, Parts, Connects, Keys, Reviews
<1>2. ASSUME NEW p \in Connects, part = p, Connect(p)!Init PROVE Inv
  <2>1. Connect(p)!IInv
    BY <1>2, ConstantsFit, ConnectInitIInv
  <2> QED
    BY <1>2, <2>1 DEF Inv, Parts, Connects, Keys, Reviews
<1>3. ASSUME NEW p \in Keys, part = p, Key(p)!Init PROVE Inv
  <2>1. Key(p)!IInv
    BY <1>3, ConstantsFit, KeyInitIInv
  <2> QED
    BY <1>3, <2>1 DEF Inv, Parts, Connects, Keys, Reviews
<1>4. ASSUME NEW p \in Reviews, part = p, Review(p)!Init PROVE Inv
  <2>1. Review(p)!IInv /\ Review(p)!ScreensWait
    BY <1>4, ConstantsFit, ReviewInitIInv, ReviewInitWaits
  <2> QED
    BY <1>4, <2>1 DEF Inv, Parts, Connects, Keys, Reviews
<1> QED
  BY <1>1, <1>2, <1>3, <1>4 DEF Init

\* A step of the panel, or of none, is a step of the panel or one that leaves it alone.
LEMMA PanelStep ==
    ASSUME Inv, part = "panel", part' = part, [Panel!Next]_(Panel!vars)
    PROVE  Inv'
<1>1. Panel!TypeOK'
  BY ConstantsFit, PanelNextTypes DEF Inv
<1>2. ASSUME ~Unheard PROVE Panel!IInv'
  <2>1. Unheard = FALSE
    BY <1>2, ConstantsFit DEF ConstantsFit, Panel!ConstantsFit
  <2> QED
    BY <1>2, <2>1, ConstantsFit, PanelNextIInv DEF Inv
<1> QED
  BY <1>1, <1>2 DEF Inv, Parts, Connects, Keys, Reviews

\* ... and so for the gateways' screen,
LEMMA ConnectStep ==
    ASSUME Inv, NEW p \in Connects, part = p, part' = part, [Connect(p)!Next]_(Connect(p)!vars)
    PROVE  Inv'
<1>1. Connect(p)!ConstantsFit /\ Connect(p)!IInv
  BY ConstantsFit DEF Inv
<1>2. Connect(p)!IInv'
  BY <1>1, ConnectNextIInv
<1> QED
  BY <1>2 DEF Inv, Parts, Connects, Keys, Reviews

\* the integrations',
LEMMA KeyStep ==
    ASSUME Inv, NEW p \in Keys, part = p, part' = part, [Key(p)!Next]_(Key(p)!vars)
    PROVE  Inv'
<1>1. Key(p)!ConstantsFit /\ Key(p)!IInv
  BY ConstantsFit DEF Inv
<1>2. Key(p)!IInv'
  BY <1>1, KeyNextIInv
<1> QED
  BY <1>2 DEF Inv, Parts, Connects, Keys, Reviews

\* and the bank's review.
LEMMA ReviewStep ==
    ASSUME Inv, NEW p \in Reviews, part = p, part' = part, [Review(p)!Next]_(Review(p)!vars)
    PROVE  Inv'
<1>1. Review(p)!ConstantsFit /\ Review(p)!IInv /\ Review(p)!ScreensWait
  BY ConstantsFit DEF Inv
<1>2. Review(p)!IInv'
  BY <1>1, ReviewNextIInv
<1>3. Review(p)!ScreensWait'
  BY <1>1, ReviewNextWaits
<1> QED
  BY <1>2, <1>3 DEF Inv, Parts, Connects, Keys, Reviews

\* What leaves the variables of all alone leaves those of each alone.
LEMMA Stutter ==
    ASSUME UNCHANGED vars
    PROVE  /\ part' = part /\ UNCHANGED Panel!vars
           /\ \A p : UNCHANGED Connect(p)!vars /\ UNCHANGED Key(p)!vars /\ UNCHANGED Review(p)!vars
<1>1. /\ part' = part /\ busy' = busy /\ call' = call /\ loading' = loading /\ error' = error
      /\ faults' = faults
      /\ UNCHANGED panelOnly /\ UNCHANGED connectOnly /\ UNCHANGED keysOnly /\ UNCHANGED reviewOnly
  BY DEF vars
<1>2. UNCHANGED Panel!vars
  BY <1>1 DEF panelOnly, Panel!vars, Panel!money, Panel!shown, Panel!count
<1>3. ASSUME NEW p PROVE UNCHANGED Connect(p)!vars
  BY <1>1 DEF connectOnly, Connect!vars, Connect!server, Connect!fields
<1>4. ASSUME NEW p PROVE UNCHANGED Key(p)!vars
  BY <1>1 DEF keysOnly, Key!vars, Key!server, Key!panels
<1>5. ASSUME NEW p PROVE UNCHANGED Review(p)!vars
  BY <1>1 DEF reviewOnly, Review!vars, Review!server, Review!cards
<1> QED
  BY <1>1, <1>2, <1>3, <1>4, <1>5

\* Every step keeps the invariant of the part that runs.
LEMMA NextInv ==
    ASSUME Inv, [Next]_vars
    PROVE  Inv'
<1>1. CASE InPanel(Panel!Next)
  BY <1>1, PanelStep DEF InPanel
<1>2. ASSUME NEW p \in Connects, InConnect(p, Connect(p)!Next) PROVE Inv'
  BY <1>2, ConnectStep DEF InConnect
<1>3. ASSUME NEW p \in Keys, InKeys(p, Key(p)!Next) PROVE Inv'
  BY <1>3, KeyStep DEF InKeys
<1>4. ASSUME NEW p \in Reviews, InReview(p, Review(p)!Next) PROVE Inv'
  BY <1>4, ReviewStep DEF InReview
<1>5. CASE UNCHANGED vars
  <2>1. part' = part /\ UNCHANGED Panel!vars
    BY <1>5, Stutter
  <2>2. \A p : UNCHANGED Connect(p)!vars /\ UNCHANGED Key(p)!vars /\ UNCHANGED Review(p)!vars
    BY <1>5, Stutter
  <2>3. CASE part = "panel"
    BY <2>1, <2>3, PanelStep
  <2>4. ASSUME NEW p \in Connects, part = p PROVE Inv'
    BY <2>1, <2>2, <2>4, ConnectStep
  <2>5. ASSUME NEW p \in Keys, part = p PROVE Inv'
    BY <2>1, <2>2, <2>5, KeyStep
  <2>6. ASSUME NEW p \in Reviews, part = p PROVE Inv'
    BY <2>1, <2>2, <2>6, ReviewStep
  <2> QED
    BY <2>3, <2>4, <2>5, <2>6 DEF Inv, Parts
<1> QED
  BY <1>1, <1>2, <1>3, <1>4, <1>5 DEF Next

\* The invariant the other theorems follow from: that of the part that runs.
THEOREM Inductive == Spec => []Inv
<1>1. Init => Inv
  BY InitInv
<1>2. Inv /\ [Next]_vars => Inv'
  BY NextInv
<1> QED
  BY <1>1, <1>2, PTL DEF Spec

\* The variables keep their types: in particular a gateway's connection is whole or absent.
THEOREM Typed == Spec => []TypeOK
<1>1. Inv => TypeOK
  <2> SUFFICES ASSUME Inv PROVE TypeOK
    OBVIOUS
  <2>1. part = "panel" => Panel!TypeOK
    BY DEF Inv
  <2>2. ASSUME NEW p \in Connects, part = p PROVE Connect(p)!TypeOK
    BY <2>2 DEF Inv, Connect!IInv
  <2>3. ASSUME NEW p \in Keys, part = p PROVE Key(p)!TypeOK
    BY <2>3 DEF Inv, Key!IInv
  <2>4. ASSUME NEW p \in Reviews, part = p PROVE Review(p)!TypeOK
    BY <2>4 DEF Inv, Review!IInv
  <2> QED
    BY <2>1, <2>2, <2>3, <2>4 DEF TypeOK
<1> QED
  BY <1>1, Inductive, PTL

\* As long as no answer is lost, an action that was begun is confirmed until it was answered,
\* and moves money once at most, whatever panels are closed and opened over it.
THEOREM EachMovesOnce == Spec => []MovesOnce
<1>1. Inv => MovesOnce
  BY DEF Inv, MovesOnce, Panel!IInv
<1> QED
  BY <1>1, Inductive, PTL

\* As long as no answer is lost, what the panel reports as done was done, and what it says
\* failed moved nothing.
THEOREM PanelIsTruthful == Spec => []PanelTruthful
<1>1. Inv => PanelTruthful
  <2>1. Panel!IInv => Panel!PanelTruthful
    BY DEF Panel!IInv, Panel!PanelTruthful, Panel!ErrorTruthful, Panel!Waits, Panel!Ready
  <2> QED
    BY <2>1 DEF Inv, PanelTruthful
<1> QED
  BY <1>1, Inductive, PTL

\* Whatever the operator toggles, repeats and leaves while loads, saves and switches are
\* under way, handleSaveCredentials holds no gateway under the other one's name, the
\* operator works in a connection that is held, the portal's gate is open for those who
\* have one, and the page waits only for a call that is under way.
THEOREM ConnectIsTrue == Spec => []ConnectTrue
<1>1. Inv => ConnectTrue
  <2> SUFFICES ASSUME Inv, NEW p \in Connects, part = p PROVE Connect(p)!ConnectTrue
    BY DEF ConnectTrue
  <2>1. Connect(p)!IInv
    BY DEF Inv
  <2> QED
    BY <2>1 DEF Connect!IInv, Connect!ConnectTrue
<1> QED
  BY <1>1, Inductive, PTL

\* handleCreateIntegration and handleRotate show a secret once: an integrator who lets one
\* call end before the next and loses none can copy the secret of every integration that
\* exists, and it works, but for those his session ended over, until their next is issued;
\* whoever hurries or loses calls still finds no button off for good.
THEOREM KeysAreTrue == Spec => []KeysTrue
<1>1. Inv => KeysTrue
  <2> SUFFICES ASSUME Inv, NEW p \in Keys, part = p
               PROVE  /\ Key(p)!CreatingHonest /\ Key(p)!BusyHonest
                      /\ ~HurriedBy[p] /\ FaultsOf[p] = 0 => Key(p)!SecretInHand /\ Key(p)!ShownWorks
    BY DEF KeysTrue
  <2>1. Key(p)!IInv
    BY DEF Inv
  <2> QED
    BY <2>1 DEF Key!IInv, Key!PatientInv
<1> QED
  BY <1>1, Inductive, PTL

\* ReviewLiveRequest lets one administrator decide a request, whoever else works the queue
\* and whatever is lost; who is told so is told what stands, an integration goes live
\* after an approval only, and a list or a card waits only for a call that is under way.
THEOREM ReviewIsTrue == Spec => []ReviewTrue
<1>1. Inv => ReviewTrue
  <2> SUFFICES ASSUME Inv, NEW p \in Reviews, part = p
               PROVE  Review(p)!ReviewTrue /\ Review(p)!LoadingHonest /\ Review(p)!BusyHonest
    BY DEF ReviewTrue
  <2>1. Review(p)!IInv /\ Review(p)!LoadsComing /\ Review(p)!BusyHonest
    BY DEF Inv, Review!ScreensWait
  <2>2. Review(p)!DecidedByOne
    BY <2>1 DEF Review!IInv, Review!OneDecision, Review!DecidedByOne
  <2>3. Review(p)!Free.step = "free"
    BY ReviewRecordsFit
  <2>4. Review(p)!LoadingHonest
    <3> SUFFICES ASSUME NEW a \in AdminsOf[p], loading[a]
                 PROVE  \E c \in CallsOf[p] : call[a][c] # Review(p)!Free
      BY DEF Review!LoadingHonest
    <3>1. PICK c \in CallsOf[p] : call[a][c].step # "free"
      BY <2>1 DEF Review!LoadsComing
    <3> QED
      BY <2>3, <3>1
  <2> QED
    BY <2>1, <2>2, <2>4 DEF Review!IInv, Review!ReviewTrue
<1> QED
  BY <1>1, Inductive, PTL
=============================================================================
