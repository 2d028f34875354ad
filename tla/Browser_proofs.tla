--------------------------- MODULE Browser_proofs ---------------------------
(***************************************************************************)
(* What the browser's and the doors' modules promise, for any number of    *)
(* calls, tabs, requests and names, any bill and any limits.  Each part    *)
(* keeps an invariant of its own, that of its module, and a behaviour runs *)
(* one part.                                                               *)
(***************************************************************************)
EXTENDS Browser, FiniteSetTheorems, SequenceTheorems, TLAPS

-----------------------------------------------------------------------------
(* The sealed channel (Channel) *)

\* A call begins, on the channel held or with the one asked for.
LEMMA ChannelStartKeeps ==
    ASSUME Channel!ConstantsFit, Channel!IInv, NEW c \in Calls, Channel!Start(c)
    PROVE  Channel!IInv'
<1> USE DEF Channel!ConstantsFit, Channel!page, Channel!server, Channel!NoChannel, Channel!Start,
       Channel!EnsureChannel, Channel!SealWith, Channel!ShareOpening
<1>1. Channel!TypeOK'
  BY DEF Channel!IInv, Channel!TypeOK, Channel!Steps, Channel!Outcomes
<1>2. ASSUME NEW e \in Calls PROVE Channel!Served(e)'
  <2>1. Channel!TypeOK /\ Channel!Served(e)
    BY DEF Channel!IInv
  <2> QED
    BY <2>1 DEF Channel!TypeOK, Channel!Served
<1>3. ASSUME NEW e \in Calls PROVE Channel!Counted(e)'
  BY DEF Channel!IInv, Channel!TypeOK, Channel!Counted, Channel!StillBorn, Channel!HeldLives
<1>4. Channel!StillBorn' /\ Channel!HeldLives'
  BY DEF Channel!IInv, Channel!TypeOK, Channel!StillBorn, Channel!HeldLives, Channel!Fresh,
       Channel!Counted
<1>5. Channel!Quiet'
  BY DEF Channel!IInv, Channel!TypeOK, Channel!Quiet, Channel!Started, Channel!Fresh,
       Channel!Counted
<1> QED
  BY <1>1, <1>2, <1>3, <1>4, <1>5 DEF Channel!IInv

\* A call that lost its channel is sealed anew, once.
LEMMA ChannelRenewKeeps ==
    ASSUME Channel!ConstantsFit, Channel!IInv, NEW c \in Calls, Channel!Renew(c)
    PROVE  Channel!IInv'
<1> USE DEF Channel!ConstantsFit, Channel!page, Channel!server, Channel!NoChannel, Channel!Renew,
       Channel!EnsureChannel, Channel!SealWith, Channel!ShareOpening
<1>1. Channel!TypeOK'
  BY DEF Channel!IInv, Channel!TypeOK, Channel!Steps, Channel!Outcomes
<1>2. ASSUME NEW e \in Calls PROVE Channel!Served(e)'
  <2>1. Channel!TypeOK /\ Channel!Served(e)
    BY DEF Channel!IInv
  <2> QED
    BY <2>1 DEF Channel!TypeOK, Channel!Served
<1>3. ASSUME NEW e \in Calls PROVE Channel!Counted(e)'
  BY DEF Channel!IInv, Channel!TypeOK, Channel!Counted, Channel!StillBorn, Channel!HeldLives
<1>4. Channel!StillBorn' /\ Channel!HeldLives'
  BY DEF Channel!IInv, Channel!TypeOK, Channel!StillBorn, Channel!HeldLives, Channel!Fresh,
       Channel!Counted
<1>5. Channel!Quiet'
  BY DEF Channel!IInv, Channel!TypeOK, Channel!Quiet, Channel!Started, Channel!Fresh,
       Channel!Counted
<1> QED
  BY <1>1, <1>2, <1>3, <1>4, <1>5 DEF Channel!IInv

\* A call that lost two is told that there is none.
LEMMA ChannelGiveUpKeeps ==
    ASSUME Channel!ConstantsFit, Channel!IInv, NEW c \in Calls, Channel!GiveUp(c)
    PROVE  Channel!IInv'
<1> USE DEF Channel!ConstantsFit, Channel!page, Channel!server, Channel!NoChannel, Channel!GiveUp,
       Channel!Over
<1>1. Channel!TypeOK'
  BY DEF Channel!IInv, Channel!TypeOK, Channel!Steps, Channel!Outcomes
<1>2. ASSUME NEW e \in Calls PROVE Channel!Served(e)'
  <2>1. Channel!TypeOK /\ Channel!Served(e)
    BY DEF Channel!IInv
  <2> QED
    BY <2>1 DEF Channel!TypeOK, Channel!Served
<1>3. ASSUME NEW e \in Calls PROVE Channel!Counted(e)'
  BY DEF Channel!IInv, Channel!TypeOK, Channel!Counted, Channel!StillBorn, Channel!HeldLives
<1>4. Channel!StillBorn' /\ Channel!HeldLives'
  BY DEF Channel!IInv, Channel!TypeOK, Channel!StillBorn, Channel!HeldLives, Channel!Fresh,
       Channel!Counted
<1>5. Channel!Quiet'
  BY DEF Channel!IInv, Channel!TypeOK, Channel!Quiet, Channel!Started, Channel!Fresh,
       Channel!Counted
<1> QED
  BY <1>1, <1>2, <1>3, <1>4, <1>5 DEF Channel!IInv

\* A sealed call leaves.
LEMMA ChannelSendKeeps ==
    ASSUME Channel!ConstantsFit, Channel!IInv, NEW c \in Calls, Channel!Send(c)
    PROVE  Channel!IInv'
<1> USE DEF Channel!ConstantsFit, Channel!page, Channel!server, Channel!NoChannel, Channel!Send
<1>1. Channel!TypeOK'
  BY DEF Channel!IInv, Channel!TypeOK, Channel!Steps, Channel!Outcomes
<1>2. ASSUME NEW e \in Calls PROVE Channel!Served(e)'
  <2>1. Channel!TypeOK /\ Channel!Served(e)
    BY DEF Channel!IInv
  <2> QED
    BY <2>1 DEF Channel!TypeOK, Channel!Served
<1>3. ASSUME NEW e \in Calls PROVE Channel!Counted(e)'
  BY DEF Channel!IInv, Channel!TypeOK, Channel!Counted, Channel!StillBorn, Channel!HeldLives
<1>4. Channel!StillBorn' /\ Channel!HeldLives'
  BY DEF Channel!IInv, Channel!TypeOK, Channel!StillBorn, Channel!HeldLives, Channel!Fresh,
       Channel!Counted
<1>5. Channel!Quiet'
  BY DEF Channel!IInv, Channel!TypeOK, Channel!Quiet, Channel!Started, Channel!Fresh,
       Channel!Counted
<1> QED
  BY <1>1, <1>2, <1>3, <1>4, <1>5 DEF Channel!IInv

\* The server opens a call and runs its handler, or has no such channel.
LEMMA ChannelServeKeeps ==
    ASSUME Channel!ConstantsFit, Channel!IInv, NEW c \in Calls, Channel!Serve(c)
    PROVE  Channel!IInv'
<1> USE DEF Channel!ConstantsFit, Channel!page, Channel!server, Channel!NoChannel, Channel!Serve
<1>1. Channel!TypeOK'
  BY DEF Channel!IInv, Channel!TypeOK, Channel!Steps, Channel!Outcomes
<1>2. ASSUME NEW e \in Calls PROVE Channel!Served(e)'
  <2>1. Channel!TypeOK /\ Channel!Served(e)
    BY DEF Channel!IInv
  <2> QED
    BY <2>1 DEF Channel!TypeOK, Channel!Served
<1>3. ASSUME NEW e \in Calls PROVE Channel!Counted(e)'
  BY DEF Channel!IInv, Channel!TypeOK, Channel!Counted, Channel!StillBorn, Channel!HeldLives
<1>4. Channel!StillBorn' /\ Channel!HeldLives'
  BY DEF Channel!IInv, Channel!TypeOK, Channel!StillBorn, Channel!HeldLives, Channel!Fresh,
       Channel!Counted
<1>5. Channel!Quiet'
  BY DEF Channel!IInv, Channel!TypeOK, Channel!Quiet, Channel!Started, Channel!Fresh,
       Channel!Counted
<1> QED
  BY <1>1, <1>2, <1>3, <1>4, <1>5 DEF Channel!IInv

\* The answer is read.
LEMMA ChannelReadKeeps ==
    ASSUME Channel!ConstantsFit, Channel!IInv, NEW c \in Calls, Channel!Read(c)
    PROVE  Channel!IInv'
<1> USE DEF Channel!ConstantsFit, Channel!page, Channel!server, Channel!NoChannel, Channel!Read,
       Channel!Over, Channel!Opens
<1>1. Channel!TypeOK'
  <2>1. PICK o \in Channel!Outcomes : call' = [call EXCEPT ![c].step = "over", ![c].shown = o]
    BY DEF Channel!Outcomes
  <2>2. Channel!TypeOK /\ "over" \in Channel!Steps
    BY DEF Channel!IInv, Channel!Steps
  <2>3. [call[c] EXCEPT !.step = "over", !.shown = o] \in [step : Channel!Steps, seal : Nat,
           renewed : BOOLEAN, shown : Channel!Outcomes]
    BY <2>2 DEF Channel!TypeOK
  <2>4. call' = [call EXCEPT ![c] = [call[c] EXCEPT !.step = "over", !.shown = o]]
    BY <2>1, <2>2 DEF Channel!TypeOK
  <2> HIDE DEF Channel!Read
  <2>5. call' \in [Calls -> [step : Channel!Steps, seal : Nat, renewed : BOOLEAN, shown :
           Channel!Outcomes]]
    BY <2>2, <2>3, <2>4 DEF Channel!TypeOK
  <2> QED
    BY <2>2, <2>5 DEF Channel!TypeOK, Channel!Read
<1>2. ASSUME NEW e \in Calls PROVE Channel!Served(e)'
  <2>1. Channel!TypeOK /\ Channel!Served(e)
    BY DEF Channel!IInv
  <2> QED
    BY <2>1 DEF Channel!TypeOK, Channel!Served
<1>3. ASSUME NEW e \in Calls PROVE Channel!Counted(e)'
  BY DEF Channel!IInv, Channel!TypeOK, Channel!Counted, Channel!StillBorn, Channel!HeldLives
<1>4. Channel!StillBorn' /\ Channel!HeldLives'
  BY DEF Channel!IInv, Channel!TypeOK, Channel!StillBorn, Channel!HeldLives, Channel!Fresh,
       Channel!Counted
<1>5. Channel!Quiet'
  BY DEF Channel!IInv, Channel!TypeOK, Channel!Quiet, Channel!Started, Channel!Fresh,
       Channel!Counted
<1> QED
  BY <1>1, <1>2, <1>3, <1>4, <1>5 DEF Channel!IInv

\* A copy of a call arrives late.
LEMMA ChannelServeLateKeeps ==
    ASSUME Channel!ConstantsFit, Channel!IInv, NEW c \in Calls, Channel!ServeLate(c)
    PROVE  Channel!IInv'
<1> USE DEF Channel!ConstantsFit, Channel!page, Channel!server, Channel!NoChannel,
       Channel!ServeLate, Channel!Fault
<1>1. Channel!TypeOK'
  BY DEF Channel!IInv, Channel!TypeOK, Channel!Steps, Channel!Outcomes
<1>2. ASSUME NEW e \in Calls PROVE Channel!Served(e)'
  <2>1. Channel!TypeOK /\ Channel!Served(e)
    BY DEF Channel!IInv
  <2> QED
    BY <2>1 DEF Channel!TypeOK, Channel!Served
<1>3. ASSUME NEW e \in Calls PROVE Channel!Counted(e)'
  BY DEF Channel!IInv, Channel!TypeOK, Channel!Counted, Channel!StillBorn, Channel!HeldLives
<1>4. Channel!StillBorn' /\ Channel!HeldLives'
  BY DEF Channel!IInv, Channel!TypeOK, Channel!StillBorn, Channel!HeldLives, Channel!Fresh,
       Channel!Counted
<1>5. Channel!Quiet'
  BY DEF Channel!IInv, Channel!TypeOK, Channel!Quiet, Channel!Started, Channel!Fresh,
       Channel!Counted
<1> QED
  BY <1>1, <1>2, <1>3, <1>4, <1>5 DEF Channel!IInv

\* A call or its answer is lost.
LEMMA ChannelLoseKeeps ==
    ASSUME Channel!ConstantsFit, Channel!IInv, NEW c \in Calls, Channel!Lose(c)
    PROVE  Channel!IInv'
<1> USE DEF Channel!ConstantsFit, Channel!page, Channel!server, Channel!NoChannel, Channel!Lose,
       Channel!Over, Channel!Fault
<1>1. Channel!TypeOK'
  <2>1. PICK o \in Channel!Outcomes : call' = [call EXCEPT ![c].step = "over", ![c].shown = o]
    BY DEF Channel!Outcomes
  <2>2. Channel!TypeOK /\ "over" \in Channel!Steps
    BY DEF Channel!IInv, Channel!Steps
  <2>3. [call[c] EXCEPT !.step = "over", !.shown = o] \in [step : Channel!Steps, seal : Nat,
           renewed : BOOLEAN, shown : Channel!Outcomes]
    BY <2>2 DEF Channel!TypeOK
  <2>4. call' = [call EXCEPT ![c] = [call[c] EXCEPT !.step = "over", !.shown = o]]
    BY <2>1, <2>2 DEF Channel!TypeOK
  <2> HIDE DEF Channel!Lose
  <2>5. call' \in [Calls -> [step : Channel!Steps, seal : Nat, renewed : BOOLEAN, shown :
           Channel!Outcomes]]
    BY <2>2, <2>3, <2>4 DEF Channel!TypeOK
  <2> QED
    BY <2>2, <2>5 DEF Channel!TypeOK, Channel!Lose
<1>2. ASSUME NEW e \in Calls PROVE Channel!Served(e)'
  <2>1. Channel!TypeOK /\ Channel!Served(e)
    BY DEF Channel!IInv
  <2> QED
    BY <2>1 DEF Channel!TypeOK, Channel!Served
<1>3. ASSUME NEW e \in Calls PROVE Channel!Counted(e)'
  BY DEF Channel!IInv, Channel!TypeOK, Channel!Counted, Channel!StillBorn, Channel!HeldLives
<1>4. Channel!StillBorn' /\ Channel!HeldLives'
  BY DEF Channel!IInv, Channel!TypeOK, Channel!StillBorn, Channel!HeldLives, Channel!Fresh,
       Channel!Counted
<1>5. Channel!Quiet'
  BY DEF Channel!IInv, Channel!TypeOK, Channel!Quiet, Channel!Started, Channel!Fresh,
       Channel!Counted
<1> QED
  BY <1>1, <1>2, <1>3, <1>4, <1>5 DEF Channel!IInv

\* The server makes a channel.
LEMMA ChannelServeHandshakeKeeps ==
    ASSUME Channel!ConstantsFit, Channel!IInv, Channel!ServeHandshake
    PROVE  Channel!IInv'
<1> USE DEF Channel!ConstantsFit, Channel!page, Channel!server, Channel!NoChannel,
       Channel!ServeHandshake
<1>1. Channel!TypeOK'
  BY DEF Channel!IInv, Channel!TypeOK, Channel!Steps, Channel!Outcomes
<1>2. ASSUME NEW e \in Calls PROVE Channel!Served(e)'
  <2>1. Channel!TypeOK /\ Channel!Served(e)
    BY DEF Channel!IInv
  <2> QED
    BY <2>1 DEF Channel!TypeOK, Channel!Served
<1>3. ASSUME NEW e \in Calls PROVE Channel!Counted(e)'
  BY DEF Channel!IInv, Channel!TypeOK, Channel!Counted, Channel!StillBorn, Channel!HeldLives
<1>4. Channel!StillBorn' /\ Channel!HeldLives'
  BY DEF Channel!IInv, Channel!TypeOK, Channel!StillBorn, Channel!HeldLives, Channel!Fresh,
       Channel!Counted
<1>5. Channel!Quiet'
  BY DEF Channel!IInv, Channel!TypeOK, Channel!Quiet, Channel!Started, Channel!Fresh,
       Channel!Counted
<1> QED
  BY <1>1, <1>2, <1>3, <1>4, <1>5 DEF Channel!IInv

\* The page takes the channel made for it.
LEMMA ChannelOpenedKeeps ==
    ASSUME Channel!ConstantsFit, Channel!IInv, Channel!Opened
    PROVE  Channel!IInv'
<1>1. Channel!TypeOK /\ Channel!StillBorn /\ Channel!HeldLives /\ Channel!Quiet /\ \A e \in Calls :
         Channel!Served(e) /\ Channel!Counted(e)
  BY DEF Channel!IInv
<1>2. /\ opening = "made" /\ opening' = "none" /\ held' = handshakes /\ aged' = FALSE
      /\ handshakes' = handshakes /\ live' = live /\ runs' = runs /\ faults' = faults
  BY DEF Channel!Opened, Channel!server
<1>3. ASSUME NEW e \in Calls
      PROVE  /\ call[e].step = "waiting" =>
                    call'[e] = [call[e] EXCEPT !.step = "sealing", !.seal = handshakes]
             /\ call[e].step # "waiting" => call'[e] = call[e]
  BY DEF Channel!Opened, Channel!Move, Channel!Waiters
<1>4. ASSUME NEW e \in Calls, call[e].step = "waiting"
      PROVE  /\ call'[e] \in [step : Channel!Steps, seal : Nat, renewed : BOOLEAN, shown :
                 Channel!Outcomes]
             /\ call'[e].step = "sealing" /\ call'[e].seal = handshakes
             /\ call'[e].renewed = call[e].renewed /\ call'[e].shown = call[e].shown
  <2>1. call[e] \in [step : Channel!Steps, seal : Nat, renewed : BOOLEAN, shown : Channel!Outcomes]
    BY <1>1 DEF Channel!TypeOK
  <2>2. handshakes \in Nat /\ "sealing" \in Channel!Steps
    BY <1>1 DEF Channel!TypeOK, Channel!Steps
  <2> QED
    BY <1>3, <1>4, <2>1, <2>2
<1>5. Channel!TypeOK'
  <2>1. ASSUME NEW e \in Calls
           PROVE call'[e] \in [step : Channel!Steps, seal : Nat, renewed : BOOLEAN, shown :
           Channel!Outcomes]
    BY <1>1, <1>3, <1>4 DEF Channel!TypeOK
  <2>2. call' = [e \in Calls |-> call'[e]]
    BY DEF Channel!Opened, Channel!Move
  <2>3. call' \in [Calls -> [step : Channel!Steps, seal : Nat, renewed : BOOLEAN, shown :
           Channel!Outcomes]]
    BY <2>1, <2>2
  <2> QED
    BY <1>1, <1>2, <2>3 DEF Channel!TypeOK
<1>6. ASSUME NEW e \in Calls PROVE Channel!Served(e)'
  <2>1. Channel!Served(e) /\ runs'[e] = runs[e]
    BY <1>1, <1>2
  <2>2. CASE call[e].step = "waiting"
    BY <1>4, <2>1, <2>2 DEF Channel!Served
  <2>3. CASE call[e].step # "waiting"
    <3>1. call'[e] = call[e]
      BY <1>3, <2>3
    <3> QED
      BY <2>1, <3>1 DEF Channel!Served
  <2> QED
    BY <2>2, <2>3
<1>7. ASSUME NEW e \in Calls PROVE Channel!Counted(e)'
  <2>1. CASE call[e].step = "waiting"
    <3>1. Channel!Fresh => ~call[e].renewed
      BY DEF Channel!Fresh
    <3> QED
      BY <1>1, <1>2, <1>4, <2>1, <3>1 DEF Channel!TypeOK, Channel!Counted, Channel!StillBorn
  <2>2. CASE call[e].step # "waiting"
    BY <1>1, <1>2, <1>3, <2>2 DEF Channel!Counted
  <2> QED
    BY <2>1, <2>2
<1>8. Channel!StillBorn' /\ Channel!HeldLives'
  <2>1. faults \in Nat
    BY <1>1 DEF Channel!TypeOK
  <2> QED
    BY <1>1, <1>2, <2>1 DEF Channel!StillBorn, Channel!HeldLives
<1>9. Channel!Quiet'
  <2> SUFFICES ASSUME faults = 0
               PROVE  Channel!Started'
    BY <1>2 DEF Channel!Quiet
  <2>1. handshakes = 1 /\ handshakes \in live /\ Channel!Fresh
    BY <1>1, <1>2 DEF Channel!Quiet
  <2> QED
    BY <1>2, <1>3, <1>4, <2>1 DEF Channel!Started, Channel!Fresh
<1> QED
  BY <1>5, <1>6, <1>7, <1>8, <1>9 DEF Channel!IInv

\* A handshake is lost.
LEMMA ChannelOpeningFailsKeeps ==
    ASSUME Channel!ConstantsFit, Channel!IInv, Channel!OpeningFails
    PROVE  Channel!IInv'
<1>1. Channel!TypeOK /\ Channel!StillBorn /\ Channel!HeldLives /\ \A e \in Calls : Channel!Served(e)
         /\ Channel!Counted(e)
  BY DEF Channel!IInv
<1>2. /\ opening' = "none" /\ held' = held /\ aged' = aged /\ handshakes' = handshakes
      /\ live' = live /\ runs' = runs /\ faults' = faults + 1 /\ faults \in Nat
  BY <1>1 DEF Channel!OpeningFails, Channel!Fault, Channel!server, Channel!TypeOK
<1>3. ASSUME NEW e \in Calls
      PROVE  /\ call[e].step = "waiting" =>
                    call'[e] = [call[e] EXCEPT !.step = "gone", !.seal = Channel!NoChannel]
             /\ call[e].step # "waiting" => call'[e] = call[e]
  BY DEF Channel!OpeningFails, Channel!Move, Channel!Waiters
<1>4. ASSUME NEW e \in Calls, call[e].step = "waiting"
      PROVE  /\ call'[e] \in [step : Channel!Steps, seal : Nat, renewed : BOOLEAN, shown :
                 Channel!Outcomes]
             /\ call'[e].step = "gone" /\ call'[e].renewed = call[e].renewed
             /\ call'[e].shown = call[e].shown
  <2>1. call[e] \in [step : Channel!Steps, seal : Nat, renewed : BOOLEAN, shown : Channel!Outcomes]
    BY <1>1 DEF Channel!TypeOK
  <2>2. Channel!NoChannel \in Nat /\ "gone" \in Channel!Steps
    BY DEF Channel!NoChannel, Channel!Steps
  <2> QED
    BY <1>3, <1>4, <2>1, <2>2
<1>5. Channel!TypeOK'
  <2>1. ASSUME NEW e \in Calls
           PROVE call'[e] \in [step : Channel!Steps, seal : Nat, renewed : BOOLEAN, shown :
           Channel!Outcomes]
    BY <1>1, <1>3, <1>4 DEF Channel!TypeOK
  <2>2. call' = [e \in Calls |-> call'[e]]
    BY DEF Channel!OpeningFails, Channel!Move
  <2>3. call' \in [Calls -> [step : Channel!Steps, seal : Nat, renewed : BOOLEAN, shown :
           Channel!Outcomes]]
    BY <2>1, <2>2
  <2> QED
    BY <1>1, <1>2, <2>3 DEF Channel!TypeOK
<1>6. ASSUME NEW e \in Calls PROVE Channel!Served(e)'
  <2>1. Channel!Served(e) /\ runs'[e] = runs[e]
    BY <1>1, <1>2
  <2>2. CASE call[e].step = "waiting"
    BY <1>4, <2>1, <2>2 DEF Channel!Served
  <2>3. CASE call[e].step # "waiting"
    <3>1. call'[e] = call[e]
      BY <1>3, <2>3
    <3> QED
      BY <2>1, <3>1 DEF Channel!Served
  <2> QED
    BY <2>2, <2>3
<1>7. ASSUME NEW e \in Calls PROVE Channel!Counted(e)'
  <2>1. CASE call[e].step = "waiting"
    BY <1>1, <1>2, <1>4, <2>1 DEF Channel!Counted, Channel!Served
  <2>2. CASE call[e].step # "waiting"
    <3>1. call'[e] = call[e] /\ Channel!Counted(e)
      BY <1>1, <1>3, <2>2
    <3> QED
      BY <1>2, <3>1 DEF Channel!Counted
  <2> QED
    BY <2>1, <2>2
<1>8. Channel!StillBorn' /\ Channel!HeldLives'
  BY <1>1, <1>2 DEF Channel!StillBorn, Channel!HeldLives
<1>9. Channel!Quiet'
  BY <1>2 DEF Channel!Quiet
<1> QED
  BY <1>5, <1>6, <1>7, <1>8, <1>9 DEF Channel!IInv

\* The page counts a channel as too old.
LEMMA ChannelAgeOutKeeps ==
    ASSUME Channel!ConstantsFit, Channel!IInv, Channel!AgeOut
    PROVE  Channel!IInv'
<1> USE DEF Channel!ConstantsFit, Channel!page, Channel!server, Channel!NoChannel, Channel!AgeOut,
       Channel!Fault
<1>1. Channel!TypeOK'
  BY DEF Channel!IInv, Channel!TypeOK, Channel!Steps, Channel!Outcomes
<1>2. ASSUME NEW e \in Calls PROVE Channel!Served(e)'
  <2>1. Channel!TypeOK /\ Channel!Served(e)
    BY DEF Channel!IInv
  <2> QED
    BY <2>1 DEF Channel!TypeOK, Channel!Served
<1>3. ASSUME NEW e \in Calls PROVE Channel!Counted(e)'
  BY DEF Channel!IInv, Channel!TypeOK, Channel!Counted, Channel!StillBorn, Channel!HeldLives
<1>4. Channel!StillBorn' /\ Channel!HeldLives'
  BY DEF Channel!IInv, Channel!TypeOK, Channel!StillBorn, Channel!HeldLives, Channel!Fresh,
       Channel!Counted
<1>5. Channel!Quiet'
  BY DEF Channel!IInv, Channel!TypeOK, Channel!Quiet, Channel!Started, Channel!Fresh,
       Channel!Counted
<1> QED
  BY <1>1, <1>2, <1>3, <1>4, <1>5 DEF Channel!IInv

\* The server forgets its channels.
LEMMA ChannelRestartKeeps ==
    ASSUME Channel!ConstantsFit, Channel!IInv, Channel!Restart
    PROVE  Channel!IInv'
<1> USE DEF Channel!ConstantsFit, Channel!page, Channel!server, Channel!NoChannel, Channel!Restart,
       Channel!Fault
<1>1. Channel!TypeOK'
  BY DEF Channel!IInv, Channel!TypeOK, Channel!Steps, Channel!Outcomes
<1>2. ASSUME NEW e \in Calls PROVE Channel!Served(e)'
  <2>1. Channel!TypeOK /\ Channel!Served(e)
    BY DEF Channel!IInv
  <2> QED
    BY <2>1 DEF Channel!TypeOK, Channel!Served
<1>3. ASSUME NEW e \in Calls PROVE Channel!Counted(e)'
  BY DEF Channel!IInv, Channel!TypeOK, Channel!Counted, Channel!StillBorn, Channel!HeldLives
<1>4. Channel!StillBorn' /\ Channel!HeldLives'
  <2>1. faults \in Nat /\ faults' = faults + 1
    BY DEF Channel!IInv, Channel!TypeOK
  <2>2. CASE faults = 0
    <3>1. opening = "made" => Channel!Fresh
      BY <2>2 DEF Channel!IInv, Channel!Quiet
    <3> QED
      BY <2>1, <3>1 DEF Channel!StillBorn, Channel!HeldLives, Channel!Fresh
  <2>3. CASE faults # 0
    BY <2>1, <2>3 DEF Channel!StillBorn, Channel!HeldLives
  <2> QED
    BY <2>2, <2>3
<1>5. Channel!Quiet'
  BY DEF Channel!IInv, Channel!TypeOK, Channel!Quiet, Channel!Started, Channel!Fresh,
       Channel!Counted
<1> QED
  BY <1>1, <1>2, <1>3, <1>4, <1>5 DEF Channel!IInv

\* The server forgets one.
LEMMA ChannelExpireKeeps ==
    ASSUME Channel!ConstantsFit, Channel!IInv, NEW channel \in live, Channel!Expire(channel)
    PROVE  Channel!IInv'
<1> USE DEF Channel!ConstantsFit, Channel!page, Channel!server, Channel!NoChannel, Channel!Expire
<1>1. Channel!TypeOK'
  BY DEF Channel!IInv, Channel!TypeOK, Channel!Steps, Channel!Outcomes
<1>2. ASSUME NEW e \in Calls PROVE Channel!Served(e)'
  <2>1. Channel!TypeOK /\ Channel!Served(e)
    BY DEF Channel!IInv
  <2> QED
    BY <2>1 DEF Channel!TypeOK, Channel!Served
<1>3. ASSUME NEW e \in Calls PROVE Channel!Counted(e)'
  BY DEF Channel!IInv, Channel!TypeOK, Channel!Counted, Channel!StillBorn, Channel!HeldLives
<1>4. Channel!StillBorn' /\ Channel!HeldLives'
  BY DEF Channel!IInv, Channel!TypeOK, Channel!StillBorn, Channel!HeldLives, Channel!Fresh,
       Channel!Counted
<1>5. Channel!Quiet'
  BY DEF Channel!IInv, Channel!TypeOK, Channel!Quiet, Channel!Started, Channel!Fresh,
       Channel!Counted
<1> QED
  BY <1>1, <1>2, <1>3, <1>4, <1>5 DEF Channel!IInv

-----------------------------------------------------------------------------
\* The invariant holds at the start,
LEMMA ChannelInitIInv ==
    ASSUME Channel!ConstantsFit, Channel!Init
    PROVE  Channel!IInv
<1>1. ASSUME NEW e \in Calls
      PROVE  /\ call[e].step = "idle" /\ call[e].seal = Channel!NoChannel /\ ~call[e].renewed
             /\ call[e].shown = "none" /\ runs[e] = 0
  BY DEF Channel!Init
<1>2. Channel!TypeOK
  BY DEF Channel!Init, Channel!TypeOK, Channel!Steps, Channel!Outcomes, Channel!NoChannel
<1>3. ASSUME NEW e \in Calls PROVE Channel!Served(e) /\ Channel!Counted(e)
  BY <1>1 DEF Channel!Served, Channel!Counted
<1>4. Channel!StillBorn /\ Channel!HeldLives
  BY DEF Channel!Init, Channel!StillBorn, Channel!HeldLives
<1>5. Channel!Quiet
  BY <1>1 DEF Channel!Init, Channel!Quiet
<1> QED
  BY <1>2, <1>3, <1>4, <1>5 DEF Channel!IInv

\* every step keeps it,
LEMMA ChannelNextIInv ==
    ASSUME Channel!ConstantsFit, Channel!IInv, [Channel!Next]_(Channel!vars)
    PROVE  Channel!IInv'
<1>1. CASE \E c \in Calls : Channel!Start(c) \/ Channel!CallStep(c) \/ Channel!ServeLate(c)
         \/ Channel!Lose(c)
  BY <1>1, ChannelStartKeeps, ChannelRenewKeeps, ChannelGiveUpKeeps, ChannelSendKeeps,
       ChannelServeKeeps, ChannelReadKeeps, ChannelServeLateKeeps,
     ChannelLoseKeeps DEF Channel!CallStep
<1>2. CASE Channel!ServeHandshake \/ Channel!Opened \/ Channel!OpeningFails
  BY <1>2, ChannelServeHandshakeKeeps, ChannelOpenedKeeps, ChannelOpeningFailsKeeps
<1>3. CASE Channel!AgeOut \/ Channel!Restart
  BY <1>3, ChannelAgeOutKeeps, ChannelRestartKeeps
<1>4. CASE \E channel \in live : Channel!Expire(channel)
  BY <1>4, ChannelExpireKeeps
<1>5. CASE UNCHANGED Channel!vars
  BY <1>5 DEF Channel!vars, Channel!page, Channel!server, Channel!IInv, Channel!TypeOK,
       Channel!Served, Channel!Counted, Channel!StillBorn, Channel!HeldLives, Channel!Quiet,
              Channel!Started, Channel!Fresh
<1> QED
  BY <1>1, <1>2, <1>3, <1>4, <1>5 DEF Channel!Next

\* and it says what the module promises.
LEMMA ChannelIInvImplies ==
    ASSUME Channel!IInv
    PROVE  Channel!CallsTrue
<1>1. Channel!RunsOnce
  BY DEF Channel!IInv, Channel!RunsOnce, Channel!Served
<1>2. Channel!ReportTrue
  BY DEF Channel!IInv, Channel!ReportTrue, Channel!Served
<1>3. Channel!QuietWorks
  <2> SUFFICES ASSUME faults = 0
               PROVE  /\ handshakes <= 1
                      /\ \A c \in Calls : Channel!Settled(c) => call[c].shown = "value"
    BY DEF Channel!QuietWorks
  <2>1. opening = "asked" \/ opening = "made" \/ opening = "none"
    BY DEF Channel!IInv, Channel!TypeOK
  <2> QED
    BY <2>1 DEF Channel!IInv, Channel!Quiet, Channel!Started, Channel!Fresh, Channel!Settled
<1>4. Channel!RetryRecovers
  BY DEF Channel!IInv, Channel!RetryRecovers, Channel!Counted
<1> QED
  BY <1>1, <1>2, <1>3, <1>4 DEF Channel!CallsTrue

-----------------------------------------------------------------------------
(* Signing in and out (Session) *)

\* The types are those of the calls and of the rest.
LEMMA SessionParts == Session!TypeOK <=> Session!CallFits /\ Session!RestFits
BY DEF Session!TypeOK, Session!CallFits, Session!RestFits, Session!CallRecord

\* ... and so after a step.
LEMMA SessionPartsNext == ASSUME Session!CallFits', Session!RestFits' PROVE Session!TypeOK'
BY DEF Session!TypeOK, Session!CallFits, Session!RestFits, Session!CallRecord

-----------------------------------------------------------------------------
\* What the ways to change the calls come to.
LEMMA SessionFreeFits == Session!Free \in Session!CallRecord /\ Session!Free.step = "free"
BY DEF Session!Free, Session!CallRecord, Session!Kinds, Session!None

\* A call that begins has the types of one.
LEMMA SessionBeginFits ==
    ASSUME Session!CallFits, session \in Nat, NEW s \in Slots, NEW kind \in Session!Kinds,
           Session!Begin(s, kind)
    PROVE  /\ Session!CallFits' /\ call'[s].step = "sealing" /\ call'[s].kind = kind
           /\ \A t \in Slots : t # s => call'[t] = call[t]
<1> DEFINE new == [kind |-> kind, step |-> "sealing", sent |-> Session!None, about |-> session]
<1>1. new \in Session!CallRecord /\ new.step = "sealing" /\ new.kind = kind
  BY DEF Session!CallRecord, Session!None
<1>2. call' = [call EXCEPT ![s] = new]
  BY DEF Session!Begin
<1> HIDE DEF new
<1> QED
  BY <1>1, <1>2 DEF Session!CallFits

\* So has one that is answered,
LEMMA SessionAnsweredFits ==
    ASSUME Session!CallFits, NEW s \in Slots,
           NEW step \in {"free", "sealing", "sent", "proved", "ok", "refused", "elsewhere"},
           Session!Answered(s, step)
    PROVE  /\ Session!CallFits' /\ call'[s].step = step /\ call'[s].kind = call[s].kind
           /\ \A t \in Slots : t # s => call'[t] = call[t]
BY DEF Session!CallFits, Session!CallRecord, Session!Answered

\* and one that is over.
LEMMA SessionFinishFits ==
    ASSUME Session!CallFits, NEW s \in Slots, Session!Finish(s)
    PROVE  /\ Session!CallFits' /\ call'[s].step = "free"
           /\ \A t \in Slots : t # s => call'[t] = call[t]
BY SessionFreeFits DEF Session!CallFits, Session!Finish

\* A step that proves no password and lets nobody in keeps all but the types.
LEMMA SessionQuietKeeps ==
    ASSUME Session!IInv, Session!CallFits', Session!RestFits',
           live' \subseteq live, crossed' = crossed,
           token' \in {Session!None, newest'}, newest' = newest \/ token' = newest',
           NEW s \in Slots,
           \A t \in Slots : t # s => call'[t] = call[t] \/ call'[t].step = "free",
           call'[s].step # "proved",
           Session!SigningIn(s)' => Session!SigningIn(s) \/ \A t \in Slots : ~Session!SigningIn(t)
    PROVE  Session!IInv'
<1>1. Session!OneSignIn /\ Session!ProvedAlone /\ Session!OneSession
  BY DEF Session!IInv, Session!SessionsTrue
<1>2. \A t \in Slots : t # s /\ Session!SigningIn(t)' => Session!SigningIn(t)
  BY DEF Session!SigningIn
<1>3. Session!OneSignIn'
  BY <1>1, <1>2 DEF Session!OneSignIn
<1>4. Session!ProvedAlone'
  BY <1>1, <1>2 DEF Session!ProvedAlone, Session!SigningIn
<1>5. Session!SessionsTrue'
  BY <1>1 DEF Session!SessionsTrue, Session!OneSession, Session!NewestToken
<1> QED
  BY <1>3, <1>4, <1>5, SessionPartsNext DEF Session!IInv

-----------------------------------------------------------------------------
\* What the portal does by itself.
LEMMA SessionPortalKeeps ==
    ASSUME Session!ConstantsFit, Session!IInv, NEW s \in Slots,
           \/ \E kind \in Session!SignIns : Session!SignIn(s, kind)
           \/ Session!SignOut(s) \/ Session!Work(s) \/ Session!Refresh(s)
           \/ \E why \in {"idle", "expired"} : Session!EndSession(s, why)
    PROVE  Session!IInv'
<1>1. Session!CallFits /\ Session!RestFits /\ Session!NewestToken
  BY SessionParts DEF Session!IInv, Session!SessionsTrue
<1>2. ASSUME NEW kind \in Session!SignIns, Session!SignIn(s, kind)
      PROVE  Session!IInv'
  <2>1. Session!Begin(s, kind) /\ kind \in Session!Kinds /\ session \in Nat
    BY <1>1, <1>2 DEF Session!SignIn, Session!Kinds, Session!RestFits
  <2>2. Session!RestFits'
    BY <1>1, <1>2 DEF Session!SignIn, Session!RestFits, Session!ghosts
  <2>3. \A t \in Slots : ~Session!SigningIn(t)
    BY <1>2 DEF Session!SignIn, Session!Busy, Session!SigningIn
  <2>4. UNCHANGED <<token, live, newest, crossed>>
    BY <1>2 DEF Session!SignIn, Session!ghosts
  <2>5. token' \in {Session!None, newest'}
    BY <1>1, <2>4 DEF Session!NewestToken
  <2> QED
    BY <1>1, <2>1, <2>2, <2>3, <2>4, <2>5, SessionBeginFits, SessionQuietKeeps
<1>3. ASSUME NEW kind \in {"logout", "work", "refresh"}, Session!Begin(s, kind), Session!RestFits',
             token' = token \/ token' = Session!None, UNCHANGED <<live, newest, crossed>>
      PROVE  Session!IInv'
  <2>1. kind \in Session!Kinds /\ kind \notin Session!SignIns /\ session \in Nat
    BY <1>1 DEF Session!Kinds, Session!SignIns, Session!RestFits
  <2>2. token' \in {Session!None, newest'}
    BY <1>1, <1>3 DEF Session!NewestToken
  <2>3. Session!CallFits' /\ call'[s].step = "sealing" /\ call'[s].kind = kind
        /\ \A t \in Slots : t # s => call'[t] = call[t]
    BY <1>1, <1>3, <2>1, SessionBeginFits
  <2>4. ~Session!SigningIn(s)'
    BY <2>1, <2>3 DEF Session!SigningIn
  <2> QED
    BY <1>3, <2>2, <2>3, <2>4, SessionQuietKeeps
<1>4. CASE Session!SignOut(s)
  BY <1>1, <1>3, <1>4 DEF Session!SignOut, Session!Close, Session!None, Session!RestFits,
       Session!Reasons, Session!ghosts
<1>5. CASE Session!Work(s)
  BY <1>1, <1>3, <1>5 DEF Session!Work, Session!RestFits, Session!portal, Session!ghosts
<1>6. CASE Session!Refresh(s)
  BY <1>1, <1>3, <1>6 DEF Session!Refresh, Session!RestFits, Session!portal, Session!ghosts
<1>7. ASSUME NEW why \in {"idle", "expired"}, Session!EndSession(s, why)
      PROVE  Session!IInv'
  <2>1. /\ faults' = faults + 1 /\ token' = 0 /\ session' = 0 /\ reason' = why
        /\ UNCHANGED <<takeover, live, issued, newest, signedOut, crossed>>
    BY <1>7 DEF Session!EndSession, Session!Fault, Session!Close, Session!None, Session!ghosts
  <2>2. faults' \in Nat /\ reason' \in Session!Reasons
    BY <1>1, <2>1 DEF Session!RestFits, Session!Reasons
  <2>3. Session!RestFits'
    BY <1>1, <2>1, <2>2 DEF Session!RestFits
  <2> QED
    BY <1>3, <1>7, <2>1, <2>3 DEF Session!EndSession, Session!None
<1> QED
  BY <1>2, <1>4, <1>5, <1>6, <1>7

\* The page is loaded anew.
LEMMA SessionReloadKeeps ==
    ASSUME Session!ConstantsFit, Session!IInv, NEW s \in Slots, Session!Reload(s)
    PROVE  Session!IInv'
<1>1. Session!CallFits /\ Session!RestFits /\ Session!NewestToken
  BY SessionParts DEF Session!IInv, Session!SessionsTrue
<1> DEFINE restore == [Session!Free EXCEPT !.kind = "restore", !.step = "sealing"]
<1>2. /\ restore \in Session!CallRecord /\ restore.kind = "restore" /\ restore.step = "sealing"
  BY SessionFreeFits DEF Session!CallRecord, Session!Kinds
<1>3. call' = [t \in Slots |-> IF t = s /\ token # Session!None THEN restore ELSE Session!Free]
  BY DEF Session!Reload
<1> HIDE DEF restore
<1>4. Session!CallFits'
  BY <1>2, <1>3, SessionFreeFits DEF Session!CallFits
<1>5. /\ \A t \in Slots : t # s => call'[t].step = "free"
      /\ call'[s].step # "proved" /\ ~Session!SigningIn(s)'
  BY <1>2, <1>3, SessionFreeFits DEF Session!SigningIn, Session!SignIns
<1>6. Session!RestFits'
  <2>1. /\ faults' = faults + 1 /\ session' = 0 /\ reason' = "none" /\ takeover' = FALSE
        /\ UNCHANGED <<token, live, issued, newest, signedOut, crossed>>
    BY DEF Session!Reload, Session!Fault, Session!None, Session!ghosts
  <2>2. faults' \in Nat /\ reason' \in Session!Reasons
    BY <1>1, <2>1 DEF Session!RestFits, Session!Reasons
  <2> QED
    BY <1>1, <2>1, <2>2 DEF Session!RestFits
<1>7. UNCHANGED <<token, live, newest, crossed>>
  BY DEF Session!Reload, Session!ghosts
<1>8. token' \in {Session!None, newest'}
  BY <1>1, <1>7 DEF Session!NewestToken
<1> QED
  BY <1>4, <1>5, <1>6, <1>7, <1>8, SessionQuietKeeps

-----------------------------------------------------------------------------
\* The server proves a password, and then issues a session.
LEMMA SessionServeSignInKeeps ==
    ASSUME Session!ConstantsFit, Session!IInv, NEW s \in Slots, Session!ServeSignIn(s)
    PROVE  Session!IInv'
<1>1. Session!CallFits /\ Session!RestFits /\ Session!OneSignIn /\ Session!ProvedAlone
         /\ Session!SessionsTrue
  BY SessionParts DEF Session!IInv
<1> DEFINE step == IF call[s].kind = "login" /\ live # {} THEN "elsewhere" ELSE "proved"
<1>2. /\ call[s].step = "sent" /\ call[s].kind \in Session!SignIns /\ Session!Answered(s, step)
      /\ live' = IF call[s].kind = "force" THEN {} ELSE live
      /\ UNCHANGED <<token, session, reason, takeover, issued, newest, signedOut, crossed, faults>>
  BY DEF Session!ServeSignIn, Session!portal, Session!ghosts
<1>3. step \in {"elsewhere", "proved"} /\ (step = "proved" => live' = {})
  BY <1>2 DEF Session!SignIns
<1> HIDE DEF step
<1>4. /\ Session!CallFits' /\ call'[s].step = step /\ call'[s].kind = call[s].kind
      /\ \A t \in Slots : t # s => call'[t] = call[t]
  BY <1>1, <1>2, <1>3, SessionAnsweredFits
<1>5. Session!SigningIn(s) /\ \A t \in Slots : Session!SigningIn(t)' => Session!SigningIn(t)
  BY <1>2, <1>4 DEF Session!SigningIn
<1>6. Session!RestFits'
  BY <1>1, <1>2 DEF Session!RestFits
<1>7. Session!OneSignIn'
  BY <1>1, <1>5 DEF Session!OneSignIn
<1>8. Session!ProvedAlone'
  <2> SUFFICES ASSUME NEW t \in Slots, call'[t].step = "proved"
               PROVE  Session!SigningIn(t)' /\ (~crossed' => live' = {})
    BY DEF Session!ProvedAlone
  <2>1. CASE t = s
    BY <1>2, <1>3, <1>4, <2>1 DEF Session!SigningIn
  <2>2. CASE t # s
    BY <1>1, <1>4, <1>5, <2>2 DEF Session!ProvedAlone, Session!OneSignIn
  <2> QED
    BY <2>1, <2>2
<1>9. Session!SessionsTrue'
  BY <1>1, <1>2 DEF Session!SessionsTrue, Session!OneSession, Session!NewestToken
<1> QED
  BY <1>4, <1>6, <1>7, <1>8, <1>9, SessionPartsNext DEF Session!IInv

\* A session is issued to a sign-in that found none.
LEMMA SessionIssueKeeps ==
    ASSUME Session!ConstantsFit, Session!IInv, NEW s \in Slots, Session!Issue(s)
    PROVE  Session!IInv'
<1>1. Session!CallFits /\ Session!RestFits /\ Session!OneSignIn /\ Session!ProvedAlone
         /\ Session!SessionsTrue
  BY SessionParts DEF Session!IInv
<1> DEFINE new == [call[s] EXCEPT !.step = "ok", !.sent = issued + 1]
<1>2. /\ call[s].step = "proved" /\ call' = [call EXCEPT ![s] = new]
      /\ live' = live \cup {issued + 1} /\ issued' = issued + 1
      /\ UNCHANGED <<token, session, reason, takeover, newest, signedOut, crossed, faults>>
  BY <1>1 DEF Session!Issue, Session!portal, Session!ghosts, Session!CallFits
<1>3. issued + 1 \in Nat
  BY <1>1 DEF Session!RestFits
<1>4. new \in Session!CallRecord /\ new.step = "ok" /\ new.kind = call[s].kind
  BY <1>1, <1>3 DEF Session!CallFits, Session!CallRecord
<1> HIDE DEF new
<1>5. /\ Session!CallFits' /\ call'[s].step = "ok" /\ call'[s].kind = call[s].kind
      /\ \A t \in Slots : t # s => call'[t] = call[t]
  BY <1>1, <1>2, <1>4 DEF Session!CallFits
<1>6. Session!SigningIn(s) /\ (~crossed => live = {})
  BY <1>1, <1>2 DEF Session!ProvedAlone
<1>7. \A t \in Slots : Session!SigningIn(t)' => Session!SigningIn(t)
  BY <1>5, <1>6 DEF Session!SigningIn
<1>8. Session!RestFits'
  BY <1>1, <1>2, <1>3 DEF Session!RestFits
<1>9. Session!OneSignIn'
  BY <1>1, <1>7 DEF Session!OneSignIn
<1>10. Session!ProvedAlone'
  BY <1>1, <1>5, <1>6 DEF Session!ProvedAlone, Session!OneSignIn
<1>11. Session!SessionsTrue'
  BY <1>1, <1>2, <1>6 DEF Session!SessionsTrue, Session!OneSession, Session!NewestToken
<1> QED
  BY <1>5, <1>8, <1>9, <1>10, <1>11, SessionPartsNext DEF Session!IInv

\* A takeover on the other device.
LEMMA SessionElsewhereKeeps ==
    ASSUME Session!ConstantsFit, Session!IInv, Session!Elsewhere
    PROVE  Session!IInv'
<1>1. Session!CallFits /\ Session!RestFits /\ Session!OneSignIn /\ Session!ProvedAlone
         /\ Session!SessionsTrue
  BY SessionParts DEF Session!IInv
<1>2. /\ issued' = issued + 1 /\ live' = {issued + 1} /\ faults' = faults + 1
      /\ crossed' = (crossed \/ \E s \in Slots : call[s].step = "proved")
      /\ UNCHANGED <<token, session, reason, takeover, call, newest, signedOut>>
  BY DEF Session!Elsewhere, Session!Fault, Session!portal
<1>3. Session!CallFits' /\ Session!RestFits'
  <2>1. issued + 1 \in Nat /\ faults + 1 \in Nat
    BY <1>1 DEF Session!RestFits
  <2>2. crossed' \in BOOLEAN
    BY <1>2
  <2>3. Session!CallFits'
    BY <1>1, <1>2 DEF Session!CallFits
  <2> QED
    BY <1>1, <1>2, <2>1, <2>2, <2>3 DEF Session!RestFits
<1>4. Session!OneSignIn'
  BY <1>1, <1>2 DEF Session!OneSignIn, Session!SigningIn
<1>5. Session!ProvedAlone'
  BY <1>1, <1>2 DEF Session!ProvedAlone, Session!SigningIn
<1>6. Session!SessionsTrue'
  BY <1>1, <1>2 DEF Session!SessionsTrue, Session!OneSession, Session!NewestToken
<1> QED
  BY <1>3, <1>4, <1>5, <1>6, SessionPartsNext DEF Session!IInv

\* The other steps of a call.
LEMMA SessionServedKeeps ==
    ASSUME Session!ConstantsFit, Session!IInv, NEW s \in Slots,
           Session!Send(s) \/ Session!SendAgain(s) \/ Session!RefuseSignIn(s)
           \/ Session!ServeWork(s)
    PROVE  Session!IInv'
<1>1. Session!CallFits /\ Session!RestFits /\ Session!NewestToken
  BY SessionParts DEF Session!IInv, Session!SessionsTrue
<1>2. /\ Session!CallFits' /\ call'[s].step \in {"sealing", "sent", "ok", "refused"}
      /\ call[s].step # "free" /\ call'[s].kind = call[s].kind
      /\ \A t \in Slots : t # s => call'[t] = call[t]
  <2>1. CASE Session!Send(s)
    <3>1. Session!TokenFor(call[s].kind) \in Nat
      BY <1>1 DEF Session!TokenFor, Session!RestFits, Session!None
    <3>2. PICK n \in Nat : call' = [call EXCEPT ![s].step = "sent", ![s].sent = n]
      BY <2>1, <3>1 DEF Session!Send
    <3> DEFINE new == [call[s] EXCEPT !.step = "sent", !.sent = n]
    <3>3. new \in Session!CallRecord /\ new.step = "sent" /\ new.kind = call[s].kind
      BY <1>1 DEF Session!CallFits, Session!CallRecord
    <3>4. call' = [call EXCEPT ![s] = new] /\ call[s].step = "sealing"
      BY <1>1, <2>1, <3>2 DEF Session!Send, Session!CallFits
    <3> HIDE DEF new
    <3> QED
      BY <1>1, <3>3, <3>4 DEF Session!CallFits
  <2>2. CASE Session!SendAgain(s)
    BY <1>1, <2>2 DEF Session!SendAgain, Session!CallFits, Session!CallRecord
  <2>3. CASE Session!RefuseSignIn(s)
    BY <1>1, <2>3, SessionAnsweredFits DEF Session!RefuseSignIn
  <2>4. CASE Session!ServeWork(s)
    <3>1. PICK step \in {"ok", "refused"} : Session!Answered(s, step)
      BY <2>4 DEF Session!ServeWork
    <3> QED
      BY <1>1, <2>4, <3>1, SessionAnsweredFits DEF Session!ServeWork
  <2> QED
    BY <2>1, <2>2, <2>3, <2>4
<1>3. /\ live' \subseteq live /\ (faults' = faults \/ faults' = faults + 1)
      /\ UNCHANGED <<token, session, reason, takeover, issued, newest, signedOut, crossed>>
  BY DEF Session!Send, Session!SendAgain, Session!Fault, Session!RefuseSignIn, Session!ServeWork,
       Session!portal, Session!ghosts
<1>4. Session!RestFits'
  BY <1>1, <1>3 DEF Session!RestFits
<1>5. token' \in {Session!None, newest'}
  BY <1>1, <1>3 DEF Session!NewestToken
<1>6. Session!SigningIn(s)' => Session!SigningIn(s)
  BY <1>2 DEF Session!SigningIn
<1> QED
  BY <1>2, <1>3, <1>4, <1>5, <1>6, SessionQuietKeeps

\* An answer is taken, or a call is lost.
LEMMA SessionTakenKeeps ==
    ASSUME Session!ConstantsFit, Session!IInv, NEW s \in Slots, Session!Answer(s) \/ Session!Lost(s)
    PROVE  Session!IInv'
<1>1. Session!CallFits /\ Session!RestFits /\ Session!NewestToken
  BY SessionParts DEF Session!IInv, Session!SessionsTrue
<1>2. Session!Finish(s) /\ UNCHANGED <<live, issued, crossed>>
  BY DEF Session!Answer, Session!TakeSignIn, Session!AskTakeover, Session!TakeSession,
       Session!TakeAnswer, Session!Rejected, Session!Lost, Session!ghosts
<1>3. /\ Session!CallFits' /\ call'[s].step = "free"
      /\ \A t \in Slots : t # s => call'[t] = call[t]
  BY <1>1, <1>2, SessionFinishFits
<1>4. call[s].sent \in Nat /\ call[s].about \in Nat
  BY <1>1 DEF Session!CallFits, Session!CallRecord
<1>5. Session!RestFits' /\ token' \in {Session!None, newest'}
         /\ (newest' = newest \/ token' = newest')
  <2>1. CASE Session!TakeSignIn(s)
    BY <1>1, <1>4, <2>1 DEF Session!TakeSignIn, Session!RestFits, Session!Reasons
  <2>2. CASE Session!AskTakeover(s)
    BY <1>1, <2>2 DEF Session!AskTakeover, Session!RestFits, Session!NewestToken, Session!ghosts
  <2>3. CASE Session!TakeSession(s)
    BY <1>1, <1>4, <2>3 DEF Session!TakeSession, Session!RestFits, Session!NewestToken,
         Session!ghosts
  <2>4. CASE Session!TakeAnswer(s)
    BY <1>1, <1>4, <2>4 DEF Session!TakeAnswer, Session!NoteSignOut, Session!RestFits,
         Session!NewestToken, Session!portal
  <2>5. CASE Session!Rejected(s)
    <3>1. signedOut' \subseteq Nat
      BY <1>1, <1>4, <2>5 DEF Session!Rejected, Session!NoteSignOut, Session!RestFits
    <3>2. token' \in {Session!None, token} /\ session' \in Nat /\ reason' \in Session!Reasons
      BY <1>1, <2>5 DEF Session!Rejected, Session!Close, Session!RestFits, Session!Reasons,
           Session!None
    <3>3. UNCHANGED <<takeover, live, issued, newest, crossed, faults>>
      BY <2>5 DEF Session!Rejected
    <3> QED
      BY <1>1, <3>1, <3>2, <3>3 DEF Session!RestFits, Session!NewestToken, Session!None
  <2>6. CASE Session!Lost(s)
    BY <1>1, <2>6 DEF Session!Lost, Session!Fault, Session!RestFits, Session!NewestToken,
         Session!portal, Session!ghosts
  <2> QED
    BY <2>1, <2>2, <2>3, <2>4, <2>5, <2>6 DEF Session!Answer
<1>6. ~Session!SigningIn(s)'
  BY <1>3 DEF Session!SigningIn
<1> QED
  BY <1>2, <1>3, <1>5, <1>6, SessionQuietKeeps

\* What touches no call.
LEMMA SessionAsideKeeps ==
    ASSUME Session!ConstantsFit, Session!IInv,
           Session!CancelTakeover \/ (\E t \in live : Session!SessionEnds(t))
           \/ UNCHANGED Session!vars
    PROVE  Session!IInv'
<1>1. Session!CallFits /\ Session!RestFits /\ Session!OneSignIn /\ Session!ProvedAlone
         /\ Session!SessionsTrue
  BY SessionParts DEF Session!IInv
<1>2. /\ live' \subseteq live /\ (faults' = faults \/ faults' = faults + 1)
      /\ takeover' \in {takeover, FALSE}
      /\ UNCHANGED <<token, session, reason, call, issued, newest, signedOut, crossed>>
  BY DEF Session!CancelTakeover, Session!SessionEnds, Session!Fault, Session!vars, Session!portal,
       Session!ghosts
<1>3. Session!CallFits' /\ Session!RestFits'
  <2>1. faults' \in Nat
    BY <1>1, <1>2 DEF Session!RestFits
  <2>2. takeover' \in BOOLEAN
    <3>1. CASE takeover' = takeover
      BY <1>1, <3>1 DEF Session!RestFits
    <3>2. CASE takeover' = FALSE
      BY <3>2
    <3> QED
      BY <1>2, <3>1, <3>2
  <2>3. Session!RestFits'
    BY <1>1, <1>2, <2>1, <2>2 DEF Session!RestFits
  <2> QED
    BY <1>1, <1>2, <2>3 DEF Session!CallFits
<1>4. Session!OneSignIn' /\ Session!ProvedAlone' /\ Session!SessionsTrue'
  BY <1>1, <1>2 DEF Session!OneSignIn, Session!ProvedAlone, Session!SigningIn,
       Session!SessionsTrue, Session!OneSession, Session!NewestToken
<1> QED
  BY <1>3, <1>4, SessionPartsNext DEF Session!IInv

-----------------------------------------------------------------------------
\* The invariant holds at the start,
LEMMA SessionInitIInv ==
    ASSUME Session!Init
    PROVE  Session!IInv
<1>1. \A s \in Slots : call[s].step = "free"
  BY SessionFreeFits DEF Session!Init
<1>2. Session!CallFits /\ Session!RestFits
  BY SessionFreeFits DEF Session!Init, Session!CallFits, Session!RestFits, Session!None,
       Session!Reasons
<1>3. Session!OneSignIn /\ Session!ProvedAlone
  BY <1>1 DEF Session!OneSignIn, Session!ProvedAlone, Session!SigningIn
<1>4. Session!SessionsTrue
  BY DEF Session!Init, Session!SessionsTrue, Session!OneSession, Session!NewestToken
<1> QED
  BY <1>2, <1>3, <1>4, SessionParts DEF Session!IInv

\* and every step keeps it.
LEMMA SessionNextIInv ==
    ASSUME Session!ConstantsFit, Session!IInv, [Session!Next]_(Session!vars)
    PROVE  Session!IInv'
<1>1. ASSUME NEW s \in Slots,
             \/ \E kind \in Session!SignIns : Session!SignIn(s, kind)
             \/ Session!SignOut(s) \/ Session!Work(s) \/ Session!Refresh(s) \/ Session!Reload(s)
             \/ \E why \in {"idle", "expired"} : Session!EndSession(s, why)
      PROVE  Session!IInv'
  BY <1>1, SessionPortalKeeps, SessionReloadKeeps
<1>2. ASSUME NEW s \in Slots, Session!CallStep(s) \/ Session!SendAgain(s) \/ Session!Lost(s)
      PROVE  Session!IInv'
  BY <1>2, SessionServeSignInKeeps, SessionIssueKeeps, SessionServedKeeps, SessionTakenKeeps
       DEF Session!CallStep
<1>3. CASE Session!CancelTakeover \/ (\E t \in live : Session!SessionEnds(t))
         \/ UNCHANGED Session!vars
  BY <1>3, SessionAsideKeeps
<1>4. CASE Session!Elsewhere
  BY <1>4, SessionElsewhereKeeps
<1> QED
  BY <1>1, <1>2, <1>3, <1>4 DEF Session!Next

-----------------------------------------------------------------------------
(* A session's clocks (SessionClock) *)

\* An interval between pings fits in the idle limit, if the least one does.
LEMMA ClockPingEveryFits ==
    ASSUME Clock!ConstantsFit
    PROVE  Clock!PingEvery \in Nat \ {0} /\ (PingFloor <= Idle => Clock!PingEvery <= Idle)
<1>1. Idle \div 3 \in Nat /\ Idle \div 3 <= Idle
  BY DEF Clock!ConstantsFit
<1> QED
  BY <1>1 DEF Clock!ConstantsFit, Clock!PingEvery, Clock!Greater, Clock!Lesser

\* The invariant holds at the start,
LEMMA ClockInitIInv ==
    ASSUME Clock!ConstantsFit, Clock!Init
    PROVE  Clock!IInv
<1>1. Clock!PingEvery \in Nat \ {0}
  BY ClockPingEveryFits
<1>2. Clock!TypeOK
  BY DEF Clock!Init, Clock!TypeOK, Clock!Open
<1>3. ASSUME NEW t \in Tabs PROVE Clock!Held(t)
  <2>1. /\ ended[t] = "open" /\ idleFor[t] = 0 /\ sincePing[t] = 0
        /\ t \notin due /\ t \notin pinging /\ stored
        /\ age = 0 /\ quiet = 0 /\ still = 0 /\ faults = 0
    BY DEF Clock!Init
  <2>2. Clock!Within(t)
    BY <2>1 DEF Clock!Within, Clock!ConstantsFit
  <2>3. Clock!Warns(t)
    BY <2>1 DEF Clock!Warns
  <2>4. Clock!Pings(t)
    BY <1>1, <2>1 DEF Clock!Pings
  <2> QED
    BY <2>1, <2>2, <2>3, <2>4 DEF Clock!Held
<1>4. still <= Clock!PingEvery + faults + quiet
  BY <1>1 DEF Clock!Init
<1> QED
  BY <1>2, <1>3, <1>4 DEF Clock!IInv

\* Time passes, and the timers run or are held back.
LEMMA ClockPassKeeps ==
    ASSUME Clock!ConstantsFit, Clock!IInv, Clock!Clock \/ Clock!Sleep
    PROVE  Clock!IInv'
<1>1. /\ Clock!TypeOK /\ \A t \in Tabs : Clock!Held(t)
      /\ still <= Clock!PingEvery + faults + quiet
  BY DEF Clock!IInv
<1>2. /\ Clock!PingEvery \in Nat \ {0} /\ (PingFloor <= Idle => Clock!PingEvery <= Idle)
      /\ Idle \in Nat \ {0} /\ Lifetime \in Nat \ {0} /\ WarnAt \in 1..Idle
  BY ClockPingEveryFits DEF Clock!ConstantsFit
<1>3. /\ Clock!Pass /\ due = {} /\ pinging = {}
      /\ UNCHANGED <<ended, warning, pinging, stored, warned>>
      /\ age' = age + 1 /\ quiet' = quiet + 1 /\ still' = still + 1
      /\ age \in Nat /\ quiet \in Nat /\ still \in Nat /\ faults \in Nat
  BY <1>1 DEF Clock!Clock, Clock!Sleep, Clock!Pass, Clock!TypeOK
<1>4. \/ due' = Clock!Open /\ faults' = faults
      \/ due' = {} /\ faults' = faults + 1
  BY DEF Clock!Clock, Clock!Sleep, Clock!Fault
<1>5. Clock!Open' = Clock!Open
  BY <1>3 DEF Clock!Open
<1>6. ASSUME NEW t \in Tabs
      PROVE  /\ idleFor[t] \in Nat /\ sincePing[t] \in Nat
             /\ idleFor'[t] = IF t \in Clock!Open THEN idleFor[t] + 1 ELSE idleFor[t]
             /\ sincePing'[t] = IF t \in Clock!Open THEN sincePing[t] + 1 ELSE sincePing[t]
  BY <1>1, <1>3 DEF Clock!Pass, Clock!TypeOK
<1>7. Clock!TypeOK'
  <2>1. idleFor' \in [Tabs -> Nat] /\ sincePing' \in [Tabs -> Nat]
    BY <1>1, <1>3, <1>6 DEF Clock!Pass, Clock!TypeOK
  <2> QED
    BY <1>1, <1>3, <1>4, <1>5, <2>1 DEF Clock!TypeOK
<1>8. ASSUME NEW t \in Tabs PROVE Clock!Held(t)'
  <2>1. /\ Clock!Alone /\ PingFloor <= Idle /\ faults = 0 => Clock!Within(t) /\ ended[t] # "revoked"
        /\ Idle > 1 /\ faults = 0 => Clock!Warns(t)
        /\ Clock!Pings(t)
    BY <1>1 DEF Clock!Held
  <2>2. t \notin due /\ t \notin pinging /\ t \notin pinging'
    BY <1>3
  <2>3. ASSUME faults' = 0 PROVE faults = 0 /\ due' = Clock!Open
    BY <1>3, <1>4, <2>3
  <2>4. ASSUME Clock!Within(t), faults' = 0 PROVE Clock!Within(t)'
    BY <1>2, <1>3, <1>5, <1>6, <2>2, <2>3, <2>4 DEF Clock!Within
  <2>5. ASSUME Clock!Warns(t), faults' = 0 PROVE Clock!Warns(t)'
    <3>1. t \in Clock!Open /\ idleFor[t] > 0 /\ idleFor[t] >= Idle - WarnAt => t \in warned
      BY <2>2, <2>5 DEF Clock!Warns
    <3>2. t \in Clock!Open => t \in due' /\ idleFor'[t] - 1 = idleFor[t]
      BY <1>6, <2>3, <2>5
    <3> QED
      BY <1>3, <1>5, <2>5, <3>1, <3>2 DEF Clock!Warns
  <2>6. Clock!Pings(t)'
    <3>1. t \in Clock!Open =>
            /\ still' <= idleFor'[t]
            /\ sincePing'[t] > idleFor'[t] => idleFor'[t] <= Clock!PingEvery + faults
      BY <1>2, <1>3, <1>6, <2>1, <2>2 DEF Clock!Pings
    <3>2. t \in Clock!Open /\ t \notin due' => faults' = faults + 1
      BY <1>4
    <3>3. faults' >= faults /\ faults' \in Nat
      BY <1>3, <1>4
    <3>4. t \in Clock!Open => idleFor'[t] \in Nat
      BY <1>6
    <3> QED
      BY <1>2, <1>3, <1>5, <2>2, <3>1, <3>2, <3>3, <3>4 DEF Clock!Pings
  <2>7. Clock!Alone' = Clock!Alone
    BY DEF Clock!Alone
  <2> QED
    BY <1>3, <2>1, <2>3, <2>4, <2>5, <2>6, <2>7 DEF Clock!Held
<1>9. (still <= Clock!PingEvery + faults + quiet)'
  BY <1>1, <1>2, <1>3, <1>4
<1> QED
  BY <1>7, <1>8, <1>9 DEF Clock!IInv

\* What a person does.
LEMMA ClockTouchKeeps ==
    ASSUME Clock!ConstantsFit, Clock!IInv, NEW u \in Tabs, Clock!Activity(u)
           \/ Clock!StaySignedIn(u)
    PROVE  Clock!IInv'
<1>1. /\ Clock!TypeOK /\ \A t \in Tabs : Clock!Held(t)
      /\ still <= Clock!PingEvery + faults + quiet
  BY DEF Clock!IInv
<1>2. /\ Clock!PingEvery \in Nat \ {0} /\ (PingFloor <= Idle => Clock!PingEvery <= Idle)
      /\ Idle \in Nat \ {0} /\ Lifetime \in Nat \ {0} /\ WarnAt \in 1..Idle
  BY ClockPingEveryFits DEF Clock!ConstantsFit
<1>3. /\ u \in Clock!Open /\ still' = 0 /\ warned' = warned \ {u}
      /\ UNCHANGED <<ended, due, stored, age, quiet, faults>>
      /\ age \in Nat /\ quiet \in Nat /\ still \in Nat /\ faults \in Nat
  BY <1>1 DEF Clock!Activity, Clock!StaySignedIn, Clock!Touch, Clock!clock, Clock!TypeOK
<1>4. Clock!Open' = Clock!Open
  BY <1>3 DEF Clock!Open
<1>5. /\ idleFor'[u] = 0 /\ sincePing[u] \in Nat
      /\ \/ sincePing'[u] = sincePing[u] /\ UNCHANGED pinging
         \/ sincePing'[u] = 0 /\ pinging' = pinging \cup {u}
  BY <1>1 DEF Clock!Activity, Clock!StaySignedIn, Clock!Touch, Clock!TypeOK
<1>6. ASSUME NEW t \in Tabs, t # u
      PROVE  /\ idleFor'[t] = idleFor[t] /\ sincePing'[t] = sincePing[t]
             /\ t \in pinging' <=> t \in pinging
             /\ idleFor[t] \in Nat /\ sincePing[t] \in Nat
  BY <1>1, <1>6 DEF Clock!Activity, Clock!StaySignedIn, Clock!Touch, Clock!TypeOK
<1>7. Clock!TypeOK'
  <2>1. idleFor' \in [Tabs -> Nat] /\ sincePing' \in [Tabs -> Nat]
    BY <1>1 DEF Clock!Activity, Clock!StaySignedIn, Clock!Touch, Clock!TypeOK
  <2>2. warning' \subseteq warning /\ pinging' \subseteq Tabs
    BY <1>1 DEF Clock!Activity, Clock!StaySignedIn, Clock!TypeOK
  <2> QED
    BY <1>1, <1>3, <1>4, <2>1, <2>2 DEF Clock!TypeOK
<1>8. ASSUME NEW t \in Tabs PROVE Clock!Held(t)'
  <2>1. /\ Clock!Alone /\ PingFloor <= Idle /\ faults = 0 => Clock!Within(t) /\ ended[t] # "revoked"
        /\ Idle > 1 /\ faults = 0 => Clock!Warns(t)
        /\ Clock!Pings(t)
    BY <1>1 DEF Clock!Held
  <2>2. CASE t = u
    <3>1. ASSUME Clock!Within(t) PROVE Clock!Within(t)'
      BY <1>2, <1>3, <1>4, <1>5, <2>2, <3>1 DEF Clock!Within
    <3>2. Clock!Warns(t)'
      BY <1>2, <1>3, <1>4, <1>5, <2>2 DEF Clock!Warns, Clock!Open
    <3>3. Clock!Pings(t)'
      BY <1>2, <1>3, <1>4, <1>5, <2>2 DEF Clock!Pings
    <3> QED
      BY <1>3, <2>1, <3>1, <3>2, <3>3 DEF Clock!Held, Clock!Alone
  <2>3. CASE t # u
    <3>1. ASSUME Clock!Within(t) PROVE Clock!Within(t)'
      BY <1>3, <1>4, <1>6, <2>3, <3>1 DEF Clock!Within
    <3>2. ASSUME Clock!Warns(t) PROVE Clock!Warns(t)'
      BY <1>3, <1>4, <1>6, <2>3, <3>2 DEF Clock!Warns
    <3>3. Clock!Pings(t)'
      BY <1>2, <1>3, <1>4, <1>6, <2>1, <2>3 DEF Clock!Pings
    <3> QED
      BY <1>3, <2>1, <3>1, <3>2, <3>3 DEF Clock!Held, Clock!Alone
  <2> QED
    BY <2>2, <2>3
<1>9. (still <= Clock!PingEvery + faults + quiet)'
  BY <1>2, <1>3
<1> QED
  BY <1>7, <1>8, <1>9 DEF Clock!IInv

\* The timer ends a session that is at a limit,
LEMMA ClockTimeUpKeeps ==
    ASSUME Clock!ConstantsFit, Clock!IInv, NEW u \in Tabs, Clock!TimeUp(u)
    PROVE  Clock!IInv'
<1>1. /\ Clock!TypeOK /\ \A t \in Tabs : Clock!Held(t)
      /\ still <= Clock!PingEvery + faults + quiet
  BY DEF Clock!IInv
<1>2. /\ UNCHANGED <<idleFor, sincePing, pinging, age, quiet, still, warned, faults>>
      /\ u \in due /\ due' = due \ {u} /\ warning' = warning \ {u} /\ stored' = FALSE
      /\ Idle \in Nat \ {0} /\ WarnAt \in 1..Idle
  BY DEF Clock!TimeUp, Clock!End, Clock!clock, Clock!ConstantsFit
<1>3. /\ ended' = [ended EXCEPT ![u] = IF age >= Lifetime THEN "expired" ELSE "idle"]
      /\ age >= Lifetime \/ idleFor[u] >= Idle
  BY DEF Clock!TimeUp, Clock!End
<1>4. /\ ended'[u] = IF age >= Lifetime THEN "expired" ELSE "idle"
      /\ \A t \in Tabs : t # u => ended'[t] = ended[t]
      /\ ended' \in [Tabs -> {"open", "idle", "expired", "revoked"}]
  BY <1>1, <1>3 DEF Clock!TypeOK
<1>5. Clock!Open' = Clock!Open \ {u} /\ u \in Clock!Open
  BY <1>1, <1>2, <1>4 DEF Clock!Open, Clock!TypeOK
<1>6. Clock!TypeOK'
  BY <1>1, <1>2, <1>4, <1>5 DEF Clock!TypeOK
<1>7. ASSUME NEW t \in Tabs PROVE Clock!Held(t)'
  <2>1. /\ Clock!Alone /\ PingFloor <= Idle /\ faults = 0 => Clock!Within(t) /\ ended[t] # "revoked"
        /\ Idle > 1 /\ faults = 0 => Clock!Warns(t)
        /\ Clock!Pings(t)
    BY <1>1 DEF Clock!Held
  <2>2. Clock!Pings(t)'
    BY <1>2, <1>5, <2>1 DEF Clock!Pings
  <2>3. CASE t = u
    <3>1. Clock!Within(t)' /\ ended'[t] # "revoked"
      BY <1>4, <1>5, <2>3 DEF Clock!Within
    <3>2. ASSUME Idle > 1, Clock!Warns(t) PROVE Clock!Warns(t)'
      <4>1. idleFor[t] \in Nat
        BY <1>1 DEF Clock!TypeOK
      <4>2. idleFor[t] >= Idle => t \in warned
        BY <1>2, <1>5, <2>3, <3>2, <4>1 DEF Clock!Warns
      <4>3. ended'[t] = "idle" => t \in warned
        BY <1>3, <1>4, <2>3, <4>2
      <4> QED
        BY <1>2, <1>5, <2>3, <4>3 DEF Clock!Warns
    <3> QED
      BY <1>2, <2>1, <2>2, <3>1, <3>2 DEF Clock!Held, Clock!Alone
  <2>4. CASE t # u
    <3>1. ~Clock!Alone
      BY <2>4 DEF Clock!Alone
    <3>2. ASSUME Clock!Warns(t) PROVE Clock!Warns(t)'
      BY <1>2, <1>4, <1>5, <2>4, <3>2 DEF Clock!Warns
    <3> QED
      BY <1>2, <2>1, <2>2, <3>1, <3>2 DEF Clock!Held, Clock!Alone
  <2> QED
    BY <2>3, <2>4
<1> QED
  BY <1>1, <1>2, <1>6, <1>7 DEF Clock!IInv

\* or warns, and pings when it is time to.
LEMMA ClockTickKeeps ==
    ASSUME Clock!ConstantsFit, Clock!IInv, NEW u \in Tabs, Clock!Tick(u)
    PROVE  Clock!IInv'
<1>1. /\ Clock!TypeOK /\ \A t \in Tabs : Clock!Held(t)
      /\ still <= Clock!PingEvery + faults + quiet
  BY DEF Clock!IInv
<1>2. /\ Clock!PingEvery \in Nat \ {0} /\ (PingFloor <= Idle => Clock!PingEvery <= Idle)
      /\ Idle \in Nat \ {0} /\ Lifetime \in Nat \ {0} /\ WarnAt \in 1..Idle
  BY ClockPingEveryFits DEF Clock!ConstantsFit
<1>3. /\ UNCHANGED <<ended, idleFor, stored, age, quiet, still, faults>>
      /\ u \in due /\ due' = due \ {u} /\ age < Lifetime /\ idleFor[u] < Idle
      /\ age \in Nat /\ quiet \in Nat /\ still \in Nat /\ faults \in Nat
      /\ idleFor[u] \in Nat /\ sincePing[u] \in Nat
  BY <1>1 DEF Clock!Tick, Clock!clock, Clock!TypeOK
<1>4. \/ /\ idleFor[u] < sincePing[u] /\ sincePing[u] >= Clock!PingEvery
         /\ sincePing' = [sincePing EXCEPT ![u] = 0] /\ pinging' = pinging \cup {u}
      \/ /\ ~(idleFor[u] < sincePing[u] /\ sincePing[u] >= Clock!PingEvery)
         /\ UNCHANGED <<sincePing, pinging>>
  BY DEF Clock!Tick, Clock!PingDue
<1>5. \/ Idle - idleFor[u] <= WarnAt /\ warning' = warning \cup {u} /\ warned' = warned \cup {u}
      \/ Idle - idleFor[u] > WarnAt /\ warning' = warning \ {u} /\ UNCHANGED warned
  BY <1>2, <1>3 DEF Clock!Tick
<1>6. Clock!Open' = Clock!Open /\ u \in Clock!Open
  BY <1>1, <1>3 DEF Clock!Open, Clock!TypeOK
<1>7. Clock!TypeOK'
  <2>1. sincePing' \in [Tabs -> Nat] /\ pinging' \subseteq Tabs
    BY <1>1, <1>4 DEF Clock!TypeOK
  <2>2. warning' \subseteq Clock!Open /\ warned' \subseteq Tabs
    BY <1>1, <1>5, <1>6 DEF Clock!TypeOK
  <2> QED
    BY <1>1, <1>3, <1>6, <2>1, <2>2 DEF Clock!TypeOK
<1>8. ASSUME NEW t \in Tabs PROVE Clock!Held(t)'
  <2>1. /\ Clock!Alone /\ PingFloor <= Idle /\ faults = 0 => Clock!Within(t) /\ ended[t] # "revoked"
        /\ Idle > 1 /\ faults = 0 => Clock!Warns(t)
        /\ Clock!Pings(t)
    BY <1>1 DEF Clock!Held
  <2>2. CASE t = u
    <3>1. \/ sincePing'[t] = 0 /\ t \in pinging' /\ idleFor[t] < sincePing[t]
          \/ /\ sincePing'[t] = sincePing[t] /\ (t \in pinging' <=> t \in pinging)
             /\ sincePing[t] <= idleFor[t] \/ sincePing[t] < Clock!PingEvery
      BY <1>1, <1>2, <1>3, <1>4, <2>2 DEF Clock!TypeOK
    <3>2. ASSUME Clock!Within(t), PingFloor <= Idle PROVE Clock!Within(t)'
      BY <1>2, <1>3, <1>6, <2>2, <3>1, <3>2 DEF Clock!Within
    <3>3. ASSUME Clock!Warns(t) PROVE Clock!Warns(t)'
      BY <1>2, <1>3, <1>5, <1>6, <2>2, <3>3 DEF Clock!Warns, Clock!Open
    <3>4. Clock!Pings(t)'
      BY <1>2, <1>3, <1>6, <2>1, <2>2, <3>1 DEF Clock!Pings
    <3> QED
      BY <1>3, <2>1, <3>2, <3>3, <3>4 DEF Clock!Held, Clock!Alone
  <2>3. CASE t # u
    <3>1. /\ sincePing'[t] = sincePing[t] /\ (t \in pinging' <=> t \in pinging)
          /\ (t \in due' <=> t \in due) /\ (t \in warned' <=> t \in warned)
      BY <1>1, <1>3, <1>4, <1>5, <2>3 DEF Clock!TypeOK
    <3>2. ASSUME Clock!Within(t) PROVE Clock!Within(t)'
      BY <1>3, <1>6, <3>1, <3>2 DEF Clock!Within
    <3>3. ASSUME Clock!Warns(t) PROVE Clock!Warns(t)'
      BY <1>3, <1>6, <3>1, <3>3 DEF Clock!Warns
    <3>4. Clock!Pings(t)'
      BY <1>3, <1>6, <2>1, <3>1 DEF Clock!Pings
    <3> QED
      BY <1>3, <2>1, <3>2, <3>3, <3>4 DEF Clock!Held, Clock!Alone
  <2> QED
    BY <2>2, <2>3
<1> QED
  BY <1>1, <1>3, <1>7, <1>8 DEF Clock!IInv

\* A ping arrives, and finds the session there unless something went wrong,
LEMMA ClockPingKeeps ==
    ASSUME Clock!ConstantsFit, Clock!IInv, NEW u \in Tabs, Clock!Ping(u)
    PROVE  Clock!IInv'
<1>1. /\ Clock!TypeOK /\ \A t \in Tabs : Clock!Held(t)
      /\ still <= Clock!PingEvery + faults + quiet
  BY DEF Clock!IInv
<1>2. /\ Clock!PingEvery \in Nat \ {0} /\ Idle \in Nat \ {0} /\ Lifetime \in Nat \ {0}
  BY ClockPingEveryFits DEF Clock!ConstantsFit
<1>3. /\ UNCHANGED <<idleFor, sincePing, age, still, warned, faults>>
      /\ u \in pinging /\ pinging' = pinging \ {u}
      /\ age \in Nat /\ quiet \in Nat /\ still \in Nat /\ faults \in Nat
  BY <1>1 DEF Clock!Ping, Clock!TypeOK
<1>4. \/ u \in Clock!Open /\ stored /\ Clock!Alive /\ quiet' = 0 /\ UNCHANGED <<ended, warning,
          stored, due>>
      \/ /\ u \in Clock!Open /\ ~(stored /\ Clock!Alive)
         /\ ended' = [ended EXCEPT ![u] = "revoked"] /\ warning' = warning \ {u}
         /\ due' = due \ {u} /\ stored' = FALSE /\ UNCHANGED quiet
      \/ /\ u \notin Clock!Open /\ UNCHANGED <<ended, warning, stored, quiet>>
         /\ due' \in {due, due \ {u}}
  BY DEF Clock!Ping, Clock!Seen, Clock!End
<1>5. \/ UNCHANGED <<ended, warning, stored, due>> /\ Clock!Open' = Clock!Open
      \/ /\ ended'[u] = "revoked" /\ (\A t \in Tabs : t # u => ended'[t] = ended[t])
         /\ ended' \in [Tabs -> {"open", "idle", "expired", "revoked"}]
         /\ Clock!Open' = Clock!Open \ {u} /\ due' = due \ {u}
         /\ warning' = warning \ {u} /\ u \in Clock!Open /\ ~(stored /\ Clock!Alive)
  BY <1>1, <1>4 DEF Clock!Open, Clock!TypeOK
<1>6. Clock!TypeOK'
  <2>1. due' \subseteq Clock!Open' /\ warning' \subseteq Clock!Open'
    <3>1. due \subseteq Clock!Open /\ warning \subseteq Clock!Open
      BY <1>1 DEF Clock!TypeOK
    <3> QED
      BY <1>5, <3>1
  <2>2. quiet' \in Nat
    BY <1>3, <1>4
  <2>3. stored' \in BOOLEAN
    <3>1. stored' = stored \/ stored' = FALSE
      BY <1>4, Zenon
    <3>2. stored \in BOOLEAN
      BY <1>1 DEF Clock!TypeOK
    <3> QED
      BY <3>1, <3>2, Zenon
  <2> QED
    BY <1>1, <1>3, <1>5, <2>1, <2>2, <2>3 DEF Clock!TypeOK
<1>7. quiet' \in {0, quiet}
  BY <1>4
<1>8. quiet' = 0 => still <= Clock!PingEvery + faults + quiet'
  BY <1>1, <1>2, <1>3 DEF Clock!Held, Clock!Pings
<1>9. ASSUME NEW t \in Tabs PROVE Clock!Held(t)'
  <2>1. /\ Clock!Alone /\ PingFloor <= Idle /\ faults = 0 => Clock!Within(t) /\ ended[t] # "revoked"
        /\ Idle > 1 /\ faults = 0 => Clock!Warns(t)
        /\ Clock!Pings(t)
    BY <1>1 DEF Clock!Held
  <2>2. Clock!Pings(t)'
    BY <1>3, <1>5, <2>1 DEF Clock!Pings
  <2>3. ASSUME Clock!Warns(t) PROVE Clock!Warns(t)'
    BY <1>3, <1>5, <2>3 DEF Clock!Warns, Clock!Open
  <2>4. ASSUME Clock!Alone, Clock!Within(t) PROVE Clock!Within(t)'
           /\ (ended[t] # "revoked" => ended'[t] # "revoked")
    <3>1. t = u
      BY <2>4 DEF Clock!Alone
    <3>2. sincePing[t] \in Nat
      BY <1>1 DEF Clock!TypeOK
    <3>3. u \in Clock!Open => stored /\ Clock!Alive
      <4> SUFFICES ASSUME u \in Clock!Open PROVE stored /\ Clock!Alive
        OBVIOUS
      <4>1. stored /\ age <= Lifetime
        BY <2>4, <3>1 DEF Clock!Within
      <4>2. quiet <= Idle
        BY <1>2, <1>3, <2>4, <3>1, <3>2 DEF Clock!Within
      <4> QED
        BY <4>1, <4>2 DEF Clock!Alive
    <3>4. UNCHANGED <<ended, stored, due>> /\ Clock!Open' = Clock!Open
             /\ (u \in Clock!Open => quiet' = 0)
      BY <1>4, <1>5, <3>3
    <3> QED
      BY <1>3, <2>4, <3>1, <3>2, <3>4 DEF Clock!Within
  <2>5. Clock!Alone' = Clock!Alone
    BY DEF Clock!Alone
  <2> QED
    BY <1>3, <2>1, <2>2, <2>3, <2>4, <2>5 DEF Clock!Held
<1>10. (still <= Clock!PingEvery + faults + quiet)'
  BY <1>1, <1>3, <1>7, <1>8
<1> QED
  BY <1>6, <1>9, <1>10 DEF Clock!IInv

\* or is lost, which is a fault.
LEMMA ClockPingLostKeeps ==
    ASSUME Clock!ConstantsFit, Clock!IInv, NEW u \in Tabs, Clock!PingLost(u)
    PROVE  Clock!IInv'
<1>1. /\ Clock!TypeOK /\ \A t \in Tabs : Clock!Held(t)
      /\ still <= Clock!PingEvery + faults + quiet
  BY DEF Clock!IInv
<1>2. Clock!PingEvery \in Nat \ {0}
  BY ClockPingEveryFits
<1>3. /\ UNCHANGED <<ended, idleFor, sincePing, warning, due, stored, age, quiet, still, warned>>
      /\ faults' = faults + 1 /\ pinging' = pinging \ {u}
      /\ quiet \in Nat /\ still \in Nat /\ faults \in Nat
  BY <1>1 DEF Clock!PingLost, Clock!Fault, Clock!tabs, Clock!clock, Clock!TypeOK
<1>4. Clock!Open' = Clock!Open
  BY <1>3 DEF Clock!Open
<1>5. Clock!TypeOK'
  BY <1>1, <1>3, <1>4 DEF Clock!TypeOK
<1>6. ASSUME NEW t \in Tabs PROVE Clock!Held(t)'
  <2>1. Clock!Pings(t) /\ idleFor[t] \in Nat /\ sincePing[t] \in Nat
    BY <1>1 DEF Clock!Held, Clock!TypeOK
  <2>2. Clock!Pings(t)'
    BY <1>2, <1>3, <1>4, <2>1 DEF Clock!Pings
  <2>3. faults' # 0
    BY <1>3
  <2> QED
    BY <2>2, <2>3 DEF Clock!Held
<1>7. (still <= Clock!PingEvery + faults + quiet)'
  BY <1>1, <1>2, <1>3
<1> QED
  BY <1>5, <1>6, <1>7 DEF Clock!IInv

\* and every step keeps it.
LEMMA ClockNextIInv ==
    ASSUME Clock!ConstantsFit, Clock!IInv, [Clock!Next]_(Clock!vars)
    PROVE  Clock!IInv'
<1>1. CASE UNCHANGED Clock!vars
  BY <1>1 DEF Clock!vars, Clock!tabs, Clock!clock, Clock!IInv, Clock!TypeOK, Clock!Open,
       Clock!Held, Clock!Within, Clock!Warns, Clock!Pings, Clock!Alone
<1> QED
  BY <1>1, ClockPassKeeps, ClockTouchKeeps, ClockTimeUpKeeps, ClockTickKeeps, ClockPingKeeps,
       ClockPingLostKeeps DEF Clock!Next

\* What the invariant means.
LEMMA ClockIInvImplies ==
    ASSUME Clock!ConstantsFit, Clock!IInv
    PROVE  Clock!PortalEndsFirst /\ Clock!DesertedEnds /\ Clock!WarnedFirst
<1>1. Clock!PingEvery \in Nat \ {0} /\ Idle \in Nat
  BY ClockPingEveryFits DEF Clock!ConstantsFit
<1>2. Clock!DesertedEnds
  BY <1>1 DEF Clock!IInv, Clock!TypeOK, Clock!DesertedEnds, Clock!Alive
<1>3. Clock!WarnedFirst
  BY DEF Clock!IInv, Clock!Held, Clock!WarnedFirst, Clock!Warns
<1>4. Clock!PortalEndsFirst
  BY DEF Clock!IInv, Clock!Held, Clock!PortalEndsFirst
<1> QED
  BY <1>2, <1>3, <1>4

-----------------------------------------------------------------------------
(* The payer's page (PayPage) *)

\* What a checkout is started with is an amount.
LEMMA PageAmountsFit ==
    ASSUME NEW who,
           Page(who)!ConstantsFit, Page(who)!TypeOK
    PROVE  /\ Page(who)!RemainingMinor(BillOf[who], paid) \in Nat /\ Page(who)!Sent \in Nat
           /\ Page(who)!IsSplit(BillOf[who]) => BillOf[who].target \in Nat
<1>1. BillOf[who].target \in Nat /\ BillOf[who].amount \in Nat
  BY DEF Page!ConstantsFit, Page!ValidTerms, Page!Terms
<1> QED
  BY <1>1 DEF Page!TypeOK, Page!RemainingMinor, Page!Sent

\* The checkouts of a page are counted.
LEMMA PageLenFits ==
    ASSUME NEW who,
           Page(who)!IInv
    PROVE  Len(sessions) \in Nat
BY LenProperties DEF Page!IInv

\* The invariant holds at the start,
LEMMA PageInitIInv ==
    ASSUME NEW who,
           Page(who)!ConstantsFit, Page(who)!Init
    PROVE  Page(who)!IInv
<1>1. sessions = <<>> /\ Len(sessions) = 0 /\ sessions \in Seq([amount : Nat, paid : Nat])
  BY DEF Page!Init
<1>2. Page(who)!TypeOK
  <2>1. session \in 0..Len(sessions) /\ Len(sessions) <= SessionsOf[who]
           /\ faults \in 0..FaultsOf[who]
    BY <1>1 DEF Page!Init, Page!ConstantsFit
  <2> QED
    BY <2>1 DEF Page!Init, Page!TypeOK, Page!LinkStatus
<1>3. Page(who)!InHand /\ Page(who)!ErrorFreesButton
  BY DEF Page!Init, Page!InHand, Page!ErrorFreesButton
<1>4. Page(who)!WithinBill
  BY <1>1 DEF Page!WithinBill
<1> QED
  BY <1>1, <1>2, <1>3, <1>4 DEF Page!IInv

\* What starts no checkout leaves those that were started.
LEMMA PageLoadKeeps ==
    ASSUME NEW who,
           Page(who)!ConstantsFit, Page(who)!IInv, Page(who)!Reload \/ Page(who)!LinkRead
           \/ Page(who)!LinkMissing
    PROVE  Page(who)!IInv'
<1> USE DEF Page!IInv
<1>1. Page(who)!RemainingMinor(BillOf[who], paid) \in Nat
  BY PageAmountsFit
<1>2. Page(who)!TypeOK'
  <2>1. session' \in 0..Len(sessions) /\ faults' \in 0..FaultsOf[who]
    BY PageLenFits DEF Page!Reload, Page!LinkRead, Page!LinkMissing, Page!Fault, Page!TypeOK,
         Page!ConstantsFit
  <2>2. left' \in Nat /\ amount' \in Nat
    BY <1>1 DEF Page!Reload, Page!LinkRead, Page!LinkMissing, Page!TypeOK
  <2> QED
    BY <2>1, <2>2 DEF Page!Reload, Page!LinkRead, Page!LinkMissing, Page!TypeOK
<1>3. Page(who)!InHand' /\ Page(who)!ErrorFreesButton'
  BY DEF Page!Reload, Page!LinkRead, Page!LinkMissing, Page!InHand, Page!ErrorFreesButton, Page!Busy
<1>4. UNCHANGED sessions
  BY DEF Page!Reload, Page!LinkRead, Page!LinkMissing
<1> QED
  BY <1>2, <1>3, <1>4 DEF Page!WithinBill

\* The payer presses the button.
LEMMA PagePressKeeps ==
    ASSUME NEW who,
           Page(who)!ConstantsFit, Page(who)!IInv,
           \/ Page(who)!Pay \/ Page(who)!CheckoutRefused \/ Page(who)!ShowPaymentPage
           \/ \E a \in 0..MaxTyped : Page(who)!TypeAmount(a)
    PROVE  Page(who)!IInv'
<1> USE DEF Page!IInv
<1>1. Page(who)!TypeOK'
  <2>1. amount' \in Nat
    BY DEF Page!Pay, Page!CheckoutRefused, Page!ShowPaymentPage, Page!TypeAmount, Page!TypeOK,
         Page!ConstantsFit
  <2>2. UNCHANGED <<left, session, sessions, stored, paid, faults>>
    BY DEF Page!Pay, Page!CheckoutRefused, Page!ShowPaymentPage, Page!TypeAmount
  <2> QED
    BY <2>1, <2>2 DEF Page!Pay, Page!CheckoutRefused, Page!Fail, Page!ShowPaymentPage,
         Page!TypeAmount, Page!OpenPage, Page!TypeOK
<1>2. Page(who)!InHand' /\ Page(who)!ErrorFreesButton'
  BY DEF Page!Pay, Page!CheckoutRefused, Page!Fail, Page!ShowPaymentPage, Page!TypeAmount,
       Page!OpenPage, Page!InHand, Page!ErrorFreesButton, Page!Busy
<1>3. UNCHANGED sessions
  BY DEF Page!Pay, Page!CheckoutRefused, Page!ShowPaymentPage, Page!TypeAmount
<1> QED
  BY <1>1, <1>2, <1>3 DEF Page!WithinBill

\* A checkout is started for what is left of the bill.
LEMMA PageCheckoutKeeps ==
    ASSUME NEW who,
           Page(who)!ConstantsFit, Page(who)!IInv, Page(who)!CheckoutStarted
    PROVE  Page(who)!IInv'
<1> DEFINE new == [amount |-> Page(who)!Sent, paid |-> paid]
<1>1. /\ new \in [amount : Nat, paid : Nat] /\ new.amount = Page(who)!Sent /\ new.paid = paid
      /\ Page(who)!IsSplit(BillOf[who]) => new.amount + new.paid <= BillOf[who].target
  <2>1. Page(who)!Sent \in Nat /\ paid \in Nat
           /\ (Page(who)!IsSplit(BillOf[who]) => BillOf[who].target \in Nat)
    BY PageAmountsFit DEF Page!IInv, Page!TypeOK
  <2>2. Page(who)!IsSplit(BillOf[who]) => Page(who)!Sent > 0
           /\ Page(who)!Sent <= Page(who)!RemainingMinor(BillOf[who], paid)
    BY DEF Page!CheckoutStarted, Page!AmountAllowed, Page!IsSplit, Page!PayerChoosesAmount
  <2> QED
    BY <2>1, <2>2 DEF Page!RemainingMinor
<1>2. sessions' = Append(sessions, new) /\ sessions \in Seq([amount : Nat, paid : Nat])
  BY DEF Page!CheckoutStarted, Page!IInv
<1> HIDE DEF new
<1>3. /\ sessions' \in Seq([amount : Nat, paid : Nat]) /\ Len(sessions') = Len(sessions) + 1
      /\ Len(sessions) \in Nat
      /\ sessions'[Len(sessions) + 1] = new
      /\ \A n \in 1..Len(sessions) : sessions'[n] = sessions[n]
  BY <1>1, <1>2, AppendProperties, LenProperties
<1>4. session' = Len(sessions') /\ pay' = "script" /\ page' = page /\ page = "shown"
  BY DEF Page!CheckoutStarted, Page!AwaitScript, Page!OpenPage
<1>5. Page(who)!TypeOK'
  <2>1. session' \in 0..Len(sessions') /\ Len(sessions') <= SessionsOf[who]
    BY <1>3, <1>4 DEF Page!CheckoutStarted, Page!IInv, Page!TypeOK, Page!ConstantsFit
  <2>2. script' \in {"none", "loading", "failed", "loaded"} /\ waiting' \in BOOLEAN
    BY DEF Page!CheckoutStarted, Page!AwaitScript, Page!IInv, Page!TypeOK
  <2> QED
    BY <1>4, <2>1, <2>2 DEF Page!CheckoutStarted, Page!IInv, Page!TypeOK
<1>6. Page(who)!InHand'
  BY <1>3, <1>4 DEF Page!InHand
<1>7. Page(who)!ErrorFreesButton'
  BY DEF Page!CheckoutStarted, Page!IInv, Page!ErrorFreesButton, Page!Busy
<1>8. ASSUME NEW n \in DOMAIN sessions', Page(who)!IsSplit(BillOf[who])
      PROVE  sessions'[n].amount + sessions'[n].paid <= BillOf[who].target
  <2>1. DOMAIN sessions' = 1..Len(sessions) + 1 /\ DOMAIN sessions = 1..Len(sessions)
    BY <1>2, <1>3, LenProperties
  <2>2. CASE n = Len(sessions) + 1
    BY <1>1, <1>3, <1>8, <2>2
  <2>3. CASE n \in 1..Len(sessions)
    BY <1>3, <1>8, <2>1, <2>3 DEF Page!IInv, Page!WithinBill
  <2> QED
    BY <1>3, <2>1, <2>2, <2>3
<1>9. Page(who)!WithinBill'
  BY <1>8 DEF Page!WithinBill
<1> QED
  BY <1>3, <1>5, <1>6, <1>7, <1>9 DEF Page!IInv

\* checkout.js, other payers and the operator.
LEMMA PageAsideKeeps ==
    ASSUME NEW who,
           Page(who)!ConstantsFit, Page(who)!IInv,
           \/ Page(who)!ScriptLoads \/ Page(who)!ScriptFails \/ Page(who)!Pause
           \/ \E a \in 1..MaxTyped : Page(who)!OthersPay(a)
    PROVE  Page(who)!IInv'
<1> USE DEF Page!IInv
<1>1. Page(who)!TypeOK'
  <2>1. faults' \in 0..FaultsOf[who]
    BY DEF Page!ScriptLoads, Page!ScriptFails, Page!Fault, Page!Pause, Page!OthersPay, Page!TypeOK,
         Page!ConstantsFit
  <2>2. paid' \in Nat /\ UNCHANGED <<page, left, amount, session, sessions>>
    BY DEF Page!ScriptLoads, Page!ScriptFails, Page!Pause, Page!OthersPay, Page!browser, Page!TypeOK
  <2>3. stored' \in Page(who)!LinkStatus
    BY DEF Page!ScriptLoads, Page!ScriptFails, Page!Pause, Page!OthersPay, Page!TypeOK,
         Page!LinkStatus
  <2>4. /\ pay' \in {"idle", "starting", "script"} /\ error' \in BOOLEAN /\ waiting' \in BOOLEAN
        /\ script' \in {"none", "loading", "failed", "loaded"}
    BY DEF Page!ScriptLoads, Page!ScriptFails, Page!Fail, Page!Pause, Page!OthersPay, Page!browser,
         Page!TypeOK
  <2> QED
    BY <2>1, <2>2, <2>3, <2>4 DEF Page!TypeOK
<1>2. Page(who)!InHand' /\ Page(who)!ErrorFreesButton'
  BY DEF Page!ScriptLoads, Page!ScriptFails, Page!Fail, Page!Pause, Page!OthersPay, Page!browser,
       Page!InHand, Page!ErrorFreesButton, Page!Busy
<1>3. UNCHANGED sessions
  BY DEF Page!ScriptLoads, Page!ScriptFails, Page!Pause, Page!OthersPay
<1> QED
  BY <1>1, <1>2, <1>3 DEF Page!WithinBill

\* and every step keeps it.
LEMMA PageNextIInv ==
    ASSUME NEW who,
           Page(who)!ConstantsFit, Page(who)!IInv, [Page(who)!Next]_(Page(who)!vars)
    PROVE  Page(who)!IInv'
<1>1. CASE UNCHANGED Page(who)!vars
  BY <1>1 DEF Page!vars, Page!browser, Page!IInv, Page!TypeOK, Page!InHand, Page!WithinBill,
       Page!ErrorFreesButton, Page!Busy
<1> QED
  BY <1>1, PageLoadKeeps, PagePressKeeps, PageCheckoutKeeps, PageAsideKeeps DEF Page!Next,
       Page!Answer

\* What the invariant means.
LEMMA PageIInvImplies ==
    ASSUME NEW who,
           Page(who)!IInv
    PROVE  Page(who)!HostedIsLast /\ Page(who)!WithinBill /\ Page(who)!ErrorFreesButton
BY DEF Page!IInv, Page!InHand, Page!HostedIsLast

-----------------------------------------------------------------------------
(* After the gateway's page (PayerReturn) *)

\* A record that is made of an order.
LEMMA BackRowFits ==
    ASSUME NEW o \in Back!Order
    PROVE  Back!RowOf(o) \in Back!Row /\ Back!RowOf(o).cap = o.cap
<1>1. PICK s \in Back!PaymentStatus :
        s = IF o.status \in Back!Recognised THEN Back!StatusFromOrder(o.status) ELSE "initiated"
  BY DEF Back!StatusFromOrder, Back!Recognised, Back!PaymentStatus
<1>2. Back!RowOf(o) = [status |-> s, auth |-> o.auth, cap |-> o.cap, ref |-> o.ref]
  BY <1>1 DEF Back!RowOf
<1> QED
  BY <1>2 DEF Back!Row, Back!Order

\* It says no more of the money than the order did, and the order was true.
LEMMA BackRowIsPast ==
    ASSUME order \in Back!Order, Back!OrderTrue
    PROVE  Back!Past(Back!RowOf(order))
<1>1. Back!RowOf(order) \in Back!Row /\ Back!RowOf(order).cap = order.cap /\ order.cap \in Nat
  BY BackRowFits DEF Back!Order
<1>2. Back!RowOf(order).status =
        IF order.status \in Back!Recognised THEN Back!StatusFromOrder(order.status) ELSE "initiated"
  BY DEF Back!RowOf
<1>3. Back!RowOf(order).status \in Back!Taken => touched
  BY <1>2 DEF Back!StatusFromOrder, Back!Recognised, Back!Taken, Back!OrderTrue
<1>4. Back!RowOf(order).status \in Back!NotTaken
         => order.status \in {"FAILED", "CANCELLED", "EXPIRED"}
  BY <1>2 DEF Back!StatusFromOrder, Back!Recognised, Back!NotTaken
<1>5. Back!RowOf(order).status # "none"
  BY <1>2 DEF Back!StatusFromOrder, Back!Recognised
<1> QED
  BY <1>1, <1>3, <1>4, <1>5 DEF Back!Past, Back!OrderTrue

\* What a record says stays so, while no money is given back to the gateway and an order
\* that failed stays as it is.
LEMMA BackPastStays ==
    ASSUME NEW r \in Back!Row, Back!Past(r), order \in Back!Order, order' \in Back!Order,
           order.cap <= order'.cap, touched => touched',
           order.status \in {"FAILED", "CANCELLED", "EXPIRED"} /\ order.cap = 0 =>
             order'.status \in {"FAILED", "CANCELLED", "EXPIRED"} /\ order'.cap = 0
    PROVE  Back!Past(r)'
<1>1. r.cap \in Nat /\ order.cap \in Nat /\ order'.cap \in Nat
  BY DEF Back!Row, Back!Order
<1> QED
  BY <1>1 DEF Back!Past

\* A record that is not there says nothing.
LEMMA BackNoneIsPast == Back!None \in Back!Row /\ (order \in Back!Order => Back!Past(Back!None))
BY DEF Back!None, Back!Row, Back!Past, Back!Order, Back!Taken, Back!NotTaken

-----------------------------------------------------------------------------
\* The invariant holds at the start,
LEMMA BackInitIInv ==
    ASSUME Back!ConstantsFit, Back!Init
    PROVE  Back!IInv
<1>1. order \in Back!Order /\ order.cap = 0 /\ order.status \in {"NONE", "PENDING"}
  BY DEF Back!Init, Back!NoOrder, Back!Closed, Back!Order, Back!OrderStatus
<1>2. Back!NoOrder \in Back!Order /\ Back!NoOrder.status = "NONE" /\ Back!NoOrder.cap = 0
  BY DEF Back!NoOrder, Back!Order, Back!OrderStatus
<1>3. row \in Back!Row /\ row.status = "initiated" /\ row.cap = 0
  BY <1>2, BackRowFits DEF Back!Init, Back!RowOf, Back!Recognised
<1>4. Back!PageFits
  <2>1. attempts \in 0..MaxPolls
    BY DEF Back!Init, Back!ConstantsFit
  <2>2. Back!None \in Back!Row
    BY BackNoneIsPast
  <2> QED
    BY <2>1, <2>2 DEF Back!Init, Back!PageFits
<1>5. Back!RestFits
  <2>1. moves \in 0..MaxMoves /\ faults \in 0..FaultsOf["back"]
    BY DEF Back!Init, Back!ConstantsFit
  <2>2. Back!None \in Back!Row
    BY BackNoneIsPast
  <2> QED
    BY <1>1, <1>3, <2>1, <2>2 DEF Back!Init, Back!RestFits
<1>6. Back!OrderTrue
  BY <1>1 DEF Back!OrderTrue, Back!Recognised
<1>7. Back!Past(row)
  BY <1>1, <1>3 DEF Back!Past, Back!Taken, Back!NotTaken
<1>8. Back!Past(answer) /\ Back!Past(status) /\ Back!Past(printed)
  BY <1>1, BackNoneIsPast DEF Back!Init
<1>9. Back!AskingTrue /\ Back!SentOn
  BY DEF Back!Init, Back!AskingTrue, Back!SentOn, Back!None, Back!Taken
<1> QED
  BY <1>4, <1>5, <1>6, <1>7, <1>8, <1>9 DEF Back!IInv, Back!TypeOK

\* A change of the order that leaves what was said of it true.
LEMMA BackOrderKeeps ==
    ASSUME Back!IInv, order' \in Back!Order, Back!OrderTrue', moves' \in 0..MaxMoves,
           touched' \in BOOLEAN, touched => touched', order.cap <= order'.cap,
           order.status \in {"FAILED", "CANCELLED", "EXPIRED"} =>
             order'.status \in {"FAILED", "CANCELLED", "EXPIRED"} /\ order'.cap = 0,
           row' \in {row, Back!RowOf(order')},
           UNCHANGED <<Back!page, Back!tab, faults>>
    PROVE  Back!IInv'
<1>1. /\ Back!PageFits /\ Back!RestFits
      /\ Back!Past(row) /\ Back!Past(answer) /\ Back!Past(status) /\ Back!Past(printed)
      /\ Back!AskingTrue /\ Back!SentOn
  BY DEF Back!IInv, Back!TypeOK
<1>2. UNCHANGED <<poll, answer, attempts, status, err, away, receipt, printed, faults>>
  BY DEF Back!page, Back!tab
<1>3. Back!PageFits' /\ Back!AskingTrue' /\ Back!SentOn'
  BY <1>1, <1>2 DEF Back!PageFits, Back!AskingTrue, Back!SentOn
<1>4. Back!RestFits'
  BY <1>1, <1>2, BackRowFits DEF Back!RestFits
<1>5. \A r \in Back!Row : Back!Past(r) => Back!Past(r)'
  BY <1>1, BackPastStays DEF Back!RestFits
<1>6. Back!Past(answer)' /\ Back!Past(status)' /\ Back!Past(printed)'
  <2>1. answer \in Back!Row /\ status \in Back!Row /\ printed \in Back!Row
    BY <1>1 DEF Back!PageFits, Back!RestFits
  <2>2. \A r \in Back!Row : r.cap <= order.cap /\ Back!Past(r) => r.cap <= order'.cap
    BY <1>5 DEF Back!Past
  <2> QED
    BY <1>1, <1>2, <1>5, <2>1 DEF Back!Past
<1>7. Back!Past(row)'
  <2>1. ASSUME row' = row PROVE Back!Past(row)'
    BY <1>1, <1>5, <2>1 DEF Back!RestFits, Back!Past
  <2>2. ASSUME row' = Back!RowOf(order') PROVE Back!Past(row)'
    <3>1. Back!RowOf(order') \in Back!Row /\ Back!RowOf(order').cap = order'.cap
             /\ order'.cap \in Nat
      BY BackRowFits DEF Back!Order
    <3>2. Back!RowOf(order').status =
            IF order'.status \in Back!Recognised THEN Back!StatusFromOrder(order'.status)
            ELSE "initiated"
      BY DEF Back!RowOf
    <3>3. Back!RowOf(order').status \in Back!Taken => touched'
      BY <3>2 DEF Back!StatusFromOrder, Back!Recognised, Back!Taken, Back!OrderTrue
    <3>4. Back!RowOf(order').status \in Back!NotTaken
             => order'.status \in {"FAILED", "CANCELLED", "EXPIRED"}
      BY <3>2 DEF Back!StatusFromOrder, Back!Recognised, Back!NotTaken
    <3>5. Back!RowOf(order').status # "none"
      BY <3>2 DEF Back!StatusFromOrder, Back!Recognised
    <3> QED
      BY <2>2, <3>1, <3>3, <3>4, <3>5 DEF Back!Past, Back!OrderTrue
  <2> QED
    BY <2>1, <2>2
<1> QED
  BY <1>3, <1>4, <1>6, <1>7 DEF Back!IInv, Back!TypeOK
\* The gateway settles an order nobody has settled.
LEMMA BackSettlesKeeps ==
    ASSUME Back!ConstantsFit, Back!IInv, Back!GatewaySettles
    PROVE  Back!IInv'
<1>1. order \in Back!Order /\ Back!OrderTrue /\ moves \in 0..MaxMoves /\ touched \in BOOLEAN
  BY DEF Back!RestFits, Back!IInv, Back!TypeOK
<1>2. /\ order.cap = 0 /\ order.status \notin {"FAILED", "CANCELLED", "EXPIRED"}
      /\ UNCHANGED <<row, moves, Back!page, Back!tab, faults>>
  BY <1>1 DEF Back!GatewaySettles, Back!OrderTrue
<1>3. \/ order' \in {Back!Closed("FAILED"), Back!Closed("CANCELLED"), Back!Closed("EXPIRED")}
      \/ order' \in {Back!Paid("purchase", Total), Back!Paid("authorize", Total)} /\ touched'
  <2>1. ASSUME NEW mode \in {"purchase", "authorize"}
        PROVE  Back!Paid(mode, Total).auth > 0
    BY DEF Back!Paid, Back!ConstantsFit
  <2> QED
    BY <2>1 DEF Back!GatewaySettles
<1>4. order' \in Back!Order /\ order'.cap \in Nat
  BY <1>3 DEF Back!Closed, Back!Paid, Back!Order, Back!OrderStatus, Back!ConstantsFit
<1>5. Back!OrderTrue'
  BY <1>3 DEF Back!OrderTrue, Back!Closed, Back!Paid, Back!Recognised
<1>6. touched' \in BOOLEAN /\ (touched => touched')
  BY <1>1 DEF Back!GatewaySettles
<1> QED
  BY <1>1, <1>2, <1>4, <1>5, <1>6, BackOrderKeeps

\* The operator moves money that is there.
LEMMA BackMovesKeeps ==
    ASSUME Back!ConstantsFit, Back!IInv, NEW kind \in Back!Kinds, NEW amt \in 1..Total,
           Back!OperatorMoves(kind, amt)
    PROVE  Back!IInv'
<1>1. order \in Back!Order /\ Back!OrderTrue /\ moves \in 0..MaxMoves /\ touched \in BOOLEAN
  BY DEF Back!RestFits, Back!IInv, Back!TypeOK
<1>2. /\ amt \in Nat /\ amt > 0
      /\ order.status \in Back!OrderStatus /\ order.auth \in Nat /\ order.cap \in Nat
          /\ order.ref \in Nat
  BY <1>1 DEF Back!ConstantsFit, Back!Order
<1>3. /\ Back!Accepts(order, kind, amt) /\ order' = Back!After(order, kind, amt)
          /\ row' = Back!RowOf(order')
      /\ moves' \in 0..MaxMoves /\ touched' = touched /\ UNCHANGED <<Back!page, Back!tab, faults>>
  BY <1>1 DEF Back!OperatorMoves, Back!ConstantsFit
<1>4. CASE kind = "capture"
  <2>1. PICK s \in {"CAPTURED", "PARTIALLY_CAPTURED"} :
          order' = [order EXCEPT !.cap = @ + amt, !.status = s]
    BY <1>3, <1>4 DEF Back!After
  <2>2. order.status \in {"AUTHORIZED", "PARTIALLY_CAPTURED"}
    BY <1>3, <1>4 DEF Back!Accepts
  <2>3. order' \in Back!Order /\ order'.cap = order.cap + amt /\ order'.status = s
    <3>1. s \in Back!OrderStatus /\ order.cap + amt \in Nat
      BY <1>2 DEF Back!OrderStatus
    <3>2. order = [status |-> order.status, auth |-> order.auth, cap |-> order.cap,
             ref |-> order.ref]
      BY <1>1 DEF Back!Order
    <3>3. order' = [status |-> s, auth |-> order.auth, cap |-> order.cap + amt, ref |-> order.ref]
      BY <2>1, <3>2
    <3> QED
      BY <1>2, <3>1, <3>3 DEF Back!Order
  <2>4. Back!OrderTrue'
    BY <1>1, <1>3, <2>2, <2>3 DEF Back!OrderTrue, Back!Recognised
  <2> QED
    BY <1>1, <1>2, <1>3, <2>2, <2>3, <2>4, BackOrderKeeps
<1>5. CASE kind = "refund"
  <2>1. PICK s \in {"REFUNDED", "PARTIALLY_REFUNDED"} :
          order' = [order EXCEPT !.ref = @ + amt, !.status = s]
    BY <1>3, <1>5 DEF Back!After
  <2>2. order.ref + amt <= order.cap
    BY <1>3, <1>5 DEF Back!Accepts
  <2>3. order.status \notin {"NONE", "PENDING", "FAILED", "CANCELLED", "EXPIRED"}
    BY <1>1, <1>2, <2>2 DEF Back!OrderTrue
  <2>4. order' \in Back!Order /\ order'.cap = order.cap /\ order'.status = s
    <3>1. s \in Back!OrderStatus /\ order.ref + amt \in Nat
      BY <1>2 DEF Back!OrderStatus
    <3>2. order = [status |-> order.status, auth |-> order.auth, cap |-> order.cap,
             ref |-> order.ref]
      BY <1>1 DEF Back!Order
    <3>3. order' = [status |-> s, auth |-> order.auth, cap |-> order.cap, ref |-> order.ref + amt]
      BY <2>1, <3>2
    <3> QED
      BY <1>2, <3>1, <3>3 DEF Back!Order
  <2>5. touched
    BY <1>1, <1>2, <2>3 DEF Back!OrderTrue, Back!OrderStatus, Back!Recognised
  <2>6. Back!OrderTrue'
    BY <1>3, <2>4, <2>5 DEF Back!OrderTrue, Back!Recognised
  <2> QED
    BY <1>1, <1>2, <1>3, <2>3, <2>4, <2>6, BackOrderKeeps
<1>6. CASE kind = "void"
  <2>1. order' = Back!Closed("CANCELLED") /\ order.status = "AUTHORIZED"
    BY <1>3, <1>6 DEF Back!After, Back!Accepts
  <2>2. order.cap = 0 /\ order' \in Back!Order /\ order'.cap = 0 /\ order'.status = "CANCELLED"
    BY <1>1, <2>1 DEF Back!OrderTrue, Back!Closed, Back!Order, Back!OrderStatus
  <2>3. Back!OrderTrue'
    BY <2>2 DEF Back!OrderTrue, Back!Recognised
  <2> QED
    BY <1>1, <1>3, <2>1, <2>2, <2>3, BackOrderKeeps
<1> QED
  BY <1>4, <1>5, <1>6 DEF Back!Kinds

-----------------------------------------------------------------------------
\* A record that is read now is true now.
LEMMA BackRereadFits ==
    ASSUME Back!IInv
    PROVE  Back!Reread \in Back!Row /\ Back!Past(Back!Reread)
<1>1. order \in Back!Order /\ Back!OrderTrue /\ row \in Back!Row /\ Back!Past(row)
  BY DEF Back!RestFits, Back!IInv, Back!TypeOK
<1>2. Back!RowOf(order) \in Back!Row /\ Back!Past(Back!RowOf(order))
  BY <1>1, BackRowFits, BackRowIsPast
<1> QED
  BY <1>1, <1>2 DEF Back!Reread

\* The page asks and is answered.
LEMMA BackAskingKeeps ==
    ASSUME Back!ConstantsFit, Back!IInv, Back!Arrive \/ Back!Asking \/ Back!Continue
    PROVE  Back!IInv'
<1>1. /\ Back!PageFits /\ Back!RestFits /\ Back!OrderTrue
      /\ Back!Past(row) /\ Back!Past(answer) /\ Back!Past(status) /\ Back!Past(printed)
      /\ Back!AskingTrue /\ Back!SentOn
  BY DEF Back!IInv, Back!TypeOK
<1>2. Back!Reread \in Back!Row /\ Back!Past(Back!Reread)
  BY BackRereadFits
<1>3. UNCHANGED <<order, moves, touched, receipt, printed>> /\ row' \in {row, Back!Reread}
  BY DEF Back!Arrive, Back!Asking, Back!Serve, Back!ServeFails, Back!TakeStatus, Back!TakeFailure,
       Back!AskAgain, Back!Continue, Back!gateway, Back!tab
<1>4. faults' \in 0..FaultsOf["back"]
  BY <1>1 DEF Back!Arrive, Back!Asking, Back!Serve, Back!ServeFails, Back!TakeStatus,
       Back!TakeFailure, Back!AskAgain, Back!Continue,
     Back!RestFits, Back!ConstantsFit
<1>5. /\ answer' \in {answer, Back!Reread} /\ status' \in {status, answer}
      /\ err' \in BOOLEAN
  BY <1>1 DEF Back!Arrive, Back!Asking, Back!Serve, Back!ServeFails, Back!TakeStatus,
       Back!TakeFailure, Back!AskAgain, Back!Continue, Back!PageFits
<1>6. Back!RestFits'
  BY <1>1, <1>2, <1>3, <1>4 DEF Back!RestFits
<1>7. Back!OrderTrue'
  BY <1>1, <1>3 DEF Back!OrderTrue
<1>8. Back!Past(row)' /\ Back!Past(answer)' /\ Back!Past(status)' /\ Back!Past(printed)'
  BY <1>1, <1>2, <1>3, <1>5 DEF Back!Past
<1>9. Back!PageFits' /\ Back!AskingTrue' /\ Back!SentOn'
  <2>1. CASE Back!Arrive
    BY <1>1, <1>3, <1>5, <2>1 DEF Back!Arrive, Back!PageFits, Back!AskingTrue, Back!SentOn,
         Back!None, Back!Taken
  <2>2. CASE Back!Serve
    BY <1>1, <1>2, <1>3, <1>5, <2>2 DEF Back!Serve, Back!PageFits, Back!AskingTrue, Back!SentOn
  <2>3. CASE Back!ServeFails
    BY <1>1, <1>3, <1>5, <2>3 DEF Back!ServeFails, Back!PageFits, Back!AskingTrue, Back!SentOn
  <2>4. CASE Back!TakeStatus
    BY <1>1, <1>3, <1>5, <2>4 DEF Back!TakeStatus, Back!PageFits, Back!AskingTrue, Back!SentOn,
         Back!Taken
  <2>5. CASE Back!TakeFailure
    BY <1>1, <1>3, <1>5, <2>5 DEF Back!TakeFailure, Back!PageFits, Back!AskingTrue, Back!SentOn
  <2>6. CASE Back!AskAgain
    <3>1. attempts' \in 0..MaxPolls
      BY <1>1, <2>6 DEF Back!AskAgain, Back!PageFits, Back!AskingTrue, Back!ConstantsFit
    <3> QED
      BY <1>1, <1>3, <1>5, <2>6, <3>1 DEF Back!AskAgain, Back!PageFits, Back!AskingTrue, Back!SentOn
  <2>7. CASE Back!Continue
    <3>1. \/ away' = "success" /\ status.status \in Back!Taken
          \/ away' = "failure" /\ status.status \in Back!NotTaken
      BY <2>7 DEF Back!Continue, Back!ContinueTo
    <3> QED
      BY <1>1, <1>3, <1>5, <2>7, <3>1 DEF Back!Continue, Back!PageFits, Back!AskingTrue,
           Back!SentOn, Back!Past
  <2> QED
    BY <2>1, <2>2, <2>3, <2>4, <2>5, <2>6, <2>7 DEF Back!Asking
<1> QED
  BY <1>6, <1>7, <1>8, <1>9 DEF Back!IInv, Back!TypeOK

\* The receipt is read and closed.
LEMMA BackReceiptKeeps ==
    ASSUME Back!ConstantsFit, Back!IInv, Back!OpenReceipt \/ Back!ReceiptRead \/ Back!CloseReceipt
    PROVE  Back!IInv'
<1>1. /\ Back!PageFits /\ Back!RestFits /\ Back!OrderTrue
      /\ Back!Past(row) /\ Back!Past(answer) /\ Back!Past(status) /\ Back!Past(printed)
      /\ Back!AskingTrue /\ Back!SentOn
  BY DEF Back!IInv, Back!TypeOK
<1>2. Back!Reread \in Back!Row /\ Back!Past(Back!Reread) /\ Back!None \in Back!Row
         /\ Back!Past(Back!None)
  BY <1>1, BackRereadFits, BackNoneIsPast DEF Back!RestFits
<1>3. UNCHANGED <<order, moves, touched, Back!page, faults>> /\ row' \in {row, Back!Reread}
  BY DEF Back!OpenReceipt, Back!ReceiptRead, Back!CloseReceipt, Back!gateway
<1>4. /\ printed' \in {printed, row', Back!None}
      /\ receipt' \in {"none", "loading", "refused", "shown"}
  BY DEF Back!OpenReceipt, Back!ReceiptRead, Back!CloseReceipt
<1>5. Back!RestFits'
  BY <1>1, <1>2, <1>3, <1>4 DEF Back!RestFits
<1>6. Back!OrderTrue' /\ Back!PageFits' /\ Back!AskingTrue' /\ Back!SentOn'
  BY <1>1, <1>3 DEF Back!page, Back!OrderTrue, Back!PageFits, Back!AskingTrue, Back!SentOn
<1>7. Back!Past(row)' /\ Back!Past(answer)' /\ Back!Past(status)' /\ Back!Past(printed)'
  BY <1>1, <1>2, <1>3, <1>4 DEF Back!page, Back!Past
<1> QED
  BY <1>5, <1>6, <1>7 DEF Back!IInv, Back!TypeOK

\* and every step keeps it.
LEMMA BackNextIInv ==
    ASSUME Back!ConstantsFit, Back!IInv, [Back!Next]_(Back!vars)
    PROVE  Back!IInv'
<1>1. CASE UNCHANGED Back!vars
  BY <1>1 DEF Back!vars, Back!gateway, Back!page, Back!tab, Back!IInv, Back!TypeOK, Back!PageFits,
       Back!RestFits, Back!OrderTrue, Back!Past, Back!AskingTrue,
     Back!SentOn
<1> QED
  BY <1>1, BackSettlesKeeps, BackMovesKeeps, BackAskingKeeps, BackReceiptKeeps DEF Back!Next

\* What the invariant means.
LEMMA BackIInvImplies ==
    ASSUME Back!IInv
    PROVE  Back!NothingTakenTrue /\ Back!NeverReadsFailed /\ Back!RedirectTrue /\ Back!ReceiptTrue
           /\ Back!PaidTrue
<1>1. /\ order \in Back!Order /\ status \in Back!Row /\ printed \in Back!Row
      /\ Back!Past(status) /\ Back!Past(printed) /\ Back!AskingTrue /\ Back!SentOn
  BY DEF Back!PageFits, Back!RestFits, Back!IInv, Back!TypeOK
<1>2. Back!NothingTakenTrue
  BY <1>1 DEF Back!NothingTakenTrue, Back!SaysNothingTaken, Back!Past, Back!NotTaken
<1>3. Back!NeverReadsFailed
  BY <1>1 DEF Back!NeverReadsFailed, Back!Tone, Back!AskingTrue, Back!Taken
<1>4. Back!ReceiptTrue
  BY <1>1 DEF Back!ReceiptTrue, Back!ReceiptOffered, Back!Past
<1>5. Back!PaidTrue
  <2>1. printed.cap \in Nat /\ printed.ref \in Nat /\ order.cap \in Nat /\ printed.cap <= order.cap
    BY <1>1 DEF Back!Row, Back!Order, Back!Past
  <2> QED
    BY <2>1 DEF Back!PaidTrue, Back!AmountSaid
<1>6. Back!RedirectTrue
  BY <1>1 DEF Back!RedirectTrue, Back!SentOn
<1> QED
  BY <1>2, <1>3, <1>4, <1>5, <1>6

-----------------------------------------------------------------------------
(* The doors of an account (Lockout) *)

\* Records that are empty, grow older and are failed on.
LEMMA DoorEntriesFit ==
    ASSUME NEW who,
           Door(who)!ConstantsFit
    PROVE  /\ Door(who)!NoEntry \in Door(who)!Entry /\ Door(who)!NoEntry.failures = 0
           /\ \A e \in Door(who)!Entry : Door(who)!Aged(e) \in Door(who)!Entry
               /\ Door(who)!Aged(e).failures = e.failures
           /\ \A e \in Door(who)!Entry : Door(who)!Failed(e) \in Door(who)!Entry
<1>1. WindowOf[who] \in Nat \ {0} /\ DurationOf[who] \in Nat \ {0} /\ LimitOf[who] \in Nat \ {0}
  BY DEF Door!ConstantsFit
<1>2. Door(who)!NoEntry \in Door(who)!Entry /\ Door(who)!NoEntry.failures = 0
  BY <1>1 DEF Door!NoEntry, Door!Entry
<1>3. ASSUME NEW e \in Door(who)!Entry PROVE Door(who)!Aged(e) \in Door(who)!Entry
         /\ Door(who)!Aged(e).failures = e.failures
  <2>1. e.failures \in Nat /\ e.since \in 0..WindowOf[who] /\ e.until \in 0..DurationOf[who]
    BY DEF Door!Entry
  <2> QED
    BY <1>1, <2>1 DEF Door!Aged, Door!Entry
<1>4. ASSUME NEW e \in Door(who)!Entry PROVE Door(who)!Failed(e) \in Door(who)!Entry
  <2>1. e.failures \in Nat /\ e.since \in 0..WindowOf[who]
    BY DEF Door!Entry
  <2> QED
    BY <1>1, <2>1 DEF Door!Failed, Door!Entry
<1> QED
  BY <1>2, <1>3, <1>4

\* A record that is taken away.
LEMMA DoorClearFits ==
    ASSUME NEW who,
           Door(who)!ConstantsFit, NEW locks \in Door(who)!Locks, NEW door, NEW name
    PROVE  /\ Door(who)!Clear(locks, door, name) \in Door(who)!Locks
           /\ \A d \in DoorsOf[who], n \in Names :
               Door(who)!Clear(locks, door, name)[d][n] \in {Door(who)!NoEntry, locks[d][n]}
           /\ door \in DoorsOf[who] /\ name \in Names
               => Door(who)!Clear(locks, door, name)[door][name] = Door(who)!NoEntry
BY DoorEntriesFit DEF Door!Clear, Door!Locks

\* A handler's record.
LEMMA DoorJobsFit ==
    ASSUME NEW who,
           Door(who)!ConstantsFit
    PROVE  /\ Door(who)!Free \in Door(who)!Job /\ Door(who)!Free.step = "free"
           /\ \A j \in Door(who)!Job, step \in Door(who)!Steps :
                [j EXCEPT !.step = step] \in Door(who)!Job /\ [j EXCEPT !.step = step].step = step
<1>1. Door(who)!Free \in Door(who)!Job /\ Door(who)!Free.step = "free"
  BY DEF Door!Free, Door!Job, Door!Steps, Door!ConstantsFit
<1>2. ASSUME NEW j \in Door(who)!Job, NEW step \in Door(who)!Steps
      PROVE  [j EXCEPT !.step = step] \in Door(who)!Job /\ [j EXCEPT !.step = step].step = step
  BY DEF Door!Job
<1> QED
  BY <1>1, <1>2

-----------------------------------------------------------------------------
\* The library's notions, as the doors' module sees them.
LEMMA DoorCounts ==
    ASSUME NEW who, NEW S
    PROVE  /\ Door(who)!Cardinality(S) = Cardinality(S)
           /\ Door(who)!IsFiniteSet(S) <=> IsFiniteSet(S)
BY DEF Door!Cardinality, Cardinality, Door!IsFiniteSet, IsFiniteSet

\* The answers under way are finitely many, and fewer than the handlers once one is done.
LEMMA DoorUnderWayFinite ==
    ASSUME NEW who,
           Door(who)!ConstantsFit, NEW d, NEW n
    PROVE  /\ IsFiniteSet(Door(who)!UnderWay(d, n)) /\ Cardinality(Door(who)!UnderWay(d, n)) \in Nat
           /\ Cardinality(Handlers) \in Nat
           /\ \A S \in SUBSET Door(who)!UnderWay(d, n) :
                Cardinality(S) \in Nat /\ Cardinality(S) <= Cardinality(Door(who)!UnderWay(d, n))
           /\ \A h \in Door(who)!UnderWay(d, n) : \A S \in SUBSET (Door(who)!UnderWay(d, n) \ {h}) :
                Cardinality(S) \in Nat /\ Cardinality(S) < Cardinality(Door(who)!UnderWay(d, n))
           /\ \A h \in Handlers : \A S \in SUBSET (Handlers \ {h}) :
                Cardinality(S) \in Nat /\ Cardinality(S) < Cardinality(Handlers)
<1>1. IsFiniteSet(Handlers) /\ Door(who)!UnderWay(d, n) \in SUBSET Handlers
  BY DoorCounts DEF Door!ConstantsFit, Door!UnderWay
<1>2. ASSUME NEW T, IsFiniteSet(T)
      PROVE  /\ Cardinality(T) \in Nat
             /\ \A S \in SUBSET T : Cardinality(S) \in Nat /\ Cardinality(S) <= Cardinality(T)
             /\ \A h \in T : \A S \in SUBSET (T \ {h}) :
                  Cardinality(S) \in Nat /\ Cardinality(S) < Cardinality(T)
  <2>1. Cardinality(T) \in Nat
    BY <1>2, FS_CardinalityType
  <2>2. ASSUME NEW S \in SUBSET T PROVE Cardinality(S) \in Nat /\ Cardinality(S) <= Cardinality(T)
    BY <1>2, FS_Subset, FS_CardinalityType
  <2>3. ASSUME NEW h \in T, NEW S \in SUBSET (T \ {h})
        PROVE  Cardinality(S) \in Nat /\ Cardinality(S) < Cardinality(T)
    <3>1. IsFiniteSet(T \ {h}) /\ Cardinality(T \ {h}) = Cardinality(T) - 1
      BY <1>2, FS_RemoveElement
    <3>2. IsFiniteSet(S) /\ Cardinality(S) <= Cardinality(T \ {h})
      BY <3>1, FS_Subset
    <3>3. Cardinality(S) \in Nat /\ Cardinality(T \ {h}) \in Nat
      BY <3>1, <3>2, FS_CardinalityType
    <3> QED
      BY <2>1, <3>1, <3>2, <3>3
  <2> QED
    BY <2>1, <2>2, <2>3
<1>3. IsFiniteSet(Door(who)!UnderWay(d, n))
  BY <1>1, FS_Subset
<1> QED
  BY <1>1, <1>2, <1>3

\* A step that counts no mistake there.
LEMMA DoorNotFailed ==
    ASSUME NEW who,
           Door(who)!ConstantsFit, lock \in Door(who)!Locks, lock' \in Door(who)!Locks,
           NEW d \in DoorsOf[who], NEW n \in Names,
           Door(who)!Counted(d, n),
           \/ lock'[d][n].failures = 0
           \/ /\ lock'[d][n].failures = lock[d][n].failures
              /\ \/ lock[d][n].failures < LimitOf[who]
                 \/ Door(who)!UnderWay(d, n)' \subseteq Door(who)!UnderWay(d, n)
    PROVE  Door(who)!Counted(d, n)'
<1>1. lock[d][n].failures \in Nat /\ lock'[d][n].failures \in Nat /\ LimitOf[who] \in Nat \ {0}
  BY DEF Door!Locks, Door!Entry, Door!ConstantsFit
<1>2. Door(who)!UnderWay(d, n)' \in SUBSET Door(who)!UnderWay(d, n) =>
        /\ Cardinality(Door(who)!UnderWay(d, n)') \in Nat
        /\ Cardinality(Door(who)!UnderWay(d, n)') <= Cardinality(Door(who)!UnderWay(d, n))
  BY DoorUnderWayFinite
<1>3. Cardinality(Door(who)!UnderWay(d, n)) \in Nat /\ Cardinality(Handlers) \in Nat
  BY DoorUnderWayFinite
<1>4. Door(who)!Counted(d, n)' <=>
        (lock'[d][n].failures >= LimitOf[who] =>
           lock'[d][n].failures + Cardinality(Door(who)!UnderWay(d,
           n)') < LimitOf[who] + Cardinality(Handlers))
  BY DoorCounts DEF Door!Counted
<1>5. lock[d][n].failures >= LimitOf[who] =>
        lock[d][n].failures + Cardinality(Door(who)!UnderWay(d,
        n)) < LimitOf[who] + Cardinality(Handlers)
  BY DoorCounts DEF Door!Counted
<1> QED
  BY <1>1, <1>2, <1>3, <1>4, <1>5

\* A step that counts one: it is an answer that was under way, and is so no more.
LEMMA DoorOneFailed ==
    ASSUME NEW who,
           Door(who)!ConstantsFit, lock \in Door(who)!Locks, lock' \in Door(who)!Locks,
           NEW d \in DoorsOf[who], NEW n \in Names,
           Door(who)!Counted(d, n), NEW h \in Door(who)!UnderWay(d, n),
           Door(who)!UnderWay(d, n)' \subseteq Door(who)!UnderWay(d, n) \ {h},
           lock'[d][n].failures \in {1, lock[d][n].failures + 1}
    PROVE  Door(who)!Counted(d, n)'
<1>1. lock[d][n].failures \in Nat /\ lock'[d][n].failures \in Nat /\ LimitOf[who] \in Nat \ {0}
  BY DEF Door!Locks, Door!Entry, Door!ConstantsFit
<1>2. /\ Cardinality(Door(who)!UnderWay(d, n)') \in Nat
      /\ Cardinality(Door(who)!UnderWay(d, n)') < Cardinality(Door(who)!UnderWay(d, n))
  BY DoorUnderWayFinite
<1>3. Cardinality(Door(who)!UnderWay(d, n)') < Cardinality(Handlers)
  <2>1. h \in Handlers /\ Door(who)!UnderWay(d, n)' \in SUBSET (Handlers \ {h})
    BY DEF Door!UnderWay
  <2> QED
    BY <2>1, DoorUnderWayFinite
<1>4. Cardinality(Door(who)!UnderWay(d, n)) \in Nat /\ Cardinality(Handlers) \in Nat
  BY DoorUnderWayFinite
<1>5. Door(who)!Counted(d, n)' <=>
        (lock'[d][n].failures >= LimitOf[who] =>
           lock'[d][n].failures + Cardinality(Door(who)!UnderWay(d,
           n)') < LimitOf[who] + Cardinality(Handlers))
  BY DoorCounts DEF Door!Counted
<1>6. lock[d][n].failures >= LimitOf[who] =>
        lock[d][n].failures + Cardinality(Door(who)!UnderWay(d,
        n)) < LimitOf[who] + Cardinality(Handlers)
  BY DoorCounts DEF Door!Counted
<1> QED
  BY <1>1, <1>2, <1>3, <1>4, <1>5, <1>6

\* What the count means.
LEMMA DoorCountedBounds ==
    ASSUME NEW who,
           Door(who)!ConstantsFit, lock \in Door(who)!Locks, Door(who)!FailuresCounted
    PROVE  Door(who)!FailuresBounded
<1> SUFFICES ASSUME NEW d \in DoorsOf[who], NEW n \in Names
             PROVE  lock[d][n].failures < LimitOf[who] + Cardinality(Handlers)
  BY DoorCounts DEF Door!FailuresBounded
<1>1. lock[d][n].failures \in Nat /\ LimitOf[who] \in Nat \ {0}
  BY DEF Door!Locks, Door!Entry, Door!ConstantsFit
<1>2. Cardinality(Door(who)!UnderWay(d, n)) \in Nat /\ Cardinality(Handlers) \in Nat
  BY DoorUnderWayFinite
<1>3. lock[d][n].failures >= LimitOf[who] =>
        lock[d][n].failures + Cardinality(Door(who)!UnderWay(d,
        n)) < LimitOf[who] + Cardinality(Handlers)
  BY DoorCounts DEF Door!FailuresCounted, Door!Counted
<1> QED
  BY <1>1, <1>2, <1>3

-----------------------------------------------------------------------------
\* The invariant holds at the start.
LEMMA DoorInitIInv ==
    ASSUME NEW who,
           Door(who)!ConstantsFit, Door(who)!Init
    PROVE  Door(who)!IInv
<1>1. lock \in Door(who)!Locks /\ \A d \in DoorsOf[who], n \in Names : lock[d][n].failures = 0
  BY DoorEntriesFit DEF Door!Init, Door!Locks
<1>2. job \in [Handlers -> Door(who)!Job] /\ \A h \in Handlers : job[h].step = "free"
  BY DoorJobsFit DEF Door!Init
<1>3. password \in 1..ResetsOf[who] + 1
  BY DEF Door!Init, Door!ConstantsFit
<1>4. Door(who)!TypeOK
  BY <1>1, <1>2, <1>3 DEF Door!Init, Door!TypeOK
<1>5. Door(who)!FailuresCounted
  <2>1. LimitOf[who] \in Nat /\ LimitOf[who] > 0
    BY DEF Door!ConstantsFit
  <2> QED
    BY <1>1, <2>1 DEF Door!Counted, Door!FailuresCounted
<1>6. Door(who)!RecoveredIsOut /\ Door(who)!PassedKnown /\ Door(who)!PasswordRead
  BY <1>2 DEF Door!Init, Door!RecoveredIsOut, Door!PassedKnown, Door!Passed, Door!PasswordRead,
       Door!OneRead
<1> QED
  BY <1>4, <1>5, <1>6 DEF Door!IInv

\* A step of the handler h: the others stay where they are.
LEMMA DoorStepCounted ==
    ASSUME NEW who,
           Door(who)!ConstantsFit, Door(who)!IInv, NEW h \in Handlers, lock' \in Door(who)!Locks,
           \A g \in Handlers : g # h => job'[g] = job[g],
           job'[h].step \notin {"open", "wrong"},
           \A d \in DoorsOf[who], n \in Names : lock'[d][n] \in {Door(who)!NoEntry, lock[d][n]}
    PROVE  Door(who)!FailuresCounted'
<1> SUFFICES ASSUME NEW d \in DoorsOf[who], NEW n \in Names PROVE Door(who)!Counted(d, n)'
  BY DoorCounts DEF Door!FailuresCounted, Door!Counted
<1>1. Door(who)!Counted(d, n) /\ lock \in Door(who)!Locks
  BY DEF Door!IInv, Door!FailuresCounted, Door!TypeOK
<1>2. Door(who)!UnderWay(d, n)' \subseteq Door(who)!UnderWay(d, n)
  BY DEF Door!UnderWay
<1> QED
  BY <1>1, <1>2, DoorEntriesFit, DoorNotFailed

\* What becomes of a handler's record.
LEMMA DoorStepsTo ==
    ASSUME NEW who,
           NEW h \in Handlers, NEW step \in Door(who)!Steps, job \in [Handlers -> Door(who)!Job],
           Door(who)!Goes(h, step)
    PROVE  /\ job' \in [Handlers -> Door(who)!Job]
           /\ job'[h].step = step /\ job'[h].door = job[h].door
           /\ job'[h].name = job[h].name /\ job'[h].read = job[h].read
           /\ \A g \in Handlers : g # h => job'[g] = job[g]
<1>1. job[h] \in Door(who)!Job /\ job' = [job EXCEPT ![h] = [job[h] EXCEPT !.step = step]]
  BY DEF Door!Goes
<1>2. [job[h] EXCEPT !.step = step] \in Door(who)!Job
  BY <1>1 DEF Door!Job
<1> QED
  BY <1>1, <1>2 DEF Door!Job

\* A handler is done,
LEMMA DoorIsDone ==
    ASSUME NEW who,
           Door(who)!ConstantsFit, NEW h \in Handlers, job \in [Handlers -> Door(who)!Job],
           Door(who)!Done(h)
    PROVE  /\ job' \in [Handlers -> Door(who)!Job] /\ job'[h].step = "free"
           /\ \A g \in Handlers : g # h => job'[g] = job[g]
BY DoorJobsFit DEF Door!Done

\* takes up a request,
LEMMA DoorIsOpened ==
    ASSUME NEW who,
           Door(who)!ConstantsFit, Door(who)!TypeOK, NEW h \in Handlers, NEW door \in DoorsOf[who],
           NEW name \in Names,
           Door(who)!Open(h, door, name)
    PROVE  /\ job' \in [Handlers -> Door(who)!Job]
           /\ job'[h].step = "open" /\ job'[h].door = door /\ job'[h].name = name
           /\ \A g \in Handlers : g # h => job'[g] = job[g]
<1> DEFINE j == [door |-> door, name |-> name, step |-> "open", read |-> 0]
<1>1. j \in Door(who)!Job
  BY DEF Door!Job, Door!Steps, Door!ConstantsFit
<1>2. job \in [Handlers -> Door(who)!Job] /\ job' = [job EXCEPT ![h] = j]
  BY DEF Door!Open, Door!TypeOK
<1> QED
  BY <1>1, <1>2

\* or has looked at what was typed.
LEMMA DoorIsChecked ==
    ASSUME NEW who,
           Door(who)!ConstantsFit, Door(who)!TypeOK, NEW h \in Handlers,
           NEW step \in {"wrong", "right"}, Door(who)!Check(h, step)
    PROVE  /\ job' \in [Handlers -> Door(who)!Job]
           /\ job'[h].step = step /\ job'[h].read = password
           /\ job'[h].door = job[h].door /\ job'[h].name = job[h].name
           /\ \A g \in Handlers : g # h => job'[g] = job[g]
<1>1. /\ job \in [Handlers -> Door(who)!Job] /\ job[h] \in Door(who)!Job /\ step \in Door(who)!Steps
      /\ password \in 0..ResetsOf[who] + 1
  BY DEF Door!ConstantsFit, Door!Steps, Door!TypeOK
<1>2. PICK r : r = [job[h] EXCEPT !.step = step]
  OBVIOUS
<1>3. r \in Door(who)!Job /\ r.step = step /\ r.door = job[h].door /\ r.name = job[h].name
  BY <1>1, <1>2 DEF Door!Job
<1>4. PICK q : q = [r EXCEPT !.read = password]
  OBVIOUS
<1>5. /\ q \in Door(who)!Job /\ q.step = step /\ q.read = password
      /\ q.door = job[h].door /\ q.name = job[h].name
  BY <1>1, <1>3, <1>4 DEF Door!Job
<1>6. job' = [job EXCEPT ![h] = q]
  BY <1>1, <1>2, <1>4 DEF Door!Check
<1> QED
  BY <1>1, <1>5, <1>6

-----------------------------------------------------------------------------
\* Nobody comes in with an older password while nothing of a recovery is done.
LEMMA DoorOutKeeps ==
    ASSUME NEW who,
           Door(who)!IInv, NEW h \in Handlers, live' \subseteq live, UNCHANGED <<password,
           crossed>>,
           \A g \in Handlers : g # h => job'[g] = job[g],
           ~Door(who)!At(h, "recovery", "reset"), Door(who)!Passed(h)' => Door(who)!Passed(h),
           Door(who)!OneRead(h)'
    PROVE  Door(who)!RecoveredIsOut' /\ Door(who)!PassedKnown' /\ Door(who)!PasswordRead'
<1>1. \A g \in Handlers : Door(who)!At(g, "recovery", "reset")
         => Door(who)!At(g, "recovery", "reset")'
  BY DEF Door!At
<1>2. \A g \in Handlers : Door(who)!Passed(g)' => Door(who)!Passed(g)
  BY DEF Door!Passed
<1>3. Door(who)!PasswordRead'
  BY DEF Door!IInv, Door!PasswordRead, Door!OneRead
<1> QED
  BY <1>1, <1>2, <1>3 DEF Door!IInv, Door!RecoveredIsOut, Door!PassedKnown

\* The request is taken up, and what was typed is looked at.
LEMMA DoorArrivalKeeps ==
    ASSUME NEW who,
           Door(who)!ConstantsFit, Door(who)!IInv, NEW h \in Handlers,
           \/ \E door \in DoorsOf[who], name \in Names : Door(who)!Open(h, door, name)
           \/ \E step \in {"wrong", "right"} : Door(who)!Check(h, step)
           \/ Door(who)!TurnAway(h)
    PROVE  Door(who)!IInv'
<1>1. Door(who)!TypeOK /\ lock \in Door(who)!Locks /\ job \in [Handlers -> Door(who)!Job]
  BY DEF Door!IInv, Door!TypeOK
<1>2. ASSUME NEW door \in DoorsOf[who], NEW name \in Names, Door(who)!Open(h, door, name)
         PROVE Door(who)!IInv'
  <2>1. /\ job' \in [Handlers -> Door(who)!Job]
        /\ job'[h].step = "open" /\ job'[h].door = door /\ job'[h].name = name
        /\ \A g \in Handlers : g # h => job'[g] = job[g]
    BY <1>1, <1>2, DoorIsOpened
  <2>2. job[h].step = "free" /\ UNCHANGED <<password, live, crossed>>
    BY <1>2 DEF Door!Open
  <2>3. lock' \in Door(who)!Locks /\ \A d \in DoorsOf[who], n \in Names :
           lock'[d][n] \in {Door(who)!NoEntry, lock[d][n]}
    BY <1>1, <1>2, DoorClearFits DEF Door!Open
  <2>4. Door(who)!TypeOK'
    BY <1>1, <2>1, <2>2, <2>3 DEF Door!TypeOK
  <2>5. ASSUME NEW d \in DoorsOf[who], NEW n \in Names PROVE Door(who)!Counted(d, n)'
    <3>1. Door(who)!Counted(d, n)
      BY DEF Door!IInv, Door!FailuresCounted
    <3>2. CASE d = door /\ n = name
      <4>1. \/ lock'[d][n].failures = 0
            \/ lock'[d][n] = lock[d][n] /\ ~(lock[d][n].failures >= LimitOf[who])
        <5>1. lock' = IF lock[d][n].failures >= LimitOf[who] THEN Door(who)!Clear(lock, d, n)
                 ELSE lock
          BY <1>2, <3>2 DEF Door!Open
        <5>2. Door(who)!Clear(lock, d, n)[d][n] = Door(who)!NoEntry
          BY <1>1, DoorClearFits
        <5>3. Door(who)!NoEntry.failures = 0
          BY DoorEntriesFit
        <5>4. CASE lock[d][n].failures >= LimitOf[who]
          <6>1. lock'[d][n] = Door(who)!NoEntry
            BY <5>1, <5>2, <5>4
          <6> QED
            BY <5>3, <6>1
        <5>5. CASE ~(lock[d][n].failures >= LimitOf[who])
          BY <5>1, <5>5
        <5> QED
          BY <5>4, <5>5
      <4>2. lock[d][n].failures \in Nat /\ LimitOf[who] \in Nat
        BY <1>1 DEF Door!Locks, Door!Entry, Door!ConstantsFit
      <4> QED
        BY <1>1, <2>3, <3>1, <4>1, <4>2, DoorNotFailed
    <3>3. CASE ~(d = door /\ n = name)
      <4>1. Door(who)!UnderWay(d, n)' \subseteq Door(who)!UnderWay(d, n)
        BY <2>1, <3>3 DEF Door!UnderWay
      <4> QED
        BY <1>1, <2>3, <3>1, <4>1, DoorEntriesFit, DoorNotFailed
    <3> QED
      BY <3>2, <3>3
  <2>6. Door(who)!RecoveredIsOut' /\ Door(who)!PassedKnown' /\ Door(who)!PasswordRead'
    BY <2>1, <2>2, DoorOutKeeps DEF Door!At, Door!Passed, Door!OneRead
  <2> QED
    BY <2>4, <2>5, <2>6 DEF Door!IInv, Door!FailuresCounted
<1>3. ASSUME NEW step \in {"wrong", "right"}, Door(who)!Check(h, step) PROVE Door(who)!IInv'
  <2>1. /\ job' \in [Handlers -> Door(who)!Job]
        /\ job'[h].step = step /\ job'[h].read = password
        /\ job'[h].door = job[h].door /\ job'[h].name = job[h].name
        /\ \A g \in Handlers : g # h => job'[g] = job[g]
    BY <1>1, <1>3, DoorIsChecked
  <2>2. job[h].step = "open" /\ UNCHANGED <<lock, password, live, crossed>>
    BY <1>3 DEF Door!Check
  <2>3. Door(who)!TypeOK'
    BY <1>1, <2>1, <2>2 DEF Door!TypeOK
  <2>4. ASSUME NEW d \in DoorsOf[who], NEW n \in Names PROVE Door(who)!Counted(d, n)'
    <3>1. Door(who)!Counted(d, n) /\ Door(who)!UnderWay(d, n)' \subseteq Door(who)!UnderWay(d, n)
      BY <2>1, <2>2 DEF Door!IInv, Door!UnderWay, Door!FailuresCounted
    <3> QED
      BY <1>1, <2>2, <3>1, DoorNotFailed
  <2>5. Door(who)!OneRead(h)'
    <3>1. password \in 1..password
      BY <1>1 DEF Door!ConstantsFit, Door!TypeOK
    <3> QED
      BY <2>1, <2>2, <3>1 DEF Door!OneRead
  <2>6. Door(who)!RecoveredIsOut' /\ Door(who)!PassedKnown' /\ Door(who)!PasswordRead'
    BY <2>1, <2>2, <2>5, DoorOutKeeps DEF Door!At, Door!Passed
  <2> QED
    BY <2>3, <2>4, <2>6 DEF Door!IInv, Door!FailuresCounted
<1>4. CASE Door(who)!TurnAway(h)
  <2>1. /\ job' \in [Handlers -> Door(who)!Job] /\ job'[h].step = "free"
        /\ \A g \in Handlers : g # h => job'[g] = job[g]
    BY <1>1, <1>4, DoorIsDone DEF Door!TurnAway
  <2>2. job[h].step = "right" /\ UNCHANGED <<lock, password, live, crossed>>
    BY <1>4 DEF Door!TurnAway
  <2>3. Door(who)!TypeOK'
    BY <1>1, <2>1, <2>2 DEF Door!TypeOK
  <2>4. Door(who)!FailuresCounted'
    BY <1>1, <2>1, <2>2, DoorStepCounted
  <2>5. Door(who)!RecoveredIsOut' /\ Door(who)!PassedKnown' /\ Door(who)!PasswordRead'
    BY <2>1, <2>2, DoorOutKeeps DEF Door!At, Door!Passed, Door!OneRead
  <2> QED
    BY <2>3, <2>4, <2>5 DEF Door!IInv
<1> QED
  BY <1>2, <1>3, <1>4

\* A wrong answer is counted.
LEMMA DoorFailKeeps ==
    ASSUME NEW who,
           Door(who)!ConstantsFit, Door(who)!IInv, NEW h \in Handlers, Door(who)!Fail(h)
    PROVE  Door(who)!IInv'
<1>1. Door(who)!TypeOK /\ lock \in Door(who)!Locks /\ job \in [Handlers -> Door(who)!Job]
         /\ job[h] \in Door(who)!Job
  BY DEF Door!IInv, Door!TypeOK
<1>2. /\ job' \in [Handlers -> Door(who)!Job] /\ job'[h].step = "free"
      /\ \A g \in Handlers : g # h => job'[g] = job[g]
  BY <1>1, DoorIsDone DEF Door!Fail
<1>3. job[h].step = "wrong" /\ UNCHANGED <<password, live, crossed>>
  BY DEF Door!Fail
<1> DEFINE door == job[h].door
           name == job[h].name
<1>4. lock' = [lock EXCEPT ![door][name] = Door(who)!Failed(lock[door][name])]
  BY DEF Door!Fail
<1>5. name \in Names
  BY <1>1 DEF Door!Job
<1>6. lock' \in Door(who)!Locks
  BY <1>1, <1>4, <1>5, DoorEntriesFit DEF Door!Locks
<1>7. Door(who)!TypeOK'
  BY <1>1, <1>2, <1>3, <1>6 DEF Door!TypeOK
<1>8. ASSUME NEW d \in DoorsOf[who], NEW n \in Names PROVE Door(who)!Counted(d, n)'
  <2>1. Door(who)!Counted(d, n)
    BY DEF Door!IInv, Door!FailuresCounted
  <2>2. CASE d = door /\ n = name
    <3>1. h \in Door(who)!UnderWay(d, n)
             /\ Door(who)!UnderWay(d, n)' \subseteq Door(who)!UnderWay(d, n) \ {h}
      BY <1>2, <1>3, <2>2 DEF Door!UnderWay
    <3>2. lock'[d][n] = Door(who)!Failed(lock[d][n])
      BY <1>1, <1>4, <2>2 DEF Door!Locks
    <3>3. lock'[d][n].failures \in {1, lock[d][n].failures + 1}
      BY <3>2 DEF Door!Failed
    <3> QED
      BY <1>1, <1>6, <2>1, <3>1, <3>3, DoorOneFailed
  <2>3. CASE ~(d = door /\ n = name)
    <3>1. lock'[d][n] = lock[d][n]
      BY <1>1, <1>4, <2>3 DEF Door!Locks
    <3>2. Door(who)!UnderWay(d, n)' \subseteq Door(who)!UnderWay(d, n)
      BY <1>2 DEF Door!UnderWay
    <3> QED
      BY <1>1, <1>6, <2>1, <3>1, <3>2, DoorNotFailed
  <2> QED
    BY <2>2, <2>3
<1>9. Door(who)!RecoveredIsOut' /\ Door(who)!PassedKnown' /\ Door(who)!PasswordRead'
  BY <1>2, <1>3, DoorOutKeeps DEF Door!At, Door!Passed, Door!OneRead
<1> QED
  BY <1>7, <1>8, <1>9 DEF Door!IInv, Door!FailuresCounted

\* A sign-in goes on from the right password.
LEMMA DoorSignInKeeps ==
    ASSUME NEW who,
           Door(who)!ConstantsFit, Door(who)!IInv, NEW h \in Handlers, Door(who)!SignInStep(h)
    PROVE  Door(who)!IInv'
<1>1. Door(who)!TypeOK /\ lock \in Door(who)!Locks /\ job \in [Handlers -> Door(who)!Job]
         /\ job[h] \in Door(who)!Job
      /\ password \in 1..ResetsOf[who] + 1 /\ live \subseteq 1..ResetsOf[who] + 1
  BY DEF Door!IInv, Door!TypeOK
<1>2. /\ job[h].step \in {"right", "proved", "issue"} /\ job[h].door = "signIn"
      /\ UNCHANGED <<password, crossed>>
      /\ \/ Door(who)!Goes(h, "proved") /\ job[h].step = "right"
         \/ Door(who)!Goes(h, "issue") /\ job[h].step = "proved"
         \/ Door(who)!Done(h)
  <2>1. CASE Door(who)!Succeed(h)
    BY <2>1 DEF Door!Succeed, Door!At
  <2>2. CASE Door(who)!SessionActive(h)
    BY <2>2 DEF Door!SessionActive, Door!At
  <2>3. CASE Door(who)!NoSession(h)
    BY <2>3 DEF Door!NoSession, Door!At
  <2>4. CASE Door(who)!Force(h)
    BY <2>4 DEF Door!Force, Door!At
  <2>5. CASE Door(who)!Issue(h)
    BY <2>5 DEF Door!Issue, Door!At
  <2> QED
    BY <2>1, <2>2, <2>3, <2>4, <2>5 DEF Door!SignInStep
<1>3. /\ job' \in [Handlers -> Door(who)!Job] /\ job'[h].step \in {"proved", "issue", "free"}
      /\ \A g \in Handlers : g # h => job'[g] = job[g]
      /\ Door(who)!Passed(h)' => Door(who)!Passed(h)
      /\ Door(who)!OneRead(h)'
  <2>1. "proved" \in Door(who)!Steps /\ "issue" \in Door(who)!Steps
    BY DEF Door!Steps
  <2>2. job[h].read \in 1..password
    BY <1>2 DEF Door!IInv, Door!PasswordRead, Door!OneRead
  <2>3. CASE Door(who)!Done(h)
    BY <1>1, <2>3, DoorIsDone DEF Door!Passed, Door!OneRead
  <2>4. ASSUME NEW step \in {"proved", "issue"}, Door(who)!Goes(h, step)
        PROVE  /\ job' \in [Handlers -> Door(who)!Job] /\ job'[h].step = step
               /\ job'[h].door = job[h].door /\ job'[h].read = job[h].read
               /\ \A g \in Handlers : g # h => job'[g] = job[g]
    BY <1>1, <2>1, <2>4, DoorStepsTo
  <2>5. ASSUME NEW step \in {"proved", "issue"}, Door(who)!Goes(h, step)
        PROVE  (Door(who)!Passed(h)' => Door(who)!Passed(h)) /\ Door(who)!OneRead(h)'
    BY <1>2, <2>2, <2>4, <2>5 DEF Door!Passed, Door!OneRead
  <2> QED
    BY <1>2, <2>3, <2>4, <2>5
<1>4. lock' \in Door(who)!Locks /\ \A d \in DoorsOf[who], n \in Names :
         lock'[d][n] \in {Door(who)!NoEntry, lock[d][n]}
  <2>1. lock' \in {lock, Door(who)!Clear(lock, "signIn", job[h].name)}
    BY DEF Door!SignInStep, Door!Succeed, Door!SessionActive, Door!NoSession, Door!Force, Door!Issue
  <2> QED
    BY <1>1, <2>1, DoorClearFits
<1>5. Door(who)!FailuresCounted'
  BY <1>3, <1>4, DoorStepCounted
<1>6. CASE live' \subseteq live
  <2>1. Door(who)!TypeOK'
    BY <1>1, <1>2, <1>3, <1>4, <1>6 DEF Door!TypeOK
  <2>2. Door(who)!RecoveredIsOut' /\ Door(who)!PassedKnown' /\ Door(who)!PasswordRead'
    BY <1>2, <1>3, <1>6, DoorOutKeeps DEF Door!At
  <2> QED
    BY <1>5, <2>1, <2>2 DEF Door!IInv
<1>7. CASE Door(who)!Issue(h)
  <2>1. live' = live \cup {job[h].read} /\ job[h].step = "issue"
    BY <1>7 DEF Door!Issue, Door!At
  <2>2. \A g \in Handlers : Door(who)!At(g, "recovery", "reset")
           => Door(who)!At(g, "recovery", "reset")'
    BY <1>2, <1>3, <2>1 DEF Door!At
  <2>3. \A g \in Handlers : Door(who)!Passed(g)' => Door(who)!Passed(g)
    BY <1>2, <1>3 DEF Door!Passed
  <2>4. Door(who)!PassedKnown' /\ Door(who)!PasswordRead'
    BY <1>2, <1>3, <2>2, <2>3 DEF Door!IInv, Door!PassedKnown, Door!PasswordRead, Door!OneRead
  <2>5. job[h].read # password => Door(who)!Passed(h)
    BY <1>2 DEF Door!Passed
  <2>6. Door(who)!RecoveredIsOut'
    BY <1>2, <2>1, <2>2, <2>5 DEF Door!IInv, Door!RecoveredIsOut, Door!PassedKnown
  <2>7. Door(who)!TypeOK'
    <3>1. job[h].read \in 1..ResetsOf[who] + 1
      BY <1>1, <2>1 DEF Door!IInv, Door!PasswordRead, Door!OneRead, Door!ConstantsFit
    <3> QED
      BY <1>1, <1>2, <1>3, <1>4, <2>1, <3>1 DEF Door!TypeOK
  <2> QED
    BY <1>5, <2>4, <2>6, <2>7 DEF Door!IInv
<1> QED
  <2>1. ~Door(who)!Issue(h) => live' \subseteq live
    BY DEF Door!SignInStep, Door!Succeed, Door!SessionActive, Door!NoSession, Door!Force
  <2> QED
    BY <1>6, <1>7, <2>1

\* A recovery goes on from the right answers.
LEMMA DoorRecoverKeeps ==
    ASSUME NEW who,
           Door(who)!ConstantsFit, Door(who)!IInv, NEW h \in Handlers, Door(who)!RecoverStep(h)
    PROVE  Door(who)!IInv'
<1>1. /\ Door(who)!TypeOK /\ lock \in Door(who)!Locks /\ job \in [Handlers -> Door(who)!Job]
          /\ job[h] \in Door(who)!Job
      /\ password \in 1..ResetsOf[who] + 1 /\ live \subseteq 1..ResetsOf[who] + 1
          /\ crossed \in BOOLEAN
      /\ ResetsOf[who] \in Nat
  BY DEF Door!IInv, Door!ConstantsFit, Door!TypeOK
<1>2. "reset" \in Door(who)!Steps /\ "ended" \in Door(who)!Steps
  BY DEF Door!Steps
<1>3. ASSUME Door(who)!SetPassword(h) PROVE Door(who)!IInv'
  <2>1. /\ password' = password + 1 /\ password <= ResetsOf[who] /\ UNCHANGED <<lock, live,
            crossed>>
        /\ job[h].door = "recovery" /\ Door(who)!Goes(h, "reset")
    BY <1>3 DEF Door!SetPassword, Door!At
  <2>2. /\ job' \in [Handlers -> Door(who)!Job] /\ job'[h].step = "reset"
            /\ job'[h].door = "recovery"
        /\ \A g \in Handlers : g # h => job'[g] = job[g]
    BY <1>1, <1>2, <2>1, DoorStepsTo
  <2>3. Door(who)!TypeOK'
    BY <1>1, <2>1, <2>2 DEF Door!TypeOK
  <2>4. Door(who)!FailuresCounted'
    BY <1>1, <2>1, <2>2, DoorStepCounted
  <2>5. Door(who)!RecoveredIsOut' /\ Door(who)!PassedKnown'
    BY <2>2 DEF Door!RecoveredIsOut, Door!PassedKnown, Door!At
  <2>6. Door(who)!PasswordRead'
    <3>1. \A n \in 1..password : n \in 1..password'
      BY <1>1, <2>1
    <3> QED
      BY <2>2, <3>1 DEF Door!IInv, Door!PasswordRead, Door!OneRead
  <2> QED
    BY <2>3, <2>4, <2>5, <2>6 DEF Door!IInv
<1>4. ASSUME Door(who)!RevokeUser(h) PROVE Door(who)!IInv'
  <2>1. /\ live' = {} /\ UNCHANGED <<lock, password>> /\ Door(who)!Goes(h, "ended")
        /\ crossed' = (crossed \/ \E g \in Handlers : Door(who)!Passed(g))
    BY <1>4 DEF Door!RevokeUser
  <2>2. /\ job' \in [Handlers -> Door(who)!Job] /\ job'[h].step = "ended"
        /\ \A g \in Handlers : g # h => job'[g] = job[g]
    BY <1>1, <1>2, <2>1, DoorStepsTo
  <2>3. crossed' \in BOOLEAN
    BY <2>1
  <2>4. Door(who)!TypeOK'
    BY <1>1, <2>1, <2>2, <2>3 DEF Door!TypeOK
  <2>5. Door(who)!FailuresCounted'
    BY <1>1, <2>1, <2>2, DoorStepCounted
  <2>6. \A g \in Handlers : Door(who)!Passed(g)' => Door(who)!Passed(g)
    BY <2>1, <2>2 DEF Door!Passed
  <2>7. Door(who)!RecoveredIsOut' /\ Door(who)!PassedKnown'
    BY <2>1, <2>6 DEF Door!RecoveredIsOut, Door!PassedKnown
  <2>8. Door(who)!PasswordRead'
    BY <2>1, <2>2 DEF Door!IInv, Door!PasswordRead, Door!OneRead
  <2> QED
    BY <2>4, <2>5, <2>7, <2>8 DEF Door!IInv
<1>5. ASSUME Door(who)!Unlock(h) PROVE Door(who)!IInv'
  <2>1. /\ lock' = Door(who)!Clear(Door(who)!Clear(lock, "recovery", job[h].name), "signIn",
            Username)
        /\ UNCHANGED <<password, live, crossed>> /\ Door(who)!Done(h)
            /\ ~Door(who)!At(h, "recovery", "reset")
    BY <1>5 DEF Door!Unlock, Door!At
  <2>2. /\ job' \in [Handlers -> Door(who)!Job] /\ job'[h].step = "free"
        /\ \A g \in Handlers : g # h => job'[g] = job[g]
    BY <1>1, <2>1, DoorIsDone
  <2>3. lock' \in Door(who)!Locks /\ \A d \in DoorsOf[who], n \in Names :
           lock'[d][n] \in {Door(who)!NoEntry, lock[d][n]}
    BY <1>1, <2>1, DoorClearFits
  <2>4. Door(who)!TypeOK'
    BY <1>1, <2>1, <2>2, <2>3 DEF Door!TypeOK
  <2>5. Door(who)!FailuresCounted'
    BY <1>1, <2>2, <2>3, DoorStepCounted
  <2>6. Door(who)!RecoveredIsOut' /\ Door(who)!PassedKnown' /\ Door(who)!PasswordRead'
    BY <2>1, <2>2, DoorOutKeeps DEF Door!Passed, Door!OneRead
  <2> QED
    BY <2>4, <2>5, <2>6 DEF Door!IInv
<1> QED
  BY <1>3, <1>4, <1>5 DEF Door!RecoverStep

\* Sessions end, and locks grow older.
LEMMA DoorTimeKeeps ==
    ASSUME NEW who,
           Door(who)!ConstantsFit, Door(who)!IInv, Door(who)!Tick
           \/ (\E v \in live : Door(who)!SessionEnds(v)) \/ UNCHANGED Door(who)!vars
    PROVE  Door(who)!IInv'
<1>1. /\ Door(who)!TypeOK /\ lock \in Door(who)!Locks /\ job \in [Handlers -> Door(who)!Job]
      /\ password \in 1..ResetsOf[who] + 1 /\ live \subseteq 1..ResetsOf[who] + 1
          /\ crossed \in BOOLEAN
  BY DEF Door!IInv, Door!TypeOK
<1>2. UNCHANGED <<job, password, crossed>> /\ live' \subseteq live
  BY DEF Door!Tick, Door!SessionEnds, Door!vars
<1>3. /\ lock' \in Door(who)!Locks
      /\ \A d \in DoorsOf[who], n \in Names : lock'[d][n].failures = lock[d][n].failures
  <2>1. CASE lock' = lock
    BY <1>1, <2>1
  <2>2. CASE lock' = [d \in DoorsOf[who] |-> [n \in Names |-> Door(who)!Aged(lock[d][n])]]
    BY <1>1, <2>2, DoorEntriesFit DEF Door!Locks
  <2> QED
    BY <2>1, <2>2 DEF Door!Tick, Door!SessionEnds, Door!vars
<1>4. Door(who)!TypeOK'
  BY <1>1, <1>2, <1>3 DEF Door!TypeOK
<1>5. ASSUME NEW d \in DoorsOf[who], NEW n \in Names PROVE Door(who)!Counted(d, n)'
  <2>1. Door(who)!Counted(d, n) /\ Door(who)!UnderWay(d, n)' \subseteq Door(who)!UnderWay(d, n)
    BY <1>2 DEF Door!IInv, Door!UnderWay, Door!FailuresCounted
  <2> QED
    BY <1>1, <1>3, <2>1, DoorNotFailed
<1>6. Door(who)!RecoveredIsOut' /\ Door(who)!PassedKnown' /\ Door(who)!PasswordRead'
  BY <1>2 DEF Door!IInv, Door!RecoveredIsOut, Door!PassedKnown, Door!PasswordRead, Door!OneRead,
       Door!Passed, Door!At
<1> QED
  BY <1>4, <1>5, <1>6 DEF Door!IInv, Door!FailuresCounted

\* The server starts anew, and remembers neither locks nor sessions.
LEMMA DoorRestartKeeps ==
    ASSUME NEW who,
           Door(who)!ConstantsFit, Door(who)!IInv, Door(who)!Restart
    PROVE  Door(who)!IInv'
<1>1. password \in 1..ResetsOf[who] + 1 /\ crossed \in BOOLEAN
  BY DEF Door!IInv, Door!TypeOK
<1>2. lock' \in Door(who)!Locks /\ \A d \in DoorsOf[who], n \in Names :
         lock'[d][n] = Door(who)!NoEntry
  BY DoorEntriesFit DEF Door!Restart, Door!Locks
<1>3. job' \in [Handlers -> Door(who)!Job] /\ \A h \in Handlers : job'[h].step = "free"
  BY DoorJobsFit DEF Door!Restart
<1>4. live' = {} /\ UNCHANGED <<password, crossed>>
  BY DEF Door!Restart
<1>5. Door(who)!TypeOK'
  BY <1>1, <1>2, <1>3, <1>4 DEF Door!TypeOK
<1>6. ASSUME NEW d \in DoorsOf[who], NEW n \in Names PROVE Door(who)!Counted(d, n)'
  <2>1. LimitOf[who] \in Nat /\ LimitOf[who] > 0 /\ lock'[d][n].failures = 0
    BY <1>2, DoorEntriesFit DEF Door!ConstantsFit
  <2> QED
    BY <2>1 DEF Door!Counted
<1>7. Door(who)!RecoveredIsOut' /\ Door(who)!PassedKnown' /\ Door(who)!PasswordRead'
  BY <1>3, <1>4 DEF Door!RecoveredIsOut, Door!PassedKnown, Door!PasswordRead, Door!OneRead,
       Door!Passed
<1> QED
  BY <1>5, <1>6, <1>7 DEF Door!IInv, Door!FailuresCounted

\* Every step keeps the invariant.
LEMMA DoorNextIInv ==
    ASSUME NEW who,
           Door(who)!ConstantsFit, Door(who)!IInv, [Door(who)!Next]_(Door(who)!vars)
    PROVE  Door(who)!IInv'
BY DoorArrivalKeeps, DoorFailKeeps, DoorSignInKeeps, DoorRecoverKeeps, DoorTimeKeeps,
     DoorRestartKeeps DEF Door!Next

\* What the invariant means.
LEMMA DoorIInvImplies ==
    ASSUME NEW who,
           Door(who)!ConstantsFit, Door(who)!IInv
    PROVE  Door(who)!FailuresBounded /\ Door(who)!RecoveredIsOut
BY DoorCountedBounds DEF Door!IInv, Door!TypeOK

-----------------------------------------------------------------------------
(* The sweep (Sweep) *)

\* The sweep asks about attempts that have been made.
LEMMA SweepTargetsFit ==
    ASSUME Sweep!TypeOK, NEW owners, NEW recent, NEW limit
    PROVE  Sweep!Resolved(Sweep!Oldest(Sweep!Eligible(owners, recent), limit)) \subseteq 1..created
BY DEF Sweep!TypeOK, Sweep!Resolved, Sweep!Oldest, Sweep!Eligible

\* The types are right at the start,
LEMMA SweepInitTypes ==
    ASSUME Sweep!ConstantsFit, Sweep!Init
    PROVE  Sweep!TypeOK
<1>1. targets \in [{"sweep", "view"} -> SUBSET (1..created)]
  BY DEF Sweep!Init
<1>2. created \in 0..MaxAttempts /\ faults \in 0..FaultsOf["sweep"]
  BY DEF Sweep!ConstantsFit, Sweep!Init
<1>3. /\ initiated \subseteq 1..created /\ over \subseteq 1..created
      /\ lately \subseteq 1..created /\ asked \subseteq 1..created /\ cut \subseteq 1..created
      /\ connected \subseteq Profiles /\ past \in BOOLEAN
  BY DEF Sweep!Init
<1> QED
  BY <1>1, <1>2, <1>3 DEF Sweep!TypeOK

\* Attempts, their ends and who is connected.
LEMMA SweepPayersKeep ==
    ASSUME Sweep!ConstantsFit, Sweep!TypeOK,
           \/ Sweep!CreatePayment
           \/ \E p \in initiated : Sweep!AttemptEnds(p) \/ Sweep!PayerReturns(p)
           \/ \E o \in Profiles : Sweep!Disconnect(o) \/ Sweep!Connect(o)
    PROVE  Sweep!TypeOK'
<1> USE DEF Sweep!ConstantsFit, Sweep!TypeOK
<1>1. CASE Sweep!CreatePayment
  <2>1. created' = created + 1 /\ created' \in 0..MaxAttempts /\ 1..created \subseteq 1..created'
    BY <1>1 DEF Sweep!CreatePayment
  <2>2. created' \in 1..created'
    BY <2>1
  <2> QED
    BY <1>1, <2>1, <2>2 DEF Sweep!CreatePayment
<1>2. CASE \E p \in initiated : Sweep!AttemptEnds(p) \/ Sweep!PayerReturns(p)
  BY <1>2 DEF Sweep!AttemptEnds, Sweep!PayerReturns
<1>3. CASE \E o \in Profiles : Sweep!Disconnect(o) \/ Sweep!Connect(o)
  <2>1. faults' \in 0..FaultsOf["sweep"]
    BY <1>3 DEF Sweep!Disconnect, Sweep!Connect, Sweep!Fault
  <2>2. connected' \subseteq Profiles /\ cut' \subseteq 1..created
    BY <1>3 DEF Sweep!Disconnect, Sweep!Connect
  <2> QED
    BY <1>3, <2>1, <2>2 DEF Sweep!Disconnect, Sweep!Connect
<1> QED
  BY <1>1, <1>2, <1>3

\* Sweeps and views.
LEMMA SweepAsksKeep ==
    ASSUME Sweep!ConstantsFit, Sweep!TypeOK,
           \/ Sweep!StartSweep \/ Sweep!LeaveView \/ Sweep!Restart \/ Sweep!HorizonPasses
           \/ \E owners \in SUBSET Profiles : Sweep!View(owners)
           \/ \E k \in {"sweep", "view"} :
                \/ Sweep!Asks(k)
                \/ \E p \in targets[k] : Sweep!AskUnheard(k, p) \/ Sweep!AskUnmarked(k, p)
    PROVE  Sweep!TypeOK'
<1> USE DEF Sweep!ConstantsFit
<1>1. CASE Sweep!StartSweep
  BY <1>1, SweepTargetsFit DEF Sweep!StartSweep, Sweep!TypeOK
<1>2. ASSUME NEW owners \in SUBSET Profiles, Sweep!View(owners) PROVE Sweep!TypeOK'
  BY <1>2, SweepTargetsFit DEF Sweep!View, Sweep!TypeOK
<1>3. CASE Sweep!LeaveView \/ Sweep!Restart \/ Sweep!HorizonPasses
  <2>1. faults' \in 0..FaultsOf["sweep"]
    BY <1>3 DEF Sweep!LeaveView, Sweep!Restart, Sweep!HorizonPasses, Sweep!Fault, Sweep!TypeOK
  <2>2. targets' \in [{"sweep", "view"} -> SUBSET (1..created)]
    BY <1>3 DEF Sweep!LeaveView, Sweep!Restart, Sweep!HorizonPasses, Sweep!TypeOK
  <2> QED
    BY <1>3, <2>1, <2>2 DEF Sweep!LeaveView, Sweep!Restart, Sweep!HorizonPasses, Sweep!TypeOK
<1>4. ASSUME NEW k \in {"sweep", "view"}, NEW p \in targets[k],
             Sweep!Ask(k, p) \/ Sweep!AskUnheard(k, p) \/ Sweep!AskUnmarked(k, p)
      PROVE  Sweep!TypeOK'
  <2>1. faults' \in 0..FaultsOf["sweep"]
    BY <1>4 DEF Sweep!Ask, Sweep!AskUnheard, Sweep!AskUnmarked, Sweep!Fault, Sweep!TypeOK
  <2>2. targets' \in [{"sweep", "view"} -> SUBSET (1..created)] /\ p \in 1..created
    BY <1>4 DEF Sweep!Ask, Sweep!AskUnheard, Sweep!AskUnmarked, Sweep!TypeOK
  <2>3. /\ lately' \subseteq 1..created /\ asked' \subseteq 1..created /\ initiated' \subseteq 1..created
    BY <1>4, <2>2 DEF Sweep!Ask, Sweep!AskUnheard, Sweep!AskUnmarked, Sweep!TypeOK
  <2> QED
    BY <1>4, <2>1, <2>2, <2>3 DEF Sweep!Ask, Sweep!AskUnheard, Sweep!AskUnmarked, Sweep!TypeOK
<1> QED
  BY <1>1, <1>2, <1>3, <1>4 DEF Sweep!Asks

\* and after every step.
LEMMA SweepNextTypes ==
    ASSUME Sweep!ConstantsFit, Sweep!TypeOK, [Sweep!Next]_(Sweep!vars)
    PROVE  Sweep!TypeOK'
<1>1. CASE UNCHANGED Sweep!vars
  BY <1>1 DEF Sweep!vars, Sweep!TypeOK
<1> QED
  BY <1>1, SweepPayersKeep, SweepAsksKeep DEF Sweep!Next

-----------------------------------------------------------------------------
(* The parts side by side *)

\* One part runs, and its invariant holds at the start.
LEMMA InitInv ==
    ASSUME Init
    PROVE  Inv
<1>1. ASSUME part = "channel", Channel!Init PROVE Inv
  <2>1. Channel!IInv
    BY <1>1, ConstantsFit, ChannelInitIInv DEF ConstantsFit
  <2> QED
    BY <1>1, <2>1 DEF Inv, Parts, Pages, Doors
<1>2. ASSUME part = "session", Session!Init PROVE Inv
  <2>1. Session!IInv
    BY <1>2, SessionInitIInv
  <2> QED
    BY <1>2, <2>1 DEF Inv, Parts, Pages, Doors
<1>3. ASSUME part = "clock", Clock!Init PROVE Inv
  <2>1. Clock!IInv
    BY <1>3, ConstantsFit, ClockInitIInv DEF ConstantsFit
  <2> QED
    BY <1>3, <2>1 DEF Inv, Parts, Pages, Doors
<1>4. ASSUME NEW p \in Pages, part = p, Page(p)!Init PROVE Inv
  <2>1. Page(p)!IInv
    BY <1>4, ConstantsFit, PageInitIInv DEF ConstantsFit
  <2> QED
    BY <1>4, <2>1 DEF Inv, Parts, Pages, Doors
<1>5. ASSUME part = "back", Back!Init PROVE Inv
  <2>1. Back!IInv
    BY <1>5, ConstantsFit, BackInitIInv DEF ConstantsFit
  <2> QED
    BY <1>5, <2>1 DEF Inv, Parts, Pages, Doors
<1>6. ASSUME NEW p \in Doors, part = p, Door(p)!Init PROVE Inv
  <2>1. Door(p)!IInv
    BY <1>6, ConstantsFit, DoorInitIInv DEF ConstantsFit
  <2> QED
    BY <1>6, <2>1 DEF Inv, Parts, Pages, Doors
<1>7. ASSUME part = "sweep", Sweep!Init PROVE Inv
  <2>1. Sweep!TypeOK
    BY <1>7, ConstantsFit, SweepInitTypes DEF ConstantsFit
  <2> QED
    BY <1>7, <2>1 DEF Inv, Parts, Pages, Doors
<1> QED
  BY <1>1, <1>2, <1>3, <1>4, <1>5, <1>6, <1>7 DEF Init

\* A step of the part that runs, or one that leaves it alone, keeps its invariant.
LEMMA ChannelStep ==
    ASSUME Inv, part = "channel", part' = part, [Channel!Next]_(Channel!vars)
    PROVE  Inv'
<1>1. Channel!IInv'
  BY ConstantsFit, ChannelNextIInv DEF Inv, ConstantsFit
<1> QED
  BY <1>1 DEF Inv, Parts, Pages, Doors

\* ... so for the session,
LEMMA SessionStep ==
    ASSUME Inv, part = "session", part' = part, [Session!Next]_(Session!vars)
    PROVE  Inv'
<1>1. Session!IInv'
  BY ConstantsFit, SessionNextIInv DEF Inv, ConstantsFit
<1> QED
  BY <1>1 DEF Inv, Parts, Pages, Doors

\* its clocks,
LEMMA ClockStep ==
    ASSUME Inv, part = "clock", part' = part, [Clock!Next]_(Clock!vars)
    PROVE  Inv'
<1>1. Clock!IInv'
  BY ConstantsFit, ClockNextIInv DEF Inv, ConstantsFit
<1> QED
  BY <1>1 DEF Inv, Parts, Pages, Doors

\* a pay page,
LEMMA PageStep ==
    ASSUME Inv, NEW p \in Pages, part = p, part' = part, [Page(p)!Next]_(Page(p)!vars)
    PROVE  Inv'
<1>1. Page(p)!ConstantsFit /\ Page(p)!IInv
  BY ConstantsFit DEF Inv, ConstantsFit
<1>2. Page(p)!IInv'
  BY <1>1, PageNextIInv
<1> QED
  BY <1>2 DEF Inv, Parts, Pages, Doors

\* the page after,
LEMMA BackStep ==
    ASSUME Inv, part = "back", part' = part, [Back!Next]_(Back!vars)
    PROVE  Inv'
<1>1. Back!IInv'
  BY ConstantsFit, BackNextIInv DEF Inv, ConstantsFit
<1> QED
  BY <1>1 DEF Inv, Parts, Pages, Doors

\* the doors of an account
LEMMA DoorStep ==
    ASSUME Inv, NEW p \in Doors, part = p, part' = part, [Door(p)!Next]_(Door(p)!vars)
    PROVE  Inv'
<1>1. Door(p)!ConstantsFit /\ Door(p)!IInv
  BY ConstantsFit DEF Inv, ConstantsFit
<1>2. Door(p)!IInv'
  BY <1>1, DoorNextIInv
<1> QED
  BY <1>2 DEF Inv, Parts, Pages, Doors

\* and the sweep.
LEMMA SweepStep ==
    ASSUME Inv, part = "sweep", part' = part, [Sweep!Next]_(Sweep!vars)
    PROVE  Inv'
<1>1. Sweep!TypeOK'
  BY ConstantsFit, SweepNextTypes DEF Inv, ConstantsFit
<1> QED
  BY <1>1 DEF Inv, Parts, Pages, Doors

\* What leaves the variables of all alone leaves those of each alone.
LEMMA Stutter ==
    ASSUME UNCHANGED vars
    PROVE  /\ part' = part
           /\ UNCHANGED Channel!vars /\ UNCHANGED Session!vars /\ UNCHANGED Clock!vars
           /\ UNCHANGED Back!vars /\ UNCHANGED Sweep!vars
           /\ \A p : UNCHANGED Page(p)!vars /\ UNCHANGED Door(p)!vars
<1>1. /\ UNCHANGED <<part, faults, call, live, crossed, session, stored>>
      /\ UNCHANGED channelOnly /\ UNCHANGED sessionOnly /\ UNCHANGED clockOnly
      /\ UNCHANGED pageOnly /\ UNCHANGED backOnly /\ UNCHANGED lockOnly /\ UNCHANGED sweepOnly
  BY DEF vars
<1>2. UNCHANGED Channel!vars
  BY <1>1 DEF channelOnly, Channel!vars, Channel!page, Channel!server
<1>3. UNCHANGED Session!vars
  BY <1>1 DEF sessionOnly, Session!vars, Session!portal, Session!ghosts
<1>4. UNCHANGED Clock!vars
  BY <1>1 DEF clockOnly, Clock!vars, Clock!tabs, Clock!clock
<1>5. UNCHANGED Back!vars
  BY <1>1 DEF backOnly, Back!vars, Back!gateway, Back!page, Back!tab
<1>6. UNCHANGED Sweep!vars
  BY <1>1 DEF sweepOnly, Sweep!vars
<1>7. ASSUME NEW p PROVE UNCHANGED Page(p)!vars
  BY <1>1 DEF pageOnly, Page!vars, Page!browser
<1>8. ASSUME NEW p PROVE UNCHANGED Door(p)!vars
  BY <1>1 DEF lockOnly, Door!vars
<1> QED
  BY <1>1, <1>2, <1>3, <1>4, <1>5, <1>6, <1>7, <1>8

\* Every step keeps the invariant of the part that runs.
LEMMA NextInv ==
    ASSUME Inv, [Next]_vars
    PROVE  Inv'
<1>1. CASE InChannel(Channel!Next)
  BY <1>1, ChannelStep DEF InChannel
<1>2. CASE InSession(Session!Next)
  BY <1>2, SessionStep DEF InSession
<1>3. CASE InClock(Clock!Next)
  BY <1>3, ClockStep DEF InClock
<1>4. ASSUME NEW p \in Pages, InPage(p, Page(p)!Next) PROVE Inv'
  BY <1>4, PageStep DEF InPage
<1>5. CASE InBack(Back!Next)
  BY <1>5, BackStep DEF InBack
<1>6. ASSUME NEW p \in Doors, InDoor(p, Door(p)!Next) PROVE Inv'
  BY <1>6, DoorStep DEF InDoor
<1>7. CASE InSweep(Sweep!Next)
  BY <1>7, SweepStep DEF InSweep
<1>8. CASE UNCHANGED vars
  <2>1. /\ part' = part
        /\ UNCHANGED Channel!vars /\ UNCHANGED Session!vars /\ UNCHANGED Clock!vars
        /\ UNCHANGED Back!vars /\ UNCHANGED Sweep!vars
    BY <1>8, Stutter
  <2>2. \A p : UNCHANGED Page(p)!vars /\ UNCHANGED Door(p)!vars
    BY <1>8, Stutter
  <2>3. CASE part = "channel"
    BY <2>1, <2>3, ChannelStep
  <2>4. CASE part = "session"
    BY <2>1, <2>4, SessionStep
  <2>5. CASE part = "clock"
    BY <2>1, <2>5, ClockStep
  <2>6. ASSUME NEW p \in Pages, part = p PROVE Inv'
    BY <2>1, <2>2, <2>6, PageStep
  <2>7. CASE part = "back"
    BY <2>1, <2>7, BackStep
  <2>8. ASSUME NEW p \in Doors, part = p PROVE Inv'
    BY <2>1, <2>2, <2>8, DoorStep
  <2>9. CASE part = "sweep"
    BY <2>1, <2>9, SweepStep
  <2> QED
    BY <2>3, <2>4, <2>5, <2>6, <2>7, <2>8, <2>9 DEF Inv, Parts
<1> QED
  BY <1>1, <1>2, <1>3, <1>4, <1>5, <1>6, <1>7, <1>8 DEF Next

\* The invariant the other theorems follow from: that of the part that runs.
THEOREM Inductive == Spec => []Inv
<1>1. Init => Inv
  BY InitInv
<1>2. Inv /\ [Next]_vars => Inv'
  BY NextInv
<1> QED
  BY <1>1, <1>2, PTL DEF Spec

\* The variables of whichever part runs keep their types.
THEOREM Typed == Spec => []TypeOK
<1>1. Inv => TypeOK
  <2> SUFFICES ASSUME Inv PROVE TypeOK
    OBVIOUS
  <2>1. part = "channel" => Channel!TypeOK
    BY DEF Inv, Channel!IInv
  <2>2. part = "session" => Session!TypeOK
    BY DEF Inv, Session!IInv
  <2>3. part = "clock" => Clock!TypeOK
    BY DEF Inv, Clock!IInv
  <2>4. ASSUME NEW p \in Pages, part = p PROVE Page(p)!TypeOK
    BY <2>4 DEF Inv, Page!IInv
  <2>5. part = "back" => Back!TypeOK
    BY DEF Inv, Back!IInv
  <2>6. ASSUME NEW p \in Doors, part = p PROVE Door(p)!TypeOK
    BY <2>6 DEF Inv, Door!IInv
  <2>7. part = "sweep" => Sweep!TypeOK
    BY DEF Inv
  <2> QED
    BY <2>1, <2>2, <2>3, <2>4, <2>5, <2>6, <2>7 DEF TypeOK
<1> QED
  BY <1>1, Inductive, PTL

\* callSealed and sendSealed: a handler runs once at most, whatever is lost, repeated or
\* sealed anew under another channel, and the caller of a call is told what became of it;
\* while nothing goes wrong one handshake serves all, and one fault leaves none without.
THEOREM CallsAreTrue == Spec => []CallsTrue
<1>1. Inv => CallsTrue
  BY ChannelIInvImplies DEF Inv, CallsTrue
<1> QED
  BY <1>1, Inductive, PTL

\* "One account, one session", as long as no sign-in is served between the check and the
\* issue of another; and the browser holds no token but that of its last sign-in, whatever
\* calls of ended sessions are still answered.
THEOREM SessionsAreTrue == Spec => []SessionsTrue
<1>1. Inv => SessionsTrue
  BY DEF Inv, SessionsTrue, Session!IInv
<1> QED
  BY <1>1, Inductive, PTL

\* handleLogin and handleRecover, any number of them at once: past the number that closes
\* a door come no more wrong answers than were under way, and what is admitted after a
\* recovery was signed in with the new password.
THEOREM DoorsAreTrue == Spec => []DoorsHold
<1>1. Inv => DoorsHold
  <2> SUFFICES ASSUME Inv, NEW p \in Doors, part = p
               PROVE  Door(p)!FailuresBounded /\ Door(p)!RecoveredIsOut
    BY DEF DoorsHold
  <2>1. Door(p)!ConstantsFit /\ Door(p)!IInv
    BY ConstantsFit DEF Inv, ConstantsFit
  <2> QED
    BY <2>1, DoorIInvImplies
<1> QED
  BY <1>1, Inductive, PTL

\* The timers of SessionProvider and the server's two limits: on the conditions that the
\* parts of ClocksAgree state, a portal is closed before its session ends, somebody idle is
\* warned first, and pings do not keep a session nobody is at.
THEOREM ClocksDoAgree == Spec => []ClocksAgree
<1>1. Inv => ClocksAgree
  BY ConstantsFit, ClockIInvImplies DEF Inv, ClocksAgree, ConstantsFit
<1> QED
  BY <1>1, Inductive, PTL

\* pay() hands the payer over with the checkout it started last, and no checkout asks for
\* more than was left of the bill, whoever else pays it and whatever fails meanwhile.
THEOREM PayPageIsTrue == Spec => []PayPageTrue
<1>1. Inv => PayPageTrue
  <2> SUFFICES ASSUME Inv, NEW p \in Pages, part = p
               PROVE  Page(p)!HostedIsLast /\ Page(p)!WithinBill /\ Page(p)!ErrorFreesButton
    BY DEF PayPageTrue
  <2>1. Page(p)!IInv
    BY DEF Inv
  <2> QED
    BY <2>1, PageIInvImplies
<1> QED
  BY <1>1, Inductive, PTL

\* outcomeFor, continueURL and handlePublicReceipt: what the payer reads, is sent on to and
\* can print is true of the card, although gateway and operator act while it stands there.
THEOREM ReturnIsTrue == Spec => []ReturnTrue
<1>1. Inv => ReturnTrue
  BY BackIInvImplies DEF Inv, ReturnTrue
<1> QED
  BY <1>1, Inductive, PTL

\* The parts other than the session leave what the portal tells of its ending alone;
\* noteRejection never overwrites a reason it knows, and nothing else does.
THEOREM ReasonIsKept == Spec => ReasonKept
<1>1. ASSUME [Next]_vars, part = "session", session = 0, reason \in {"idle", "expired"}
      PROVE  reason' \in {reason, "none"}
  <2>1. Session!Next \/ UNCHANGED vars
    BY <1>1 DEF Next, InChannel, InSession, InClock, InPage, InBack, InDoor, InSweep, Pages, Doors
  <2>2. ASSUME NEW s \in Slots,
               \/ \E kind \in Session!SignIns : Session!SignIn(s, kind)
               \/ Session!SignOut(s) \/ Session!Work(s) \/ Session!Refresh(s) \/ Session!Reload(s)
               \/ \E why \in {"idle", "expired"} : Session!EndSession(s, why)
        PROVE  reason' \in {reason, "none"}
    BY <1>1, <2>2 DEF Session!SignIn, Session!SignOut, Session!Close, Session!Work,
       Session!Refresh, Session!Reload, Session!EndSession, Session!portal, Session!None
  <2>3. ASSUME NEW s \in Slots,
               Session!CallStep(s) \/ Session!SendAgain(s) \/ Session!Lost(s)
        PROVE  reason' \in {reason, "none"}
    BY <1>1, <2>3 DEF Session!CallStep, Session!SendAgain, Session!Lost, Session!Send,
       Session!ServeSignIn, Session!Issue, Session!RefuseSignIn, Session!ServeWork,
       Session!Answer, Session!TakeSignIn, Session!AskTakeover, Session!TakeSession,
       Session!TakeAnswer, Session!Rejected, Session!Close, Session!portal, Session!None
  <2>4. CASE Session!CancelTakeover \/ (\E t \in live : Session!SessionEnds(t)) \/ Session!Elsewhere
    BY <2>4 DEF Session!CancelTakeover, Session!SessionEnds, Session!Elsewhere, Session!portal
  <2>5. CASE UNCHANGED vars
    BY <2>5 DEF vars, sessionOnly
  <2> QED
    BY <2>1, <2>2, <2>3, <2>4, <2>5 DEF Session!Next
<1> QED
  BY <1>1, PTL DEF Spec, ReasonKept
=============================================================================
