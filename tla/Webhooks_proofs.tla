---------------------------- MODULE Webhooks_proofs ----------------------------
(***************************************************************************)
(* Proofs about the delivery of notifications, for every number of         *)
(* deliveries, waits and faults: the invariant that ties batch, queue and  *)
(* table together, the bound on calls, and that the dispatcher keeps the   *)
(* promise of Outbox.                                                      *)
(***************************************************************************)
EXTENDS Webhooks, TLAPS, SequenceTheorems

\* A sequence without the element at place k.
LEMMA WithoutPlace ==
    ASSUME NEW S, NEW s \in Seq(S), NEW k \in 1 .. Len(s),
           NEW w, w = SubSeq(s, 1, k - 1) \o SubSeq(s, k + 1, Len(s))
    PROVE  /\ w \in Seq(S) /\ Len(w) = Len(s) - 1
           /\ \A i \in 1 .. Len(s) - 1 : w[i] = IF i < k THEN s[i] ELSE s[i + 1]
<1> DEFINE n == Len(s)
<1>0. n = Len(s) /\ n \in Nat /\ k \in 1 .. n
  BY LenProperties
<1> HIDE DEF n
<1> DEFINE before == SubSeq(s, 1, k - 1)
           after  == SubSeq(s, k + 1, n)
<1>1. \A i \in 1 .. n : s[i] \in S
  BY <1>0, ElementOfSeq
<1>2. /\ before \in Seq(S) /\ Len(before) = k - 1
      /\ \A i \in 1 .. k - 1 : before[i] = s[i]
  <2>1. \A i \in 1 .. k - 1 : s[i] \in S
    BY <1>1, <1>0
  <2>2. /\ before \in Seq(S) /\ Len(before) = IF 1 <= k - 1 THEN (k - 1) - 1 + 1 ELSE 0
        /\ \A i \in 1 .. (k - 1) - 1 + 1 : before[i] = s[1 + i - 1]
    BY <2>1, <1>0, SubSeqProperties
  <2> HIDE DEF before
  <2> QED
    BY <2>2, <1>0
<1>3. /\ after \in Seq(S) /\ Len(after) = n - k
      /\ \A i \in 1 .. n - k : after[i] = s[k + i]
  <2>1. \A i \in k + 1 .. n : s[i] \in S
    BY <1>1, <1>0
  <2>2. /\ after \in Seq(S)
        /\ Len(after) = IF k + 1 <= n THEN n - (k + 1) + 1 ELSE 0
        /\ \A i \in 1 .. n - (k + 1) + 1 : after[i] = s[k + 1 + i - 1]
    BY <2>1, <1>0, SubSeqProperties
  <2> HIDE DEF after
  <2> QED
    BY <2>2, <1>0
<1>4. w = before \o after
  BY <1>0
<1> HIDE DEF before, after
<1>5. /\ before \o after \in Seq(S)
      /\ Len(before \o after) = Len(before) + Len(after)
      /\ \A i \in 1 .. Len(before) + Len(after) :
            (before \o after)[i] =
                IF i <= Len(before) THEN before[i] ELSE after[i - Len(before)]
  <2>1. before \in Seq(S) /\ after \in Seq(S)
    BY <1>2, <1>3
  <2> QED
    BY <2>1, ConcatProperties, Zenon
<1>6. /\ w \in Seq(S) /\ Len(w) = (k - 1) + (n - k)
      /\ \A i \in 1 .. (k - 1) + (n - k) :
            w[i] = IF i <= k - 1 THEN before[i] ELSE after[i - (k - 1)]
  <2>1. Len(before) = k - 1 /\ Len(after) = n - k
    BY <1>2, <1>3
  <2> QED
    BY <1>4, <1>5, <2>1, Zenon
<1>7. (k - 1) + (n - k) = n - 1
  BY <1>0
<1>8. ASSUME NEW i \in 1 .. n - 1
      PROVE  w[i] = IF i < k THEN s[i] ELSE s[i + 1]
  <2>1. w[i] = IF i <= k - 1 THEN before[i] ELSE after[i - (k - 1)]
    BY <1>6, <1>7
  <2>2. CASE i < k
    <3>1. i \in 1 .. k - 1 /\ i <= k - 1
      BY <2>2, <1>0
    <3> QED
      BY <2>1, <2>2, <3>1, <1>2
  <2>3. CASE ~(i < k)
    <3>1. i - (k - 1) \in 1 .. n - k /\ k + (i - (k - 1)) = i + 1 /\ ~(i <= k - 1)
      BY <2>3, <1>0
    <3> QED
      BY <2>1, <2>3, <3>1, <1>0, <1>3
  <2> QED
    BY <2>2, <2>3
<1> QED
  BY <1>0, <1>6, <1>7, <1>8

\* What Without takes out of a queue of distinct deliveries, and leaves in it.
LEMMA WithoutOne ==
    ASSUME NEW S, NEW s \in Seq(S), Distinct(s), NEW d \in Elements(s)
    PROVE  /\ Without(s, d) \in Seq(S)
           /\ Distinct(Without(s, d))
           /\ Elements(Without(s, d)) = Elements(s) \ {d}
<1> DEFINE k == Place(s, d)
           w == SubSeq(s, 1, k - 1) \o SubSeq(s, k + 1, Len(s))
<1>1. k \in DOMAIN s /\ s[k] = d
  BY DEF Place, Elements
<1>2. DOMAIN s = 1 .. Len(s) /\ Len(s) \in Nat /\ \A i \in DOMAIN s : s[i] \in S
  BY LenProperties, ElementOfSeq
<1>3. \A i \in DOMAIN s : s[i] = d => i = k
  BY <1>1 DEF Distinct
<1>4. /\ w \in Seq(S) /\ Len(w) = Len(s) - 1
      /\ DOMAIN w = 1 .. Len(s) - 1
      /\ \A i \in 1 .. Len(s) - 1 : w[i] = IF i < k THEN s[i] ELSE s[i + 1]
  <2>1. k \in 1 .. Len(s) /\ Len(s) \in Nat
    BY <1>1, <1>2
  <2>2. w = SubSeq(s, 1, k - 1) \o SubSeq(s, k + 1, Len(s))
    OBVIOUS
  <2> HIDE DEF w, k
  <2>3. /\ w \in Seq(S) /\ Len(w) = Len(s) - 1
        /\ \A i \in 1 .. Len(s) - 1 : w[i] = IF i < k THEN s[i] ELSE s[i + 1]
    BY <2>1, <2>2, WithoutPlace
  <2> QED
    BY <2>3, LenProperties
<1>5. Without(s, d) = w
  BY DEF Without
<1> HIDE DEF w, k
<1>6. Distinct(w)
  <2> SUFFICES ASSUME NEW i \in DOMAIN w, NEW j \in DOMAIN w, w[i] = w[j]
               PROVE  i = j
    BY DEF Distinct
  <2> DEFINE At(x) == IF x < k THEN x ELSE x + 1
  <2>1. At(i) \in DOMAIN s /\ At(j) \in DOMAIN s /\ w[i] = s[At(i)] /\ w[j] = s[At(j)]
    BY <1>1, <1>2, <1>4
  <2>2. At(i) = At(j)
    BY <2>1 DEF Distinct
  <2> QED
    BY <2>2, <1>1, <1>2, <1>4
<1>7. ASSUME NEW e \in Elements(w) PROVE e \in Elements(s) \ {d}
  <2>1. PICK i \in DOMAIN w : w[i] = e
    BY DEF Elements
  <2> DEFINE j == IF i < k THEN i ELSE i + 1
  <2>2. j \in DOMAIN s /\ j # k /\ s[j] = e
    BY <2>1, <1>1, <1>2, <1>4
  <2> QED
    BY <2>2, <1>3 DEF Elements
<1>8. ASSUME NEW e \in Elements(s) \ {d} PROVE e \in Elements(w)
  <2>1. PICK i \in DOMAIN s : s[i] = e
    BY DEF Elements
  <2>2. i # k
    BY <2>1, <1>1
  <2> DEFINE j == IF i < k THEN i ELSE i - 1
  <2>3. j \in DOMAIN w /\ w[j] = e
    BY <2>1, <2>2, <1>1, <1>2, <1>4
  <2> QED
    BY <2>3 DEF Elements
<1> QED
  BY <1>4, <1>5, <1>6, <1>7, <1>8

\* The batch without its head: the head is not in it again.
LEMMA TailOfBatch ==
    ASSUME NEW S, NEW s \in Seq(S), s # <<>>, Distinct(s)
    PROVE  /\ Tail(s) \in Seq(S) /\ Distinct(Tail(s))
           /\ Elements(Tail(s)) = Elements(s) \ {Head(s)}
           /\ Head(s) \in Elements(s) /\ Head(s) \in S
           /\ Tail(s) = <<>> <=> ~(Len(s) > 1)
<1>1. /\ Len(s) \in Nat \ {0} /\ DOMAIN s = 1 .. Len(s)
      /\ \A i \in DOMAIN s : s[i] \in S
      /\ Head(s) = s[1]
  BY LenProperties, ElementOfSeq, EmptySeq, HeadTailProperties
<1>2. /\ Tail(s) \in Seq(S) /\ Len(Tail(s)) = Len(s) - 1
      /\ DOMAIN Tail(s) = 1 .. Len(s) - 1
      /\ \A i \in 1 .. Len(s) - 1 : Tail(s)[i] = s[i + 1]
  BY <1>1, HeadTailProperties, LenProperties
<1>3. Distinct(Tail(s))
  <2> SUFFICES ASSUME NEW i \in DOMAIN Tail(s), NEW j \in DOMAIN Tail(s),
                      Tail(s)[i] = Tail(s)[j]
               PROVE  i = j
    BY DEF Distinct
  <2>1. i + 1 \in DOMAIN s /\ j + 1 \in DOMAIN s /\ s[i + 1] = s[j + 1]
    BY <1>1, <1>2
  <2>2. i + 1 = j + 1
    BY <2>1 DEF Distinct
  <2> QED
    BY <2>2, <1>2
<1>4. ASSUME NEW e \in Elements(Tail(s)) PROVE e \in Elements(s) \ {Head(s)}
  <2>1. PICK i \in DOMAIN Tail(s) : Tail(s)[i] = e
    BY DEF Elements
  <2>2. i + 1 \in DOMAIN s /\ s[i + 1] = e /\ i + 1 # 1 /\ 1 \in DOMAIN s
    BY <2>1, <1>1, <1>2
  <2>3. s[1] # e
    BY <2>2 DEF Distinct
  <2> QED
    BY <2>2, <2>3, <1>1 DEF Elements
<1>5. ASSUME NEW e \in Elements(s) \ {Head(s)} PROVE e \in Elements(Tail(s))
  <2>1. PICK i \in DOMAIN s : s[i] = e
    BY DEF Elements
  <2>2. i - 1 \in DOMAIN Tail(s) /\ Tail(s)[i - 1] = e
    <3>1. i # 1
      BY <2>1, <1>1
    <3>2. i - 1 \in 1 .. Len(s) - 1 /\ (i - 1) + 1 = i
      BY <3>1, <1>1
    <3> QED
      BY <3>2, <2>1, <1>2
  <2> QED
    BY <2>2 DEF Elements
<1>6. Head(s) \in Elements(s) /\ Head(s) \in S
  BY <1>1 DEF Elements
<1>7. Tail(s) = <<>> <=> ~(Len(s) > 1)
  <2>1. ASSUME Tail(s) = <<>> PROVE ~(Len(s) > 1)
    BY <2>1, <1>1, <1>2, EmptySeq
  <2>2. ASSUME ~(Len(s) > 1) PROVE Tail(s) = <<>>
    BY <2>2, <1>1, <1>2, EmptySeq
  <2> QED
    BY <2>1, <2>2
<1> QED
  BY <1>2, <1>3, <1>4, <1>5, <1>6, <1>7

-----------------------------------------------------------------------------
(* The invariant *)

\* What is known of the delivery at the head of the batch.
LEMMA HeadFacts ==
    ASSUME DeliveryInv, step # "idle"
    PROVE  /\ batch # <<>> /\ Head(batch) \in Deliveries
           /\ Head(batch) \in Elements(due) /\ Head(batch) \in Elements(batch)
           /\ row[Head(batch)].status = "pending"
<1>1. batch # <<>> /\ batch \in Seq(Deliveries) /\ Distinct(batch)
  BY DEF DeliveryInv, TypeOK, QueueOK
<1>2. Head(batch) \in Deliveries /\ Head(batch) \in Elements(batch)
  BY <1>1, TailOfBatch
<1> QED
  BY <1>1, <1>2 DEF DeliveryInv, QueueOK

\* A delivery that has just become due joins the end of the queue.
LEMMA AppendOne ==
    ASSUME NEW S, NEW s \in Seq(S), Distinct(s), NEW d \in S, d \notin Elements(s)
    PROVE  /\ Append(s, d) \in Seq(S) /\ Distinct(Append(s, d))
           /\ Elements(Append(s, d)) = Elements(s) \cup {d}
<1> DEFINE n == Len(s)
           w == Append(s, d)
<1>1. n \in Nat /\ DOMAIN s = 1 .. n
  BY LenProperties
<1>2. /\ w \in Seq(S) /\ Len(w) = n + 1
      /\ \A i \in 1 .. n : w[i] = s[i]
      /\ w[n + 1] = d
  BY AppendProperties
<1>3. DOMAIN w = 1 .. n + 1
  BY <1>2, LenProperties
<1> HIDE DEF n, w
<1>4. Distinct(w)
  <2> SUFFICES ASSUME NEW i \in DOMAIN w, NEW j \in DOMAIN w, w[i] = w[j]
               PROVE  i = j
    BY DEF Distinct
  <2>1. \A x \in DOMAIN w : x \in DOMAIN s \/ x = n + 1
    BY <1>1, <1>3
  <2>2. \A x \in DOMAIN s : w[x] = s[x] /\ w[x] # d
    BY <1>1, <1>2 DEF Elements
  <2> QED
    BY <2>1, <2>2, <1>2 DEF Distinct
<1>5. Elements(w) = Elements(s) \cup {d}
  <2>1. \A x \in DOMAIN w : x \in DOMAIN s \/ x = n + 1
    BY <1>1, <1>3
  <2>2. DOMAIN s \subseteq DOMAIN w /\ n + 1 \in DOMAIN w
    BY <1>1, <1>3
  <2>3. \A x \in DOMAIN s : w[x] = s[x]
    BY <1>1, <1>2
  <2> QED
    BY <2>1, <2>2, <2>3, <1>2 DEF Elements
<1> QED
  BY <1>2, <1>4, <1>5 DEF w

\* The batch a drain reads is a beginning of the queue.
LEMMA DueFacts ==
    ASSUME DeliveryInv
    PROVE  /\ DueWebhooks \in Seq(Deliveries) /\ Distinct(DueWebhooks)
           /\ Elements(DueWebhooks) \subseteq Elements(due)
<1> DEFINE m == IF Len(due) < BatchLimit THEN Len(due) ELSE BatchLimit
           w == SubSeq(due, 1, m)
<1>1. /\ due \in Seq(Deliveries) /\ Len(due) \in Nat /\ DOMAIN due = 1 .. Len(due)
      /\ \A i \in DOMAIN due : due[i] \in Deliveries
      /\ Distinct(due)
  BY LenProperties, ElementOfSeq DEF DeliveryInv, TypeOK, QueueOK
<1>2. m \in Nat /\ m <= Len(due)
  BY <1>1, BatchPositive
<1>3. DueWebhooks = w
  BY DEF DueWebhooks
<1> HIDE DEF m
<1>4. /\ w \in Seq(Deliveries) /\ Len(w) = m
      /\ \A i \in 1 .. m : w[i] = due[i]
  <2>1. \A i \in 1 .. m : due[i] \in Deliveries
    BY <1>1, <1>2
  <2>2. /\ w \in Seq(Deliveries) /\ Len(w) = IF 1 <= m THEN m - 1 + 1 ELSE 0
        /\ \A i \in 1 .. m - 1 + 1 : w[i] = due[1 + i - 1]
    BY <2>1, <1>2, SubSeqProperties
  <2> HIDE DEF w
  <2> QED
    BY <2>2, <1>2
<1> HIDE DEF w
<1>5. DOMAIN w = 1 .. m /\ DOMAIN w \subseteq DOMAIN due
  BY <1>1, <1>2, <1>4, LenProperties
<1> QED
  BY <1>1, <1>3, <1>4, <1>5 DEF Distinct, Elements

\* A step that takes the head off the batch, records it or fails to, and counts
\* a fault if it fails.
LEMMA MarkInv ==
    ASSUME DeliveryInv, step \in {"delivered", "retry", "giveUp"}, NextInBatch,
           UNCHANGED <<url, ghosts>>,
           NEW st \in {"delivered", "pending", "exhausted"},
           st = "pending" => row[Head(batch)].attempts < Waits - 1,
           Mark(Head(batch), st) \/ MarkFails
    PROVE  DeliveryInv'
<1> DEFINE d == Head(batch)
<1>1. /\ batch # <<>> /\ d \in Deliveries /\ d \in Elements(due)
      /\ row[d].status = "pending"
  BY HeadFacts
<1> HIDE DEF d
<1>2. /\ Tail(batch) \in Seq(Deliveries) /\ Distinct(Tail(batch))
      /\ Elements(Tail(batch)) = Elements(batch) \ {d}
      /\ Tail(batch) = <<>> <=> ~(Len(batch) > 1)
  BY <1>1, TailOfBatch DEF DeliveryInv, TypeOK, QueueOK, d
<1>3. /\ batch' = Tail(batch) /\ step' \in {"lookup", "idle"}
      /\ step' = "idle" <=> batch' = <<>>
  BY <1>2 DEF NextInBatch
<1>4. UNCHANGED <<url, calls, told, hopeless>>
  BY DEF ghosts
<1>5. CASE Mark(d, st)
  <2>1. /\ due' \in Seq(Deliveries) /\ Distinct(due')
        /\ Elements(due)' = Elements(due) \ {d}
    <3>1. due' = Without(due, d)
      BY <1>5 DEF Mark
    <3>2. due \in Seq(Deliveries) /\ Distinct(due) /\ d \in Elements(due)
      BY <1>1 DEF DeliveryInv, TypeOK, QueueOK
    <3>3. /\ Without(due, d) \in Seq(Deliveries) /\ Distinct(Without(due, d))
          /\ Elements(Without(due, d)) = Elements(due) \ {d}
      BY <3>2, WithoutOne
    <3>4. Elements(due)' = Elements(due')
      BY DEF Elements
    <3> QED
      BY <3>1, <3>3, <3>4
  <2>2. /\ row' \in [Deliveries -> [status : DeliveryStatus, attempts : Nat]]
        /\ row'[d].status = st /\ row'[d].attempts = row[d].attempts + 1
        /\ \A e \in Deliveries : e # d => row'[e] = row[e]
        /\ faults' = faults
    BY <1>1, <1>5 DEF Mark, DeliveryInv, TypeOK, DeliveryStatus
  <2>3. TypeOK'
    BY <1>2, <1>3, <1>4, <2>1, <2>2 DEF DeliveryInv, TypeOK
  <2>4. QueueOK'
    <3>1. Elements(batch)' \subseteq Elements(due)'
      BY <1>2, <1>3, <2>1 DEF DeliveryInv, QueueOK, Elements
    <3>2. \A e \in Elements(due)' : row'[e].status = "pending"
      <4>1. Elements(due) \subseteq Deliveries
        BY ElementOfSeq, LenProperties DEF DeliveryInv, TypeOK, Elements
      <4> QED
        BY <4>1, <2>1, <2>2 DEF DeliveryInv, QueueOK
    <3>3. Distinct(batch)' /\ Distinct(due)'
      BY <1>2, <1>3, <2>1 DEF Distinct
    <3> QED
      BY <1>3, <3>1, <3>2, <3>3 DEF QueueOK
  <2>5. CountOK'
    <3> SUFFICES ASSUME NEW e \in Deliveries
                 PROVE  /\ calls'[e] <= row'[e].attempts + faults' + Uncounted(e)'
                        /\ row'[e].status = "none" => row'[e].attempts = 0
                        /\ row'[e].status = "pending" => row'[e].attempts < Waits
                        /\ row'[e].attempts <= Waits
      BY DEF CountOK
    <3>1. /\ Uncounted(e)' = 0
          /\ Uncounted(e) \in 0 .. 1 /\ (e # d => Uncounted(e) = 0)
      BY <1>3 DEF Uncounted, d
    <3>2. /\ calls[e] <= row[e].attempts + faults + Uncounted(e)
          /\ row[e].status = "none" => row[e].attempts = 0
          /\ row[e].status = "pending" => row[e].attempts < Waits
          /\ row[e].attempts <= Waits
          /\ row[e].attempts \in Nat /\ faults \in Nat /\ calls[e] \in Nat
      BY FaultsNatural DEF DeliveryInv, CountOK, TypeOK
    <3>3. CASE e = d
      <4>1. st = "pending" => row[d].attempts < Waits - 1
        BY DEF d
      <4> QED
        BY <3>1, <3>2, <3>3, <4>1, <1>1, <1>4, <2>2, WaitsPositive
    <3>4. CASE e # d
      BY <3>1, <3>2, <3>4, <1>4, <2>2
    <3> QED
      BY <3>3, <3>4
  <2> QED
    BY <2>3, <2>4, <2>5 DEF DeliveryInv
<1>6. CASE MarkFails
  <2>1. UNCHANGED <<row, due>> /\ faults < MaxFaults /\ faults' = faults + 1
    BY <1>6 DEF MarkFails, Fault
  <2>2. TypeOK'
    <3>1. batch' \in Seq(Deliveries) /\ faults' \in 0 .. MaxFaults
      BY <1>2, <1>3, <2>1, FaultsNatural DEF DeliveryInv, TypeOK
    <3> QED
      BY <1>3, <1>4, <2>1, <3>1 DEF DeliveryInv, TypeOK
  <2>3. QueueOK'
    <3>1. Elements(batch)' \subseteq Elements(due)' /\ Elements(due)' = Elements(due)
      BY <1>2, <1>3, <2>1 DEF DeliveryInv, QueueOK, Elements
    <3>2. Distinct(batch)' /\ Distinct(due)'
      BY <1>2, <1>3, <2>1 DEF DeliveryInv, QueueOK, Distinct
    <3> QED
      BY <1>3, <2>1, <3>1, <3>2 DEF DeliveryInv, QueueOK
  <2>4. CountOK'
    <3> SUFFICES ASSUME NEW e \in Deliveries
                 PROVE  calls'[e] <= row'[e].attempts + faults' + Uncounted(e)'
      BY <2>1 DEF DeliveryInv, CountOK
    <3>1. Uncounted(e)' = 0 /\ Uncounted(e) \in 0 .. 1
      BY <1>3 DEF Uncounted
    <3>2. /\ calls[e] <= row[e].attempts + faults + Uncounted(e)
          /\ row[e].attempts \in Nat /\ faults \in Nat /\ calls[e] \in Nat
      BY FaultsNatural DEF DeliveryInv, CountOK, TypeOK
    <3> QED
      BY <1>4, <2>1, <3>1, <3>2
  <2> QED
    BY <2>2, <2>3, <2>4 DEF DeliveryInv
<1> QED
  BY <1>5, <1>6 DEF d

\* Every step of the queue keeps DeliveryInv.
LEMMA NextInv == DeliveryInv /\ [Next]_vars => DeliveryInv'
<1> SUFFICES ASSUME DeliveryInv, [Next]_vars PROVE DeliveryInv'
  OBVIOUS
<1>0. /\ due \in Seq(Deliveries) /\ Distinct(due)
      /\ batch \in Seq(Deliveries) /\ Distinct(batch)
      /\ Elements(batch) \subseteq Elements(due)
      /\ Elements(due) \subseteq Deliveries
      /\ step = "idle" <=> batch = <<>>
      /\ \A d \in Elements(due) : row[d].status = "pending"
  <2>1. Elements(due) \subseteq Deliveries
    BY ElementOfSeq, LenProperties DEF DeliveryInv, TypeOK, Elements
  <2> QED
    BY <2>1 DEF DeliveryInv, TypeOK, QueueOK
<1>1. ASSUME NEW d \in Deliveries, QueueWebhook(d) \/ WaitPasses(d) PROVE DeliveryInv'
  <2>1. /\ d \notin Elements(due) /\ due' = Append(due, d) /\ row'[d].status = "pending"
        /\ row' \in [Deliveries -> [status : DeliveryStatus, attempts : Nat]]
        /\ UNCHANGED <<batch, step, url, faults, calls, told, hopeless>>
    BY <1>0, <1>1 DEF QueueWebhook, WaitPasses, dispatcher, ghosts,
                      DeliveryInv, TypeOK, DeliveryStatus
  <2>6. ASSUME NEW e \in Deliveries
        PROVE  /\ row'[e].attempts = row[e].attempts
               /\ e # d => row'[e].status = row[e].status
    BY <1>1 DEF QueueWebhook, WaitPasses, DeliveryInv, TypeOK
  <2>2. /\ due' \in Seq(Deliveries) /\ Distinct(due')
        /\ Elements(due)' = Elements(due) \cup {d}
    <3>1. /\ Append(due, d) \in Seq(Deliveries) /\ Distinct(Append(due, d))
          /\ Elements(Append(due, d)) = Elements(due) \cup {d}
      BY <1>0, <2>1, AppendOne
    <3>2. Elements(due)' = Elements(due')
      BY DEF Elements
    <3> QED
      BY <2>1, <3>1, <3>2
  <2>3. TypeOK'
    BY <2>1, <2>2 DEF DeliveryInv, TypeOK
  <2>4. QueueOK'
    <3>1. Elements(batch)' \subseteq Elements(due)'
      <4>1. Elements(batch)' = Elements(batch)
        BY <2>1 DEF Elements
      <4> QED
        BY <1>0, <2>2, <4>1
    <3>2. Distinct(batch)' /\ Distinct(due)'
      BY <1>0, <2>1, <2>2 DEF Distinct
    <3>3. ASSUME NEW e \in Elements(due)' PROVE row'[e].status = "pending"
      <4>1. e = d \/ (e # d /\ e \in Elements(due) /\ e \in Deliveries)
        BY <1>0, <2>2
      <4>2. row'[d].status = "pending"
        BY <2>1
      <4>3. ASSUME e # d, e \in Elements(due), e \in Deliveries
            PROVE row'[e].status = "pending"
        <5>1. row'[e].status = row[e].status
          BY <2>6, <4>3
        <5>2. row[e].status = "pending"
          BY <1>0, <4>3
        <5> QED
          BY <5>1, <5>2
      <4> QED
        BY <4>1, <4>2, <4>3
    <3> QED
      BY <2>1, <3>1, <3>2, <3>3 DEF DeliveryInv, QueueOK
  <2>5. CountOK'
    <3>1. row[d].attempts < Waits
      BY <1>1, WaitsPositive DEF QueueWebhook, WaitPasses, DeliveryInv, CountOK
    <3>2. \A e \in Deliveries : Uncounted(e)' = Uncounted(e)
      BY <2>1 DEF Uncounted
    <3> SUFFICES ASSUME NEW e \in Deliveries
                 PROVE  /\ calls'[e] <= row'[e].attempts + faults' + Uncounted(e)'
                        /\ row'[e].status = "none" => row'[e].attempts = 0
                        /\ row'[e].status = "pending" => row'[e].attempts < Waits
                        /\ row'[e].attempts <= Waits
      BY DEF CountOK
    <3>3. /\ calls[e] <= row[e].attempts + faults + Uncounted(e)
          /\ row[e].status = "none" => row[e].attempts = 0
          /\ row[e].status = "pending" => row[e].attempts < Waits
          /\ row[e].attempts <= Waits
      BY DEF DeliveryInv, CountOK
    <3>4. CASE e = d
      BY <2>1, <2>6, <3>1, <3>2, <3>3, <3>4
    <3>5. CASE e # d
      BY <2>1, <2>6, <3>2, <3>3, <3>5
    <3> QED
      BY <3>4, <3>5
  <2> QED
    BY <2>3, <2>4, <2>5 DEF DeliveryInv
<1>2. ASSUME NEW i \in Integrations, UpdateEndpoints(i) PROVE DeliveryInv'
  <2>1. UNCHANGED <<row, due, batch, step, faults, calls, told, hopeless>>
        /\ url' \subseteq Integrations
    BY <1>2 DEF UpdateEndpoints, dispatcher, ghosts, DeliveryInv, TypeOK
  <2> QED
    <3>1. TypeOK'
      BY <2>1 DEF DeliveryInv, TypeOK
    <3>2. QueueOK'
      BY <2>1 DEF DeliveryInv, QueueOK, Distinct, Elements
    <3>3. CountOK'
      BY <2>1 DEF DeliveryInv, CountOK, Uncounted
    <3> QED
      BY <3>1, <3>2, <3>3 DEF DeliveryInv
<1>3. CASE Drain
  <2>1. /\ batch' = DueWebhooks /\ batch' # <<>> /\ step' = "lookup" /\ step = "idle"
        /\ UNCHANGED <<row, due, url, faults, calls, told, hopeless>>
    BY <1>3 DEF Drain, ghosts
  <2>2. /\ batch' \in Seq(Deliveries) /\ Distinct(batch)' /\ Elements(batch)' \subseteq Elements(due)'
    BY <2>1, DueFacts DEF Distinct, Elements
  <2>3. TypeOK'
    BY <2>1, <2>2 DEF DeliveryInv, TypeOK
  <2>4. QueueOK'
    BY <1>0, <2>1, <2>2 DEF QueueOK, Distinct, Elements
  <2>5. CountOK'
    BY <2>1 DEF DeliveryInv, CountOK, Uncounted
  <2> QED
    BY <2>3, <2>4, <2>5 DEF DeliveryInv
<1>4. CASE Lookup
  <2>1. /\ step = "lookup" /\ step' \in {"send", "giveUp"}
        /\ faults' \in faults .. MaxFaults
        /\ hopeless' \subseteq Deliveries
        /\ UNCHANGED <<row, due, batch, url, calls, told>>
    BY <1>4, HeadFacts, FaultsNatural DEF Lookup, Fault, DeliveryInv, TypeOK
  <2>2. TypeOK'
    BY <2>1, FaultsNatural DEF DeliveryInv, TypeOK
  <2>3. QueueOK'
    BY <2>1 DEF DeliveryInv, QueueOK, Distinct, Elements
  <2>4. CountOK'
    <3>1. \A d \in Deliveries : Uncounted(d)' = 0 /\ Uncounted(d) = 0
      BY <2>1 DEF Uncounted
    <3> QED
      BY <2>1, <3>1, FaultsNatural DEF DeliveryInv, CountOK, TypeOK
  <2> QED
    BY <2>2, <2>3, <2>4 DEF DeliveryInv
<1>5. CASE Send
  <2> DEFINE d == Head(batch)
  <2>1. /\ step = "send" /\ d \in Deliveries
        /\ calls' = [calls EXCEPT ![d] = @ + 1]
        /\ told' \in {told, told \cup {d}}
        /\ step' \in {"delivered", "retry"} /\ (step' = "delivered" => d \in told')
        /\ UNCHANGED <<row, due, batch, url, faults, hopeless>>
    <3>1. d \in Deliveries
      BY <1>5, HeadFacts DEF Send
    <3>2. PICK a \in Answers :
            /\ calls' = [calls EXCEPT ![Head(batch)] = @ + 1]
            /\ told' = IF a[1] = "accepts" THEN told \cup {Head(batch)} ELSE told
            /\ step' = a[2]
      BY <1>5, Zenon DEF Send
    <3>3. \/ a[1] = "accepts" /\ a[2] \in {"delivered", "retry"}
          \/ a[1] = "refuses" /\ a[2] = "retry"
      BY DEF Answers
    <3>4. told' \in {told, told \cup {d}} /\ (a[1] = "accepts" => d \in told')
      BY <3>2
    <3>5. step = "send" /\ UNCHANGED <<row, due, batch, url, faults, hopeless>>
      BY <1>5 DEF Send
    <3>6. calls' = [calls EXCEPT ![d] = @ + 1]
      BY <3>2
    <3>7. step' \in {"delivered", "retry"} /\ (step' = "delivered" => d \in told')
      BY <3>2, <3>3, <3>4
    <3> QED
      BY <3>1, <3>4, <3>5, <3>6, <3>7
  <2>2. TypeOK'
    BY <2>1 DEF DeliveryInv, TypeOK
  <2>3. QueueOK'
    BY <2>1 DEF DeliveryInv, QueueOK, Distinct, Elements
  <2>4. CountOK'
    <3>1. \A e \in Deliveries : /\ Uncounted(e) = 0
                               /\ Uncounted(e)' = IF e = d THEN 1 ELSE 0
      BY <2>1 DEF Uncounted
    <3>2. \A e \in Deliveries : calls'[e] = IF e = d THEN calls[e] + 1 ELSE calls[e]
      BY <2>1 DEF DeliveryInv, TypeOK
    <3> HIDE DEF d
    <3> QED
      BY <2>1, <3>1, <3>2, FaultsNatural DEF DeliveryInv, CountOK, TypeOK
  <2> QED
    BY <2>2, <2>3, <2>4 DEF DeliveryInv
<1>6. CASE MarkWebhookDelivered
  BY <1>6, MarkInv DEF MarkWebhookDelivered
<1>7. CASE MarkWebhookRetry
  <2>1. ASSUME ~Exhausted(Head(batch)) PROVE row[Head(batch)].attempts < Waits - 1
    <3>1. row[Head(batch)].attempts \in Nat
      BY <1>7, HeadFacts DEF MarkWebhookRetry, DeliveryInv, TypeOK
    <3> QED
      BY <2>1, <3>1, WaitsPositive DEF Exhausted
  <2> QED
    BY <1>7, <2>1, MarkInv DEF MarkWebhookRetry
<1>8. CASE Crash
  <2>1. /\ batch' = <<>> /\ step' = "idle"
        /\ faults' = faults + 1 /\ faults' \in 0 .. MaxFaults
        /\ UNCHANGED <<row, due, url, calls, told, hopeless>>
    BY <1>8, FaultsNatural DEF Crash, Fault, ghosts, DeliveryInv, TypeOK
  <2>2. batch' \in Seq(Deliveries) /\ Elements(batch)' = {} /\ Distinct(batch)'
    BY <2>1 DEF Elements, Distinct
  <2>3. TypeOK'
    BY <2>1, <2>2 DEF DeliveryInv, TypeOK
  <2>4. QueueOK'
    BY <2>1, <2>2 DEF DeliveryInv, QueueOK, Distinct, Elements
  <2>5. CountOK'
    <3>1. \A d \in Deliveries : Uncounted(d)' = 0 /\ Uncounted(d) \in 0 .. 1
      BY <2>1 DEF Uncounted
    <3>2. ASSUME NEW d \in Deliveries
          PROVE  calls[d] <= row[d].attempts + (faults + 1)
      <4>1. /\ calls[d] <= row[d].attempts + faults + Uncounted(d)
            /\ row[d].attempts \in Nat /\ faults \in Nat /\ calls[d] \in Nat
        BY FaultsNatural DEF DeliveryInv, CountOK, TypeOK
      <4> QED
        BY <3>1, <4>1
    <3>3. \A d \in Deliveries : row[d].attempts \in Nat
      BY DEF DeliveryInv, TypeOK
    <3>4. \A d \in Deliveries :
             calls'[d] <= row'[d].attempts + faults' + Uncounted(d)'
      BY <2>1, <3>1, <3>2, <3>3, FaultsNatural DEF DeliveryInv, TypeOK
    <3> QED
      BY <2>1, <3>4 DEF DeliveryInv, CountOK
  <2> QED
    BY <2>3, <2>4, <2>5 DEF DeliveryInv
<1>9. CASE UNCHANGED vars
  <2>1. UNCHANGED <<row, due, batch, step, url, faults, calls, told, hopeless>>
    BY <1>9 DEF vars, dispatcher, ghosts
  <2>2. TypeOK'
    BY <2>1 DEF DeliveryInv, TypeOK
  <2>3. QueueOK'
    BY <2>1 DEF DeliveryInv, QueueOK, Distinct, Elements
  <2>4. CountOK'
    BY <2>1 DEF DeliveryInv, CountOK, Uncounted
  <2> QED
    BY <2>2, <2>3, <2>4 DEF DeliveryInv
<1> QED
  BY <1>1, <1>2, <1>3, <1>4, <1>5, <1>6, <1>7, <1>8, <1>9 DEF Next, Dispatch

\* The invariant holds in every reachable state.
THEOREM DeliveryInvariance == Spec => []DeliveryInv
<1>1. Init => DeliveryInv
  <2> SUFFICES ASSUME Init PROVE DeliveryInv
    OBVIOUS
  <2>1. TypeOK
    BY FaultsNatural DEF Init, TypeOK, DeliveryStatus
  <2>2. QueueOK
    BY DEF Init, QueueOK, Distinct, Elements
  <2>3. CountOK
    <3>1. \A d \in Deliveries : /\ Uncounted(d) = 0 /\ calls[d] = 0 /\ faults = 0
                               /\ row[d].attempts = 0 /\ row[d].status = "none"
      BY DEF Init, Uncounted
    <3> SUFFICES ASSUME NEW d \in Deliveries
                 PROVE  /\ calls[d] <= row[d].attempts + faults + Uncounted(d)
                        /\ row[d].status = "none" => row[d].attempts = 0
                        /\ row[d].status = "pending" => row[d].attempts < Waits
                        /\ row[d].attempts <= Waits
      BY DEF CountOK
    <3> QED
      BY <3>1, WaitsPositive
  <2> QED
    BY <2>1, <2>2, <2>3 DEF DeliveryInv
<1> QED
  BY <1>1, NextInv, PTL DEF Spec

\* An integrator is called at most once for each wait of the schedule and once
\* for each fault (fail, MarkWebhookRetry): only a fault loses the count of a
\* call.
THEOREM CallsAreBounded == Spec => []CallsBounded
<1>1. DeliveryInv => CallsBounded
  <2> SUFFICES ASSUME DeliveryInv, NEW d \in Deliveries PROVE calls[d] <= Waits + faults
    BY DEF CallsBounded
  <2>1. /\ calls[d] <= row[d].attempts + faults + Uncounted(d)
        /\ row[d].status = "pending" => row[d].attempts < Waits
        /\ row[d].attempts <= Waits
        /\ row[d].attempts \in Nat /\ faults \in Nat /\ calls[d] \in Nat
    BY FaultsNatural DEF DeliveryInv, CountOK, TypeOK
  <2>2. Uncounted(d) = 0 \/ (Uncounted(d) = 1 /\ row[d].status = "pending")
    BY HeadFacts DEF Uncounted
  <2> QED
    BY <2>1, <2>2, WaitsPositive
<1> QED
  BY <1>1, DeliveryInvariance, PTL

-----------------------------------------------------------------------------
(* The promise *)

\* Every step of the dispatcher is a step of Outbox, or none.
LEMMA NextPromise ==
    DeliveryInv /\ [Next]_vars =>
        [Promise!Next]_<<[d \in Deliveries |-> row[d].status], calls, told>>
<1> DEFINE fate == [d \in Deliveries |-> row[d].status]
<1> SUFFICES ASSUME DeliveryInv, [Next]_vars PROVE [Promise!Next]_<<fate, calls, told>>
  OBVIOUS
<1>0. row \in [Deliveries -> [status : DeliveryStatus, attempts : Nat]]
  BY DEF DeliveryInv, TypeOK
<1>1. ASSUME NEW d \in Deliveries, QueueWebhook(d) PROVE Promise!Queue(d)
  BY <1>0, <1>1 DEF QueueWebhook, Promise!Queue, ghosts
<1>2. CASE Send
  <2>1. /\ Head(batch) \in Deliveries /\ row[Head(batch)].status = "pending"
    BY <1>2, HeadFacts DEF Send
  <2>2. Promise!Call(Head(batch))
    BY <1>2, <2>1 DEF Send, Promise!Call
  <2> QED
    BY <2>1, <2>2 DEF Promise!Next
<1>3. CASE MarkWebhookDelivered
  <2>1. PICK h \in Deliveries : h = Head(batch)
    BY <1>3, HeadFacts DEF MarkWebhookDelivered
  <2>2. row[h].status = "pending" /\ h \in told
    BY <1>3, <2>1, HeadFacts DEF MarkWebhookDelivered, DeliveryInv, QueueOK
  <2>3. CASE Mark(h, "delivered")
    <3>1. fate' = [fate EXCEPT ![h] = "delivered"]
      BY <1>0, <2>2, <2>3 DEF Mark
    <3>2. Promise!Confirm(h)
      BY <1>3, <2>2, <3>1 DEF MarkWebhookDelivered, Promise!Confirm, ghosts
    <3> QED
      BY <3>2 DEF Promise!Next
  <2>4. CASE MarkFails
    BY <1>3, <2>4 DEF MarkWebhookDelivered, MarkFails, ghosts
  <2> QED
    BY <1>3, <2>1, <2>3, <2>4 DEF MarkWebhookDelivered
<1>4. CASE MarkWebhookRetry
  <2>1. PICK h \in Deliveries : h = Head(batch)
    BY <1>4, HeadFacts DEF MarkWebhookRetry
  <2>2. row[h].status = "pending"
    BY <1>4, <2>1, HeadFacts DEF MarkWebhookRetry
  <2>3. CASE Mark(h, "exhausted")
    <3>1. fate' = [fate EXCEPT ![h] = "exhausted"]
      BY <1>0, <2>2, <2>3 DEF Mark
    <3>2. Promise!GiveUp(h)
      BY <1>4, <2>2, <3>1 DEF MarkWebhookRetry, Promise!GiveUp, ghosts
    <3> QED
      BY <3>2 DEF Promise!Next
  <2>4. CASE Mark(h, "pending")
    <3>1. fate' = fate
      BY <1>0, <2>2, <2>4 DEF Mark
    <3> QED
      BY <1>4, <3>1 DEF MarkWebhookRetry, ghosts
  <2>5. CASE MarkFails
    BY <1>4, <2>5 DEF MarkWebhookRetry, MarkFails, ghosts
  <2> QED
    BY <1>4, <2>1, <2>3, <2>4, <2>5 DEF MarkWebhookRetry
<1>5. CASE UNCHANGED <<row, calls, told>>
  BY <1>5
<1>6. CASE \/ \E d \in Deliveries : WaitPasses(d)
           \/ \E i \in Integrations : UpdateEndpoints(i)
           \/ Drain \/ Lookup \/ Crash \/ UNCHANGED vars
  <2>1. UNCHANGED <<row, calls, told>>
    BY <1>6 DEF WaitPasses, UpdateEndpoints, Drain, Lookup, Crash, vars, ghosts
  <2> QED
    BY <2>1, <1>5
<1> QED
  BY <1>1, <1>2, <1>3, <1>4, <1>6 DEF Next, Dispatch, Promise!Next

\* The queue keeps its promise: a delivery marked delivered was accepted, and a
\* settled one is not sent again (attempt, MarkWebhookDelivered, fail).
THEOREM PromiseKept == Spec => KeepsPromise
<1>1. Init => Promise!Init
  BY DEF Init, Promise!Init
<1> QED
  BY <1>1, DeliveryInvariance, NextPromise, PTL DEF Spec, KeepsPromise, Promise!Spec
=============================================================================
