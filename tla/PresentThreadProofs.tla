------------------------- MODULE PresentThreadProofs -------------------------
(***************************************************************************)
(* Theorems about PresentThread, for every number of slots.                *)
(***************************************************************************)
EXTENDS PresentThreadInv, TLAPS

-----------------------------------------------------------------------------
(* Slot arithmetic *)

\* Quotient and remainder.
LEMMA DivMod ==
    ASSUME NEW n \in Nat \ {0}, NEW p \in Nat
    PROVE  p \div n \in Nat /\ p % n \in 0 .. n - 1 /\ p = n * (p \div n) + (p % n)
  OBVIOUS

\* A larger factor gives a product larger by at least n.
LEMMA MulStrict ==
    ASSUME NEW n \in Nat \ {0}, NEW x \in Nat, NEW y \in Nat, x < y
    PROVE  n * x + n <= n * y
  OBVIOUS

\* The remainder of a number written as quotient and remainder.
LEMMA ModUnique ==
    ASSUME NEW n \in Nat \ {0}, NEW k \in Nat, NEW r \in 0 .. n - 1
    PROVE  (n * k + r) % n = r
  OBVIOUS

\* Numbers less than n apart have different remainders.
LEMMA ModsDiffer ==
    ASSUME NEW n \in Nat \ {0}, NEW p \in Nat, NEW q \in Nat, p < q, q < p + n
    PROVE  p % n # q % n
  <1> SUFFICES ASSUME p % n = q % n PROVE FALSE
    OBVIOUS
  <1> DEFINE a == p \div n
             b == q \div n
  <1>1. a \in Nat /\ b \in Nat /\ p = n * a + (p % n) /\ q = n * b + (q % n)
    BY DivMod
  <1>2. p % n \in Nat /\ q % n \in Nat
    BY DivMod
  <1> HIDE DEF a, b
  <1>3. n * a < n * b
    BY <1>1, <1>2
  <1>4. ~(b < a)
    BY <1>1, <1>3, MulStrict
  <1>5. a < b
    BY <1>1, <1>3, <1>4
  <1>6. n * a + n <= n * b
    BY <1>1, <1>5, MulStrict
  <1> QED BY <1>1, <1>2, <1>6

\* Remainders may be taken before or after an addition.
LEMMA ModPlus ==
    ASSUME NEW n \in Nat \ {0}, NEW p \in Nat, NEW d \in Nat
    PROVE  ((p % n) + d) % n = (p + d) % n
  <1> DEFINE a == p \div n
             r == p % n
             b == (r + d) \div n
             t == (r + d) % n
  <1>1. a \in Nat /\ r \in Nat /\ p = n * a + r
    BY DivMod
  <1>2. r + d \in Nat
    BY <1>1
  <1>3. b \in Nat /\ t \in 0 .. n - 1 /\ r + d = n * b + t
    BY <1>2, DivMod
  <1>4. (n * (a + b) + t) % n = t
    <2>1. a + b \in Nat
      BY <1>1, <1>3
    <2> HIDE DEF a, b, t
    <2> QED BY <1>3, <2>1, ModUnique
  <1>5. n * (a + b) + t = p + d
    <2> HIDE DEF a, r, b, t
    <2>1. n * (a + b) = n * a + n * b
      BY <1>1, <1>3
    <2>2. n * a \in Nat /\ n * b \in Nat
      BY <1>1, <1>3
    <2> QED BY <1>1, <1>3, <2>1, <2>2
  <1> QED BY <1>4, <1>5

\* Any n consecutive numbers have every remainder.
LEMMA ModsCover ==
    ASSUME NEW n \in Nat \ {0}, NEW p \in Nat, NEW r \in 0 .. n - 1
    PROVE  \E j \in p .. p + n - 1 : j % n = r
  <1> DEFINE a == p \div n
  <1>1. a \in Nat /\ p % n \in 0 .. n - 1 /\ p = n * a + (p % n)
    BY DivMod
  <1> HIDE DEF a
  <1>2. CASE p % n <= r
    <2>1. n * a + r \in p .. p + n - 1
      BY <1>1, <1>2
    <2>2. (n * a + r) % n = r
      BY <1>1, ModUnique
    <2> QED BY <2>1, <2>2
  <1>3. CASE r < p % n
    <2>1. n * (a + 1) = n * a + n
      BY <1>1
    <2>2. n * (a + 1) + r \in p .. p + n - 1
      BY <1>1, <1>3, <2>1
    <2>3. a + 1 \in Nat
      BY <1>1
    <2>4. (n * (a + 1) + r) % n = r
      BY <2>3, ModUnique
    <2> QED BY <2>2, <2>4
  <1> QED BY <1>1, <1>2, <1>3

\* The facts about N and MaxSlots the proofs use.
LEMMA NFacts == N \in Nat \ {0} /\ MaxSlots \in Nat \ {0} /\ 2 <= N /\ N <= MaxSlots
  BY SlotsAssumption

\* A remainder is a slot, or an index of the queue.
LEMMA SlotIn == ASSUME NEW j \in Nat PROVE j % N \in Slot /\ j % MaxSlots \in Index
  BY NFacts, DivMod DEF Slot, Index

\* Slots of frames less than N apart differ, and so do their queue indices.
LEMMA SlotsDiffer ==
    ASSUME NEW p \in Nat, NEW q \in Nat, p # q, p < q + N, q < p + N
    PROVE  p % N # q % N /\ p % MaxSlots # q % MaxSlots
  <1>1. N \in Nat \ {0} /\ MaxSlots \in Nat \ {0} /\ p < q + MaxSlots /\ q < p + MaxSlots
    BY NFacts
  <1>2. CASE p < q
    BY <1>1, <1>2, ModsDiffer
  <1>3. CASE q < p
    BY <1>1, <1>3, ModsDiffer
  <1> QED BY <1>2, <1>3

\* pt_submit's search finds the slot of the next frame, if any slot is free.
LEMMA SearchFinds ==
    ASSUME NEW st \in [Slot -> SlotState], NEW m \in Nat, NEW h \in Nat,
           current = m % N, h <= m + 1, m < h + N,
           \A j \in h .. m : st[j % N] # "free",
           \A j \in m + 1 .. h + N - 1 : st[j % N] = "free",
           \E s \in Slot : IsFree(st, s)
    PROVE  m + 1 <= h + N - 1 /\ NextSlot(st) = (m + 1) % N
  <1>1. PICK s \in Slot : IsFree(st, s)
    OBVIOUS
  <1>2. PICK j \in h .. h + N - 1 : j % N = s
    BY NFacts, ModsCover DEF Slot
  <1>3. N \in Nat
    BY NFacts
  <1>4. st[j % N] = "free"
    BY <1>1, <1>2 DEF IsFree
  <1>5. m + 1 <= h + N - 1
    <2>1. j \notin h .. m
      BY <1>4
    <2> QED BY <1>3, <2>1
  <1>6. IsFree(st, (m + 1) % N)
    <2>1. m + 1 \in m + 1 .. h + N - 1
      BY <1>3, <1>5
    <2> QED BY <2>1 DEF IsFree
  <1>7. Ahead(1) = (m + 1) % N
    BY NFacts, ModPlus DEF Ahead
  <1> DEFINE Q(k) == IsFree(st, Ahead(k)) /\ \A i \in 1 .. k - 1 : ~IsFree(st, Ahead(i))
  <1>8. 1 \in 1 .. N /\ Q(1)
    BY <1>6, <1>7, NFacts
  <1>9. \A k \in 1 .. N : Q(k) => k = 1
    BY <1>6, <1>7, NFacts
  <1>10. (CHOOSE k \in 1 .. N : Q(k)) = 1
    <2> HIDE DEF Q
    <2> QED BY <1>8, <1>9
  <1>11. NextSlot(st) = Ahead(CHOOSE k \in 1 .. N : Q(k))
    BY DEF NextSlot
  <1> QED BY <1>5, <1>7, <1>10, <1>11

\* What pt_submit does with the slot of the next frame: take it, or sleep because
\* every slot is busy.
TookNext(st, x, awake) ==
    /\ st[x] = "free"
    /\ state' = [st EXCEPT ![x] = "composing"]
    /\ current' = x
    /\ done' = [done EXCEPT ![x] = 0]
    /\ tokens' = tokens \ {done[x]}
    /\ asleep' = awake
    /\ cpc' = "idle"
FoundNone(st, awake) ==
    /\ state' = st
    /\ asleep' = awake \cup {"composer"}
    /\ cpc' = "submit"
    /\ UNCHANGED <<current, done, tokens>>

\* pt_submit takes the slot of the next frame as soon as that one is handed back.
LEMMA TakeSlotNext ==
    ASSUME NEW st \in [Slot -> SlotState], NEW m \in Nat, NEW h \in Nat, NEW awake,
           current = m % N, h <= m + 1, m < h + N,
           \A j \in h .. m : st[j % N] # "free",
           \A j \in m + 1 .. h + N - 1 : st[j % N] = "free",
           TakeSlot(st, awake)
    PROVE  \/ m + 1 <= h + N - 1 /\ TookNext(st, (m + 1) % N, awake)
           \/ h + N - 1 <= m /\ FoundNone(st, awake)
  <1>1. CASE \E s \in Slot : IsFree(st, s)
    <2>1. m + 1 <= h + N - 1 /\ NextSlot(st) = (m + 1) % N
      BY <1>1, SearchFinds
    <2>2. m + 1 \in m + 1 .. h + N - 1
      BY <2>1, NFacts
    <2>3. st[(m + 1) % N] = "free"
      BY <2>2
    <2> QED BY <1>1, <2>1, <2>3 DEF TakeSlot, TookNext
  <1>2. CASE ~\E s \in Slot : IsFree(st, s)
    <2>1. st[(m + 1) % N] # "free"
      <3>1. m + 1 \in Nat
        OBVIOUS
      <3>2. (m + 1) % N \in Slot
        BY <3>1, SlotIn
      <3> QED BY <1>2, <3>2 DEF IsFree
    <2>2. m + 1 \notin m + 1 .. h + N - 1
      BY <2>1
    <2>3. h + N - 1 <= m
      BY <2>2, NFacts
    <2> QED BY <1>2, <2>3 DEF TakeSlot, FoundNone
  <1> QED BY <1>1, <1>2

\* How the three counters of frames relate.
LEMMA Counters ==
    ASSUME TypeOK, QueueInv
    PROVE  /\ N \in Nat /\ 2 <= N
           /\ submitted \in Nat /\ HandedBack \in Nat /\ Taken \in Nat
           /\ HandedBack <= Taken /\ Taken <= submitted /\ Taken <= HandedBack + 1
           /\ submitted <= HandedBack + N
           /\ cpc # "submit" => submitted < HandedBack + N
           /\ ppc \in {"present", "finish"} <=> Taken = HandedBack + 1
  <1>1. N \in Nat /\ 2 <= N /\ submitted \in Nat /\ HandedBack \in Nat /\ shown \in Nat
    BY NFacts DEF TypeOK, QueueInv
  <1>2. /\ Taken \in Nat /\ HandedBack <= Taken /\ Taken <= HandedBack + 1
        /\ ppc \in {"present", "finish"} <=> Taken = HandedBack + 1
    BY <1>1 DEF Taken, HandedBack
  <1> QED BY <1>1, <1>2 DEF QueueInv

\* A submitted frame that was not handed back keeps its slot busy.
LEMMA SlotsBusy ==
    ASSUME TypeOK, QueueInv, SlotInv
    PROVE  \A j \in HandedBack .. submitted - 1 : state[j % N] \in {"queued", "presenting"}
  <1> SUFFICES ASSUME NEW j \in HandedBack .. submitted - 1
               PROVE  state[j % N] \in {"queued", "presenting"}
    OBVIOUS
  <1>1. CASE j \in Taken .. submitted - 1
    BY <1>1 DEF QueueInv
  <1>2. CASE j \notin Taken .. submitted - 1
    <2>1. ppc \in {"present", "finish"} /\ j = HandedBack
      BY <1>2 DEF Taken, HandedBack, TypeOK, QueueInv
    <2> QED BY <2>1 DEF SlotInv
  <1> QED BY <1>1, <1>2

-----------------------------------------------------------------------------
(* Every step keeps the invariant *)

\* The two outcomes of pt_submit when it queues a frame ...
LEMMA SubmitOutcome ==
    ASSUME IInv, Submit
    PROVE  LET st == [state EXCEPT ![current] = "queued"]
           IN  \/ submitted + 1 <= HandedBack + N - 1 /\ TookNext(st, (submitted + 1) % N, {})
               \/ HandedBack + N - 1 <= submitted /\ FoundNone(st, {})
  <1> DEFINE st == [state EXCEPT ![current] = "queued"]
             m == submitted
             h == HandedBack
  <1>1. m \in Nat /\ h \in Nat /\ h <= m + 1 /\ m < h + N
    BY Counters DEF IInv, Submit
  <1>2. current = m % N
    BY <1>1 DEF IInv, SlotInv, Composed, Submit
  <1>3. st \in [Slot -> SlotState]
    BY DEF IInv, TypeOK, SlotState
  <1>4. \A j \in h .. m : st[j % N] # "free"
    <2> SUFFICES ASSUME NEW j \in h .. m PROVE st[j % N] # "free"
      OBVIOUS
    <2>0. j \in Nat
      BY <1>1
    <2>1. j \in Nat /\ j % N \in Slot
      BY <2>0, SlotIn
    <2>2. CASE j = m
      BY <1>2, <2>1, <2>2 DEF IInv, TypeOK
    <2>3. CASE j # m
      <3>1. j \in h .. m - 1
        BY <1>1, <2>3
      <3>2. state[j % N] \in {"queued", "presenting"}
        BY <3>1, SlotsBusy DEF IInv
      <3> QED BY <2>1, <3>2 DEF IInv, TypeOK
    <2> QED BY <2>2, <2>3
  <1>5. \A j \in m + 1 .. h + N - 1 : st[j % N] = "free"
    <2> SUFFICES ASSUME NEW j \in m + 1 .. h + N - 1 PROVE st[j % N] = "free"
      OBVIOUS
    <2>1. j \in Nat /\ j # m /\ j < m + N /\ m < j + N
      <3>1. h <= m /\ N \in Nat
        BY Counters DEF IInv
      <3> HIDE DEF h, m
      <3> QED BY <1>1, <3>1
    <2>2. j % N # m % N
      BY <1>1, <2>1, SlotsDiffer
    <2>3. state[j % N] = "free"
      BY DEF IInv, SlotInv, Composed, Submit
    <2> QED BY <1>2, <2>1, <2>2, <2>3, SlotIn DEF IInv, TypeOK
  <1>6. TakeSlot(st, {})
    BY DEF Submit
  <1> HIDE DEF st, m, h
  <1>7. \/ m + 1 <= h + N - 1 /\ TookNext(st, (m + 1) % N, {})
        \/ h + N - 1 <= m /\ FoundNone(st, {})
    BY <1>1, <1>2, <1>3, <1>4, <1>5, <1>6, TakeSlotNext
  <1> QED BY <1>7 DEF st, m, h

\* ... and when it looks again.
LEMMA RetryOutcome ==
    ASSUME IInv, SubmitRetry
    PROVE  \/ submitted <= HandedBack + N - 1 /\ TookNext(state, submitted % N, asleep)
           \/ HandedBack + N = submitted /\ FoundNone(state, asleep)
  <1> DEFINE m == submitted - 1
             h == HandedBack
  <1>1. m \in Nat /\ h \in Nat /\ h <= m + 1 /\ m < h + N /\ N \in Nat
    <2>1. submitted > 0
      BY DEF IInv, SlotInv, SubmitRetry, Composed
    <2>2. N \in Nat /\ submitted \in Nat /\ h \in Nat /\ h <= submitted /\ submitted <= h + N
      BY Counters DEF IInv
    <2> HIDE DEF h
    <2> QED BY <2>1, <2>2
  <1>2. current = m % N
    BY <1>1 DEF IInv, SlotInv, Composed, SubmitRetry
  <1>3. state \in [Slot -> SlotState]
    BY DEF IInv, TypeOK
  <1>4. \A j \in h .. m : state[j % N] # "free"
    BY SlotsBusy DEF IInv
  <1>5. \A j \in m + 1 .. h + N - 1 : state[j % N] = "free"
    BY DEF IInv, SlotInv, Composed, SubmitRetry, TypeOK
  <1>6. TakeSlot(state, asleep)
    BY DEF SubmitRetry
  <1>7. m + 1 = submitted
    BY DEF IInv, TypeOK
  <1> HIDE DEF m, h
  <1>8. \/ m + 1 <= h + N - 1 /\ TookNext(state, (m + 1) % N, asleep)
        \/ h + N - 1 <= m /\ FoundNone(state, asleep)
    BY <1>1, <1>2, <1>3, <1>4, <1>5, <1>6, TakeSlotNext
  <1> QED BY <1>1, <1>7, <1>8 DEF h

\* A step that leaves the slots, the queue and the frames alone.
Keeping == cpc \in {"create", "init", "drain", "join"} \/ (cpc = "idle" /\ running)
DataSame ==
    /\ UNCHANGED <<state, ready, done, queue, qHead, qLen, current, image, submitted, shown,
                   pslot, pready, ptok, tokens>>
    /\ ppc' = "present" <=> ppc = "present"
    /\ ppc' = "finish" <=> ppc = "finish"
    /\ cpc' = "submit" <=> cpc = "submit"
    /\ Keeping' => Keeping

\* Such a step keeps the parts of the invariant about them.
LEMMA DataKept ==
    ASSUME IInv, DataSame
    PROVE  QueueInv' /\ SlotInv' /\ TokenInv' /\ TokensHeld'
  <1>1. Taken' = Taken /\ HandedBack' = HandedBack /\ Composed' = Composed
    BY DEF DataSame, Taken, HandedBack, Composed
  <1>2. QueueInv'
    BY <1>1 DEF IInv, QueueInv, DataSame
  <1>3. SlotInv'
    BY <1>1 DEF IInv, SlotInv, DataSame, Keeping
  <1>4. TokenInv' /\ TokensHeld'
    BY DEF IInv, TokenInv, TokensHeld, DataSame
  <1> QED BY <1>2, <1>3, <1>4

\* The steps that only move the threads on.
LEMMA QuietSteps ==
    ASSUME IInv,
           \/ Create \/ AwaitInit \/ Stop \/ Join \/ Drain \/ PresentCtx \/ PresentInit
           \/ PresentWait \/ PresentRelease \/ Spurious
    PROVE  DataSame
  <1>1. CASE Create
    BY <1>1 DEF Create, DataSame, Keeping, ThreadInv, IInv, slotVars, queueVars, initVars, localVars
  <1>2. CASE AwaitInit
    BY <1>2 DEF AwaitInit, DataSame, Keeping, ThreadInv, IInv, slotVars, queueVars, initVars, localVars
  <1>3. CASE Stop
    BY <1>3 DEF Stop, DataSame, Keeping, ThreadInv, IInv, slotVars, queueVars, initVars, localVars
  <1>4. CASE Join
    BY <1>4 DEF Join, DataSame, Keeping, ThreadInv, IInv, slotVars, queueVars, initVars, localVars
  <1>5. CASE Drain
    BY <1>5 DEF Drain, DataSame, Keeping, ThreadInv, IInv, slotVars, queueVars, initVars, localVars
  <1>6. CASE PresentCtx
    BY <1>6 DEF PresentCtx, DataSame, Keeping, ThreadInv, IInv, slotVars, queueVars, initVars, localVars
  <1>7. CASE PresentInit
    BY <1>7 DEF PresentInit, DataSame, Keeping, ThreadInv, IInv, slotVars, queueVars, initVars, localVars
  <1>8. CASE PresentWait
    BY <1>8 DEF PresentWait, DataSame, Keeping, ThreadInv, IInv, slotVars, queueVars, initVars, localVars
  <1>9. CASE PresentRelease
    BY <1>9 DEF PresentRelease, DataSame, Keeping, ThreadInv, IInv, slotVars, queueVars, initVars, localVars
  <1>10. CASE Spurious
    BY <1>10 DEF Spurious, DataSame, Keeping, ThreadInv, IInv, slotVars, queueVars, initVars, localVars
  <1> QED BY <1>1, <1>2, <1>3, <1>4, <1>5, <1>6, <1>7, <1>8, <1>9, <1>10

\* pt_start resets the session.
LEMMA StartStep ==
    ASSUME IInv, Start
    PROVE  QueueInv' /\ SlotInv' /\ TokenInv' /\ TokensHeld'
  <1>1. Taken' = 0 /\ HandedBack' = 0 /\ Composed' = 1
    BY DEF Start, Taken, HandedBack, Composed
  <1>2. N \in Nat /\ 2 <= N /\ 0 \in Slot
    BY NFacts DEF Slot
  <1>3. 0 % N = 0 /\ 0 % MaxSlots = 0 /\ \A j \in 1 .. N - 1 : j % N = j
    BY NFacts
  <1>4. QueueInv'
    BY <1>1, <1>2, <1>3 DEF Start, QueueInv
  <1>5. SlotInv'
    <2>1. Composed' > 0 /\ current' = (Composed' - 1) % N
      BY <1>1, <1>3 DEF Start
    <2>2. \A j \in Composed' .. HandedBack' + N - 1 : state'[j % N] = "free"
      <3> SUFFICES ASSUME NEW j \in 1 .. N - 1 PROVE state'[j % N] = "free"
        BY <1>1, <1>2
      <3>1. j % N = j /\ j \in Slot /\ j # 0
        BY <1>2, <1>3 DEF Slot
      <3>2. state'[j] = "free"
        BY <3>1 DEF Start
      <3> QED BY <3>1, <3>2
    <2>3. state'[current'] = "composing"
      BY <1>2 DEF Start
    <2>4. ppc' = "none"
      BY DEF Start
    <2> QED BY <2>1, <2>2, <2>3, <2>4 DEF SlotInv
  <1>6. tokens = {}
    BY DEF IInv, ThreadInv, TokensHeld, Start
  <1>7. TokenInv' /\ TokensHeld'
    BY <1>6 DEF TokenInv, TokensHeld, Start
  <1> QED BY <1>4, <1>5, <1>7

\* Drawing touches the image of the current slot only, which is nobody else's.
LEMMA ComposeStep ==
    ASSUME IInv, Compose
    PROVE  QueueInv' /\ SlotInv' /\ TokenInv' /\ TokensHeld'
  <1>1. Taken' = Taken /\ HandedBack' = HandedBack /\ Composed' = Composed
    BY DEF Compose, Taken, HandedBack, Composed
  <1>2. current = submitted % N /\ submitted \in Nat /\ current \in Slot
    BY DEF IInv, SlotInv, Composed, Compose, TypeOK
  <1>3. image' = [image EXCEPT ![current] = submitted + 1] /\ image \in [Slot -> Nat]
    BY DEF Compose, IInv, TypeOK
  <1>4. \A j \in HandedBack .. submitted - 1 : image'[j % N] = image[j % N]
    <2> SUFFICES ASSUME NEW j \in HandedBack .. submitted - 1
                 PROVE  image'[j % N] = image[j % N]
      OBVIOUS
    <2>1. j \in Nat /\ j # submitted /\ j < submitted + N /\ submitted < j + N
      BY Counters DEF IInv, Compose
    <2>2. j % N # current
      BY <1>2, <2>1, SlotsDiffer
    <2> QED BY <1>3, <2>1, <2>2, SlotIn
  <1>5. QueueInv'
    <2>1. \A j \in Taken .. submitted - 1 : image'[j % N] = j + 1
      BY <1>4, Counters DEF IInv, QueueInv
    <2> QED BY <1>1, <2>1 DEF IInv, QueueInv, Compose, slotVars, queueVars
  <1>6. SlotInv'
    <2>1. ppc \in {"present", "finish"} => image'[pslot] = image[pslot]
      <3> SUFFICES ASSUME ppc \in {"present", "finish"} PROVE image'[pslot] = image[pslot]
        OBVIOUS
      <3>1. HandedBack \in HandedBack .. submitted - 1
        BY Counters DEF IInv
      <3> QED BY <1>4, <3>1 DEF IInv, SlotInv
    <2> QED BY <1>1, <2>1 DEF IInv, SlotInv, Compose, slotVars, queueVars, localVars
  <1>7. TokenInv'
    BY <1>2, <1>3 DEF IInv, TokenInv, Compose, localVars
  <1>8. TokensHeld'
    <2>1. state[current] = "composing"
      BY DEF IInv, SlotInv, Compose
    <2>2. \A s \in Slot : done[s] # 0 => state[s] = "free" /\ s # current
      BY <2>1 DEF IInv, TokensHeld
    <2> QED BY <1>3, <2>2 DEF IInv, TokensHeld, Compose, slotVars, localVars
  <1> QED BY <1>5, <1>6, <1>7, <1>8

\* The oldest queued slot goes on screen.
LEMMA PresentTakeStep ==
    ASSUME IInv, PresentTake
    PROVE  QueueInv' /\ SlotInv' /\ TokenInv' /\ TokensHeld'
  <1> DEFINE t == shown
             x == queue[qHead]
  <1>1. Taken = t /\ HandedBack = t /\ Taken' = t + 1 /\ HandedBack' = t /\ Composed' = Composed
    BY DEF PresentTake, Taken, HandedBack, Composed
  <1>2. N \in Nat /\ t \in Nat /\ submitted \in Nat /\ t < submitted /\ submitted <= t + N
    BY <1>1, Counters DEF IInv, QueueInv, PresentTake, TypeOK
  <1>3. x = t % N /\ state[x] = "queued" /\ ready[x] = t + 1 /\ image[x] = t + 1 /\ x \in Slot
    <2>1. t \in Taken .. submitted - 1
      BY <1>1, <1>2
    <2> QED BY <1>1, <1>2, <2>1, SlotIn DEF IInv, QueueInv
  <1>4. \A j \in t + 1 .. t + N - 1 : j % N \in Slot /\ j % N # x
    <2> SUFFICES ASSUME NEW j \in t + 1 .. t + N - 1 PROVE j % N \in Slot /\ j % N # x
      OBVIOUS
    <2>1. j \in Nat /\ j # t /\ j < t + N /\ t < j + N
      BY <1>2
    <2> HIDE DEF t
    <2> QED BY <1>2, <1>3, <2>1, SlotsDiffer, SlotIn
  <1>5. /\ state' = [state EXCEPT ![x] = "presenting"] /\ state \in [Slot -> SlotState]
        /\ ready' = [ready EXCEPT ![x] = 0] /\ ready \in [Slot -> Nat]
    BY DEF PresentTake, IInv, TypeOK
  <1>6. \A j \in t + 1 .. t + N - 1 : state'[j % N] = state[j % N] /\ ready'[j % N] = ready[j % N]
    BY <1>4, <1>5
  <1>7. QueueInv'
    <2>1. qHead' = (t + 1) % MaxSlots
      <3>1. qHead = t % MaxSlots /\ qHead' = (qHead + 1) % MaxSlots
        BY <1>1 DEF PresentTake, IInv, QueueInv
      <3>2. ((t % MaxSlots) + 1) % MaxSlots = (t + 1) % MaxSlots
        BY <1>2, NFacts, ModPlus
      <3> QED BY <3>1, <3>2
    <2>2. qLen' = submitted - (t + 1)
      BY <1>1, <1>2 DEF PresentTake, IInv, QueueInv
    <2>3. \A j \in t + 1 .. submitted - 1 :
             /\ queue[j % MaxSlots] = j % N
             /\ state'[j % N] = "queued" /\ ready'[j % N] = j + 1 /\ image[j % N] = j + 1
      <3> SUFFICES ASSUME NEW j \in t + 1 .. submitted - 1
                   PROVE  /\ queue[j % MaxSlots] = j % N
                          /\ state'[j % N] = "queued" /\ ready'[j % N] = j + 1
                          /\ image[j % N] = j + 1
        OBVIOUS
      <3>1. j \in Taken .. submitted - 1 /\ j \in t + 1 .. t + N - 1
        BY <1>1, <1>2
      <3> QED BY <1>6, <3>1 DEF IInv, QueueInv
    <2>4. submitted' = submitted /\ image' = image /\ queue' = queue /\ cpc' = cpc
      BY DEF PresentTake
    <2> QED BY <1>1, <1>2, <2>1, <2>2, <2>3, <2>4 DEF IInv, QueueInv
  <1>8. SlotInv'
    <2>1. pslot' = x /\ state'[x] = "presenting" /\ pready' = t + 1 /\ image'[x] = t + 1
      BY <1>3, <1>5 DEF PresentTake
    <2>2. \A j \in Composed .. t + N - 1 : state'[j % N] = "free"
      <3> SUFFICES ASSUME NEW j \in Composed .. t + N - 1 PROVE state'[j % N] = "free"
        OBVIOUS
      <3>1. j \in t + 1 .. t + N - 1
        BY <1>2 DEF Composed
      <3> QED BY <1>1, <1>6, <3>1 DEF IInv, SlotInv
    <2>3. state[current] = "composing" => state'[current] = "composing"
      BY <1>3, <1>5
    <2>4. UNCHANGED <<cpc, current, running>>
      BY DEF PresentTake
    <2>5. Composed > 0 /\ current = (Composed - 1) % N
      BY DEF IInv, SlotInv
    <2> HIDE DEF t, x
    <2> QED BY <1>1, <1>3, <2>1, <2>2, <2>3, <2>4, <2>5 DEF IInv, SlotInv
  <1>9. TokenInv'
    BY DEF IInv, TokenInv, PresentTake
  <1>10. TokensHeld'
    <2>1. \A s \in Slot : done[s] # 0 => s # x
      BY <1>3 DEF IInv, TokensHeld
    <2> QED BY <1>5, <2>1 DEF IInv, TokensHeld, PresentTake
  <1> QED BY <1>7, <1>8, <1>9, <1>10

\* The slot is shown: its frame is the next one.
LEMMA PresentShowStep ==
    ASSUME IInv, PresentShow
    PROVE  QueueInv' /\ SlotInv' /\ TokenInv' /\ TokensHeld'
  <1>1. pready = shown + 1 /\ shown \in Nat
    BY DEF IInv, SlotInv, HandedBack, PresentShow, TypeOK
  <1>2. Taken' = Taken /\ HandedBack' = HandedBack /\ Composed' = Composed
    BY <1>1 DEF PresentShow, Taken, HandedBack, Composed
  <1>3. QueueInv'
    BY <1>2 DEF IInv, QueueInv, PresentShow, slotVars, queueVars
  <1>4. SlotInv'
    BY <1>2 DEF IInv, SlotInv, PresentShow, slotVars, queueVars
  <1>5. PICK t \in {0, pready} : ptok' = t /\ tokens' = tokens \cup ({t} \ {0})
    BY DEF PresentShow
  <1>6. TokenInv'
    BY <1>5 DEF IInv, TokenInv, PresentShow
  <1>7. TokensHeld'
    <2>1. tokens = {done[s] : s \in Slot} \ {0}
      BY DEF IInv, TokensHeld, PresentShow
    <2>2. ppc' = "finish" /\ ptok' = t /\ UNCHANGED slotVars /\ UNCHANGED image
      BY <1>5 DEF PresentShow
    <2>3. tokens' = ({done[s] : s \in Slot} \cup {t}) \ {0}
      BY <1>5, <2>1
    <2> QED BY <2>2, <2>3 DEF IInv, TokensHeld, slotVars
  <1> QED BY <1>3, <1>4, <1>6, <1>7

\* The slot is handed back: it becomes the last free slot of the rotation.
LEMMA PresentFinishStep ==
    ASSUME IInv, PresentFinish
    PROVE  QueueInv' /\ SlotInv' /\ TokenInv' /\ TokensHeld'
  <1> DEFINE h == HandedBack
  <1>1. N \in Nat /\ 2 <= N /\ h \in Nat /\ submitted \in Nat /\ submitted <= h + N /\ h < submitted
    BY Counters DEF IInv, PresentFinish
  <1>2. Taken' = Taken /\ HandedBack' = h + 1 /\ Composed' = Composed /\ Taken = h + 1
    BY DEF PresentFinish, Taken, HandedBack, Composed, IInv, TypeOK
  <1>3. pslot = h % N /\ pslot \in Slot /\ state[pslot] = "presenting" /\ image[pslot] = pready
    BY DEF IInv, SlotInv, PresentFinish, TypeOK
  <1>4. state' = [state EXCEPT ![pslot] = "free"] /\ state \in [Slot -> SlotState]
    BY DEF PresentFinish, IInv, TypeOK
  <1>5. \A j \in h + 1 .. h + N - 1 : state'[j % N] = state[j % N]
    <2> SUFFICES ASSUME NEW j \in h + 1 .. h + N - 1 PROVE state'[j % N] = state[j % N]
      OBVIOUS
    <2> HIDE DEF h
    <2>1. j \in Nat /\ j # h /\ j < h + N /\ h < j + N
      BY <1>1
    <2>2. j % N # pslot
      BY <1>1, <1>3, <2>1, SlotsDiffer
    <2> QED BY <1>4, <2>1, <2>2, SlotIn
  <1>6. QueueInv'
    <2>1. \A j \in Taken .. submitted - 1 : state'[j % N] = "queued"
      <3> SUFFICES ASSUME NEW j \in Taken .. submitted - 1 PROVE state'[j % N] = "queued"
        OBVIOUS
      <3>1. j \in h + 1 .. h + N - 1
        BY <1>1, <1>2
      <3> QED BY <1>5, <3>1 DEF IInv, QueueInv
    <2>2. UNCHANGED <<ready, queue, qHead, qLen, cpc, image, submitted>>
      BY DEF PresentFinish, queueVars
    <2>3. cpc # "submit" => submitted < h + N
      BY Counters DEF IInv
    <2>4. /\ qLen = submitted - Taken /\ qHead = Taken % MaxSlots
          /\ \A j \in Taken .. submitted - 1 :
                queue[j % MaxSlots] = j % N /\ ready[j % N] = j + 1 /\ image[j % N] = j + 1
      BY DEF IInv, QueueInv
    <2> HIDE DEF h
    <2>5. /\ HandedBack' \in Nat /\ Taken' <= submitted' /\ submitted' - HandedBack' <= N
          /\ cpc' # "submit" => submitted' - HandedBack' < N
      BY <1>1, <1>2, <2>2, <2>3
    <2> QED BY <1>2, <2>1, <2>2, <2>4, <2>5 DEF QueueInv
  <1>7. SlotInv'
    <2>1. \A j \in Composed .. h + N : state'[j % N] = "free"
      <3> SUFFICES ASSUME NEW j \in Composed .. h + N PROVE state'[j % N] = "free"
        OBVIOUS
      <3>0. Composed \in Nat /\ submitted <= Composed
        BY <1>1 DEF Composed
      <3>1. CASE j = h + N
        <4>1. (h + N) % N = h % N
          <5>1. ((N % N) + h) % N = (N + h) % N
            BY <1>1, NFacts, ModPlus
          <5>2. (N * 1 + 0) % N = 0
            BY <1>1, NFacts, ModUnique
          <5> HIDE DEF h
          <5>3. N * 1 + 0 = N /\ N + h = h + N /\ 0 + h = h
            BY <1>1
          <5> QED BY <5>1, <5>2, <5>3
        <4> QED BY <1>3, <1>4, <3>1, <4>1
      <3>2. CASE j # h + N
        <4>1. j \in Composed .. h + N - 1 /\ j \in h + 1 .. h + N - 1
          BY <1>1, <3>0, <3>2
        <4>2. state[j % N] = "free"
          BY <4>1 DEF IInv, SlotInv
        <4> QED BY <1>5, <4>1, <4>2
      <3> QED BY <3>1, <3>2
    <2>2. state[current] = "composing" => state'[current] = "composing"
      BY <1>3, <1>4
    <2>3. UNCHANGED <<cpc, current, running>> /\ ppc' = "loop"
      BY DEF PresentFinish
    <2>4. Composed > 0 /\ current = (Composed - 1) % N
      BY DEF IInv, SlotInv
    <2>5. HandedBack' + N - 1 = h + N
      BY <1>1, <1>2
    <2> HIDE DEF h
    <2> QED BY <1>2, <2>1, <2>2, <2>3, <2>4, <2>5 DEF IInv, SlotInv
  <1>8. TokenInv'
    BY DEF IInv, TokenInv, PresentFinish
  <1>9. TokensHeld'
    <2>1. done[pslot] = 0
      BY <1>3 DEF IInv, TokensHeld
    <2>2. ptok \in {0, image[pslot]}
      BY <1>3 DEF IInv, TokenInv, PresentFinish
    <2>3. done' = [done EXCEPT ![pslot] = ptok] /\ done \in [Slot -> Nat]
      BY DEF PresentFinish, IInv, TypeOK
    <2>4. {done'[s] : s \in Slot} \ {0} = ({done[s] : s \in Slot} \cup {ptok}) \ {0}
      BY <1>3, <2>1, <2>3
    <2>5. tokens' = {done'[s] : s \in Slot} \ {0}
      BY <2>4 DEF IInv, TokensHeld, PresentFinish
    <2>6. \A s \in Slot : done'[s] # 0 => state'[s] = "free" /\ done'[s] = image[s]
      BY <1>3, <1>4, <2>2, <2>3 DEF IInv, TokensHeld
    <2> QED BY <2>5, <2>6 DEF TokensHeld, PresentFinish
  <1> QED BY <1>6, <1>7, <1>8, <1>9

\* The last act of the present thread: the leftover tokens are disposed of.
LEMMA PresentLeaveStep ==
    ASSUME IInv, PresentLeave
    PROVE  QueueInv' /\ SlotInv' /\ TokenInv' /\ TokensHeld'
  <1>1. Taken' = Taken /\ HandedBack' = HandedBack /\ Composed' = Composed
    BY DEF PresentLeave, Taken, HandedBack, Composed
  <1>2. QueueInv' /\ SlotInv' /\ TokenInv'
    BY <1>1 DEF IInv, QueueInv, SlotInv, TokenInv, PresentLeave, queueVars, localVars
  <1>3. tokens' = {} /\ \A s \in Slot : done'[s] = 0
    BY DEF IInv, TokensHeld, PresentLeave
  <1>4. TokensHeld'
    BY <1>3 DEF TokensHeld, PresentLeave
  <1> QED BY <1>2, <1>4

\* Two different slots never hold images of the same frame.
LEMMA ImagesDiffer ==
    ASSUME IInv, NEW s \in Slot, NEW r \in Slot, s # r, image[s] # 0
    PROVE  image[s] # image[r]
  BY DEF IInv, TokenInv

\* Taking a slot removes exactly its own token.
LEMMA TokensAfterTake ==
    ASSUME IInv, NEW st, NEW x \in Slot, NEW awake, TookNext(st, x, awake),
           st \in [Slot -> SlotState], state[x] = "free",
           \A s \in Slot : state[s] = "free" => st[s] = "free",
           UNCHANGED <<image, ppc, ptok>>
    PROVE  TokensHeld'
  <1>1. done' = [done EXCEPT ![x] = 0] /\ done \in [Slot -> Nat]
    BY DEF TookNext, IInv, TypeOK
  <1>2. state' = [st EXCEPT ![x] = "composing"]
    BY DEF TookNext
  <1>3. \A s \in Slot : done[s] # 0 => state[s] = "free" /\ done[s] = image[s]
    BY DEF IInv, TokensHeld
  <1>4. \A s \in Slot : s # x /\ done[s] # 0 => done[s] # done[x]
    BY <1>3, ImagesDiffer
  <1>5. ppc = "finish" /\ ptok # 0 => ptok # done[x]
    <2> SUFFICES ASSUME ppc = "finish", ptok # 0 PROVE ptok # done[x]
      OBVIOUS
    <2>1. pslot \in Slot /\ pslot # x /\ ptok = image[pslot] /\ image[pslot] # 0
      BY DEF IInv, SlotInv, TokenInv, TypeOK
    <2>2. image[pslot] # image[x]
      BY <2>1, ImagesDiffer
    <2> QED BY <1>3, <2>1, <2>2
  <1>6. tokens' = ({done'[s] : s \in Slot} \cup (IF ppc = "finish" THEN {ptok} ELSE {})) \ {0}
    <2> DEFINE extra == IF ppc = "finish" THEN {ptok} ELSE {}
    <2>1. tokens = ({done[s] : s \in Slot} \cup extra) \ {0} /\ tokens' = tokens \ {done[x]}
      BY DEF IInv, TokensHeld, TookNext
    <2>2. \A e \in extra : e # 0 => e # done[x]
      BY <1>5
    <2> HIDE DEF extra
    <2>3. tokens' = ({done'[s] : s \in Slot} \cup extra) \ {0}
      BY <1>1, <1>4, <2>1, <2>2
    <2> QED BY <2>3 DEF extra
  <1>7. \A s \in Slot : done'[s] # 0 => state'[s] = "free" /\ done'[s] = image[s]
    BY <1>1, <1>2, <1>3
  <1> QED BY <1>6, <1>7 DEF TokensHeld

\* pt_submit queues the frame and moves on.
LEMMA SubmitStep ==
    ASSUME IInv, Submit
    PROVE  QueueInv' /\ SlotInv' /\ TokenInv' /\ TokensHeld'
  <1> DEFINE m == submitted
             h == HandedBack
             st == [state EXCEPT ![current] = "queued"]
  <1>1. /\ N \in Nat /\ 2 <= N /\ m \in Nat /\ h \in Nat /\ Taken \in Nat
        /\ h <= Taken /\ Taken <= m /\ m < h + N
    BY Counters DEF IInv, Submit
  <1>2. current = m % N /\ current \in Slot /\ state[current] = "composing"
    BY <1>1 DEF IInv, SlotInv, Composed, Submit, TypeOK
  <1>3. /\ Taken' = Taken /\ HandedBack' = h /\ submitted' = m + 1
        /\ UNCHANGED <<qHead, image, ppc, pslot, pready, ptok, running>>
    BY DEF Submit, Taken, HandedBack, localVars
  <1>4. /\ state \in [Slot -> SlotState] /\ st \in [Slot -> SlotState] /\ st[current] = "queued"
        /\ \A s \in Slot : s # current => st[s] = state[s]
    BY <1>2 DEF IInv, TypeOK, SlotState
  <1>5. \A j \in h .. h + N - 1 : j # m => j \in Nat /\ j % N \in Slot /\ j % N # current
                                         /\ j % MaxSlots # m % MaxSlots
    <2> SUFFICES ASSUME NEW j \in h .. h + N - 1, j # m
                 PROVE  j \in Nat /\ j % N \in Slot /\ j % N # current
                        /\ j % MaxSlots # m % MaxSlots
      OBVIOUS
    <2> HIDE DEF m, h
    <2>1. j \in Nat /\ j < m + N /\ m < j + N
      BY <1>1
    <2> QED BY <1>1, <1>2, <2>1, SlotsDiffer, SlotIn
  <1>6. \/ m + 1 <= h + N - 1 /\ TookNext(st, (m + 1) % N, {})
        \/ h + N - 1 <= m /\ FoundNone(st, {})
    BY SubmitOutcome
  <1>7. \A j \in h .. m : state'[j % N] = st[j % N]
    <2>1. CASE FoundNone(st, {})
      BY <2>1 DEF FoundNone
    <2>2. CASE m + 1 <= h + N - 1 /\ TookNext(st, (m + 1) % N, {})
      <3> SUFFICES ASSUME NEW j \in h .. m PROVE state'[j % N] = st[j % N]
        OBVIOUS
      <3>1. state' = [st EXCEPT ![(m + 1) % N] = "composing"]
        BY <2>2 DEF TookNext
      <3> HIDE DEF m, h, st
      <3>2. j \in Nat /\ m + 1 \in Nat /\ j # m + 1 /\ j < m + 1 + N /\ m + 1 < j + N
        BY <1>1, <2>2
      <3>3. j % N # (m + 1) % N /\ j % N \in Slot
        BY <3>2, SlotsDiffer, SlotIn
      <3> QED BY <1>4, <3>1, <3>3
    <2> QED BY <1>6, <2>1, <2>2
  <1>8. QueueInv'
    <2>1. (qHead + qLen) % MaxSlots = m % MaxSlots
      <3>1. qHead = Taken % MaxSlots /\ qLen = m - Taken /\ qLen \in Nat
        BY <1>1 DEF IInv, QueueInv
      <3>2. ((Taken % MaxSlots) + qLen) % MaxSlots = (Taken + qLen) % MaxSlots
        BY <1>1, <3>1, NFacts, ModPlus
      <3>3. Taken + qLen = m
        BY <1>1, <3>1
      <3> QED BY <3>1, <3>2, <3>3
    <2>2. /\ queue' = [queue EXCEPT ![m % MaxSlots] = current] /\ queue \in [Index -> Slot]
          /\ ready' = [ready EXCEPT ![current] = m + 1] /\ ready \in [Slot -> Nat]
          /\ qLen' = qLen + 1 /\ image[current] = m + 1
      BY <2>1 DEF Submit, IInv, TypeOK
    <2>3. \A j \in Taken .. m :
             /\ queue'[j % MaxSlots] = j % N
             /\ state'[j % N] = "queued" /\ ready'[j % N] = j + 1 /\ image[j % N] = j + 1
      <3> SUFFICES ASSUME NEW j \in Taken .. m
                   PROVE  /\ queue'[j % MaxSlots] = j % N
                          /\ state'[j % N] = "queued" /\ ready'[j % N] = j + 1
                          /\ image[j % N] = j + 1
        OBVIOUS
      <3>1. j \in Nat /\ j \in h .. m /\ j % MaxSlots \in Index
        <4>1. j \in Nat /\ j \in h .. m
          BY <1>1
        <4> QED BY <4>1, SlotIn
      <3>2. state'[j % N] = st[j % N]
        BY <1>7, <3>1
      <3>3. CASE j = m
        BY <1>2, <1>4, <2>2, <3>1, <3>2, <3>3
      <3>4. CASE j # m
        <4>1. j \in Taken .. submitted - 1 /\ j \in h .. h + N - 1
          BY <1>1, <3>4
        <4>2. j % N \in Slot /\ j % N # current /\ j % MaxSlots # m % MaxSlots
          BY <1>5, <3>4, <4>1
        <4>3. queue'[j % MaxSlots] = queue[j % MaxSlots] /\ ready'[j % N] = ready[j % N]
          BY <2>2, <3>1, <4>2
        <4>4. st[j % N] = state[j % N]
          BY <1>4, <4>2
        <4> QED BY <3>2, <4>1, <4>3, <4>4 DEF IInv, QueueInv
      <3> QED BY <3>3, <3>4
    <2>4. submitted' - HandedBack' <= N /\ (cpc' # "submit" => submitted' - HandedBack' < N)
      <3>1. cpc' # "submit" => m + 1 <= h + N - 1
        BY <1>6 DEF FoundNone
      <3> HIDE DEF m, h
      <3> QED BY <1>1, <1>3, <3>1
    <2>5. qHead' = Taken % MaxSlots /\ qLen' = (m + 1) - Taken
      BY <1>1, <1>3, <2>2 DEF IInv, QueueInv
    <2> HIDE DEF m, h, st
    <2>6. submitted' - 1 = m /\ Taken' <= submitted' /\ HandedBack' \in Nat
      BY <1>1, <1>3
    <2> QED BY <1>3, <2>3, <2>4, <2>5, <2>6 DEF QueueInv
  <1>9. SlotInv'
    <2>1. ppc \in {"present", "finish"} =>
             /\ pslot = h % N /\ state'[pslot] = "presenting"
             /\ pready = h + 1 /\ image[pslot] = pready
      <3> SUFFICES ASSUME ppc \in {"present", "finish"} PROVE state'[pslot] = "presenting"
        BY DEF IInv, SlotInv
      <3>1. h < m /\ h \in h .. m /\ h \in h .. h + N - 1 /\ h # m
        BY <1>1, Counters DEF IInv
      <3>2. state'[h % N] = st[h % N] /\ st[h % N] = state[h % N]
        BY <1>4, <1>5, <1>7, <3>1
      <3> QED BY <3>2 DEF IInv, SlotInv
    <2>2. CASE m + 1 <= h + N - 1 /\ TookNext(st, (m + 1) % N, {})
      <3>1. cpc' = "idle" /\ current' = (m + 1) % N /\ state' = [st EXCEPT ![(m + 1) % N] = "composing"]
        BY <2>2 DEF TookNext
      <3>2. Composed' = m + 2 /\ Composed' > 0 /\ (Composed' - 1) = m + 1
        BY <1>1, <1>3, <3>1 DEF Composed
      <3>3. state'[current'] = "composing"
        BY <1>1, <1>4, <3>1, SlotIn
      <3>4. \A j \in m + 2 .. h + N - 1 : state'[j % N] = "free"
        <4> SUFFICES ASSUME NEW j \in m + 2 .. h + N - 1 PROVE state'[j % N] = "free"
          OBVIOUS
        <4>1. j \in m + 1 .. h + N - 1 /\ j \in h .. h + N - 1 /\ j # m
          BY <1>1
        <4>2. state[j % N] = "free" /\ st[j % N] = state[j % N] /\ j % N \in Slot /\ j \in Nat
          BY <1>4, <1>5, <4>1 DEF IInv, SlotInv, Composed, Submit
        <4> HIDE DEF m, h, st
        <4>3. m + 1 \in Nat /\ j # m + 1 /\ j < m + 1 + N /\ m + 1 < j + N
          BY <1>1, <4>1
        <4>4. j % N # (m + 1) % N
          BY <4>2, <4>3, SlotsDiffer
        <4> QED BY <1>4, <3>1, <4>2, <4>4
      <3> HIDE DEF m, h, st
      <3> QED BY <1>3, <2>1, <3>1, <3>2, <3>3, <3>4 DEF SlotInv
    <2>3. CASE h + N - 1 <= m /\ FoundNone(st, {})
      <3>1. cpc' = "submit" /\ current' = current /\ state' = st
        BY <2>3 DEF FoundNone
      <3>2. Composed' = m + 1 /\ Composed' > 0 /\ (Composed' - 1) = m
        BY <1>1, <1>3, <3>1 DEF Composed
      <3>3. m + 1 .. h + N - 1 = {}
        BY <1>1, <2>3
      <3> HIDE DEF m, h, st
      <3> QED BY <1>2, <1>3, <2>1, <3>1, <3>2, <3>3 DEF SlotInv
    <2> QED BY <1>6, <2>2, <2>3
  <1>10. TokenInv'
    BY <1>1, <1>3 DEF IInv, TokenInv, TypeOK
  <1>11. TokensHeld'
    <2>1. \A s \in Slot : state[s] = "free" => st[s] = "free"
      BY <1>2, <1>4
    <2>2. CASE m + 1 <= h + N - 1 /\ TookNext(st, (m + 1) % N, {})
      <3>1. (m + 1) % N \in Slot
        BY <1>1, SlotIn
      <3>2. state[(m + 1) % N] = "free"
        <4>1. m + 1 \in Composed .. h + N - 1
          BY <1>1, <2>2 DEF Composed, Submit
        <4> QED BY <4>1 DEF IInv, SlotInv
      <3> HIDE DEF m, h, st
      <3> QED BY <1>3, <1>4, <2>1, <2>2, <3>1, <3>2, TokensAfterTake
    <2>3. CASE FoundNone(st, {})
      BY <1>3, <2>1, <2>3 DEF FoundNone, IInv, TokensHeld
    <2> QED BY <1>6, <2>2, <2>3
  <1> QED BY <1>8, <1>9, <1>10, <1>11

\* pt_submit takes a slot after a wait.
LEMMA RetryStep ==
    ASSUME IInv, SubmitRetry
    PROVE  QueueInv' /\ SlotInv' /\ TokenInv' /\ TokensHeld'
  <1> DEFINE m == submitted
             h == HandedBack
  <1>1. /\ N \in Nat /\ 2 <= N /\ m \in Nat /\ h \in Nat /\ Taken \in Nat
        /\ h <= Taken /\ Taken <= m /\ m <= h + N
    BY Counters DEF IInv
  <1>2. /\ Taken' = Taken /\ HandedBack' = h /\ submitted' = m
        /\ UNCHANGED <<ready, queue, qHead, qLen, image, ppc, pslot, pready, ptok, running>>
    BY DEF SubmitRetry, Taken, HandedBack, localVars, queueVars
  <1>3. state \in [Slot -> SlotState] /\ m % N \in Slot /\ cpc = "submit" /\ Composed = m
    BY <1>1, SlotIn DEF IInv, TypeOK, SubmitRetry, Composed
  <1>4. CASE h + N = m /\ FoundNone(state, asleep)
    <2>1. UNCHANGED <<state, current, done, tokens>> /\ cpc' = "submit"
      BY <1>4 DEF FoundNone
    <2>2. Composed' = Composed
      BY <1>2, <1>3, <2>1 DEF Composed
    <2>3. QueueInv'
      BY <1>2, <1>3, <2>1 DEF IInv, QueueInv
    <2>4. SlotInv'
      BY <1>2, <1>3, <2>1, <2>2 DEF IInv, SlotInv
    <2>5. TokenInv' /\ TokensHeld'
      BY <1>2, <2>1 DEF IInv, TokenInv, TokensHeld
    <2> QED BY <2>3, <2>4, <2>5
  <1>5. CASE m <= h + N - 1 /\ TookNext(state, m % N, asleep)
    <2>1. /\ cpc' = "idle" /\ current' = m % N
          /\ state[m % N] = "free" /\ state' = [state EXCEPT ![m % N] = "composing"]
      BY <1>5 DEF TookNext
    <2>2. \A j \in h .. h + N - 1 : j # m => state'[j % N] = state[j % N]
      <3> SUFFICES ASSUME NEW j \in h .. h + N - 1, j # m
                   PROVE  state'[j % N] = state[j % N]
        OBVIOUS
      <3> HIDE DEF m, h
      <3>1. j \in Nat /\ j < m + N /\ m < j + N
        BY <1>1, <1>5
      <3>2. j % N # m % N /\ j % N \in Slot
        BY <1>1, <3>1, SlotsDiffer, SlotIn
      <3> QED BY <1>3, <2>1, <3>2
    <2>3. QueueInv'
      <3>1. \A j \in Taken .. m - 1 : state'[j % N] = "queued"
        <4> SUFFICES ASSUME NEW j \in Taken .. m - 1 PROVE state'[j % N] = "queued"
          OBVIOUS
        <4>1. j \in h .. h + N - 1 /\ j # m
          <5> HIDE DEF m, h
          <5> QED BY <1>1
        <4>2. state[j % N] = "queued"
          BY DEF IInv, QueueInv
        <4> QED BY <2>2, <4>1, <4>2
      <3>2. /\ qLen = m - Taken /\ qHead = Taken % MaxSlots
            /\ \A j \in Taken .. m - 1 :
                  queue[j % MaxSlots] = j % N /\ ready[j % N] = j + 1 /\ image[j % N] = j + 1
        BY DEF IInv, QueueInv
      <3> HIDE DEF m, h
      <3>3. /\ HandedBack' \in Nat /\ Taken' <= submitted' /\ submitted' - HandedBack' <= N
            /\ submitted' - HandedBack' < N
        BY <1>1, <1>2, <1>5
      <3> QED BY <1>2, <3>1, <3>2, <3>3 DEF QueueInv
    <2>4. SlotInv'
      <3>1. ppc \in {"present", "finish"} =>
               /\ pslot = h % N /\ state'[pslot] = "presenting"
               /\ pready = h + 1 /\ image[pslot] = pready
        <4> SUFFICES ASSUME ppc \in {"present", "finish"} PROVE state'[pslot] = "presenting"
          BY DEF IInv, SlotInv
        <4>1. h \in h .. h + N - 1 /\ h # m
          BY <1>1, Counters DEF IInv
        <4> QED BY <2>2, <4>1 DEF IInv, SlotInv
      <3>2. Composed' = m + 1 /\ Composed' > 0 /\ Composed' - 1 = m
        BY <1>1, <1>2, <2>1 DEF Composed
      <3>3. \A j \in m + 1 .. h + N - 1 : state'[j % N] = "free"
        <4> SUFFICES ASSUME NEW j \in m + 1 .. h + N - 1 PROVE state'[j % N] = "free"
          OBVIOUS
        <4>1. j \in m .. h + N - 1 /\ j \in h .. h + N - 1 /\ j # m
          BY <1>1
        <4>2. state[j % N] = "free"
          BY <1>3, <4>1 DEF IInv, SlotInv
        <4> QED BY <2>2, <4>1, <4>2
      <3>4. state'[current'] = "composing"
        BY <1>3, <2>1
      <3> HIDE DEF m, h
      <3> QED BY <1>2, <2>1, <3>1, <3>2, <3>3, <3>4 DEF SlotInv
    <2>5. TokenInv'
      BY <1>2 DEF IInv, TokenInv
    <2>6. TokensHeld'
      <3> HIDE DEF m, h
      <3> QED BY <1>2, <1>3, <1>5, <2>1, TokensAfterTake
    <2> QED BY <2>3, <2>4, <2>5, <2>6
  <1> QED BY <1>4, <1>5, RetryOutcome

\* Every step keeps the queue, the slots and the tokens.
LEMMA DataStep ==
    IInv /\ [Next]_vars => QueueInv' /\ SlotInv' /\ TokenInv' /\ TokensHeld'
  <1> SUFFICES ASSUME IInv, [Next]_vars
               PROVE  QueueInv' /\ SlotInv' /\ TokenInv' /\ TokensHeld'
    OBVIOUS
  <1>1. CASE UNCHANGED vars
    <2>1. DataSame
      BY <1>1 DEF vars, slotVars, queueVars, localVars, DataSame, Keeping
    <2> QED BY <2>1, DataKept
  <1>2. CASE \/ Create \/ AwaitInit \/ Stop \/ Join \/ Drain \/ PresentCtx \/ PresentInit
             \/ PresentWait \/ PresentRelease \/ Spurious
    BY <1>2, QuietSteps, DataKept
  <1> QED BY <1>1, <1>2, StartStep, ComposeStep, SubmitStep, RetryStep, PresentTakeStep,
             PresentShowStep, PresentFinishStep, PresentLeaveStep
          DEF Next, ComposerCall, ComposerStep, PresentStep

\* Every step keeps the types.
LEMMA TypeStep == IInv /\ [Next]_vars => TypeOK'
  <1> SUFFICES ASSUME IInv, [Next]_vars PROVE TypeOK'
    OBVIOUS
  <1> USE DEF TypeOK, SlotState, ComposerPc, PresentPc, slotVars, queueVars, initVars, localVars
  <1>0. 0 \in Slot /\ 0 \in Index
    BY NFacts DEF Slot, Index
  <1>1. CASE UNCHANGED vars
    BY <1>1 DEF vars, IInv
  <1>2. CASE Start
    BY <1>0, <1>2 DEF Start, IInv
  <1>3. CASE Create
    BY <1>0, <1>3 DEF Create, IInv
  <1>4. CASE AwaitInit
    BY <1>0, <1>4 DEF AwaitInit, IInv
  <1>5. CASE Stop
    BY <1>0, <1>5 DEF Stop, IInv
  <1>6. CASE Join
    BY <1>0, <1>6 DEF Join, IInv
  <1>7. CASE Compose
    BY <1>0, <1>7 DEF Compose, IInv
  <1>8. CASE Submit
    <2>1. (submitted + 1) % N \in Slot
      BY SlotIn DEF IInv
    <2>2. [state EXCEPT ![current] = "queued"] \in [Slot -> SlotState]
      BY DEF IInv
    <2>3. /\ state' \in [Slot -> SlotState] /\ current' \in Slot /\ done' \in [Slot -> Nat]
          /\ tokens' \in SUBSET Nat /\ asleep' \in SUBSET {"composer", "present"}
          /\ cpc' \in ComposerPc
      <3> DEFINE st == [state EXCEPT ![current] = "queued"]
                 x == (submitted + 1) % N
      <3>1. TookNext(st, x, {}) \/ FoundNone(st, {})
        BY <1>8, SubmitOutcome
      <3>2. st \in [Slot -> SlotState] /\ x \in Slot
        BY <2>1, <2>2
      <3> HIDE DEF st, x
      <3>3. CASE TookNext(st, x, {})
        BY <3>2, <3>3 DEF TookNext, IInv
      <3>4. CASE FoundNone(st, {})
        BY <3>2, <3>4 DEF FoundNone, IInv
      <3> QED BY <3>1, <3>3, <3>4
    <2>4. queue' \in [Index -> Slot] /\ ready' \in [Slot -> Nat] /\ qLen' \in Nat
      <3>1. /\ queue' = [queue EXCEPT ![(qHead + qLen) % MaxSlots] = current]
            /\ ready' = [ready EXCEPT ![current] = submitted + 1] /\ qLen' = qLen + 1
        BY <1>8 DEF Submit
      <3>2. queue \in [Index -> Slot] /\ ready \in [Slot -> Nat] /\ qLen \in Nat
            /\ current \in Slot /\ submitted + 1 \in Nat
        BY DEF IInv
      <3> DEFINE i == (qHead + qLen) % MaxSlots
      <3> HIDE DEF i
      <3>3. queue' = [queue EXCEPT ![i] = current]
        BY <3>1 DEF i
      <3>4. queue' \in [Index -> Slot]
        BY <3>2, <3>3
      <3>5. ready' \in [Slot -> Nat] /\ qLen' \in Nat
        BY <1>8, <3>2 DEF Submit
      <3> QED BY <3>4, <3>5
    <2>5. /\ qHead' \in Index /\ submitted' \in Nat /\ shown' \in Nat /\ image' \in [Slot -> Nat]
          /\ pslot' \in Slot /\ pready' \in Nat /\ ptok' \in Nat /\ ppc' \in PresentPc
      BY <1>8 DEF Submit, IInv
    <2>6. /\ running' \in BOOLEAN /\ stop' \in BOOLEAN /\ initDone' \in BOOLEAN
          /\ initOk' \in BOOLEAN /\ locked' \in BOOLEAN /\ ctxOn' \in BOOLEAN
      BY <1>8 DEF Submit, IInv
    <2> QED BY <2>3, <2>4, <2>5, <2>6
  <1>9. CASE SubmitRetry
    <2>1. submitted % N \in Slot
      BY SlotIn DEF IInv
    <2>2. /\ state' \in [Slot -> SlotState] /\ current' \in Slot /\ done' \in [Slot -> Nat]
          /\ tokens' \in SUBSET Nat /\ asleep' \in SUBSET {"composer", "present"}
          /\ cpc' \in ComposerPc
      <3> DEFINE x == submitted % N
      <3>1. (TookNext(state, x, asleep) \/ FoundNone(state, asleep)) /\ x \in Slot
        BY <1>9, <2>1, RetryOutcome
      <3> HIDE DEF x
      <3>2. CASE TookNext(state, x, asleep)
        BY <3>1, <3>2 DEF TookNext, IInv
      <3>3. CASE FoundNone(state, asleep)
        BY <3>3 DEF FoundNone, IInv
      <3> QED BY <3>1, <3>2, <3>3
    <2> QED BY <1>9, <2>2 DEF SubmitRetry, IInv
  <1>10. CASE Drain
    BY <1>0, <1>10 DEF Drain, Busy, IInv
  <1>11. CASE PresentCtx
    BY <1>0, <1>11 DEF PresentCtx, IInv
  <1>12. CASE PresentInit
    BY <1>0, <1>12 DEF PresentInit, IInv
  <1>13. CASE PresentWait
    BY <1>0, <1>13 DEF PresentWait, IInv
  <1>14. CASE PresentTake
    <2>1. qHead + 1 \in Nat /\ qLen - 1 \in Nat /\ queue[qHead] \in Slot
      BY <1>14 DEF PresentTake, IInv, Index
    <2>2. (qHead + 1) % MaxSlots \in Index
      BY <2>1, SlotIn
    <2> QED BY <1>14, <2>1, <2>2 DEF PresentTake, IInv
  <1>15. CASE PresentShow
    BY <1>0, <1>15 DEF PresentShow, IInv
  <1>16. CASE PresentFinish
    BY <1>0, <1>16 DEF PresentFinish, IInv
  <1>17. CASE PresentLeave
    BY <1>0, <1>17 DEF PresentLeave, IInv
  <1>18. CASE PresentRelease
    BY <1>0, <1>18 DEF PresentRelease, IInv
  <1>19. CASE Spurious
    BY <1>0, <1>19 DEF Spurious, IInv
  <1> QED BY <1>1, <1>2, <1>3, <1>4, <1>5, <1>6, <1>7, <1>8, <1>9, <1>10, <1>11, <1>12, <1>13, <1>14, <1>15, <1>16, <1>17, <1>18, <1>19
          DEF Next, ComposerCall, ComposerStep, PresentStep

\* Every step keeps the threads in step.
LEMMA ThreadStep == IInv /\ [Next]_vars => ThreadInv'
  <1> SUFFICES ASSUME IInv, [Next]_vars PROVE ThreadInv'
    OBVIOUS
  <1> USE DEF TypeOK, ComposerPc, PresentPc, slotVars, queueVars, initVars, localVars
  <1>1. CASE UNCHANGED vars
    BY <1>1 DEF vars, IInv, ThreadInv
  <1>2. CASE Start
    BY <1>2 DEF Start, IInv, ThreadInv
  <1>3. CASE Create
    BY <1>3 DEF Create, IInv, ThreadInv
  <1>4. CASE AwaitInit
    BY <1>4 DEF AwaitInit, IInv, ThreadInv
  <1>5. CASE Stop
    BY <1>5 DEF Stop, IInv, ThreadInv
  <1>6. CASE Join
    BY <1>6 DEF Join, IInv, ThreadInv
  <1>7. CASE Compose
    BY <1>7 DEF Compose, IInv, ThreadInv
  <1>8. CASE Submit
    BY <1>8 DEF Submit, TakeSlot, IInv, ThreadInv
  <1>9. CASE SubmitRetry
    BY <1>9 DEF SubmitRetry, TakeSlot, IInv, ThreadInv
  <1>10. CASE Drain
    BY <1>10 DEF Drain, Busy, IInv, ThreadInv
  <1>11. CASE PresentCtx
    BY <1>11 DEF PresentCtx, IInv, ThreadInv
  <1>12. CASE PresentInit
    BY <1>12 DEF PresentInit, IInv, ThreadInv
  <1>13. CASE PresentWait
    BY <1>13 DEF PresentWait, IInv, ThreadInv
  <1>14. CASE PresentTake
    BY <1>14 DEF PresentTake, IInv, ThreadInv, QueueInv, Taken
  <1>15. CASE PresentShow
    BY <1>15 DEF PresentShow, IInv, ThreadInv
  <1>16. CASE PresentFinish
    BY <1>16 DEF PresentFinish, IInv, ThreadInv
  <1>17. CASE PresentLeave
    BY <1>17 DEF PresentLeave, QueueInv, Taken, IInv, ThreadInv
  <1>18. CASE PresentRelease
    BY <1>18 DEF PresentRelease, IInv, ThreadInv
  <1>19. CASE Spurious
    BY <1>19 DEF Spurious, IInv, ThreadInv
  <1> QED BY <1>1, <1>2, <1>3, <1>4, <1>5, <1>6, <1>7, <1>8, <1>9, <1>10, <1>11, <1>12, <1>13, <1>14, <1>15, <1>16, <1>17, <1>18, <1>19
          DEF Next, ComposerCall, ComposerStep, PresentStep

\* Nothing runs at first.
LEMMA InvInit == Init => IInv
  <1> SUFFICES ASSUME Init PROVE IInv
    OBVIOUS
  <1>1. 0 \in Slot /\ 0 \in Index /\ 0 % N = 0 /\ 0 % MaxSlots = 0 /\ N \in Nat /\ 2 <= N
    BY NFacts DEF Slot, Index
  <1>2. TypeOK
    BY <1>1 DEF Init, TypeOK, SlotState, ComposerPc, PresentPc
  <1>3. Taken = 0 /\ HandedBack = 0 /\ Composed = 1
    BY DEF Init, Taken, HandedBack, Composed
  <1>4. QueueInv
    BY <1>1, <1>3 DEF Init, QueueInv
  <1>5. SlotInv
    <2>1. \A j \in 1 .. 0 + N - 1 : j % N \in Slot
      BY <1>1, SlotIn
    <2> QED BY <1>1, <1>3, <2>1 DEF Init, SlotInv
  <1>6. TokenInv /\ TokensHeld /\ ThreadInv
    BY DEF Init, TokenInv, TokensHeld, ThreadInv
  <1> QED BY <1>2, <1>4, <1>5, <1>6 DEF IInv

-----------------------------------------------------------------------------
(* The theorems *)

\* Every step keeps the inductive invariant.
LEMMA InvStep == IInv /\ [Next]_vars => IInv'
  BY TypeStep, DataStep, ThreadStep DEF IInv

\* The inductive invariant holds in every state of present_thread.c's protocol.
THEOREM Invariance == Spec => []IInv
  BY InvInit, InvStep, PTL DEF Spec

\* Every variable keeps its type.
THEOREM TypeCorrect == Spec => []TypeOK
  <1>1. IInv => TypeOK
    BY DEF IInv
  <1> QED BY <1>1, Invariance, PTL

\* Frames reach the screen in submission order, each with the image its composer
\* submitted.
THEOREM InOrder == Spec => []ShownInOrder
  <1>1. IInv => ShownInOrder
    BY DEF IInv, SlotInv, HandedBack, ShownInOrder
  <1> QED BY <1>1, Invariance, PTL

\* No done token is lost, overwritten or collected twice.
THEOREM TokensKept == Spec => []TokensHeld
  <1>1. IInv => TokensHeld
    BY DEF IInv
  <1> QED BY <1>1, Invariance, PTL

\* The screen is never more than the number of slots behind the composer.
THEOREM Latency == Spec => []LatencyBounded
  <1>1. IInv => LatencyBounded
    <2> SUFFICES ASSUME IInv PROVE LatencyBounded
      OBVIOUS
    <2>1. /\ N \in Nat /\ submitted \in Nat /\ HandedBack \in Nat /\ submitted <= HandedBack + N
          /\ cpc # "submit" => submitted < HandedBack + N
      BY Counters DEF IInv
    <2>2. shown \in Nat /\ HandedBack <= shown
      BY DEF IInv, TypeOK, HandedBack
    <2> QED BY <2>1, <2>2 DEF LatencyBounded
  <1> QED BY <1>1, Invariance, PTL

\* A stop leaves nothing unshown, no token and no context behind.
THEOREM CleanStop == Spec => []StoppedClean
  <1>1. IInv => StoppedClean
    BY DEF IInv, ThreadInv, TokensHeld, StoppedClean
  <1> QED BY <1>1, Invariance, PTL

\* pt_submit always takes the slot after the current one, which is the slot shown
\* longest ago.
THEOREM Rotation == Spec => SlotsRotate
  <1>1. IInv /\ [Next]_vars => [(running /\ running') => current' \in {current, (current + 1) % N}]_vars
    <2> SUFFICES ASSUME IInv, Next, running, running'
                 PROVE  current' \in {current, (current + 1) % N}
      BY DEF vars
    <2>1. CASE Submit
      <3>1. submitted \in Nat /\ current = submitted % N
        BY <2>1 DEF IInv, TypeOK, SlotInv, Composed, Submit
      <3>2. (current + 1) % N = (submitted + 1) % N
        BY <3>1, NFacts, ModPlus
      <3>3. current' = (submitted + 1) % N \/ current' = current
        BY <2>1, SubmitOutcome DEF TookNext, FoundNone
      <3> QED BY <3>2, <3>3
    <2>2. CASE SubmitRetry
      <3>1. submitted - 1 \in Nat /\ current = (submitted - 1) % N
        BY <2>2 DEF IInv, TypeOK, SlotInv, Composed, SubmitRetry
      <3>2. (((submitted - 1) % N) + 1) % N = ((submitted - 1) + 1) % N
        BY <3>1, NFacts, ModPlus
      <3>3. (submitted - 1) + 1 = submitted
        BY DEF IInv, TypeOK
      <3>4. current' = submitted % N \/ current' = current
        BY <2>2, RetryOutcome DEF TookNext, FoundNone
      <3> QED BY <3>1, <3>2, <3>3, <3>4
    <2>3. CASE ~Submit /\ ~SubmitRetry
      BY <2>3 DEF Next, ComposerCall, ComposerStep, PresentStep, Start, Create, AwaitInit,
                  Stop, Join, Compose, Drain, PresentCtx, PresentInit, PresentWait,
                  PresentTake, PresentShow, PresentFinish, PresentLeave, PresentRelease,
                  Spurious
    <2> QED BY <2>1, <2>2, <2>3
  <1> QED BY <1>1, Invariance, PTL DEF Spec, SlotsRotate

=============================================================================
