-------------------------- MODULE DeviceClockProofs --------------------------
(***************************************************************************)
(* Proofs about the device clock, for every set of devices' delays, every  *)
(* period, cap, budget and charge.                                         *)
(***************************************************************************)
EXTENDS DeviceTimeline, Iteration, TLAPS

-----------------------------------------------------------------------------
(* The operators.                                                          *)

\* The nearer of two distances: 0 stands for no event.
LEMMA NearerType ==
    ASSUME NEW b \in Nat, b > 0, NEW d \in Nat
    PROVE  /\ Nearer(b, d) \in Nat /\ Nearer(b, d) > 0
           /\ Nearer(b, d) <= b
           /\ d # 0 => Nearer(b, d) <= d
BY DEF Nearer

LEMMA NearerMonotone ==
    ASSUME NEW x \in Nat, x > 0, NEW y \in Nat, x <= y, NEW d \in Nat, NEW e \in Nat, e = d \/ e = 0
    PROVE  /\ Nearer(x, d) \in Nat /\ Nearer(x, d) > 0
           /\ Nearer(y, e) \in Nat /\ Nearer(x, d) <= Nearer(y, e)
BY DEF Nearer

\* The distance to the next SPU sample (psx_spu_sample_event_cycles_to_next).
LEMMA SampleDistance ==
    ASSUME NEW now \in Nat
    PROVE  SpuPeriod - (now % SpuPeriod) \in Nat /\ SpuPeriod - (now % SpuPeriod) > 0
<1>1. SpuPeriod \in Nat /\ SpuPeriod > 0
  BY PeriodAssumption
<1>2. now % SpuPeriod \in 0..(SpuPeriod - 1)
  BY <1>1
<1> QED
  BY <1>1, <1>2

\* There is always a next event, at least one cycle away.
LEMMA NextEventType ==
    ASSUME NEW m \in Machine, NEW now \in Nat
    PROVE  NextEvent(m, now) \in Nat /\ NextEvent(m, now) > 0
<1> DEFINE b0 == SpuPeriod - (now % SpuPeriod)
           b1 == Nearer(b0, m.left["interrupts"])
           b2 == Nearer(b1, m.left["timers"])
           b3 == Nearer(b2, m.left["cdrom"])
           b4 == Nearer(b3, m.left["dma"])
<1>1. \A i \in Devices : m.left[i] \in Nat
  BY DEF Machine
<1>2. {"interrupts", "timers", "cdrom", "dma", "sio"} \subseteq Devices
  BY DEF Devices
<1>3. b0 \in Nat /\ b0 > 0
  BY SampleDistance
<1> HIDE DEF b0
<1>4. b1 \in Nat /\ b1 > 0
  BY <1>1, <1>2, <1>3, NearerType
<1> HIDE DEF b1
<1>5. b2 \in Nat /\ b2 > 0
  BY <1>1, <1>2, <1>4, NearerType
<1> HIDE DEF b2
<1>6. b3 \in Nat /\ b3 > 0
  BY <1>1, <1>2, <1>5, NearerType
<1> HIDE DEF b3
<1>7. b4 \in Nat /\ b4 > 0
  BY <1>1, <1>2, <1>6, NearerType
<1> HIDE DEF b4
<1>8. Nearer(b4, m.left["sio"]) \in Nat /\ Nearer(b4, m.left["sio"]) > 0
  BY <1>1, <1>2, <1>7, NearerType
<1>9. NextEvent(m, now) = Nearer(b4, m.left["sio"])
  BY DEF NextEvent, b0, b1, b2, b3, b4
<1> QED
  BY <1>8, <1>9

\* Stopping a device does not bring the next event nearer.
LEMMA StopIsLater ==
    ASSUME NEW m \in Machine, NEW now \in Nat, NEW i \in Devices
    PROVE  NextEvent(m, now) <= NextEvent([m EXCEPT !.left[i] = 0], now)
<1> DEFINE n == [m EXCEPT !.left[i] = 0]
           b0 == SpuPeriod - (now % SpuPeriod)
<1>1. b0 \in Nat /\ b0 > 0
  BY SampleDistance
<1> HIDE DEF b0
<1> DEFINE b1 == Nearer(b0, m.left["interrupts"])  c1 == Nearer(b0, n.left["interrupts"])
           b2 == Nearer(b1, m.left["timers"])      c2 == Nearer(c1, n.left["timers"])
           b3 == Nearer(b2, m.left["cdrom"])       c3 == Nearer(c2, n.left["cdrom"])
           b4 == Nearer(b3, m.left["dma"])         c4 == Nearer(c3, n.left["dma"])
           b5 == Nearer(b4, m.left["sio"])         c5 == Nearer(c4, n.left["sio"])
<1>2. \A j \in Devices : m.left[j] \in Nat /\ n.left[j] \in Nat /\ (n.left[j] = m.left[j] \/ n.left[j] = 0)
  BY DEF Machine
<1> HIDE DEF n
<1>3. \A j \in {"interrupts", "timers", "cdrom", "dma", "sio"} :
        m.left[j] \in Nat /\ n.left[j] \in Nat /\ (n.left[j] = m.left[j] \/ n.left[j] = 0)
  BY <1>2 DEF Devices
<1>4. b0 <= b0
  BY <1>1
<1>5. b1 \in Nat /\ b1 > 0 /\ c1 \in Nat /\ b1 <= c1
  BY <1>1, <1>3, <1>4, NearerMonotone
<1> HIDE DEF b1, c1
<1>6. b2 \in Nat /\ b2 > 0 /\ c2 \in Nat /\ b2 <= c2
  BY <1>5, <1>3, NearerMonotone
<1> HIDE DEF b2, c2
<1>7. b3 \in Nat /\ b3 > 0 /\ c3 \in Nat /\ b3 <= c3
  BY <1>6, <1>3, NearerMonotone
<1> HIDE DEF b3, c3
<1>8. b4 \in Nat /\ b4 > 0 /\ c4 \in Nat /\ b4 <= c4
  BY <1>7, <1>3, NearerMonotone
<1> HIDE DEF b4, c4
<1>9. b5 <= c5
  BY <1>8, <1>3, NearerMonotone
<1>10. NextEvent(m, now) = b5
  BY DEF NextEvent, b5, b4, b3, b2, b1, b0
<1>11. NextEvent(n, now) = c5
  BY DEF NextEvent, c5, c4, c3, c2, c1, b0
<1> QED
  BY <1>9, <1>10, <1>11 DEF n

\* A fresh deadline is ahead, within the cap, and not after the next event.
LEMMA FreshDeadline ==
    ASSUME NEW m \in Machine, NEW c \in Nat
    PROVE  /\ RecomputeDeadline(m, c) \in Nat
           /\ c < RecomputeDeadline(m, c)
           /\ RecomputeDeadline(m, c) <= c + HardCap
           /\ RecomputeDeadline(m, c) <= c + NextEvent(m, c)
<1>1. HardCap \in Nat /\ HardCap > 0
  BY PeriodAssumption
<1>2. NextEvent(m, c) \in Nat /\ NextEvent(m, c) > 0
  BY NextEventType
<1> DEFINE x == NextEvent(m, c)
<1> HIDE DEF x
<1>3. /\ Nearer(HardCap, x) \in Nat /\ Nearer(HardCap, x) > 0
      /\ Nearer(HardCap, x) <= HardCap
      /\ Nearer(HardCap, x) <= x
  BY <1>1, <1>2, NearerType DEF x
<1>4. RecomputeDeadline(m, c) = c + Nearer(HardCap, x)
  BY DEF RecomputeDeadline, x
<1> QED
  BY <1>1, <1>2, <1>3, <1>4 DEF x

\* Advancing a device keeps the machine a machine.
LEMMA AdvanceOneType ==
    ASSUME NEW m \in Machine, NEW i \in Devices, NEW c \in Nat, NEW now \in Nat
    PROVE  AdvanceOne(m, i, c, now) \in Machine
<1>1. m.left \in [Devices -> Nat] /\ m.fire \in [Source -> Nat] /\ m = [left |-> m.left, fire |-> m.fire]
  BY DEF Machine
<1>2. CASE m.left[i] = 0
  BY <1>2 DEF AdvanceOne
<1>3. CASE m.left[i] # 0 /\ c < m.left[i]
  <2>1. AdvanceOne(m, i, c, now) = [m EXCEPT !.left[i] = @ - c]
    BY <1>3 DEF AdvanceOne
  <2>2. m.left[i] - c \in Nat
    BY <1>1, <1>3
  <2> QED
    BY <1>1, <2>1, <2>2 DEF Machine
<1>4. CASE m.left[i] # 0 /\ ~(c < m.left[i])
  <2> DEFINE L == [j \in Devices |-> IF Arms[i][j] # 0 THEN Arms[i][j]
                                     ELSE IF j = i THEN 0 ELSE m.left[j]]
             F == [m.fire EXCEPT ![i] = now]
  <2>1. AdvanceOne(m, i, c, now) = [left |-> L, fire |-> F]
    BY <1>4 DEF AdvanceOne
  <2>2. L \in [Devices -> Nat]
    BY <1>1, ArmsAssumption
  <2>3. F \in [Source -> Nat]
    BY <1>1 DEF Source
  <2> HIDE DEF L, F
  <2> QED
    BY <2>1, <2>2, <2>3 DEF Machine
<1> QED
  BY <1>2, <1>3, <1>4

LEMMA AdvanceDevicesType ==
    ASSUME NEW m \in Machine, NEW c \in Nat, NEW now \in Nat
    PROVE  AdvanceDevices(m, c, now) \in Machine
<1> DEFINE m1 == AdvanceOne(m, "sio", c, now)
           m2 == AdvanceOne(m1, "cdrom", c, now)
           m3 == AdvanceOne(m2, "dma", c, now)
           m4 == AdvanceOne(m3, "timers", c, now)
           m5 == AdvanceOne(m4, "interrupts", c, now)
<1>1. {"interrupts", "timers", "cdrom", "dma", "sio"} \subseteq Devices /\ "spu" \in Source
  BY DEF Devices, Source
<1>2. m1 \in Machine
  BY <1>1, AdvanceOneType
<1> HIDE DEF m1
<1>3. m2 \in Machine
  BY <1>1, <1>2, AdvanceOneType
<1> HIDE DEF m2
<1>4. m3 \in Machine
  BY <1>1, <1>3, AdvanceOneType
<1> HIDE DEF m3
<1>5. m4 \in Machine
  BY <1>1, <1>4, AdvanceOneType
<1> HIDE DEF m4
<1>6. m5 \in Machine
  BY <1>1, <1>5, AdvanceOneType
<1> HIDE DEF m5
<1>7. SampleSpu(m5, now) \in Machine
  BY <1>1, <1>6 DEF SampleSpu, Machine
<1>8. AdvanceDevices(m, c, now) = SampleSpu(m5, now)
  BY DEF AdvanceDevices, m5, m4, m3, m2, m1
<1> QED
  BY <1>7, <1>8

\* A batch that starts under a live deadline stays short of it.
LEMMA BatchLimitBound ==
    ASSUME clock \in Nat, deadline \in Nat
    PROVE  /\ BatchLimit \in Nat
           /\ deadline > clock => BatchLimit <= deadline - clock
           /\ deadline <= clock => BatchLimit = 1
<1>1. BatchSoft \in Nat /\ BatchSoft > 0
  BY PeriodAssumption
<1> QED
  BY <1>1 DEF BatchLimit

-----------------------------------------------------------------------------
(* What the shared parts of the actions preserve.                          *)

\* The start of a replay (psx_devices_service_to_now).
LEMMA ServiceKeeps ==
    ASSUME IInv, NEW c \in Nat, NEW w \in Nat, NEW d \in Nat, NEW k \in {"guest", "handler", "save"},
           synced <= c, Service(c, w, d, k), mode' \in {"live", "thawed"}
    PROVE  IInv'
<1>1. TypeOK'
  BY DEF IInv, TypeOK, Service
<1>2. ~Frozen' /\ pc' = "service"
  BY DEF Frozen, Service
<1>3. LoopInv'
  BY <1>2 DEF IInv, TypeOK, LoopInv, Service
<1>4. LiveInv' /\ FrozenInv' /\ HandlerCurrent'
  BY <1>2 DEF LiveInv, FrozenInv, HandlerCurrent
<1> QED
  BY <1>1, <1>3, <1>4 DEF IInv

\* The start of a single-cycle walk (psx_advance_cycles_exact).
LEMMA WalkKeeps ==
    ASSUME IInv, NEW c \in Nat, NEW w \in Nat, NEW d \in Nat, NEW k \in {"guest", "handler", "save"},
           ~Frozen, synced <= clock, clock <= c, Walk(c, w, d, k)
    PROVE  IInv'
<1>1. TypeOK'
  BY DEF IInv, TypeOK, Walk, clockVars
<1>2. ~Frozen' /\ pc' = "exact"
  BY DEF Frozen, Walk
<1>3. LoopInv'
  BY <1>2 DEF IInv, TypeOK, LoopInv, Walk, clockVars
<1>4. LiveInv' /\ FrozenInv' /\ HandlerCurrent'
  BY <1>2 DEF LiveInv, FrozenInv, HandlerCurrent
<1> QED
  BY <1>1, <1>3, <1>4 DEF IInv

\* Leaving a freeze (psx_cycle_freeze_end): the interrupted state satisfied the invariant.
LEMMA FreezeEndKeeps ==
    ASSUME IInv, Frozen, FreezeEnd
    PROVE  IInv'
<1>1. save \in FreezeSave /\ NoFreeze \in FreezeSave
  BY DEF IInv, TypeOK, NoFreeze, FreezeSave
<1>2. TypeOK'
  BY <1>1 DEF IInv, TypeOK, FreezeEnd, FreezeSave
<1>3. ~Frozen'
  BY DEF Frozen, FreezeEnd
<1>4. save.pc \in {"guest", "service"} /\ pc' = save.pc
  BY <1>1 DEF FreezeSave, FreezeEnd
<1>5. LoopInv'
  BY <1>3, <1>4 DEF IInv, LoopInv, FrozenInv, FreezeEnd
<1>6. LiveInv'
  BY <1>3, <1>4 DEF IInv, LiveInv, FrozenInv, FreezeEnd, Window, Batched
<1>7. FrozenInv' /\ HandlerCurrent'
  BY <1>3, <1>4 DEF FrozenInv, HandlerCurrent
<1> QED
  BY <1>2, <1>5, <1>6, <1>7 DEF IInv

\* A tick of a freeze (psx_cycle_freeze_tick): it goes on, thaws, or is left.
LEMMA FreezeTickKeeps ==
    ASSUME IInv, Frozen, NEW c \in Nat, NEW w \in Nat, NEW d \in Nat, NEW p \in {"guest", "handler"},
           clock <= c, FreezeTick(c, w, d, p)
    PROVE  IInv'
<1>1. save \in FreezeSave /\ save.clock \in Nat /\ HardCap \in Nat
  BY PeriodAssumption DEF IInv, TypeOK, FreezeSave
<1>2. synced <= save.clock /\ save.clock <= clock /\ synced \in Nat /\ clock \in Nat
  BY DEF IInv, FrozenInv, TypeOK
<1>3. CASE /\ ~OverBudget(c)
           /\ clock' = c /\ deadline' = c + HardCap
           /\ batch' = 0 /\ limit' = 0 /\ defer' = d
           /\ pc' = p /\ work' = w
           /\ UNCHANGED <<synced, target, then, dev, mode, save, exact, snap, stale>>
  <2>1. TypeOK'
    BY <1>1, <1>3 DEF IInv, TypeOK
  <2>2. Frozen' /\ mode' # "live"
    BY <1>3 DEF Frozen
  <2>3. FrozenInv'
    BY <1>1, <1>2, <1>3 DEF IInv, FrozenInv, Window, Batched, Frozen
  <2>4. LoopInv' /\ LiveInv' /\ HandlerCurrent'
    BY <2>2, <1>3 DEF LoopInv, LiveInv, HandlerCurrent
  <2> QED
    BY <2>1, <2>3, <2>4 DEF IInv
<1>4. CASE /\ OverBudget(c) /\ mode = "span"
           /\ mode' = "thawed"
           /\ clock' = c /\ deadline' = 0
           /\ batch' = 0 /\ limit' = 0 /\ defer' = d
           /\ pc' = p /\ work' = w
           /\ UNCHANGED <<synced, target, then, dev, save, exact, snap, stale>>
  <2>1. TypeOK'
    BY <1>1, <1>4 DEF IInv, TypeOK
  <2>2. ~Frozen' /\ mode' # "live" /\ pc' \in {"guest", "handler"}
    BY <1>4 DEF Frozen
  <2>3. LiveInv'
    BY <1>1, <1>2, <1>4 DEF LiveInv, Window, Batched
  <2>4. LoopInv' /\ FrozenInv' /\ HandlerCurrent'
    BY <2>2 DEF LoopInv, FrozenInv, HandlerCurrent
  <2> QED
    BY <2>1, <2>3, <2>4 DEF IInv
<1>5. CASE OverBudget(c) /\ mode = "pass" /\ FreezeEnd
  BY <1>5, FreezeEndKeeps
<1> QED
  BY <1>3, <1>4, <1>5 DEF FreezeTick

\* Publishing cycles (psx_advance_cycles).
LEMMA PublishKeeps ==
    ASSUME IInv, pc = "guest", NEW c \in Nat, NEW w \in Nat, NEW d \in Nat, clock <= c, Publish(c, w, d)
    PROVE  IInv'
<1>1. clock \in Nat /\ synced \in Nat /\ deadline \in Nat
  BY DEF IInv, TypeOK
<1>2. CASE /\ Frozen \/ ~exact
           /\ ~Due(c)
           /\ clock' = c
           /\ batch' = 0 /\ limit' = 0 /\ defer' = d
           /\ work' = w
           /\ UNCHANGED <<synced, deadline, loopVars, dev, mode, save, exact, snap, stale>>
  <2>1. TypeOK'
    BY <1>2 DEF IInv, TypeOK, loopVars
  <2>2. pc' = "guest" /\ (Frozen' <=> Frozen)
    BY <1>2 DEF loopVars, Frozen
  <2>3. LoopInv' /\ HandlerCurrent'
    BY <2>2 DEF LoopInv, HandlerCurrent
  <2>4. LiveInv'
    BY <1>1, <1>2, <2>2 DEF IInv, LiveInv, Window, Batched, Due
  <2>5. FrozenInv'
    <3>1. save \in FreezeSave /\ save.clock \in Nat
      BY DEF IInv, TypeOK, FreezeSave
    <3> QED
      BY <1>1, <1>2, <2>2, <3>1 DEF IInv, FrozenInv, Window, Batched, loopVars
  <2> QED
    BY <2>1, <2>3, <2>4, <2>5 DEF IInv
<1>3. CASE Frozen /\ Due(c) /\ FreezeTick(c, w, d, "guest")
  BY <1>3, FreezeTickKeeps
<1>4. CASE ~Frozen /\ ~exact /\ Due(c) /\ Service(c, w, d, "guest") /\ UNCHANGED mode
  <2>1. synced <= c
    BY <1>1, <1>4 DEF IInv, LiveInv
  <2>2. mode' \in {"live", "thawed"}
    BY <1>4 DEF IInv, TypeOK, Frozen
  <2> QED
    BY <1>4, <2>1, <2>2, ServiceKeeps
<1>5. CASE ~Frozen /\ exact /\ Walk(c, w, d, "guest")
  <2>1. synced <= clock
    BY <1>5 DEF IInv, LiveInv
  <2> QED
    BY <1>5, <2>1, WalkKeeps
<1> QED
  BY <1>2, <1>3, <1>4, <1>5 DEF Publish

-----------------------------------------------------------------------------
(* The actions.                                                            *)

LEMMA InitKeeps == Init => IInv
<1> SUFFICES ASSUME Init PROVE IInv
  OBVIOUS
<1>1. \A i \in Devices : Arms[i][i] \in Nat
  BY ArmsAssumption
<1>2. dev \in Machine
  BY <1>1 DEF Init, Machine
<1>3. TypeOK
  BY <1>2 DEF Init, TypeOK, NoFreeze, FreezeSave
<1>4. ~Frozen /\ pc = "guest"
  BY DEF Init, Frozen
<1>5. LiveInv
  BY DEF Init, LiveInv, Window, Batched
<1> QED
  BY <1>3, <1>4, <1>5 DEF IInv, LoopInv, FrozenInv, HandlerCurrent

\* Charging (psx_cyc_charge): the batch stays short of the deadline, or is published.
LEMMA ChargeKeeps ==
    ASSUME IInv, NEW n \in Charges, Charge(n)
    PROVE  IInv'
<1> DEFINE lim == IF batch = 0 THEN BatchLimit ELSE limit
<1>1. n \in Nat /\ n > 0
  BY InputAssumption
<1>2. /\ clock \in Nat /\ synced \in Nat /\ deadline \in Nat /\ batch \in Nat /\ limit \in Nat
      /\ defer \in Nat /\ work \in Nat
  BY DEF IInv, TypeOK
<1>3. pc = "guest"
  BY DEF Charge
<1>4. BatchLimit \in Nat /\ (deadline > clock => BatchLimit <= deadline - clock) /\ (deadline <= clock => BatchLimit = 1)
  BY <1>2, BatchLimitBound
<1>5. lim \in Nat
  BY <1>2, <1>4
<1>6. CASE /\ ~exact
           /\ defer > 0 \/ batch + n < lim
           /\ batch' = batch + n
           /\ limit' = IF defer > 0 THEN limit ELSE lim
           /\ work' = work + n
           /\ UNCHANGED <<clockVars, loopVars, dev, defer, mode, save, exact, snap, stale>>
  <2>1. batch + n \in Nat /\ limit' \in Nat /\ work + n \in Nat
    BY <1>1, <1>2, <1>5, <1>6
  <2>2. TypeOK'
    BY <1>6, <2>1 DEF IInv, TypeOK, clockVars, loopVars
  <2>3. pc' = "guest" /\ (Frozen' <=> Frozen)
    BY <1>3, <1>6 DEF loopVars, Frozen
  <2>4. LoopInv' /\ HandlerCurrent'
    BY <2>3 DEF LoopInv, HandlerCurrent
  <2>5. ASSUME ~Frozen, ~stale, defer = 0
        PROVE  batch + n < lim /\ clock + lim <= deadline
    <3>1. Window(clock, deadline) /\ Batched(clock, deadline, batch, limit, defer)
      BY <1>3, <2>5 DEF IInv, LiveInv
    <3>2. batch + n < lim
      BY <1>6, <2>5
    <3>3. CASE batch # 0
      BY <1>2, <2>5, <3>1, <3>2, <3>3 DEF Batched
    <3>4. CASE batch = 0
      <4>1. deadline > clock
        BY <1>1, <1>2, <1>4, <3>2, <3>4
      <4> QED
        BY <1>2, <1>4, <3>2, <3>4, <4>1
    <3> QED
      BY <3>3, <3>4
  <2> HIDE DEF lim
  <2>6. LiveInv'
    <3>1. (synced <= clock /\ Window(clock, deadline))' \/ Frozen'
      BY <1>3, <1>6, <2>3 DEF IInv, LiveInv, Window, clockVars
    <3>2. Batched(clock, deadline, batch, limit, defer)' \/ Frozen'
      BY <1>2, <1>6, <2>3, <2>5 DEF Batched, clockVars
    <3> QED
      BY <3>1, <3>2 DEF LiveInv
  <2>7. FrozenInv'
    BY <1>6, <2>3 DEF IInv, FrozenInv, Window, Batched, clockVars, loopVars
  <2> QED
    BY <2>2, <2>4, <2>6, <2>7 DEF IInv
<1>7. CASE Publish(clock + batch + n, work + n, defer)
  <2>1. clock + batch + n \in Nat /\ work + n \in Nat /\ clock <= clock + batch + n
    BY <1>1, <1>2
  <2> QED
    BY <1>2, <1>3, <1>7, <2>1, PublishKeeps
<1> QED
  BY <1>6, <1>7 DEF Charge

LEMMA PublishersKeep ==
    ASSUME IInv, Flush \/ DeferBegin \/ DeferEnd \/ \E n \in Charges : Advance(n)
    PROVE  IInv'
<1>1. clock \in Nat /\ batch \in Nat /\ defer \in Nat /\ work \in Nat
  BY DEF IInv, TypeOK
<1>2. clock + batch \in Nat /\ clock <= clock + batch
  BY <1>1
<1>3. CASE Flush
  BY <1>1, <1>2, <1>3, PublishKeeps DEF Flush
<1>4. ASSUME NEW n \in Charges, Advance(n) PROVE IInv'
  <2>1. n \in Nat
    BY InputAssumption
  <2>2. clock + batch + n \in Nat /\ work + n \in Nat /\ clock <= clock + batch + n
    BY <1>1, <2>1
  <2> QED
    BY <1>1, <1>4, <2>2, PublishKeeps DEF Advance
<1>5. ASSUME pc = "guest", defer' \in Nat, defer' > 0 \/ batch = 0,
             UNCHANGED <<clockVars, loopVars, dev, batch, limit, mode, save, exact, snap, work, stale>>
      PROVE  IInv'
  <2>1. TypeOK'
    BY <1>5 DEF IInv, TypeOK, clockVars, loopVars
  <2>2. pc' = "guest" /\ (Frozen' <=> Frozen)
    BY <1>5 DEF loopVars, Frozen
  <2>3. LoopInv' /\ HandlerCurrent'
    BY <2>2 DEF LoopInv, HandlerCurrent
  <2>4. LiveInv'
    BY <1>1, <1>5, <2>2 DEF IInv, LiveInv, Window, Batched, clockVars
  <2>5. FrozenInv'
    BY <1>5, <2>2 DEF IInv, FrozenInv, Window, Batched, clockVars, loopVars
  <2> QED
    BY <2>1, <2>3, <2>4, <2>5 DEF IInv
<1>6. CASE DeferBegin
  BY <1>1, <1>5, <1>6 DEF DeferBegin
<1>7. CASE DeferEnd
  <2>1. CASE (defer > 1 \/ batch = 0) /\ defer' = defer - 1
             /\ UNCHANGED <<clockVars, loopVars, dev, batch, limit, mode, save, exact, snap, work, stale>>
    <3>1. defer' \in Nat /\ (defer' > 0 \/ batch = 0)
      BY <1>1, <1>7, <2>1 DEF DeferEnd
    <3> QED
      BY <1>5, <1>7, <2>1, <3>1 DEF DeferEnd
  <2>2. CASE Publish(clock + batch, work, 0)
    BY <1>1, <1>2, <1>7, <2>2, PublishKeeps DEF DeferEnd
  <2> QED
    BY <1>7, <2>1, <2>2 DEF DeferEnd
<1> QED
  BY <1>3, <1>4, <1>6, <1>7

\* One chunk of a replay, or one cycle of a walk, never passes its end.
LEMMA LoopStepKeeps ==
    ASSUME IInv, ServiceStep \/ ExactStep
    PROVE  IInv'
<1>1. clock \in Nat /\ target \in Nat /\ synced \in Nat /\ dev \in Machine /\ 1 \in Nat
  BY DEF IInv, TypeOK
<1>2. pc \in {"service", "exact"} /\ clock < target
  BY DEF ServiceStep, ExactStep
<1>3. ~Frozen /\ synced <= clock /\ batch = 0
  BY <1>2 DEF IInv, LoopInv
<1>4. SUFFICES ASSUME clock' \in Nat, clock <= clock', clock' <= target, dev' \in Machine,
                      UNCHANGED <<synced, deadline, loopVars, batchVars, mode, save, exact, snap, work, stale>>
               PROVE  IInv'
  <2>1. CASE ServiceStep
    <3> DEFINE ev == NextEvent(dev, clock)
               step == IF ev < target - clock THEN ev ELSE target - clock
               now == clock + step
    <3>1. ev \in Nat /\ ev > 0
      BY <1>1, NextEventType
    <3>2. clock' = now /\ dev' = IF step > 1 /\ ev = step
                                 THEN AdvanceDevices(AdvanceDevices(dev, step - 1, now - 1), 1, now)
                                 ELSE AdvanceDevices(dev, step, now)
      BY <2>1 DEF ServiceStep
    <3> HIDE DEF ev
    <3>3. step \in Nat /\ step > 0 /\ step - 1 \in Nat /\ now \in Nat /\ now - 1 \in Nat /\ now <= target /\ clock <= now
      BY <1>1, <1>2, <3>1
    <3> HIDE DEF step, now
    <3>4. AdvanceDevices(dev, step - 1, now - 1) \in Machine /\ AdvanceDevices(dev, step, now) \in Machine
      BY <1>1, <3>3, AdvanceDevicesType
    <3>5. AdvanceDevices(AdvanceDevices(dev, step - 1, now - 1), 1, now) \in Machine
      BY <1>1, <3>3, <3>4, AdvanceDevicesType
    <3>6. dev' \in Machine
      BY <3>2, <3>4, <3>5
    <3>7. UNCHANGED <<synced, deadline, loopVars, batchVars, mode, save, exact, snap, work, stale>>
      BY <2>1 DEF ServiceStep
    <3> QED
      BY <1>4, <3>2, <3>3, <3>6, <3>7
  <2>2. CASE ExactStep
    <3>1. clock' = clock + 1 /\ clock + 1 \in Nat /\ dev' = AdvanceDevices(dev, 1, clock + 1)
      BY <1>1, <2>2 DEF ExactStep
    <3>2. dev' \in Machine
      BY <1>1, <3>1, AdvanceDevicesType
    <3>3. UNCHANGED <<synced, deadline, loopVars, batchVars, mode, save, exact, snap, work, stale>>
      BY <2>2 DEF ExactStep
    <3> QED
      BY <1>1, <1>2, <1>4, <3>1, <3>2, <3>3
  <2> QED
    BY <2>1, <2>2
<1>5. TypeOK'
  BY <1>4 DEF IInv, TypeOK, loopVars, batchVars
<1>6. pc' = pc /\ ~Frozen'
  BY <1>3, <1>4 DEF loopVars, Frozen
<1>7. LoopInv'
  BY <1>1, <1>3, <1>4, <1>6 DEF LoopInv, loopVars, batchVars
<1>8. LiveInv' /\ FrozenInv' /\ HandlerCurrent'
  BY <1>2, <1>6 DEF LiveInv, FrozenInv, HandlerCurrent
<1> QED
  BY <1>5, <1>7, <1>8 DEF IInv

\* The end of a loop: devices are at the clock, and the deadline is fresh or dirty.
LEMMA LoopDoneKeeps ==
    ASSUME IInv, ServiceDone \/ ExactDone
    PROVE  IInv'
<1>1. clock \in Nat /\ target \in Nat /\ synced \in Nat /\ dev \in Machine
  BY DEF IInv, TypeOK
<1>2. pc \in {"service", "exact"} /\ clock >= target
  BY DEF ServiceDone, ExactDone
<1>3. ~Frozen /\ clock <= target /\ batch = 0
  BY <1>2 DEF IInv, LoopInv
<1>4. clock = target
  BY <1>1, <1>2, <1>3
<1> DEFINE dl == RecomputeDeadline(dev, clock)
<1>5. dl \in Nat /\ clock < dl /\ dl <= clock + HardCap /\ dl <= clock + NextEvent(dev, clock)
  BY <1>1, FreshDeadline
<1> HIDE DEF dl
<1>6. /\ synced' = clock /\ clock' = clock /\ dev' = dev /\ stale' = FALSE
      /\ deadline' \in {0, dl}
      /\ UNCHANGED <<batchVars, mode, save, exact, work>>
  BY <1>4 DEF ServiceDone, ExactDone, dl
<1>7. pc' \in {"guest", "handler"} /\ target' = 0 /\ then' = "guest"
      /\ snap' \in {snap, [valid |-> TRUE, clock |-> clock, dev |-> dev]}
  BY DEF ServiceDone, ExactDone, Resume
<1>8. snap' \in [valid : BOOLEAN, clock : Nat, dev : Machine]
  <2>1. snap \in [valid : BOOLEAN, clock : Nat, dev : Machine]
    BY DEF IInv, TypeOK
  <2>2. [valid |-> TRUE, clock |-> clock, dev |-> dev] \in [valid : BOOLEAN, clock : Nat, dev : Machine]
    BY <1>1
  <2>3. snap' = snap \/ snap' = [valid |-> TRUE, clock |-> clock, dev |-> dev]
    BY <1>7
  <2> QED
    BY <2>1, <2>2, <2>3
<1>9. TypeOK'
  <2>1. deadline' \in Nat
    BY <1>5, <1>6
  <2>2. clock' \in Nat /\ synced' \in Nat /\ dev' \in Machine
    BY <1>1, <1>6
  <2>3. pc' \in {"guest", "service", "exact", "handler"} /\ target' \in Nat /\ then' \in {"guest", "handler", "save"}
    BY <1>7
  <2>4. /\ batch' \in Nat /\ limit' \in Nat /\ defer' \in Nat /\ work' \in Nat
        /\ mode' \in {"live", "pass", "span", "thawed"} /\ save' \in FreezeSave /\ exact' \in BOOLEAN /\ stale' \in BOOLEAN
    BY <1>6 DEF IInv, TypeOK, batchVars
  <2> QED
    BY <1>8, <2>1, <2>2, <2>3, <2>4 DEF TypeOK
<1>10. ~Frozen' /\ batch' = 0
  BY <1>3, <1>6 DEF Frozen, batchVars
<1>11. LiveInv'
  BY <1>1, <1>5, <1>6, <1>10 DEF LiveInv, Window, Batched
<1>12. LoopInv' /\ FrozenInv' /\ HandlerCurrent'
  BY <1>6, <1>7, <1>10 DEF LoopInv, FrozenInv, HandlerCurrent
<1> QED
  BY <1>9, <1>11, <1>12 DEF IInv

\* A register access catches the devices up (psx_devices_mmio_sync).
LEMMA MmioSyncKeeps ==
    ASSUME IInv, MmioSync
    PROVE  IInv'
<1> DEFINE c == clock + batch
           flushTicks == batch # 0 /\ Due(c)
<1>1. clock \in Nat /\ batch \in Nat /\ synced \in Nat /\ defer \in Nat /\ work \in Nat /\ dev \in Machine
  BY DEF IInv, TypeOK
<1>2. c \in Nat /\ clock <= c /\ pc = "guest"
  BY <1>1 DEF MmioSync
<1>3. CASE Frozen /\ FreezeTick(c, work, defer, "handler")
  BY <1>1, <1>2, <1>3, FreezeTickKeeps
<1>4. CASE mode = "span" /\ Service(c, work, defer, "handler") /\ mode' = "thawed"
  <2>1. Frozen /\ save.clock \in Nat /\ synced <= save.clock /\ save.clock <= clock
    BY <1>4 DEF Frozen, IInv, FrozenInv, TypeOK, FreezeSave
  <2>2. synced <= c
    BY <1>1, <1>2, <2>1
  <2> QED
    BY <1>1, <1>2, <1>4, <2>2, ServiceKeeps
<1>5. ASSUME ~Frozen PROVE synced <= clock /\ synced <= c
  BY <1>1, <1>2, <1>5 DEF IInv, LiveInv
<1>6. CASE ~Frozen /\ Walk(c, work, defer, "handler")
  BY <1>1, <1>2, <1>5, <1>6, WalkKeeps
<1>7. CASE ~Frozen /\ Service(c, work, defer, "handler") /\ UNCHANGED mode
  <2>1. mode' \in {"live", "thawed"}
    BY <1>7 DEF IInv, TypeOK, Frozen
  <2> QED
    BY <1>1, <1>2, <1>5, <1>7, <2>1, ServiceKeeps
<1>8. CASE /\ ~Frozen /\ synced = c
           /\ deadline' = RecomputeDeadline(dev, c)
           /\ clock' = c /\ batch' = 0 /\ limit' = 0
           /\ pc' = "handler" /\ stale' = FALSE
           /\ UNCHANGED <<synced, target, then, dev, defer, mode, save, exact, snap, work>>
  <2> DEFINE dl == RecomputeDeadline(dev, c)
  <2>1. dl \in Nat /\ c < dl /\ dl <= c + HardCap /\ dl <= c + NextEvent(dev, c)
    BY <1>1, <1>2, FreshDeadline
  <2>2. deadline' = dl
    BY <1>8
  <2> HIDE DEF dl, c
  <2>3. TypeOK'
    BY <1>2, <1>8, <2>1, <2>2 DEF IInv, TypeOK
  <2>4. ~Frozen'
    BY <1>8 DEF Frozen
  <2>5. LiveInv'
    BY <1>2, <1>8, <2>1, <2>2 DEF LiveInv, Window, Batched
  <2>6. LoopInv' /\ FrozenInv' /\ HandlerCurrent'
    BY <1>8, <2>4 DEF LoopInv, FrozenInv, HandlerCurrent
  <2> QED
    BY <2>3, <2>5, <2>6 DEF IInv
<1> QED
  BY <1>3, <1>4, <1>6, <1>7, <1>8 DEF MmioSync

\* A register write arms a device; only arming can bring an event nearer.
LEMMA WriteKeeps ==
    ASSUME IInv, NEW i \in Writable, NEW d \in Delays, WriteReg(i, d)
    PROVE  IInv'
<1>1. i \in Devices /\ d \in Nat
  BY InputAssumption
<1>2. dev \in Machine /\ synced \in Nat /\ deadline \in Nat
  BY DEF IInv, TypeOK
<1>3. dev' \in Machine
  <2>1. dev.left \in [Devices -> Nat] /\ dev.fire \in [Source -> Nat] /\ dev = [left |-> dev.left, fire |-> dev.fire]
    BY <1>2 DEF Machine
  <2> QED
    BY <1>1, <2>1 DEF WriteReg, Machine
<1>4. ~stale' => ~stale /\ NextEvent(dev, synced) <= NextEvent(dev', synced)
  <2>1. ASSUME ~stale' PROVE ~stale /\ dev' = [dev EXCEPT !.left[i] = 0]
    BY <2>1 DEF WriteReg, IInv, TypeOK
  <2> QED
    BY <1>1, <1>2, <2>1, StopIsLater
<1>5. NextEvent(dev, synced) \in Nat /\ NextEvent(dev', synced) \in Nat
  BY <1>2, <1>3, NextEventType
<1>6. TypeOK'
  BY <1>3 DEF IInv, TypeOK, WriteReg, clockVars, batchVars
<1>7. pc' = "guest" /\ pc = "handler" /\ (Frozen' <=> Frozen)
  BY DEF WriteReg, Frozen
<1>8. LoopInv' /\ HandlerCurrent'
  BY <1>7 DEF LoopInv, HandlerCurrent
<1>9. UNCHANGED <<clock, synced, deadline, target, batch, limit, defer, mode, save>>
  BY DEF WriteReg, clockVars, batchVars
<1>10. LiveInv'
  BY <1>2, <1>4, <1>5, <1>7, <1>9 DEF IInv, LiveInv, Window, Batched
<1>11. FrozenInv'
  <2>1. save.deadline \in Nat
    BY DEF IInv, TypeOK, FreezeSave
  <2> QED
    BY <1>2, <1>4, <1>5, <1>7, <1>9, <2>1 DEF IInv, FrozenInv, Window, Batched
<1> QED
  BY <1>6, <1>8, <1>10, <1>11 DEF IInv

\* A register read and the granularity toggle leave the clock alone.
LEMMA QuietKeeps ==
    ASSUME IInv, ReadReg \/ Toggle
    PROVE  IInv'
<1>1. pc' = "guest" /\ pc \in {"guest", "handler"} /\ exact' \in BOOLEAN
  BY DEF ReadReg, Toggle, loopVars, IInv, TypeOK
<1>2. UNCHANGED <<clock, synced, deadline, target, then, dev, batch, limit, defer, mode, save, snap, work, stale>>
  BY DEF ReadReg, Toggle, clockVars, loopVars, batchVars
<1>3. TypeOK'
  BY <1>1, <1>2 DEF IInv, TypeOK
<1>4. Frozen' <=> Frozen
  BY <1>2 DEF Frozen
<1>5. LoopInv' /\ HandlerCurrent'
  BY <1>1 DEF LoopInv, HandlerCurrent
<1>6. LiveInv'
  BY <1>1, <1>2, <1>4 DEF IInv, LiveInv, Window, Batched
<1>7. FrozenInv'
  BY <1>1, <1>2, <1>4 DEF IInv, FrozenInv, Window, Batched
<1> QED
  BY <1>3, <1>5, <1>6, <1>7 DEF IInv

\* A freeze parks the interrupted state (freeze_save).
LEMMA FreezeBeginKeeps ==
    ASSUME IInv, PassBegin \/ SpanBegin
    PROVE  IInv'
<1>1. PICK m \in {"pass", "span"} : FreezeBegin(m) /\ pc \in {"guest", "service"} /\ (m = "span" => pc = "guest")
  BY DEF PassBegin, SpanBegin
<1>2. clock \in Nat /\ HardCap \in Nat
  BY PeriodAssumption DEF IInv, TypeOK
<1>3. save' \in FreezeSave
  BY <1>1 DEF FreezeBegin, FreezeSave, IInv, TypeOK
<1>4. TypeOK'
  BY <1>1, <1>2, <1>3 DEF FreezeBegin, IInv, TypeOK
<1>5. ~Frozen /\ Frozen' /\ mode' = m
  BY <1>1 DEF FreezeBegin, Frozen
<1>6. /\ pc' = "guest" /\ clock' = clock /\ synced' = synced /\ target' = target /\ dev' = dev /\ stale' = stale
      /\ save' = [clock |-> clock, deadline |-> deadline, batch |-> batch, limit |-> limit,
                  defer |-> defer, pc |-> pc, work |-> work]
  BY <1>1 DEF FreezeBegin
<1>7. /\ save'.clock = clock /\ save'.deadline = deadline /\ save'.batch = batch
      /\ save'.limit = limit /\ save'.defer = defer /\ save'.pc = pc
  BY <1>6
<1>8. FrozenInv'
  <2>1. CASE pc = "guest"
    BY <1>2, <1>5, <1>6, <1>7, <2>1 DEF IInv, LiveInv, FrozenInv, Window, Batched
  <2>2. CASE pc = "service"
    BY <1>1, <1>2, <1>5, <1>6, <1>7, <2>2 DEF IInv, LoopInv, FrozenInv
  <2> QED
    BY <1>1, <2>1, <2>2
<1>9. LoopInv' /\ LiveInv' /\ HandlerCurrent'
  BY <1>5, <1>6 DEF LoopInv, LiveInv, HandlerCurrent
<1> QED
  BY <1>4, <1>8, <1>9 DEF IInv

\* The end of a thawed span keeps the clock; the caller's deferred state is back.
LEMMA ThawedEndKeeps ==
    ASSUME IInv, ThawedEnd
    PROVE  IInv'
<1>1. save \in FreezeSave /\ NoFreeze \in FreezeSave
  BY DEF IInv, TypeOK, NoFreeze, FreezeSave
<1>2. /\ mode = "thawed" /\ pc = "guest" /\ mode' = "live" /\ stale' = TRUE
      /\ batch' = save.batch /\ limit' = save.limit /\ defer' = save.defer /\ save' = NoFreeze
      /\ UNCHANGED <<clock, synced, deadline, pc, target, then, dev, exact, snap, work>>
  BY DEF ThawedEnd, clockVars, loopVars
<1>3. TypeOK'
  BY <1>1, <1>2 DEF IInv, TypeOK, FreezeSave
<1>4. ~Frozen /\ ~Frozen'
  BY <1>2 DEF Frozen
<1>5. LiveInv'
  BY <1>2, <1>4 DEF IInv, LiveInv, Window, Batched
<1> QED
  BY <1>2, <1>3, <1>4, <1>5 DEF IInv, LoopInv, FrozenInv, HandlerCurrent

\* Saving catches up like a register access; loading reanchors (psx_cycles_resync_after_restore).
LEMMA SnapshotKeeps ==
    ASSUME IInv, Save \/ Restore
    PROVE  IInv'
<1>1. CASE Save
  <2> DEFINE c == clock + batch
  <2>1. clock \in Nat /\ batch \in Nat /\ synced \in Nat /\ defer \in Nat /\ work \in Nat
    BY DEF IInv, TypeOK
  <2>2. ~Frozen /\ pc = "guest" /\ mode = "live"
    BY <1>1 DEF Save, Frozen
  <2>3. c \in Nat /\ clock <= c /\ synced <= clock /\ synced <= c
    BY <2>1, <2>2 DEF IInv, LiveInv
  <2>4. CASE Walk(c, work, defer, "save")
    BY <2>1, <2>2, <2>3, <2>4, WalkKeeps
  <2>5. CASE Service(c, work, defer, "save") /\ UNCHANGED mode
    BY <2>1, <2>2, <2>3, <2>5, ServiceKeeps
  <2> QED
    BY <1>1, <2>4, <2>5 DEF Save
<1>2. CASE Restore
  <2>1. snap.clock \in Nat /\ snap.dev \in Machine
    BY DEF IInv, TypeOK
  <2>2. TypeOK'
    BY <1>2, <2>1 DEF IInv, TypeOK, Restore
  <2>3. ~Frozen' /\ pc' = "guest"
    BY <1>2 DEF Restore, Frozen
  <2>4. LiveInv'
    BY <1>2, <2>1 DEF Restore, LiveInv, Window, Batched
  <2> QED
    BY <2>2, <2>3, <2>4 DEF IInv, LoopInv, FrozenInv, HandlerCurrent
<1> QED
  BY <1>1, <1>2

LEMMA StutterKeeps ==
    ASSUME IInv, UNCHANGED vars
    PROVE  IInv'
<1>1. UNCHANGED <<clock, synced, deadline, pc, target, then, dev, batch, limit, defer, mode, save, exact, snap, work, stale>>
  BY DEF vars, clockVars, loopVars, batchVars
<1>2. Frozen' <=> Frozen
  BY <1>1 DEF Frozen
<1>3. TypeOK'
  BY <1>1 DEF IInv, TypeOK
<1>4. LoopInv' /\ HandlerCurrent'
  BY <1>1, <1>2 DEF IInv, LoopInv, HandlerCurrent
<1>5. LiveInv'
  BY <1>1, <1>2 DEF IInv, LiveInv, Window, Batched
<1>6. FrozenInv'
  BY <1>1, <1>2 DEF IInv, FrozenInv, Window, Batched
<1> QED
  BY <1>3, <1>4, <1>5, <1>6 DEF IInv

LEMMA NextKeeps ==
    ASSUME IInv, [Next]_vars
    PROVE  IInv'
<1>1. ASSUME NEW n \in Charges, Charge(n) PROVE IInv'
  BY <1>1, ChargeKeeps
<1>2. CASE Flush \/ DeferBegin \/ DeferEnd \/ \E n \in Charges : Advance(n)
  BY <1>2, PublishersKeep
<1>3. CASE ServiceStep \/ ExactStep
  BY <1>3, LoopStepKeeps
<1>4. CASE ServiceDone \/ ExactDone
  BY <1>4, LoopDoneKeeps
<1>5. CASE MmioSync
  BY <1>5, MmioSyncKeeps
<1>6. CASE Write
  BY <1>6, WriteKeeps DEF Write
<1>7. CASE ReadReg \/ Toggle
  BY <1>7, QuietKeeps
<1>8. CASE PassBegin \/ SpanBegin
  BY <1>8, FreezeBeginKeeps
<1>9. CASE PassEnd \/ SpanEnd
  <2>1. Frozen /\ FreezeEnd
    BY <1>9 DEF PassEnd, SpanEnd, Frozen
  <2> QED
    BY <2>1, FreezeEndKeeps
<1>10. CASE ThawedEnd
  BY <1>10, ThawedEndKeeps
<1>11. CASE Save \/ Restore
  BY <1>11, SnapshotKeeps
<1>12. CASE UNCHANGED vars
  BY <1>12, StutterKeeps
<1> QED
  BY <1>1, <1>2, <1>3, <1>4, <1>5, <1>6, <1>7, <1>8, <1>9, <1>10, <1>11, <1>12 DEF Next, Step

-----------------------------------------------------------------------------
(* The theorems.                                                           *)

\* The inductive invariant of the clock, whatever the budgets, writes, toggles and restores.
THEOREM Invariance == Spec => []IInv
<1>1. Init => IInv
  BY InitKeeps
<1>2. IInv /\ [Next]_vars => IInv'
  BY NextKeeps
<1> QED
  BY <1>1, <1>2, PTL DEF Spec

\* Every variable of the clock keeps its type.
THEOREM TypeCorrect == Spec => []TypeOK
<1>1. IInv => TypeOK
  BY DEF IInv
<1> QED
  BY <1>1, Invariance, PTL

\* Devices are never PSX_DEADLINE_HARD_CAP behind the clock guest code runs on,
\* also when a register write or a thawed span left the deadline stale.
THEOREM LagIsBounded == Spec => []LagBounded
<1>1. IInv => LagBounded
  <2> SUFFICES ASSUME IInv, Settled PROVE clock - synced < HardCap
    BY DEF LagBounded
  <2>1. clock \in Nat /\ synced \in Nat /\ deadline \in Nat /\ HardCap \in Nat
    BY PeriodAssumption DEF IInv, TypeOK
  <2>2. clock < deadline /\ deadline <= synced + HardCap
    BY DEF IInv, Settled, LiveInv, Frozen, Window
  <2> QED
    BY <2>1, <2>2
<1> QED
  BY <1>1, Invariance, PTL

\* No event fires late unless a register write, or the end of a thawed span, came after
\* the last computation of the deadline.
THEOREM NothingLate == Spec => []OnTimeUnlessRearmed
<1>1. IInv => OnTimeUnlessRearmed
  <2> SUFFICES ASSUME IInv, ~stale, Settled
               PROVE  clock + Pending < synced + NextEvent(dev, synced)
    BY DEF OnTimeUnlessRearmed, OnTime
  <2>1. clock \in Nat /\ synced \in Nat /\ deadline \in Nat /\ batch \in Nat /\ limit \in Nat
    BY DEF IInv, TypeOK
  <2>2. NextEvent(dev, synced) \in Nat
    BY NextEventType DEF IInv, TypeOK
  <2>3. clock < deadline /\ deadline <= synced + NextEvent(dev, synced)
    BY DEF IInv, Settled, LiveInv, Frozen, Window
  <2>4. defer = 0 /\ batch # 0 => batch < limit /\ clock + limit <= deadline
    BY DEF IInv, Settled, LiveInv, Frozen, Batched
  <2> QED
    BY <2>1, <2>2, <2>3, <2>4 DEF Pending
<1> QED
  BY <1>1, Invariance, PTL

\* A register handler on the live clock finds the devices caught up and the batch empty.
THEOREM HandlersCurrent == Spec => []HandlerCurrent
<1>1. IInv => HandlerCurrent
  BY DEF IInv
<1> QED
  BY <1>1, Invariance, PTL

-----------------------------------------------------------------------------
(* Cycle accounting.  ChargedInv is preserved when no freeze has a budget. *)

LEMMA LoopStartCharged ==
    ASSUME IInv, ChargedInv, mode = "live", UNCHANGED mode,
           NEW c \in Nat, NEW d \in Nat, NEW k \in {"guest", "handler", "save"},
           Service(c, c, d, k) \/ Walk(c, c, d, k)
    PROVE  ChargedInv'
<1>1. pc' \in {"service", "exact"} /\ target' = c /\ batch' = 0 /\ work' = c /\ mode' = "live"
  BY DEF Service, Walk
<1>2. LiveNow' + batch' = work'
  BY <1>1 DEF LiveNow
<1> QED
  BY <1>1, <1>2 DEF ChargedInv, AllCharged, Frozen

LEMMA FreezeEndCharged ==
    ASSUME IInv, ChargedInv, Frozen, FreezeEnd
    PROVE  ChargedInv'
<1>1. save.pc \in {"guest", "service"}
  BY DEF IInv, TypeOK, FreezeSave
<1>2. mode' = "live" /\ pc' = save.pc /\ clock' = save.clock /\ target' = target /\ batch' = save.batch /\ work' = save.work
  BY DEF FreezeEnd
<1>3. LiveNow' = SavedNow
  BY <1>1, <1>2 DEF LiveNow, SavedNow
<1> QED
  BY <1>2, <1>3 DEF ChargedInv, AllCharged, Frozen

\* Frozen code keeps the books of the interrupted code shut.
LEMMA FrozenCharged ==
    ASSUME ChargedInv, Frozen, UNCHANGED <<mode, save, target>>
    PROVE  ChargedInv'
<1>1. Frozen' /\ mode' # "live"
  BY DEF Frozen
<1>2. SavedNow' = SavedNow
  BY DEF SavedNow
<1> QED
  BY <1>1, <1>2 DEF ChargedInv, AllCharged, Frozen

\* Live code keeps them balanced.
LEMMA LiveCharged ==
    ASSUME ChargedInv, mode = "live", UNCHANGED mode, LiveNow' + batch' = work'
    PROVE  ChargedInv'
BY DEF ChargedInv, AllCharged, Frozen

LEMMA FreezeTickCharged ==
    ASSUME Budget = 0, IInv, ChargedInv, Frozen, NEW c \in Nat, NEW w, NEW d, NEW p, FreezeTick(c, w, d, p)
    PROVE  ChargedInv'
BY FrozenCharged DEF FreezeTick, OverBudget

LEMMA PublishCharged ==
    ASSUME Budget = 0, IInv, ChargedInv, pc = "guest", NEW c \in Nat, NEW w \in Nat, NEW d \in Nat,
           mode = "live" => c = w, Publish(c, w, d)
    PROVE  ChargedInv'
<1>1. mode \in {"live", "pass", "span"}
  BY DEF IInv, TypeOK, ChargedInv
<1>2. Frozen <=> mode # "live"
  BY <1>1 DEF Frozen
<1>3. CASE /\ Frozen \/ ~exact
           /\ ~Due(c)
           /\ clock' = c
           /\ batch' = 0 /\ limit' = 0 /\ defer' = d
           /\ work' = w
           /\ UNCHANGED <<synced, deadline, loopVars, dev, mode, save, exact, snap, stale>>
  <2>1. CASE Frozen
    BY <1>3, <2>1, FrozenCharged DEF loopVars
  <2>2. CASE mode = "live"
    <3>1. LiveNow' + batch' = work'
      BY <1>3, <2>2 DEF LiveNow, loopVars
    <3> QED
      BY <1>3, <2>2, <3>1, LiveCharged
  <2> QED
    BY <1>2, <2>1, <2>2
<1>4. CASE Frozen /\ Due(c) /\ FreezeTick(c, w, d, "guest")
  BY <1>4, FreezeTickCharged
<1>5. CASE ~Frozen /\ (Service(c, w, d, "guest") \/ Walk(c, w, d, "guest")) /\ UNCHANGED mode
  BY <1>2, <1>5, LoopStartCharged
<1> QED
  BY <1>3, <1>4, <1>5 DEF Publish, Walk

LEMMA ChargedStep ==
    ASSUME Budget = 0, IInv, ChargedInv, [Next]_vars
    PROVE  ChargedInv'
<1>1. /\ clock \in Nat /\ batch \in Nat /\ defer \in Nat /\ work \in Nat /\ target \in Nat
      /\ mode \in {"live", "pass", "span"} /\ pc \in {"guest", "service", "exact", "handler"}
  BY DEF IInv, TypeOK, ChargedInv
<1>2. Frozen <=> mode # "live"
  BY <1>1 DEF Frozen
<1>3. mode = "live" => LiveNow + batch = work
  BY DEF ChargedInv, AllCharged
<1>4. pc \in {"guest", "handler"} /\ mode = "live" => clock + batch = work
  BY <1>3 DEF LiveNow
<1>5. ASSUME NEW n \in Charges, Charge(n) PROVE ChargedInv'
  <2>1. n \in Nat /\ pc = "guest"
    BY <1>5, InputAssumption DEF Charge
  <2>2. CASE batch' = batch + n /\ work' = work + n /\ UNCHANGED <<clockVars, loopVars, mode, save>>
    <3>1. CASE Frozen
      BY <2>2, <3>1, FrozenCharged DEF loopVars
    <3>2. CASE mode = "live"
      <4>1. LiveNow' + batch' = work'
        BY <1>1, <1>4, <2>1, <2>2, <3>2 DEF LiveNow, clockVars, loopVars
      <4> QED
        BY <2>2, <3>2, <4>1, LiveCharged
    <3> QED
      BY <1>2, <3>1, <3>2
  <2>3. CASE Publish(clock + batch + n, work + n, defer)
    <3>1. clock + batch + n \in Nat /\ work + n \in Nat /\ (mode = "live" => clock + batch + n = work + n)
      BY <1>1, <1>4, <2>1
    <3> QED
      BY <1>1, <2>1, <2>3, <3>1, PublishCharged
  <2> QED
    BY <1>5, <2>2, <2>3 DEF Charge
<1>6. ASSUME NEW n \in Charges, Advance(n) PROVE ChargedInv'
  <2>1. n \in Nat /\ pc = "guest"
    BY <1>6, InputAssumption DEF Advance
  <2>2. clock + batch + n \in Nat /\ work + n \in Nat /\ (mode = "live" => clock + batch + n = work + n)
    BY <1>1, <1>4, <2>1
  <2> QED
    BY <1>1, <1>6, <2>1, <2>2, PublishCharged DEF Advance
<1>7. ASSUME NEW d \in Nat, pc = "guest", Publish(clock + batch, work, d) PROVE ChargedInv'
  BY <1>1, <1>4, <1>7, PublishCharged
<1>8. CASE Flush
  BY <1>1, <1>7, <1>8 DEF Flush
\* Steps that leave the accounts alone.
<1>9. ASSUME UNCHANGED <<clock, target, batch, work, mode, save>>,
             pc' = pc \/ (pc = "handler" /\ pc' = "guest")
      PROVE  ChargedInv'
  <2>1. CASE Frozen
    BY <1>9, <2>1, FrozenCharged
  <2>2. CASE mode = "live"
    BY <1>3, <1>9, <2>2, LiveCharged DEF LiveNow
  <2> QED
    BY <1>2, <2>1, <2>2
<1>10. CASE DeferBegin \/ DeferEnd
  <2>1. CASE UNCHANGED <<clockVars, loopVars, batch, mode, save, work>>
    BY <1>9, <2>1 DEF clockVars, loopVars
  <2>2. CASE pc = "guest" /\ Publish(clock + batch, work, 0)
    BY <1>7, <2>2
  <2> QED
    BY <1>10, <2>1, <2>2 DEF DeferBegin, DeferEnd
<1>11. CASE ReadReg \/ Toggle \/ Write
  BY <1>9, <1>11 DEF ReadReg, Toggle, Write, WriteReg, clockVars, loopVars, batchVars
<1>12. CASE UNCHANGED vars
  BY <1>9, <1>12 DEF vars, clockVars, loopVars, batchVars
<1>13. CASE ServiceStep \/ ExactStep
  <2>1. pc \in {"service", "exact"} /\ UNCHANGED <<pc, target, batch, mode, save, work>>
    BY <1>13 DEF ServiceStep, ExactStep, loopVars, batchVars
  <2>2. mode = "live"
    BY <1>2, <2>1 DEF IInv, LoopInv
  <2> QED
    BY <1>3, <2>1, <2>2, LiveCharged DEF LiveNow
<1>14. CASE ServiceDone \/ ExactDone
  <2>1. pc \in {"service", "exact"} /\ pc' \in {"guest", "handler"} /\ clock >= target
        /\ UNCHANGED <<clock, batch, mode, save, work>>
    BY <1>14 DEF ServiceDone, ExactDone, Resume, batchVars
  <2>2. mode = "live" /\ clock <= target
    BY <1>2, <2>1 DEF IInv, LoopInv
  <2>3. clock = target
    BY <1>1, <2>1, <2>2
  <2> QED
    BY <1>3, <2>1, <2>2, <2>3, LiveCharged DEF LiveNow
<1>15. CASE MmioSync
  <2> DEFINE c == clock + batch
  <2>1. c \in Nat /\ pc = "guest"
    BY <1>1, <1>15 DEF MmioSync
  <2>2. CASE Frozen /\ FreezeTick(c, work, defer, "handler")
    BY <2>1, <2>2, FreezeTickCharged
  <2>3. ~OverBudget(c)
    BY DEF OverBudget
  <2>4. CASE ~Frozen /\ (Service(c, work, defer, "handler") \/ Walk(c, work, defer, "handler")) /\ UNCHANGED mode
    <3>1. work = c /\ mode = "live"
      BY <1>2, <1>4, <2>1, <2>4
    <3> QED
      BY <1>1, <2>1, <2>4, <3>1, LoopStartCharged
  <2>5. CASE ~Frozen /\ clock' = c /\ batch' = 0 /\ pc' = "handler" /\ UNCHANGED <<mode, work>>
    <3>1. work = c /\ mode = "live"
      BY <1>2, <1>4, <2>1, <2>5
    <3>2. LiveNow' + batch' = work'
      BY <2>1, <2>5, <3>1 DEF LiveNow
    <3> QED
      BY <2>5, <3>1, <3>2, LiveCharged
  <2> QED
    BY <1>15, <2>2, <2>3, <2>4, <2>5 DEF MmioSync, Walk
<1>16. CASE PassBegin \/ SpanBegin
  <2>1. PICK m \in {"pass", "span"} : FreezeBegin(m)
    BY <1>16 DEF PassBegin, SpanBegin
  <2>2. /\ mode = "live" /\ mode' = m /\ target' = target
        /\ save'.clock = clock /\ save'.batch = batch /\ save'.pc = pc /\ save'.work = work
    BY <2>1 DEF FreezeBegin
  <2>3. pc \in {"guest", "service"}
    BY <1>16 DEF PassBegin, SpanBegin
  <2>4. SavedNow' = LiveNow
    BY <2>2, <2>3 DEF SavedNow, LiveNow
  <2> QED
    BY <1>3, <2>2, <2>4 DEF ChargedInv, AllCharged
<1>17. CASE PassEnd \/ SpanEnd
  BY <1>17, FreezeEndCharged DEF PassEnd, SpanEnd, Frozen
<1>18. CASE ThawedEnd
  BY <1>1, <1>18 DEF ThawedEnd
<1>19. CASE Save
  <2> DEFINE c == clock + batch
  <2>1. mode = "live" /\ c \in Nat /\ work = c
    BY <1>1, <1>4, <1>19 DEF Save
  <2>2. (Service(c, work, defer, "save") /\ UNCHANGED mode) \/ Walk(c, work, defer, "save")
    BY <1>19 DEF Save
  <2>3. UNCHANGED mode
    BY <2>2 DEF Walk
  <2> QED
    BY <1>1, <2>1, <2>2, <2>3, LoopStartCharged
<1>20. CASE Restore
  <2>1. mode = "live" /\ UNCHANGED mode /\ pc' = "guest" /\ clock' = snap.clock /\ batch' = 0 /\ work' = snap.clock
        /\ snap.clock \in Nat
    BY <1>20 DEF Restore, IInv, TypeOK
  <2>2. LiveNow' + batch' = work'
    BY <2>1 DEF LiveNow
  <2> QED
    BY <2>1, <2>2, LiveCharged
<1> QED
  BY <1>5, <1>6, <1>8, <1>10, <1>11, <1>12, <1>13, <1>14, <1>15, <1>16, <1>17, <1>18, <1>19, <1>20 DEF Next, Step

\* While freezes have no budget, every cycle the guest executed outside them is on the
\* clock or in the batch exactly once, through batching, replays, freezes and savestates.
THEOREM CyclesKept ==
    ASSUME Budget = 0
    PROVE  Spec => []AllCharged
<1>1. Init => ChargedInv
  BY DEF Init, ChargedInv, AllCharged, LiveNow, Frozen
<1>2. IInv /\ ChargedInv /\ [Next]_vars => ChargedInv'
  BY ChargedStep
<1>3. ChargedInv => AllCharged
  BY DEF ChargedInv
<1> QED
  BY <1>1, <1>2, <1>3, Invariance, PTL DEF Spec

-----------------------------------------------------------------------------
(* The reference timeline: single cycles.                                  *)

\* The recursive function of SingleSteps is defined by its equation.
LEMMA SingleStepsDef ==
    ASSUME NEW m \in Machine, NEW at \in Nat
    PROVE  /\ SingleSteps(m, at, 0) = m
           /\ \A n \in Nat :
                  /\ SingleSteps(m, at, n) \in Machine
                  /\ SingleSteps(m, at, n + 1) =
                         AdvanceDevices(SingleSteps(m, at, n), 1, at + (n + 1))
<1> DEFINE S == Nat \X Machine
           g == [s \in S |-> <<s[1] + 1, AdvanceDevices(s[2], 1, at + (s[1] + 1))>>]
           Eqn(f) == f = [k \in Nat |-> IF k = 0 THEN m ELSE AdvanceDevices(f[k - 1], 1, at + k)]
           after == CHOOSE f : Eqn(f)
<1>1. g \in [S -> S]
  <2>1. ASSUME NEW s \in S PROVE <<s[1] + 1, AdvanceDevices(s[2], 1, at + (s[1] + 1))>> \in S
    <3>1. s[1] \in Nat /\ s[2] \in Machine OBVIOUS
    <3>2. s[1] + 1 \in Nat /\ at + (s[1] + 1) \in Nat /\ 1 \in Nat BY <3>1
    <3>3. AdvanceDevices(s[2], 1, at + (s[1] + 1)) \in Machine BY <3>1, <3>2, AdvanceDevicesType
    <3> QED BY <3>2, <3>3
  <2> HIDE DEF S
  <2> QED BY <2>1
<1>2. <<0, m>> \in S OBVIOUS
<1>3. PICK h \in [Nat -> S] : IteratesOf(h, g, <<0, m>>)
  <2> HIDE DEF g, S
  <2> QED BY <1>1, <1>2, Iterates
<1>4. ASSUME NEW n \in Nat
      PROVE  /\ h[n] \in S
             /\ h[n + 1] = <<h[n][1] + 1, AdvanceDevices(h[n][2], 1, at + (h[n][1] + 1))>>
  <2>1. h[n] \in S BY <1>3
  <2>2. h[n + 1] = g[h[n]] BY <1>3 DEF IteratesOf
  <2> HIDE DEF S
  <2> QED BY <2>1, <2>2
<1> DEFINE P == {n \in Nat : h[n][1] = n}
<1>5. \A n \in Nat : n \in P
  <2>1. 0 \in P
    <3>1. h[0] = <<0, m>> BY <1>3 DEF IteratesOf
    <3> QED BY <3>1
  <2>2. ASSUME NEW n \in Nat, n \in P PROVE n + 1 \in P
    BY <1>4, <2>2
  <2> HIDE DEF P
  <2> QED BY <2>1, <2>2, Induction
<1> DEFINE f == [n \in Nat |-> h[n][2]]
<1>6. Eqn(f)
  <2>1. f[0] = m
    <3>1. h[0] = <<0, m>> BY <1>3 DEF IteratesOf
    <3> QED BY <3>1
  <2>2. ASSUME NEW k \in Nat \ {0} PROVE f[k] = AdvanceDevices(f[k - 1], 1, at + k)
    <3>1. k - 1 \in Nat /\ (k - 1) + 1 = k OBVIOUS
    <3>2. h[k - 1][1] = k - 1 BY <1>5, <3>1
    <3>3. h[(k - 1) + 1] = <<(k - 1) + 1, AdvanceDevices(h[k - 1][2], 1, at + ((k - 1) + 1))>>
      BY <1>4, <3>1, <3>2
    <3>4. h[k][2] = AdvanceDevices(h[k - 1][2], 1, at + k) BY <3>1, <3>3
    <3> QED BY <3>1, <3>4
  <2> DEFINE e == [k \in Nat |-> IF k = 0 THEN m ELSE AdvanceDevices(f[k - 1], 1, at + k)]
  <2>3. \A k \in Nat : f[k] = e[k]
    <3> HIDE DEF f
    <3> QED BY <2>1, <2>2
  <2>4. f = e
    <3>1. f = [k \in Nat |-> f[k]] OBVIOUS
    <3>2. e = [k \in Nat |-> e[k]]
      <4> HIDE DEF f
      <4> QED OBVIOUS
    <3> HIDE DEF f, e
    <3> QED BY <2>3, <3>1, <3>2
  <2> QED BY <2>4
<1>7. Eqn(after)
  <2> HIDE DEF Eqn, f
  <2> QED BY <1>6
<1>8. \A n : SingleSteps(m, at, n) = after[n] BY DEF SingleSteps
<1> HIDE DEF after
<1>9. after[0] = m BY <1>7
<1>10. ASSUME NEW n \in Nat PROVE after[n + 1] = AdvanceDevices(after[n], 1, at + (n + 1))
  <2>1. n + 1 \in Nat /\ n + 1 # 0 /\ (n + 1) - 1 = n OBVIOUS
  <2> QED BY <1>7, <2>1
<1> DEFINE Q == {n \in Nat : after[n] \in Machine}
<1>11. 0 \in Q BY <1>9
<1>12. ASSUME NEW n \in Nat, n \in Q PROVE n + 1 \in Q
  <2>1. at + (n + 1) \in Nat /\ 1 \in Nat OBVIOUS
  <2>2. after[n] \in Machine BY <1>12
  <2>3. AdvanceDevices(after[n], 1, at + (n + 1)) \in Machine BY <2>1, <2>2, AdvanceDevicesType
  <2>4. after[n + 1] \in Machine BY <1>10, <2>3
  <2> QED BY <2>4
<1>13. \A n \in Nat : n \in Q
  <2> HIDE DEF Q
  <2> QED BY <1>11, <1>12, Induction
<1> QED BY <1>8, <1>9, <1>10, <1>13

\* a cycles and then b are a + b cycles.
LEMMA SingleStepsAdd ==
    ASSUME NEW m \in Machine, NEW at \in Nat, NEW a \in Nat, NEW b \in Nat
    PROVE  SingleSteps(SingleSteps(m, at, a), at + a, b) = SingleSteps(m, at, a + b)
<1> DEFINE y == SingleSteps(m, at, a)
           P == {n \in Nat : SingleSteps(y, at + a, n) = SingleSteps(m, at, a + n)}
<1>0. y \in Machine /\ at + a \in Nat BY SingleStepsDef
<1> HIDE DEF y
<1>1. 0 \in P
  <2>1. SingleSteps(y, at + a, 0) = y BY <1>0, SingleStepsDef
  <2>2. a + 0 = a OBVIOUS
  <2> QED BY <2>1, <2>2 DEF y
<1>2. ASSUME NEW n \in Nat, n \in P PROVE n + 1 \in P
  <2>1. SingleSteps(y, at + a, n + 1) =
            AdvanceDevices(SingleSteps(y, at + a, n), 1, (at + a) + (n + 1))
    BY <1>0, SingleStepsDef
  <2>2. a + n \in Nat /\ (a + n) + 1 = a + (n + 1) /\ (at + a) + (n + 1) = at + ((a + n) + 1)
    OBVIOUS
  <2>3. SingleSteps(m, at, (a + n) + 1) =
            AdvanceDevices(SingleSteps(m, at, a + n), 1, at + ((a + n) + 1))
    BY <2>2, SingleStepsDef
  <2> QED BY <1>2, <2>1, <2>2, <2>3
<1>3. \A n \in Nat : n \in P
  <2> HIDE DEF P
  <2> QED BY <1>1, <1>2, Induction
<1> QED BY <1>3 DEF y

-----------------------------------------------------------------------------
(* A chunk of the replay is as many single cycles.                         *)

\* The machine c cycles on, the devices of D only, with no event met.
Shrunk(m, c, D) ==
    [left |-> [i \in Devices |-> IF i \in D /\ m.left[i] # 0 THEN m.left[i] - c ELSE m.left[i]],
     fire |-> m.fire]

\* No device has an event in the next c cycles.
NoEvent(m, c) == \A i \in Devices : m.left[i] = 0 \/ c < m.left[i]

LEMMA ShrinkOne ==
    ASSUME NEW m \in Machine, NEW c \in Nat, NEW now \in Nat, NoEvent(m, c),
           NEW D, NEW i \in Devices, i \notin D
    PROVE  AdvanceOne(Shrunk(m, c, D), i, c, now) = Shrunk(m, c, D \cup {i})
<1> DEFINE s == Shrunk(m, c, D)
           u == Shrunk(m, c, D \cup {i})
<1>1. m.left \in [Devices -> Nat] BY DEF Machine
<1>2. s.left[i] = m.left[i] BY DEF Shrunk
<1>3. s = [left |-> s.left, fire |-> s.fire] /\ s.left = [j \in Devices |-> s.left[j]]
  BY DEF Shrunk
<1>4. CASE m.left[i] = 0
  <2>1. AdvanceOne(s, i, c, now) = s
    <3> HIDE DEF s
    <3> QED BY <1>2, <1>4 DEF AdvanceOne
  <2>2. s = u BY <1>4 DEF Shrunk
  <2> QED BY <2>1, <2>2
<1>5. CASE m.left[i] # 0
  <2>1. c < m.left[i] BY <1>5 DEF NoEvent
  <2>2. AdvanceOne(s, i, c, now) = [s EXCEPT !.left[i] = @ - c]
    <3> HIDE DEF s
    <3> QED BY <1>2, <1>5, <2>1 DEF AdvanceOne
  <2>3. [s.left EXCEPT ![i] = @ - c] = u.left
    <3>1. \A j \in Devices : [s.left EXCEPT ![i] = @ - c][j] = u.left[j]
      BY <1>1, <1>5 DEF Shrunk
    <3>2. u.left = [j \in Devices |-> u.left[j]] BY DEF Shrunk
    <3> HIDE DEF s, u
    <3> QED BY <1>3, <3>1, <3>2
  <2>4. u = [left |-> u.left, fire |-> s.fire] BY DEF Shrunk
  <2>5. [s EXCEPT !.left[i] = @ - c] = u
    <3> HIDE DEF s, u
    <3> QED BY <1>3, <2>3, <2>4
  <2> QED BY <2>2, <2>5
<1> QED BY <1>4, <1>5

LEMMA QuietCall ==
    ASSUME NEW m \in Machine, NEW c \in Nat, NEW now \in Nat, NoEvent(m, c), now % SpuPeriod # 0
    PROVE  AdvanceDevices(m, c, now) = Shrunk(m, c, Devices)
<1>1. {"interrupts", "timers", "cdrom", "dma", "sio"} \subseteq Devices BY DEF Devices
<1>2. m = Shrunk(m, c, {})
  <2>1. m.left \in [Devices -> Nat] /\ m = [left |-> m.left, fire |-> m.fire] BY DEF Machine
  <2>2. Shrunk(m, c, {}).left = m.left BY <2>1 DEF Shrunk
  <2> QED BY <2>1, <2>2 DEF Shrunk
<1> DEFINE D1 == {} \cup {"sio"}
           D2 == D1 \cup {"cdrom"}
           D3 == D2 \cup {"dma"}
           D4 == D3 \cup {"timers"}
           D5 == D4 \cup {"interrupts"}
<1>3. D5 = Devices BY DEF Devices
<1>4. "sio" \notin {} /\ "cdrom" \notin D1 /\ "dma" \notin D2 /\ "timers" \notin D3 /\ "interrupts" \notin D4
  OBVIOUS
<1> HIDE DEF D1, D2, D3, D4, D5
<1>5. AdvanceOne(m, "sio", c, now) = Shrunk(m, c, D1)
  <2>1. AdvanceOne(Shrunk(m, c, {}), "sio", c, now) = Shrunk(m, c, {} \cup {"sio"}) BY <1>1, ShrinkOne
  <2> QED BY <1>2, <2>1 DEF D1
<1>6. AdvanceOne(Shrunk(m, c, D1), "cdrom", c, now) = Shrunk(m, c, D2)
  <2>1. AdvanceOne(Shrunk(m, c, D1), "cdrom", c, now) = Shrunk(m, c, D1 \cup {"cdrom"}) BY <1>1, <1>4, ShrinkOne
  <2> QED BY <2>1 DEF D2
<1>7. AdvanceOne(Shrunk(m, c, D2), "dma", c, now) = Shrunk(m, c, D3)
  <2>1. AdvanceOne(Shrunk(m, c, D2), "dma", c, now) = Shrunk(m, c, D2 \cup {"dma"}) BY <1>1, <1>4, ShrinkOne
  <2> QED BY <2>1 DEF D3
<1>8. AdvanceOne(Shrunk(m, c, D3), "timers", c, now) = Shrunk(m, c, D4)
  <2>1. AdvanceOne(Shrunk(m, c, D3), "timers", c, now) = Shrunk(m, c, D3 \cup {"timers"}) BY <1>1, <1>4, ShrinkOne
  <2> QED BY <2>1 DEF D4
<1>9. AdvanceOne(Shrunk(m, c, D4), "interrupts", c, now) = Shrunk(m, c, D5)
  <2>1. AdvanceOne(Shrunk(m, c, D4), "interrupts", c, now) = Shrunk(m, c, D4 \cup {"interrupts"}) BY <1>1, <1>4, ShrinkOne
  <2> QED BY <2>1 DEF D5
<1>10. AdvanceDevices(m, c, now) = SampleSpu(Shrunk(m, c, D5), now)
  BY <1>5, <1>6, <1>7, <1>8, <1>9 DEF AdvanceDevices
<1> QED BY <1>3, <1>10 DEF SampleSpu

\* No event lies nearer than NextEvent says (psx_devices_cycles_to_next_event).
LEMMA NextEventBounds ==
    ASSUME NEW m \in Machine, NEW now \in Nat
    PROVE  /\ \A i \in Devices : m.left[i] # 0 => NextEvent(m, now) <= m.left[i]
           /\ NextEvent(m, now) <= SpuPeriod - (now % SpuPeriod)
<1> DEFINE b0 == SpuPeriod - (now % SpuPeriod)
           b1 == Nearer(b0, m.left["interrupts"])
           b2 == Nearer(b1, m.left["timers"])
           b3 == Nearer(b2, m.left["cdrom"])
           b4 == Nearer(b3, m.left["dma"])
           b5 == Nearer(b4, m.left["sio"])
<1>1. \A i \in Devices : m.left[i] \in Nat BY DEF Machine
<1>2. {"interrupts", "timers", "cdrom", "dma", "sio"} = Devices BY DEF Devices
<1>3. b0 \in Nat /\ b0 > 0 BY SampleDistance
<1>9. NextEvent(m, now) = b5 BY DEF NextEvent
<1> HIDE DEF b0
<1>4. b1 \in Nat /\ b1 > 0 /\ b1 <= b0 /\ (m.left["interrupts"] # 0 => b1 <= m.left["interrupts"])
  BY <1>1, <1>2, <1>3, NearerType
<1> HIDE DEF b1
<1>5. b2 \in Nat /\ b2 > 0 /\ b2 <= b1 /\ (m.left["timers"] # 0 => b2 <= m.left["timers"])
  BY <1>1, <1>2, <1>4, NearerType
<1> HIDE DEF b2
<1>6. b3 \in Nat /\ b3 > 0 /\ b3 <= b2 /\ (m.left["cdrom"] # 0 => b3 <= m.left["cdrom"])
  BY <1>1, <1>2, <1>5, NearerType
<1> HIDE DEF b3
<1>7. b4 \in Nat /\ b4 > 0 /\ b4 <= b3 /\ (m.left["dma"] # 0 => b4 <= m.left["dma"])
  BY <1>1, <1>2, <1>6, NearerType
<1> HIDE DEF b4
<1>8. b5 \in Nat /\ b5 > 0 /\ b5 <= b4 /\ (m.left["sio"] # 0 => b5 <= m.left["sio"])
  BY <1>1, <1>2, <1>7, NearerType
<1> HIDE DEF b5
<1>10. b5 <= b0 BY <1>3, <1>4, <1>5, <1>6, <1>7, <1>8
<1>11. ASSUME NEW i \in Devices, m.left[i] # 0 PROVE b5 <= m.left[i]
  <2>1. m.left[i] \in Nat BY <1>1
  <2>2. i \in {"interrupts", "timers", "cdrom", "dma", "sio"} BY <1>2
  <2> QED BY <1>4, <1>5, <1>6, <1>7, <1>8, <1>11, <2>1, <2>2
<1> QED BY <1>9, <1>10, <1>11 DEF b0

\* No SPU sample falls on the cycles before the next event.
LEMMA NoSample ==
    ASSUME NEW now \in Nat, NEW c \in Nat \ {0}, c < SpuPeriod - (now % SpuPeriod)
    PROVE  (now + c) % SpuPeriod # 0
<1> DEFINE p == SpuPeriod
           q == now \div p
           r == now % p
<1>1. p \in Nat \ {0} BY PeriodAssumption
<1>2. q \in Nat /\ r \in 0..(p - 1) /\ now = q * p + r BY <1>1, Division
<1> HIDE DEF q
<1>3. c < p - r OBVIOUS
<1> HIDE DEF p, r
<1>4. r + c \in 0..(p - 1) /\ r + c # 0 BY <1>1, <1>2, <1>3
<1>5. q * p \in Nat BY <1>1, <1>2
<1>6. now + c = q * p + (r + c) BY <1>2, <1>5
<1>7. (q * p + (r + c)) % p = r + c BY <1>1, <1>2, <1>4, DivisionUnique
<1> QED BY <1>4, <1>6, <1>7 DEF p

\* A chunk with no event in it is as many single cycles.
LEMMA QuietChunk ==
    ASSUME NEW m \in Machine, NEW at \in Nat, NEW c \in Nat \ {0}, c < NextEvent(m, at)
    PROVE  AdvanceDevices(m, c, at + c) = SingleSteps(m, at, c)
<1>0. NextEvent(m, at) \in Nat BY NextEventType
<1>1. \A i \in Devices : m.left[i] # 0 => NextEvent(m, at) <= m.left[i]
  BY NextEventBounds
<1>2. m.left \in [Devices -> Nat] /\ m.fire \in [Source -> Nat] /\ m = [left |-> m.left, fire |-> m.fire]
  BY DEF Machine
<1>3. \A j \in 1..c : (at + j) % SpuPeriod # 0
  <2> SUFFICES ASSUME NEW j \in 1..c PROVE (at + j) % SpuPeriod # 0 OBVIOUS
  <2> DEFINE b == SpuPeriod - (at % SpuPeriod)
  <2>1. NextEvent(m, at) <= b /\ b \in Nat BY NextEventBounds, SampleDistance
  <2> HIDE DEF b
  <2>2. j \in Nat \ {0} /\ j < b BY <1>0, <2>1
  <2> QED BY <2>2, NoSample DEF b
<1>4. \A j \in 0..c : NoEvent(m, j)
  BY <1>0, <1>1, <1>2 DEF NoEvent
<1> DEFINE P == {j \in Nat : j <= c => SingleSteps(m, at, j) = Shrunk(m, j, Devices)}
<1>5. 0 \in P
  <2>1. Shrunk(m, 0, Devices).left = m.left BY <1>2 DEF Shrunk
  <2>2. Shrunk(m, 0, Devices) = m BY <1>2, <2>1 DEF Shrunk
  <2> QED BY <2>2, SingleStepsDef
<1>6. ASSUME NEW j \in Nat, j \in P PROVE j + 1 \in P
  <2> SUFFICES ASSUME j + 1 <= c PROVE SingleSteps(m, at, j + 1) = Shrunk(m, j + 1, Devices)
    OBVIOUS
  <2> DEFINE s == Shrunk(m, j, Devices)
  <2>1. SingleSteps(m, at, j + 1) = AdvanceDevices(s, 1, at + (j + 1))
    BY <1>6, SingleStepsDef
  <2>2. s \in Machine
    <3>1. SingleSteps(m, at, j) \in Machine BY SingleStepsDef
    <3> QED BY <1>6, <3>1
  <2>3. \A i \in Devices : s.left[i] = IF m.left[i] # 0 THEN m.left[i] - j ELSE 0
    BY DEF Shrunk
  <2>4. \A i \in Devices : m.left[i] = 0 \/ j + 1 < m.left[i]
    BY <1>4 DEF NoEvent
  <2>5. NoEvent(s, 1)
    <3> HIDE DEF s
    <3> QED BY <1>2, <2>3, <2>4 DEF NoEvent
  <2>6. at + (j + 1) \in Nat /\ (at + (j + 1)) % SpuPeriod # 0 BY <1>3
  <2>7. AdvanceDevices(s, 1, at + (j + 1)) = Shrunk(s, 1, Devices)
    <3> HIDE DEF s
    <3> QED BY <2>2, <2>5, <2>6, QuietCall
  <2>8. Shrunk(s, 1, Devices) = Shrunk(m, j + 1, Devices)
    <3>1. s.fire = m.fire BY DEF Shrunk
    <3> HIDE DEF s
    <3>2. \A i \in Devices : (IF i \in Devices /\ s.left[i] # 0 THEN s.left[i] - 1 ELSE s.left[i])
                           = (IF i \in Devices /\ m.left[i] # 0 THEN m.left[i] - (j + 1) ELSE m.left[i])
      BY <1>2, <2>3, <2>4
    <3> QED BY <3>1, <3>2 DEF Shrunk
  <2> QED BY <2>1, <2>7, <2>8
<1>7. \A j \in Nat : j \in P
  <2> HIDE DEF P
  <2> QED BY <1>5, <1>6, Induction
<1>8. AdvanceDevices(m, c, at + c) = Shrunk(m, c, Devices)
  <2>1. NoEvent(m, c) /\ (at + c) % SpuPeriod # 0 /\ at + c \in Nat BY <1>3, <1>4
  <2> QED BY <2>1, QuietCall
<1> QED BY <1>7, <1>8

-----------------------------------------------------------------------------
(* Where the guest and the devices stand.                                  *)

LEMMA NowCases ==
    ASSUME IInv
    PROVE  /\ pc \in {"service", "exact"} => DeviceNow = clock /\ GuestNow = target
           /\ Frozen /\ save.pc = "service" => DeviceNow = save.clock /\ GuestNow = target
           /\ Frozen /\ save.pc = "guest" => DeviceNow = synced /\ GuestNow = save.clock
           /\ ~Frozen /\ pc \in {"guest", "handler"} => DeviceNow = synced /\ GuestNow = clock
  BY DEF IInv, LoopInv, FrozenInv, Frozen, DeviceNow, GuestNow, LiveNow

LEMMA NowCasesNext ==
    ASSUME IInv'
    PROVE  /\ pc' \in {"service", "exact"} => DeviceNow' = clock' /\ GuestNow' = target'
           /\ Frozen' /\ save'.pc = "service" => DeviceNow' = save'.clock /\ GuestNow' = target'
           /\ Frozen' /\ save'.pc = "guest" => DeviceNow' = synced' /\ GuestNow' = save'.clock
           /\ ~Frozen' /\ pc' \in {"guest", "handler"} => DeviceNow' = synced' /\ GuestNow' = clock'
  BY DEF IInv, LoopInv, FrozenInv, Frozen, DeviceNow, GuestNow, LiveNow

LEMMA PlaceCases ==
    ASSUME IInv
    PROVE  /\ \/ pc \in {"service", "exact"} /\ ~Frozen
              \/ pc \in {"guest", "handler"} /\ Frozen /\ save.pc = "service" /\ mode = "pass"
              \/ pc \in {"guest", "handler"} /\ Frozen /\ save.pc = "guest"
              \/ pc \in {"guest", "handler"} /\ ~Frozen
  BY DEF IInv, TypeOK, LoopInv, FrozenInv, FreezeSave

\* The devices are never ahead of the guest.
LEMMA NowType ==
    ASSUME IInv
    PROVE  DeviceNow \in Nat /\ GuestNow \in Nat /\ DeviceNow <= GuestNow /\ dev \in Machine
<1>1. dev \in Machine /\ clock \in Nat /\ synced \in Nat /\ target \in Nat /\ save.clock \in Nat
  BY DEF IInv, TypeOK, FreezeSave
<1>2. CASE pc \in {"service", "exact"}
  BY <1>1, <1>2, NowCases DEF IInv, LoopInv
<1>3. CASE Frozen /\ save.pc = "service"
  BY <1>1, <1>3, NowCases DEF IInv, FrozenInv
<1>4. CASE Frozen /\ save.pc = "guest"
  BY <1>1, <1>4, NowCases DEF IInv, FrozenInv
<1>5. CASE ~Frozen /\ pc \in {"guest", "handler"}
  BY <1>1, <1>5, NowCases DEF IInv, LiveInv
<1> QED BY <1>2, <1>3, <1>4, <1>5, PlaceCases

\* In a step the devices replay s cycles they owe, and the guest may move on.
Moves(s) ==
    /\ s \in Nat
    /\ DeviceNow' = DeviceNow + s /\ DeviceNow' <= GuestNow
    /\ GuestNow' \in Nat /\ GuestNow <= GuestNow'
    /\ dev' = SingleSteps(dev, DeviceNow, s)

LEMMA MovesExact ==
    ASSUME IInv, ReplayExact, NEW s, Moves(s),
           ideal' = SingleSteps(ideal, GuestNow, GuestNow' - GuestNow)
    PROVE  ReplayExact'
<1> DEFINE D == DeviceNow
           G == GuestNow
           D1 == DeviceNow'
           G1 == GuestNow'
<1>1. D \in Nat /\ G \in Nat /\ D <= G /\ dev \in Machine BY NowType
<1>2. /\ s \in Nat /\ D1 = D + s /\ D1 <= G /\ G1 \in Nat /\ G <= G1
      /\ dev' = SingleSteps(dev, D, s)
  BY DEF Moves
<1>3. ideal = SingleSteps(dev, D, G - D) BY DEF ReplayExact
<1>4. ideal' = SingleSteps(ideal, G, G1 - G) OBVIOUS
<1>5. ReplayExact' <=> SingleSteps(dev', D1, G1 - D1) = ideal' BY DEF ReplayExact
<1> HIDE DEF D, G, D1, G1
<1>6. G - D \in Nat /\ G1 - G \in Nat /\ D + (G - D) = G /\ (G - D) + (G1 - G) = G1 - D
  BY <1>1, <1>2
<1>7. ideal' = SingleSteps(dev, D, G1 - D)
  <2>1. SingleSteps(SingleSteps(dev, D, G - D), D + (G - D), G1 - G) = SingleSteps(dev, D, (G - D) + (G1 - G))
    BY <1>1, <1>6, SingleStepsAdd
  <2> QED BY <1>3, <1>4, <1>6, <2>1
<1>8. G1 - D1 \in Nat /\ s + (G1 - D1) = G1 - D BY <1>1, <1>2
<1>9. SingleSteps(SingleSteps(dev, D, s), D + s, G1 - D1) = SingleSteps(dev, D, s + (G1 - D1))
  BY <1>1, <1>2, <1>8, SingleStepsAdd
<1> QED BY <1>2, <1>5, <1>7, <1>8, <1>9

\* The devices stay where they are.
LEMMA Stays ==
    ASSUME IInv, dev' = dev, DeviceNow' = DeviceNow, GuestNow' \in Nat, GuestNow <= GuestNow'
    PROVE  Moves(0)
<1>1. DeviceNow \in Nat /\ GuestNow \in Nat /\ DeviceNow <= GuestNow /\ dev \in Machine BY NowType
<1>2. SingleSteps(dev, DeviceNow, 0) = dev BY <1>1, SingleStepsDef
<1>3. DeviceNow' = DeviceNow + 0 BY <1>1
<1> QED BY <1>1, <1>2, <1>3 DEF Moves

\* A chunk of the replay is as many single cycles, on an event or short of one.
LEMMA ServiceStepMoves ==
    ASSUME IInv, IInv', ServiceStep
    PROVE  \E s : Moves(s)
<1> DEFINE ev == NextEvent(dev, clock)
           step == IF ev < target - clock THEN ev ELSE target - clock
<1>1. dev \in Machine /\ clock \in Nat /\ target \in Nat /\ clock < target
  BY DEF ServiceStep, IInv, TypeOK
<1>2. ev \in Nat /\ ev > 0 BY <1>1, NextEventType
<1>3. /\ clock' = clock + step
      /\ dev' = IF step > 1 /\ ev = step
                THEN AdvanceDevices(AdvanceDevices(dev, step - 1, (clock + step) - 1), 1, clock + step)
                ELSE AdvanceDevices(dev, step, clock + step)
      /\ pc = "service" /\ pc' = pc /\ target' = target
  BY DEF ServiceStep, loopVars
<1> HIDE DEF ev
<1>4. step \in Nat \ {0} /\ step <= ev /\ clock + step <= target BY <1>1, <1>2
<1> HIDE DEF step
<1>5. dev' = SingleSteps(dev, clock, step)
  <2>1. CASE step > 1 /\ ev = step
    <3>1. step - 1 \in Nat \ {0} /\ step - 1 < ev /\ (step - 1) + 1 = step
          /\ (clock + step) - 1 = clock + (step - 1)
      BY <1>1, <1>4, <2>1
    <3>2. AdvanceDevices(dev, step - 1, clock + (step - 1)) = SingleSteps(dev, clock, step - 1)
      BY <1>1, <3>1, QuietChunk DEF ev
    <3>3. SingleSteps(dev, clock, (step - 1) + 1) =
              AdvanceDevices(SingleSteps(dev, clock, step - 1), 1, clock + ((step - 1) + 1))
      BY <1>1, <3>1, SingleStepsDef
    <3>4. dev' = AdvanceDevices(AdvanceDevices(dev, step - 1, (clock + step) - 1), 1, clock + step)
      BY <1>3, <2>1
    <3> QED BY <3>1, <3>2, <3>3, <3>4
  <2>2. CASE step = 1
    <3>1. dev' = AdvanceDevices(dev, 1, clock + 1) BY <1>3, <2>2
    <3>2. SingleSteps(dev, clock, 0) = dev BY <1>1, SingleStepsDef
    <3>3. SingleSteps(dev, clock, 0 + 1) = AdvanceDevices(SingleSteps(dev, clock, 0), 1, clock + (0 + 1))
      BY <1>1, SingleStepsDef
    <3>4. 0 + 1 = 1 OBVIOUS
    <3> QED BY <2>2, <3>1, <3>2, <3>3, <3>4
  <2>3. CASE step > 1 /\ ev # step
    <3>1. step < ev BY <1>2, <1>4, <2>3
    <3>2. dev' = AdvanceDevices(dev, step, clock + step) BY <1>3, <2>3
    <3> QED BY <1>1, <1>4, <3>1, <3>2, QuietChunk DEF ev
  <2> QED BY <1>4, <2>1, <2>2, <2>3
<1>6. DeviceNow = clock /\ GuestNow = target BY <1>3, NowCases
<1>7. DeviceNow' = clock' /\ GuestNow' = target' BY <1>3, NowCasesNext
<1>8. Moves(step) BY <1>1, <1>3, <1>4, <1>5, <1>6, <1>7 DEF Moves
<1> QED BY <1>8

LEMMA ExactStepMoves ==
    ASSUME IInv, IInv', ExactStep
    PROVE  \E s : Moves(s)
<1>1. dev \in Machine /\ clock \in Nat /\ target \in Nat /\ clock < target
  BY DEF ExactStep, IInv, TypeOK
<1>2. clock' = clock + 1 /\ dev' = AdvanceDevices(dev, 1, clock + 1) /\ pc = "exact" /\ pc' = pc /\ target' = target
  BY DEF ExactStep, loopVars
<1>3. SingleSteps(dev, clock, 0) = dev BY <1>1, SingleStepsDef
<1>4. SingleSteps(dev, clock, 0 + 1) = AdvanceDevices(SingleSteps(dev, clock, 0), 1, clock + (0 + 1))
  BY <1>1, SingleStepsDef
<1>5. 0 + 1 = 1 OBVIOUS
<1>6. dev' = SingleSteps(dev, clock, 1) BY <1>2, <1>3, <1>4, <1>5
<1>7. DeviceNow = clock /\ GuestNow = target BY <1>2, NowCases
<1>8. DeviceNow' = clock' /\ GuestNow' = target' BY <1>2, NowCasesNext
<1>9. Moves(1) BY <1>1, <1>2, <1>6, <1>7, <1>8 DEF Moves
<1> QED BY <1>9

\* The end of a loop leaves the devices where the guest stands.
LEMMA LoopDoneMoves ==
    ASSUME IInv, IInv', ServiceDone \/ ExactDone
    PROVE  /\ Moves(0) /\ DeviceNow = GuestNow
           /\ snap' # snap => snap'.dev = dev
<1>1. clock \in Nat /\ target \in Nat /\ clock = target /\ ~Frozen
  BY DEF ServiceDone, ExactDone, IInv, TypeOK, LoopInv
<1>2. /\ clock' = clock /\ synced' = clock /\ dev' = dev /\ mode' = mode
      /\ pc \in {"service", "exact"} /\ pc' \in {"guest", "handler"}
  BY <1>1 DEF ServiceDone, ExactDone, Resume
<1>3. ~Frozen' BY <1>1, <1>2 DEF Frozen
<1>4. DeviceNow = clock /\ GuestNow = target BY <1>2, NowCases
<1>5. DeviceNow' = synced' /\ GuestNow' = clock' BY <1>2, <1>3, NowCasesNext
<1>6. Moves(0) BY <1>1, <1>2, <1>4, <1>5, Stays
<1>7. snap' # snap => snap'.dev = dev BY DEF ServiceDone, ExactDone, Resume
<1> QED BY <1>1, <1>4, <1>6, <1>7

\* A freeze that stays a freeze moves nothing.
LEMMA FrozenMoves ==
    ASSUME IInv, IInv', Frozen, UNCHANGED <<mode, save, synced, target, dev>>,
           pc' \in {"guest", "handler"}
    PROVE  Moves(0)
<1>1. Frozen' BY DEF Frozen
<1>2. save.pc \in {"guest", "service"} /\ target \in Nat /\ save.clock \in Nat
  BY DEF IInv, TypeOK, FreezeSave
<1>3. DeviceNow' = DeviceNow /\ GuestNow' = GuestNow
  BY <1>1, <1>2, NowCases, NowCasesNext
<1> QED BY <1>3, NowType, Stays

LEMMA FreezeEndMoves ==
    ASSUME IInv, IInv', Frozen, FreezeEnd
    PROVE  Moves(0)
<1>1. mode' = "live" /\ clock' = save.clock /\ pc' = save.pc /\ UNCHANGED <<synced, target, dev>>
  BY DEF FreezeEnd
<1>2. ~Frozen' BY <1>1 DEF Frozen
<1>3. save.pc \in {"guest", "service"} BY DEF IInv, TypeOK, FreezeSave
<1>4. DeviceNow' = DeviceNow /\ GuestNow' = GuestNow
  BY <1>1, <1>2, <1>3, NowCases, NowCasesNext
<1> QED BY <1>1, <1>4, NowType, Stays

LEMMA FreezeTickMoves ==
    ASSUME IInv, IInv', Frozen, NEW c \in Nat, c >= clock, NEW w, NEW d,
           NEW p \in {"guest", "handler"}, FreezeTick(c, w, d, p)
    PROVE  Moves(0)
<1>1. CASE ~OverBudget(c)
  BY <1>1, FrozenMoves DEF FreezeTick
<1>2. CASE OverBudget(c) /\ mode = "span"
  <2>1. mode' = "thawed" /\ clock' = c /\ pc' = p /\ UNCHANGED <<synced, dev>>
    BY <1>2 DEF FreezeTick
  <2>2. ~Frozen' BY <2>1 DEF Frozen
  <2>3. save.pc = "guest" BY <1>2 DEF IInv, TypeOK, FreezeSave, FrozenInv
  <2>4. DeviceNow = synced /\ GuestNow = save.clock BY <2>3, NowCases
  <2>5. DeviceNow' = synced' /\ GuestNow' = c BY <2>1, <2>2, NowCasesNext
  <2>6. save.clock <= clock /\ save.clock \in Nat /\ clock \in Nat
    BY DEF IInv, TypeOK, FreezeSave, FrozenInv
  <2> QED BY <2>1, <2>4, <2>5, <2>6, Stays
<1>3. CASE OverBudget(c) /\ mode = "pass"
  BY <1>3, FreezeEndMoves DEF FreezeTick
<1> QED BY <1>1, <1>2, <1>3 DEF Frozen

LEMMA ServiceMoves ==
    ASSUME IInv, IInv', ~Frozen, pc = "guest", NEW c \in Nat, c >= clock, NEW w, NEW d, NEW k,
           Service(c, w, d, k)
    PROVE  Moves(0)
<1>1. pc' = "service" /\ clock' = synced /\ target' = c /\ UNCHANGED <<synced, dev>> BY DEF Service
<1>2. DeviceNow = synced /\ GuestNow = clock BY NowCases
<1>3. DeviceNow' = clock' /\ GuestNow' = target' BY <1>1, NowCasesNext
<1> QED BY <1>1, <1>2, <1>3, Stays

LEMMA WalkMoves ==
    ASSUME IInv, IInv', ~Frozen, pc = "guest", synced = clock, NEW c \in Nat, c >= clock, NEW w, NEW d, NEW k,
           Walk(c, w, d, k)
    PROVE  Moves(0)
<1>1. pc' = "exact" /\ clock' = clock /\ target' = c /\ UNCHANGED <<synced, dev>>
  BY DEF Walk, clockVars
<1>2. DeviceNow = synced /\ GuestNow = clock BY NowCases
<1>3. DeviceNow' = clock' /\ GuestNow' = target' BY <1>1, NowCasesNext
<1> QED BY <1>1, <1>2, <1>3, Stays

\* Live guest code that only moves its clock.
LEMMA LiveMoves ==
    ASSUME IInv, IInv', ~Frozen, pc \in {"guest", "handler"}, pc' \in {"guest", "handler"}, ~Frozen',
           UNCHANGED <<synced, dev>>, clock' \in Nat, clock' >= clock
    PROVE  Moves(0)
<1>1. DeviceNow = synced /\ GuestNow = clock BY NowCases
<1>2. DeviceNow' = synced' /\ GuestNow' = clock' BY NowCasesNext
<1>3. clock \in Nat BY DEF IInv, TypeOK
<1> QED BY <1>1, <1>2, <1>3, Stays

LEMMA PublishMoves ==
    ASSUME IInv, IInv', ExactCurrent, pc = "guest", NEW c \in Nat, c >= clock, NEW w, NEW d, Publish(c, w, d)
    PROVE  Moves(0)
<1>1. CASE ~Due(c) /\ Frozen
  BY <1>1, FrozenMoves DEF Publish, loopVars
<1>2. CASE ~Frozen /\ ~exact /\ ~Due(c)
  <2>1. clock' = c /\ pc' = pc /\ UNCHANGED <<synced, dev, mode>> BY <1>2 DEF Publish, loopVars
  <2>2. ~Frozen' BY <1>2, <2>1 DEF Frozen
  <2> QED BY <1>2, <2>1, <2>2, LiveMoves
<1>3. CASE Frozen /\ Due(c)
  BY <1>3, FreezeTickMoves DEF Publish
<1>4. CASE ~Frozen /\ ~exact /\ Due(c)
  BY <1>4, ServiceMoves DEF Publish
<1>5. CASE ~Frozen /\ exact
  <2>1. synced = clock BY <1>5 DEF ExactCurrent
  <2> QED BY <1>5, <2>1, WalkMoves DEF Publish
<1> QED BY <1>1, <1>2, <1>3, <1>4, <1>5

LEMMA MmioSyncMoves ==
    ASSUME IInv, IInv', ExactCurrent, MmioSync
    PROVE  Moves(0)
<1> DEFINE c == clock + batch
<1>1. pc = "guest" /\ clock \in Nat /\ c \in Nat /\ c >= clock BY DEF MmioSync, IInv, TypeOK
<1>2. CASE Frozen /\ FreezeTick(c, work, defer, "handler")
  <2> HIDE DEF c
  <2> QED BY <1>1, <1>2, FreezeTickMoves
<1>3. CASE mode = "span" /\ Service(c, work, defer, "handler") /\ mode' = "thawed"
  <2>1. Frozen BY <1>3 DEF Frozen
  <2>2. save.pc = "guest" BY <1>3, <2>1 DEF IInv, TypeOK, FreezeSave, FrozenInv
  <2>3. DeviceNow = synced /\ GuestNow = save.clock BY <2>1, <2>2, NowCases
  <2>4. pc' = "service" /\ clock' = synced /\ target' = c /\ UNCHANGED <<synced, dev>> BY <1>3 DEF Service
  <2>5. DeviceNow' = clock' /\ GuestNow' = target' BY <2>4, NowCasesNext
  <2>6. save.clock <= clock /\ save.clock \in Nat BY <2>1 DEF IInv, TypeOK, FreezeSave, FrozenInv
  <2> HIDE DEF c
  <2> QED BY <1>1, <2>3, <2>4, <2>5, <2>6, Stays
<1>4. CASE ~Frozen /\ exact /\ Walk(c, work, defer, "handler")
  <2>1. synced = clock BY <1>1, <1>4 DEF ExactCurrent
  <2> HIDE DEF c
  <2> QED BY <1>1, <1>4, <2>1, WalkMoves
<1>5. CASE ~Frozen /\ Service(c, work, defer, "handler")
  <2> HIDE DEF c
  <2> QED BY <1>1, <1>5, ServiceMoves
<1>6. CASE ~Frozen /\ clock' = c /\ pc' = "handler" /\ UNCHANGED <<synced, dev, mode>>
  <2>1. ~Frozen' BY <1>6 DEF Frozen
  <2> HIDE DEF c
  <2> QED BY <1>1, <1>6, <2>1, LiveMoves
<1> QED BY <1>1, <1>2, <1>3, <1>4, <1>5, <1>6 DEF MmioSync

\* Every step but a write and a restore moves guest and devices on the timeline; a
\* savestate is copied where they meet.
LEMMA StepMoves ==
    ASSUME IInv, IInv', ExactCurrent, Toggles = FALSE, Step
    PROVE  /\ \E s : Moves(s)
           /\ snap' # snap => snap'.dev = dev /\ DeviceNow = GuestNow
<1> USE DEF clockVars, loopVars, batchVars
<1>0. clock \in Nat /\ batch \in Nat /\ Charges \subseteq Nat \ {0}
  BY InputAssumption DEF IInv, TypeOK
<1>1. ASSUME NEW n \in Charges, Charge(n) \/ Advance(n) PROVE Moves(0) /\ snap' = snap
  <2> DEFINE c == clock + batch + n
  <2>1. n \in Nat /\ c \in Nat /\ c >= clock /\ pc = "guest" BY <1>0, <1>1 DEF Charge, Advance
  <2> HIDE DEF c
  <2>2. CASE Publish(c, work + n, defer)
    <3>1. Moves(0) BY <2>1, <2>2, PublishMoves
    <3>2. snap' = snap BY <2>2 DEF Publish, FreezeTick, FreezeEnd, Service, Walk
    <3> QED BY <3>1, <3>2
  <2>3. CASE UNCHANGED <<clockVars, loopVars, dev, defer, mode, save, exact, snap, stale>>
    <3>1. CASE Frozen BY <2>1, <2>3, <3>1, FrozenMoves
    <3>2. CASE ~Frozen
      <4>1. ~Frozen' BY <2>3, <3>2 DEF Frozen
      <4> QED BY <1>0, <2>1, <2>3, <3>2, <4>1, LiveMoves
    <3> QED BY <2>3, <3>1, <3>2
  <2> QED BY <1>1, <2>2, <2>3 DEF Charge, Advance, c
<1>2. CASE Flush \/ DeferEnd \/ DeferBegin
  <2> DEFINE c == clock + batch
  <2>1. c \in Nat /\ c >= clock /\ pc = "guest" BY <1>0, <1>2 DEF Flush, DeferEnd, DeferBegin
  <2> HIDE DEF c
  <2>2. ASSUME NEW d, Publish(c, work, d) PROVE Moves(0) /\ snap' = snap
    <3>1. Moves(0) BY <2>1, <2>2, PublishMoves
    <3>2. snap' = snap BY <2>2 DEF Publish, FreezeTick, FreezeEnd, Service, Walk
    <3> QED BY <3>1, <3>2
  <2>3. ASSUME UNCHANGED <<clockVars, loopVars, dev, batch, limit, mode, save, exact, snap, work, stale>>
        PROVE Moves(0) /\ snap' = snap
    <3>1. CASE Frozen BY <2>1, <2>3, <3>1, FrozenMoves
    <3>2. CASE ~Frozen
      <4>1. ~Frozen' BY <2>3, <3>2 DEF Frozen
      <4> QED BY <1>0, <2>1, <2>3, <3>2, <4>1, LiveMoves
    <3> QED BY <2>3, <3>1, <3>2
  <2> QED BY <1>2, <2>2, <2>3 DEF Flush, DeferEnd, DeferBegin, c
<1>3. CASE ServiceStep \/ ExactStep
  <2>1. snap' = snap BY <1>3 DEF ServiceStep, ExactStep
  <2> QED BY <1>3, <2>1, ServiceStepMoves, ExactStepMoves
<1>4. CASE ServiceDone \/ ExactDone
  BY <1>4, LoopDoneMoves
<1>5. CASE MmioSync
  <2>1. snap' = snap BY <1>5 DEF MmioSync, FreezeTick, FreezeEnd, Service, Walk
  <2> QED BY <1>5, <2>1, MmioSyncMoves
<1>6. CASE ReadReg
  <2>1. /\ pc = "handler" /\ pc' = "guest"
        /\ UNCHANGED <<clock, synced, target, dev, mode, save, snap>>
    BY <1>6 DEF ReadReg
  <2>2. CASE Frozen BY <2>1, <2>2, FrozenMoves
  <2>3. CASE ~Frozen
    <3>1. ~Frozen' BY <2>1, <2>3 DEF Frozen
    <3> QED BY <1>0, <2>1, <2>3, <3>1, LiveMoves
  <2> QED BY <2>1, <2>2, <2>3
<1>7. CASE PassBegin \/ SpanBegin
  <2>1. /\ ~Frozen /\ Frozen' /\ pc \in {"guest", "service"}
        /\ save'.pc = pc /\ save'.clock = clock /\ UNCHANGED <<synced, target, dev, snap>>
    BY <1>7 DEF PassBegin, SpanBegin, FreezeBegin, Frozen
  <2>2. DeviceNow' = DeviceNow /\ GuestNow' = GuestNow BY <2>1, NowCases, NowCasesNext
  <2>3. Moves(0) BY <2>1, <2>2, NowType, Stays
  <2> QED BY <2>1, <2>3
<1>8. CASE PassEnd \/ SpanEnd
  <2>1. Frozen /\ FreezeEnd BY <1>8 DEF PassEnd, SpanEnd, Frozen
  <2>2. snap' = snap BY <2>1 DEF FreezeEnd
  <2> QED BY <2>1, <2>2, FreezeEndMoves
<1>9. CASE ThawedEnd
  <2>1. /\ mode = "thawed" /\ mode' = "live" /\ pc = "guest" /\ pc' = pc
        /\ UNCHANGED <<clock, synced, dev, snap>>
    BY <1>9 DEF ThawedEnd
  <2>2. ~Frozen /\ ~Frozen' BY <2>1 DEF Frozen
  <2> QED BY <1>0, <2>1, <2>2, LiveMoves
<1>10. CASE Save
  <2> DEFINE c == clock + batch
  <2>1. c \in Nat /\ c >= clock /\ pc = "guest" /\ ~Frozen BY <1>0, <1>10 DEF Save, Frozen
  <2>2. exact => synced = clock BY <2>1 DEF ExactCurrent
  <2>3. (exact /\ Walk(c, work, defer, "save")) \/ Service(c, work, defer, "save")
    BY <1>10 DEF Save
  <2> HIDE DEF c
  <2>4. snap' = snap BY <2>3 DEF Walk, Service
  <2> QED BY <2>1, <2>2, <2>3, <2>4, WalkMoves, ServiceMoves
<1>11. ~Toggle BY DEF Toggle
<1> QED BY <1>1, <1>2, <1>3, <1>4, <1>5, <1>6, <1>7, <1>8, <1>9, <1>10, <1>11 DEF Step

-----------------------------------------------------------------------------
(* The single-cycle path starts where the devices stand.                   *)

LEMMA ExactFreezeTick ==
    ASSUME ExactCurrent, Frozen, NEW c, NEW w, NEW d, NEW p, FreezeTick(c, w, d, p)
    PROVE  ExactCurrent'
<1>1. exact' = exact BY DEF FreezeTick, FreezeEnd
<1>2. ASSUME exact PROVE UNCHANGED <<mode, save, synced>>
  BY <1>2 DEF ExactCurrent, FreezeTick, OverBudget
<1> QED BY <1>1, <1>2 DEF ExactCurrent, Frozen

LEMMA ExactPublish ==
    ASSUME ExactCurrent, pc = "guest", NEW c, NEW w, NEW d, Publish(c, w, d)
    PROVE  ExactCurrent'
<1>1. CASE ~Due(c) /\ Frozen
  BY <1>1 DEF Publish, ExactCurrent, Frozen
<1>2. CASE ~Frozen /\ ~exact /\ ~Due(c)
  BY <1>2 DEF Publish, ExactCurrent
<1>3. CASE Frozen /\ Due(c)
  BY <1>3, ExactFreezeTick DEF Publish
<1>4. CASE ~Frozen /\ ~exact /\ Due(c)
  BY <1>4 DEF Publish, Service, ExactCurrent
<1>5. CASE ~Frozen /\ exact
  BY <1>5 DEF Publish, Walk, ExactCurrent, Frozen
<1> QED BY <1>1, <1>2, <1>3, <1>4, <1>5

LEMMA ExactKeeps ==
    ASSUME IInv, ExactCurrent, Toggles = FALSE, [Next]_vars
    PROVE  ExactCurrent'
<1> USE DEF clockVars, loopVars, batchVars
<1>1. ASSUME NEW n \in Charges, Charge(n) \/ Advance(n) PROVE ExactCurrent'
  <2>1. CASE Publish(clock + batch + n, work + n, defer)
    <3>1. pc = "guest" BY <1>1 DEF Charge, Advance
    <3> QED BY <2>1, <3>1, ExactPublish
  <2>2. CASE UNCHANGED <<clockVars, loopVars, dev, defer, mode, save, exact, snap, stale>>
    BY <2>2 DEF ExactCurrent, Frozen
  <2> QED BY <1>1, <2>1, <2>2 DEF Charge, Advance
<1>2. CASE Flush \/ DeferEnd \/ DeferBegin
  <2>1. pc = "guest" BY <1>2 DEF Flush, DeferEnd, DeferBegin
  <2>2. ASSUME NEW d, Publish(clock + batch, work, d) PROVE ExactCurrent'
    BY <2>1, <2>2, ExactPublish
  <2>3. ASSUME UNCHANGED <<clockVars, loopVars, dev, batch, limit, mode, save, exact, snap, work, stale>>
        PROVE ExactCurrent'
    BY <2>3 DEF ExactCurrent, Frozen
  <2> QED BY <1>2, <2>2, <2>3 DEF Flush, DeferEnd, DeferBegin
<1>3. CASE ServiceStep \/ ExactStep
  BY <1>3 DEF ServiceStep, ExactStep, ExactCurrent, IInv, LoopInv, Frozen
<1>4. CASE ServiceDone \/ ExactDone
  <2>1. clock \in Nat /\ target \in Nat /\ clock = target /\ ~Frozen
    BY <1>4 DEF ServiceDone, ExactDone, IInv, TypeOK, LoopInv
  <2>2. clock' = clock /\ synced' = clock /\ UNCHANGED <<mode, exact, save>>
    BY <1>4, <2>1 DEF ServiceDone, ExactDone
  <2> QED BY <2>1, <2>2 DEF ExactCurrent, Frozen
<1>5. CASE MmioSync
  <2> DEFINE c == clock + batch
  <2>1. CASE Frozen /\ FreezeTick(c, work, defer, "handler")
    BY <2>1, ExactFreezeTick
  <2>2. CASE mode = "span" /\ OverBudget(c) /\ Service(c, work, defer, "handler")
    BY <2>2 DEF OverBudget, Service, ExactCurrent
  <2>3. CASE ~Frozen /\ Walk(c, work, defer, "handler")
    BY <2>3 DEF Walk, ExactCurrent, Frozen
  <2>4. CASE ~Frozen /\ Service(c, work, defer, "handler") /\ UNCHANGED mode
    BY <2>4 DEF Service, ExactCurrent, Frozen
  <2>5. CASE ~Frozen /\ synced = c /\ clock' = c /\ UNCHANGED <<synced, mode, save, exact>>
    BY <2>5 DEF ExactCurrent, Frozen
  <2> QED BY <1>5, <2>1, <2>2, <2>3, <2>4, <2>5 DEF MmioSync
<1>6. CASE ReadReg \/ Write
  BY <1>6 DEF ReadReg, Write, WriteReg, ExactCurrent, Frozen
<1>7. CASE PassBegin \/ SpanBegin
  <2>1. /\ mode = "live" /\ ~Frozen /\ Frozen' /\ mode' # "thawed" /\ pc \in {"guest", "service"}
        /\ save'.pc = pc /\ save'.clock = clock /\ UNCHANGED <<synced, exact>>
    BY <1>7 DEF PassBegin, SpanBegin, FreezeBegin, Frozen
  <2> QED BY <2>1 DEF ExactCurrent
<1>8. CASE PassEnd \/ SpanEnd
  <2>1. Frozen /\ FreezeEnd BY <1>8 DEF PassEnd, SpanEnd, Frozen
  <2>2. /\ mode' = "live" /\ clock' = save.clock /\ pc' = save.pc /\ UNCHANGED <<synced, exact>>
        /\ save.pc \in {"guest", "service"}
    BY <2>1 DEF FreezeEnd, IInv, TypeOK, FreezeSave
  <2> QED BY <2>1, <2>2 DEF ExactCurrent, Frozen
<1>9. CASE ThawedEnd
  BY <1>9 DEF ThawedEnd, ExactCurrent
<1>10. CASE Save
  BY <1>10 DEF Save, Walk, Service, ExactCurrent, Frozen
<1>11. CASE Restore
  BY <1>11 DEF Restore, ExactCurrent, Frozen
<1>12. CASE UNCHANGED vars
  BY <1>12 DEF vars, ExactCurrent, Frozen
<1>13. ~Toggle BY DEF Toggle
<1> QED BY <1>1, <1>2, <1>3, <1>4, <1>5, <1>6, <1>7, <1>8, <1>9, <1>10, <1>11, <1>12, <1>13 DEF Next, Step

-----------------------------------------------------------------------------
(* The timeline is exact.                                                  *)

\* Where the devices have caught up, they are the reference.
LEMMA Caught ==
    ASSUME IInv, DeviceNow = GuestNow
    PROVE  ReplayExact <=> ideal = dev
<1>1. DeviceNow \in Nat /\ dev \in Machine BY NowType
<1>2. GuestNow - DeviceNow = 0 BY <1>1
<1>3. SingleSteps(dev, DeviceNow, 0) = dev BY <1>1, SingleStepsDef
<1> QED BY <1>2, <1>3 DEF ReplayExact

LEMMA CaughtNext ==
    ASSUME IInv', DeviceNow' = GuestNow', GuestNow' \in Nat, ideal' = dev'
    PROVE  ReplayExact'
<1>1. dev' \in Machine BY DEF IInv, TypeOK
<1>2. GuestNow' - DeviceNow' = 0
  <2>1. \A a \in Nat : a - a = 0 OBVIOUS
  <2>2. GuestNow' - GuestNow' = 0 BY <2>1
  <2> QED BY <2>2
<1>3. SingleSteps(dev', DeviceNow', 0) = dev' BY <1>1, SingleStepsDef
<1>4. ReplayExact' <=> SingleSteps(dev', DeviceNow', GuestNow' - DeviceNow') = ideal' BY DEF ReplayExact
<1> QED BY <1>2, <1>3, <1>4

LEMMA TimelineKeeps ==
    ASSUME TimelineInv, Toggles = FALSE, SpanWrites = FALSE, [RefNext]_refVars
    PROVE  TimelineInv'
<1>1. IInv /\ ExactCurrent /\ ReplayExact /\ SnapExact BY DEF TimelineInv
<1>2. [Next]_vars BY DEF RefNext, Next, Write, refVars
<1>3. IInv' /\ ExactCurrent' BY <1>1, <1>2, NextKeeps, ExactKeeps
<1>4. CASE /\ Step
           /\ ideal' = SingleSteps(ideal, GuestNow, GuestNow' - GuestNow)
           /\ idealSnap' = IF snap' # snap THEN ideal ELSE idealSnap
  <2>1. /\ \E s : Moves(s)
        /\ snap' # snap => snap'.dev = dev /\ DeviceNow = GuestNow
    BY <1>1, <1>3, <1>4, StepMoves
  <2>2. ReplayExact' BY <1>1, <1>4, <2>1, MovesExact
  <2>3. SnapExact' BY <1>1, <1>4, <2>1, Caught DEF SnapExact
  <2> QED BY <1>3, <2>2, <2>3 DEF TimelineInv
<1>5. ASSUME NEW i \in Writable, NEW d \in Delays, WriteReg(i, d), ideal' = [ideal EXCEPT !.left[i] = d],
             UNCHANGED idealSnap
      PROVE  TimelineInv'
  <2>1. /\ pc = "handler" /\ pc' = "guest" /\ mode # "pass" /\ synced = clock
        /\ dev' = [dev EXCEPT !.left[i] = d]
        /\ UNCHANGED <<clock, synced, mode, save, snap>>
    BY <1>5 DEF WriteReg, clockVars
  <2>2. clock \in Nat BY <1>1 DEF IInv, TypeOK
  <2>3. DeviceNow = GuestNow /\ DeviceNow' = GuestNow' /\ GuestNow' \in Nat
    <3>1. CASE ~Frozen
      <4>1. ~Frozen' BY <2>1, <3>1 DEF Frozen
      <4> QED BY <1>1, <1>3, <2>1, <2>2, <3>1, <4>1, NowCases, NowCasesNext
    <3>2. CASE Frozen
      <4>1. Frozen' BY <2>1, <3>2 DEF Frozen
      <4>2. save.pc = "guest" /\ save.clock = clock
        BY <1>1, <2>1, <2>2, <3>2 DEF IInv, TypeOK, FreezeSave, FrozenInv
      <4> QED BY <1>1, <1>3, <2>1, <2>2, <3>2, <4>1, <4>2, NowCases, NowCasesNext
    <3> QED BY <3>1, <3>2
  <2>4. ideal = dev BY <1>1, <2>3, Caught
  <2>5. ReplayExact' BY <1>3, <1>5, <2>1, <2>3, <2>4, CaughtNext
  <2>6. SnapExact' BY <1>1, <1>5, <2>1 DEF SnapExact
  <2> QED BY <1>3, <2>5, <2>6 DEF TimelineInv
<1>6. CASE Restore /\ ideal' = idealSnap /\ UNCHANGED idealSnap
  <2>1. /\ snap.valid /\ mode' = "live" /\ pc' = "guest" /\ clock' = snap.clock /\ synced' = snap.clock
        /\ dev' = snap.dev /\ snap' = snap
    BY <1>6 DEF Restore
  <2>2. ~Frozen' BY <2>1 DEF Frozen
  <2>3. snap.clock \in Nat BY <1>1 DEF IInv, TypeOK
  <2>4. DeviceNow' = GuestNow' /\ GuestNow' \in Nat BY <1>3, <2>1, <2>2, <2>3, NowCasesNext
  <2>5. ideal' = dev' BY <1>1, <1>6, <2>1 DEF SnapExact
  <2>6. ReplayExact' BY <1>3, <2>4, <2>5, CaughtNext
  <2>7. SnapExact' BY <1>1, <1>6, <2>1 DEF SnapExact
  <2> QED BY <1>3, <2>6, <2>7 DEF TimelineInv
<1>7. CASE UNCHANGED refVars
  <2>1. UNCHANGED <<pc, mode, save, target, clock, synced, dev, ideal, idealSnap, snap>>
    BY <1>7 DEF refVars, vars, clockVars, loopVars
  <2>2. DeviceNow' = DeviceNow /\ GuestNow' = GuestNow BY <2>1 DEF DeviceNow, GuestNow, LiveNow
  <2> QED BY <1>1, <1>3, <2>1, <2>2 DEF TimelineInv, ReplayExact, SnapExact
<1> QED BY <1>4, <1>5, <1>6, <1>7 DEF RefNext

\* Whatever the lag, the batches, the freezes and the savestates loaded out of a loop, the
\* devices replayed to guest time are the machine that was advanced one cycle at a time,
\* event cycles included.  The granularity is not flipped, no uncharged span writes a device
\* register, and the single-cycle path meets no budget: outside these the code loses cycles.
THEOREM TimelineExact ==
    ASSUME Toggles = FALSE, SpanWrites = FALSE
    PROVE  RefSpec /\ (Budget = 0 \/ ~exact) => []ReplayExact
<1>1. RefInit /\ (Budget = 0 \/ ~exact) => TimelineInv
  <2> SUFFICES ASSUME RefInit, Budget = 0 \/ ~exact PROVE TimelineInv
    OBVIOUS
  <2>1. IInv BY InitKeeps DEF RefInit
  <2>2. pc = "guest" /\ mode = "live" /\ clock = 0 /\ synced = 0 /\ ideal = dev /\ ~snap.valid
    BY DEF RefInit, Init
  <2>3. ~Frozen BY <2>2 DEF Frozen
  <2>4. DeviceNow = GuestNow BY <2>1, <2>2, <2>3, NowCases
  <2>5. ReplayExact BY <2>1, <2>2, <2>4, Caught
  <2>6. ExactCurrent BY <2>2, <2>3 DEF ExactCurrent
  <2> QED BY <2>1, <2>2, <2>5, <2>6 DEF TimelineInv, SnapExact
<1>2. TimelineInv /\ [RefNext]_refVars => TimelineInv'
  BY TimelineKeeps
<1>3. TimelineInv => ReplayExact
  BY DEF TimelineInv
<1> QED BY <1>1, <1>2, <1>3, PTL DEF RefSpec

=============================================================================
