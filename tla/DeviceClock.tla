----------------------------- MODULE DeviceClock -----------------------------
(***************************************************************************)
(* The guest clock and the lazy servicing of the devices,                  *)
(* runtime/src/psx_cycles.c with the charge path of psx_cycles.h and       *)
(* psx_cyc.h.                                                              *)
(*                                                                         *)
(* Guest code charges cycles to one counter.  Devices lag behind it (at    *)
(* cycle synced) and are caught up when the counter reaches a deadline, or *)
(* when the guest touches a device register.  Catching up rewinds the      *)
(* counter and replays the gap in chunks that end on device events.  One   *)
(* iteration of a replay loop is one step, because device callbacks run    *)
(* inside it and a restored savestate leaves it by longjmp.                *)
(*                                                                         *)
(* A device is a countdown: left[i] cycles to its next event, 0 when idle. *)
(* An event of device i rearms device j after Arms[i][j] cycles (a CD      *)
(* sector makes the CD DMA channel ready, a repeating timer rearms         *)
(* itself).  fire[i] is the cycle its last event saw.                      *)
(***************************************************************************)
EXTENDS Integers

CONSTANTS
    Arms,        \* Arms[i][j]: delay an event of i gives j, 0 for none
    SpuPeriod,   \* 768 cycles per SPU sample
    HardCap,     \* PSX_DEADLINE_HARD_CAP
    BatchSoft,   \* PSX_CYC_BATCH_SOFT
    Budget,      \* s_freeze_limit of a freeze, 0 for no limit
    Charges,     \* sizes of a charge
    Writable,    \* devices a register write arms
    Delays,      \* delays a register write arms them with
    SpanWrites,  \* uncharged guest calls write device registers
    Toggles,     \* the debug server flips the event granularity
    Snapshots,   \* savestates are taken and loaded
    MaxDefer,    \* bound on the nesting of deferring functions
    MaxWork      \* bound on the cycles executed

Devices == {"sio", "cdrom", "dma", "timers", "interrupts"}
Source == Devices \cup {"spu"}

ASSUME ArmsAssumption == Arms \in [Devices -> [Devices -> Nat]]
ASSUME PeriodAssumption == SpuPeriod \in Nat \ {0} /\ HardCap \in Nat \ {0} /\ BatchSoft \in Nat \ {0}
ASSUME InputAssumption ==
    /\ Budget \in Nat /\ MaxDefer \in Nat /\ MaxWork \in Nat
    /\ Charges \subseteq Nat \ {0} /\ Writable \subseteq Devices /\ Delays \subseteq Nat
    /\ SpanWrites \in BOOLEAN /\ Toggles \in BOOLEAN /\ Snapshots \in BOOLEAN

VARIABLES
    clock,       \* psx_cycle_count
    synced,      \* s_devices_synced_cycle
    deadline,    \* psx_next_service_cycle, 0 when dirty
    pc,          \* guest code, a replay loop, or a register handler
    target, then,    \* end of the replay, and what runs after it
    dev,         \* the devices: left and fire
    batch, limit, defer,   \* g_psx_cyc_batch, g_psx_cyc_batch_limit, g_psx_cyc_bb_defer
    mode,        \* live, or frozen by a render pass or an uncharged span
    save,        \* PsxCycleFreeze of the freeze in progress
    exact,       \* g_event_step_conservative
    snap,        \* the saved machine
    work,        \* history: cycles the guest executed and owes
    stale        \* history: the deadline predates a rearmed event

clockVars == <<clock, synced, deadline>>
loopVars  == <<pc, target, then>>
batchVars == <<batch, limit, defer>>
vars == <<clockVars, loopVars, dev, batchVars, mode, save, exact, snap, work, stale>>

\* The PsxCycleFreeze of no freeze.
NoFreeze == [clock |-> 0, deadline |-> 0, batch |-> 0, limit |-> 0, defer |-> 0,
             pc |-> "guest", work |-> 0]

Machine == [left : [Devices -> Nat], fire : [Source -> Nat]]
Frozen == mode \in {"pass", "span"}

-----------------------------------------------------------------------------
(* The devices.                                                            *)

\* One device's *_advance(c), ending at cycle now: at most one event per call.
AdvanceOne(m, i, c, now) ==
    IF m.left[i] = 0 THEN m
    ELSE IF c < m.left[i] THEN [m EXCEPT !.left[i] = @ - c]
    ELSE [left |-> [j \in Devices |-> IF Arms[i][j] # 0 THEN Arms[i][j]
                                      ELSE IF j = i THEN 0 ELSE m.left[j]],
          fire |-> [m.fire EXCEPT ![i] = now]]

\* The SPU has no countdown: it samples at the multiples of its period.
SampleSpu(m, now) == IF now % SpuPeriod = 0 THEN [m EXCEPT !.fire["spu"] = now] ELSE m

\* Every device by c cycles, in the fixed order.
AdvanceDevices(m, c, now) ==
    LET m1 == AdvanceOne(m, "sio", c, now)
        m2 == AdvanceOne(m1, "cdrom", c, now)
        m3 == AdvanceOne(m2, "dma", c, now)
        m4 == AdvanceOne(m3, "timers", c, now)
    IN  SampleSpu(AdvanceOne(m4, "interrupts", c, now), now)

Nearer(best, d) == IF d # 0 /\ d < best THEN d ELSE best

\* Cycles from now, where the devices stand, to the nearest event of any of them.
NextEvent(m, now) ==
    LET b0 == SpuPeriod - (now % SpuPeriod)
        b1 == Nearer(b0, m.left["interrupts"])
        b2 == Nearer(b1, m.left["timers"])
        b3 == Nearer(b2, m.left["cdrom"])
        b4 == Nearer(b3, m.left["dma"])
    IN  Nearer(b4, m.left["sio"])

\* The deadline for devices that stand at cycle c.
RecomputeDeadline(m, c) == c + Nearer(HardCap, NextEvent(m, c))

Init ==
    /\ clock = 0 /\ synced = 0 /\ deadline = 0
    /\ pc = "guest" /\ target = 0 /\ then = "guest"
    /\ dev \in [left : {[i \in Devices |-> Arms[i][i]]}, fire : {[i \in Source |-> 0]}]
    /\ batch = 0 /\ limit = 0 /\ defer = 0
    /\ mode = "live"
    /\ save = NoFreeze
    /\ exact \in BOOLEAN
    /\ snap = [valid |-> FALSE, clock |-> 0, dev |-> dev]
    /\ work = 0 /\ stale = FALSE

-----------------------------------------------------------------------------
(* Freezes: a render pass discards the time it takes, an uncharged span    *)
(* does too unless it exceeds its budget.                                  *)

\* Freeze the clock: park the caller's pending charges, never service.
FreezeBegin(m) ==
    /\ mode = "live"
    /\ mode' = m
    /\ save' = [clock |-> clock, deadline |-> deadline, batch |-> batch, limit |-> limit,
                defer |-> defer, pc |-> pc, work |-> work]
    /\ batch' = 0 /\ limit' = 0
    /\ pc' = "guest"
    /\ deadline' = clock + HardCap
    /\ UNCHANGED <<clock, synced, target, then, dev, defer, exact, snap, work, stale>>

PassBegin == pc \in {"guest", "service"} /\ FreezeBegin("pass")
SpanBegin == pc = "guest" /\ FreezeBegin("span")

\* Mutant: the caller's pending charges are dropped.
FreezeEndDropBatch ==
    /\ mode' = "live"
    /\ clock' = save.clock /\ deadline' = save.deadline
    /\ batch' = 0 /\ limit' = 0 /\ defer' = save.defer
    /\ pc' = save.pc
    /\ work' = save.work
    /\ save' = NoFreeze
    /\ UNCHANGED <<synced, target, then, dev, exact, snap, stale>>

\* Put the clock and the caller's pending charges back.
FreezeEnd ==
    /\ mode' = "live"
    /\ clock' = save.clock /\ deadline' = save.deadline
    /\ batch' = save.batch /\ limit' = save.limit /\ defer' = save.defer
    /\ pc' = save.pc
    /\ work' = save.work
    /\ save' = NoFreeze
    /\ UNCHANGED <<synced, target, then, dev, exact, snap, stale>>

PassEnd == mode = "pass" /\ pc = "guest" /\ FreezeEnd
SpanEnd == mode = "span" /\ pc = "guest" /\ FreezeEnd

\* The end of a span that thawed: the clock stays, the caller's deferred state comes back.
ThawedEnd ==
    /\ mode = "thawed" /\ pc = "guest"
    /\ mode' = "live"
    /\ batch' = save.batch /\ limit' = save.limit /\ defer' = save.defer
    /\ stale' = TRUE
    /\ save' = NoFreeze
    /\ UNCHANGED <<clockVars, loopVars, dev, exact, snap, work>>

OverBudget(c) == Budget # 0 /\ c - save.clock > Budget

\* Mutant: a thaw leaves the deadline of the freeze in place.
FreezeTickKeepDeadline(c, w, d, p) ==
    \/ /\ ~OverBudget(c) \/ mode = "span"
       /\ mode' = IF OverBudget(c) THEN "thawed" ELSE mode
       /\ clock' = c /\ deadline' = c + HardCap
       /\ batch' = 0 /\ limit' = 0 /\ defer' = d
       /\ pc' = p /\ work' = w
       /\ UNCHANGED <<synced, target, then, dev, save, exact, snap, stale>>
    \/ OverBudget(c) /\ mode = "pass" /\ FreezeEnd

\* psx_cycle_freeze_tick at published cycle c, on the way to pc p.
\* (w and d are the history and the deferral depth after the step.)
FreezeTick(c, w, d, p) ==
    \/ /\ ~OverBudget(c)
       /\ clock' = c /\ deadline' = c + HardCap
       /\ batch' = 0 /\ limit' = 0 /\ defer' = d
       /\ pc' = p /\ work' = w
       /\ UNCHANGED <<synced, target, then, dev, mode, save, exact, snap, stale>>
    \/ /\ OverBudget(c) /\ mode = "span"     \* thaw
       /\ mode' = "thawed"
       /\ clock' = c /\ deadline' = 0
       /\ batch' = 0 /\ limit' = 0 /\ defer' = d
       /\ pc' = p /\ work' = w
       /\ UNCHANGED <<synced, target, then, dev, save, exact, snap, stale>>
    \/ OverBudget(c) /\ mode = "pass" /\ FreezeEnd     \* overrun leaves the pass

-----------------------------------------------------------------------------
(* Publishing cycles.                                                      *)

\* Start a replay to cycle c: the clock goes back to the devices' cycle.
Service(c, w, d, k) ==
    /\ pc' = "service" /\ target' = c /\ then' = k
    /\ clock' = synced
    /\ batch' = 0 /\ limit' = 0 /\ defer' = d
    /\ work' = w
    /\ UNCHANGED <<synced, deadline, dev, save, exact, snap, stale>>

\* The diagnostic path: devices walk from the clock to c one cycle at a time.
Walk(c, w, d, k) ==
    /\ pc' = "exact" /\ target' = c /\ then' = k
    /\ batch' = 0 /\ limit' = 0 /\ defer' = d
    /\ work' = w
    /\ UNCHANGED <<clockVars, dev, mode, save, exact, snap, stale>>

Due(c) == deadline = 0 \/ c >= deadline

\* psx_advance_cycles: the clock, pending batch included, moves to c.
Publish(c, w, d) ==
    \/ /\ Frozen \/ ~exact
       /\ ~Due(c)
       /\ clock' = c
       /\ batch' = 0 /\ limit' = 0 /\ defer' = d
       /\ work' = w
       /\ UNCHANGED <<synced, deadline, loopVars, dev, mode, save, exact, snap, stale>>
    \/ Frozen /\ Due(c) /\ FreezeTick(c, w, d, "guest")
    \/ ~Frozen /\ ~exact /\ Due(c) /\ Service(c, w, d, "guest") /\ UNCHANGED mode
    \/ ~Frozen /\ exact /\ Walk(c, w, d, "guest")

\* Device time and stalls: psx_advance_cycles(n).
Advance(n) ==
    /\ pc = "guest" /\ work + n <= MaxWork
    /\ Publish(clock + batch + n, work + n, defer)

\* Mutant: the batch ignores the deadline.
BatchLimitSoft == BatchSoft

\* How much a batch may hold: the room to the deadline, at most BatchSoft.
BatchLimit ==
    LET room == IF deadline > clock THEN deadline - clock ELSE 0
    IN  IF room = 0 THEN 1 ELSE IF room < BatchSoft THEN room ELSE BatchSoft

\* CPU work: psx_cyc_charge(n) batches it, or publishes the batch with it.
Charge(n) ==
    /\ pc = "guest" /\ work + n <= MaxWork
    /\ LET lim == IF batch = 0 THEN BatchLimit ELSE limit
       IN  \/ /\ ~exact
              /\ defer > 0 \/ batch + n < lim
              /\ batch' = batch + n
              /\ limit' = IF defer > 0 THEN limit ELSE lim
              /\ work' = work + n
              /\ UNCHANGED <<clockVars, loopVars, dev, defer, mode, save, exact, snap, stale>>
           \/ /\ exact \/ (defer = 0 /\ batch + n >= lim)
              /\ Publish(clock + batch + n, work + n, defer)

\* An interrupt check publishes the batch.
Flush == pc = "guest" /\ batch # 0 /\ Publish(clock + batch, work, defer)

\* A generated function defers the deadline probe; the outermost cleanup publishes.
DeferBegin ==
    /\ pc = "guest" /\ defer < MaxDefer
    /\ defer' = defer + 1
    /\ UNCHANGED <<clockVars, loopVars, dev, batch, limit, mode, save, exact, snap, work, stale>>

DeferEnd ==
    /\ pc = "guest" /\ defer > 0
    /\ \/ /\ defer > 1 \/ batch = 0
          /\ defer' = defer - 1
          /\ UNCHANGED <<clockVars, loopVars, dev, batch, limit, mode, save, exact, snap, work, stale>>
       \/ /\ defer = 1 /\ batch # 0
          /\ Publish(clock + batch, work, 0)

-----------------------------------------------------------------------------
(* The replay loops.                                                       *)

\* Mutant: the interval up to an event is given to every device in one piece.
ServiceStepWhole ==
    /\ pc = "service" /\ clock < target
    /\ LET ev == NextEvent(dev, clock)
           step == IF ev < target - clock THEN ev ELSE target - clock
       IN  /\ clock' = clock + step
           /\ dev' = AdvanceDevices(dev, step, clock + step)
    /\ UNCHANGED <<synced, deadline, loopVars, batchVars, mode, save, exact, snap, work, stale>>

\* One chunk: the quiet prefix first, then the cycle an event falls on.
ServiceStep ==
    /\ pc = "service" /\ clock < target
    /\ LET ev == NextEvent(dev, clock)
           step == IF ev < target - clock THEN ev ELSE target - clock
           now == clock + step
       IN  /\ clock' = now
           /\ dev' = IF step > 1 /\ ev = step
                     THEN AdvanceDevices(AdvanceDevices(dev, step - 1, now - 1), 1, now)
                     ELSE AdvanceDevices(dev, step, now)
    /\ UNCHANGED <<synced, deadline, loopVars, batchVars, mode, save, exact, snap, work, stale>>

\* What follows the loop: guest code, a register handler, or the snapshot.
Resume(c) ==
    /\ pc' = IF then = "handler" THEN "handler" ELSE "guest"
    /\ target' = 0 /\ then' = "guest"
    /\ snap' = IF then = "save" THEN [valid |-> TRUE, clock |-> c, dev |-> dev] ELSE snap

ServiceDone ==
    /\ pc = "service" /\ clock >= target
    /\ synced' = target
    /\ deadline' = RecomputeDeadline(dev, clock)
    /\ stale' = FALSE
    /\ Resume(clock)
    /\ UNCHANGED <<clock, dev, batchVars, mode, save, exact, work>>

ExactStep ==
    /\ pc = "exact" /\ clock < target
    /\ clock' = clock + 1
    /\ dev' = AdvanceDevices(dev, 1, clock + 1)
    /\ UNCHANGED <<synced, deadline, loopVars, batchVars, mode, save, exact, snap, work, stale>>

\* The walk leaves the deadline dirty; a sync that follows recomputes it.
ExactDone ==
    /\ pc = "exact" /\ clock >= target
    /\ synced' = clock
    /\ deadline' = IF then = "guest" THEN 0 ELSE RecomputeDeadline(dev, clock)
    /\ stale' = FALSE
    /\ Resume(clock)
    /\ UNCHANGED <<clock, dev, batchVars, mode, save, exact, work>>

-----------------------------------------------------------------------------
(* Device registers, savestates, the granularity toggle.                   *)

\* Mutant: a sync recomputes the deadline without catching the devices up.
MmioSyncLazy ==
    /\ pc = "guest"
    /\ deadline' = RecomputeDeadline(dev, clock + batch)
    /\ clock' = clock + batch /\ batch' = 0 /\ limit' = 0
    /\ pc' = "handler" /\ stale' = FALSE
    /\ UNCHANGED <<synced, target, then, dev, defer, mode, save, exact, snap, work>>

\* psx_devices_mmio_sync: publish the batch and catch the devices up, then the handler runs.
MmioSync ==
    /\ pc = "guest"
    /\ LET c == clock + batch
           flushTicks == batch # 0 /\ Due(c)
       IN  \/ /\ Frozen
              /\ ~(mode = "span" /\ flushTicks /\ OverBudget(c))
              /\ FreezeTick(c, work, defer, "handler")
           \/ \* the flush itself thaws the span: the sync then finds the clock live
              /\ mode = "span" /\ flushTicks /\ OverBudget(c)
              /\ Service(c, work, defer, "handler") /\ mode' = "thawed"
           \/ /\ ~Frozen /\ exact /\ batch # 0
              /\ Walk(c, work, defer, "handler")
           \/ /\ ~Frozen /\ ~(exact /\ batch # 0) /\ synced # c
              /\ Service(c, work, defer, "handler") /\ UNCHANGED mode
           \/ /\ ~Frozen /\ ~(exact /\ batch # 0) /\ synced = c
              /\ deadline' = RecomputeDeadline(dev, c)
              /\ clock' = c /\ batch' = 0 /\ limit' = 0
              /\ pc' = "handler" /\ stale' = FALSE
              /\ UNCHANGED <<synced, target, then, dev, defer, mode, save, exact, snap, work>>

\* The handler arms (or, with d = 0, stops) a device where the devices stand.
WriteReg(i, d) ==
    /\ pc = "handler"
    /\ mode # "pass" /\ (SpanWrites \/ synced = clock)
    /\ dev' = [dev EXCEPT !.left[i] = d]
    /\ stale' = (stale \/ d # 0)
    /\ pc' = "guest"
    /\ UNCHANGED <<clockVars, target, then, batchVars, mode, save, exact, snap, work>>

ReadReg ==
    /\ pc = "handler"
    /\ pc' = "guest"
    /\ UNCHANGED <<clockVars, target, then, dev, batchVars, mode, save, exact, snap, work, stale>>

\* Mutant: the machine is copied as it stands, devices behind the clock.
SaveLagging ==
    /\ Snapshots /\ ~snap.valid
    /\ pc = "guest" /\ mode = "live"
    /\ snap' = [valid |-> TRUE, clock |-> clock, dev |-> dev]
    /\ UNCHANGED <<clockVars, loopVars, dev, batchVars, mode, save, exact, work, stale>>

\* A savestate publishes the batch, catches the devices up, then copies the machine.
Save ==
    /\ Snapshots /\ ~snap.valid
    /\ pc = "guest" /\ mode = "live"
    /\ LET c == clock + batch
       IN  IF exact /\ batch # 0
           THEN Walk(c, work, defer, "save")
           ELSE Service(c, work, defer, "save") /\ UNCHANGED mode

\* Mutant: the batch of the abandoned timeline survives the load.
RestoreKeepBatch ==
    /\ snap.valid
    /\ pc \in {"guest", "service", "exact"} /\ mode = "live"
    /\ clock' = snap.clock /\ dev' = snap.dev
    /\ synced' = snap.clock /\ deadline' = 0
    /\ defer' = 0
    /\ pc' = "guest" /\ target' = 0 /\ then' = "guest"
    /\ work' = snap.clock /\ stale' = FALSE
    /\ UNCHANGED <<batch, limit, mode, save, exact, snap>>

\* Loading one, possibly by longjmp out of a replay loop, reanchors the clock.
Restore ==
    /\ snap.valid
    /\ pc \in {"guest", "service", "exact"} /\ mode = "live"
    /\ clock' = snap.clock /\ dev' = snap.dev
    /\ synced' = snap.clock /\ deadline' = 0
    /\ batch' = 0 /\ limit' = 0 /\ defer' = 0
    /\ pc' = "guest" /\ target' = 0 /\ then' = "guest"
    /\ work' = snap.clock /\ stale' = FALSE
    /\ UNCHANGED <<mode, save, exact, snap>>

\* overlay_native_event_granularity, at an interrupt check.
Toggle ==
    /\ Toggles
    /\ pc = "guest" /\ mode = "live" /\ batch = 0
    /\ exact' = ~exact
    /\ UNCHANGED <<clockVars, loopVars, dev, batchVars, mode, save, snap, work, stale>>

Write == \E i \in Writable, d \in Delays : WriteReg(i, d)

\* Every step but a register write and a restore.
Step ==
    \/ \E n \in Charges : Charge(n) \/ Advance(n)
    \/ Flush \/ DeferBegin \/ DeferEnd
    \/ ServiceStep \/ ServiceDone \/ ExactStep \/ ExactDone
    \/ MmioSync \/ ReadReg
    \/ PassBegin \/ PassEnd \/ SpanBegin \/ SpanEnd \/ ThawedEnd
    \/ Save \/ Toggle

Next == Step \/ Write \/ Restore

Spec == Init /\ [][Next]_vars

=============================================================================
