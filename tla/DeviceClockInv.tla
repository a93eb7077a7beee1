--------------------------- MODULE DeviceClockInv ---------------------------
(***************************************************************************)
(* What the lazy device clock promises.                                    *)
(***************************************************************************)
EXTENDS DeviceClock

FreezeSave == [clock : Nat, deadline : Nat, batch : Nat, limit : Nat, defer : Nat,
               pc : {"guest", "service"}, work : Nat]

\* Type invariant of the clock's state.
TypeOK ==
    /\ clock \in Nat /\ synced \in Nat /\ deadline \in Nat
    /\ pc \in {"guest", "service", "exact", "handler"}
    /\ target \in Nat /\ then \in {"guest", "handler", "save"}
    /\ dev \in Machine
    /\ batch \in Nat /\ limit \in Nat /\ defer \in Nat
    /\ mode \in {"live", "pass", "span", "thawed"}
    /\ save \in FreezeSave
    /\ exact \in BOOLEAN
    /\ snap \in [valid : BOOLEAN, clock : Nat, dev : Machine]
    /\ work \in Nat /\ stale \in BOOLEAN

\* Guest code runs on a live clock whose deadline is not dirty.
Settled == pc = "guest" /\ mode \in {"live", "thawed"} /\ deadline # 0

\* Cycles that guest code outside a deferring function has not published yet.
Pending == IF defer = 0 THEN batch ELSE 0

\* "No event can fire late": the clock, with the pending batch, has not reached
\* the next device event (psx_devices_recompute_deadline, psx_cyc_charge).
OnTime == Settled => clock + Pending < synced + NextEvent(dev, synced)

\* Nothing fires late as long as no register write armed an event after the deadline was computed.
OnTimeUnlessRearmed == ~stale => OnTime

\* However stale the deadline, devices are never a full PSX_DEADLINE_HARD_CAP behind
\* the clock that guest code runs on.
LagBounded == Settled => clock - synced < HardCap

\* A register handler on the live clock sees devices that are caught up,
\* with no cycle left in the batch (psx_devices_mmio_sync).
HandlerCurrent == pc = "handler" /\ mode = "live" => synced = clock /\ batch = 0

\* The cycle the guest has reached: a replay has rewound the counter, not the guest.
LiveNow == IF pc \in {"service", "exact"} THEN target ELSE clock

\* Every cycle executed outside a discarded freeze is on the clock or in the batch, once.
AllCharged == mode = "live" => LiveNow + batch = work

-----------------------------------------------------------------------------
(* The inductive invariant, of the live state and of the state a freeze    *)
(* will put back.                                                          *)

\* A deadline dl is ahead of clock c, and not too far ahead of the devices.
Window(c, dl) ==
    dl # 0 => /\ c < dl
              /\ dl <= synced + HardCap
              /\ ~stale => dl <= synced + NextEvent(dev, synced)

\* A batch b at depth d under limit l stays short of deadline dl.
Batched(c, dl, b, l, d) == ~stale /\ d = 0 /\ b # 0 => b < l /\ c + l <= dl

LoopInv == pc \in {"service", "exact"} => ~Frozen /\ synced <= clock /\ clock <= target /\ batch = 0

LiveInv ==
    ~Frozen /\ pc \in {"guest", "handler"} =>
        /\ synced <= clock
        /\ Window(clock, deadline)
        /\ Batched(clock, deadline, batch, limit, defer)

FrozenInv ==
    Frozen =>
        /\ pc \in {"guest", "handler"}
        /\ synced <= save.clock /\ save.clock <= clock
        /\ save.pc = "guest" => /\ Window(save.clock, save.deadline)
                                /\ Batched(save.clock, save.deadline, save.batch, save.limit, save.defer)
        /\ save.pc = "service" => mode = "pass" /\ save.clock <= target /\ save.batch = 0

IInv == TypeOK /\ LoopInv /\ LiveInv /\ FrozenInv /\ HandlerCurrent

\* Where the guest stands when the freeze in progress ends.
SavedNow == IF save.pc = "service" THEN target ELSE save.clock

\* With unlimited freezes no cycle is lost, during a freeze either.
ChargedInv ==
    /\ mode # "thawed"
    /\ AllCharged
    /\ Frozen => SavedNow + save.batch = save.work

=============================================================================
