--------------------------- MODULE DeviceTimeline ---------------------------
(***************************************************************************)
(* The reference timeline of the devices: the same devices advanced one    *)
(* cycle at a time, in step with the guest, with no lag, no deadline and   *)
(* no replay.  The history variable ideal carries that machine beside      *)
(* DeviceClock, each action of which is conjoined with its effect on it.   *)
(***************************************************************************)
EXTENDS DeviceClockInv

VARIABLES ideal, idealSnap

refVars == <<vars, ideal, idealSnap>>

\* n cycles from cycle at, one by one.
SingleSteps(m, at, n) ==
    LET after[k \in Nat] == IF k = 0 THEN m ELSE AdvanceDevices(after[k - 1], 1, at + k)
    IN  after[n]

\* The cycle guest time stands at: frozen at the start of a freeze.
GuestNow ==
    IF mode \in {"pass", "span"}
    THEN IF save.pc = "service" THEN target ELSE save.clock
    ELSE LiveNow

\* The cycle the lazy devices stand at.
DeviceNow ==
    CASE pc \in {"service", "exact"} -> clock
      [] mode = "pass" /\ save.pc = "service" -> save.clock
      [] OTHER -> synced

RefInit == Init /\ ideal = dev /\ idealSnap = dev

RefNext ==
    \/ /\ Step
       /\ ideal' = SingleSteps(ideal, GuestNow, GuestNow' - GuestNow)
       /\ idealSnap' = IF snap' # snap THEN ideal ELSE idealSnap
    \/ /\ \E i \in Writable, d \in Delays :
              WriteReg(i, d) /\ ideal' = [ideal EXCEPT !.left[i] = d]
       /\ UNCHANGED idealSnap
    \/ /\ Restore
       /\ ideal' = idealSnap
       /\ UNCHANGED idealSnap

RefSpec == RefInit /\ [][RefNext]_refVars

\* The timeline is exact: whatever the lag, the deadline, freezes and restores, the
\* devices caught up to guest time are the machine that never lagged, event cycles included
\* (psx_devices_service_to_now: "device code observes the exact same cycle values").
ReplayExact == SingleSteps(dev, DeviceNow, GuestNow - DeviceNow) = ideal

-----------------------------------------------------------------------------
(* The inductive invariant.                                                *)

\* The single-cycle path starts at the clock, so it is right only where the devices are
\* there already: never with a freeze's cycles kept by a thaw.
ExactCurrent ==
    exact => /\ Budget = 0 /\ mode # "thawed"
             /\ ~Frozen /\ pc \in {"guest", "handler"} => synced = clock
             /\ Frozen /\ save.pc = "guest" => synced = save.clock

\* The savestate holds the devices of the reference at that moment.
SnapExact == snap.valid => idealSnap = snap.dev

TimelineInv == IInv /\ ExactCurrent /\ ReplayExact /\ SnapExact

=============================================================================
