---------------------------- MODULE RenderThread ----------------------------
(***************************************************************************)
(* The render thread core, runtime/src/render_thread.c.                    *)
(*                                                                         *)
(* The emulation thread appends records to a single-producer /             *)
(* single-consumer ring; the render thread owns the graphics context and   *)
(* replays the ring in order.  The emulation thread may take the context   *)
(* (rt_acquire) and hand it back (rt_release).  Two program counters, epc  *)
(* and rpc, interleave at the shared accesses: the seq_cst atomics wpos,   *)
(* rpos, render_sleeping, emu_sleeping and released, the mutex and the two *)
(* condition variables.  A lock ... broadcast ... unlock that does nothing *)
(* else is one step, enabled while the mutex is free.                      *)
(*                                                                         *)
(* Positions are counted in RT_ALIGN units (the size of a record header).  *)
(* Every cell of the ring remembers the position it was last written for   *)
(* (at): the ghost that tells a record from the remains of an older one.   *)
(***************************************************************************)
EXTENDS Integers, FiniteSets

CONSTANTS
    Cap,          \* ring size in units (R.cap / RT_ALIGN)
    MaxFrames,    \* R.max_frames
    Sizes,        \* record sizes the backend asks for, in units
    WakeUnits,    \* WAKE_BYTES / RT_ALIGN
    WakeRecords,  \* WAKE_RECORDS
    MaxPos,       \* bound on wpos between rt_start and rt_stop
    MaxProduced   \* bound on frames_produced between rt_start and rt_stop

ASSUME CapAssumption == Cap \in Nat \ {0}
ASSUME MaxFramesAssumption == MaxFrames \in Nat \ {0}
ASSUME SizesAssumption == Sizes \subseteq Nat \ {0}
ASSUME WakeAssumption == WakeUnits \in Nat /\ WakeRecords \in Nat
ASSUME BoundsAssumption == MaxPos \in Nat /\ MaxProduced \in Nat

VARIABLES
    ring,                             \* R.ring
    wpos, rpos,                       \* R.wpos, R.rpos (and render_main's r)
    produced, consumed,               \* R.frames_produced, R.frames_consumed
    renderSleeping, emuSleeping,      \* R.render_sleeping, R.emu_sleeping
    running, releaseReq, stop, released, held,
    unwokenUnits, unwokenRecords,     \* R.unwoken_bytes, R.unwoken_records
    tickArmed,                        \* R.tick_at # 0
    haveCtx,                          \* render_main's have_ctx
    mtx,                              \* the thread inside R.mtx, or "free"
    cvWork, cvEmu,                    \* a thread sleeps in cnd_wait on R.cv_*
    ctxOn,                            \* threads the context is current on
    epc, rpc,                         \* program counters
    pend,                             \* R.pend_start, R.pend_size and the pad
    wait,                             \* emu_wait's predicate and its caller
    wakeTo                            \* the caller of wake_render

frameVars  == <<produced, consumed>>
ringVars   == <<ring, wpos, rpos, pend>>
dataVars   == <<ringVars, frameVars>>
flagVars   == <<renderSleeping, emuSleeping>>
lockVars   == <<mtx, cvWork, cvEmu>>
sleepVars  == <<flagVars, lockVars>>
handVars   == <<running, releaseReq, stop, released, held>>
shared     == <<dataVars, sleepVars, handVars, ctxOn>>
batchVars  == <<unwokenUnits, unwokenRecords, wakeTo>>
emuVars    == <<epc, wait, batchVars>>
renderVars == <<rpc, tickArmed, haveCtx>>
vars       == <<shared, emuVars, renderVars>>

Threads == {"emu", "render"}
Offsets == 0 .. Cap - 1

\* A header cell is an "op", a "pad" (OP_PAD) or a "frame" (OP_PAD with F_FRAME);
\* "data" is a payload cell and "junk" memory the producer never wrote.
Headers == {"op", "pad", "frame"}
Cell == [at : Nat, size : Nat, kind : Headers \cup {"data", "junk"}]
JunkCell == [at |-> 0, size |-> 0, kind |-> "junk"]

EmuPc == {"idle", "spawn", "write", "commit", "marker", "wake", "wakeLock",
          "frames", "test", "sleepLock", "sleep", "acqReq", "acqCtx",
          "relReq", "stopReq", "join"}
RenderPc == {"none", "start", "loop", "poll", "exec", "store", "wakeEmu",
             "wakeEmuLock", "lock", "sleep", "awake", "srvCtx0", "srvLock",
             "srvWait", "srvCtx1", "srvRelock", "exit", "done"}
WaitPreds == {"space", "drained", "frames", "released"}
NoWait == [pred |-> "drained", arg |-> 0, ret |-> "idle"]
NoPend == [at |-> 0, pad |-> 0, size |-> 0]

-----------------------------------------------------------------------------
(* Ring memory *)

At(p) == ring[p % Cap]

\* The ring after a record of n units and kind k was written at position p;
\* a pad writes its header only.
Written(mem, p, n, k) ==
    LET off == p % Cap
        top == IF k = "pad" THEN off ELSE off + n - 1
    IN  [i \in Offsets |->
            IF i \in off .. top
            THEN [at   |-> p + (i - off),
                  size |-> IF i = off THEN n ELSE 0,
                  kind |-> IF i = off THEN k ELSE "data"]
            ELSE mem[i]]

\* rt_cmd_begin pads to the ring end when the record would not fit before it.
PadFor(p, n) == IF (p % Cap) + n > Cap THEN Cap - (p % Cap) ELSE 0

\* Mutants: off by one unit, off by one frame.
PredSpaceOffByOne(end) == end - rpos <= Cap + 1
PredFramesOffByOne(lim) == produced - consumed <= lim + 1

\* The predicates emu_wait re-tests.
PredSpace(end)   == end - rpos <= Cap
PredDrained(w)   == rpos = w
PredFrames(lim)  == produced - consumed <= lim
PredReleased     == released
Pred(w) ==
    CASE w.pred = "space"    -> PredSpace(w.arg)
      [] w.pred = "drained"  -> PredDrained(w.arg)
      [] w.pred = "frames"   -> PredFrames(w.arg)
      [] w.pred = "released" -> PredReleased

\* Mutant: the frame being replayed is counted as ahead of itself.
FramesAheadWithSelf == produced - consumed

\* rt_frames_ahead
FramesAhead == IF produced - consumed - 1 < 0 THEN 0 ELSE produced - consumed - 1

-----------------------------------------------------------------------------
(* Initially nothing runs and the context is current on the caller of rt_start. *)

Init ==
    /\ ring = [i \in Offsets |-> JunkCell]
    /\ wpos = 0 /\ rpos = 0 /\ pend = NoPend
    /\ produced = 0 /\ consumed = 0
    /\ renderSleeping = FALSE /\ emuSleeping = FALSE
    /\ mtx = "free" /\ cvWork = FALSE /\ cvEmu = FALSE
    /\ running = FALSE /\ releaseReq = FALSE /\ stop = FALSE
    /\ released = FALSE /\ held = FALSE /\ haveCtx = FALSE
    /\ ctxOn = {"emu"}
    /\ unwokenUnits = 0 /\ unwokenRecords = 0 /\ wakeTo = "idle"
    /\ tickArmed = FALSE
    /\ epc = "idle" /\ rpc = "none" /\ wait = NoWait

-----------------------------------------------------------------------------
(* Sleeping and waking, emulation side *)

\* Call emu_wait(p, a) and continue at ret.
EnterWait(p, a, ret) ==
    /\ wait' = [pred |-> p, arg |-> a, ret |-> ret]
    /\ epc' = "test"

\* The first statement of wake_render(1): the batch counters restart.
ForceWake(ret) ==
    /\ unwokenUnits' = 0 /\ unwokenRecords' = 0
    /\ wakeTo' = ret
    /\ epc' = "wake"

\* Mutant: sleep without waking the render thread first.
EmuTestNoWake ==
    /\ epc = "test"
    /\ \/ /\ Pred(wait)
          /\ epc' = wait.ret /\ wait' = NoWait
       \/ /\ ~Pred(wait)
          /\ epc' = "sleepLock" /\ UNCHANGED wait
    /\ UNCHANGED <<shared, batchVars, renderVars>>

\* emu_wait: return at once if the predicate holds, otherwise wake the render
\* thread and go to sleep.
EmuTest ==
    /\ epc = "test"
    /\ \/ /\ Pred(wait)
          /\ epc' = wait.ret /\ wait' = NoWait
          /\ UNCHANGED batchVars
       \/ /\ ~Pred(wait)
          /\ ForceWake("sleepLock")
          /\ UNCHANGED wait
    /\ UNCHANGED <<shared, renderVars>>

\* wake_render: read the flag the sleeper raised under the lock.
EmuWake ==
    /\ epc = "wake"
    /\ epc' = IF renderSleeping THEN "wakeLock" ELSE wakeTo
    /\ UNCHANGED <<shared, wait, batchVars, renderVars>>

EmuWakeLock ==
    /\ epc = "wakeLock" /\ mtx = "free"
    /\ cvWork' = FALSE
    /\ epc' = wakeTo
    /\ UNCHANGED <<dataVars, flagVars, mtx, cvEmu, handVars, ctxOn, wait, batchVars,
                   renderVars>>

\* emu_wait: lock and raise emu_sleeping before the re-check.
EmuSleepLock ==
    /\ epc = "sleepLock" /\ mtx = "free"
    /\ mtx' = "emu" /\ emuSleeping' = TRUE
    /\ epc' = "sleep"
    /\ UNCHANGED <<dataVars, renderSleeping, cvWork, cvEmu, handVars, ctxOn, wait,
                   batchVars, renderVars>>

EmuSleep ==
    /\ epc = "sleep" /\ mtx = "emu"
    /\ mtx' = "free"
    /\ \/ /\ Pred(wait)
          /\ emuSleeping' = FALSE
          /\ epc' = wait.ret /\ wait' = NoWait
          /\ UNCHANGED cvEmu
       \/ /\ ~Pred(wait)
          /\ cvEmu' = TRUE
          /\ UNCHANGED <<emuSleeping, epc, wait>>
    /\ UNCHANGED <<dataVars, renderSleeping, cvWork, handVars, ctxOn, batchVars,
                   renderVars>>

\* cnd_wait returns: the signalled thread takes the mutex again.
EmuRelock ==
    /\ epc = "sleep" /\ ~cvEmu /\ mtx = "free"
    /\ mtx' = "emu"
    /\ UNCHANGED <<dataVars, flagVars, cvWork, cvEmu, handVars, ctxOn, emuVars,
                   renderVars>>

-----------------------------------------------------------------------------
(* Records and frames, emulation side *)

\* rt_cmd_begin up to the space check.  A record larger than half the ring is
\* refused.  The backend never records while it holds the context
\* (rth_record_mode) and commits before any other call (render_thread.h).
CmdBegin(n) ==
    /\ epc = "idle" /\ running /\ ~held
    /\ n <= Cap \div 2
    /\ LET pad == PadFor(wpos, n)
       IN  /\ wpos + pad + n <= MaxPos
           /\ pend' = [at |-> wpos + pad, pad |-> pad, size |-> n]
           /\ \/ /\ PredSpace(wpos + pad + n)
                 /\ epc' = "write" /\ UNCHANGED wait
              \/ /\ ~PredSpace(wpos + pad + n)
                 /\ EnterWait("space", wpos + pad + n, "write")
    /\ UNCHANGED <<ring, wpos, rpos, frameVars, sleepVars, handVars, ctxOn, batchVars,
                   renderVars>>

\* The rest of rt_cmd_begin and the caller's payload copy.
CmdWrite ==
    /\ epc = "write"
    /\ ring' = Written(IF pend.pad > 0
                       THEN Written(ring, pend.at - pend.pad, pend.pad, "pad")
                       ELSE ring,
                       pend.at, pend.size, "op")
    /\ epc' = "commit"
    /\ UNCHANGED <<wpos, rpos, pend, frameVars, sleepVars, handVars, ctxOn, wait,
                   batchVars, renderVars>>

\* rt_cmd_commit: publish, then wake the render thread once a batch is full.
CmdCommit ==
    /\ epc = "commit"
    /\ wpos' = pend.at + pend.size
    /\ pend' = NoPend
    /\ \/ /\ unwokenUnits + pend.size < WakeUnits
          /\ unwokenRecords + 1 < WakeRecords
          /\ unwokenUnits' = unwokenUnits + pend.size
          /\ unwokenRecords' = unwokenRecords + 1
          /\ epc' = "idle" /\ UNCHANGED wakeTo
       \/ /\ \/ unwokenUnits + pend.size >= WakeUnits
             \/ unwokenRecords + 1 >= WakeRecords
          /\ ForceWake("idle")
    /\ UNCHANGED <<ring, rpos, frameVars, sleepVars, handVars, ctxOn, wait, renderVars>>

\* rt_frame_end while the context is held: nothing is queued.
FrameEndHeld ==
    /\ epc = "idle" /\ running /\ held
    /\ produced < MaxProduced
    /\ produced' = produced + 1 /\ consumed' = consumed + 1
    /\ UNCHANGED <<ringVars, sleepVars, handVars, ctxOn, emuVars, renderVars>>

\* rt_frame_end: count the frame, then commit_marker's space check.
FrameEnd ==
    /\ epc = "idle" /\ running /\ ~held
    /\ wpos + 1 <= MaxPos /\ produced < MaxProduced
    /\ produced' = produced + 1
    /\ \/ /\ PredSpace(wpos + 1)
          /\ epc' = "marker" /\ UNCHANGED wait
       \/ /\ ~PredSpace(wpos + 1)
          /\ EnterWait("space", wpos + 1, "marker")
    /\ UNCHANGED <<ringVars, consumed, sleepVars, handVars, ctxOn, batchVars, renderVars>>

\* Mutant: a marker waits for the batch like any record.
MarkerNoWake ==
    /\ epc = "marker"
    /\ ring' = Written(ring, wpos, 1, "frame")
    /\ wpos' = wpos + 1
    /\ epc' = "frames"
    /\ UNCHANGED <<rpos, pend, frameVars, sleepVars, handVars, ctxOn, wait, batchVars,
                   renderVars>>

\* commit_marker writes and publishes the marker; wake_render(1) follows.
Marker ==
    /\ epc = "marker"
    /\ ring' = Written(ring, wpos, 1, "frame")
    /\ wpos' = wpos + 1
    /\ ForceWake("frames")
    /\ UNCHANGED <<rpos, pend, frameVars, sleepVars, handVars, ctxOn, wait, renderVars>>

\* rt_frame_end: block while more than max_frames frames are in flight.
FrameBound ==
    /\ epc = "frames"
    /\ \/ /\ PredFrames(MaxFrames)
          /\ epc' = "idle" /\ UNCHANGED wait
       \/ /\ ~PredFrames(MaxFrames)
          /\ EnterWait("frames", MaxFrames, "idle")
    /\ UNCHANGED <<shared, batchVars, renderVars>>

-----------------------------------------------------------------------------
(* Sync points and life cycle, emulation side *)

\* rt_drain, alone or as the first half of rt_acquire ("acqReq") and of rt_stop
\* ("stopReq").
Drain(ret) ==
    /\ epc = "idle" /\ running /\ ~held
    /\ EnterWait("drained", wpos, ret)
    /\ UNCHANGED <<shared, batchVars, renderVars>>

\* Mutant: the context is taken without waiting for its release.
AcquireRequestNoWait ==
    /\ epc = "acqReq" /\ mtx = "free"
    /\ releaseReq' = TRUE
    /\ cvWork' = FALSE
    /\ epc' = "acqCtx"
    /\ UNCHANGED <<dataVars, flagVars, mtx, cvEmu, running, stop, released, held, ctxOn,
                   wait, batchVars, renderVars>>

\* rt_acquire after the drain: ask for the context and wait for it.
AcquireRequest ==
    /\ epc = "acqReq" /\ mtx = "free"
    /\ releaseReq' = TRUE
    /\ cvWork' = FALSE
    /\ EnterWait("released", 0, "acqCtx")
    /\ UNCHANGED <<dataVars, flagVars, mtx, cvEmu, running, stop, released, held, ctxOn,
                   batchVars, renderVars>>

AcquireCtx ==
    /\ epc = "acqCtx"
    /\ ctxOn' = ctxOn \cup {"emu"}
    /\ held' = TRUE
    /\ epc' = "idle"
    /\ UNCHANGED <<dataVars, sleepVars, running, releaseReq, stop, released, wait,
                   batchVars, renderVars>>

\* rt_release: give the context up, then withdraw the request.
Release ==
    /\ epc = "idle" /\ running /\ held
    /\ ctxOn' = ctxOn \ {"emu"}
    /\ epc' = "relReq"
    /\ UNCHANGED <<dataVars, sleepVars, handVars, wait, batchVars, renderVars>>

ReleaseRequest ==
    /\ epc = "relReq" /\ mtx = "free"
    /\ releaseReq' = FALSE
    /\ cvWork' = FALSE
    /\ held' = FALSE
    /\ epc' = "idle"
    /\ UNCHANGED <<dataVars, flagVars, mtx, cvEmu, running, stop, released, ctxOn, wait,
                   batchVars, renderVars>>

\* rt_stop while held skips the drain.
StopHeld ==
    /\ epc = "idle" /\ running /\ held
    /\ epc' = "stopReq"
    /\ UNCHANGED <<shared, wait, batchVars, renderVars>>

StopRequest ==
    /\ epc = "stopReq" /\ mtx = "free"
    /\ stop' = TRUE /\ releaseReq' = FALSE
    /\ cvWork' = FALSE
    /\ epc' = "join"
    /\ UNCHANGED <<dataVars, flagVars, mtx, cvEmu, running, released, held, ctxOn, wait,
                   batchVars, renderVars>>

\* rt_stop after the join: the context comes back unless it was held already.
StopJoin ==
    /\ epc = "join" /\ rpc = "done"
    /\ running' = FALSE /\ held' = FALSE
    /\ ctxOn' = IF held THEN ctxOn ELSE ctxOn \cup {"emu"}
    /\ epc' = "idle"
    /\ UNCHANGED <<dataVars, sleepVars, releaseReq, stop, released, wait, batchVars,
                   renderVars>>

\* rt_start: a fresh R and ring; the context leaves the caller before the
\* thread is created.  Its documented precondition is the first guard.
Start ==
    /\ epc = "idle" /\ ~running /\ ctxOn = {"emu"}
    /\ ring' = [i \in Offsets |-> JunkCell]
    /\ wpos' = 0 /\ rpos' = 0 /\ pend' = NoPend
    /\ produced' = 0 /\ consumed' = 0
    /\ renderSleeping' = FALSE /\ emuSleeping' = FALSE
    /\ mtx' = "free" /\ cvWork' = FALSE /\ cvEmu' = FALSE
    /\ running' = TRUE /\ releaseReq' = FALSE /\ stop' = FALSE
    /\ released' = FALSE /\ held' = FALSE /\ haveCtx' = FALSE
    /\ ctxOn' = {}
    /\ unwokenUnits' = 0 /\ unwokenRecords' = 0 /\ wakeTo' = "idle"
    /\ tickArmed' = FALSE
    /\ epc' = "spawn" /\ rpc' = "none" /\ wait' = NoWait

Spawn ==
    /\ epc = "spawn"
    /\ epc' = "idle" /\ rpc' = "start"
    /\ UNCHANGED <<shared, wait, batchVars, tickArmed, haveCtx>>

\* The thread could not be created: the caller gets its context back.
SpawnFail ==
    /\ epc = "spawn"
    /\ running' = FALSE
    /\ ctxOn' = ctxOn \cup {"emu"}
    /\ epc' = "idle"
    /\ UNCHANGED <<dataVars, sleepVars, releaseReq, stop, released, held, wait, batchVars,
                   renderVars>>

\* Every rt_* call but rt_start returns at once while nothing runs.
CallStopped ==
    /\ epc = "idle" /\ ~running
    /\ UNCHANGED vars

-----------------------------------------------------------------------------
(* The render thread *)

\* render_main entry: the new thread makes the context current.
RenderStart ==
    /\ rpc = "start"
    /\ ctxOn' = ctxOn \cup {"render"} /\ haveCtx' = TRUE
    /\ rpc' = "loop"
    /\ UNCHANGED <<dataVars, sleepVars, handVars, emuVars, tickArmed>>

\* run_tick: a due deadline is cleared and the callback may ask for the next.
RunTick ==
    /\ rpc = "loop"
    /\ rpc' = "poll"
    /\ tickArmed' \in {tickArmed, FALSE}
    /\ UNCHANGED <<shared, emuVars, haveCtx>>

\* The loop's reads of wpos: a record is there, or the spin ends.
RenderPoll ==
    /\ rpc = "poll"
    /\ rpc' = IF wpos # rpos THEN "exec" ELSE "lock"
    /\ UNCHANGED <<shared, emuVars, tickArmed, haveCtx>>

\* Decode the record at rpos: a marker closes its frame, a pad is skipped, an
\* "op" is handed to exec, which may arm the tick (rt_tick_at).
RenderExec ==
    /\ rpc = "exec"
    /\ consumed' = IF At(rpos).kind = "frame" THEN consumed + 1 ELSE consumed
    /\ tickArmed' \in IF At(rpos).kind = "op" THEN {tickArmed, TRUE} ELSE {tickArmed}
    /\ rpc' = "store"
    /\ UNCHANGED <<ringVars, produced, sleepVars, handVars, ctxOn, emuVars, haveCtx>>

\* Mutant: everything published is given back at once.
RenderStoreAll ==
    /\ rpc = "store"
    /\ rpos' = wpos
    /\ rpc' = "wakeEmu"
    /\ UNCHANGED <<ring, wpos, pend, frameVars, sleepVars, handVars, ctxOn, emuVars,
                   tickArmed, haveCtx>>

\* exec returned: only now are the record's bytes given back to the producer.
RenderStore ==
    /\ rpc = "store"
    /\ rpos' = rpos + At(rpos).size
    /\ rpc' = "wakeEmu"
    /\ UNCHANGED <<ring, wpos, pend, frameVars, sleepVars, handVars, ctxOn, emuVars,
                   tickArmed, haveCtx>>

\* wake_emu: read the flag the emulation thread raised under the lock.
RenderWakeEmu ==
    /\ rpc = "wakeEmu"
    /\ rpc' = IF emuSleeping THEN "wakeEmuLock" ELSE "loop"
    /\ UNCHANGED <<shared, emuVars, tickArmed, haveCtx>>

RenderWakeEmuLock ==
    /\ rpc = "wakeEmuLock" /\ mtx = "free"
    /\ cvEmu' = FALSE
    /\ rpc' = "loop"
    /\ UNCHANGED <<dataVars, flagVars, mtx, cvWork, handVars, ctxOn, emuVars, tickArmed,
                   haveCtx>>

\* Going to sleep: lock, raise render_sleeping, then re-check.
RenderLock ==
    /\ rpc = "lock" /\ mtx = "free"
    /\ mtx' = "render" /\ renderSleeping' = TRUE
    /\ rpc' = "sleep"
    /\ UNCHANGED <<dataVars, emuSleeping, cvWork, cvEmu, handVars, ctxOn, emuVars,
                   tickArmed, haveCtx>>

\* The sleep loop: wait while there is nothing to do and no tick is due.
RenderSleep ==
    /\ rpc = "sleep" /\ mtx = "render"
    /\ \/ /\ wpos = rpos /\ ~stop /\ ~releaseReq
          /\ cvWork' = TRUE /\ mtx' = "free"
          /\ UNCHANGED rpc
       \/ /\ wpos # rpos \/ stop \/ releaseReq \/ tickArmed
          /\ rpc' = "awake"
          /\ UNCHANGED <<cvWork, mtx>>
    /\ UNCHANGED <<dataVars, flagVars, cvEmu, handVars, ctxOn, emuVars, tickArmed,
                   haveCtx>>

\* cnd_wait returns in the sleep loop or in serve_release_locked.
RenderRelock ==
    /\ rpc \in {"sleep", "srvWait"} /\ ~cvWork /\ mtx = "free"
    /\ mtx' = "render"
    /\ UNCHANGED <<dataVars, flagVars, cvWork, cvEmu, handVars, ctxOn, emuVars,
                   renderVars>>

\* After the sleep loop: serve a release request, stop, or go on.
RenderAwake ==
    /\ rpc = "awake"
    /\ renderSleeping' = FALSE /\ mtx' = "free"
    /\ rpc' = IF releaseReq /\ wpos = rpos THEN "srvCtx0"
              ELSE IF stop /\ wpos = rpos THEN "exit" ELSE "loop"
    /\ UNCHANGED <<dataVars, emuSleeping, cvWork, cvEmu, handVars, ctxOn, emuVars,
                   tickArmed, haveCtx>>

\* Mutant: the release is announced before the context is given up.
ServeCtx0Forgotten ==
    /\ rpc = "srvCtx0"
    /\ rpc' = "srvLock"
    /\ UNCHANGED <<shared, emuVars, tickArmed, haveCtx>>

\* serve_release_locked: the context leaves the render thread.
ServeCtx0 ==
    /\ rpc = "srvCtx0"
    /\ ctxOn' = ctxOn \ {"render"}
    /\ rpc' = "srvLock"
    /\ UNCHANGED <<dataVars, sleepVars, handVars, emuVars, tickArmed, haveCtx>>

ServeReleased ==
    /\ rpc = "srvLock" /\ mtx = "free"
    /\ mtx' = "render"
    /\ released' = TRUE /\ cvEmu' = FALSE
    /\ rpc' = "srvWait"
    /\ UNCHANGED <<dataVars, flagVars, cvWork, running, releaseReq, stop, held, ctxOn,
                   emuVars, tickArmed, haveCtx>>

\* Parked until the request is withdrawn or the stopper keeps the context.
ServeWait ==
    /\ rpc = "srvWait" /\ mtx = "render"
    /\ mtx' = "free"
    /\ \/ /\ releaseReq /\ ~stop
          /\ cvWork' = TRUE
          /\ UNCHANGED <<released, haveCtx, rpc>>
       \/ /\ stop
          /\ released' = FALSE /\ haveCtx' = FALSE
          /\ rpc' = IF wpos = rpos THEN "exit" ELSE "loop"
          /\ UNCHANGED cvWork
       \/ /\ ~releaseReq /\ ~stop
          /\ released' = FALSE
          /\ rpc' = "srvCtx1"
          /\ UNCHANGED <<cvWork, haveCtx>>
    /\ UNCHANGED <<dataVars, flagVars, cvEmu, running, releaseReq, stop, held, ctxOn,
                   emuVars, tickArmed>>

ServeCtx1 ==
    /\ rpc = "srvCtx1"
    /\ ctxOn' = ctxOn \cup {"render"}
    /\ rpc' = "srvRelock"
    /\ UNCHANGED <<dataVars, sleepVars, handVars, emuVars, tickArmed, haveCtx>>

\* Back in render_main with the lock: "if (R.stop) have_ctx = 0", then done.
ServeReturn ==
    /\ rpc = "srvRelock" /\ mtx = "free"
    /\ haveCtx' = (haveCtx /\ ~stop)
    /\ rpc' = IF stop /\ wpos = rpos THEN "exit" ELSE "loop"
    /\ UNCHANGED <<shared, emuVars, tickArmed>>

RenderExit ==
    /\ rpc = "exit"
    /\ ctxOn' = IF haveCtx THEN ctxOn \ {"render"} ELSE ctxOn
    /\ rpc' = "done"
    /\ UNCHANGED <<dataVars, sleepVars, handVars, emuVars, tickArmed, haveCtx>>

\* cnd_wait may return without a signal; the render thread's timed wait also
\* returns when the tick deadline passes.
Spurious ==
    /\ \/ cvEmu /\ cvEmu' = FALSE /\ UNCHANGED cvWork
       \/ cvWork /\ cvWork' = FALSE /\ UNCHANGED cvEmu
    /\ UNCHANGED <<dataVars, flagVars, mtx, handVars, ctxOn, emuVars, renderVars>>

-----------------------------------------------------------------------------
\* Calls the emulation thread chooses to make, and the steps inside a call.
EmuCall ==
    \/ \E n \in Sizes : CmdBegin(n)
    \/ FrameEndHeld \/ FrameEnd
    \/ \E ret \in {"idle", "acqReq", "stopReq"} : Drain(ret)
    \/ Release \/ StopHeld \/ Start \/ CallStopped

EmuStep ==
    \/ EmuTest \/ EmuWake \/ EmuWakeLock \/ EmuSleepLock \/ EmuSleep \/ EmuRelock
    \/ CmdWrite \/ CmdCommit \/ Marker \/ FrameBound
    \/ AcquireRequest \/ AcquireCtx \/ ReleaseRequest
    \/ StopRequest \/ StopJoin \/ Spawn \/ SpawnFail

RenderStep ==
    \/ RenderStart \/ RunTick \/ RenderPoll \/ RenderExec \/ RenderStore
    \/ RenderWakeEmu \/ RenderWakeEmuLock
    \/ RenderLock \/ RenderSleep \/ RenderRelock \/ RenderAwake
    \/ ServeCtx0 \/ ServeReleased \/ ServeWait \/ ServeCtx1 \/ ServeReturn
    \/ RenderExit

Next == EmuCall \/ EmuStep \/ RenderStep \/ Spurious

Spec == Init /\ [][Next]_vars

\* Each thread keeps running while it can, and a thread that asks for the mutex
\* again and again gets it.
FairSpec == Spec /\ SF_vars(EmuStep) /\ SF_vars(RenderStep)

-----------------------------------------------------------------------------
(* Properties *)

DataType ==
    /\ ring \in [Offsets -> Cell]
    /\ wpos \in Nat /\ rpos \in Nat /\ produced \in Nat /\ consumed \in Nat
    /\ pend \in [at : Nat, pad : Nat, size : Nat] /\ pend.pad <= pend.at
    /\ unwokenUnits \in Nat /\ unwokenRecords \in Nat
FlagType ==
    /\ renderSleeping \in BOOLEAN /\ emuSleeping \in BOOLEAN
    /\ cvWork \in BOOLEAN /\ cvEmu \in BOOLEAN
    /\ running \in BOOLEAN /\ releaseReq \in BOOLEAN /\ stop \in BOOLEAN
    /\ released \in BOOLEAN /\ held \in BOOLEAN /\ haveCtx \in BOOLEAN
    /\ tickArmed \in BOOLEAN
ControlType ==
    /\ mtx \in Threads \cup {"free"} /\ ctxOn \in SUBSET Threads
    /\ epc \in EmuPc /\ rpc \in RenderPc /\ wakeTo \in EmuPc
    /\ wait \in [pred : WaitPreds, arg : Nat, ret : EmuPc]
TypeOK == DataType /\ FlagType /\ ControlType

\* The record being replayed is whole from its decoding to the store of rpos: a
\* header written for this very position, the published payload cells behind it
\* in one piece before the ring end, none of them reused by the producer.
RecordIntact ==
    rpc \in {"exec", "store"} =>
        /\ At(rpos).kind \in Headers /\ At(rpos).at = rpos
        /\ rpos + At(rpos).size <= wpos
        /\ (rpos % Cap) + At(rpos).size <= Cap
        /\ At(rpos).kind = "op" =>
              \A i \in 1 .. At(rpos).size - 1 :
                  At(rpos + i).kind = "data" /\ At(rpos + i).at = rpos + i

\* The context is never current on both threads while the render thread lives.
ContextExclusive == rpc # "done" => ~({"emu", "render"} \subseteq ctxOn)

\* Records are replayed and ticks run only while the render thread has the
\* context and the emulation thread has not.
ExecHasContext ==
    rpc \in {"loop", "poll", "exec", "store"} => ctxOn = {"render"}

\* While the emulation thread calls the backend directly (held), every record has
\* been replayed and the render thread is parked.
HeldMeansDrained ==
    (held /\ epc = "idle") =>
        wpos = rpos /\ rpc = "srvWait" /\ ctxOn = {"emu"}

\* Outside rt_frame_end at most MaxFrames closed frames are in flight, inside it
\* one more.
FramesBounded ==
    /\ consumed <= produced
    /\ produced - consumed <= MaxFrames + 1
    /\ epc \in {"idle", "write", "commit"} => produced - consumed <= MaxFrames

\* The frame counters agree with the ring, so that rt_frames_ahead tells the
\* backend exactly how many complete frames follow the one being replayed.
Markers == {p \in rpos .. wpos - 1 : At(p).kind = "frame" /\ At(p).at = p}
MarkerPending ==
    epc = "marker" \/ (wait.pred = "space" /\ wait.ret = "marker")
FramesAheadExact ==
    (rpc = "exec" /\ At(rpos).kind = "op") =>
        LET closed == Cardinality(Markers) + (IF MarkerPending THEN 1 ELSE 0)
        IN  FramesAhead = IF closed = 0 THEN 0 ELSE closed - 1

\* The frame counters are right at every moment either thread reads them
\* (rt_frame_end, rt_frames_ahead).
FramesCounted == FramesBounded /\ FramesAheadExact

\* rt_stop and a failed rt_start return with the context current on the caller
\* and on nobody else.
StopReturnsContext == (epc = "idle" /\ ~running) => ctxOn = {"emu"}

\* Every call returns: no wake-up is lost between the two sleepers.
CallReturns == (epc # "idle") ~> (epc = "idle")

\* A closed frame is replayed to its end, whatever the emulation thread does next.
FramesReplayed ==
    \A n \in 1 .. MaxProduced :
        (running /\ produced >= n) ~> (consumed >= n \/ ~running)

-----------------------------------------------------------------------------
(* The abstract command queue *)

\* The committed records and markers not yet replayed, named by position.
LiveRecords ==
    {p \in rpos .. wpos - 1 : At(p).at = p /\ At(p).kind \in {"op", "frame"}}

\* The owner of the context; a thread that has exited owns nothing.
CtxOwner ==
    IF "emu" \in ctxOn THEN "emu"
    ELSE IF "render" \in ctxOn /\ rpc # "done" THEN "render" ELSE "none"

Queue == INSTANCE CommandQueue
         WITH pending <- LiveRecords, floor <- rpos, owner <- CtxOwner

\* The ring, the hand-off and the life cycle implement the command queue:
\* in-order, exactly-once replay and a context that moves only when drained.
ImplementsQueue == Queue!Spec

=============================================================================
