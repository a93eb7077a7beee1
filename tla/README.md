# A TLA+ model of the PSXRecomp runtime

PSXRecomp translates PlayStation programs to C ahead of time and links them with
a runtime that plays the part of the console: interrupt controller, timers, DMA,
CD-ROM drive, memory cards, GPU, SPU, and the host side that draws, paces, saves
and connects machines.  This directory models the runtime's own logic in TLA+,
checks it with TLC on small instances and proves its main invariants with TLAPS.

Paths below are relative to the repository root.  `PROJECT.json` maps every
definition to the lines it models and lists the runs, the mutants, the theorems,
the findings and the hazards.

## 1. Inventory

What follows covers `runtime/src`, `runtime/include`, `recompiler/src`, `host`
and the command line.  `recompiler/lib`, `third_party`, the overlay toolchain and
generated code are vendored or derived; the `recomp-net` and rollback-engine
submodules are empty in the tree.

| Component | State it keeps | Operations | Correct when |
|---|---|---|---|
| Render thread (`render_thread.c`) | command ring, read/write positions, frame counters, sleep flags, context owner | `rt_cmd_begin/commit`, `rt_frame_end`, `rt_drain`, `rt_acquire/release`, `rt_start/stop`, `render_main` | records are replayed whole, once, in order; one context user; no lost wake-up |
| Present thread (`present_thread.c`) | slot states, queue, ready fences, done tokens | `pt_start/stop/submit/drain`, `present_loop` | frames shown in order and undisturbed; no fence lost; bounded latency |
| Device clock (`psx_cycles.c`, `psx_cyc.h`) | guest cycle counter, device position, deadline, charge batch, freezes | charge, publish, service, MMIO sync, freeze/span begin/end, restore | lag never changes when a device event happens; nothing fires late; no cycle lost |
| Idle skip (`psx_cycles.c` 534-922) | loop detector, streak, quantum | observe an edge, skip | a skip never passes an observable event |
| Root counters (`timers.c`) | counter, target, mode, fraction of three timers | advance, predict, read, write | chunked counting is counting; predictions are never late |
| VBlank clock (`psx_vblank_clock.c`) | period, fraction | next, configure, restore, conversions | no drift; conversions are inverse |
| Interrupts and exceptions (`interrupts.c`, `traps.c`) | I_STAT, I_MASK, COP0 state, nesting, pending longjmp | raise, acknowledge, check, deliver, return | an unmasked request is delivered once, at a legal point |
| DMA (`dma.c`) | channel registers, delayed completions, DICR | start, advance, complete | a completion raises its flag exactly once, after its transfer |
| CD-ROM (`cdrom.c`, `psx_disc_tray.c`, `openbios_read_job.c`) | response FIFO, interrupt flag, pending second response, sector ring, lid | command, advance, acknowledge, tray change, read job | no answer lost or overtaken; a sector is consumed intact |
| Serial port (`sio.c`) | transfer state, ack and receive countdowns, pads, multitap | byte exchange | one answer per byte; the ack arrives before the guest times out |
| Memory cards (`memcard.c`) | card image in RAM, dirty flag, bound file, extension tail | read, write, flush, import, rebind, reload | a crash leaves the old or the new card; a sandbox never reaches the host's cards |
| MDEC, SPU, GTE, GPU and rasterisers | decoder, voices, vectors, VRAM | arithmetic | bit-exact arithmetic |
| Memory map (`memory.c`) | RAM, scratchpad, MMIO wrappers | sync, then handle | a handler sees current devices |
| Render passes (`render_pass.c`) | checkpoint of the machine | begin, replay guest code, roll back | the guest cannot tell that a pass ran |
| Save states, boot states, rewind | sections, snapshot ring | save, load, step back | a load resumes the machine that was saved |
| Overlay tiers (`dirty_ram_interp.c`, `overlay_*.c`, `autocompile.c`) | dirty pages, page generations, captured code, variants, publication queue | capture, compile, publish, install, invalidate, dispatch | native code runs only while RAM holds what it was compiled from |
| Netplay (`psx_netplay*.c`, `netplay_*.c`) | session, input history, snapshot ring, card sandboxes | predict, confirm, roll back, resimulate | both machines agree on every confirmed frame |
| Recompiler (`recompiler/src`) | control-flow graph, function set | decode, discover, emit | emitted C means what the MIPS code means |
| Mods, HLE, load acceleration, frame generation, debug server, CLI | plugins, tables, sockets | host-side services | outside this model |

**How they interact.**  Guest code (translated C, or the dirty-RAM interpreter)
runs on the emulation thread and *charges* cycles to the device clock.  The clock
decides when devices advance; a device that fires sets a bit of I_STAT, and the
next interrupt check may deliver it by leaving guest code.  A register access goes
through the wrappers of `memory.c`, which first make the clock catch the devices
up.  GPU commands become records of the render thread's ring; composed frames go
from there to the present thread.  Render passes, uncharged calls of mods and save
states cut across all of this: they stop, rewind or replace the clock while
devices lag behind it.

**What is hard.**  Three things, in this order of how well a test reaches them:

1. Two threads that sleep on flags and condition variables and pass a graphics
   context through an unlocked callback (render thread), or slots and fences
   (present thread).
2. A clock that several mechanisms manipulate for speed (lag, batching, deferral,
   caching of a deadline) and several others for correctness (freezes, spans,
   restores by `longjmp`), while the timeline must stay exact.
3. Publication with crashes (memory cards), background compilation against guest
   writes (overlays), late and repeated inputs (netplay).

`PROJECT.json` lists each hazard at its line.

## 2. Plan

Done so far, most important first: render thread, present thread, device clock,
root counters, memory cards with their netplay sandboxes, background compilation of
overlays, CD-ROM controller.  Next, in order:

1. **IdleSkip**, extending `DeviceClock`: the detector and the skip.  The base
   shape measures the distance to the next event from where the devices stand
   (`psx_cycles.c` 869) and only the store-counter shape subtracts the lag, although
   the comment at line 546 says the skip lands on the event's boundary.  Run: the
   landing point against the reference timeline.
2. **VBlankClock**: a pure algorithm against `floor(n * num / den)`; lemmas about
   its conversions.
3. **ReadJob** (`openbios_read_job.c`) above `CdRom`: retries of a sector read.
4. **Interrupts** and **Dma**, and a composition of them with `DeviceClock` in place
   of its countdown devices and with `CdRom` in place of its one bit of I_STAT.
5. **RenderPass** on `DeviceClock`: checkpoint and rollback refine "nothing happened".
6. **Overlays**: captured code, page generations and dispatch around `Autocompile`.
   Invariant: dispatched code matches RAM.
7. **SnapRing** and the input history, then the parts of netplay that do not live in
   the absent submodules.
8. Proofs: every safety property a run checks is proved (section 5).  What a new module
   adds comes with its own; the induction and division lemmas of `Iteration` serve the
   VBlank clock next.

## 3. The modules

| Module | Role |
|---|---|
| `RenderThread` | `render_thread.c`, both threads, with the properties |
| `CommandQueue` | what `render_thread.h` promises: the abstract specification |
| `RenderThreadInv`, `RenderThreadProofs` | inductive invariant, proofs |
| `PresentThread`, `PresentThreadInv`, `PresentThreadProofs` | `present_thread.c`, its invariant, its proofs |
| `DeviceClock` | `psx_cycles.c`, `psx_cycles.h`, `psx_cyc.h` and the callers that matter |
| `DeviceClockInv`, `DeviceClockProofs` | properties and inductive invariant, proofs |
| `DeviceTimeline` | the reference timeline carried beside the clock as a history variable, and its inductive invariant (proved in `DeviceClockProofs`) |
| `Timers`, `TimersProofs` | one root counter of `timers.c`, proofs |
| `Iteration` | induction, iterates of a function, division: lemmas for the proofs about loops |
| `MemCard`, `MemCardInv`, `MemCardProofs` | `memcard.c`, the sandboxes of `psx_netplay.c`, the write command of `sio.c`; inductive invariant, proofs |
| `Autocompile`, `AutocompileInv`, `AutocompileProofs` | `autocompile.c` (Windows half), its inductive invariant, its proofs |
| `CdRom`, `CdRomInv`, `CdRomProofs` | `cdrom.c`: commands, interrupt flag, sector stream, lid, savestates; inductive invariant, proofs |
| `MC*` | instances for TLC |

A definition named `...NoWake`, `...OffByOne` and so on, marked *Mutant*, is never
part of a specification.  It is a plausible bug in the definition below it; putting
it in place makes TLC report the property it is paired with.

### 3.1 Render thread

Two program counters, `epc` and `rpc`, step from shared access to shared access.
The code's atomics are sequentially consistent, so interleaving semantics is
exact.  A lock/broadcast/unlock that does nothing else is one step; every other
critical section is as many steps as it has waits and unlocked gaps.

- `wpos`, `rpos` count in header-sized units.  `ring` is the ring memory; each cell
  remembers the position it was last written for (`at`), which tells a record from
  the remains of an older one.
- `CmdBegin`, `CmdWrite`, `CmdCommit`, `FrameEnd`, `Marker`, `FrameBound`, `Drain`,
  `AcquireRequest`, `AcquireCtx`, `Release`, `ReleaseRequest`, `StopRequest`,
  `StopJoin`, `Start`, `Spawn`, `SpawnFail` are the pieces of the `rt_*` calls;
  `EmuTest` to `EmuRelock` are `emu_wait` and `wake_render`, shared by their callers
  through `wait` and `wakeTo` (the return address).
- `RenderStart` to `RenderExit` are `render_main`; `ServeCtx0` to `ServeReturn` are
  `serve_release_locked`, which drops the lock around both context callbacks.
- Condition variables lose a broadcast nobody waits for, and may wake spuriously.
- A commit wakes the render thread only after `WakeUnits` or `WakeRecords`, as in
  the code: most commits wake nobody.

Left out: statistics, clocks, and the time of the periodic tick (it may be due or
not at any poll).

### 3.2 Present thread

One mutex guards everything, so a step is a critical section, from the lock or the
return of `cnd_wait` to the unlock or the next wait.  Frames are numbered by
submission; a ready fence and a done token carry the number of their frame, and
`image[s]` is the frame whose picture slot `s` holds.  Failing initialisation of the
present context is included.

### 3.3 Device clock

`clock` is `psx_cycle_count`, `synced` the cycle the devices stand at, `deadline`
the cached cycle of the next service (0 when dirty).

- `Charge` is `psx_cyc_charge`: batch, or publish when the batch limit or the
  deadline is reached, or keep while a function defers.  `Flush` publishes at an
  interrupt check; `Advance` charges without the batch.
- `Service` starts a replay: the counter is rewound to `synced`; each `ServiceStep`
  is one chunk, which ends on the next device event (or after the quiet prefix
  before it); `ServiceDone` restores the counter and recomputes the deadline.  A
  chunk is a step because device code runs in it, and a render pass may freeze the
  clock, or a loaded state may abandon the loop, in between.
- `Walk`, `ExactStep`, `ExactDone`: the single-cycle path; `Toggle` is the debug
  server's switch between the two.
- `MmioSync` then `WriteReg`, `ReadReg`: the wrappers of `memory.c`.
- `PassBegin/PassEnd` (render pass) and `SpanBegin/SpanEnd/ThawedEnd` (uncharged
  guest call): what a freeze parks in `save` and what its end puts back;
  `FreezeTick` thaws a span that exceeds its budget.
- `Save`, `Restore`: boot and save states; the restore from the live clock, out of a
  half-finished replay too.
- A device is a countdown with an order; an event may arm another device.  That is
  all the clock can tell about a device.

`work` (cycles the guest executed and owes) and `stale` (a register write armed an
event after the deadline was computed) are history.  `DeviceTimeline` adds `ideal`,
the same devices stepped every cycle.

Left out: the idle skip (planned); device callbacks that themselves charge cycles
during a replay (`absorb`, in `psx_devices_service_to_now`); the guest cycle scale, the
function-local accumulator, cosimulation, the lockstep replay clock, the profile
sampler, GTE and multiply deadlines, and the one-cycle batch limit of the dirty-RAM
interpreter, which is a smaller limit.  Freezes begin, and states are loaded, on the live
clock only: a render pass inside a span that thawed, and a load during a freeze, are not
modelled.  Register writes in a render pass are undone
by the pass's checkpoint and not modelled.  The SPU is taken as enabled; when it is
not, the next event is farther, as in `clock_overrun` where the hard cap is the
nearest stop.

### 3.4 Root counters

One counter of `Wrap` values with a divisor chosen by the mode write; the three
counters of the code are independent and differ in their divisors only.  `TickOne` is
the code's own single-count function and serves as the reference for the chunked
one.  `CountChunk` is one turn of the loop of `timer_advance_counts` and `CountLoop` the
loop after any number of turns; a turn counts at least once, so `AdvanceCounts` reads it
after as many turns as there are counts.  `Far` is the `UINT32_MAX` of a timer with no
interrupt armed; the assumption that a whole turn of the slowest clock is less keeps the
sums of the code within 32 bits.  Left out: `timers_tick` and the counter read of builds without block cycles, the
snapshot copies, and the minimum over the three counters.

### 3.5 Memory cards

A handler runs on the emulation thread from start to end; what can come between two
of its disk operations is the end of the process or of the power.  So a handler is a
list, `todo`, of the operations it makes, and each is one step.  A card image is who
made it and the number of the write that did; a file is absent, short, or a whole card
with a tail (the bytes after the 128 KiB that belong to an extension codec).

- `disk[s]` is what a reader of the player's file sees, `survivors[s]` what a loss of
  power may leave of it.  A publication is `Flush` (temporary written and synced) and
  `Rename`; since the directory is not synced, both contents survive until `Writeback`.
- `Mount`, `Format`: `memcard_init_slots`; `Reload`, `RebindPath`: their namesakes.
- `SioWrite`, `Ack`: the write command and the status byte that tells the game its save
  is good.
- `GuestSlot`, `HostSlot`, `Import`, `Need`, `HostUpload`, `GuestBlob`, `HostSync`,
  `Restore`: the sandbox a match puts around the cards, on either seat.
- `Crash` and `PowerLoss` may come between any two steps; both boot a new session.

A match's file is never read back, so only the players' files are kept.  The run takes
an existing file to open (`OpenFaults = FALSE`): `memcard_init_slots` formats a card it
cannot open for reading (`memcard.c` 279), and with `OpenFaults = TRUE` TLC shows
`NeverTorn` failing that way.  The first format itself is not atomic (line 284): a
crash in it leaves a short file, which the next session refuses.

### 3.6 Background compilation

Three threads share the publication queues under one lock: the watcher reads the
compiler's output, the preparer maps the images it names, the emulation thread commits
one image per frame and starts and ends runs.  A step is a critical section, or the
unlocked work between two.  The condition variable is modelled with its sleeper
(`prep.at = "asleep"`, `Woken`).  Shards are numbered in the order the compiler names
them.  A lost line, a mapping that fails three times, a refused commit, a compiler
that fails, and a process or a thread that cannot be created are all included.

Left out: the scan of the output tail for a result line the line parser did not see
(`autocompile.c` 1472, kept for output that bypasses the parser); the POSIX half, which has
no queue (its watcher reports the end of the compiler and the cache is scanned once); the
command line; telemetry.  The pid that a shutdown kills may have been reused by then (line
831, POSIX), which needs a model of the operating system.

### 3.7 CD-ROM controller

The controller is one record; every function that changes it is an operator from record
to record, and every entry point is an action: register accesses of the guest, reads of
the DMA channel, tray and savestate calls of the host, and `cdrom_advance`.  Deadlines
are the cycles left until them.  Of the sectors in the ring two are told apart: the one
the guest was shown last and the one whose notification is pended.

The guest is the interrupt-driven one the comments of the source describe: its handler
is entered when its bit of I_STAT is set, takes at most `IsrTime` cycles,
acknowledges whole interrupt codes and clears the bit at its end.  `NoLostInterrupt`
rests on that handler being shorter than the controller's hold
(`IsrTime < ReleaseDelay < Hold`).  `ReleaseDelay <= DelayCap` is the other assumption on
delays: an accelerated load, and the vertical blanks after it (`BoostVblank`), cut pending
delays to 4096 cycles; the release of a pended sector takes 500 and a hold 5000.

Bit 0x20 of the mode, whole sectors, is modelled (`SetMode`) because two gates of the source
read it differently: `Scaled` (`apply_read_speed`, line 604) accelerates such reads,
`ConsumerBlocked` (`accelerated_read_active`, line 2726) does not hold them back for a busy
guest.  So the promise of the flow control is two properties: `FastNotLossier`, as the
comment states it for every accelerated read, which run `cdrom_whole` refutes, and
`HeldNotLossier`, for the data sectors, which holds and is proved, also when the guest
changes the sector size while it streams.

Left out: XA and CD-DA, the change of drive speed (bit 0x80; the periods are constants),
the interrupt mask register, partial acknowledgements, the
bytes of responses, the warm routes and the resident feed of the loader, and the policy
of `psx_disc_tray.c` (the host calls it makes are actions).  Four situations the
model shows and no property excludes: the hold accumulator is not part of a savestate, so
the first hold after a load may be short (`cdrom.c` 2718, excused in both properties);
a lid interrupt not yet given is dropped by a load (line 370, excused in `RestoreExact`); a
sector that arrives between the acknowledgement and the release of a pended
notification takes its place (line 2767); and commands issued back to back can keep a
pended notification waiting (line 3122).

## 4. Runs

Runs that pass:

| Run | What it shows | Bounds |
|---|---|---|
| `render` | records are never torn, reordered or replayed twice; the context has one user; the frame bound and `rt_frames_ahead` are exact; the core implements `CommandQueue`; every call returns, every closed frame is replayed | ring of 3 units, records of 1 and 2 (so pads occur at the end), one frame in flight, positions to 6 (two turns of the ring: full, empty, both sleepers), 3 frames per session, then stop and restart; a commit wakes after 3 units or 2 records |
| `present` | order, tokens, clean stop, rotation; every call returns, every frame is shown | the real 4 slots, 9 submissions: more than two turns of the slots and of the queue |
| `clock_exact` | `ReplayExact`: caught up, the lazy devices are the ones that never lagged, cycles of events included, also after a savestate loaded at any moment; nothing late unless rearmed; handlers current; no cycle lost | periods 2, 3, 5, 7, hard cap 6, charges of 1, 2 and 6 (shorter than, equal to and longer than the batch and the deadline), register writes of 0 and 4 cycles, 7 cycles of work, one deferring function, a saved state |
| `clock_overrun` | devices stay within the hard cap of the clock whatever made the deadline stale | hard cap 4, below the SPU period and the vertical blank's, so that the cap is reached; freeze budget 2, register writes in spans, toggles, savestates, 6 cycles of work |
| `timers` | chunked counting equals single counts; splitting an advance is invisible; the predicted interrupt is neither late nor early | 6 counter values, divisors 1 and 3, every counter, target and mode, advances of 1, 2, 5 and 13 cycles |
| `memcard` | the player's files hold the player's saves; an acknowledged save stays until the power fails; a slot that is not dirty shows its file; whole files stay whole; tails are kept | two slots or one, either seat of a match, two writes, two faults (failed operations, codec refusals, crashes, power losses), any number of sessions; files absent or with a tail that does not fit |
| `autocompile` | one image in flight; nothing of a run survives it; a good verdict means every shard was committed in order; runs and shutdowns end | three shards per run (one mapped, one waiting behind it, one unread), the real three attempts, any number of runs |
| `cdrom` | one response at a time, none lost; the sector read is the one announced; acceleration loses no data sector earlier than the real drive; savestates restore the controller; a handler is not given the next sector; commands and trays end | two buffers (so the ring comes round under a reader), hold 3, release 2, handler 1 cycle, sector period 3 and 1 when accelerated; five sessions: one that streams and fetches (2 commands), one that aims again while it streams (3 commands), one that changes the sector size while it streams (4 commands), one that issues every other command while the host opens the tray, changes the disc or reloads (2 commands, one host call), one with two host calls in a row, a reload with the tray open among them (1 command) |

The bounds are enough for the cases the code distinguishes: rings wrap, queues fill
and empty, every batch and deadline comparison is met below, at and above its limit,
a counter matches, wraps, and does both at once; a fault hits a publication whose
predecessor is not yet on disk, and a second fault hits the recovery; second responses
come before and after the next sector.  Where the argument is by size (any ring, any
number of slots, any period, any number of shards) the theorems take over.

Runs that TLC refutes, each a statement of the repository about itself:

| Run | The repository says | The code does |
|---|---|---|
| `render_stop` | `runtime/tests/test_render_thread.c` 217: "context back on caller after stop" | `rt_stop` right after `rt_release` can join a render thread that still has the context current: `render_main` reads `R.stop` again after the lock was dropped around `ctx(1)` and takes it for a stop that owns the context |
| `clock_thaw` | `psx_cycle_freeze.h` 56: "all its cycles are charged" | a span that thawed ends with charges in the batch; the caller's batch overwrites them |
| `memcard_host` | `docs/NETPLAY.md` 161: "The host's real slot-2 card is neither read by the match nor written" | entering the host's sandbox rebinds the path of slot 2 and leaves the card in RAM; when seat 1 turns out to have no card, the match runs with the host's |
| `cdrom_whole` | `cdrom.c` 2708: "Accelerated mode is therefore never slower than hardware and never lossier than hardware"; 2713: excluded "by the same gates as apply_read_speed" | the gates differ in bit 0x20 of the mode: whole-sector reads are accelerated (line 604) and not held back (line 2726), so a notification the guest has not taken is lost after one accelerated period |

The passing clock runs state their properties with some features off (`SpanWrites`,
`Toggles`, `Budget`) or excused (`stale`); each is a place where a comment promises more
than the code keeps:

- `psx_cycles.c` 244 says "no event can fire late", but a register write that arms an
  event nearer than the deadline comes after the recomputation in
  `psx_devices_mmio_sync` (line 418); the device sees the right cycle, the guest sees the
  event late.  `OnTimeUnlessRearmed` excuses every event from an arming write to the next
  recomputation, which is more: a write that arms a later event also sets `stale`.
- `psx_cycle_freeze.h` 51 says a span runs "as if it executed in an instant at the start
  cycle", but a register write in it acts on devices that stand where they were last
  serviced (`psx_cycles.c` 420).  `SpanWrites = TRUE` makes `ReplayExact` fail.
- `psx_cycles.c` 429 says the single-cycle path keeps the state coherent so that "the
  runtime toggle flips mid-run", but the cycles the devices lag by when the switch flips
  never reach them (line 458).  `Toggles = TRUE` makes `ReplayExact` fail.
- The same path loses cycles without a switch when a span thaws under it: the thaw puts
  the span's cycles on the clock (`psx_cycles.c` 148-170) and leaves the devices at
  `synced`, and the walk starts at the clock (lines 428-460).  With `Budget > 0` and the
  single-cycle path chosen from the start `ReplayExact` fails; with either alone it holds.

**Fairness.**  `render` assumes strong fairness of each thread: the host
scheduler runs every runnable thread, and a thread that asks for a mutex again and
again gets it.  Weak fairness would let one thread take the mutex each time the other
could, which a host mutex does not do for ever.  `present` needs weak fairness only.  The
caller is not obliged to make another call: `FramesReplayed` and `FramesShown` hold for a
caller that goes quiet.  `autocompile` assumes that the workers are scheduled, that the
emulation thread polls every frame (it is called once per frame), and that the compiler
ends; nothing in the code bounds how long it may take (`autocompile.c` 649), and a compiler
that hangs keeps its run open.  `cdrom` assumes that the guest clock runs and that the
guest's handler is entered when it is called, acknowledges and returns; whether the guest
issues commands or fetches data is its own choice.  `ENABLED` is written out there (`CanAdvance`) because the actions rebuild the
whole record.

Deadlock is checked everywhere but in two runs: after the shutdown of `autocompile`, and
at the end of a session of `cdrom`, nothing is left to do.  There `RunEnds`, `CommandsEnd`
and `TrayCloses` say what must not be left waiting.

## 5. Proofs

All safety theorems hold for every value of the constants that satisfies the named
assumptions (positive sizes, periods and bounds, `2 <= N <= MaxSlots`).

- **Render thread** (`RenderThreadProofs`): `TypeCorrect`, `RecordsIntact`,
  `ContextExclusion`, `ExecWithContext`, `HeldDrained`, `FramesRight`, `QueueImplemented`.
  None of these is inductive: that the record under replay is whole depends on how the
  whole unread ring was laid down.  `IInv` says that the ring between `rpos` and `wpos` is
  a chain of whole records with no stale header inside one (`RingInv`), that no header
  claims a position not yet written (`FreshInv`), that a record being built has its space
  (`PendInv`), who has the context at each program counter (`CtxInv`, `LifeInv`), that
  from a request for the context to its withdrawal the ring is empty (`HandInv`), that the
  frame counters differ by the markers in the ring (`CountInv`), and that only
  `rt_frame_end` is ever over its bound (`BoundInv`).  The arithmetic of positions modulo
  the ring size is in lemmas of its own.
  `QueueImplemented` is the refinement: with `pending` the live records, `floor` the replay
  position and `owner` the thread that has the context, every step of either thread is a
  step of `CommandQueue` or a stutter.  It needs `IInv` in three places: a pad's unwritten
  cells must not pass for records when the replay position jumps over them, a thread that
  hands the context over must find the ring empty, and a restart must too.
- **Present thread** (`PresentThreadProofs`): `TypeCorrect`, `InOrder`, `TokensKept`,
  `Latency`, `CleanStop`, `Rotation`.  The invariant rests on one fact the code never
  states: frame `j + 1` of a session always lives in slot `j % N`.  From it and three
  counters (handed back, taken, submitted) every slot's state follows, and so does the
  comment in `pt_submit` that calls the first free slot the oldest.
- **Device clock** (`DeviceClockProofs`): `TypeCorrect`, `LagIsBounded`, `NothingLate`,
  `HandlersCurrent`, and, when freezes have no budget, `CyclesKept`.  `Window` says the
  deadline is ahead of the clock, within the hard cap of the devices and, unless stale,
  not after the next event; `Batched` says the batch stays short of it.  Both must hold of
  the live state and of the state a freeze parked, which is what the freeze's end brings
  back; that is the strengthening.  `CyclesKept` needs its assumption: `clock_thaw` is the
  counterexample without it.
- **Device timeline** (also `DeviceClockProofs`): `TimelineExact`, that the devices, replayed
  in chunks at deadlines the clock chooses, are the machine stepped every cycle.  First a
  fact about the devices alone: as long as no event is due, advancing by `n` only shortens
  every countdown by `n`, so a quiet prefix followed by the boundary cycle equals as many
  single steps, by induction on their number.  Then every action is one of a few moves
  of the pair (`DeviceNow`, `GuestNow`): guest time goes on, the devices go on below it, or
  neither; a register write finds the two equal, and a restore puts back a saved pair
  (`SnapExact`).  `ReplayExact` is inductive only together with `IInv` and with
  `ExactCurrent`: on the single-cycle path the devices are at the clock whenever guest code
  runs.  The three hypotheses (no switch, no register write in a span, no budget on the
  single-cycle path) are the bullets of section 4: TLC has a counterexample without each.
- **Root counters** (`TimersProofs`): `TypeCorrect`, `ChunksCount`, `SplitsInvisible`,
  `PredictionRight`, for a counter of any width, any divisors and any registers.  Short of
  a match or a wrap a count only adds one, so a chunk is as many counts (induction inside
  the chunk, `LastTick` at its end).  The loop keeps the invariant that counting what is
  left, one by one, leads where counting everything would have led, and `k` turns have
  counted at least `k`.  Counting neither reads nor changes the fraction, so two advances
  are one because two divisions with the remainder carried are one (`CarriedDivision`).
  For the prediction, `Before` says where the counter stands after `j` quiet counts, a
  reset at an unarmed target included, and the armed count is the first that meets it.
- **Loops** (`Iteration`): the library's induction theorem takes an operator, which no
  installed prover instantiates.  `Induction` is the same rule for a set, derived from the
  well-foundedness of the naturals, and `Iterates` shows that a function defined by
  recursion on its predecessor exists; the recursive functions of `Timers` and
  `DeviceTimeline` are unfolded through it.
- **Background compilation** (`AutocompileProofs`): `Handoff`, `CleanBetweenRuns`,
  `GoodRuns`, for any number of shards and attempts.  `CountInv` ties the two counters to
  the places of the threads that raised them, `LifeInv` says which threads there are in
  each state of a run, `HandInv` that the mapped images are exactly the one being stored,
  waiting or committed, and `FlowInv` that committed, flying and queued shards are, in
  this order, all the compiler named, unless one was counted as lost or the run is being
  stopped.  The verdict reads only flags; that they mean anything rests on `FlowInv`.
- **Memory cards** (`MemCardProofs`): `TypeCorrect`, `OwnCardsOnly`, `CleanCards` and, where
  a file that exists opens (`OpenFaults = FALSE`), `SavesDurable`, `FilesWhole`,
  `TailsKept`; for any number of writes, faults, crashes and sessions.  A handler stopped
  between two disk operations satisfies none of the properties' reasons by itself, so
  `IInv` is about what is still to come: which handler the rest of `todo` belongs to
  (`ScriptInv`), which slots it has still to bind to a sandbox (`BindInv`), to mount
  (`MountInv`) or to format (`FormatInv`), whose card a slot bound to the player's file
  holds (`HomeInv`), and what the temporary file of a publication may contain (`TempInv`,
  `FileInv`).  `SavesDurable` adds that an answer about to be given follows a flush that
  cleared the dirty flag (`AnswerInv`) and that nothing older than an acknowledged write is
  in a slot (`OlderInv`).  The hypothesis on `OpenFaults` is not a convenience: section 3.5
  names the line that makes the three theorems false without it.
- **CD-ROM controller** (`CdRomProofs`): `TypeCorrect`, `ResponsesOneAtATime`,
  `InterruptsKept`, `AnnouncedSectors`, `HeldAsSafe`, `SavestatesExact` and the action
  property `HandlersDrainOwn`, for any number of buffers, any delays within the
  assumptions and any commands.  One entry point (above all `cdrom_advance`) runs many
  functions on the record, and the properties must hold across all of them, so the
  invariant is a predicate `Good(c, I, n, q)` on the record that is true between any two
  functions: `n` cycles have passed that the disc has not turned for yet, and `q` says
  where the guest's handler is.  There is one lemma per function of the source ("if the
  record is good before, it is good after") and the actions compose them.  `Quiet` carries
  `InterruptsKept`: inside a handler that has acknowledged, whatever is not raised yet
  waits longer than the handler has left.  `Flow` carries `HeldAsSafe`: the accumulated hold is
  never longer than the notification has waited.  The theorem is about data sectors: of
  whole sectors the same statement is false (`cdrom_whole`).

`TypeCorrect` of the render thread, the present thread, the device clock and the root
counters, `ExecWithContext` and `Latency` are stated by theorems only: no run repeats them.

Only model-checked: liveness (`CallReturns`, `FramesReplayed`, `FramesShown`, `RunEnds`,
`CommandsEnd`, `TrayCloses`), since fairness is outside the prover's reach.

## 6. Not modelled

Every component of section 1 without a module in section 3 is not modelled yet; the
plan names those that will be.  Known places there that a model should reach: the idle
skip's distance (`psx_cycles.c` 869), device code that charges cycles during a replay
(`absorb`, line 357), the cached answer of a variant match keyed by a sum of page
generations (`overlay_loader.c` 701), and a rollback that asks for a tick the snapshot ring
has overwritten (`psx_netplay_rb.c` 2059).  The following are left out for good: the arithmetic of
GPU, GTE, SPU and MDEC (data at full width, out of a model checker's reach), the
recompiler (a sequential translator whose correctness is the equivalence of two
languages), frame pacing and frame generation (controllers over measured host times),
mods and BIOS emulation (their specification is a guest image that is not in the tree),
the debug server's observers, and the command line.
