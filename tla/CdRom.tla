-------------------------------- MODULE CdRom --------------------------------
(***************************************************************************)
(* The CD-ROM controller (runtime/src/cdrom.c): commands and their second  *)
(* responses, the one interrupt flag, the sector stream with its ring and  *)
(* its data FIFO, the lid, and savestates.                                 *)
(*                                                                         *)
(* The controller is one record, every function of the source that changes *)
(* it an operator from record to record, and every entry point of the      *)
(* source one action: the guest's register accesses, the DMA's reads, the  *)
(* host's tray and savestate calls, and cdrom_advance.                     *)
(*                                                                         *)
(* Absolute deadlines are kept as the cycles left until them, 0 when they  *)
(* are due.  Positions on the disc are relative to the next sector to be   *)
(* read, and of the sectors in the ring only two are told apart: the one   *)
(* the guest was shown last and the one whose notification is pended.  The *)
(* guest is the interrupt-driven one the comments of the source describe:  *)
(* it issues commands at any time, and acknowledges whole interrupt codes  *)
(* in a handler that is entered when bit 2 of I_STAT is set, takes at most *)
(* IsrTime cycles and clears the bit at its end.  The interrupt mask keeps *)
(* its reset value and the guest reads data, as data sectors or as whole   *)
(* ones (bit 0x20 of the mode), at one drive speed, no XA and no CD-DA.    *)
(***************************************************************************)
EXTENDS Integers

CONSTANTS
    Buffers,        \* CDROM_NUM_SECTOR_BUFFERS
    Distances,      \* how far ahead of the next sector a Setloc may point
    Hold,           \* CDROM_IRQ_PRESENT_DELAY
    ReleaseDelay,   \* CDROM_PEND_PRESENT_DELAY
    IsrTime,        \* the cycles the guest's interrupt handler takes at most
    DelayCap,       \* CDROM_SAVESTATE_DELAY_CAP
    Authentic,      \* authentic_sector_period
    Period,         \* the period and the scaled delays when accelerated
    FirstSector,    \* the authentic read-start delay
    Latency,        \* the second-response delay of each two-phase command
    LidTime,        \* CDROM_LID_CLOSE_DELAY_CYCLES
    MaxStep,        \* the cycles one cdrom_advance covers at most
    Sessions        \* the sessions considered: the commands the guest may issue and
                    \* how many, whether it fetches data, how often the host acts

TwoPhase == {"MotorOn", "Stop", "Pause", "Init", "Seek", "GetID", "ReadTOC"}
Sizes == {"data", "whole"}       \* Setmode without and with bit 0x20
Command == [op : TwoPhase \cup Sizes
                 \cup {"GetStat", "Setloc", "Read", "Play", "Other", "Invalid"},
            to : Distances]

ASSUME Assumptions ==
    /\ Buffers \in Nat \ {0, 1} /\ Distances \subseteq Nat /\ 0 \in Distances
    /\ IsrTime \in Nat /\ ReleaseDelay \in Nat /\ Hold \in Nat /\ DelayCap \in Nat
    /\ IsrTime < ReleaseDelay /\ ReleaseDelay < Hold /\ ReleaseDelay <= DelayCap
    /\ Authentic \in Nat \ {0} /\ Period \in 1..Authentic /\ FirstSector \in Nat \ {0}
    /\ LidTime \in Nat \ {0} /\ MaxStep \in Nat \ {0}
    /\ Latency \in [TwoPhase \cup {"Paused"} -> Nat]
    /\ Sessions \subseteq [issue : SUBSET Command, most : Nat, fetch : BOOLEAN, host : Nat]

VARIABLES
    session,    \* the session, one of Sessions
    cd,         \* the controller, the DMA channel, I_STAT bit 2 and history
    isr,        \* the cycles the guest's handler still has, or Outside
    acked,      \* the handler has acknowledged the controller
    commands,   \* commands issued so far
    host        \* host operations so far

vars == <<session, cd, isr, acked, commands, host>>

-----------------------------------------------------------------------------
(***************************************************************************)
(* Interrupt codes, status bits and the controller's state.                *)
(***************************************************************************)

DataReady == 1
Complete == 2
Acknowledge == 3
Error == 5

NoCmd == [op |-> "none", to |-> 0]
NoPending == [op |-> "none", left |-> 0]
Never == -1                      \* a deadline that is not set
Outside == -1                    \* the guest is not in its handler

Slots == 0..Buffers - 1
Slot == [filled : BOOLEAN, unread : BOOLEAN, is : {"old", "noted", "shown"}]
EmptySlot == [filled |-> FALSE, unread |-> FALSE, is |-> "old"]
Status == {"ERROR", "MOTOR", "SHELL", "READ", "SEEK", "PLAY"}

PowerOn ==
    [flag |-> 0, latched |-> FALSE, hold |-> 0, istat |-> FALSE,
     pending |-> NoPending, queued |-> NoCmd, stat |-> {"MOTOR"},
     reading |-> FALSE, delay |-> 0, setloc |-> FALSE, ahead |-> 0,
     ring |-> [s \in Slots |-> EmptySlot], rd |-> 0, wr |-> 0,
     fifo |-> FALSE, bfrd |-> FALSE, dma |-> FALSE,
     pended |-> FALSE, slot |-> 0, release |-> Never, blocked |-> 0,
     fast |-> FALSE, mode |-> "data",
     iso |-> TRUE, open |-> FALSE, close |-> 0, shell |-> FALSE, lidIrq |-> FALSE,
     boost |-> FALSE,
     \* history
     raised |-> 0,          \* times the visible response was raised in I_STAT
     overwrote |-> FALSE,   \* a response replaced one not acknowledged
     age |-> 0,             \* cycles a pended one waits since the last sector, at most Authentic
     budget |-> TRUE,       \* the hold of this sector started from nothing
     hasty |-> {}]          \* modes in which the accelerated drive lost a pended one early

\* Every variable has its type; a release is scheduled only for a pended sector,
\* the drive reads only with a disc in a closed tray (begin_tray_open_cycle stops
\* it), and a tray stays open until the guest could be told (process_lid_state).
TypeOK ==
    /\ cd.flag \in {0, DataReady, Complete, Acknowledge, Error}
    /\ cd.hold \in 0..Hold /\ cd.release \in Never..ReleaseDelay
    /\ cd.pending = NoPending \/ cd.pending.op \in TwoPhase
    /\ cd.queued \in session.issue \cup {NoCmd}
    /\ cd.stat \subseteq Status
    /\ cd.reading <=> cd.delay > 0
    /\ cd.reading => cd.iso /\ ~cd.open
    /\ cd.ahead \in Int /\ (~cd.setloc => cd.ahead = 0)
    /\ cd.ring \in [Slots -> Slot] /\ {cd.rd, cd.wr, cd.slot} \subseteq Slots
    /\ {cd.fifo, cd.bfrd, cd.dma, cd.pended} \subseteq BOOLEAN
    /\ cd.mode \in Sizes /\ cd.hasty \subseteq Sizes
    /\ cd.close \in 0..LidTime /\ (cd.lidIrq => cd.open)
    /\ cd.release # Never => cd.pended
    /\ isr \in Outside..IsrTime /\ acked \in BOOLEAN
    /\ commands \in 0..session.most /\ host \in 0..session.host

HasDisc(c) == c.iso /\ ~c.open

\* apply_speed and apply_read_speed, at 1x and at "instant".  Only XA (bits 0x48 of the
\* mode) keeps its timing: whole sectors are accelerated like data sectors.
Scaled(c, delay) == IF c.fast THEN Period ELSE delay

-----------------------------------------------------------------------------
(***************************************************************************)
(* The interrupt flag.  A response sets the flag and arms the presentation *)
(* hold; it is raised in I_STAT once, when the hold is over.               *)
(***************************************************************************)

Present(c) ==
    IF c.hold = 0 /\ c.flag # 0 /\ ~c.latched
    THEN [c EXCEPT !.istat = TRUE, !.latched = TRUE, !.raised = @ + 1] ELSE c

\* Mutant: presented in the store that caused it, as before the hold existed.
SetIrqNow(c, code) ==
    [c EXCEPT !.flag = code, !.latched = FALSE, !.hold = 0,
              !.raised = 0, !.overwrote = @ \/ c.flag # 0]

SetIrq(c, code) ==
    [c EXCEPT !.flag = code, !.latched = FALSE, !.hold = Hold,
              !.raised = 0, !.overwrote = @ \/ c.flag # 0]

Respond(c, code) == Present(SetIrq(c, code))

-----------------------------------------------------------------------------
(***************************************************************************)
(* The sector ring and the data FIFO.                                      *)
(***************************************************************************)

LoadFifo(c, requested) ==
    IF c.bfrd /\ ~c.fifo /\ c.ring[c.rd].filled /\ (requested \/ c.ring[c.rd].unread)
    THEN [c EXCEPT !.fifo = TRUE, !.ring[c.rd].unread = FALSE] ELSE c

\* The next sector goes to the slot after the last one that was filled.
ReadSector(c, is) ==
    LET s == (c.wr + 1) % Buffers
    IN  [c EXCEPT !.ring = [t \in Slots |->
                              IF t = s THEN [filled |-> TRUE, unread |-> TRUE, is |-> is]
                              ELSE IF @[t].is = is THEN [@[t] EXCEPT !.is = "old"] ELSE @[t]],
                  !.wr = s, !.ahead = IF c.setloc /\ @ \in Distances THEN @ - 1 ELSE @]

\* The guest reads from slot s from now on.
Offer(c, s) == LoadFifo([c EXCEPT !.rd = s], FALSE)

\* The slot of a notification means nothing without it.
ClearPended(c) == [c EXCEPT !.pended = FALSE, !.slot = 0, !.release = Never, !.age = 0]

ClearBuffers(c) ==
    [c EXCEPT !.ring = [s \in Slots |-> EmptySlot],
              !.rd = 0, !.wr = 0, !.fifo = FALSE, !.bfrd = FALSE]

StopRead(c) == ClearPended([c EXCEPT !.reading = FALSE, !.delay = 0])

StartRead(c) ==
    [ClearPended(ClearBuffers(c)) EXCEPT
        !.setloc = FALSE, !.ahead = 0,
        !.delay = Scaled(c, FirstSector), !.reading = TRUE,
        !.stat = (@ \ {"PLAY"}) \cup {"READ"}]

\* A sector read while nothing waits for an acknowledgement: announced at once.
DeliverSector(c) ==
    LET e == ReadSector(c, "shown") IN Respond(Offer(e, e.wr), DataReady)

\* A sector for a transfer that goes on: offered without an interrupt.
DeliverToDma(c) ==
    LET e == ReadSector(c, "shown") IN Offer(e, e.wr)

\* A sector read while the guest has not acknowledged: its interrupt is pended,
\* in place of one that already was.
DeliverPended(c) ==
    LET e == ReadSector(c, "noted")
    IN  [e EXCEPT !.pended = TRUE, !.slot = e.wr,
                  !.hasty = IF c.fast /\ c.budget /\ c.pended /\ c.age < Authentic
                            THEN @ \cup {c.mode} ELSE @]

\* The sector whose notification was pended becomes the one shown, wherever it is.
Noted(c) ==
    [c EXCEPT !.ring = [t \in Slots |->
                          [c.ring[t] EXCEPT !.is = IF @ = "noted" THEN "shown" ELSE "old"]]]

\* Mutant: the newest slot is latched when the interrupt is presented.
PresentNewest(c) ==
    IF c.pended /\ c.flag = 0
    THEN Respond(Offer(ClearPended(Noted(c)), c.wr), DataReady) ELSE c

PresentPended(c) ==
    IF c.pended /\ c.flag = 0
    THEN Respond(Offer(ClearPended(Noted(c)), c.slot), DataReady) ELSE c

\* The guest is behind the accelerated drive.  The gate is wider than the one of Scaled
\* (bits 0x68): whole sectors are accelerated and never held back.
ConsumerBlocked(c) ==
    c.fast /\ c.mode # "whole" /\ (c.pended \/ (c.flag # 0 /\ ~c.dma))

\* Mutant: the hold of the last sector counts against the next one too.
ReadStreamKeepHold(c, n) ==
    IF ~c.reading THEN c
    ELSE IF ConsumerBlocked(c) /\ c.blocked < Authentic
    THEN [c EXCEPT !.blocked = @ + n]
    ELSE LET left == c.delay - n
             next == left + Scaled(c, Authentic)
             e == IF c.flag = 0 THEN DeliverSector(c)
                  ELSE IF c.dma THEN DeliverToDma(c) ELSE DeliverPended(c)
         IN  IF left > 0 THEN [c EXCEPT !.delay = left]
             ELSE [e EXCEPT !.age = 0, !.budget = TRUE,
                            !.delay = IF next > 0 THEN next ELSE Scaled(c, Authentic)]

\* The disc turns for n cycles.
ReadStream(c, n) ==
    IF ~c.reading THEN c
    ELSE IF ConsumerBlocked(c) /\ c.blocked < Authentic
    THEN [c EXCEPT !.blocked = @ + n]
    ELSE LET left == c.delay - n
             next == left + Scaled(c, Authentic)
             e == IF c.flag = 0 THEN DeliverSector(c)
                  ELSE IF c.dma THEN DeliverToDma(c) ELSE DeliverPended(c)
         IN  IF left > 0 THEN [c EXCEPT !.delay = left]
             ELSE [e EXCEPT !.blocked = 0, !.age = 0, !.budget = TRUE,
                            !.delay = IF next > 0 THEN next ELSE Scaled(c, Authentic)]

-----------------------------------------------------------------------------
(***************************************************************************)
(* Commands.  A command cancels the second response of the one before it;  *)
(* it runs when the flag is clear and otherwise waits in the one-place     *)
(* queue.                                                                  *)
(***************************************************************************)

Arm(c, op, delay) == [c EXCEPT !.pending = [op |-> op, left |-> delay]]

TwoPhaseAck(c, op, delay) == Arm(Respond(c, Acknowledge), op, delay)

GetStat(c) ==
    LET e == [c EXCEPT !.stat = @ \cup {IF HasDisc(c) THEN "MOTOR" ELSE "SHELL"}]
    IN  Respond(IF c.shell /\ ~c.open THEN [e EXCEPT !.shell = FALSE, !.stat = @ \ {"SHELL"}]
                ELSE e, Acknowledge)

Setloc(c, to) == Respond([c EXCEPT !.ahead = to, !.setloc = TRUE], Acknowledge)

\* The drive already streams the sector the Setloc names.
Continues(c) == c.reading /\ (c.setloc => c.ahead = 0)

Read(c) ==
    IF ~HasDisc(c) THEN Respond(c, Error)
    ELSE IF Continues(c) THEN Respond([c EXCEPT !.setloc = FALSE, !.ahead = 0], Acknowledge)
    ELSE Respond(StartRead(c), Acknowledge)

SetMode(c, size) == Respond([c EXCEPT !.mode = size], Acknowledge)

\* Play from a data track: no audio track starts, PLAY is reported.
Play(c) ==
    IF ~HasDisc(c) THEN Respond(c, Error)
    ELSE Respond([StopRead(c) EXCEPT !.stat = (@ \ {"SEEK", "READ"}) \cup {"MOTOR", "PLAY"}],
                 Acknowledge)

MotorOn(c) ==
    IF "MOTOR" \in c.stat THEN Respond(c, Error)
    ELSE TwoPhaseAck(c, "MotorOn", Scaled(c, Latency["MotorOn"]))

Stop(c) ==
    TwoPhaseAck([StopRead(c) EXCEPT !.stat = @ \ {"READ", "PLAY", "SEEK"}],
                "Stop", Scaled(c, Latency["Stop"]))

\* The head settles only when it was reading or playing; never accelerated.
PauseDelay(c) ==
    IF c.reading \/ c.stat \cap {"READ", "PLAY"} # {} THEN Latency["Pause"] ELSE Latency["Paused"]

Pause(c) ==
    TwoPhaseAck([StopRead(c) EXCEPT !.stat = @ \ {"READ", "PLAY"}], "Pause", PauseDelay(c))

InitDrive(c) ==
    TwoPhaseAck([StopRead(c) EXCEPT !.stat = {IF HasDisc(c) THEN "MOTOR" ELSE "SHELL"}],
                "Init", Latency["Init"])

Seek(c) ==
    IF ~HasDisc(c) THEN Respond(c, Error)
    ELSE TwoPhaseAck([StopRead(c) EXCEPT !.ahead = 0, !.stat = (@ \ {"PLAY"}) \cup {"SEEK"}],
                     "Seek", Scaled(c, Latency["Seek"]))

Cancel(c) == [c EXCEPT !.pending = NoPending]

Exec(c, cmd) ==
    LET e == Cancel(c)
    IN  CASE cmd.op = "GetStat" -> GetStat(e)
          [] cmd.op = "Setloc" -> Setloc(e, cmd.to)
          [] cmd.op = "Read" -> Read(e)
          [] cmd.op = "Play" -> Play(e)
          [] cmd.op = "MotorOn" -> MotorOn(e)
          [] cmd.op = "Stop" -> Stop(e)
          [] cmd.op = "Pause" -> Pause(e)
          [] cmd.op = "Init" -> InitDrive(e)
          [] cmd.op = "Seek" -> Seek(e)
          [] cmd.op \in {"GetID", "ReadTOC"} -> TwoPhaseAck(e, cmd.op, Latency[cmd.op])
          [] cmd.op \in Sizes -> SetMode(e, cmd.op)
          [] cmd.op = "Other" -> Respond(e, Acknowledge)
          [] cmd.op = "Invalid" -> Respond(e, Error)

QueueOrExec(c, cmd) == IF c.flag = 0 THEN Exec(c, cmd) ELSE [c EXCEPT !.queued = cmd]

TryQueued(c) ==
    IF c.queued = NoCmd \/ c.flag # 0 THEN c
    ELSE Exec([c EXCEPT !.queued = NoCmd], c.queued)

\* What a second response does to the status.
Finish(c, op) ==
    LET e == [c EXCEPT !.stat = CASE op = "MotorOn" -> @ \cup {"MOTOR"}
                                  [] op = "Stop" -> @ \ {"MOTOR", "READ", "PLAY", "SEEK"}
                                  [] op = "Pause" -> @ \ {"READ"}
                                  [] op = "Seek" -> (@ \ {"SEEK"}) \cup {"READ"}
                                  [] OTHER -> @,
                       !.setloc = @ /\ op # "Seek", !.ahead = IF op = "Seek" THEN 0 ELSE @]
    IN  Respond(e, IF op = "GetID" /\ ~HasDisc(c) THEN Error ELSE Complete)

\* Mutant: a due second response does not wait for the acknowledgement.
ProcessPendingNow(c) ==
    IF c.pending = NoPending \/ c.pending.left > 0 THEN c
    ELSE Finish([c EXCEPT !.pending = NoPending], c.pending.op)

\* Mutant: the response stays armed after it was given.
ProcessPendingKeep(c) ==
    IF c.pending = NoPending \/ c.pending.left > 0 \/ c.flag # 0 THEN c
    ELSE Finish(c, c.pending.op)

ProcessPending(c) ==
    IF c.pending = NoPending \/ c.pending.left > 0 \/ c.flag # 0 THEN c
    ELSE Finish([c EXCEPT !.pending = NoPending], c.pending.op)

-----------------------------------------------------------------------------
(***************************************************************************)
(* The lid.                                                                *)
(***************************************************************************)

\* Mutant: announced again after every acknowledgement.
PresentLidAgain(c) ==
    IF ~c.lidIrq \/ c.flag # 0 THEN c
    ELSE Respond([c EXCEPT !.stat = {"ERROR", "SHELL"}], Error)

PresentLid(c) ==
    IF ~c.lidIrq \/ c.flag # 0 THEN c
    ELSE [Respond([c EXCEPT !.stat = {"ERROR", "SHELL"}], Error) EXCEPT !.lidIrq = FALSE]

LidStep(c) ==
    LET e == PresentLid(c)
    IN  IF e.lidIrq \/ ~e.open \/ e.close > 0 THEN e
        ELSE [e EXCEPT !.open = FALSE,
                       !.stat = (@ \ {"ERROR", "READ", "PLAY", "SEEK"}) \cup {"SHELL"}
                                \cup (IF e.iso THEN {"MOTOR"} ELSE {})]

\* Mutant: the transfer in flight is not stopped.
OpenTrayReading(c) ==
    PresentLid([ClearPended(c) EXCEPT !.stat = {"ERROR", "SHELL"}, !.open = TRUE,
                                      !.close = LidTime, !.shell = TRUE, !.lidIrq = TRUE])

OpenTray(c) ==
    PresentLid([StopRead(c) EXCEPT !.stat = {"ERROR", "SHELL"}, !.open = TRUE,
                                   !.close = LidTime, !.shell = TRUE, !.lidIrq = TRUE])

-----------------------------------------------------------------------------
(***************************************************************************)
(* Entry points: the passing of time, the acknowledgement, savestates.     *)
(***************************************************************************)

\* n cycles pass on the clock; deadlines are clock values.
Elapse(c, n) ==
    LET Less(d) == IF d > n THEN d - n ELSE 0
    IN  [c EXCEPT !.hold = Less(@), !.close = Less(@), !.pending.left = Less(@),
                  !.release = IF @ = Never THEN Never ELSE Less(@),
                  !.age = IF ~c.pended THEN 0 ELSE IF @ + n < Authentic THEN @ + n ELSE Authentic]

Release(c) == IF c.release # 0 THEN c ELSE PresentPended([c EXCEPT !.release = Never])

AdvanceBy(c, n) ==
    LET before == Release(TryQueued(ProcessPending(Present(LidStep(Elapse(c, n))))))
    IN  Present(LidStep(ReadStream(before, n)))

\* Mutant: the pended sector is announced inside the guest's acknowledgement.
AckIrqPresenting(c) ==
    LET e == [c EXCEPT !.flag = 0, !.latched = IF c.flag # 0 THEN FALSE ELSE @]
    IN  TryQueued(ProcessPending(PresentPended(IF c.flag # 0 THEN PresentLid(e) ELSE e)))

AckIrq(c) ==
    LET e == [c EXCEPT !.flag = 0, !.latched = IF c.flag # 0 THEN FALSE ELSE @]
        f == IF c.flag # 0 THEN PresentLid(e) ELSE e
        g == IF f.pended /\ f.release = Never THEN [f EXCEPT !.release = ReleaseDelay] ELSE f
    IN  TryQueued(ProcessPending(g))

\* The scheduled release goes over the wire plus one, 0 when there is none.
EmitRelease(c) == IF c.release = Never THEN 0 ELSE c.release + 1
ParseRelease(w) == IF w > 0 THEN w - 1 ELSE Never

\* Mutant: the release of a legacy state, which has none.
RestoreLegacy(c) ==
    [c EXCEPT !.release = Never, !.open = FALSE, !.close = 0, !.shell = FALSE, !.lidIrq = FALSE]

\* A controller saved and loaded: the lid is not on the wire.
Restore(c) ==
    LET e == [c EXCEPT !.release = ParseRelease(EmitRelease(c)),
                       !.open = FALSE, !.close = 0, !.shell = FALSE, !.lidIrq = FALSE]
    IN  IF c.iso /\ {"ERROR", "SHELL"} \subseteq c.stat
        THEN [e EXCEPT !.open = TRUE, !.close = LidTime, !.shell = TRUE]
        ELSE [e EXCEPT !.shell = c.iso /\ "SHELL" \in c.stat]

\* The delays that are cut short after a load in the middle of a session.
CapDelays(c) ==
    LET Cut(d) == IF d > DelayCap THEN DelayCap ELSE d
    IN  [c EXCEPT !.pending.left = Cut(@), !.hold = Cut(@), !.delay = Cut(@)]

-----------------------------------------------------------------------------
(***************************************************************************)
(* The guest, the DMA channel, the host.                                   *)
(***************************************************************************)

Init ==
    /\ session \in Sessions
    /\ cd = PowerOn
    /\ isr = Outside /\ acked = FALSE /\ commands = 0 /\ host = 0

\* Time passes; in the handler no more than it may take.
Advance(n) ==
    /\ isr = Outside \/ n <= isr
    /\ cd' = AdvanceBy(cd, n)
    /\ isr' = IF isr = Outside THEN Outside ELSE isr - n
    /\ UNCHANGED <<session, acked, commands, host>>

\* The guest writes a command and its parameters.
WriteCommand(cmd) ==
    /\ commands < session.most
    /\ commands' = commands + 1
    /\ cd' = QueueOrExec(cd, cmd)
    /\ UNCHANGED <<session, isr, acked, host>>

\* The guest enters its handler.
EnterIsr ==
    /\ isr = Outside /\ cd.istat
    /\ isr' = IsrTime /\ acked' = FALSE
    /\ UNCHANGED <<session, cd, commands, host>>

\* The handler acknowledges the controller: 0x1F801803.1.
AckController ==
    /\ isr # Outside /\ ~acked
    /\ cd' = AckIrq(cd) /\ acked' = TRUE
    /\ UNCHANGED <<session, isr, commands, host>>

\* The handler clears bit 2 of I_STAT and returns.
LeaveIsr ==
    /\ isr # Outside /\ acked
    /\ cd' = [cd EXCEPT !.istat = FALSE]
    /\ isr' = Outside /\ acked' = FALSE
    /\ UNCHANGED <<session, commands, host>>

\* The guest sets or clears BFRD: 0x1F801803.0.
Request(want) ==
    /\ session.fetch
    /\ cd' = IF want THEN LoadFifo([cd EXCEPT !.bfrd = TRUE], TRUE)
             ELSE [cd EXCEPT !.bfrd = FALSE, !.fifo = FALSE]
    /\ UNCHANGED <<session, isr, acked, commands, host>>

\* The guest through the port, or the channel, reads the sector in the FIFO.
ReadData ==
    /\ cd.bfrd /\ cd.fifo
    /\ cd' = [cd EXCEPT !.fifo = FALSE]
    /\ UNCHANGED <<session, isr, acked, commands, host>>

\* An active channel looks for data and latches the sector that is offered.
DmaReady ==
    /\ cd.dma
    /\ cd' = LoadFifo(cd, FALSE)
    /\ UNCHANGED <<session, isr, acked, commands, host>>

\* The guest starts the CD channel; it ends when its words are transferred.
DmaToggle ==
    /\ session.fetch
    /\ cd' = [cd EXCEPT !.dma = ~@]
    /\ UNCHANGED <<session, isr, acked, commands, host>>

\* The game's entry point is reached: the configured speed applies.
GameStarted ==
    /\ ~cd.fast
    /\ cd' = [cd EXCEPT !.fast = TRUE]
    /\ UNCHANGED <<session, isr, acked, commands, host>>

HostStep(c) ==
    /\ host < session.host
    /\ host' = host + 1 /\ cd' = c
    /\ UNCHANGED <<session, isr, acked, commands>>

Reinsert == HostStep(OpenTray(cd))

\* Another image is mounted in the open tray, or it cannot be opened.
SelectDisc(opens) ==
    HostStep(IF opens THEN [ClearBuffers(OpenTray(cd)) EXCEPT !.iso = TRUE]
             ELSE [OpenTray(cd) EXCEPT !.iso = FALSE])

\* A savestate is written and loaded; the hold accumulator is not part of it
\* and keeps what the session left there.
Reload(accelerate, blocked) ==
    LET e == [Restore(cd) EXCEPT !.blocked = blocked, !.budget = blocked = 0]
    IN  HostStep(IF accelerate THEN [CapDelays(e) EXCEPT !.boost = TRUE] ELSE e)

\* For some vblanks after such a load every vblank cuts the delays short again.
BoostVblank(last) ==
    /\ cd.boost
    /\ cd' = [CapDelays(cd) EXCEPT !.boost = ~last]
    /\ UNCHANGED <<session, isr, acked, commands, host>>

Next ==
    \/ \E n \in 1..MaxStep : Advance(n)
    \/ \E cmd \in session.issue : WriteCommand(cmd)
    \/ EnterIsr
    \/ AckController
    \/ LeaveIsr
    \/ \E want \in BOOLEAN : Request(want)
    \/ ReadData
    \/ DmaReady
    \/ DmaToggle
    \/ GameStarted
    \/ Reinsert
    \/ \E opens \in BOOLEAN : SelectDisc(opens)
    \/ \E accelerate \in BOOLEAN, blocked \in {0, Authentic} : Reload(accelerate, blocked)
    \/ \E last \in BOOLEAN : BoostVblank(last)

\* Time can pass and something happens when it does.
CanAdvance ==
    /\ isr # 0
    /\ isr # Outside \/ \E n \in 1..MaxStep : AdvanceBy(cd, n) # cd

\* The clock runs and the guest's handler runs when it is called: weak fairness
\* of each, with ENABLED written out for the two actions that rebuild cd.
Fairness ==
    /\ []<>~CanAdvance \/ []<><<\E n \in 1..MaxStep : Advance(n)>>_vars
    /\ []<>(isr = Outside \/ acked) \/ []<><<AckController>>_vars
    /\ WF_vars(EnterIsr) /\ WF_vars(LeaveIsr)

Spec == Init /\ [][Next]_vars /\ Fairness

-----------------------------------------------------------------------------
(***************************************************************************)
(* Properties.                                                             *)
(***************************************************************************)

\* The controller presents one response at a time: no response replaces one the
\* guest has not acknowledged, and none is raised twice (the latch of
\* cdrom.c:87-98, the irq_flag tests before every set_irq).
OneAtATime == ~cd.overwrote /\ cd.raised <= 1

\* No interrupt is lost to the handler's own trailing I_STAT write: a response
\* that was raised and not acknowledged is still set in I_STAT, although
\* commands and acknowledgements inside the handler cause new responses
\* (the presentation hold, cdrom.c:108-129, also after a savestate's cap).
NoLostInterrupt == cd.flag # 0 /\ cd.latched => cd.istat

\* The slot the guest reads from holds the sector its interrupt announced,
\* pended or not, for as long as the ring did not come round (the slot captured
\* in process_read_stream, cdrom.c:2797-2802).
AnnouncedReadable ==
    (\E s \in Slots : cd.ring[s].is = "shown") => cd.ring[cd.rd].is = "shown"

\* What the comment on the flow control says of every accelerated read, "never lossier
\* than hardware" (cdrom.c:2709): a notification is lost only when the guest did not
\* take it in the time the drive would have given it; except in the first hold after a
\* savestate was loaded, whose accumulator is stale.
FastNotLossier == cd.hasty = {}

\* What the flow control does keep of it (accelerated_consumer_blocked, cdrom.c:2730-2735):
\* data sectors are lost no earlier than on the drive, whatever the guest does to the mode
\* while it streams and whatever was lost of whole sectors before.
HeldNotLossier == "data" \notin cd.hasty

\* A savestate restores the controller exactly while the tray is closed, apart
\* from a shell latch that no longer shows in the status
\* (cdrom_snap_emit, cdrom_snap_parse).
RestoreExact == ~cd.open => Restore(cd) = [cd EXCEPT !.shell = Restore(cd).shell]

\* In its acknowledgement and from there to its end a handler, which sets up its
\* transfer there, is not given the sector whose interrupt was pended (cdrom.c:1585-1600).
HandlerDrainsOwn ==
    [][isr # Outside /\ cd.pended /\ (IF acked THEN cd.flag = 0 ELSE acked')
        => cd'.pended \/ cd'.flag # DataReady]_vars

\* A queued command runs and a second response comes, whatever the disc, the
\* lid and the guest's other commands do (process_pending and
\* try_execute_queued_command at every acknowledgement and advance).
CommandsEnd ==
    (cd.queued # NoCmd \/ cd.pending # NoPending) ~> (cd.queued = NoCmd /\ cd.pending = NoPending)

\* A tray that was opened closes again (present_lid_open_irq_if_ready,
\* cdrom_lid_close_if_due).
TrayCloses == cd.open ~> ~cd.open

=============================================================================
