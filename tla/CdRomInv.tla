------------------------------ MODULE CdRomInv ------------------------------
(***************************************************************************)
(* The inductive invariant of the CD-ROM controller.                       *)
(*                                                                         *)
(* The controller is rebuilt several times inside one entry point, so the  *)
(* invariant is a predicate on the record, true between any two functions  *)
(* of the source and not only between entry points.  Two parameters say    *)
(* where the record is: n, the cycles that have passed and that the disc   *)
(* has not turned for yet, and q, where the guest is.                      *)
(***************************************************************************)
EXTENDS CdRom

\* The types of the controller's fields.
Bit == BOOLEAN
Code == {0, DataReady, Complete, Acknowledge, Error}
Held == 0..Hold
Pending == [op : TwoPhase \cup {"none"}, left : Nat]
Queued(I) == I \cup {NoCmd}
Bits == SUBSET Status
Ring == [Slots -> Slot]
Due == Never..ReleaseDelay
Closing == 0..LidTime
Age == 0..Authentic
Modes == SUBSET Sizes

\* The controller's record, when the guest issues commands of the set I.
Controller(I) ==
    [flag : Code, latched : Bit, hold : Held, istat : Bit,
     pending : Pending, queued : Queued(I), stat : Bits,
     reading : Bit, delay : Nat, setloc : Bit, ahead : Int,
     ring : Ring, rd : Slots, wr : Slots, fifo : Bit, bfrd : Bit, dma : Bit,
     pended : Bit, slot : Slots, release : Due, blocked : Nat,
     fast : Bit, mode : Sizes,
     iso : Bit, open : Bit, close : Closing, shell : Bit, lidIrq : Bit, boost : Bit,
     raised : Nat, overwrote : Bit, age : Age, budget : Bit, hasty : Modes]

\* The drive turns only for a disc in a closed tray, a position that was not set
\* is the next sector, and what waits belongs to something that waits.
Drive(c) ==
    /\ c.reading <=> c.delay > 0
    /\ c.reading => c.iso /\ ~c.open
    /\ c.setloc \/ c.ahead = 0
    /\ c.pending.op = "none" => c.pending.left = 0
    /\ c.release # Never => c.pended

\* The lid and the status agree: the error of an opened tray is reported with the
\* shell bit, and stays in the status of a closed one only without a disc.
Lid(c) ==
    /\ c.lidIrq => c.open
    /\ c.open \/ c.close = 0
    /\ "ERROR" \in c.stat => "SHELL" \in c.stat
    /\ "ERROR" \in c.stat /\ ~c.open => ~c.iso /\ ~c.shell

\* A status that agrees with the lid.
Agrees(c, S) ==
    /\ S \in Bits
    /\ "ERROR" \in S => "SHELL" \in S
    /\ "ERROR" \in S /\ ~c.open => ~c.iso /\ ~c.shell

\* The response in the flag: it replaced none, it was raised once when it was
\* latched, and the release of a pended sector never comes after its hold.
Response(c) ==
    /\ ~c.overwrote
    /\ c.raised <= 1
    /\ c.flag # 0 /\ ~c.latched => c.raised = 0
    /\ c.flag # 0 /\ c.latched => c.hold = 0 /\ c.istat
    /\ c.flag # 0 => c.release <= c.hold

\* Where the guest is: outside its handler, in it and yet to acknowledge, or in
\* it for at most q more cycles with nothing to be raised or released in them.
Entered == -2
Moment == Entered..IsrTime
Quiet(c, q) ==
    /\ q = Outside => (c.istat => c.flag # 0 /\ c.latched)
    /\ q = Entered => c.flag # 0 /\ c.latched
    /\ q >= 0 /\ c.flag # 0 => ~c.latched /\ c.hold > q
    /\ q >= 0 /\ c.release # Never => c.release > q

\* The only sector shown is the one the guest reads from, the only one noted the
\* one whose notification is pended.
Sectors(c) ==
    /\ \A s \in Slots : c.ring[s].is = "shown" => s = c.rd
    /\ c.pended => \A s \in Slots : c.ring[s].is = "noted" => s = c.slot

\* What holds of the controller between any two functions of the source.
Sound(c, I, q) ==
    /\ I \subseteq Command /\ q \in Moment
    /\ c \in Controller(I)
    /\ Drive(c)
    /\ Lid(c)
    /\ Response(c)
    /\ Quiet(c, q)
    /\ Sectors(c)

\* No data sector was lost early: the accumulated hold, with the n cycles about to be
\* added to it, is never longer than the notification has waited.  When the disc
\* has turned no release is overdue.
Flow(c, n) ==
    /\ n \in Nat
    /\ "data" \notin c.hasty
    /\ c.pended /\ c.budget => c.age >= c.blocked + n \/ c.age = Authentic
    /\ n = 0 => c.release # 0

Good(c, I, n, q) == Sound(c, I, q) /\ Flow(c, n)

\* Where the guest is now.
Now == IF acked THEN isr ELSE IF isr = Outside THEN Outside ELSE Entered

\* The guest and the host.
Guest ==
    /\ session \in Sessions
    /\ isr \in Outside..IsrTime /\ acked \in BOOLEAN
    /\ commands \in 0..session.most /\ host \in 0..session.host
    /\ acked => isr # Outside

\* The inductive invariant.
IInv == Guest /\ Good(cd, session.issue, 0, Now)

=============================================================================
