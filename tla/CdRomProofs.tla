---------------------------- MODULE CdRomProofs ----------------------------
(***************************************************************************)
(* Proofs about the CD-ROM controller.  Every function of the source keeps *)
(* the predicate Good of CdRomInv on the record it is given; an entry      *)
(* point is a composition of such functions, so the proof of each action   *)
(* is a chain of the lemmas about the functions it calls.                  *)
(***************************************************************************)
EXTENDS CdRomInv, TLAPS

-----------------------------------------------------------------------------
(***************************************************************************)
(* The interrupt flag, the stop of the drive and the ring.                 *)
(***************************************************************************)

\* The values the functions of the source assign are of the fields' types.
LEMMA Values ==
    /\ TRUE \in Bit /\ FALSE \in Bit
    /\ {0, DataReady, Complete, Acknowledge, Error} \subseteq Code
    /\ 0 \in Held /\ Hold \in Held
    /\ NoPending \in Pending
    /\ \A I : NoCmd \in Queued(I)
    /\ {} \in Bits /\ {} \in Modes /\ "data" \in Sizes
    /\ 0 \in Nat /\ 0 \in Int
    /\ [s \in Slots |-> EmptySlot] \in Ring /\ 0 \in Slots
    /\ Never \in Due /\ ReleaseDelay \in Due
    /\ 0 \in Closing /\ LidTime \in Closing
    /\ 0 \in Age /\ Authentic \in Age
<1>1. /\ TRUE \in Bit /\ FALSE \in Bit
  BY DEF Bit
<1>2. /\ {0, DataReady, Complete, Acknowledge, Error} \subseteq Code
      /\ NoPending \in Pending /\ {} \in Bits /\ {} \in Modes /\ "data" \in Sizes
  BY DEF Code, NoPending, Pending, Bits, Modes, Sizes
<1>3. \A I : NoCmd \in Queued(I)
  BY DEF Queued
<1>4. /\ 0 \in Held /\ Hold \in Held /\ 0 \in Nat /\ 0 \in Int
      /\ 0 \in Slots /\ Never \in Due /\ ReleaseDelay \in Due
      /\ 0 \in Closing /\ LidTime \in Closing /\ 0 \in Age /\ Authentic \in Age
  BY Assumptions DEF Held, Slots, Due, Never, Closing, Age
<1>5. [s \in Slots |-> EmptySlot] \in Ring
  BY DEF Ring, Slot, EmptySlot
<1> QED
  BY <1>1, <1>2, <1>3, <1>4, <1>5

\* Raising the response in the flag keeps the controller good.
LEMMA PresentGood ==
    ASSUME NEW c, NEW I, NEW n, NEW q, Good(c, I, n, q)
    PROVE  Good(Present(c), I, n, q)
<1>0. c \in Controller(I) /\ I \subseteq Command /\ q \in Moment
  BY DEF Good, Sound
<1>1. c.raised + 1 \in Nat
  BY <1>0 DEF Controller
<1>2. Present(c) \in Controller(I)
  BY <1>0, <1>1, Values DEF Controller, Present
<1>3. Drive(Present(c))
  BY <1>0, <1>1, Assumptions DEF Good, Sound, Controller, Drive, Never, Due, Present
<1>4. Lid(Present(c))
  BY <1>0, <1>1, Assumptions DEF Good, Sound, Controller, Lid, Closing, Bits, Status, Present
<1>5. Response(Present(c))
  BY <1>0, <1>1, Assumptions DEF Good, Sound, Controller, Response, Never, Held, Due, Present
<1>6. Quiet(Present(c), q)
  BY <1>0, <1>1, Assumptions DEF Good, Sound, Controller, Quiet, Moment, Entered, Outside,
     Never, Held, Due, Present
<1>7. Sectors(Present(c))
  BY <1>0, <1>1, Assumptions DEF Good, Sound, Controller, Sectors, Ring, Slot, Present
<1>8. Flow(Present(c), n)
  BY <1>0, <1>1, Assumptions DEF Good, Controller, Flow, Age, Never, Present
<1> QED
  BY <1>0, <1>2, <1>3, <1>4, <1>5, <1>6, <1>7, <1>8 DEF Good, Sound

\* Presenting right after a response is set does nothing: its hold has just begun.
LEMMA RespondIs ==
    ASSUME NEW c, NEW I, c \in Controller(I), NEW code
    PROVE  Respond(c, code) = SetIrq(c, code)
BY Assumptions DEF Controller, Respond, Present, SetIrq

\* A response set while the flag is clear.
LEMMA SetIrqGood ==
    ASSUME NEW c, NEW I, NEW n, NEW q, NEW code, Good(c, I, n, q),
           c.flag = 0, code \in {DataReady, Complete, Acknowledge, Error}
    PROVE  Good(SetIrq(c, code), I, n, q)
<1>0. c \in Controller(I) /\ I \subseteq Command /\ q \in Moment
  BY DEF Good, Sound
<1>1. (c.overwrote \/ c.flag # 0) \in Bit /\ ~(c.overwrote \/ c.flag # 0) /\ code \in Code
  BY <1>0, Values DEF Good, Sound, Response, Bit
<1>2. SetIrq(c, code) \in Controller(I)
  BY <1>0, <1>1, Values DEF Controller, SetIrq
<1>3. Drive(SetIrq(c, code))
  BY <1>0, <1>1, Assumptions DEF Good, Sound, Controller, Drive, Never, Due, SetIrq
<1>4. Lid(SetIrq(c, code))
  BY <1>0, <1>1, Assumptions DEF Good, Sound, Controller, Lid, Closing, Bits, Status, SetIrq
<1>5. Response(SetIrq(c, code))
  <2>1. ~SetIrq(c, code).overwrote
    BY <1>0, <1>1 DEF Controller, SetIrq
  <2>2. /\ SetIrq(c, code).raised = 0 /\ ~SetIrq(c, code).latched
        /\ SetIrq(c, code).hold = Hold /\ SetIrq(c, code).release = c.release
    BY <1>0 DEF Controller, SetIrq
  <2>3. c.release <= Hold
    BY <1>0, Assumptions DEF Controller, Due, Never
  <2> QED
    BY <2>1, <2>2, <2>3 DEF Response
<1>6. Quiet(SetIrq(c, code), q)
  BY <1>0, <1>1, Assumptions DEF Good, Sound, Controller, Quiet, Moment, Entered, Outside,
     Never, Held, Due, SetIrq
<1>7. Sectors(SetIrq(c, code))
  BY <1>0, <1>1, Assumptions DEF Good, Sound, Controller, Sectors, Ring, Slot, SetIrq
<1>8. Flow(SetIrq(c, code), n)
  BY <1>0, <1>1, Assumptions DEF Good, Controller, Flow, Age, Never, SetIrq
<1> QED
  BY <1>0, <1>2, <1>3, <1>4, <1>5, <1>6, <1>7, <1>8 DEF Good, Sound

\* A response, with its code and with what it leaves alone.
LEMMA RespondGood ==
    ASSUME NEW c, NEW I, NEW n, NEW q, Good(c, I, n, q), c.flag = 0,
           NEW code \in {DataReady, Complete, Acknowledge, Error}
    PROVE  /\ Good(Respond(c, code), I, n, q)
           /\ Respond(c, code).flag = code /\ code # 0
           /\ Respond(c, code).pended = c.pended
           /\ Respond(c, code).release = c.release
           /\ Respond(c, code).lidIrq = c.lidIrq
           /\ Respond(c, code).queued = c.queued
<1>1. c \in Controller(I)
  BY DEF Good, Sound
<1>2. Respond(c, code) = SetIrq(c, code)
  BY <1>1, RespondIs
<1>3. Good(SetIrq(c, code), I, n, q)
  BY SetIrqGood
<1>4. /\ SetIrq(c, code).flag = code
      /\ SetIrq(c, code).pended = c.pended
      /\ SetIrq(c, code).release = c.release
      /\ SetIrq(c, code).lidIrq = c.lidIrq
      /\ SetIrq(c, code).queued = c.queued
  BY <1>1 DEF Controller, SetIrq
<1> QED
  BY <1>2, <1>3, <1>4 DEF DataReady, Complete, Acknowledge, Error

\* Loading the data FIFO marks a slot read.
LEMMA LoadFifoGood ==
    ASSUME NEW c, NEW I, NEW n, NEW q, NEW r, Good(c, I, n, q)
    PROVE  Good(LoadFifo(c, r), I, n, q)
<1>0. c \in Controller(I) /\ I \subseteq Command /\ q \in Moment
  BY DEF Good, Sound
<1>1. [c.ring EXCEPT ![c.rd].unread = FALSE] \in Ring
  <2>1. c.ring \in Ring /\ c.rd \in Slots
    BY <1>0 DEF Controller
  <2> QED
    BY <2>1 DEF Ring, Slot
<1>2. LoadFifo(c, r) \in Controller(I)
  BY <1>0, <1>1, Values DEF Controller, LoadFifo
<1>3. Drive(LoadFifo(c, r))
  BY <1>0, <1>1, Assumptions DEF Good, Sound, Controller, Drive, Never, Due, LoadFifo
<1>4. Lid(LoadFifo(c, r))
  BY <1>0, <1>1, Assumptions DEF Good, Sound, Controller, Lid, Closing, Bits, Status, LoadFifo
<1>5. Response(LoadFifo(c, r))
  BY <1>0, <1>1, Assumptions DEF Good, Sound, Controller, Response, Never, Held, Due, LoadFifo
<1>6. Quiet(LoadFifo(c, r), q)
  BY <1>0, <1>1, Assumptions DEF Good, Sound, Controller, Quiet, Moment, Entered, Outside,
     Never, Held, Due, LoadFifo
<1>7. Sectors(LoadFifo(c, r))
  BY <1>0, <1>1, Assumptions DEF Good, Sound, Controller, Sectors, Ring, Slot, LoadFifo
<1>8. Flow(LoadFifo(c, r), n)
  BY <1>0, <1>1, Assumptions DEF Good, Controller, Flow, Age, Never, LoadFifo
<1> QED
  BY <1>0, <1>2, <1>3, <1>4, <1>5, <1>6, <1>7, <1>8 DEF Good, Sound

\* Forgetting the pended notification.
LEMMA ClearPendedGood ==
    ASSUME NEW c, NEW I, NEW n, NEW q, Good(c, I, n, q)
    PROVE  Good(ClearPended(c), I, n, q)
<1>0. c \in Controller(I) /\ I \subseteq Command /\ q \in Moment
  BY DEF Good, Sound
<1>2. ClearPended(c) \in Controller(I)
  BY <1>0, Values DEF Controller, ClearPended
<1>3. Drive(ClearPended(c))
  BY <1>0, Assumptions DEF Good, Sound, Controller, Drive, Never, Due, ClearPended
<1>4. Lid(ClearPended(c))
  BY <1>0, Assumptions DEF Good, Sound, Controller, Lid, Closing, Bits, Status, ClearPended
<1>5. Response(ClearPended(c))
  BY <1>0, Assumptions DEF Good, Sound, Controller, Response, Never, Held, Due, ClearPended
<1>6. Quiet(ClearPended(c), q)
  BY <1>0, Assumptions DEF Good, Sound, Controller, Quiet, Moment, Entered, Outside, Never,
     Held, Due, ClearPended
<1>7. Sectors(ClearPended(c))
  BY <1>0, Assumptions DEF Good, Sound, Controller, Sectors, Ring, Slot, ClearPended
<1>8. Flow(ClearPended(c), n)
  BY <1>0, Assumptions DEF Good, Controller, Flow, Age, Never, ClearPended
<1> QED
  BY <1>0, <1>2, <1>3, <1>4, <1>5, <1>6, <1>7, <1>8 DEF Good, Sound

\* Stopping the drive.
LEMMA StopReadGood ==
    ASSUME NEW c, NEW I, NEW n, NEW q, Good(c, I, n, q)
    PROVE  Good(StopRead(c), I, n, q)
<1>0. c \in Controller(I) /\ I \subseteq Command /\ q \in Moment
  BY DEF Good, Sound
<1>2. StopRead(c) \in Controller(I)
  BY <1>0, Values DEF Controller, StopRead, ClearPended
<1>3. Drive(StopRead(c))
  BY <1>0, Assumptions DEF Good, Sound, Controller, Drive, Never, Due, StopRead, ClearPended
<1>4. Lid(StopRead(c))
  BY <1>0, Assumptions DEF Good, Sound, Controller, Lid, Closing, Bits, Status, StopRead,
     ClearPended
<1>5. Response(StopRead(c))
  BY <1>0, Assumptions DEF Good, Sound, Controller, Response, Never, Held, Due, StopRead,
     ClearPended
<1>6. Quiet(StopRead(c), q)
  BY <1>0, Assumptions DEF Good, Sound, Controller, Quiet, Moment, Entered, Outside, Never,
     Held, Due, StopRead, ClearPended
<1>7. Sectors(StopRead(c))
  BY <1>0, Assumptions DEF Good, Sound, Controller, Sectors, Ring, Slot, StopRead, ClearPended
<1>8. Flow(StopRead(c), n)
  BY <1>0, Assumptions DEF Good, Controller, Flow, Age, Never, StopRead, ClearPended
<1> QED
  BY <1>0, <1>2, <1>3, <1>4, <1>5, <1>6, <1>7, <1>8 DEF Good, Sound

\* Emptying the ring.
LEMMA ClearBuffersGood ==
    ASSUME NEW c, NEW I, NEW n, NEW q, Good(c, I, n, q)
    PROVE  Good(ClearBuffers(c), I, n, q)
<1>0. c \in Controller(I) /\ I \subseteq Command /\ q \in Moment
  BY DEF Good, Sound
<1>2. ClearBuffers(c) \in Controller(I)
  BY <1>0, Values DEF Controller, ClearBuffers
<1>3. Drive(ClearBuffers(c))
  BY <1>0, Assumptions DEF Good, Sound, Controller, Drive, Never, Due, ClearBuffers
<1>4. Lid(ClearBuffers(c))
  BY <1>0, Assumptions DEF Good, Sound, Controller, Lid, Closing, Bits, Status, ClearBuffers
<1>5. Response(ClearBuffers(c))
  BY <1>0, Assumptions DEF Good, Sound, Controller, Response, Never, Held, Due, ClearBuffers
<1>6. Quiet(ClearBuffers(c), q)
  BY <1>0, Assumptions DEF Good, Sound, Controller, Quiet, Moment, Entered, Outside, Never,
     Held, Due, ClearBuffers
<1>7. Sectors(ClearBuffers(c))
  BY <1>0, Assumptions DEF Good, Sound, Controller, Sectors, Ring, Slot, ClearBuffers, EmptySlot
<1>8. Flow(ClearBuffers(c), n)
  BY <1>0, Assumptions DEF Good, Controller, Flow, Age, Never, ClearBuffers
<1> QED
  BY <1>0, <1>2, <1>3, <1>4, <1>5, <1>6, <1>7, <1>8 DEF Good, Sound

-----------------------------------------------------------------------------
(***************************************************************************)
(* Reading sectors.                                                        *)
(***************************************************************************)

\* The slot after a slot is a slot.
LEMMA NextSlot ==
    ASSUME NEW w \in Slots
    PROVE  (w + 1) % Buffers \in Slots
<1>1. Buffers \in Nat /\ Buffers > 1 /\ w \in Nat
  BY Assumptions DEF Slots
<1>2. (w + 1) % Buffers \in 0..Buffers - 1
  BY <1>1
<1> QED
  BY <1>2 DEF Slots

\* What reading a sector into the ring changes.
LEMMA ReadSectorIs ==
    ASSUME NEW c, NEW I, c \in Controller(I), NEW is \in {"noted", "shown"}
    PROVE  /\ ReadSector(c, is) \in Controller(I)
           /\ ReadSector(c, is).wr \in Slots
           /\ \A s \in Slots : ReadSector(c, is).ring[s].is = is <=> s = ReadSector(c, is).wr
           /\ \A s \in Slots : ReadSector(c, is).ring[s].is # is
                  => ReadSector(c, is).ring[s].is \in {c.ring[s].is, "old"}
           /\ c.setloc \/ ReadSector(c, is).ahead = c.ahead
<1> DEFINE w == (c.wr + 1) % Buffers
           r == [t \in Slots |->
                    IF t = w THEN [filled |-> TRUE, unread |-> TRUE, is |-> is]
                    ELSE IF c.ring[t].is = is THEN [c.ring[t] EXCEPT !.is = "old"] ELSE c.ring[t]]
           a == IF c.setloc /\ c.ahead \in Distances THEN c.ahead - 1 ELSE c.ahead
<1>1. c.wr \in Slots /\ c.ring \in [Slots -> Slot] /\ c.ahead \in Int
  BY DEF Controller, Ring
<1>2. w \in Slots
  BY <1>1, NextSlot
<1>3. r \in Ring
  BY <1>1 DEF Ring, Slot
<1>4. a \in Int
  BY <1>1
<1>5. ReadSector(c, is) = [c EXCEPT !.ring = r, !.wr = w, !.ahead = a]
  BY DEF ReadSector
<1>6. \A s \in Slots : r[s].is = is <=> s = w
  BY <1>1 DEF Slot
<1>7. \A s \in Slots : r[s].is # is => r[s].is \in {c.ring[s].is, "old"}
  BY <1>1 DEF Slot
<1> HIDE DEF r, w, a
<1>8. [c EXCEPT !.ring = r, !.wr = w, !.ahead = a] \in Controller(I)
  BY <1>2, <1>3, <1>4 DEF Controller
<1>9. /\ ReadSector(c, is).ring = r /\ ReadSector(c, is).wr = w /\ ReadSector(c, is).ahead = a
      /\ ReadSector(c, is).setloc = c.setloc
  BY <1>5 DEF Controller
<1>10. c.setloc \/ a = c.ahead
  BY DEF a
<1> QED
  BY <1>2, <1>5, <1>6, <1>7, <1>8, <1>9, <1>10

\* What reading a sector leaves alone.
LEMMA ReadSectorKeeps ==
    ASSUME NEW c, NEW I, c \in Controller(I), NEW is
    PROVE  LET e == ReadSector(c, is)
           IN  /\ e.flag = c.flag /\ e.latched = c.latched /\ e.hold = c.hold /\ e.istat = c.istat
               /\ e.raised = c.raised /\ e.overwrote = c.overwrote
               /\ e.pending = c.pending /\ e.queued = c.queued /\ e.stat = c.stat
               /\ e.reading = c.reading /\ e.delay = c.delay /\ e.setloc = c.setloc
               /\ e.rd = c.rd /\ e.pended = c.pended /\ e.slot = c.slot /\ e.release = c.release
               /\ e.iso = c.iso /\ e.open = c.open /\ e.close = c.close
               /\ e.shell = c.shell /\ e.lidIrq = c.lidIrq
               /\ e.blocked = c.blocked /\ e.age = c.age /\ e.budget = c.budget
               /\ e.hasty = c.hasty /\ e.fast = c.fast
BY DEF Controller, ReadSector

\* A sector read and shown at once: the guest's slot is the one just filled.
LEMMA DeliverToDmaGood ==
    ASSUME NEW c, NEW I, NEW n, NEW q, Good(c, I, n, q)
    PROVE  Good(DeliverToDma(c), I, n, q)
<1>0. c \in Controller(I) /\ I \subseteq Command /\ q \in Moment
  BY DEF Good, Sound
<1> DEFINE e == ReadSector(c, "shown")
           m == [e EXCEPT !.rd = e.wr]
<1>1. e \in Controller(I) /\ e.wr \in Slots
  BY <1>0, ReadSectorIs
<1>2. /\ \A s \in Slots : e.ring[s].is = "shown" <=> s = e.wr
      /\ \A s \in Slots : e.ring[s].is # "shown" => e.ring[s].is \in {c.ring[s].is, "old"}
      /\ c.setloc \/ e.ahead = c.ahead
  BY <1>0, ReadSectorIs
<1> HIDE DEF e
<1>3. m \in Controller(I)
  BY <1>1 DEF Controller
<1>4. /\ m.ring = e.ring /\ m.rd = e.wr /\ m.ahead = e.ahead
      /\ m.flag = c.flag /\ m.latched = c.latched /\ m.hold = c.hold
      /\ m.istat = c.istat /\ m.raised = c.raised /\ m.overwrote = c.overwrote
      /\ m.pending = c.pending /\ m.queued = c.queued /\ m.stat = c.stat
      /\ m.reading = c.reading /\ m.delay = c.delay /\ m.setloc = c.setloc
      /\ m.pended = c.pended /\ m.slot = c.slot /\ m.release = c.release
      /\ m.iso = c.iso /\ m.open = c.open /\ m.close = c.close
      /\ m.shell = c.shell /\ m.lidIrq = c.lidIrq /\ m.blocked = c.blocked
      /\ m.age = c.age /\ m.budget = c.budget /\ m.hasty = c.hasty
  <2>1. /\ m.ring = e.ring /\ m.rd = e.wr /\ m.ahead = e.ahead
        /\ m.flag = e.flag /\ m.latched = e.latched /\ m.hold = e.hold
        /\ m.istat = e.istat /\ m.raised = e.raised /\ m.overwrote = e.overwrote
        /\ m.pending = e.pending /\ m.queued = e.queued /\ m.stat = e.stat
        /\ m.reading = e.reading /\ m.delay = e.delay /\ m.setloc = e.setloc
        /\ m.pended = e.pended /\ m.slot = e.slot /\ m.release = e.release
        /\ m.iso = e.iso /\ m.open = e.open /\ m.close = e.close
        /\ m.shell = e.shell /\ m.lidIrq = e.lidIrq /\ m.blocked = e.blocked
        /\ m.age = e.age /\ m.budget = e.budget /\ m.hasty = e.hasty
    BY <1>1 DEF Controller
  <2> QED
    BY <2>1, <1>0, ReadSectorKeeps DEF e
<1> HIDE DEF m
<1>5. Drive(m)
  BY <1>4, <1>2 DEF Good, Sound, Drive
<1>6. Lid(m)
  BY <1>4 DEF Good, Sound, Lid
<1>7. Response(m)
  BY <1>4 DEF Good, Sound, Response
<1>8. Quiet(m, q)
  BY <1>4 DEF Good, Sound, Quiet
<1>9. Sectors(m)
  BY <1>4, <1>2 DEF Good, Sound, Sectors
<1>10. Flow(m, n)
  BY <1>4 DEF Good, Flow
<1>11. Good(m, I, n, q)
  BY <1>0, <1>3, <1>5, <1>6, <1>7, <1>8, <1>9, <1>10 DEF Good, Sound
<1> QED
  BY <1>11, LoadFifoGood DEF DeliverToDma, Offer, m, e

\* What showing a sector leaves alone.
LEMMA DeliverToDmaKeeps ==
    ASSUME NEW c, NEW I, c \in Controller(I)
    PROVE  LET d == DeliverToDma(c)
           IN  /\ d.flag = c.flag /\ d.reading = c.reading /\ d.hasty = c.hasty
               /\ d.pended = c.pended /\ d.release = c.release
               /\ d.lidIrq = c.lidIrq /\ d.queued = c.queued
<1> DEFINE e == ReadSector(c, "shown")
           m == [e EXCEPT !.rd = e.wr]
<1>1. e \in Controller(I) /\ e.wr \in Slots
  BY ReadSectorIs
<1>2. /\ e.flag = c.flag /\ e.reading = c.reading /\ e.hasty = c.hasty
      /\ e.pended = c.pended /\ e.release = c.release /\ e.lidIrq = c.lidIrq
      /\ e.queued = c.queued
  BY ReadSectorKeeps
<1>3. DeliverToDma(c) = LoadFifo(m, FALSE)
  BY DEF DeliverToDma, Offer
<1> HIDE DEF e
<1>4. /\ m \in Controller(I)
      /\ m.flag = e.flag /\ m.reading = e.reading /\ m.hasty = e.hasty
      /\ m.pended = e.pended /\ m.release = e.release /\ m.lidIrq = e.lidIrq
      /\ m.queued = e.queued
  BY <1>1 DEF Controller
<1> HIDE DEF m
<1>5. LET d == LoadFifo(m, FALSE)
      IN  /\ d.flag = m.flag /\ d.reading = m.reading /\ d.hasty = m.hasty
          /\ d.pended = m.pended /\ d.release = m.release /\ d.lidIrq = m.lidIrq
          /\ d.queued = m.queued
  BY <1>4 DEF Controller, LoadFifo
<1> QED
  BY <1>2, <1>3, <1>4, <1>5

\* A sector read for a pended notification: the slot noted is the one just filled.
\* Nothing is lost early when the notification it replaces waited long enough.
LEMMA DeliverPendedSound ==
    ASSUME NEW c, NEW I, NEW n, NEW q, Good(c, I, n, q),
           c.fast /\ c.mode = "data" /\ c.budget /\ c.pended => c.age >= Authentic
    PROVE  /\ Sound(DeliverPended(c), I, q)
           /\ DeliverPended(c).reading = c.reading
           /\ "data" \notin DeliverPended(c).hasty
           /\ DeliverPended(c).pended
           /\ DeliverPended(c).flag = c.flag /\ DeliverPended(c).release = c.release
           /\ DeliverPended(c).lidIrq = c.lidIrq /\ DeliverPended(c).queued = c.queued
<1>0. c \in Controller(I) /\ I \subseteq Command /\ q \in Moment
  BY DEF Good, Sound
<1> DEFINE e == ReadSector(c, "noted")
           h == IF c.fast /\ c.budget /\ c.pended /\ c.age < Authentic
                THEN c.hasty \cup {c.mode} ELSE c.hasty
<1>1. e \in Controller(I) /\ e.wr \in Slots /\ e.hasty = c.hasty
  BY <1>0, ReadSectorIs, ReadSectorKeeps
<1>2. /\ \A s \in Slots : e.ring[s].is = "noted" <=> s = e.wr
      /\ \A s \in Slots : e.ring[s].is # "noted" => e.ring[s].is \in {c.ring[s].is, "old"}
      /\ c.setloc \/ e.ahead = c.ahead
  BY <1>0, ReadSectorIs
<1>3. DeliverPended(c) = [e EXCEPT !.pended = TRUE, !.slot = e.wr, !.hasty = h]
  BY <1>1 DEF DeliverPended
<1>4. h \in Modes /\ "data" \notin h
  <2>1. c.age \in Nat /\ c.mode \in Sizes /\ c.hasty \in Modes /\ "data" \notin c.hasty
    BY <1>0, Assumptions DEF Controller, Age, Good, Flow
  <2>2. h \in Modes
    BY <2>1 DEF Modes
  <2>3. c.mode = "data" => ~(c.fast /\ c.budget /\ c.pended /\ c.age < Authentic)
    BY <2>1, Assumptions
  <2> QED
    BY <2>1, <2>2, <2>3
<1> DEFINE m == [e EXCEPT !.pended = TRUE, !.slot = e.wr, !.hasty = h]
<1> HIDE DEF e, h
<1>5. m \in Controller(I)
  BY <1>1, <1>4, Values DEF Controller
<1>6. /\ m.ring = e.ring /\ m.rd = c.rd /\ m.slot = e.wr /\ m.ahead = e.ahead
      /\ m.pended /\ "data" \notin m.hasty
      /\ m.flag = c.flag /\ m.latched = c.latched /\ m.hold = c.hold
      /\ m.istat = c.istat /\ m.raised = c.raised /\ m.overwrote = c.overwrote
      /\ m.pending = c.pending /\ m.queued = c.queued /\ m.stat = c.stat
      /\ m.reading = c.reading /\ m.delay = c.delay /\ m.setloc = c.setloc
      /\ m.release = c.release /\ m.iso = c.iso /\ m.open = c.open
      /\ m.close = c.close /\ m.shell = c.shell /\ m.lidIrq = c.lidIrq
  <2>1. /\ m.ring = e.ring /\ m.rd = e.rd /\ m.slot = e.wr /\ m.ahead = e.ahead
        /\ m.pended /\ "data" \notin m.hasty
        /\ m.flag = e.flag /\ m.latched = e.latched /\ m.hold = e.hold
        /\ m.istat = e.istat /\ m.raised = e.raised /\ m.overwrote = e.overwrote
        /\ m.pending = e.pending /\ m.queued = e.queued /\ m.stat = e.stat
        /\ m.reading = e.reading /\ m.delay = e.delay /\ m.setloc = e.setloc
        /\ m.release = e.release /\ m.iso = e.iso /\ m.open = e.open
        /\ m.close = e.close /\ m.shell = e.shell /\ m.lidIrq = e.lidIrq
    BY <1>1, <1>4 DEF Controller
  <2> QED
    BY <2>1, <1>0, ReadSectorKeeps DEF e
<1> HIDE DEF m
<1>7. Drive(m)
  BY <1>6, <1>2 DEF Good, Sound, Drive
<1>8. Lid(m)
  BY <1>6 DEF Good, Sound, Lid
<1>9. Response(m)
  BY <1>6 DEF Good, Sound, Response
<1>10. Quiet(m, q)
  BY <1>6 DEF Good, Sound, Quiet
<1>11. Sectors(m)
  BY <1>6, <1>2 DEF Good, Sound, Sectors
<1>12. Sound(m, I, q)
  BY <1>0, <1>5, <1>7, <1>8, <1>9, <1>10, <1>11 DEF Sound
<1> QED
  BY <1>3, <1>6, <1>12 DEF m

\* The pended sector becomes the one shown.
LEMMA PresentPendedGood ==
    ASSUME NEW c, NEW I, NEW n, NEW q, Good(c, I, n, q)
    PROVE  /\ Good(PresentPended(c), I, n, q)
           /\ PresentPended(c).release \in {c.release, Never}
           /\ PresentPended(c).lidIrq = c.lidIrq
<1>0. c \in Controller(I) /\ I \subseteq Command /\ q \in Moment
  BY DEF Good, Sound
<1>1. CASE ~(c.pended /\ c.flag = 0)
  BY <1>1 DEF PresentPended
<1>2. CASE c.pended /\ c.flag = 0
  <2> DEFINE r == [t \in Slots |->
                     [c.ring[t] EXCEPT !.is = IF @ = "noted" THEN "shown" ELSE "old"]]
             e == Noted(c)
             k == ClearPended(e)
             m == [k EXCEPT !.rd = c.slot]
  <2>1. c.ring \in [Slots -> Slot] /\ c.slot \in Slots
    BY <1>0 DEF Controller, Ring
  <2>2. r \in Ring
    BY <2>1 DEF Ring, Slot
  <2>3. \A s \in Slots : r[s].is = "shown" \/ r[s].is = "noted" => s = c.slot
    BY <2>1, <1>2 DEF Slot, Good, Sound, Sectors
  <2>4. e = [c EXCEPT !.ring = r]
    BY DEF Noted
  <2> HIDE DEF r, e
  <2>5. e \in Controller(I)
    BY <1>0, <2>2, <2>4 DEF Controller
  <2>6. /\ e.ring = r
        /\ e.flag = c.flag /\ e.latched = c.latched /\ e.hold = c.hold
        /\ e.istat = c.istat /\ e.raised = c.raised /\ e.overwrote = c.overwrote
        /\ e.pending = c.pending /\ e.queued = c.queued /\ e.stat = c.stat
        /\ e.reading = c.reading /\ e.delay = c.delay /\ e.setloc = c.setloc
        /\ e.release = c.release /\ e.iso = c.iso /\ e.open = c.open
        /\ e.close = c.close /\ e.shell = c.shell /\ e.lidIrq = c.lidIrq
        /\ e.slot = c.slot /\ e.hasty = c.hasty
    BY <1>0, <2>4 DEF Controller
  <2>7. m \in Controller(I)
    BY <2>5, <2>1, Values DEF Controller, ClearPended
  <2>8. /\ m.ring = r /\ m.rd = c.slot /\ ~m.pended /\ m.release = Never /\ m.ahead = c.ahead
        /\ m.flag = c.flag /\ m.latched = c.latched /\ m.hold = c.hold
        /\ m.istat = c.istat /\ m.raised = c.raised /\ m.overwrote = c.overwrote
        /\ m.pending = c.pending /\ m.queued = c.queued /\ m.stat = c.stat
        /\ m.reading = c.reading /\ m.delay = c.delay /\ m.setloc = c.setloc
        /\ m.iso = c.iso /\ m.open = c.open /\ m.close = c.close
        /\ m.shell = c.shell /\ m.lidIrq = c.lidIrq /\ m.hasty = c.hasty
    <3>1. m.ahead = e.ahead /\ e.ahead = c.ahead
      BY <1>0, <2>4, <2>5 DEF Controller, ClearPended
    <3>2. /\ m.ring = e.ring /\ m.rd = c.slot /\ ~m.pended /\ m.release = Never
          /\ m.flag = e.flag /\ m.latched = e.latched /\ m.hold = e.hold
          /\ m.istat = e.istat /\ m.raised = e.raised /\ m.overwrote = e.overwrote
          /\ m.pending = e.pending /\ m.queued = e.queued /\ m.stat = e.stat
          /\ m.reading = e.reading /\ m.delay = e.delay /\ m.setloc = e.setloc
          /\ m.iso = e.iso /\ m.open = e.open /\ m.close = e.close
          /\ m.shell = e.shell /\ m.lidIrq = e.lidIrq /\ m.hasty = e.hasty
      BY <2>5 DEF Controller, ClearPended
    <3> QED
      BY <3>1, <3>2, <2>6
  <2>10. PresentPended(c) = Respond(LoadFifo(m, FALSE), DataReady)
    BY <1>2 DEF PresentPended, Offer, e
  <2> HIDE DEF k, m
  <2>11. Drive(m)
    BY <2>8 DEF Good, Sound, Drive
  <2>12. Lid(m)
    BY <2>8 DEF Good, Sound, Lid
  <2>13. Response(m)
    BY <2>8, <1>0 DEF Good, Sound, Response, Controller, Held, Never
  <2>14. Quiet(m, q)
    BY <2>8 DEF Good, Sound, Quiet
  <2>15. Sectors(m)
    BY <2>8, <2>3 DEF Sectors
  <2>16. Flow(m, n)
    BY <2>8 DEF Good, Flow, Never
  <2>17. Good(m, I, n, q)
    BY <1>0, <2>7, <2>11, <2>12, <2>13, <2>14, <2>15, <2>16 DEF Good, Sound
  <2>18. Good(LoadFifo(m, FALSE), I, n, q)
    BY <2>17, LoadFifoGood
  <2>19. /\ LoadFifo(m, FALSE).flag = 0
         /\ LoadFifo(m, FALSE).release = Never
         /\ LoadFifo(m, FALSE).lidIrq = c.lidIrq
    BY <2>7, <2>8, <1>2 DEF Controller, LoadFifo
  <2> QED
    <3>1. DataReady \in {DataReady, Complete, Acknowledge, Error}
      OBVIOUS
    <3>2. /\ Good(Respond(LoadFifo(m, FALSE), DataReady), I, n, q)
          /\ Respond(LoadFifo(m, FALSE), DataReady).release = Never
          /\ Respond(LoadFifo(m, FALSE), DataReady).lidIrq = c.lidIrq
      BY <2>18, <2>19, <3>1, RespondGood
    <3> QED
      BY <3>2, <2>10
<1> QED
  BY <1>1, <1>2

-----------------------------------------------------------------------------
(***************************************************************************)
(* The sector stream.                                                      *)
(***************************************************************************)

\* The drive turns on to the next sector.
LEMMA NextSectorSound ==
    ASSUME NEW c, NEW I, NEW q, NEW d \in Nat, Sound(c, I, q),
           d > 0, c.reading
    PROVE  Sound([c EXCEPT !.blocked = 0, !.age = 0, !.budget = TRUE, !.delay = d], I, q)
<1>0. c \in Controller(I) /\ I \subseteq Command /\ q \in Moment
  BY DEF Sound
<1>2. [c EXCEPT !.blocked = 0, !.age = 0, !.budget = TRUE, !.delay = d] \in Controller(I)
  BY <1>0, Values DEF Controller, Sound
<1>3. Drive([c EXCEPT !.blocked = 0, !.age = 0, !.budget = TRUE, !.delay = d])
  BY <1>0, Assumptions DEF Sound, Controller, Drive, Never, Due
<1>4. Lid([c EXCEPT !.blocked = 0, !.age = 0, !.budget = TRUE, !.delay = d])
  BY <1>0, Assumptions DEF Sound, Controller, Lid, Closing, Bits, Status
<1>5. Response([c EXCEPT !.blocked = 0, !.age = 0, !.budget = TRUE, !.delay = d])
  BY <1>0, Assumptions DEF Sound, Controller, Response, Never, Held, Due
<1>6. Quiet([c EXCEPT !.blocked = 0, !.age = 0, !.budget = TRUE, !.delay = d], q)
  BY <1>0, Assumptions DEF Sound, Controller, Quiet, Moment, Entered, Outside, Never, Held, Due
<1>7. Sectors([c EXCEPT !.blocked = 0, !.age = 0, !.budget = TRUE, !.delay = d])
  BY <1>0, Assumptions DEF Sound, Controller, Sectors, Ring, Slot
<1> QED
  BY <1>0, <1>2, <1>3, <1>4, <1>5, <1>6, <1>7 DEF Sound

\* The drive waits for its guest.
LEMMA WaitGood ==
    ASSUME NEW c, NEW I, NEW n, NEW q, Good(c, I, n, q),
           c.release # 0
    PROVE  Good([c EXCEPT !.blocked = @ + n], I, 0, q)
<1>0. c \in Controller(I) /\ I \subseteq Command /\ q \in Moment
  BY DEF Good, Sound
<1>1. c.blocked + n \in Nat
  BY <1>0 DEF Controller, Good, Flow
<1>2. [c EXCEPT !.blocked = @ + n] \in Controller(I)
  BY <1>0, <1>1, Values DEF Controller, Sound
<1>3. Drive([c EXCEPT !.blocked = @ + n])
  BY <1>0, <1>1, Assumptions DEF Good, Sound, Controller, Drive, Never, Due
<1>4. Lid([c EXCEPT !.blocked = @ + n])
  BY <1>0, <1>1, Assumptions DEF Good, Sound, Controller, Lid, Closing, Bits, Status
<1>5. Response([c EXCEPT !.blocked = @ + n])
  BY <1>0, <1>1, Assumptions DEF Good, Sound, Controller, Response, Never, Held, Due
<1>6. Quiet([c EXCEPT !.blocked = @ + n], q)
  BY <1>0, <1>1, Assumptions DEF Good, Sound, Controller, Quiet, Moment, Entered, Outside,
     Never, Held, Due
<1>7. Sectors([c EXCEPT !.blocked = @ + n])
  BY <1>0, <1>1, Assumptions DEF Good, Sound, Controller, Sectors, Ring, Slot
<1>8. Flow([c EXCEPT !.blocked = @ + n], 0)
  BY <1>0, <1>1, Assumptions DEF Good, Controller, Flow, Age, Never, Sound
<1> QED
  BY <1>0, <1>2, <1>3, <1>4, <1>5, <1>6, <1>7, <1>8 DEF Good, Sound

\* The drive turns towards the next sector.
LEMMA TurnGood ==
    ASSUME NEW c, NEW I, NEW n, NEW q, NEW d \in Nat, Good(c, I, n, q),
           d > 0, c.reading, c.release # 0
    PROVE  Good([c EXCEPT !.delay = d], I, 0, q)
<1>0. c \in Controller(I) /\ I \subseteq Command /\ q \in Moment
  BY DEF Good, Sound
<1>1. c.blocked \in Nat
  BY <1>0 DEF Controller
<1>2. [c EXCEPT !.delay = d] \in Controller(I)
  BY <1>0, <1>1, Values DEF Controller, Sound
<1>3. Drive([c EXCEPT !.delay = d])
  BY <1>0, <1>1, Assumptions DEF Good, Sound, Controller, Drive, Never, Due
<1>4. Lid([c EXCEPT !.delay = d])
  BY <1>0, <1>1, Assumptions DEF Good, Sound, Controller, Lid, Closing, Bits, Status
<1>5. Response([c EXCEPT !.delay = d])
  BY <1>0, <1>1, Assumptions DEF Good, Sound, Controller, Response, Never, Held, Due
<1>6. Quiet([c EXCEPT !.delay = d], q)
  BY <1>0, <1>1, Assumptions DEF Good, Sound, Controller, Quiet, Moment, Entered, Outside,
     Never, Held, Due
<1>7. Sectors([c EXCEPT !.delay = d])
  BY <1>0, <1>1, Assumptions DEF Good, Sound, Controller, Sectors, Ring, Slot
<1>8. Flow([c EXCEPT !.delay = d], 0)
  BY <1>0, <1>1, Assumptions DEF Good, Controller, Flow, Age, Never, Sound
<1> QED
  BY <1>0, <1>2, <1>3, <1>4, <1>5, <1>6, <1>7, <1>8 DEF Good, Sound

\* The accelerated and the authentic delays are positive.
LEMMA ScaledPositive ==
    ASSUME NEW c, NEW d \in Nat \ {0}
    PROVE  Scaled(c, d) \in Nat \ {0}
BY Assumptions DEF Scaled

\* The disc turns for the n cycles that have passed.
LEMMA ReadStreamGood ==
    ASSUME NEW c, NEW I, NEW n, NEW q, Good(c, I, n, q), c.release # 0
    PROVE  /\ Good(ReadStream(c, n), I, 0, q)
           /\ ReadStream(c, n).release = c.release
           /\ c.flag # 0 => ReadStream(c, n).flag = c.flag
           /\ c.pended => ReadStream(c, n).pended
<1>0. c \in Controller(I) /\ n \in Nat /\ c.delay \in Nat /\ c.blocked \in Nat /\ c.age \in Nat
  BY Assumptions DEF Good, Sound, Flow, Controller, Age
<1>1. CASE ~c.reading
  <2>1. ReadStream(c, n) = c
    BY <1>1 DEF ReadStream
  <2>2. Flow(c, 0)
    BY <1>0 DEF Good, Flow
  <2> QED
    BY <2>1, <2>2 DEF Good
<1>2. CASE c.reading /\ ConsumerBlocked(c) /\ c.blocked < Authentic
  <2>1. ReadStream(c, n) = [c EXCEPT !.blocked = @ + n]
    BY <1>2 DEF ReadStream
  <2>2. Good([c EXCEPT !.blocked = @ + n], I, 0, q)
    BY WaitGood
  <2> QED
    BY <1>0, <2>1, <2>2 DEF Controller
<1>3. CASE c.reading /\ ~(ConsumerBlocked(c) /\ c.blocked < Authentic)
  <2> DEFINE left == c.delay - n
             next == left + Scaled(c, Authentic)
             d == IF next > 0 THEN next ELSE Scaled(c, Authentic)
  <2>1. left \in Int /\ Scaled(c, Authentic) \in Nat \ {0}
    BY <1>0, ScaledPositive, Assumptions
  <2>2. d \in Nat /\ d > 0
    BY <2>1
  <2>3. CASE left > 0
    <3>1. ReadStream(c, n) = [c EXCEPT !.delay = left]
      BY <1>3, <2>3 DEF ReadStream
    <3>2. left \in Nat
      BY <2>1, <2>3
    <3>3. Good([c EXCEPT !.delay = left], I, 0, q)
      BY <1>3, <2>3, <3>2, TurnGood
    <3> QED
      BY <1>0, <3>1, <3>3 DEF Controller
  <2>4. CASE ~(left > 0)
    <3>1. c.fast /\ c.mode = "data" /\ c.budget /\ c.pended => c.age >= Authentic
      <4>1. c.fast /\ c.mode = "data" /\ c.pended => c.blocked >= Authentic
        BY <1>0, <1>3, Assumptions DEF ConsumerBlocked
      <4>2. c.pended /\ c.budget => c.age >= c.blocked + n \/ c.age = Authentic
        BY DEF Good, Flow
      <4> QED
        BY <1>0, <4>1, <4>2, Assumptions
    <3>2. PICK e : e = IF c.flag = 0 THEN DeliverSector(c)
                       ELSE IF c.dma THEN DeliverToDma(c) ELSE DeliverPended(c)
      OBVIOUS
    <3>3. ReadStream(c, n) = [e EXCEPT !.blocked = 0, !.age = 0, !.budget = TRUE, !.delay = d]
      BY <1>3, <2>4, <3>2, Zenon DEF ReadStream
    <3>4. /\ Sound(e, I, q) /\ e.reading /\ "data" \notin e.hasty
          /\ e.release = c.release
          /\ c.flag # 0 => e.flag = c.flag
          /\ c.pended => e.pended
      <4>0. "data" \notin c.hasty
        BY DEF Good, Flow
      <4>1. CASE c.flag = 0
        <5>1. DeliverSector(c) = Respond(DeliverToDma(c), DataReady)
          BY DEF DeliverSector, DeliverToDma
        <5>2. /\ Good(DeliverToDma(c), I, n, q) /\ DeliverToDma(c).flag = 0
              /\ DeliverToDma(c).reading = c.reading /\ DeliverToDma(c).hasty = c.hasty
              /\ DeliverToDma(c).pended = c.pended /\ DeliverToDma(c).release = c.release
          BY <1>0, <4>1, DeliverToDmaGood, DeliverToDmaKeeps
        <5>3. PICK g : g = DeliverToDma(c)
          OBVIOUS
        <5>4. Good(g, I, n, q) /\ g.flag = 0
          BY <5>2, <5>3
        <5>5. DataReady \in {DataReady, Complete, Acknowledge, Error}
          OBVIOUS
        <5>6. /\ Good(Respond(g, DataReady), I, n, q)
              /\ Respond(g, DataReady).release = g.release
              /\ Respond(g, DataReady).pended = g.pended
          BY <5>4, <5>5, RespondGood
        <5>7. g \in Controller(I)
          BY <5>4 DEF Good, Sound
        <5>8. Respond(g, DataReady) = SetIrq(g, DataReady)
          BY <5>7, RespondIs
        <5>9. SetIrq(g, DataReady).reading = g.reading /\ SetIrq(g, DataReady).hasty = g.hasty
          BY <5>7 DEF Controller, SetIrq
        <5> QED
          BY <1>3, <3>2, <4>0, <4>1, <5>1, <5>2, <5>3, <5>6, <5>8, <5>9 DEF Good
      <4>2. CASE c.flag # 0 /\ c.dma
        BY <1>0, <1>3, <3>2, <4>0, <4>2, DeliverToDmaGood, DeliverToDmaKeeps DEF Good
      <4>3. CASE c.flag # 0 /\ ~c.dma
        BY <1>3, <3>1, <3>2, <4>3, DeliverPendedSound
      <4> QED
        BY <4>1, <4>2, <4>3
    <3>5. Sound([e EXCEPT !.blocked = 0, !.age = 0, !.budget = TRUE, !.delay = d], I, q)
      BY <2>2, <3>4, NextSectorSound
    <3>6. e \in Controller(I)
      BY <3>4 DEF Sound
    <3> HIDE DEF d
    <3>7. PICK m : m = [e EXCEPT !.blocked = 0, !.age = 0, !.budget = TRUE, !.delay = d]
      OBVIOUS
    <3>8. /\ m.blocked = 0 /\ m.age = 0 /\ m.hasty = e.hasty
          /\ m.release = e.release /\ m.flag = e.flag /\ m.pended = e.pended
      BY <3>6, <3>7 DEF Controller
    <3>9. Flow(m, 0)
      BY <3>4, <3>8 DEF Flow
    <3> QED
      BY <3>3, <3>4, <3>5, <3>7, <3>8, <3>9 DEF Good
  <2> QED
    BY <2>3, <2>4
<1> QED
  BY <1>1, <1>2, <1>3

\* The drive starts on a disc in a closed tray.
LEMMA StartReadGood ==
    ASSUME NEW c, NEW I, NEW n, NEW q, Good(c, I, n, q),
           HasDisc(c)
    PROVE  Good(StartRead(c), I, n, q)
<1>0. c \in Controller(I) /\ I \subseteq Command /\ q \in Moment
  BY DEF Good, Sound
<1>1. Scaled(c, FirstSector) \in Nat \ {0} /\ (c.stat \ {"PLAY"}) \cup {"READ"} \in Bits
  BY <1>0, Assumptions, ScaledPositive DEF Controller, Bits, Status
<1>2. StartRead(c) \in Controller(I)
  BY <1>0, <1>1, Values DEF Controller, StartRead, ClearPended, ClearBuffers
<1>3. Drive(StartRead(c))
  BY <1>0, <1>1, Assumptions DEF Good, Sound, Controller, Drive, Never, Due, StartRead,
     ClearPended, ClearBuffers, HasDisc
<1>4. Lid(StartRead(c))
  BY <1>0, <1>1, Assumptions DEF Good, Sound, Controller, Lid, Closing, Bits, Status, StartRead,
     ClearPended, ClearBuffers
<1>5. Response(StartRead(c))
  BY <1>0, <1>1, Assumptions DEF Good, Sound, Controller, Response, Never, Held, Due, StartRead,
     ClearPended, ClearBuffers
<1>6. Quiet(StartRead(c), q)
  BY <1>0, <1>1, Assumptions DEF Good, Sound, Controller, Quiet, Moment, Entered, Outside,
     Never, Held, Due, StartRead, ClearPended, ClearBuffers
<1>7. Sectors(StartRead(c))
  BY <1>0, <1>1, Assumptions DEF Good, Sound, Controller, Sectors, Ring, Slot, StartRead,
     ClearPended, ClearBuffers, EmptySlot
<1>8. Flow(StartRead(c), n)
  BY <1>0, <1>1, Assumptions DEF Good, Controller, Flow, Age, Never, StartRead, ClearPended,
     ClearBuffers
<1> QED
  BY <1>0, <1>2, <1>3, <1>4, <1>5, <1>6, <1>7, <1>8 DEF Good, Sound

-----------------------------------------------------------------------------
(***************************************************************************)
(* Commands.                                                               *)
(***************************************************************************)

\* A new status that agrees with the lid.
LEMMA StatusGood ==
    ASSUME NEW c, NEW I, NEW n, NEW q, NEW S, Good(c, I, n, q),
           Agrees(c, S)
    PROVE  Good([c EXCEPT !.stat = S], I, n, q)
<1>0. c \in Controller(I) /\ I \subseteq Command /\ q \in Moment
  BY DEF Good, Sound
<1>1. S \in Bits
  BY DEF Agrees
<1>2. [c EXCEPT !.stat = S] \in Controller(I)
  BY <1>0, <1>1, Values DEF Controller, Sound
<1>3. Drive([c EXCEPT !.stat = S])
  BY <1>0, <1>1, Assumptions DEF Good, Sound, Controller, Drive, Never, Due
<1>4. Lid([c EXCEPT !.stat = S])
  BY <1>0, <1>1, Assumptions DEF Good, Sound, Controller, Lid, Closing, Bits, Status, Agrees
<1>5. Response([c EXCEPT !.stat = S])
  BY <1>0, <1>1, Assumptions DEF Good, Sound, Controller, Response, Never, Held, Due
<1>6. Quiet([c EXCEPT !.stat = S], q)
  BY <1>0, <1>1, Assumptions DEF Good, Sound, Controller, Quiet, Moment, Entered, Outside,
     Never, Held, Due
<1>7. Sectors([c EXCEPT !.stat = S])
  BY <1>0, <1>1, Assumptions DEF Good, Sound, Controller, Sectors, Ring, Slot
<1>8. Flow([c EXCEPT !.stat = S], n)
  BY <1>0, <1>1, Assumptions DEF Good, Controller, Flow, Age, Never, Sound
<1> QED
  BY <1>0, <1>2, <1>3, <1>4, <1>5, <1>6, <1>7, <1>8 DEF Good, Sound

\* A new status, and the position the last Setloc named is reached.
LEMMA SeekTargetGood ==
    ASSUME NEW c, NEW I, NEW n, NEW q, NEW S, Good(c, I, n, q),
           Agrees(c, S)
    PROVE  Good([c EXCEPT !.ahead = 0, !.stat = S], I, n, q)
<1>0. c \in Controller(I) /\ I \subseteq Command /\ q \in Moment
  BY DEF Good, Sound
<1>1. S \in Bits
  BY DEF Agrees
<1>2. [c EXCEPT !.ahead = 0, !.stat = S] \in Controller(I)
  BY <1>0, <1>1, Values DEF Controller, Sound
<1>3. Drive([c EXCEPT !.ahead = 0, !.stat = S])
  BY <1>0, <1>1, Assumptions DEF Good, Sound, Controller, Drive, Never, Due
<1>4. Lid([c EXCEPT !.ahead = 0, !.stat = S])
  BY <1>0, <1>1, Assumptions DEF Good, Sound, Controller, Lid, Closing, Bits, Status, Agrees
<1>5. Response([c EXCEPT !.ahead = 0, !.stat = S])
  BY <1>0, <1>1, Assumptions DEF Good, Sound, Controller, Response, Never, Held, Due
<1>6. Quiet([c EXCEPT !.ahead = 0, !.stat = S], q)
  BY <1>0, <1>1, Assumptions DEF Good, Sound, Controller, Quiet, Moment, Entered, Outside,
     Never, Held, Due
<1>7. Sectors([c EXCEPT !.ahead = 0, !.stat = S])
  BY <1>0, <1>1, Assumptions DEF Good, Sound, Controller, Sectors, Ring, Slot
<1>8. Flow([c EXCEPT !.ahead = 0, !.stat = S], n)
  BY <1>0, <1>1, Assumptions DEF Good, Controller, Flow, Age, Never, Sound
<1> QED
  BY <1>0, <1>2, <1>3, <1>4, <1>5, <1>6, <1>7, <1>8 DEF Good, Sound

\* GetStat reports the shell bit of a closed tray for the last time.
LEMMA ShellGood ==
    ASSUME NEW c, NEW I, NEW n, NEW q, Good(c, I, n, q),
           c.shell /\ ~c.open
    PROVE  Good([c EXCEPT !.shell = FALSE, !.stat = @ \ {"SHELL"}], I, n, q)
<1>0. c \in Controller(I) /\ I \subseteq Command /\ q \in Moment
  BY DEF Good, Sound
<1>1. c.stat \ {"SHELL"} \in Bits
  BY <1>0 DEF Controller, Bits
<1>2. [c EXCEPT !.shell = FALSE, !.stat = @ \ {"SHELL"}] \in Controller(I)
  BY <1>0, <1>1, Values DEF Controller, Sound
<1>3. Drive([c EXCEPT !.shell = FALSE, !.stat = @ \ {"SHELL"}])
  BY <1>0, <1>1, Assumptions DEF Good, Sound, Controller, Drive, Never, Due
<1>4. Lid([c EXCEPT !.shell = FALSE, !.stat = @ \ {"SHELL"}])
  BY <1>0, <1>1, Assumptions DEF Good, Sound, Controller, Lid, Closing, Bits, Status
<1>5. Response([c EXCEPT !.shell = FALSE, !.stat = @ \ {"SHELL"}])
  BY <1>0, <1>1, Assumptions DEF Good, Sound, Controller, Response, Never, Held, Due
<1>6. Quiet([c EXCEPT !.shell = FALSE, !.stat = @ \ {"SHELL"}], q)
  BY <1>0, <1>1, Assumptions DEF Good, Sound, Controller, Quiet, Moment, Entered, Outside,
     Never, Held, Due
<1>7. Sectors([c EXCEPT !.shell = FALSE, !.stat = @ \ {"SHELL"}])
  BY <1>0, <1>1, Assumptions DEF Good, Sound, Controller, Sectors, Ring, Slot
<1>8. Flow([c EXCEPT !.shell = FALSE, !.stat = @ \ {"SHELL"}], n)
  BY <1>0, <1>1, Assumptions DEF Good, Controller, Flow, Age, Never, Sound
<1> QED
  BY <1>0, <1>2, <1>3, <1>4, <1>5, <1>6, <1>7, <1>8 DEF Good, Sound

\* A position is set.
LEMMA AimGood ==
    ASSUME NEW c, NEW I, NEW n, NEW q, NEW to \in Int, Good(c, I, n, q)
    PROVE  Good([c EXCEPT !.ahead = to, !.setloc = TRUE], I, n, q)
<1>0. c \in Controller(I) /\ I \subseteq Command /\ q \in Moment
  BY DEF Good, Sound
<1>2. [c EXCEPT !.ahead = to, !.setloc = TRUE] \in Controller(I)
  BY <1>0, Values DEF Controller, Sound
<1>3. Drive([c EXCEPT !.ahead = to, !.setloc = TRUE])
  BY <1>0, Assumptions DEF Good, Sound, Controller, Drive, Never, Due
<1>4. Lid([c EXCEPT !.ahead = to, !.setloc = TRUE])
  BY <1>0, Assumptions DEF Good, Sound, Controller, Lid, Closing, Bits, Status
<1>5. Response([c EXCEPT !.ahead = to, !.setloc = TRUE])
  BY <1>0, Assumptions DEF Good, Sound, Controller, Response, Never, Held, Due
<1>6. Quiet([c EXCEPT !.ahead = to, !.setloc = TRUE], q)
  BY <1>0, Assumptions DEF Good, Sound, Controller, Quiet, Moment, Entered, Outside, Never,
     Held, Due
<1>7. Sectors([c EXCEPT !.ahead = to, !.setloc = TRUE])
  BY <1>0, Assumptions DEF Good, Sound, Controller, Sectors, Ring, Slot
<1>8. Flow([c EXCEPT !.ahead = to, !.setloc = TRUE], n)
  BY <1>0, Assumptions DEF Good, Controller, Flow, Age, Never, Sound
<1> QED
  BY <1>0, <1>2, <1>3, <1>4, <1>5, <1>6, <1>7, <1>8 DEF Good, Sound

\* The stream goes on from where it is.
LEMMA ContinueGood ==
    ASSUME NEW c, NEW I, NEW n, NEW q, Good(c, I, n, q)
    PROVE  Good([c EXCEPT !.setloc = FALSE, !.ahead = 0], I, n, q)
<1>0. c \in Controller(I) /\ I \subseteq Command /\ q \in Moment
  BY DEF Good, Sound
<1>2. [c EXCEPT !.setloc = FALSE, !.ahead = 0] \in Controller(I)
  BY <1>0, Values DEF Controller, Sound
<1>3. Drive([c EXCEPT !.setloc = FALSE, !.ahead = 0])
  BY <1>0, Assumptions DEF Good, Sound, Controller, Drive, Never, Due
<1>4. Lid([c EXCEPT !.setloc = FALSE, !.ahead = 0])
  BY <1>0, Assumptions DEF Good, Sound, Controller, Lid, Closing, Bits, Status
<1>5. Response([c EXCEPT !.setloc = FALSE, !.ahead = 0])
  BY <1>0, Assumptions DEF Good, Sound, Controller, Response, Never, Held, Due
<1>6. Quiet([c EXCEPT !.setloc = FALSE, !.ahead = 0], q)
  BY <1>0, Assumptions DEF Good, Sound, Controller, Quiet, Moment, Entered, Outside, Never,
     Held, Due
<1>7. Sectors([c EXCEPT !.setloc = FALSE, !.ahead = 0])
  BY <1>0, Assumptions DEF Good, Sound, Controller, Sectors, Ring, Slot
<1>8. Flow([c EXCEPT !.setloc = FALSE, !.ahead = 0], n)
  BY <1>0, Assumptions DEF Good, Controller, Flow, Age, Never, Sound
<1> QED
  BY <1>0, <1>2, <1>3, <1>4, <1>5, <1>6, <1>7, <1>8 DEF Good, Sound

\* A second response is armed or cancelled.
LEMMA PendingGood ==
    ASSUME NEW c, NEW I, NEW n, NEW q, NEW p \in Pending, Good(c, I, n, q),
           p.op = "none" => p.left = 0
    PROVE  Good([c EXCEPT !.pending = p], I, n, q)
<1>0. c \in Controller(I) /\ I \subseteq Command /\ q \in Moment
  BY DEF Good, Sound
<1>2. [c EXCEPT !.pending = p] \in Controller(I)
  BY <1>0, Values DEF Controller, Sound
<1>3. Drive([c EXCEPT !.pending = p])
  BY <1>0, Assumptions DEF Good, Sound, Controller, Drive, Never, Due
<1>4. Lid([c EXCEPT !.pending = p])
  BY <1>0, Assumptions DEF Good, Sound, Controller, Lid, Closing, Bits, Status
<1>5. Response([c EXCEPT !.pending = p])
  BY <1>0, Assumptions DEF Good, Sound, Controller, Response, Never, Held, Due
<1>6. Quiet([c EXCEPT !.pending = p], q)
  BY <1>0, Assumptions DEF Good, Sound, Controller, Quiet, Moment, Entered, Outside, Never,
     Held, Due
<1>7. Sectors([c EXCEPT !.pending = p])
  BY <1>0, Assumptions DEF Good, Sound, Controller, Sectors, Ring, Slot
<1>8. Flow([c EXCEPT !.pending = p], n)
  BY <1>0, Assumptions DEF Good, Controller, Flow, Age, Never, Sound
<1> QED
  BY <1>0, <1>2, <1>3, <1>4, <1>5, <1>6, <1>7, <1>8 DEF Good, Sound

\* A command waits in the queue, or leaves it.
LEMMA QueueGood ==
    ASSUME NEW c, NEW I, NEW n, NEW q, NEW w \in Queued(I), Good(c, I, n, q)
    PROVE  Good([c EXCEPT !.queued = w], I, n, q)
<1>0. c \in Controller(I) /\ I \subseteq Command /\ q \in Moment
  BY DEF Good, Sound
<1>2. [c EXCEPT !.queued = w] \in Controller(I)
  BY <1>0, Values DEF Controller, Sound
<1>3. Drive([c EXCEPT !.queued = w])
  BY <1>0, Assumptions DEF Good, Sound, Controller, Drive, Never, Due
<1>4. Lid([c EXCEPT !.queued = w])
  BY <1>0, Assumptions DEF Good, Sound, Controller, Lid, Closing, Bits, Status
<1>5. Response([c EXCEPT !.queued = w])
  BY <1>0, Assumptions DEF Good, Sound, Controller, Response, Never, Held, Due
<1>6. Quiet([c EXCEPT !.queued = w], q)
  BY <1>0, Assumptions DEF Good, Sound, Controller, Quiet, Moment, Entered, Outside, Never,
     Held, Due
<1>7. Sectors([c EXCEPT !.queued = w])
  BY <1>0, Assumptions DEF Good, Sound, Controller, Sectors, Ring, Slot
<1>8. Flow([c EXCEPT !.queued = w], n)
  BY <1>0, Assumptions DEF Good, Controller, Flow, Age, Never, Sound
<1> QED
  BY <1>0, <1>2, <1>3, <1>4, <1>5, <1>6, <1>7, <1>8 DEF Good, Sound

\* What stopping the drive leaves alone.
LEMMA StopReadKeeps ==
    ASSUME NEW c, NEW I, c \in Controller(I)
    PROVE  /\ StopRead(c).flag = c.flag /\ StopRead(c).stat = c.stat
           /\ StopRead(c).open = c.open /\ StopRead(c).iso = c.iso
           /\ StopRead(c).shell = c.shell /\ StopRead(c).stat \in Bits
BY DEF Controller, StopRead, ClearPended

\* The first response of a command, alone or with a second one to come.
LEMMA AnswerGood ==
    ASSUME NEW c, NEW I, NEW n, NEW q, Good(c, I, n, q), c.flag = 0
    PROVE  /\ Good(Respond(c, Acknowledge), I, n, q)
           /\ Respond(c, Acknowledge).flag \in {Acknowledge, Error}
           /\ Good(Respond(c, Error), I, n, q)
           /\ Respond(c, Error).flag \in {Acknowledge, Error}
<1>1. /\ Acknowledge \in {DataReady, Complete, Acknowledge, Error}
      /\ Error \in {DataReady, Complete, Acknowledge, Error}
  OBVIOUS
<1> QED
  BY <1>1, RespondGood

\* A first response with the second one armed.
LEMMA TwoPhaseAckGood ==
    ASSUME NEW c, NEW I, NEW n, NEW q, Good(c, I, n, q), c.flag = 0,
           NEW op \in TwoPhase, NEW d \in Nat
    PROVE  /\ Good(TwoPhaseAck(c, op, d), I, n, q)
           /\ TwoPhaseAck(c, op, d).flag \in {Acknowledge, Error}
<1>1. PICK e : e = Respond(c, Acknowledge)
  OBVIOUS
<1>2. Good(e, I, n, q) /\ e.flag \in {Acknowledge, Error}
  BY <1>1, AnswerGood
<1>3. PICK p : p = [op |-> op, left |-> d]
  OBVIOUS
<1>4. p \in Pending /\ p.op # "none"
  BY <1>3 DEF Pending, TwoPhase
<1>5. Good([e EXCEPT !.pending = p], I, n, q)
  BY <1>2, <1>4, PendingGood
<1>6. [e EXCEPT !.pending = p].flag = e.flag
  BY <1>2 DEF Good, Sound, Controller
<1> QED
  BY <1>1, <1>2, <1>3, <1>5, <1>6 DEF TwoPhaseAck, Arm

\* The first response after a change of status.
LEMMA StatusAnswer ==
    ASSUME NEW c, NEW I, NEW n, NEW q, Good(c, I, n, q), c.flag = 0, NEW S, Agrees(c, S)
    PROVE  /\ Good([c EXCEPT !.stat = S], I, n, q) /\ [c EXCEPT !.stat = S].flag = 0
           /\ Good([c EXCEPT !.ahead = 0, !.stat = S], I, n, q)
           /\ [c EXCEPT !.ahead = 0, !.stat = S].flag = 0
<1>1. c \in Controller(I)
  BY DEF Good, Sound
<1> QED
  BY <1>1, StatusGood, SeekTargetGood DEF Controller

\* GetStat.
LEMMA GetStatGood ==
    ASSUME NEW c, NEW I, NEW n, NEW q, Good(c, I, n, q), c.flag = 0
    PROVE  /\ Good(GetStat(c), I, n, q)
           /\ GetStat(c).flag \in {Acknowledge, Error}
<1>0. /\ c \in Controller(I) /\ c.stat \in Bits
      /\ "ERROR" \in c.stat => "SHELL" \in c.stat
      /\ "ERROR" \in c.stat /\ ~c.open => ~c.iso /\ ~c.shell
  BY DEF Good, Sound, Lid, Controller
<1>1. PICK S : S = c.stat \cup {IF HasDisc(c) THEN "MOTOR" ELSE "SHELL"}
  OBVIOUS
<1>2. Agrees(c, S)
  BY <1>0, <1>1 DEF Agrees, Bits, Status
<1>3. PICK e : e = [c EXCEPT !.stat = S]
  OBVIOUS
<1>4. Good(e, I, n, q) /\ e.flag = 0
  BY <1>2, <1>3, StatusAnswer
<1>5. CASE c.shell /\ ~c.open
  <2>1. e \in Controller(I) /\ e.shell /\ ~e.open
    BY <1>0, <1>3, <1>4, <1>5 DEF Controller, Good, Sound
  <2>2. PICK f : f = [e EXCEPT !.shell = FALSE, !.stat = @ \ {"SHELL"}]
    OBVIOUS
  <2>3. Good(f, I, n, q)
    BY <1>4, <2>1, <2>2, ShellGood
  <2>4. f.flag = 0
    BY <1>4, <2>1, <2>2 DEF Controller
  <2>5. GetStat(c) = Respond(f, Acknowledge)
    BY <1>1, <1>3, <1>5, <2>2 DEF GetStat
  <2> QED
    BY <2>3, <2>4, <2>5, AnswerGood
<1>6. CASE ~(c.shell /\ ~c.open)
  <2>1. GetStat(c) = Respond(e, Acknowledge)
    BY <1>1, <1>3, <1>6 DEF GetStat
  <2> QED
    BY <1>4, <2>1, AnswerGood
<1> QED
  BY <1>5, <1>6

\* Setloc.
LEMMA SetlocGood ==
    ASSUME NEW c, NEW I, NEW n, NEW q, Good(c, I, n, q), c.flag = 0, NEW to \in Int
    PROVE  /\ Good(Setloc(c, to), I, n, q)
           /\ Setloc(c, to).flag \in {Acknowledge, Error}
<1>1. PICK e : e = [c EXCEPT !.ahead = to, !.setloc = TRUE]
  OBVIOUS
<1>2. Good(e, I, n, q) /\ e.flag = 0
  <2>1. Good(e, I, n, q)
    BY <1>1, AimGood
  <2>2. c \in Controller(I)
    BY DEF Good, Sound
  <2> QED
    BY <1>1, <2>1, <2>2 DEF Controller
<1>3. Setloc(c, to) = Respond(e, Acknowledge)
  BY <1>1 DEF Setloc
<1> QED
  BY <1>2, <1>3, AnswerGood

\* ReadN and ReadS.
LEMMA ReadGood ==
    ASSUME NEW c, NEW I, NEW n, NEW q, Good(c, I, n, q), c.flag = 0
    PROVE  /\ Good(Read(c), I, n, q)
           /\ Read(c).flag \in {Acknowledge, Error}
<1>0. c \in Controller(I)
  BY DEF Good, Sound
<1>1. CASE ~HasDisc(c)
  BY <1>1, AnswerGood DEF Read
<1>2. CASE HasDisc(c) /\ Continues(c)
  <2>1. PICK e : e = [c EXCEPT !.setloc = FALSE, !.ahead = 0]
    OBVIOUS
  <2>2. Good(e, I, n, q) /\ e.flag = 0
    BY <1>0, <2>1, ContinueGood DEF Controller
  <2> QED
    BY <1>2, <2>1, <2>2, AnswerGood DEF Read
<1>3. CASE HasDisc(c) /\ ~Continues(c)
  <2>1. PICK e : e = StartRead(c)
    OBVIOUS
  <2>2. Good(e, I, n, q)
    BY <1>3, <2>1, StartReadGood
  <2>3. e.flag = 0
    BY <1>0, <2>1 DEF Controller, StartRead, ClearPended, ClearBuffers
  <2> QED
    BY <1>3, <2>1, <2>2, <2>3, AnswerGood DEF Read
<1> QED
  BY <1>1, <1>2, <1>3

\* Play.
LEMMA PlayGood ==
    ASSUME NEW c, NEW I, NEW n, NEW q, Good(c, I, n, q), c.flag = 0
    PROVE  /\ Good(Play(c), I, n, q)
           /\ Play(c).flag \in {Acknowledge, Error}
<1>0. /\ c \in Controller(I) /\ c.stat \in Bits
      /\ "ERROR" \in c.stat => "SHELL" \in c.stat
      /\ "ERROR" \in c.stat /\ ~c.open => ~c.iso /\ ~c.shell
  BY DEF Good, Sound, Lid, Controller
<1>1. PICK k : k = StopRead(c)
  OBVIOUS
<1>2. /\ Good(k, I, n, q) /\ k.flag = 0 /\ k.stat = c.stat
      /\ k.open = c.open /\ k.iso = c.iso /\ k.shell = c.shell
  BY <1>0, <1>1, StopReadGood, StopReadKeeps
<1>3. CASE ~HasDisc(c)
  BY <1>3, AnswerGood DEF Play
<1>4. CASE HasDisc(c)
  <2>1. PICK S : S = (k.stat \ {"SEEK", "READ"}) \cup {"MOTOR", "PLAY"}
    OBVIOUS
  <2>2. Agrees(k, S)
    BY <1>0, <1>2, <2>1 DEF Agrees, Bits, Status
  <2>3. Play(c) = Respond([k EXCEPT !.stat = S], Acknowledge)
    BY <1>1, <1>4, <2>1 DEF Play
  <2>4. PICK m : m = [k EXCEPT !.stat = S]
    OBVIOUS
  <2>5. Good(m, I, n, q) /\ m.flag = 0
    BY <1>2, <2>2, <2>4, StatusAnswer
  <2>6. Play(c) = Respond(m, Acknowledge)
    BY <2>3, <2>4
  <2> QED
    BY <2>5, <2>6, AnswerGood
<1> QED
  BY <1>3, <1>4

\* The delays of the second responses are numbers of cycles.
LEMMA Latencies ==
    ASSUME NEW c, NEW op \in TwoPhase \cup {"Paused"}
    PROVE  Latency[op] \in Nat /\ Scaled(c, Latency[op]) \in Nat
BY Assumptions DEF Scaled

\* MotorOn.
LEMMA MotorOnGood ==
    ASSUME NEW c, NEW I, NEW n, NEW q, Good(c, I, n, q), c.flag = 0
    PROVE  /\ Good(MotorOn(c), I, n, q)
           /\ MotorOn(c).flag \in {Acknowledge, Error}
<1>1. CASE "MOTOR" \in c.stat
  BY <1>1, AnswerGood DEF MotorOn
<1>2. CASE "MOTOR" \notin c.stat
  <2>1. "MotorOn" \in TwoPhase /\ Scaled(c, Latency["MotorOn"]) \in Nat
    BY Latencies DEF TwoPhase
  <2> QED
    BY <1>2, <2>1, TwoPhaseAckGood DEF MotorOn
<1> QED
  BY <1>1, <1>2

\* Stop.
LEMMA StopGood ==
    ASSUME NEW c, NEW I, NEW n, NEW q, Good(c, I, n, q), c.flag = 0
    PROVE  /\ Good(Stop(c), I, n, q)
           /\ Stop(c).flag \in {Acknowledge, Error}
<1>0. /\ c \in Controller(I) /\ c.stat \in Bits
      /\ "ERROR" \in c.stat => "SHELL" \in c.stat
      /\ "ERROR" \in c.stat /\ ~c.open => ~c.iso /\ ~c.shell
  BY DEF Good, Sound, Lid, Controller
<1>1. PICK k : k = StopRead(c)
  OBVIOUS
<1>2. /\ Good(k, I, n, q) /\ k.flag = 0 /\ k.stat = c.stat
      /\ k.open = c.open /\ k.iso = c.iso /\ k.shell = c.shell
  BY <1>0, <1>1, StopReadGood, StopReadKeeps
<1>3. PICK S : S = k.stat \ {"READ", "PLAY", "SEEK"}
  OBVIOUS
<1>4. Agrees(k, S)
  BY <1>0, <1>2, <1>3 DEF Agrees, Bits, Status
<1>5. PICK m : m = [k EXCEPT !.stat = S]
  OBVIOUS
<1>6. Good(m, I, n, q) /\ m.flag = 0
  BY <1>2, <1>4, <1>5, StatusAnswer
<1>7. PICK d : d = Scaled(c, Latency["Stop"])
  OBVIOUS
<1>8. "Stop" \in TwoPhase /\ d \in Nat
  BY <1>7, Latencies DEF TwoPhase
<1>9. Stop(c) = TwoPhaseAck(m, "Stop", d)
  BY <1>1, <1>3, <1>5, <1>7 DEF Stop
<1> QED
  BY <1>6, <1>8, <1>9, TwoPhaseAckGood

\* Pause.
LEMMA PauseGood ==
    ASSUME NEW c, NEW I, NEW n, NEW q, Good(c, I, n, q), c.flag = 0
    PROVE  /\ Good(Pause(c), I, n, q)
           /\ Pause(c).flag \in {Acknowledge, Error}
<1>0. /\ c \in Controller(I) /\ c.stat \in Bits
      /\ "ERROR" \in c.stat => "SHELL" \in c.stat
      /\ "ERROR" \in c.stat /\ ~c.open => ~c.iso /\ ~c.shell
  BY DEF Good, Sound, Lid, Controller
<1>1. PICK k : k = StopRead(c)
  OBVIOUS
<1>2. /\ Good(k, I, n, q) /\ k.flag = 0 /\ k.stat = c.stat
      /\ k.open = c.open /\ k.iso = c.iso /\ k.shell = c.shell
  BY <1>0, <1>1, StopReadGood, StopReadKeeps
<1>3. PICK S : S = k.stat \ {"READ", "PLAY"}
  OBVIOUS
<1>4. Agrees(k, S)
  BY <1>0, <1>2, <1>3 DEF Agrees, Bits, Status
<1>5. PICK m : m = [k EXCEPT !.stat = S]
  OBVIOUS
<1>6. Good(m, I, n, q) /\ m.flag = 0
  BY <1>2, <1>4, <1>5, StatusAnswer
<1>7. PICK d : d = PauseDelay(c)
  OBVIOUS
<1>8. "Pause" \in TwoPhase /\ d \in Nat
  BY <1>7, Latencies DEF TwoPhase, PauseDelay
<1>9. Pause(c) = TwoPhaseAck(m, "Pause", d)
  BY <1>1, <1>3, <1>5, <1>7 DEF Pause
<1> QED
  BY <1>6, <1>8, <1>9, TwoPhaseAckGood

\* Init.
LEMMA InitDriveGood ==
    ASSUME NEW c, NEW I, NEW n, NEW q, Good(c, I, n, q), c.flag = 0
    PROVE  /\ Good(InitDrive(c), I, n, q)
           /\ InitDrive(c).flag \in {Acknowledge, Error}
<1>0. /\ c \in Controller(I) /\ c.stat \in Bits
      /\ "ERROR" \in c.stat => "SHELL" \in c.stat
      /\ "ERROR" \in c.stat /\ ~c.open => ~c.iso /\ ~c.shell
  BY DEF Good, Sound, Lid, Controller
<1>1. PICK k : k = StopRead(c)
  OBVIOUS
<1>2. /\ Good(k, I, n, q) /\ k.flag = 0 /\ k.stat = c.stat
      /\ k.open = c.open /\ k.iso = c.iso /\ k.shell = c.shell
  BY <1>0, <1>1, StopReadGood, StopReadKeeps
<1>3. PICK S : S = {IF HasDisc(c) THEN "MOTOR" ELSE "SHELL"}
  OBVIOUS
<1>4. Agrees(k, S)
  BY <1>0, <1>2, <1>3 DEF Agrees, Bits, Status
<1>5. PICK m : m = [k EXCEPT !.stat = S]
  OBVIOUS
<1>6. Good(m, I, n, q) /\ m.flag = 0
  BY <1>2, <1>4, <1>5, StatusAnswer
<1>7. PICK d : d = Latency["Init"]
  OBVIOUS
<1>8. "Init" \in TwoPhase /\ d \in Nat
  BY <1>7, Latencies DEF TwoPhase
<1>9. InitDrive(c) = TwoPhaseAck(m, "Init", d)
  BY <1>1, <1>3, <1>5, <1>7 DEF InitDrive
<1> QED
  BY <1>6, <1>8, <1>9, TwoPhaseAckGood

\* SeekL and SeekP.
LEMMA SeekGood ==
    ASSUME NEW c, NEW I, NEW n, NEW q, Good(c, I, n, q), c.flag = 0
    PROVE  /\ Good(Seek(c), I, n, q)
           /\ Seek(c).flag \in {Acknowledge, Error}
<1>0. /\ c \in Controller(I) /\ c.stat \in Bits
      /\ "ERROR" \in c.stat => "SHELL" \in c.stat
      /\ "ERROR" \in c.stat /\ ~c.open => ~c.iso /\ ~c.shell
  BY DEF Good, Sound, Lid, Controller
<1>1. PICK k : k = StopRead(c)
  OBVIOUS
<1>2. /\ Good(k, I, n, q) /\ k.flag = 0 /\ k.stat = c.stat
      /\ k.open = c.open /\ k.iso = c.iso /\ k.shell = c.shell
  BY <1>0, <1>1, StopReadGood, StopReadKeeps
<1>3. PICK S : S = (k.stat \ {"PLAY"}) \cup {"SEEK"}
  OBVIOUS
<1>4. Agrees(k, S)
  BY <1>0, <1>2, <1>3 DEF Agrees, Bits, Status
<1>5. PICK m : m = [k EXCEPT !.ahead = 0, !.stat = S]
  OBVIOUS
<1>6. Good(m, I, n, q) /\ m.flag = 0
  BY <1>2, <1>4, <1>5, StatusAnswer
<1>7. PICK d : d = Scaled(c, Latency["Seek"])
  OBVIOUS
<1>8. "Seek" \in TwoPhase /\ d \in Nat
  BY <1>7, Latencies DEF TwoPhase
<1>9. CASE ~HasDisc(c)
  BY <1>9, AnswerGood DEF Seek
<1>10. CASE HasDisc(c)
  <2>1. Seek(c) = TwoPhaseAck(m, "Seek", d)
    BY <1>10, <1>1, <1>3, <1>5, <1>7 DEF Seek
  <2> QED
    BY <2>1, <1>6, <1>8, TwoPhaseAckGood
<1> QED
  BY <1>9, <1>10

-----------------------------------------------------------------------------
(***************************************************************************)
(* The queue, second responses and the lid.                                *)
(***************************************************************************)

\* The guest selects data sectors or whole ones.
LEMMA ModeGood ==
    ASSUME NEW c, NEW I, NEW n, NEW q, NEW size \in Sizes, Good(c, I, n, q)
    PROVE  Good([c EXCEPT !.mode = size], I, n, q)
<1>0. c \in Controller(I) /\ I \subseteq Command /\ q \in Moment
  BY DEF Good, Sound
<1>2. [c EXCEPT !.mode = size] \in Controller(I)
  BY <1>0, Values DEF Controller, Sound
<1>3. Drive([c EXCEPT !.mode = size])
  BY <1>0, Assumptions DEF Good, Sound, Controller, Drive, Never, Due
<1>4. Lid([c EXCEPT !.mode = size])
  BY <1>0, Assumptions DEF Good, Sound, Controller, Lid, Closing, Bits, Status
<1>5. Response([c EXCEPT !.mode = size])
  BY <1>0, Assumptions DEF Good, Sound, Controller, Response, Never, Held, Due
<1>6. Quiet([c EXCEPT !.mode = size], q)
  BY <1>0, Assumptions DEF Good, Sound, Controller, Quiet, Moment, Entered, Outside, Never,
     Held, Due
<1>7. Sectors([c EXCEPT !.mode = size])
  BY <1>0, Assumptions DEF Good, Sound, Controller, Sectors, Ring, Slot
<1>8. Flow([c EXCEPT !.mode = size], n)
  BY <1>0, Assumptions DEF Good, Controller, Flow, Age, Never, Sound
<1> QED
  BY <1>0, <1>2, <1>3, <1>4, <1>5, <1>6, <1>7, <1>8 DEF Good, Sound

LEMMA SetModeGood ==
    ASSUME NEW c, NEW I, NEW n, NEW q, NEW size \in Sizes, Good(c, I, n, q), c.flag = 0
    PROVE  /\ Good(SetMode(c, size), I, n, q)
           /\ SetMode(c, size).flag \in {Acknowledge, Error}
<1>1. PICK e : e = [c EXCEPT !.mode = size]
  OBVIOUS
<1>2. Good(e, I, n, q)
  BY <1>1, ModeGood
<1>3. e.flag = 0
  BY <1>1 DEF Good, Sound, Controller
<1> QED
  BY <1>1, <1>2, <1>3, AnswerGood DEF SetMode

\* Every command, when the flag is clear.
LEMMA ExecGood ==
    ASSUME NEW c, NEW I, NEW n, NEW q, Good(c, I, n, q), c.flag = 0, NEW cmd \in I
    PROVE  /\ Good(Exec(c, cmd), I, n, q)
           /\ Exec(c, cmd).flag \in {Acknowledge, Error}
<1>0. c \in Controller(I) /\ cmd \in Command
  BY DEF Good, Sound
<1>1. PICK e : e = Cancel(c)
  OBVIOUS
<1>2. Good(e, I, n, q) /\ e.flag = 0
  <2>1. NoPending \in Pending /\ (NoPending.op = "none" => NoPending.left = 0)
    BY Values DEF NoPending
  <2> QED
    BY <1>0, <1>1, <2>1, PendingGood DEF Cancel, Controller
<1>3. cmd.to \in Int
  <2>1. cmd.to \in Distances
    BY <1>0 DEF Command
  <2>2. Distances \subseteq Int
    BY Assumptions
  <2> QED
    BY <2>1, <2>2
<1>4. CASE cmd.op = "GetStat"
  <2>1. Exec(c, cmd) = GetStat(e)
    BY <1>1, <1>4 DEF Exec, Sizes
  <2> QED
    BY <1>2, <1>3, <2>1, GetStatGood
<1>5. CASE cmd.op = "Setloc"
  <2>1. Exec(c, cmd) = Setloc(e, cmd.to)
    BY <1>1, <1>5 DEF Exec, Sizes
  <2> QED
    BY <1>2, <1>3, <2>1, SetlocGood
<1>6. CASE cmd.op = "Read"
  <2>1. Exec(c, cmd) = Read(e)
    BY <1>1, <1>6 DEF Exec, Sizes
  <2> QED
    BY <1>2, <1>3, <2>1, ReadGood
<1>7. CASE cmd.op = "Play"
  <2>1. Exec(c, cmd) = Play(e)
    BY <1>1, <1>7 DEF Exec, Sizes
  <2> QED
    BY <1>2, <1>3, <2>1, PlayGood
<1>8. CASE cmd.op = "MotorOn"
  <2>1. Exec(c, cmd) = MotorOn(e)
    BY <1>1, <1>8 DEF Exec, Sizes
  <2> QED
    BY <1>2, <1>3, <2>1, MotorOnGood
<1>9. CASE cmd.op = "Stop"
  <2>1. Exec(c, cmd) = Stop(e)
    BY <1>1, <1>9 DEF Exec, Sizes
  <2> QED
    BY <1>2, <1>3, <2>1, StopGood
<1>10. CASE cmd.op = "Pause"
  <2>1. Exec(c, cmd) = Pause(e)
    BY <1>1, <1>10 DEF Exec, Sizes
  <2> QED
    BY <1>2, <1>3, <2>1, PauseGood
<1>11. CASE cmd.op = "Init"
  <2>1. Exec(c, cmd) = InitDrive(e)
    BY <1>1, <1>11 DEF Exec, Sizes
  <2> QED
    BY <1>2, <1>3, <2>1, InitDriveGood
<1>12. CASE cmd.op = "Seek"
  <2>1. Exec(c, cmd) = Seek(e)
    BY <1>1, <1>12 DEF Exec, Sizes
  <2> QED
    BY <1>2, <1>3, <2>1, SeekGood
<1>13. CASE cmd.op = "Other"
  <2>1. Exec(c, cmd) = Respond(e, Acknowledge)
    BY <1>1, <1>13 DEF Exec, Sizes
  <2> QED
    BY <1>2, <1>3, <2>1, AnswerGood
<1>14. CASE cmd.op = "Invalid"
  <2>1. Exec(c, cmd) = Respond(e, Error)
    BY <1>1, <1>14 DEF Exec, Sizes
  <2> QED
    BY <1>2, <1>3, <2>1, AnswerGood
<1>15. CASE cmd.op \in {"GetID", "ReadTOC"}
  <2>1. Exec(c, cmd) = TwoPhaseAck(e, cmd.op, Latency[cmd.op])
    BY <1>1, <1>15 DEF Exec, Sizes
  <2>2. cmd.op \in TwoPhase
    BY <1>15 DEF TwoPhase
  <2>3. Latency[cmd.op] \in Nat
    BY <2>2, Latencies
  <2> QED
    BY <1>2, <2>1, <2>2, <2>3, TwoPhaseAckGood
<1>16. CASE cmd.op \in Sizes
  <2>1. Exec(c, cmd) = SetMode(e, cmd.op)
    BY <1>1, <1>16 DEF Exec, Sizes
  <2> QED
    BY <1>2, <1>16, <2>1, SetModeGood
<1> QED
  BY <1>0, <1>4, <1>5, <1>6, <1>7, <1>8, <1>9, <1>10, <1>11, <1>12, <1>13, <1>14, <1>15, <1>16
  DEF Command, TwoPhase

\* A command is executed, or waits for the acknowledgement in the queue.
LEMMA QueueOrExecGood ==
    ASSUME NEW c, NEW I, NEW n, NEW q, Good(c, I, n, q), NEW cmd \in I
    PROVE  /\ Good(QueueOrExec(c, cmd), I, n, q)
           /\ c.flag = 0 => QueueOrExec(c, cmd).flag \in {Acknowledge, Error}
<1>1. CASE c.flag = 0
  BY <1>1, ExecGood DEF QueueOrExec
<1>2. CASE c.flag # 0
  <2>1. cmd \in Queued(I)
    BY DEF Queued
  <2> QED
    BY <1>2, <2>1, QueueGood DEF QueueOrExec
<1> QED
  BY <1>1, <1>2

\* The queued command is executed when the flag is clear.
LEMMA TryQueuedGood ==
    ASSUME NEW c, NEW I, NEW n, NEW q, Good(c, I, n, q)
    PROVE  /\ Good(TryQueued(c), I, n, q)
           /\ TryQueued(c) = c \/ TryQueued(c).flag \in {Acknowledge, Error}
<1>0. c \in Controller(I)
  BY DEF Good, Sound
<1>1. CASE c.queued = NoCmd \/ c.flag # 0
  BY <1>1 DEF TryQueued
<1>2. CASE ~(c.queued = NoCmd \/ c.flag # 0)
  <2>1. c.queued \in I
    BY <1>0, <1>2 DEF Controller, Queued
  <2>2. PICK e : e = [c EXCEPT !.queued = NoCmd]
    OBVIOUS
  <2>3. Good(e, I, n, q)
    BY <2>2, Values, QueueGood
  <2>4. e.flag = 0
    BY <1>0, <1>2, <2>2 DEF Controller
  <2>5. TryQueued(c) = Exec(e, c.queued)
    BY <1>2, <2>2 DEF TryQueued
  <2> QED
    BY <2>1, <2>3, <2>4, <2>5, ExecGood
<1> QED
  BY <1>1, <1>2

\* What a second response changes before it is given.
LEMMA FinishedGood ==
    ASSUME NEW c, NEW I, NEW n, NEW q, NEW S, NEW b \in Bit, NEW a \in Int, Good(c, I, n, q),
           Agrees(c, S), b \/ a = 0
    PROVE  Good([c EXCEPT !.stat = S, !.setloc = b, !.ahead = a], I, n, q)
<1>0. c \in Controller(I) /\ I \subseteq Command /\ q \in Moment
  BY DEF Good, Sound
<1>1. S \in Bits
  BY DEF Agrees
<1>2. [c EXCEPT !.stat = S, !.setloc = b, !.ahead = a] \in Controller(I)
  BY <1>0, <1>1, Values DEF Controller, Sound
<1>3. Drive([c EXCEPT !.stat = S, !.setloc = b, !.ahead = a])
  BY <1>0, <1>1, Assumptions DEF Good, Sound, Controller, Drive, Never, Due
<1>4. Lid([c EXCEPT !.stat = S, !.setloc = b, !.ahead = a])
  BY <1>0, <1>1, Assumptions DEF Good, Sound, Controller, Lid, Closing, Bits, Status, Agrees
<1>5. Response([c EXCEPT !.stat = S, !.setloc = b, !.ahead = a])
  BY <1>0, <1>1, Assumptions DEF Good, Sound, Controller, Response, Never, Held, Due
<1>6. Quiet([c EXCEPT !.stat = S, !.setloc = b, !.ahead = a], q)
  BY <1>0, <1>1, Assumptions DEF Good, Sound, Controller, Quiet, Moment, Entered, Outside,
     Never, Held, Due
<1>7. Sectors([c EXCEPT !.stat = S, !.setloc = b, !.ahead = a])
  BY <1>0, <1>1, Assumptions DEF Good, Sound, Controller, Sectors, Ring, Slot
<1>8. Flow([c EXCEPT !.stat = S, !.setloc = b, !.ahead = a], n)
  BY <1>0, <1>1, Assumptions DEF Good, Controller, Flow, Age, Never, Sound
<1> QED
  BY <1>0, <1>2, <1>3, <1>4, <1>5, <1>6, <1>7, <1>8 DEF Good, Sound

\* A second response is given when the flag is clear.
LEMMA FinishGood ==
    ASSUME NEW c, NEW I, NEW n, NEW q, Good(c, I, n, q), c.flag = 0, NEW op
    PROVE  /\ Good(Finish(c, op), I, n, q)
           /\ Finish(c, op).flag \in {Complete, Error}
           /\ Finish(c, op).pended = c.pended
<1>0. /\ c \in Controller(I) /\ c.stat \in Bits /\ c.ahead \in Int /\ c.setloc \in Bit
      /\ "ERROR" \in c.stat => "SHELL" \in c.stat
      /\ "ERROR" \in c.stat /\ ~c.open => ~c.iso /\ ~c.shell
      /\ c.setloc \/ c.ahead = 0
  BY DEF Good, Sound, Drive, Lid, Controller
<1>1. PICK S : S = CASE op = "MotorOn" -> c.stat \cup {"MOTOR"}
                     [] op = "Stop" -> c.stat \ {"MOTOR", "READ", "PLAY", "SEEK"}
                     [] op = "Pause" -> c.stat \ {"READ"}
                     [] op = "Seek" -> (c.stat \ {"SEEK"}) \cup {"READ"}
                     [] OTHER -> c.stat
  OBVIOUS
<1>2. Agrees(c, S)
  <2>1. CASE op = "MotorOn"
    <3>1. S = c.stat \cup {"MOTOR"}
      BY <1>1, <2>1
    <3> QED
      BY <1>0, <3>1 DEF Agrees, Bits, Status
  <2>2. CASE op = "Stop"
    <3>1. S = c.stat \ {"MOTOR", "READ", "PLAY", "SEEK"}
      BY <1>1, <2>2
    <3> QED
      BY <1>0, <3>1 DEF Agrees, Bits, Status
  <2>3. CASE op = "Pause"
    <3>1. S = c.stat \ {"READ"}
      BY <1>1, <2>3
    <3> QED
      BY <1>0, <3>1 DEF Agrees, Bits, Status
  <2>4. CASE op = "Seek"
    <3>1. S = (c.stat \ {"SEEK"}) \cup {"READ"}
      BY <1>1, <2>4
    <3> QED
      BY <1>0, <3>1 DEF Agrees, Bits, Status
  <2>5. CASE op \notin {"MotorOn", "Stop", "Pause", "Seek"}
    <3>1. S = c.stat
      BY <1>1, <2>5
    <3> QED
      BY <1>0, <3>1 DEF Agrees
  <2> QED
    BY <2>1, <2>2, <2>3, <2>4, <2>5
<1>3. PICK b \in Bit : b <=> (c.setloc /\ op # "Seek")
  BY Values
<1>4. PICK a : a = IF op = "Seek" THEN 0 ELSE c.ahead
  OBVIOUS
<1>5. a \in Int /\ (b \/ a = 0)
  BY <1>0, <1>3, <1>4
<1>6. PICK e : e = [c EXCEPT !.stat = S, !.setloc = b, !.ahead = a]
  OBVIOUS
<1>7. Good(e, I, n, q)
  BY <1>2, <1>5, <1>6, FinishedGood
<1>8. e.flag = 0 /\ e.pended = c.pended
  BY <1>0, <1>6 DEF Controller
<1>9. b = (c.setloc /\ op # "Seek")
  BY <1>0, <1>3 DEF Bit
<1>10. PICK code : code = IF op = "GetID" /\ ~HasDisc(c) THEN Error ELSE Complete
  OBVIOUS
<1>11. code \in {DataReady, Complete, Acknowledge, Error} /\ code \in {Complete, Error}
  BY <1>10
<1>12. Finish(c, op) = Respond(e, code)
  BY <1>1, <1>4, <1>6, <1>9, <1>10 DEF Finish
<1> QED
  BY <1>7, <1>8, <1>11, <1>12, RespondGood

\* A due second response is given when the flag is clear.
LEMMA ProcessPendingGood ==
    ASSUME NEW c, NEW I, NEW n, NEW q, Good(c, I, n, q)
    PROVE  /\ Good(ProcessPending(c), I, n, q)
           /\ ProcessPending(c) = c \/ ProcessPending(c).flag \in {Complete, Error}
<1>0. c \in Controller(I)
  BY DEF Good, Sound
<1>1. CASE c.pending = NoPending \/ c.pending.left > 0 \/ c.flag # 0
  BY <1>1 DEF ProcessPending
<1>2. CASE ~(c.pending = NoPending \/ c.pending.left > 0 \/ c.flag # 0)
  <2>1. PICK e : e = [c EXCEPT !.pending = NoPending]
    OBVIOUS
  <2>2. NoPending \in Pending /\ (NoPending.op = "none" => NoPending.left = 0)
    BY Values DEF NoPending
  <2>3. Good(e, I, n, q)
    BY <2>1, <2>2, PendingGood
  <2>4. e.flag = 0
    BY <1>0, <1>2, <2>1 DEF Controller
  <2>5. ProcessPending(c) = Finish(e, c.pending.op)
    BY <1>2, <2>1 DEF ProcessPending
  <2> QED
    BY <2>3, <2>4, <2>5, FinishGood
<1> QED
  BY <1>1, <1>2

\* The guest was told of the open tray.
LEMMA ToldGood ==
    ASSUME NEW c, NEW I, NEW n, NEW q, Good(c, I, n, q)
    PROVE  Good([c EXCEPT !.lidIrq = FALSE], I, n, q)
<1>0. c \in Controller(I) /\ I \subseteq Command /\ q \in Moment
  BY DEF Good, Sound
<1>2. [c EXCEPT !.lidIrq = FALSE] \in Controller(I)
  BY <1>0, Values DEF Controller, Sound
<1>3. Drive([c EXCEPT !.lidIrq = FALSE])
  BY <1>0, Assumptions DEF Good, Sound, Controller, Drive, Never, Due
<1>4. Lid([c EXCEPT !.lidIrq = FALSE])
  BY <1>0, Assumptions DEF Good, Sound, Controller, Lid, Closing, Bits, Status
<1>5. Response([c EXCEPT !.lidIrq = FALSE])
  BY <1>0, Assumptions DEF Good, Sound, Controller, Response, Never, Held, Due
<1>6. Quiet([c EXCEPT !.lidIrq = FALSE], q)
  BY <1>0, Assumptions DEF Good, Sound, Controller, Quiet, Moment, Entered, Outside, Never,
     Held, Due
<1>7. Sectors([c EXCEPT !.lidIrq = FALSE])
  BY <1>0, Assumptions DEF Good, Sound, Controller, Sectors, Ring, Slot
<1>8. Flow([c EXCEPT !.lidIrq = FALSE], n)
  BY <1>0, Assumptions DEF Good, Controller, Flow, Age, Never, Sound
<1> QED
  BY <1>0, <1>2, <1>3, <1>4, <1>5, <1>6, <1>7, <1>8 DEF Good, Sound

\* The tray is closed.
LEMMA ClosedGood ==
    ASSUME NEW c, NEW I, NEW n, NEW q, NEW S, Good(c, I, n, q),
           S \in Bits, "ERROR" \notin S, ~c.lidIrq, c.close = 0
    PROVE  Good([c EXCEPT !.open = FALSE, !.stat = S], I, n, q)
<1>0. c \in Controller(I) /\ I \subseteq Command /\ q \in Moment
  BY DEF Good, Sound
<1>2. [c EXCEPT !.open = FALSE, !.stat = S] \in Controller(I)
  BY <1>0, Values DEF Controller, Sound
<1>3. Drive([c EXCEPT !.open = FALSE, !.stat = S])
  BY <1>0, Assumptions DEF Good, Sound, Controller, Drive, Never, Due
<1>4. Lid([c EXCEPT !.open = FALSE, !.stat = S])
  BY <1>0, Assumptions DEF Good, Sound, Controller, Lid, Closing, Bits, Status
<1>5. Response([c EXCEPT !.open = FALSE, !.stat = S])
  BY <1>0, Assumptions DEF Good, Sound, Controller, Response, Never, Held, Due
<1>6. Quiet([c EXCEPT !.open = FALSE, !.stat = S], q)
  BY <1>0, Assumptions DEF Good, Sound, Controller, Quiet, Moment, Entered, Outside, Never,
     Held, Due
<1>7. Sectors([c EXCEPT !.open = FALSE, !.stat = S])
  BY <1>0, Assumptions DEF Good, Sound, Controller, Sectors, Ring, Slot
<1>8. Flow([c EXCEPT !.open = FALSE, !.stat = S], n)
  BY <1>0, Assumptions DEF Good, Controller, Flow, Age, Never, Sound
<1> QED
  BY <1>0, <1>2, <1>3, <1>4, <1>5, <1>6, <1>7, <1>8 DEF Good, Sound

\* The tray is open and the guest is to be told.
LEMMA OpenedGood ==
    ASSUME NEW c, NEW I, NEW n, NEW q, NEW e, Good(c, I, n, q),
           ~c.reading,
           e = [c EXCEPT !.stat = {"ERROR", "SHELL"}, !.open = TRUE, !.close = LidTime,
                         !.shell = TRUE, !.lidIrq = TRUE]
    PROVE  Good(e, I, n, q)
<1>0. c \in Controller(I) /\ I \subseteq Command /\ q \in Moment
  BY DEF Good, Sound
<1>1. {"ERROR", "SHELL"} \in Bits
  BY DEF Bits, Status
<1>2. e \in Controller(I)
  BY <1>0, <1>1, Values DEF Controller, Sound
<1>3. Drive(e)
  BY <1>0, <1>1, Assumptions DEF Good, Sound, Controller, Drive, Never, Due
<1>4. Lid(e)
  BY <1>0, <1>1, Assumptions DEF Good, Sound, Controller, Lid, Closing, Bits, Status
<1>5. Response(e)
  BY <1>0, <1>1, Assumptions DEF Good, Sound, Controller, Response, Never, Held, Due
<1>6. Quiet(e, q)
  BY <1>0, <1>1, Assumptions DEF Good, Sound, Controller, Quiet, Moment, Entered, Outside,
     Never, Held, Due
<1>7. Sectors(e)
  BY <1>0, <1>1, Assumptions DEF Good, Sound, Controller, Sectors, Ring, Slot
<1>8. Flow(e, n)
  BY <1>0, <1>1, Assumptions DEF Good, Controller, Flow, Age, Never, Sound
<1> QED
  BY <1>0, <1>2, <1>3, <1>4, <1>5, <1>6, <1>7, <1>8 DEF Good, Sound

\* The guest is told of the open tray when the flag is clear.
LEMMA PresentLidGood ==
    ASSUME NEW c, NEW I, NEW n, NEW q, Good(c, I, n, q)
    PROVE  /\ Good(PresentLid(c), I, n, q)
           /\ PresentLid(c) = c \/ (PresentLid(c).flag = Error /\ PresentLid(c).hold = Hold)
           /\ c.lidIrq => PresentLid(c).flag # 0
           /\ PresentLid(c).open = c.open /\ PresentLid(c).iso = c.iso
<1>0. c \in Controller(I) /\ (c.lidIrq => c.open)
  BY DEF Good, Sound, Lid
<1>1. CASE ~c.lidIrq \/ c.flag # 0
  <2>1. PresentLid(c) = c
    BY <1>1 DEF PresentLid
  <2>2. c.lidIrq => c.flag # 0
    BY <1>1
  <2> QED
    BY <2>1, <2>2
<1>2. CASE ~(~c.lidIrq \/ c.flag # 0)
  <2>1. PICK S : S = {"ERROR", "SHELL"}
    OBVIOUS
  <2>2. Agrees(c, S)
    BY <1>0, <1>2, <2>1 DEF Agrees, Bits, Status
  <2>3. PICK e : e = [c EXCEPT !.stat = S]
    OBVIOUS
  <2>4. Good(e, I, n, q) /\ e.flag = 0
    BY <1>2, <2>2, <2>3, StatusAnswer
  <2>5. PICK d : d = Respond(e, Error)
    OBVIOUS
  <2>6. Good(d, I, n, q) /\ d.flag = Error /\ Error # 0
    BY <2>4, <2>5, RespondGood
  <2>7. d.open = c.open /\ d.iso = c.iso /\ d.hold = Hold
    <3>1. e \in Controller(I)
      BY <2>4 DEF Good, Sound
    <3>2. d = SetIrq(e, Error)
      BY <2>5, <3>1, RespondIs
    <3> QED
      BY <1>0, <2>3, <3>1, <3>2 DEF Controller, SetIrq
  <2>8. PICK g : g = [d EXCEPT !.lidIrq = FALSE]
    OBVIOUS
  <2>9. Good(g, I, n, q)
    BY <2>6, <2>8, ToldGood
  <2>10. d \in Controller(I)
    BY <2>6 DEF Good, Sound
  <2>11. g.flag = d.flag /\ g.hold = d.hold /\ g.open = d.open /\ g.iso = d.iso
    BY <2>8, <2>10 DEF Controller
  <2>12. PresentLid(c) = g
    BY <1>2, <2>1, <2>3, <2>5, <2>8 DEF PresentLid
  <2> QED
    BY <2>6, <2>7, <2>9, <2>11, <2>12
<1> QED
  BY <1>1, <1>2

\* The tray closes when the guest was told and its time is over.
LEMMA LidStepGood ==
    ASSUME NEW c, NEW I, NEW n, NEW q, Good(c, I, n, q)
    PROVE  /\ Good(LidStep(c), I, n, q)
           /\ \/ LidStep(c).flag = c.flag /\ LidStep(c).pended = c.pended
              \/ LidStep(c).flag = Error
           /\ c.flag # 0 => LidStep(c).flag = c.flag
<1>0. c \in Controller(I)
  BY DEF Good, Sound
<1>1. PICK e : e = PresentLid(c)
  OBVIOUS
<1>2. Good(e, I, n, q) /\ (e = c \/ e.flag = Error)
  BY <1>1, PresentLidGood
<1>3. c.flag # 0 => e = c
  BY <1>1 DEF PresentLid
<1>4. e \in Controller(I) /\ e.stat \in Bits
  BY <1>2 DEF Good, Sound, Controller
<1>5. CASE e.lidIrq \/ ~e.open \/ e.close > 0
  BY <1>1, <1>2, <1>3, <1>5 DEF LidStep
<1>6. CASE ~(e.lidIrq \/ ~e.open \/ e.close > 0)
  <2>1. PICK S : S = (e.stat \ {"ERROR", "READ", "PLAY", "SEEK"}) \cup {"SHELL"}
                       \cup (IF e.iso THEN {"MOTOR"} ELSE {})
    OBVIOUS
  <2>2. S \in Bits /\ "ERROR" \notin S
    BY <1>4, <2>1 DEF Bits, Status
  <2>3. e.close = 0 /\ ~e.lidIrq
    BY <1>4, <1>6, Assumptions DEF Controller, Closing
  <2>4. PICK g : g = [e EXCEPT !.open = FALSE, !.stat = S]
    OBVIOUS
  <2>5. Good(g, I, n, q)
    BY <1>2, <2>2, <2>3, <2>4, ClosedGood
  <2>6. g.flag = e.flag /\ g.pended = e.pended
    BY <1>4, <2>4 DEF Controller
  <2>7. LidStep(c) = g
    BY <1>1, <1>6, <2>1, <2>4 DEF LidStep
  <2> QED
    BY <1>2, <1>3, <2>5, <2>6, <2>7
<1> QED
  BY <1>5, <1>6

\* The tray is opened.
LEMMA OpenTrayGood ==
    ASSUME NEW c, NEW I, NEW n, NEW q, Good(c, I, n, q)
    PROVE  /\ Good(OpenTray(c), I, n, q)
           /\ c.flag = 0 => OpenTray(c).flag = Error
           /\ OpenTray(c).open /\ ~OpenTray(c).reading
<1>0. c \in Controller(I)
  BY DEF Good, Sound
<1>1. PICK k : k = StopRead(c)
  OBVIOUS
<1>2. Good(k, I, n, q) /\ k.flag = c.flag /\ ~k.reading
  BY <1>0, <1>1, StopReadGood, StopReadKeeps DEF Controller, StopRead, ClearPended
<1>3. k \in Controller(I)
  BY <1>2 DEF Good, Sound
<1>4. PICK e : e = [k EXCEPT !.stat = {"ERROR", "SHELL"}, !.open = TRUE, !.close = LidTime,
                             !.shell = TRUE, !.lidIrq = TRUE]
  OBVIOUS
<1>5. Good(e, I, n, q)
  BY <1>2, <1>4, OpenedGood
<1>6. e.open /\ e.lidIrq /\ e.flag = c.flag /\ e.reading = k.reading
  BY <1>2, <1>3, <1>4 DEF Controller
<1>7. OpenTray(c) = PresentLid(e)
  BY <1>1, <1>4 DEF OpenTray
<1>8. /\ Good(PresentLid(e), I, n, q) /\ PresentLid(e).open = e.open
      /\ PresentLid(e) = e \/ PresentLid(e).flag = Error
      /\ PresentLid(e).flag # 0
  BY <1>5, <1>6, PresentLidGood
<1>9. Drive(PresentLid(e))
  BY <1>8 DEF Good, Sound
<1>10. ~PresentLid(e).reading
  BY <1>6, <1>8, <1>9 DEF Drive
<1> QED
  BY <1>6, <1>7, <1>8, <1>10

-----------------------------------------------------------------------------
(***************************************************************************)
(* The passing of time.                                                    *)
(***************************************************************************)

\* k cycles pass; what is left of a handler's time goes down with them.
LEMMA ElapseGood ==
    ASSUME NEW c, NEW I, NEW q, Good(c, I, 0, q), NEW k \in Nat, k > 0, q >= 0 => k <= q
    PROVE  /\ Good(Elapse(c, k), I, k, IF q >= 0 THEN q - k ELSE q)
           /\ Elapse(c, k).pended = c.pended /\ Elapse(c, k).flag = c.flag
<1>0. c \in Controller(I) /\ I \subseteq Command /\ q \in Moment
  BY DEF Good, Sound
<1>1. PICK p : p = IF q >= 0 THEN q - k ELSE q
  OBVIOUS
<1>2. p \in Moment /\ q \in Int /\ IsrTime \in Nat
  BY <1>0, <1>1, Assumptions DEF Moment, Entered
<1>3. PICK h : h = IF c.hold > k THEN c.hold - k ELSE 0
  OBVIOUS
<1>4. PICK l : l = IF c.close > k THEN c.close - k ELSE 0
  OBVIOUS
<1>5. PICK r : r = IF c.release = Never THEN Never ELSE IF c.release > k THEN c.release - k ELSE 0
  OBVIOUS
<1>6. PICK a : a = IF ~c.pended THEN 0 ELSE IF c.age + k < Authentic THEN c.age + k ELSE Authentic
  OBVIOUS
<1>7. PICK w : w = [c.pending EXCEPT !.left = IF c.pending.left > k THEN c.pending.left - k ELSE 0]
  OBVIOUS
<1>8. PICK e : e = [c EXCEPT !.hold = h, !.close = l, !.pending = w, !.release = r, !.age = a]
  OBVIOUS
<1>9. Elapse(c, k) = e
  BY <1>3, <1>4, <1>5, <1>6, <1>7, <1>8 DEF Elapse
<1>10. /\ c.hold \in Nat /\ c.hold <= Hold /\ c.close \in 0..LidTime /\ c.age \in 0..Authentic
       /\ c.release \in Never..ReleaseDelay /\ c.pending \in Pending /\ c.blocked \in Nat
  BY <1>0, Assumptions DEF Controller, Held, Closing, Age, Due
<1>11. h \in Held /\ h \in Nat
  BY <1>3, <1>10, Assumptions DEF Held
<1>12. l \in Closing
  BY <1>4, <1>10, Assumptions DEF Closing
<1>13. r \in Due /\ r \in Int
  BY <1>5, <1>10, Assumptions DEF Due, Never
<1>14. a \in Age
  BY <1>6, <1>10, Assumptions DEF Age
<1>15. w \in Pending /\ w.op = c.pending.op /\ (c.pending.left = 0 => w.left = 0)
  BY <1>7, <1>10 DEF Pending
<1>16. e \in Controller(I)
  BY <1>0, <1>8, <1>11, <1>12, <1>13, <1>14, <1>15 DEF Controller
<1>17. /\ e.hold = h /\ e.close = l /\ e.pending = w /\ e.release = r /\ e.age = a
       /\ e.flag = c.flag /\ e.latched = c.latched /\ e.istat = c.istat
       /\ e.raised = c.raised /\ e.overwrote = c.overwrote /\ e.hasty = c.hasty
       /\ e.reading = c.reading /\ e.delay = c.delay /\ e.setloc = c.setloc /\ e.ahead = c.ahead
       /\ e.iso = c.iso /\ e.open = c.open /\ e.shell = c.shell /\ e.lidIrq = c.lidIrq
       /\ e.stat = c.stat /\ e.pended = c.pended /\ e.slot = c.slot /\ e.ring = c.ring
       /\ e.rd = c.rd /\ e.blocked = c.blocked /\ e.budget = c.budget
  BY <1>0, <1>8 DEF Controller
<1>18. Drive(e)
  BY <1>5, <1>15, <1>17 DEF Good, Sound, Drive
<1>19. Lid(e)
  <2>1. c.close = 0 => l = 0
    BY <1>4
  <2> QED
    BY <2>1, <1>17 DEF Good, Sound, Lid
<1>20. Response(e)
  <2>1. c.hold = 0 => h = 0
    BY <1>3
  <2>2. c.release <= c.hold => r <= h
    BY <1>3, <1>5, <1>10, <1>11 DEF Never
  <2> QED
    BY <2>1, <2>2, <1>17 DEF Good, Sound, Response
<1>21. Quiet(e, p)
  <2>1. p = Outside => q = Outside
    BY <1>1, <1>2 DEF Outside
  <2>2. p = Entered => q = Entered
    BY <1>1, <1>2 DEF Entered
  <2>3. p >= 0 => q >= 0 /\ p = q - k
    BY <1>1, <1>2
  <2>4. p >= 0 /\ c.hold > q => h > p
    BY <2>3, <1>2, <1>3, <1>10
  <2>5. p >= 0 /\ c.release > q => r > p
    BY <2>3, <1>2, <1>5, <1>10 DEF Never
  <2>6. r # Never => c.release # Never
    BY <1>5
  <2> QED
    BY <2>1, <2>2, <2>3, <2>4, <2>5, <2>6, <1>17 DEF Good, Sound, Quiet
<1>22. Sectors(e)
  BY <1>17 DEF Good, Sound, Sectors
<1>23. Flow(e, k)
  <2>1. c.pended /\ c.age >= c.blocked => a >= c.blocked + k \/ a = Authentic
    BY <1>6, <1>10, Assumptions
  <2>2. c.pended /\ c.age = Authentic => a = Authentic
    BY <1>6, <1>10, Assumptions
  <2>3. c.pended /\ c.budget => c.age >= c.blocked \/ c.age = Authentic
    BY <1>10 DEF Good, Flow
  <2> QED
    BY <2>1, <2>2, <2>3, <1>17 DEF Good, Flow
<1> QED
  BY <1>0, <1>1, <1>2, <1>9, <1>16, <1>17, <1>18, <1>19, <1>20, <1>21, <1>22, <1>23 DEF Good,
     Sound

\* A scheduled release is taken.
LEMMA UnscheduleGood ==
    ASSUME NEW c, NEW I, NEW n, NEW q, Good(c, I, n, q)
    PROVE  Good([c EXCEPT !.release = Never], I, n, q)
<1>0. c \in Controller(I) /\ I \subseteq Command /\ q \in Moment
  BY DEF Good, Sound
<1>2. [c EXCEPT !.release = Never] \in Controller(I)
  BY <1>0, Values DEF Controller, Sound
<1>3. Drive([c EXCEPT !.release = Never])
  BY <1>0, Assumptions DEF Good, Sound, Controller, Drive, Never, Due
<1>4. Lid([c EXCEPT !.release = Never])
  BY <1>0, Assumptions DEF Good, Sound, Controller, Lid, Closing, Bits, Status
<1>5. Response([c EXCEPT !.release = Never])
  BY <1>0, Assumptions DEF Good, Sound, Controller, Response, Never, Held, Due
<1>6. Quiet([c EXCEPT !.release = Never], q)
  BY <1>0, Assumptions DEF Good, Sound, Controller, Quiet, Moment, Entered, Outside, Never,
     Held, Due
<1>7. Sectors([c EXCEPT !.release = Never])
  BY <1>0, Assumptions DEF Good, Sound, Controller, Sectors, Ring, Slot
<1>8. Flow([c EXCEPT !.release = Never], n)
  BY <1>0, Assumptions DEF Good, Controller, Flow, Age, Never, Sound
<1> QED
  BY <1>0, <1>2, <1>3, <1>4, <1>5, <1>6, <1>7, <1>8 DEF Good, Sound

\* A due release is taken; in the handler's time there is none.
LEMMA ReleaseGood ==
    ASSUME NEW c, NEW I, NEW n, NEW q, Good(c, I, n, q)
    PROVE  /\ Good(Release(c), I, n, q) /\ Release(c).release # 0
           /\ q >= 0 => Release(c) = c
<1>0. c \in Controller(I)
  BY DEF Good, Sound
<1>1. CASE c.release # 0
  BY <1>1 DEF Release
<1>2. CASE c.release = 0
  <2>1. PICK e : e = [c EXCEPT !.release = Never]
    OBVIOUS
  <2>2. Good(e, I, n, q)
    BY <2>1, UnscheduleGood
  <2>3. e.release = Never
    BY <1>0, <2>1 DEF Controller
  <2>4. Good(PresentPended(e), I, n, q) /\ PresentPended(e).release \in {e.release, Never}
    BY <2>2, PresentPendedGood
  <2>5. Release(c) = PresentPended(e)
    BY <1>2, <2>1 DEF Release
  <2>6. ~(q >= 0)
    BY <1>2 DEF Good, Sound, Quiet, Moment, Entered, Never
  <2> QED
    BY <2>3, <2>4, <2>5, <2>6 DEF Never
<1> QED
  BY <1>1, <1>2

\* Raising the response changes neither the flag nor the pended notification.
LEMMA PresentKeeps ==
    ASSUME NEW c, NEW I, c \in Controller(I)
    PROVE  Present(c).flag = c.flag /\ Present(c).pended = c.pended
BY DEF Controller, Present

\* The whole of cdrom_advance.  A notification that was pended when it began, in
\* the time of a handler that has acknowledged, is pended still or the guest was
\* given something else.
LEMMA AdvanceByGood ==
    ASSUME NEW c, NEW I, NEW q, Good(c, I, 0, q), NEW k \in Nat, k > 0, q >= 0 => k <= q
    PROVE  /\ Good(AdvanceBy(c, k), I, 0, IF q >= 0 THEN q - k ELSE q)
           /\ q >= 0 /\ c.pended => AdvanceBy(c, k).pended \/ AdvanceBy(c, k).flag # DataReady
<1>0. q \in Int
  BY Assumptions DEF Good, Sound, Moment, Entered
<1>1. PICK p : p = IF q >= 0 THEN q - k ELSE q
  OBVIOUS
<1>2. q >= 0 => p >= 0
  BY <1>0, <1>1
<1> DEFINE D(e) == e.pended \/ e.flag \notin {0, DataReady}
<1>3. PICK c1 : c1 = Elapse(c, k)
  OBVIOUS
<1>4. Good(c1, I, k, p) /\ (c.pended => D(c1))
  BY <1>1, <1>3, ElapseGood
<1>5. PICK c2 : c2 = LidStep(c1)
  OBVIOUS
<1>6. Good(c2, I, k, p) /\ (D(c1) => D(c2))
  BY <1>4, <1>5, LidStepGood DEF Error, DataReady
<1>7. PICK c3 : c3 = Present(c2)
  OBVIOUS
<1>8. Good(c3, I, k, p) /\ (D(c2) => D(c3))
  <2>1. c2 \in Controller(I)
    BY <1>6 DEF Good, Sound
  <2> QED
    BY <1>6, <1>7, <2>1, PresentGood, PresentKeeps
<1>9. PICK c4 : c4 = ProcessPending(c3)
  OBVIOUS
<1>10. Good(c4, I, k, p) /\ (D(c3) => D(c4))
  BY <1>8, <1>9, ProcessPendingGood DEF Complete, Error, DataReady
<1>11. PICK c5 : c5 = TryQueued(c4)
  OBVIOUS
<1>12. Good(c5, I, k, p) /\ (D(c4) => D(c5))
  BY <1>10, <1>11, TryQueuedGood DEF Acknowledge, Error, DataReady
<1>13. PICK c6 : c6 = Release(c5)
  OBVIOUS
<1>14. Good(c6, I, k, p) /\ c6.release # 0 /\ (p >= 0 => c6 = c5)
  BY <1>12, <1>13, ReleaseGood
<1>15. PICK c7 : c7 = ReadStream(c6, k)
  OBVIOUS
<1>16. Good(c7, I, 0, p) /\ (D(c6) => D(c7))
  BY <1>14, <1>15, ReadStreamGood
<1>17. PICK c8 : c8 = LidStep(c7)
  OBVIOUS
<1>18. Good(c8, I, 0, p) /\ (D(c7) => D(c8))
  BY <1>16, <1>17, LidStepGood DEF Error, DataReady
<1>19. Good(Present(c8), I, 0, p) /\ (D(c8) => D(Present(c8)))
  <2>1. c8 \in Controller(I)
    BY <1>18 DEF Good, Sound
  <2> QED
    BY <1>18, <2>1, PresentGood, PresentKeeps
<1>20. AdvanceBy(c, k) = Present(c8)
  BY <1>3, <1>5, <1>7, <1>9, <1>11, <1>13, <1>15, <1>17 DEF AdvanceBy
<1>21. q >= 0 /\ c.pended => D(Present(c8))
  BY <1>2, <1>4, <1>6, <1>8, <1>10, <1>12, <1>14, <1>16, <1>18, <1>19
<1> QED
  BY <1>1, <1>19, <1>20, <1>21

-----------------------------------------------------------------------------
(***************************************************************************)
(* Acknowledgement, savestates and the registers.                          *)
(***************************************************************************)

\* The handler's acknowledgement clears the flag.
LEMMA FlagClearedGood ==
    ASSUME NEW c, NEW I, NEW p \in 0..IsrTime, Good(c, I, 0, Entered),
           c.release = Never
    PROVE  Good([c EXCEPT !.flag = 0, !.latched = FALSE], I, 0, p)
<1>0. c \in Controller(I) /\ I \subseteq Command /\ p \in Moment
  BY Assumptions DEF Good, Sound, Moment, Outside, Entered, Controller
<1>2. [c EXCEPT !.flag = 0, !.latched = FALSE] \in Controller(I)
  BY <1>0, Values DEF Controller, Sound
<1>3. Drive([c EXCEPT !.flag = 0, !.latched = FALSE])
  BY <1>0, Assumptions DEF Good, Sound, Controller, Drive, Never, Due
<1>4. Lid([c EXCEPT !.flag = 0, !.latched = FALSE])
  BY <1>0, Assumptions DEF Good, Sound, Controller, Lid, Closing, Bits, Status
<1>5. Response([c EXCEPT !.flag = 0, !.latched = FALSE])
  BY <1>0, Assumptions DEF Good, Sound, Controller, Response, Never, Held, Due
<1>6. Quiet([c EXCEPT !.flag = 0, !.latched = FALSE], p)
  BY <1>0, Assumptions DEF Good, Sound, Controller, Quiet, Moment, Entered, Outside, Never,
     Held, Due
<1>7. Sectors([c EXCEPT !.flag = 0, !.latched = FALSE])
  BY <1>0, Assumptions DEF Good, Sound, Controller, Sectors, Ring, Slot
<1>8. Flow([c EXCEPT !.flag = 0, !.latched = FALSE], 0)
  BY <1>0, Assumptions DEF Good, Controller, Flow, Age, Never, Sound
<1> QED
  BY <1>0, <1>2, <1>3, <1>4, <1>5, <1>6, <1>7, <1>8 DEF Good, Sound

\* The release of the pended sector is scheduled.
LEMMA ScheduleGood ==
    ASSUME NEW c, NEW I, NEW q, Good(c, I, 0, q),
           c.pended, c.flag # 0 => c.hold = Hold
    PROVE  Good([c EXCEPT !.release = ReleaseDelay], I, 0, q)
<1>0. c \in Controller(I) /\ I \subseteq Command /\ q \in Moment
  BY DEF Good, Sound
<1>2. [c EXCEPT !.release = ReleaseDelay] \in Controller(I)
  BY <1>0, Values DEF Controller, Sound
<1>3. Drive([c EXCEPT !.release = ReleaseDelay])
  BY <1>0, Assumptions DEF Good, Sound, Controller, Drive, Never, Due
<1>4. Lid([c EXCEPT !.release = ReleaseDelay])
  BY <1>0, Assumptions DEF Good, Sound, Controller, Lid, Closing, Bits, Status
<1>5. Response([c EXCEPT !.release = ReleaseDelay])
  BY <1>0, Assumptions DEF Good, Sound, Controller, Response, Never, Held, Due
<1>6. Quiet([c EXCEPT !.release = ReleaseDelay], q)
  BY <1>0, Assumptions DEF Good, Sound, Controller, Quiet, Moment, Entered, Outside, Never,
     Held, Due
<1>7. Sectors([c EXCEPT !.release = ReleaseDelay])
  BY <1>0, Assumptions DEF Good, Sound, Controller, Sectors, Ring, Slot
<1>8. Flow([c EXCEPT !.release = ReleaseDelay], 0)
  BY <1>0, Assumptions DEF Good, Controller, Flow, Age, Never, Sound
<1> QED
  BY <1>0, <1>2, <1>3, <1>4, <1>5, <1>6, <1>7, <1>8 DEF Good, Sound

\* The acknowledgement of a handler that has p cycles left: whatever it leads to,
\* the guest is not given the pended sector in it.
LEMMA AckIrqGood ==
    ASSUME NEW c, NEW I, Good(c, I, 0, Entered), NEW p \in 0..IsrTime
    PROVE  /\ Good(AckIrq(c), I, 0, p)
           /\ AckIrq(c).flag # DataReady
<1>0. c \in Controller(I)
  BY DEF Good, Sound
<1>1. c.flag # 0 /\ c.latched
  BY DEF Good, Sound, Quiet
<1>2. c.release = Never
  <2>1. c.release \in Never..ReleaseDelay /\ c.release <= 0 /\ c.release # 0
    BY <1>0, <1>1 DEF Controller, Due, Good, Sound, Response, Flow
  <2> QED
    BY <2>1, Assumptions DEF Never
<1>3. PICK e : e = [c EXCEPT !.flag = 0, !.latched = FALSE]
  OBVIOUS
<1>4. Good(e, I, 0, p) /\ e.flag = 0
  BY <1>0, <1>2, <1>3, FlagClearedGood DEF Controller
<1>5. PICK f : f = PresentLid(e)
  OBVIOUS
<1>6. Good(f, I, 0, p) /\ f.flag \in {0, Error} /\ (f.flag # 0 => f.hold = Hold)
  BY <1>4, <1>5, PresentLidGood
<1>7. PICK g : g = IF f.pended /\ f.release = Never THEN [f EXCEPT !.release = ReleaseDelay] ELSE f
  OBVIOUS
<1>8. Good(g, I, 0, p)
  <2>1. CASE f.pended /\ f.release = Never
    BY <1>6, <1>7, <2>1, ScheduleGood
  <2>2. CASE ~(f.pended /\ f.release = Never)
    BY <1>6, <1>7, <2>2
  <2> QED
    BY <2>1, <2>2
<1>9. g.flag \in {0, Error}
  <2>1. f \in Controller(I)
    BY <1>6 DEF Good, Sound
  <2> QED
    BY <1>6, <1>7, <2>1 DEF Controller
<1>10. PICK d : d = ProcessPending(g)
  OBVIOUS
<1>11. Good(d, I, 0, p) /\ d.flag \in {0, Complete, Error}
  BY <1>8, <1>9, <1>10, ProcessPendingGood
<1>12. Good(TryQueued(d), I, 0, p) /\ TryQueued(d).flag \in {0, Complete, Acknowledge, Error}
  BY <1>11, TryQueuedGood
<1>13. AckIrq(c) = TryQueued(d)
  BY <1>1, <1>3, <1>5, <1>7, <1>10 DEF AckIrq
<1> QED
  BY <1>12, <1>13 DEF Complete, Acknowledge, Error, DataReady

\* The scheduled release survives the wire.
LEMMA ReleaseOverWire ==
    ASSUME NEW c, NEW I, c \in Controller(I)
    PROVE  ParseRelease(EmitRelease(c)) = c.release
<1>1. c.release \in Never..ReleaseDelay
  BY DEF Controller, Due
<1> QED
  BY <1>1, Assumptions DEF ParseRelease, EmitRelease, Never

\* A controller loaded with the error of an open tray.
LEMMA RestoredOpenGood ==
    ASSUME NEW c, NEW I, NEW n, NEW q, NEW e, Good(c, I, n, q),
           e = [c EXCEPT !.open = TRUE, !.close = LidTime, !.shell = TRUE, !.lidIrq = FALSE],
           c.iso, "ERROR" \in c.stat
    PROVE  Good(e, I, n, q)
<1>0. c \in Controller(I) /\ I \subseteq Command /\ q \in Moment
  BY DEF Good, Sound
<1>2. e \in Controller(I)
  BY <1>0, Values DEF Controller, Sound
<1>3. Drive(e)
  BY <1>0, Assumptions DEF Good, Sound, Controller, Drive, Never, Due, Lid
<1>4. Lid(e)
  BY <1>0, Assumptions DEF Good, Sound, Controller, Lid, Closing, Bits, Status
<1>5. Response(e)
  BY <1>0, Assumptions DEF Good, Sound, Controller, Response, Never, Held, Due
<1>6. Quiet(e, q)
  BY <1>0, Assumptions DEF Good, Sound, Controller, Quiet, Moment, Entered, Outside, Never,
     Held, Due
<1>7. Sectors(e)
  BY <1>0, Assumptions DEF Good, Sound, Controller, Sectors, Ring, Slot
<1>8. Flow(e, n)
  BY <1>0, Assumptions DEF Good, Controller, Flow, Age, Never, Sound
<1> QED
  BY <1>0, <1>2, <1>3, <1>4, <1>5, <1>6, <1>7, <1>8 DEF Good, Sound

\* A controller loaded without it.
LEMMA RestoredGood ==
    ASSUME NEW c, NEW I, NEW n, NEW q, NEW b \in Bit, Good(c, I, n, q),
           ~(c.iso /\ {"ERROR", "SHELL"} \subseteq c.stat), b => c.iso
    PROVE  Good([c EXCEPT !.open = FALSE, !.close = 0, !.shell = b, !.lidIrq = FALSE], I, n, q)
<1>0. c \in Controller(I) /\ I \subseteq Command /\ q \in Moment
  BY DEF Good, Sound
<1>2. [c EXCEPT !.open = FALSE, !.close = 0, !.shell = b, !.lidIrq = FALSE] \in Controller(I)
  BY <1>0, Values DEF Controller, Sound
<1>3. Drive([c EXCEPT !.open = FALSE, !.close = 0, !.shell = b, !.lidIrq = FALSE])
  BY <1>0, Assumptions DEF Good, Sound, Controller, Drive, Never, Due
<1>4. Lid([c EXCEPT !.open = FALSE, !.close = 0, !.shell = b, !.lidIrq = FALSE])
  BY <1>0, Assumptions DEF Good, Sound, Controller, Lid, Closing, Bits, Status
<1>5. Response([c EXCEPT !.open = FALSE, !.close = 0, !.shell = b, !.lidIrq = FALSE])
  BY <1>0, Assumptions DEF Good, Sound, Controller, Response, Never, Held, Due
<1>6. Quiet([c EXCEPT !.open = FALSE, !.close = 0, !.shell = b, !.lidIrq = FALSE], q)
  BY <1>0, Assumptions DEF Good, Sound, Controller, Quiet, Moment, Entered, Outside, Never,
     Held, Due
<1>7. Sectors([c EXCEPT !.open = FALSE, !.close = 0, !.shell = b, !.lidIrq = FALSE])
  BY <1>0, Assumptions DEF Good, Sound, Controller, Sectors, Ring, Slot
<1>8. Flow([c EXCEPT !.open = FALSE, !.close = 0, !.shell = b, !.lidIrq = FALSE], n)
  BY <1>0, Assumptions DEF Good, Controller, Flow, Age, Never, Sound
<1> QED
  BY <1>0, <1>2, <1>3, <1>4, <1>5, <1>6, <1>7, <1>8 DEF Good, Sound

\* A controller saved and loaded is good, and while its tray is closed it is the
\* one that was saved, up to the shell latch.
LEMMA RestoreGood ==
    ASSUME NEW c, NEW I, NEW n, NEW q, Good(c, I, n, q)
    PROVE  /\ Good(Restore(c), I, n, q)
           /\ ~c.open => Restore(c) = [c EXCEPT !.shell = Restore(c).shell]
<1>0. c \in Controller(I)
  BY DEF Good, Sound
<1>1. ParseRelease(EmitRelease(c)) = c.release
  BY <1>0, ReleaseOverWire
<1>2. CASE c.iso /\ {"ERROR", "SHELL"} \subseteq c.stat
  <2>1. PICK e : e = [c EXCEPT !.open = TRUE, !.close = LidTime, !.shell = TRUE, !.lidIrq = FALSE]
    OBVIOUS
  <2>2. Good(e, I, n, q)
    BY <1>2, <2>1, RestoredOpenGood
  <2>3. Restore(c) = e
    BY <1>0, <1>1, <1>2, <2>1 DEF Restore, Controller
  <2>4. c.open
    BY <1>2 DEF Good, Sound, Lid
  <2> QED
    BY <2>2, <2>3, <2>4
<1>3. CASE ~(c.iso /\ {"ERROR", "SHELL"} \subseteq c.stat)
  <2>1. PICK b \in Bit : b = (c.iso /\ "SHELL" \in c.stat)
    BY DEF Bit
  <2>2. PICK e : e = [c EXCEPT !.open = FALSE, !.close = 0, !.shell = b, !.lidIrq = FALSE]
    OBVIOUS
  <2>3. b => c.iso
    BY <2>1
  <2>4. Good(e, I, n, q)
    BY <1>3, <2>2, <2>3, RestoredGood
  <2>5. Restore(c) = e
    BY <1>0, <1>1, <1>3, <2>1, <2>2 DEF Restore, Controller
  <2>6. e.shell = b
    BY <1>0, <2>2 DEF Controller
  <2>7. ~c.open => c.close = 0 /\ ~c.lidIrq
    BY DEF Good, Sound, Lid
  <2>8. ~c.open => e = [c EXCEPT !.shell = b]
    BY <1>0, <2>2, <2>7 DEF Controller, Bit
  <2> QED
    BY <2>4, <2>5, <2>6, <2>8
<1> QED
  BY <1>2, <1>3

\* The hold accumulator keeps what the session left in it.
LEMMA LoadedGood ==
    ASSUME NEW c, NEW I, NEW q, NEW b \in Nat, NEW z \in Bit, Good(c, I, 0, q),
           z => b = 0
    PROVE  Good([c EXCEPT !.blocked = b, !.budget = z], I, 0, q)
<1>0. c \in Controller(I) /\ I \subseteq Command /\ q \in Moment
  BY DEF Good, Sound
<1>2. [c EXCEPT !.blocked = b, !.budget = z] \in Controller(I)
  BY <1>0, Values DEF Controller, Sound
<1>3. Drive([c EXCEPT !.blocked = b, !.budget = z])
  BY <1>0, Assumptions DEF Good, Sound, Controller, Drive, Never, Due
<1>4. Lid([c EXCEPT !.blocked = b, !.budget = z])
  BY <1>0, Assumptions DEF Good, Sound, Controller, Lid, Closing, Bits, Status
<1>5. Response([c EXCEPT !.blocked = b, !.budget = z])
  BY <1>0, Assumptions DEF Good, Sound, Controller, Response, Never, Held, Due
<1>6. Quiet([c EXCEPT !.blocked = b, !.budget = z], q)
  BY <1>0, Assumptions DEF Good, Sound, Controller, Quiet, Moment, Entered, Outside, Never,
     Held, Due
<1>7. Sectors([c EXCEPT !.blocked = b, !.budget = z])
  BY <1>0, Assumptions DEF Good, Sound, Controller, Sectors, Ring, Slot
<1>8. Flow([c EXCEPT !.blocked = b, !.budget = z], 0)
  BY <1>0, Assumptions DEF Good, Controller, Flow, Age, Never, Sound
<1> QED
  BY <1>0, <1>2, <1>3, <1>4, <1>5, <1>6, <1>7, <1>8 DEF Good, Sound

\* The delays cut short stay positive, and a hold is not cut below the time a
\* handler takes or a release still needs.
LEMMA CapDelaysGood ==
    ASSUME NEW c, NEW I, NEW n, NEW q, Good(c, I, n, q)
    PROVE  Good(CapDelays(c), I, n, q)
<1>0. c \in Controller(I) /\ I \subseteq Command /\ q \in Moment
  BY DEF Good, Sound
<1>1. PICK h : h = IF c.hold > DelayCap THEN DelayCap ELSE c.hold
  OBVIOUS
<1>2. PICK d : d = IF c.delay > DelayCap THEN DelayCap ELSE c.delay
  OBVIOUS
<1>3. PICK w : w = [c.pending EXCEPT
                      !.left = IF c.pending.left > DelayCap THEN DelayCap ELSE c.pending.left]
  OBVIOUS
<1>4. PICK e : e = [c EXCEPT !.pending = w, !.hold = h, !.delay = d]
  OBVIOUS
<1>5. CapDelays(c) = e
  BY <1>1, <1>2, <1>3, <1>4 DEF CapDelays
<1>6. /\ c.hold \in 0..Hold /\ c.delay \in Nat /\ c.pending \in Pending
      /\ c.release \in Never..ReleaseDelay /\ q \in Int /\ q <= IsrTime
  BY <1>0, Assumptions DEF Controller, Held, Due, Moment, Entered
<1>7. h \in Held /\ h \in Nat
  BY <1>1, <1>6, Assumptions DEF Held
<1>8. d \in Nat /\ (d > 0 <=> c.delay > 0)
  BY <1>2, <1>6, Assumptions
<1>9. w \in Pending /\ w.op = c.pending.op /\ (c.pending.left = 0 => w.left = 0)
  BY <1>3, <1>6, Assumptions DEF Pending
<1>10. e \in Controller(I)
  BY <1>0, <1>4, <1>7, <1>8, <1>9 DEF Controller
<1>11. /\ e.hold = h /\ e.delay = d /\ e.pending = w /\ e.close = c.close /\ e.release = c.release
       /\ e.age = c.age /\ e.flag = c.flag /\ e.latched = c.latched /\ e.istat = c.istat
       /\ e.raised = c.raised /\ e.overwrote = c.overwrote /\ e.hasty = c.hasty
       /\ e.reading = c.reading /\ e.setloc = c.setloc /\ e.ahead = c.ahead
       /\ e.iso = c.iso /\ e.open = c.open /\ e.shell = c.shell /\ e.lidIrq = c.lidIrq
       /\ e.stat = c.stat /\ e.pended = c.pended /\ e.slot = c.slot /\ e.ring = c.ring
       /\ e.rd = c.rd /\ e.blocked = c.blocked /\ e.budget = c.budget
  BY <1>0, <1>4 DEF Controller
<1>12. Drive(e)
  BY <1>8, <1>9, <1>11 DEF Good, Sound, Drive
<1>13. Lid(e)
  BY <1>11 DEF Good, Sound, Lid
<1>14. Response(e)
  <2>1. c.hold = 0 => h = 0
    BY <1>1, Assumptions
  <2>2. c.release <= c.hold => c.release <= h
    BY <1>1, <1>6, Assumptions DEF Never
  <2> QED
    BY <2>1, <2>2, <1>11 DEF Good, Sound, Response
<1>15. Quiet(e, q)
  <2>1. c.hold > q => h > q
    BY <1>1, <1>6, Assumptions
  <2> QED
    BY <2>1, <1>11 DEF Good, Sound, Quiet
<1>16. Sectors(e)
  BY <1>11 DEF Good, Sound, Sectors
<1>17. Flow(e, n)
  BY <1>11 DEF Good, Flow
<1> QED
  BY <1>0, <1>5, <1>10, <1>12, <1>13, <1>14, <1>15, <1>16, <1>17 DEF Good, Sound

\* The vblanks after a load are counted.
LEMMA BoostGood ==
    ASSUME NEW c, NEW I, NEW n, NEW q, NEW b \in Bit, Good(c, I, n, q)
    PROVE  Good([c EXCEPT !.boost = b], I, n, q)
<1>0. c \in Controller(I) /\ I \subseteq Command /\ q \in Moment
  BY DEF Good, Sound
<1>2. [c EXCEPT !.boost = b] \in Controller(I)
  BY <1>0, Values DEF Controller, Sound
<1>3. Drive([c EXCEPT !.boost = b])
  BY <1>0, Assumptions DEF Good, Sound, Controller, Drive, Never, Due
<1>4. Lid([c EXCEPT !.boost = b])
  BY <1>0, Assumptions DEF Good, Sound, Controller, Lid, Closing, Bits, Status
<1>5. Response([c EXCEPT !.boost = b])
  BY <1>0, Assumptions DEF Good, Sound, Controller, Response, Never, Held, Due
<1>6. Quiet([c EXCEPT !.boost = b], q)
  BY <1>0, Assumptions DEF Good, Sound, Controller, Quiet, Moment, Entered, Outside, Never,
     Held, Due
<1>7. Sectors([c EXCEPT !.boost = b])
  BY <1>0, Assumptions DEF Good, Sound, Controller, Sectors, Ring, Slot
<1>8. Flow([c EXCEPT !.boost = b], n)
  BY <1>0, Assumptions DEF Good, Controller, Flow, Age, Never, Sound
<1> QED
  BY <1>0, <1>2, <1>3, <1>4, <1>5, <1>6, <1>7, <1>8 DEF Good, Sound

\* The handler clears bit 2 of I_STAT; nothing it stands for was raised.
LEMMA LeftGood ==
    ASSUME NEW c, NEW I, NEW q, Good(c, I, 0, q),
           q >= 0
    PROVE  Good([c EXCEPT !.istat = FALSE], I, 0, Outside)
<1>0. c \in Controller(I) /\ I \subseteq Command /\ Outside \in Moment
  BY Assumptions DEF Good, Sound, Moment, Outside, Entered, Controller
<1>2. [c EXCEPT !.istat = FALSE] \in Controller(I)
  BY <1>0, Values DEF Controller, Sound
<1>3. Drive([c EXCEPT !.istat = FALSE])
  BY <1>0, Assumptions DEF Good, Sound, Controller, Drive, Never, Due
<1>4. Lid([c EXCEPT !.istat = FALSE])
  BY <1>0, Assumptions DEF Good, Sound, Controller, Lid, Closing, Bits, Status
<1>5. Response([c EXCEPT !.istat = FALSE])
  BY <1>0, Assumptions DEF Good, Sound, Controller, Response, Never, Held, Due, Quiet
<1>6. Quiet([c EXCEPT !.istat = FALSE], Outside)
  BY <1>0, Assumptions DEF Good, Sound, Controller, Quiet, Moment, Entered, Outside, Never,
     Held, Due
<1>7. Sectors([c EXCEPT !.istat = FALSE])
  BY <1>0, Assumptions DEF Good, Sound, Controller, Sectors, Ring, Slot
<1>8. Flow([c EXCEPT !.istat = FALSE], 0)
  BY <1>0, Assumptions DEF Good, Controller, Flow, Age, Never, Sound
<1> QED
  BY <1>0, <1>2, <1>3, <1>4, <1>5, <1>6, <1>7, <1>8 DEF Good, Sound

\* The guest asks for data.
LEMMA BfrdGood ==
    ASSUME NEW c, NEW I, NEW n, NEW q, Good(c, I, n, q)
    PROVE  Good([c EXCEPT !.bfrd = TRUE], I, n, q)
<1>0. c \in Controller(I) /\ I \subseteq Command /\ q \in Moment
  BY DEF Good, Sound
<1>2. [c EXCEPT !.bfrd = TRUE] \in Controller(I)
  BY <1>0, Values DEF Controller, Sound
<1>3. Drive([c EXCEPT !.bfrd = TRUE])
  BY <1>0, Assumptions DEF Good, Sound, Controller, Drive, Never, Due
<1>4. Lid([c EXCEPT !.bfrd = TRUE])
  BY <1>0, Assumptions DEF Good, Sound, Controller, Lid, Closing, Bits, Status
<1>5. Response([c EXCEPT !.bfrd = TRUE])
  BY <1>0, Assumptions DEF Good, Sound, Controller, Response, Never, Held, Due
<1>6. Quiet([c EXCEPT !.bfrd = TRUE], q)
  BY <1>0, Assumptions DEF Good, Sound, Controller, Quiet, Moment, Entered, Outside, Never,
     Held, Due
<1>7. Sectors([c EXCEPT !.bfrd = TRUE])
  BY <1>0, Assumptions DEF Good, Sound, Controller, Sectors, Ring, Slot
<1>8. Flow([c EXCEPT !.bfrd = TRUE], n)
  BY <1>0, Assumptions DEF Good, Controller, Flow, Age, Never, Sound
<1> QED
  BY <1>0, <1>2, <1>3, <1>4, <1>5, <1>6, <1>7, <1>8 DEF Good, Sound

\* The guest asks no more.
LEMMA NoBfrdGood ==
    ASSUME NEW c, NEW I, NEW n, NEW q, Good(c, I, n, q)
    PROVE  Good([c EXCEPT !.bfrd = FALSE, !.fifo = FALSE], I, n, q)
<1>0. c \in Controller(I) /\ I \subseteq Command /\ q \in Moment
  BY DEF Good, Sound
<1>2. [c EXCEPT !.bfrd = FALSE, !.fifo = FALSE] \in Controller(I)
  BY <1>0, Values DEF Controller, Sound
<1>3. Drive([c EXCEPT !.bfrd = FALSE, !.fifo = FALSE])
  BY <1>0, Assumptions DEF Good, Sound, Controller, Drive, Never, Due
<1>4. Lid([c EXCEPT !.bfrd = FALSE, !.fifo = FALSE])
  BY <1>0, Assumptions DEF Good, Sound, Controller, Lid, Closing, Bits, Status
<1>5. Response([c EXCEPT !.bfrd = FALSE, !.fifo = FALSE])
  BY <1>0, Assumptions DEF Good, Sound, Controller, Response, Never, Held, Due
<1>6. Quiet([c EXCEPT !.bfrd = FALSE, !.fifo = FALSE], q)
  BY <1>0, Assumptions DEF Good, Sound, Controller, Quiet, Moment, Entered, Outside, Never,
     Held, Due
<1>7. Sectors([c EXCEPT !.bfrd = FALSE, !.fifo = FALSE])
  BY <1>0, Assumptions DEF Good, Sound, Controller, Sectors, Ring, Slot
<1>8. Flow([c EXCEPT !.bfrd = FALSE, !.fifo = FALSE], n)
  BY <1>0, Assumptions DEF Good, Controller, Flow, Age, Never, Sound
<1> QED
  BY <1>0, <1>2, <1>3, <1>4, <1>5, <1>6, <1>7, <1>8 DEF Good, Sound

\* The FIFO is drained.
LEMMA DrainedGood ==
    ASSUME NEW c, NEW I, NEW n, NEW q, Good(c, I, n, q)
    PROVE  Good([c EXCEPT !.fifo = FALSE], I, n, q)
<1>0. c \in Controller(I) /\ I \subseteq Command /\ q \in Moment
  BY DEF Good, Sound
<1>2. [c EXCEPT !.fifo = FALSE] \in Controller(I)
  BY <1>0, Values DEF Controller, Sound
<1>3. Drive([c EXCEPT !.fifo = FALSE])
  BY <1>0, Assumptions DEF Good, Sound, Controller, Drive, Never, Due
<1>4. Lid([c EXCEPT !.fifo = FALSE])
  BY <1>0, Assumptions DEF Good, Sound, Controller, Lid, Closing, Bits, Status
<1>5. Response([c EXCEPT !.fifo = FALSE])
  BY <1>0, Assumptions DEF Good, Sound, Controller, Response, Never, Held, Due
<1>6. Quiet([c EXCEPT !.fifo = FALSE], q)
  BY <1>0, Assumptions DEF Good, Sound, Controller, Quiet, Moment, Entered, Outside, Never,
     Held, Due
<1>7. Sectors([c EXCEPT !.fifo = FALSE])
  BY <1>0, Assumptions DEF Good, Sound, Controller, Sectors, Ring, Slot
<1>8. Flow([c EXCEPT !.fifo = FALSE], n)
  BY <1>0, Assumptions DEF Good, Controller, Flow, Age, Never, Sound
<1> QED
  BY <1>0, <1>2, <1>3, <1>4, <1>5, <1>6, <1>7, <1>8 DEF Good, Sound

\* The channel starts or ends.
LEMMA DmaGood ==
    ASSUME NEW c, NEW I, NEW n, NEW q, NEW b \in Bit, Good(c, I, n, q)
    PROVE  Good([c EXCEPT !.dma = b], I, n, q)
<1>0. c \in Controller(I) /\ I \subseteq Command /\ q \in Moment
  BY DEF Good, Sound
<1>2. [c EXCEPT !.dma = b] \in Controller(I)
  BY <1>0, Values DEF Controller, Sound
<1>3. Drive([c EXCEPT !.dma = b])
  BY <1>0, Assumptions DEF Good, Sound, Controller, Drive, Never, Due
<1>4. Lid([c EXCEPT !.dma = b])
  BY <1>0, Assumptions DEF Good, Sound, Controller, Lid, Closing, Bits, Status
<1>5. Response([c EXCEPT !.dma = b])
  BY <1>0, Assumptions DEF Good, Sound, Controller, Response, Never, Held, Due
<1>6. Quiet([c EXCEPT !.dma = b], q)
  BY <1>0, Assumptions DEF Good, Sound, Controller, Quiet, Moment, Entered, Outside, Never,
     Held, Due
<1>7. Sectors([c EXCEPT !.dma = b])
  BY <1>0, Assumptions DEF Good, Sound, Controller, Sectors, Ring, Slot
<1>8. Flow([c EXCEPT !.dma = b], n)
  BY <1>0, Assumptions DEF Good, Controller, Flow, Age, Never, Sound
<1> QED
  BY <1>0, <1>2, <1>3, <1>4, <1>5, <1>6, <1>7, <1>8 DEF Good, Sound

\* The configured speed applies.
LEMMA FastGood ==
    ASSUME NEW c, NEW I, NEW n, NEW q, Good(c, I, n, q)
    PROVE  Good([c EXCEPT !.fast = TRUE], I, n, q)
<1>0. c \in Controller(I) /\ I \subseteq Command /\ q \in Moment
  BY DEF Good, Sound
<1>2. [c EXCEPT !.fast = TRUE] \in Controller(I)
  BY <1>0, Values DEF Controller, Sound
<1>3. Drive([c EXCEPT !.fast = TRUE])
  BY <1>0, Assumptions DEF Good, Sound, Controller, Drive, Never, Due
<1>4. Lid([c EXCEPT !.fast = TRUE])
  BY <1>0, Assumptions DEF Good, Sound, Controller, Lid, Closing, Bits, Status
<1>5. Response([c EXCEPT !.fast = TRUE])
  BY <1>0, Assumptions DEF Good, Sound, Controller, Response, Never, Held, Due
<1>6. Quiet([c EXCEPT !.fast = TRUE], q)
  BY <1>0, Assumptions DEF Good, Sound, Controller, Quiet, Moment, Entered, Outside, Never,
     Held, Due
<1>7. Sectors([c EXCEPT !.fast = TRUE])
  BY <1>0, Assumptions DEF Good, Sound, Controller, Sectors, Ring, Slot
<1>8. Flow([c EXCEPT !.fast = TRUE], n)
  BY <1>0, Assumptions DEF Good, Controller, Flow, Age, Never, Sound
<1> QED
  BY <1>0, <1>2, <1>3, <1>4, <1>5, <1>6, <1>7, <1>8 DEF Good, Sound

\* Another disc is in the open tray, or none.
LEMMA IsoGood ==
    ASSUME NEW c, NEW I, NEW n, NEW q, NEW b \in Bit, Good(c, I, n, q),
           c.open, ~c.reading
    PROVE  Good([c EXCEPT !.iso = b], I, n, q)
<1>0. c \in Controller(I) /\ I \subseteq Command /\ q \in Moment
  BY DEF Good, Sound
<1>2. [c EXCEPT !.iso = b] \in Controller(I)
  BY <1>0, Values DEF Controller, Sound
<1>3. Drive([c EXCEPT !.iso = b])
  BY <1>0, Assumptions DEF Good, Sound, Controller, Drive, Never, Due
<1>4. Lid([c EXCEPT !.iso = b])
  BY <1>0, Assumptions DEF Good, Sound, Controller, Lid, Closing, Bits, Status
<1>5. Response([c EXCEPT !.iso = b])
  BY <1>0, Assumptions DEF Good, Sound, Controller, Response, Never, Held, Due
<1>6. Quiet([c EXCEPT !.iso = b], q)
  BY <1>0, Assumptions DEF Good, Sound, Controller, Quiet, Moment, Entered, Outside, Never,
     Held, Due
<1>7. Sectors([c EXCEPT !.iso = b])
  BY <1>0, Assumptions DEF Good, Sound, Controller, Sectors, Ring, Slot
<1>8. Flow([c EXCEPT !.iso = b], n)
  BY <1>0, Assumptions DEF Good, Controller, Flow, Age, Never, Sound
<1> QED
  BY <1>0, <1>2, <1>3, <1>4, <1>5, <1>6, <1>7, <1>8 DEF Good, Sound

-----------------------------------------------------------------------------
(***************************************************************************)
(* The actions.                                                            *)
(***************************************************************************)

\* The invariant holds when the machine is switched on.
LEMMA InitInv == Init => IInv
<1> SUFFICES ASSUME Init PROVE IInv
  OBVIOUS
<1>1. /\ session \in Sessions /\ session.issue \subseteq Command
      /\ session.most \in Nat /\ session.host \in Nat
  BY Assumptions DEF Init
<1>2. Guest /\ Now = Outside
  <2>1. Outside \in Outside..IsrTime /\ 0 \in 0..session.most /\ 0 \in 0..session.host
    BY <1>1, Assumptions DEF Outside
  <2>2. isr = Outside /\ ~acked /\ acked \in BOOLEAN /\ commands = 0 /\ host = 0
    BY DEF Init
  <2> QED
    BY <1>1, <2>1, <2>2 DEF Guest, Now
<1>3. PICK I : I = session.issue
  OBVIOUS
<1>4. PowerOn \in Controller(I)
  <2>1. {"MOTOR"} \in Bits
    BY DEF Bits, Status
  <2> QED
    BY <2>1, Values DEF PowerOn, Controller
<1>5. Drive(PowerOn)
  BY DEF PowerOn, Drive, NoPending
<1>6. Lid(PowerOn)
  BY DEF PowerOn, Lid
<1>7. Response(PowerOn)
  BY DEF PowerOn, Response
<1>8. Quiet(PowerOn, Outside)
  BY DEF PowerOn, Quiet, Outside, Entered
<1>9. Sectors(PowerOn)
  BY DEF PowerOn, Sectors, EmptySlot
<1>10. Flow(PowerOn, 0)
  BY DEF PowerOn, Flow, Never
<1>11. Outside \in Moment
  BY Assumptions DEF Outside, Moment, Entered
<1>12. Good(PowerOn, I, 0, Outside)
  BY <1>1, <1>3, <1>4, <1>5, <1>6, <1>7, <1>8, <1>9, <1>10, <1>11 DEF Good, Sound
<1> QED
  BY <1>2, <1>3, <1>12 DEF Init, IInv

\* The parts of the invariant as an action uses them, with the state named.
LEMMA Parts ==
    ASSUME IInv
    PROVE  /\ Guest /\ session.most \in Nat /\ session.host \in Nat
           /\ Good(cd, session.issue, 0, Now)
           /\ acked => Now = isr /\ isr \in 0..IsrTime
           /\ ~acked /\ isr # Outside => Now = Entered
           /\ isr = Outside => Now = Outside /\ ~acked
<1>1. session.most \in Nat /\ session.host \in Nat
  BY Assumptions DEF IInv, Guest
<1>2. isr \in Outside..IsrTime /\ (acked => isr # Outside)
  BY DEF IInv, Guest
<1>3. acked => isr \in 0..IsrTime
  BY <1>2, Assumptions DEF Outside
<1> QED
  BY <1>1, <1>2, <1>3 DEF IInv, Guest, Now

\* A controller that is good where the guest stays where it is.
LEMMA StaysInv ==
    ASSUME IInv, Good(cd', session.issue, 0, Now), session' = session, isr' = isr, acked' = acked,
           commands' \in 0..session.most, host' \in 0..session.host
    PROVE  IInv'
<1>1. Guest'
  BY DEF IInv, Guest
<1>2. Now' = Now
  BY DEF Now
<1> QED
  BY <1>1, <1>2 DEF IInv

\* Time passes.
LEMMA AdvanceInv ==
    ASSUME IInv, NEW k \in 1..MaxStep, Advance(k)
    PROVE  /\ IInv'
           /\ acked /\ cd.pended => cd'.pended \/ cd'.flag # DataReady
<1>0. /\ Guest /\ Good(cd, session.issue, 0, Now)
      /\ acked => Now = isr /\ isr \in 0..IsrTime
      /\ ~acked /\ isr # Outside => Now = Entered
      /\ isr = Outside => Now = Outside /\ ~acked
  BY Parts
<1>1. k \in Nat /\ k > 0
  BY Assumptions
<1>2. PICK q : q = Now
  OBVIOUS
<1>3. PICK c : c = cd
  OBVIOUS
<1>4. PICK I : I = session.issue
  OBVIOUS
<1>5. isr \in Outside..IsrTime /\ (isr = Outside \/ k <= isr)
  BY <1>0 DEF Guest, Advance
<1>6. q >= 0 => acked /\ q = isr
  BY <1>0, <1>2, <1>5 DEF Outside, Entered
<1>7. q >= 0 => k <= q
  BY <1>0, <1>5, <1>6
<1>8. PICK p : p = IF q >= 0 THEN q - k ELSE q
  OBVIOUS
<1>9. /\ Good(AdvanceBy(c, k), I, 0, p)
      /\ q >= 0 /\ c.pended => AdvanceBy(c, k).pended \/ AdvanceBy(c, k).flag # DataReady
  BY <1>0, <1>1, <1>2, <1>3, <1>4, <1>7, <1>8, AdvanceByGood
<1>10. isr' \in Outside..IsrTime /\ (isr # Outside => isr' # Outside /\ isr' = isr - k)
  BY <1>1, <1>5, Assumptions DEF Advance, Outside
<1>11. Guest'
  BY <1>0, <1>10 DEF Guest, Advance
<1>12. p = Now'
  <2>1. CASE acked
    <3>1. q = isr /\ isr \in 0..IsrTime
      BY <1>0, <1>2, <2>1
    <3>2. p = isr - k
      BY <1>8, <3>1, Assumptions
    <3>3. Now' = isr'
      BY <2>1 DEF Now, Advance
    <3> QED
      BY <3>1, <3>2, <3>3, <1>10 DEF Outside
  <2>2. CASE ~acked
    <3>1. q < 0 /\ p = q
      BY <1>0, <1>2, <1>6, <1>8, <2>2 DEF Outside, Entered
    <3>2. isr' = Outside <=> isr = Outside
      BY <1>10 DEF Advance
    <3>3. Now' = Now
      BY <2>2, <3>2 DEF Now, Advance
    <3> QED
      BY <3>1, <3>3, <1>2
  <2> QED
    BY <2>1, <2>2 DEF IInv, Guest
<1>13. cd' = AdvanceBy(c, k) /\ session' = session
  BY <1>3 DEF Advance
<1>14. IInv'
  BY <1>4, <1>9, <1>11, <1>12, <1>13 DEF IInv
<1>15. acked => q >= 0
  BY <1>0, <1>2, Assumptions
<1> QED
  BY <1>3, <1>9, <1>13, <1>14, <1>15

\* A command is written.
LEMMA WriteCommandInv ==
    ASSUME IInv, NEW cmd \in session.issue, WriteCommand(cmd)
    PROVE  IInv' /\ (cd.flag = 0 => cd'.flag \in {Acknowledge, Error})
<1>0. Guest /\ Good(cd, session.issue, 0, Now) /\ session.most \in Nat
  BY Parts
<1>1. PICK c : c = cd
  OBVIOUS
<1>2. PICK I : I = session.issue
  OBVIOUS
<1>3. PICK q : q = Now
  OBVIOUS
<1>4. Good(c, I, 0, q) /\ cmd \in I
  BY <1>0, <1>1, <1>2, <1>3
<1>5. /\ Good(QueueOrExec(c, cmd), I, 0, q)
      /\ c.flag = 0 => QueueOrExec(c, cmd).flag \in {Acknowledge, Error}
  BY <1>4, QueueOrExecGood
<1>6. cd' = QueueOrExec(c, cmd)
  BY <1>1 DEF WriteCommand
<1>7. commands' \in 0..session.most /\ host' \in 0..session.host
  BY <1>0 DEF Guest, WriteCommand
<1>8. IInv'
  BY <1>2, <1>3, <1>5, <1>6, <1>7, StaysInv DEF WriteCommand
<1> QED
  BY <1>1, <1>5, <1>6, <1>8

\* The guest enters its handler: the bit it saw stands for the response.
LEMMA EnterIsrInv ==
    ASSUME IInv, EnterIsr
    PROVE  IInv'
<1>0. /\ Guest /\ Good(cd, session.issue, 0, Now)
      /\ isr = Outside => Now = Outside /\ ~acked
  BY Parts
<1>1. Good(cd, session.issue, 0, Outside) /\ cd.istat
  BY <1>0 DEF EnterIsr
<1>2. Entered \in Moment
  BY Assumptions DEF Moment, Entered
<1>3. Quiet(cd, Entered)
  BY <1>1 DEF Good, Sound, Quiet, Entered, Outside
<1>4. Good(cd, session.issue, 0, Entered)
  BY <1>1, <1>2, <1>3 DEF Good, Sound
<1>5. isr' = IsrTime /\ IsrTime \in Outside..IsrTime /\ IsrTime # Outside /\ ~acked'
  BY Assumptions DEF EnterIsr, Outside
<1>6. Guest'
  BY <1>0, <1>5 DEF Guest, EnterIsr
<1>7. Now' = Entered
  BY <1>5 DEF Now
<1> QED
  BY <1>4, <1>6, <1>7 DEF IInv, EnterIsr

\* The handler acknowledges.
LEMMA AckControllerInv ==
    ASSUME IInv, AckController
    PROVE  IInv' /\ cd'.flag # DataReady
<1>0. /\ Guest /\ Good(cd, session.issue, 0, Now)
      /\ ~acked /\ isr # Outside => Now = Entered
  BY Parts
<1>1. isr \in 0..IsrTime
  <2>1. isr \in Outside..IsrTime /\ isr # Outside
    BY <1>0 DEF Guest, AckController
  <2> QED
    BY <2>1, Assumptions DEF Outside
<1>2. PICK c : c = cd
  OBVIOUS
<1>3. PICK I : I = session.issue
  OBVIOUS
<1>4. PICK p : p = isr
  OBVIOUS
<1>5. Good(c, I, 0, Entered)
  BY <1>0, <1>2, <1>3 DEF AckController
<1>6. Good(AckIrq(c), I, 0, p) /\ AckIrq(c).flag # DataReady
  BY <1>1, <1>4, <1>5, AckIrqGood
<1>7. Guest'
  BY <1>0, <1>1 DEF Guest, AckController
<1>8. Now' = p
  BY <1>4 DEF Now, AckController
<1> QED
  BY <1>2, <1>3, <1>6, <1>7, <1>8 DEF IInv, AckController

\* The handler ends.
LEMMA LeaveIsrInv ==
    ASSUME IInv, LeaveIsr
    PROVE  IInv' /\ cd'.pended = cd.pended /\ cd'.flag = cd.flag
<1>0. /\ Guest /\ Good(cd, session.issue, 0, Now)
      /\ acked => Now = isr /\ isr \in 0..IsrTime
  BY Parts
<1>1. PICK c : c = cd
  OBVIOUS
<1>2. PICK I : I = session.issue
  OBVIOUS
<1>3. PICK q : q = isr
  OBVIOUS
<1>4. Good(c, I, 0, q) /\ q >= 0
  BY <1>0, <1>1, <1>2, <1>3, Assumptions DEF LeaveIsr
<1>5. Good([c EXCEPT !.istat = FALSE], I, 0, Outside)
  BY <1>4, LeftGood
<1>6. Guest'
  <2>1. Outside \in Outside..IsrTime
    BY Assumptions DEF Outside
  <2>2. isr' = Outside /\ ~acked' /\ acked' \in BOOLEAN
    BY DEF LeaveIsr
  <2> QED
    BY <1>0, <2>1, <2>2 DEF Guest, LeaveIsr
<1>7. Now' = Outside
  BY DEF Now, LeaveIsr
<1>8. IInv'
  BY <1>1, <1>2, <1>5, <1>6, <1>7 DEF IInv, LeaveIsr
<1>9. [c EXCEPT !.istat = FALSE].pended = c.pended /\ [c EXCEPT !.istat = FALSE].flag = c.flag
  BY <1>4 DEF Good, Sound, Controller
<1> QED
  BY <1>1, <1>8, <1>9 DEF LeaveIsr

\* The guest sets or clears BFRD.
LEMMA RequestInv ==
    ASSUME IInv, NEW want \in BOOLEAN, Request(want)
    PROVE  IInv' /\ cd'.pended = cd.pended /\ cd'.flag = cd.flag
<1>0. Guest /\ Good(cd, session.issue, 0, Now)
  BY Parts
<1>1. PICK c : c = cd
  OBVIOUS
<1>2. PICK I : I = session.issue
  OBVIOUS
<1>3. PICK q : q = Now
  OBVIOUS
<1>4. Good(c, I, 0, q) /\ c \in Controller(I)
  BY <1>0, <1>1, <1>2, <1>3 DEF Good, Sound
<1>5. PICK e : e = [c EXCEPT !.bfrd = TRUE]
  OBVIOUS
<1>6. Good(cd', I, 0, q) /\ cd'.pended = c.pended /\ cd'.flag = c.flag
  <2>1. CASE want
    <3>1. Good(e, I, 0, q)
      BY <1>4, <1>5, BfrdGood
    <3>2. e \in Controller(I)
      BY <3>1 DEF Good, Sound
    <3>3. e.pended = c.pended /\ e.flag = c.flag
      BY <1>4, <1>5 DEF Controller
    <3>4. Good(LoadFifo(e, TRUE), I, 0, q)
      BY <3>1, LoadFifoGood
    <3>5. LoadFifo(e, TRUE).pended = e.pended /\ LoadFifo(e, TRUE).flag = e.flag
      BY <3>2 DEF LoadFifo, Controller
    <3>6. cd' = LoadFifo(e, TRUE)
      BY <1>1, <1>5, <2>1 DEF Request
    <3> QED
      BY <3>3, <3>4, <3>5, <3>6
  <2>2. CASE ~want
    <3>1. cd' = [c EXCEPT !.bfrd = FALSE, !.fifo = FALSE]
      BY <1>1, <2>2 DEF Request
    <3>2. Good([c EXCEPT !.bfrd = FALSE, !.fifo = FALSE], I, 0, q)
      BY <1>4, NoBfrdGood
    <3>3. /\ [c EXCEPT !.bfrd = FALSE, !.fifo = FALSE].pended = c.pended
          /\ [c EXCEPT !.bfrd = FALSE, !.fifo = FALSE].flag = c.flag
      BY <1>4 DEF Controller
    <3> QED
      BY <3>1, <3>2, <3>3
  <2> QED
    BY <2>1, <2>2
<1>7. commands' \in 0..session.most /\ host' \in 0..session.host
  BY <1>0 DEF Guest, Request
<1>8. IInv'
  BY <1>2, <1>3, <1>6, <1>7, StaysInv DEF Request
<1> QED
  BY <1>1, <1>6, <1>8

\* The sector in the FIFO is read.
LEMMA ReadDataInv ==
    ASSUME IInv, ReadData
    PROVE  IInv' /\ cd'.pended = cd.pended /\ cd'.flag = cd.flag
<1>0. Guest /\ Good(cd, session.issue, 0, Now)
  BY Parts
<1>1. PICK c : c = cd
  OBVIOUS
<1>2. PICK I : I = session.issue
  OBVIOUS
<1>3. PICK q : q = Now
  OBVIOUS
<1>4. Good(c, I, 0, q) /\ c \in Controller(I)
  BY <1>0, <1>1, <1>2, <1>3 DEF Good, Sound
<1>5. PICK e : e = [c EXCEPT !.fifo = FALSE]
  OBVIOUS
<1>6. Good(cd', I, 0, q) /\ cd'.pended = c.pended /\ cd'.flag = c.flag
  <2>1. Good(e, I, 0, q)
    BY <1>4, <1>5, DrainedGood
  <2>2. e.pended = c.pended /\ e.flag = c.flag
    BY <1>4, <1>5 DEF Controller
  <2>3. cd' = e
    BY <1>1, <1>5 DEF ReadData
  <2> QED
    BY <2>1, <2>2, <2>3
<1>7. commands' \in 0..session.most /\ host' \in 0..session.host
  BY <1>0 DEF Guest, ReadData
<1>8. IInv'
  BY <1>2, <1>3, <1>6, <1>7, StaysInv DEF ReadData
<1> QED
  BY <1>1, <1>6, <1>8

\* The channel latches the sector that is offered.
LEMMA DmaReadyInv ==
    ASSUME IInv, DmaReady
    PROVE  IInv' /\ cd'.pended = cd.pended /\ cd'.flag = cd.flag
<1>0. Guest /\ Good(cd, session.issue, 0, Now)
  BY Parts
<1>1. PICK c : c = cd
  OBVIOUS
<1>2. PICK I : I = session.issue
  OBVIOUS
<1>3. PICK q : q = Now
  OBVIOUS
<1>4. Good(c, I, 0, q) /\ c \in Controller(I)
  BY <1>0, <1>1, <1>2, <1>3 DEF Good, Sound
<1>5. PICK e : e = LoadFifo(c, FALSE)
  OBVIOUS
<1>6. Good(cd', I, 0, q) /\ cd'.pended = c.pended /\ cd'.flag = c.flag
  <2>1. Good(e, I, 0, q)
    BY <1>4, <1>5, LoadFifoGood
  <2>2. e.pended = c.pended /\ e.flag = c.flag
    BY <1>4, <1>5 DEF Controller, LoadFifo
  <2>3. cd' = e
    BY <1>1, <1>5 DEF DmaReady
  <2> QED
    BY <2>1, <2>2, <2>3
<1>7. commands' \in 0..session.most /\ host' \in 0..session.host
  BY <1>0 DEF Guest, DmaReady
<1>8. IInv'
  BY <1>2, <1>3, <1>6, <1>7, StaysInv DEF DmaReady
<1> QED
  BY <1>1, <1>6, <1>8

\* The channel starts or ends.
LEMMA DmaToggleInv ==
    ASSUME IInv, DmaToggle
    PROVE  IInv' /\ cd'.pended = cd.pended /\ cd'.flag = cd.flag
<1>0. Guest /\ Good(cd, session.issue, 0, Now)
  BY Parts
<1>1. PICK c : c = cd
  OBVIOUS
<1>2. PICK I : I = session.issue
  OBVIOUS
<1>3. PICK q : q = Now
  OBVIOUS
<1>4. Good(c, I, 0, q) /\ c \in Controller(I)
  BY <1>0, <1>1, <1>2, <1>3 DEF Good, Sound
<1>5. PICK b \in Bit : b = ~c.dma
  BY DEF Bit
<1>6. Good(cd', I, 0, q) /\ cd'.pended = c.pended /\ cd'.flag = c.flag
  <2>1. Good([c EXCEPT !.dma = b], I, 0, q)
    BY <1>4, DmaGood
  <2>2. [c EXCEPT !.dma = b].pended = c.pended /\ [c EXCEPT !.dma = b].flag = c.flag
    BY <1>4 DEF Controller
  <2>3. cd' = [c EXCEPT !.dma = b]
    BY <1>1, <1>5 DEF DmaToggle
  <2> QED
    BY <2>1, <2>2, <2>3
<1>7. commands' \in 0..session.most /\ host' \in 0..session.host
  BY <1>0 DEF Guest, DmaToggle
<1>8. IInv'
  BY <1>2, <1>3, <1>6, <1>7, StaysInv DEF DmaToggle
<1> QED
  BY <1>1, <1>6, <1>8

\* The configured speed applies.
LEMMA GameStartedInv ==
    ASSUME IInv, GameStarted
    PROVE  IInv' /\ cd'.pended = cd.pended /\ cd'.flag = cd.flag
<1>0. Guest /\ Good(cd, session.issue, 0, Now)
  BY Parts
<1>1. PICK c : c = cd
  OBVIOUS
<1>2. PICK I : I = session.issue
  OBVIOUS
<1>3. PICK q : q = Now
  OBVIOUS
<1>4. Good(c, I, 0, q) /\ c \in Controller(I)
  BY <1>0, <1>1, <1>2, <1>3 DEF Good, Sound
<1>5. PICK e : e = [c EXCEPT !.fast = TRUE]
  OBVIOUS
<1>6. Good(cd', I, 0, q) /\ cd'.pended = c.pended /\ cd'.flag = c.flag
  <2>1. Good(e, I, 0, q)
    BY <1>4, <1>5, FastGood
  <2>2. e.pended = c.pended /\ e.flag = c.flag
    BY <1>4, <1>5 DEF Controller
  <2>3. cd' = e
    BY <1>1, <1>5 DEF GameStarted
  <2> QED
    BY <2>1, <2>2, <2>3
<1>7. commands' \in 0..session.most /\ host' \in 0..session.host
  BY <1>0 DEF Guest, GameStarted
<1>8. IInv'
  BY <1>2, <1>3, <1>6, <1>7, StaysInv DEF GameStarted
<1> QED
  BY <1>1, <1>6, <1>8

\* The tray is opened and the disc put back.
LEMMA ReinsertInv ==
    ASSUME IInv, Reinsert
    PROVE  IInv' /\ (cd.flag = 0 => cd'.flag = Error)
<1>0. Guest /\ Good(cd, session.issue, 0, Now)
  BY Parts
<1>1. PICK c : c = cd
  OBVIOUS
<1>2. PICK I : I = session.issue
  OBVIOUS
<1>3. PICK q : q = Now
  OBVIOUS
<1>4. Good(c, I, 0, q) /\ c \in Controller(I)
  BY <1>0, <1>1, <1>2, <1>3 DEF Good, Sound
<1>6. Good(cd', I, 0, q) /\ (c.flag = 0 => cd'.flag = Error)
  <2>1. cd' = OpenTray(c)
    BY <1>1 DEF Reinsert, HostStep
  <2> QED
    BY <1>4, <2>1, OpenTrayGood
<1>7. commands' \in 0..session.most /\ host' \in 0..session.host /\ session.host \in Nat
  BY <1>0, Parts DEF Guest, Reinsert, HostStep
<1>8. IInv'
  BY <1>2, <1>3, <1>6, <1>7, StaysInv DEF Reinsert, HostStep
<1> QED
  BY <1>1, <1>6, <1>8

\* Another disc, or none, is put in the open tray.
LEMMA SelectDiscInv ==
    ASSUME IInv, NEW opens \in BOOLEAN, SelectDisc(opens)
    PROVE  IInv' /\ (cd.flag = 0 => cd'.flag = Error)
<1>0. Guest /\ Good(cd, session.issue, 0, Now)
  BY Parts
<1>1. PICK c : c = cd
  OBVIOUS
<1>2. PICK I : I = session.issue
  OBVIOUS
<1>3. PICK q : q = Now
  OBVIOUS
<1>4. Good(c, I, 0, q) /\ c \in Controller(I)
  BY <1>0, <1>1, <1>2, <1>3 DEF Good, Sound
<1>5. PICK e : e = OpenTray(c)
  OBVIOUS
<1>6. Good(cd', I, 0, q) /\ (c.flag = 0 => cd'.flag = Error)
  <2>1. Good(e, I, 0, q) /\ e.open /\ ~e.reading /\ (c.flag = 0 => e.flag = Error)
    BY <1>4, <1>5, OpenTrayGood
  <2>2. e \in Controller(I)
    BY <2>1 DEF Good, Sound
  <2>3. CASE opens
    <3>1. PICK d : d = ClearBuffers(e)
      OBVIOUS
    <3>2. Good(d, I, 0, q)
      BY <2>1, <3>1, ClearBuffersGood
    <3>3. d \in Controller(I) /\ d.open /\ ~d.reading /\ d.flag = e.flag
      BY <2>1, <2>2, <3>1, <3>2 DEF ClearBuffers, Controller, Good, Sound
    <3>4. Good([d EXCEPT !.iso = TRUE], I, 0, q)
      BY <3>2, <3>3, Values, IsoGood
    <3>5. [d EXCEPT !.iso = TRUE].flag = e.flag
      BY <3>3 DEF Controller
    <3>6. cd' = [d EXCEPT !.iso = TRUE]
      BY <1>1, <1>5, <2>3, <3>1 DEF SelectDisc, HostStep
    <3> QED
      BY <2>1, <3>4, <3>5, <3>6
  <2>4. CASE ~opens
    <3>1. Good([e EXCEPT !.iso = FALSE], I, 0, q)
      BY <2>1, Values, IsoGood
    <3>2. [e EXCEPT !.iso = FALSE].flag = e.flag
      BY <2>2 DEF Controller
    <3>3. cd' = [e EXCEPT !.iso = FALSE]
      BY <1>1, <1>5, <2>4 DEF SelectDisc, HostStep
    <3> QED
      BY <2>1, <3>1, <3>2, <3>3
  <2> QED
    BY <2>3, <2>4
<1>7. commands' \in 0..session.most /\ host' \in 0..session.host /\ session.host \in Nat
  BY <1>0, Parts DEF Guest, SelectDisc, HostStep
<1>8. IInv'
  BY <1>2, <1>3, <1>6, <1>7, StaysInv DEF SelectDisc, HostStep
<1> QED
  BY <1>1, <1>6, <1>8

\* Cutting delays short changes neither the flag nor the pended notification.
LEMMA CapDelaysKeeps ==
    ASSUME NEW c, NEW I, c \in Controller(I)
    PROVE  CapDelays(c).pended = c.pended /\ CapDelays(c).flag = c.flag
BY DEF CapDelays, Controller

\* A savestate is written and loaded.
LEMMA ReloadInv ==
    ASSUME IInv, NEW accelerate \in BOOLEAN, NEW blocked \in {0, Authentic}, Reload(accelerate, blocked)
    PROVE  IInv' /\ cd'.pended = cd.pended /\ cd'.flag = cd.flag
<1>0. Guest /\ Good(cd, session.issue, 0, Now)
  BY Parts
<1>1. PICK c : c = cd
  OBVIOUS
<1>2. PICK I : I = session.issue
  OBVIOUS
<1>3. PICK q : q = Now
  OBVIOUS
<1>4. Good(c, I, 0, q) /\ c \in Controller(I)
  BY <1>0, <1>1, <1>2, <1>3 DEF Good, Sound
<1>5. PICK d : d = Restore(c)
  OBVIOUS
<1>6. Good(cd', I, 0, q) /\ cd'.pended = c.pended /\ cd'.flag = c.flag
  <2>1. Good(d, I, 0, q)
    BY <1>4, <1>5, RestoreGood
  <2>2. d.pended = c.pended /\ d.flag = c.flag
    BY <1>4, <1>5 DEF Restore, Controller
  <2>3. PICK z \in Bit : z = (blocked = 0)
    BY DEF Bit
  <2>4. blocked \in Nat /\ (z => blocked = 0)
    BY <2>3, Assumptions
  <2>5. PICK e : e = [d EXCEPT !.blocked = blocked, !.budget = z]
    OBVIOUS
  <2>6. Good(e, I, 0, q)
    BY <2>1, <2>4, <2>5, LoadedGood
  <2>7. d \in Controller(I) /\ e \in Controller(I)
    BY <2>1, <2>6 DEF Good, Sound
  <2>8. e.pended = d.pended /\ e.flag = d.flag
    BY <2>5, <2>7 DEF Controller
  <2>9. cd' = IF accelerate THEN [CapDelays(e) EXCEPT !.boost = TRUE] ELSE e
    BY <1>1, <1>5, <2>3, <2>5 DEF Reload, HostStep
  <2>10. CASE accelerate
    <3>1. PICK g : g = CapDelays(e)
      OBVIOUS
    <3>2. Good(g, I, 0, q) /\ g.pended = e.pended /\ g.flag = e.flag
      BY <2>6, <2>7, <3>1, CapDelaysGood, CapDelaysKeeps
    <3>3. g \in Controller(I)
      BY <3>2 DEF Good, Sound
    <3>4. Good([g EXCEPT !.boost = TRUE], I, 0, q)
      BY <3>2, Values, BoostGood
    <3>5. [g EXCEPT !.boost = TRUE].pended = g.pended /\ [g EXCEPT !.boost = TRUE].flag = g.flag
      BY <3>3 DEF Controller
    <3>6. cd' = [g EXCEPT !.boost = TRUE]
      BY <2>9, <2>10, <3>1
    <3> QED
      BY <2>2, <2>8, <3>2, <3>4, <3>5, <3>6
  <2>11. CASE ~accelerate
    BY <2>2, <2>6, <2>8, <2>9, <2>11
  <2> QED
    BY <2>10, <2>11
<1>7. commands' \in 0..session.most /\ host' \in 0..session.host /\ session.host \in Nat
  BY <1>0, Parts DEF Guest, Reload, HostStep
<1>8. IInv'
  BY <1>2, <1>3, <1>6, <1>7, StaysInv DEF Reload, HostStep
<1> QED
  BY <1>1, <1>6, <1>8

\* A vblank after a load cuts the delays short again.
LEMMA BoostVblankInv ==
    ASSUME IInv, NEW last \in BOOLEAN, BoostVblank(last)
    PROVE  IInv' /\ cd'.pended = cd.pended /\ cd'.flag = cd.flag
<1>0. Guest /\ Good(cd, session.issue, 0, Now)
  BY Parts
<1>1. PICK c : c = cd
  OBVIOUS
<1>2. PICK I : I = session.issue
  OBVIOUS
<1>3. PICK q : q = Now
  OBVIOUS
<1>4. Good(c, I, 0, q) /\ c \in Controller(I)
  BY <1>0, <1>1, <1>2, <1>3 DEF Good, Sound
<1>5. PICK g : g = CapDelays(c)
  OBVIOUS
<1>6. Good(cd', I, 0, q) /\ cd'.pended = c.pended /\ cd'.flag = c.flag
  <2>1. Good(g, I, 0, q) /\ g.pended = c.pended /\ g.flag = c.flag
    BY <1>4, <1>5, CapDelaysGood, CapDelaysKeeps
  <2>2. g \in Controller(I)
    BY <2>1 DEF Good, Sound
  <2>3. PICK b \in Bit : b = ~last
    BY DEF Bit
  <2>4. Good([g EXCEPT !.boost = b], I, 0, q)
    BY <2>1, BoostGood
  <2>5. [g EXCEPT !.boost = b].pended = g.pended /\ [g EXCEPT !.boost = b].flag = g.flag
    BY <2>2 DEF Controller
  <2>6. cd' = [g EXCEPT !.boost = b]
    BY <1>1, <1>5, <2>3 DEF BoostVblank
  <2> QED
    BY <2>1, <2>4, <2>5, <2>6
<1>7. commands' \in 0..session.most /\ host' \in 0..session.host
  BY <1>0 DEF Guest, BoostVblank
<1>8. IInv'
  BY <1>2, <1>3, <1>6, <1>7, StaysInv DEF BoostVblank
<1> QED
  BY <1>1, <1>6, <1>8

-----------------------------------------------------------------------------
(***************************************************************************)
(* The theorems.                                                           *)
(***************************************************************************)

\* Every step keeps the invariant.
LEMMA StepInv == IInv /\ [Next]_vars => IInv'
<1> SUFFICES ASSUME IInv, [Next]_vars PROVE IInv'
  OBVIOUS
<1>1. CASE \E n \in 1..MaxStep : Advance(n)
  BY <1>1, AdvanceInv
<1>2. CASE \E cmd \in session.issue : WriteCommand(cmd)
  BY <1>2, WriteCommandInv
<1>3. CASE EnterIsr
  BY <1>3, EnterIsrInv
<1>4. CASE AckController
  BY <1>4, AckControllerInv
<1>5. CASE LeaveIsr
  BY <1>5, LeaveIsrInv
<1>6. CASE \E want \in BOOLEAN : Request(want)
  BY <1>6, RequestInv
<1>7. CASE ReadData
  BY <1>7, ReadDataInv
<1>8. CASE DmaReady
  BY <1>8, DmaReadyInv
<1>9. CASE DmaToggle
  BY <1>9, DmaToggleInv
<1>10. CASE GameStarted
  BY <1>10, GameStartedInv
<1>11. CASE Reinsert
  BY <1>11, ReinsertInv
<1>12. CASE \E opens \in BOOLEAN : SelectDisc(opens)
  BY <1>12, SelectDiscInv
<1>13. CASE \E accelerate \in BOOLEAN, blocked \in {0, Authentic} : Reload(accelerate, blocked)
  BY <1>13, ReloadInv
<1>14. CASE \E last \in BOOLEAN : BoostVblank(last)
  BY <1>14, BoostVblankInv
<1>15. CASE UNCHANGED vars
  <2>1. Guest' /\ Now' = Now /\ cd' = cd /\ session' = session
    BY <1>15 DEF IInv, Guest, Now, vars
  <2> QED
    BY <2>1 DEF IInv
<1> QED
  BY <1>1, <1>2, <1>3, <1>4, <1>5, <1>6, <1>7, <1>8, <1>9, <1>10, <1>11, <1>12, <1>13, <1>14,
     <1>15 DEF Next

\* The inductive invariant of the CD-ROM controller, for every number of buffers,
\* every delay and latency and every set of sessions.
THEOREM Invariance == Spec => []IInv
BY InitInv, StepInv, PTL DEF Spec

\* The types, and what they say of the drive, the position, the lid and a
\* scheduled release.
LEMMA TypeInv == IInv => TypeOK
<1> SUFFICES ASSUME IInv PROVE TypeOK
  OBVIOUS
<1>0. Guest /\ Good(cd, session.issue, 0, Now)
  BY Parts
<1>1. PICK c : c = cd
  OBVIOUS
<1>2. PICK I : I = session.issue
  OBVIOUS
<1>3. c \in Controller(I) /\ Drive(c) /\ Lid(c)
  BY <1>0, <1>1, <1>2 DEF Good, Sound
<1>4. /\ c.flag \in Code /\ c.hold \in Held /\ c.release \in Due /\ c.pending \in Pending
      /\ c.queued \in Queued(I) /\ c.stat \in Bits /\ c.ahead \in Int /\ c.ring \in Ring
      /\ c.rd \in Slots /\ c.wr \in Slots /\ c.slot \in Slots
      /\ c.fifo \in Bit /\ c.bfrd \in Bit /\ c.dma \in Bit /\ c.pended \in Bit
      /\ c.close \in Closing /\ c.mode \in Sizes /\ c.hasty \in Modes
  BY <1>3 DEF Controller
<1>5. c.pending = NoPending \/ c.pending.op \in TwoPhase
  <2>1. c.pending \in Pending /\ (c.pending.op = "none" => c.pending.left = 0)
    BY <1>3, <1>4 DEF Drive
  <2> QED
    BY <2>1 DEF Pending, NoPending
<1>6. {c.fifo, c.bfrd, c.dma, c.pended} \subseteq BOOLEAN
  BY <1>4 DEF Bit
<1>7. {c.rd, c.wr, c.slot} \subseteq Slots
  BY <1>4
<1>8. /\ c.reading <=> c.delay > 0
      /\ c.reading => c.iso /\ ~c.open
      /\ ~c.setloc => c.ahead = 0
      /\ c.release # Never => c.pended
      /\ c.lidIrq => c.open
  BY <1>3 DEF Drive, Lid
<1>9. /\ c.flag \in {0, DataReady, Complete, Acknowledge, Error}
      /\ c.hold \in 0..Hold /\ c.release \in Never..ReleaseDelay
      /\ c.queued \in I \cup {NoCmd} /\ c.stat \subseteq Status
      /\ c.ring \in [Slots -> Slot] /\ c.close \in 0..LidTime
      /\ c.mode \in Sizes /\ c.hasty \subseteq Sizes
  BY <1>4 DEF Code, Held, Due, Queued, Bits, Ring, Closing, Modes
<1>10. /\ isr \in Outside..IsrTime /\ acked \in BOOLEAN
       /\ commands \in 0..session.most /\ host \in 0..session.host
  BY <1>0 DEF Guest
<1> QED
  BY <1>1, <1>2, <1>4, <1>5, <1>6, <1>7, <1>8, <1>9, <1>10 DEF TypeOK

\* TypeOK: every field has its type; a release is scheduled only for a pended
\* sector, the drive turns only for a disc in a closed tray, and a tray stays
\* open until the guest could be told.
THEOREM TypeCorrect == Spec => []TypeOK
BY Invariance, TypeInv, PTL

\* The safety properties that the invariant contains.
LEMMA SafetyInv == IInv => OneAtATime /\ NoLostInterrupt /\ AnnouncedReadable /\ HeldNotLossier
<1> SUFFICES ASSUME IInv PROVE OneAtATime /\ NoLostInterrupt /\ AnnouncedReadable /\ HeldNotLossier
  OBVIOUS
<1>0. Good(cd, session.issue, 0, Now)
  BY Parts
<1>1. OneAtATime
  BY <1>0 DEF Good, Sound, Response, OneAtATime
<1>2. NoLostInterrupt
  BY <1>0 DEF Good, Sound, Response, NoLostInterrupt
<1>3. AnnouncedReadable
  BY <1>0 DEF Good, Sound, Sectors, AnnouncedReadable
<1>4. HeldNotLossier
  BY <1>0 DEF Good, Flow, HeldNotLossier
<1> QED
  BY <1>1, <1>2, <1>3, <1>4

\* OneAtATime: no response replaces one the guest has not acknowledged and none
\* is raised twice, whatever comes due while the flag is set.
THEOREM ResponsesOneAtATime == Spec => []OneAtATime
BY Invariance, SafetyInv, PTL

\* NoLostInterrupt: whatever the guest does inside its handler, and wherever a
\* savestate cuts the hold short, a response that was raised is never wiped out
\* by the handler's own write to I_STAT.
THEOREM InterruptsKept == Spec => []NoLostInterrupt
BY Invariance, SafetyInv, PTL

\* AnnouncedReadable: for any number of buffers the slot the guest reads from
\* holds the sector its interrupt announced.
THEOREM AnnouncedSectors == Spec => []AnnouncedReadable
BY Invariance, SafetyInv, PTL

\* HeldNotLossier: an accelerated drive loses no data sector's notification that the real
\* drive would have left waiting, also when the guest changes the sector size in between;
\* of whole sectors the code promises it too and does not keep it.
THEOREM HeldAsSafe == Spec => []HeldNotLossier
BY Invariance, SafetyInv, PTL

\* A good controller with its tray closed is what a savestate restores.
LEMMA RestoreInv == IInv => RestoreExact
<1> SUFFICES ASSUME IInv PROVE RestoreExact
  OBVIOUS
<1>0. Good(cd, session.issue, 0, Now)
  BY Parts
<1>1. PICK c : c = cd
  OBVIOUS
<1>2. PICK I : I = session.issue
  OBVIOUS
<1>3. PICK q : q = Now
  OBVIOUS
<1>4. ~c.open => Restore(c) = [c EXCEPT !.shell = Restore(c).shell]
  BY <1>0, <1>1, <1>2, <1>3, RestoreGood
<1> QED
  BY <1>1, <1>4 DEF RestoreExact

\* RestoreExact: a savestate taken at any point with the tray closed restores the
\* controller, a release on its way included.
THEOREM SavestatesExact == Spec => []RestoreExact
BY Invariance, RestoreInv, PTL

\* Every step leaves the pended sector to a later handler.
LEMMA DrainStep ==
    IInv /\ [Next]_vars =>
        (isr # Outside /\ cd.pended /\ (IF acked THEN cd.flag = 0 ELSE acked')
            => cd'.pended \/ cd'.flag # DataReady)
<1> SUFFICES ASSUME IInv, [Next]_vars, isr # Outside, cd.pended,
                    IF acked THEN cd.flag = 0 ELSE acked'
             PROVE  cd'.pended \/ cd'.flag # DataReady
  OBVIOUS
<1>0. acked \in BOOLEAN
  BY DEF IInv, Guest
<1>a. acked \/ acked'
  OBVIOUS
<1>1. CASE \E n \in 1..MaxStep : Advance(n)
  BY <1>1, <1>a, AdvanceInv DEF Advance
<1>2. CASE \E cmd \in session.issue : WriteCommand(cmd)
  BY <1>2, <1>a, WriteCommandInv DEF WriteCommand, Acknowledge, Error, DataReady
<1>3. CASE EnterIsr
  BY <1>3 DEF EnterIsr
<1>4. CASE AckController
  BY <1>4, AckControllerInv
<1>5. CASE LeaveIsr
  BY <1>5, LeaveIsrInv
<1>6. CASE \E want \in BOOLEAN : Request(want)
  BY <1>6, RequestInv
<1>7. CASE ReadData
  BY <1>7, ReadDataInv
<1>8. CASE DmaReady
  BY <1>8, DmaReadyInv
<1>9. CASE DmaToggle
  BY <1>9, DmaToggleInv
<1>10. CASE GameStarted
  BY <1>10, GameStartedInv
<1>11. CASE Reinsert
  BY <1>11, <1>a, ReinsertInv DEF Reinsert, HostStep, Error, DataReady
<1>12. CASE \E opens \in BOOLEAN : SelectDisc(opens)
  BY <1>12, <1>a, SelectDiscInv DEF SelectDisc, HostStep, Error, DataReady
<1>13. CASE \E accelerate \in BOOLEAN, blocked \in {0, Authentic} : Reload(accelerate, blocked)
  BY <1>13, ReloadInv
<1>14. CASE \E last \in BOOLEAN : BoostVblank(last)
  BY <1>14, BoostVblankInv
<1>15. CASE UNCHANGED vars
  BY <1>15 DEF vars
<1> QED
  BY <1>1, <1>2, <1>3, <1>4, <1>5, <1>6, <1>7, <1>8, <1>9, <1>10, <1>11, <1>12, <1>13, <1>14,
     <1>15 DEF Next

\* HandlerDrainsOwn: from its acknowledgement to its end a handler is not given
\* the sector whose interrupt was pended.
THEOREM HandlersDrainOwn == Spec => HandlerDrainsOwn
<1>1. IInv /\ [Next]_vars =>
        [isr # Outside /\ cd.pended /\ (IF acked THEN cd.flag = 0 ELSE acked')
            => cd'.pended \/ cd'.flag # DataReady]_vars
  BY DrainStep
<1> QED
  BY <1>1, Invariance, PTL DEF Spec, HandlerDrainsOwn

=============================================================================
