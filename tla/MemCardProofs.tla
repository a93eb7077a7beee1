---------------------------- MODULE MemCardProofs ----------------------------
(***************************************************************************)
(* Theorems about MemCard, for every number of writes and of faults and    *)
(* every setting of the slots.  The invariant is that of MemCardInv; each  *)
(* of its parts has one lemma, with one case per action.                   *)
(***************************************************************************)
EXTENDS MemCardInv, TLAPS

\* The images named in the model are images.
LEMMA ImageFacts == Blank \in Image /\ Foreign \in Image /\ Junk \in Image
  BY DEF Image, Blank, Foreign, Junk

\* An empty slot is a card.
LEMMA EmptyType == EmptyCard \in Card
  BY ImageFacts DEF EmptyCard, Card, Places, Tails

\* discard_extension drops the tail and leaves the card.
LEMMA DiscardFacts ==
    ASSUME NEW c \in Card
    PROVE  LET d == DiscardExtension(c) IN
           /\ d \in Card
           /\ d.data = c.data /\ d.path = c.path /\ (d.present <=> c.present)
           /\ (d.dirty <=> c.dirty) /\ d.result = c.result
           /\ ~d.readFailed
  <1>1. DiscardExtension(c) \in Card
    BY DEF DiscardExtension, Card, Tails
  <1>2. DiscardExtension(c).data = c.data /\ DiscardExtension(c).path = c.path
    BY DEF DiscardExtension, Card
  <1>3. (DiscardExtension(c).present <=> c.present) /\ (DiscardExtension(c).dirty <=> c.dirty)
    BY DEF DiscardExtension, Card
  <1>4. DiscardExtension(c).result = c.result /\ ~DiscardExtension(c).readFailed
    BY DEF DiscardExtension, Card
  <1> QED
    BY <1>1, <1>2, <1>3, <1>4

\* A card whose dirty flag was cleared, and one whose slot was emptied.
Cleaned(c) == [c EXCEPT !.dirty = FALSE]
Emptied(c) == [c EXCEPT !.present = FALSE, !.dirty = FALSE]

\* Clearing the dirty flag leaves the rest of the card.
LEMMA CleanFacts ==
    ASSUME NEW c \in Card
    PROVE  /\ Cleaned(c) \in Card /\ ~Cleaned(c).dirty
           /\ Cleaned(c).data = c.data /\ Cleaned(c).path = c.path
           /\ (Cleaned(c).present <=> c.present)
           /\ Cleaned(c).ext = c.ext /\ (Cleaned(c).readFailed <=> c.readFailed)
  <1>1. Cleaned(c) \in Card
    BY DEF Card, Cleaned
  <1> QED
    BY <1>1 DEF Card, Cleaned

\* Emptying a slot leaves its path.
LEMMA EmptyFacts ==
    ASSUME NEW c \in Card
    PROVE  /\ Emptied(c) \in Card /\ Emptied(c).path = c.path
           /\ ~Emptied(c).present /\ ~Emptied(c).dirty
  BY DEF Card, Emptied

\* load_card_image: the path and the flags a load keeps, and what it takes
\* from the file.
LEMMA LoadFacts ==
    ASSUME NEW c \in Card, NEW f \in Content, f.kind # "absent",
           NEW refused \in BOOLEAN, codec \in BOOLEAN
    PROVE  LET d == LoadCardImage(c, f, refused) IN
           /\ d \in Card
           /\ d.path = c.path /\ (d.dirty <=> c.dirty) /\ d.result = c.result
           /\ f.kind = "short" => ~d.present
           /\ f.kind = "whole" => d.present /\ d.data = f.base
           /\ f.kind = "whole" /\ f.tail = "big" => d.readFailed
           /\ f.kind = "whole" /\ f.tail # "big" => d.ext = f.tail
           /\ f.kind \in {"short", "whole"}
  <1> DEFINE b == DiscardExtension(c)
  <1>1. b \in Card /\ b.path = c.path /\ (b.dirty <=> c.dirty) /\ b.result = c.result
    BY DiscardFacts
  <1>2. CASE f = Short
    <2>1. LoadCardImage(c, f, refused) = [b EXCEPT !.data = Junk, !.present = FALSE]
      BY <1>2 DEF LoadCardImage, Short
    <2> HIDE DEF b
    <2>2. [b EXCEPT !.data = Junk, !.present = FALSE] \in Card
      BY <1>1, ImageFacts DEF Card
    <2> QED
      BY <1>1, <1>2, <2>1, <2>2 DEF Short, Card
  <1>3. CASE f \in [kind: {"whole"}, base: Image, tail: Tails]
    <2>1. CASE f.tail = "big"
      <3>1. LoadCardImage(c, f, refused)
              = [b EXCEPT !.data = f.base, !.present = TRUE, !.readFailed = TRUE]
        BY <1>3, <2>1 DEF LoadCardImage
      <3> HIDE DEF b
      <3>2. [b EXCEPT !.data = f.base, !.present = TRUE, !.readFailed = TRUE] \in Card
        BY <1>1, <1>3 DEF Card
      <3> QED
        BY <1>1, <1>3, <2>1, <3>1, <3>2 DEF Card
    <2>2. CASE f.tail # "big"
      <3>1. LoadCardImage(c, f, refused)
              = [b EXCEPT !.data = f.base, !.present = TRUE, !.ext = f.tail,
                          !.codecFailed = codec /\ refused]
        BY <1>3, <2>2 DEF LoadCardImage
      <3>0. (codec /\ refused) \in BOOLEAN
        OBVIOUS
      <3> HIDE DEF b
      <3>2. [b EXCEPT !.data = f.base, !.present = TRUE, !.ext = f.tail,
                      !.codecFailed = codec /\ refused] \in Card
        BY <1>1, <1>3, <3>0 DEF Card
      <3> QED
        BY <1>1, <1>3, <2>2, <3>1, <3>2 DEF Card
    <2> QED BY <2>1, <2>2
  <1>4. f = Short \/ f \in [kind: {"whole"}, base: Image, tail: Tails]
    BY DEF Content, Absent
  <1> QED BY <1>2, <1>3, <1>4

\* memcard_reload_bound: the slot shows its file, or nothing.
LEMMA ReloadFacts ==
    ASSUME NEW c \in Card, NEW f \in Content, NEW refused \in BOOLEAN, codec \in BOOLEAN
    PROVE  LET d == Reload(c, f, refused) IN
           /\ d \in Card
           /\ d.path = c.path /\ ~d.dirty
           /\ d.present => /\ f.kind = "whole" /\ c.path # "none" /\ d.data = f.base
                           /\ f.tail = "big" => d.readFailed
                           /\ f.tail # "big" => d.ext = f.tail
  <1>1. CASE c.path = "none" \/ f.kind = "absent"
    <2>1. Reload(c, f, refused) = Emptied(DiscardExtension(c))
      BY <1>1 DEF Reload, Emptied
    <2> QED
      BY <2>1, DiscardFacts, EmptyFacts
  <1>2. CASE ~(c.path = "none" \/ f.kind = "absent")
    <2>2. PICK e \in Card :
           /\ e = LoadCardImage(c, f, refused)
           /\ e.path = c.path
           /\ f.kind = "short" => ~e.present
           /\ f.kind = "whole" => e.present /\ e.data = f.base
           /\ f.kind = "whole" /\ f.tail = "big" => e.readFailed
           /\ f.kind = "whole" /\ f.tail # "big" => e.ext = f.tail
           /\ f.kind \in {"short", "whole"}
      BY <1>2, LoadFacts
    <2>1. Reload(c, f, refused) = Cleaned(e)
      BY <1>2, <2>2 DEF Reload, Cleaned
    <2>3. /\ Cleaned(e) \in Card /\ ~Cleaned(e).dirty
          /\ Cleaned(e).data = e.data /\ Cleaned(e).path = e.path
          /\ (Cleaned(e).present <=> e.present)
          /\ Cleaned(e).ext = e.ext /\ (Cleaned(e).readFailed <=> e.readFailed)
      BY CleanFacts
    <2> QED
      BY <1>2, <2>1, <2>2, <2>3
  <1> QED BY <1>1, <1>2

\* memcard_rebind_path leaves the slot with the path it is given.
LEMMA RebindFacts ==
    ASSUME NEW c \in Card, NEW p \in {"home", "none", "sandbox"}
    PROVE  /\ RebindPath(c, p) \in Card
           /\ RebindPath(c, p).path = p
           /\ p # "none" => RebindPath(c, p) = [c EXCEPT !.path = p]
  BY DEF RebindPath, Card, Places

\* The running operation and the rest of the handler.
LEMMA HeadTail ==
    ASSUME todo \in Seq(Op), todo # <<>>
    PROVE  /\ Head(todo) \in Op /\ Head(todo).s \in Slots /\ Head(todo) = todo[1]
           /\ Tail(todo) \in Seq(Op) /\ 1 \in Pos /\ Len(todo) \in Nat \ {0}
           /\ Len(Tail(todo)) = Len(todo) - 1
           /\ \A i \in 1..Len(Tail(todo)) : i + 1 \in Pos /\ Tail(todo)[i] = todo[i + 1]
  <1>1. Head(todo) \in Op /\ Head(todo) = todo[1] /\ Len(todo) \in Nat \ {0}
    OBVIOUS
  <1>2. Head(todo).s \in Slots
    BY <1>1 DEF Op
  <1>3. Tail(todo) \in Seq(Op) /\ Len(Tail(todo)) = Len(todo) - 1
    OBVIOUS
  <1>4. \A i \in 1..Len(Tail(todo)) : i + 1 \in Pos /\ Tail(todo)[i] = todo[i + 1]
    BY <1>1 DEF Pos
  <1> QED
    BY <1>1, <1>2, <1>3, <1>4 DEF Pos

\* The handler after its running operation was replaced.
LEMMA Replace ==
    ASSUME todo \in Seq(Op), todo # <<>>, NEW o \in Op
    PROVE  /\ <<o>> \o Tail(todo) \in Seq(Op)
           /\ Len(<<o>> \o Tail(todo)) = Len(todo)
           /\ (<<o>> \o Tail(todo))[1] = o
           /\ \A i \in Pos : i # 1 => (<<o>> \o Tail(todo))[i] = todo[i]
  BY HeadTail DEF Pos

\* What a step on one slot leaves alone.
OnlySlot(s) ==
    /\ card' \in [Slots -> Card]
    /\ \A t \in Slots : t # s => card'[t] = card[t]
\* Two cards that differ at most in the result of the last flush.
Alike(d, c) ==
    /\ d.data = c.data /\ d.path = c.path /\ d.ext = c.ext
    /\ (d.present <=> c.present) /\ (d.dirty <=> c.dirty)
    /\ (d.readFailed <=> c.readFailed) /\ (d.codecFailed <=> c.codecFailed)

\* A slot that gets a card holds it, and the other slot is as before.
LEMMA AssignSlot ==
    ASSUME card \in [Slots -> Card], NEW s \in Slots, NEW d \in Card,
           card' = [card EXCEPT ![s] = d]
    PROVE  OnlySlot(s) /\ card'[s] = d
  BY DEF OnlySlot

\* A step that leaves the cards alone.
LEMMA SameSlots ==
    ASSUME card \in [Slots -> Card], NEW s \in Slots, card' = card
    PROVE  OnlySlot(s) /\ Alike(card'[s], card[s])
  BY DEF OnlySlot, Alike

\* A step that records only the result of a flush.
LEMMA ResultSlot ==
    ASSUME card \in [Slots -> Card], NEW s \in Slots, NEW r \in {0, -1, -2},
           card' = [card EXCEPT ![s].result = r]
    PROVE  OnlySlot(s) /\ Alike(card'[s], card[s]) /\ card'[s].result = r
  <1> DEFINE c == card[s]
             d == [c EXCEPT !.result = r]
  <1>0. c \in Card
    OBVIOUS
  <1>1. d \in Card /\ d.data = c.data /\ d.path = c.path /\ d.ext = c.ext /\ d.result = r
    BY <1>0 DEF Card
  <1>2. /\ (d.present <=> c.present) /\ (d.dirty <=> c.dirty)
        /\ (d.readFailed <=> c.readFailed) /\ (d.codecFailed <=> c.codecFailed)
    BY <1>0 DEF Card
  <1>3. card' = [card EXCEPT ![s] = d]
    BY <1>0
  <1> QED
    BY <1>1, <1>2, <1>3, AssignSlot DEF Alike

\* memcard_flush up to the rename: the card is as before except for the
\* result, and a temporary is only made of a dirty card that is not blocked.
LEMMA FlushFacts ==
    ASSUME TypeOK, Flush
    PROVE  LET s == Head(todo).s IN
           /\ OnlySlot(s) /\ Alike(card'[s], card[s])
           /\ \/ temp' = NoTemp /\ (card'[s].result = 0 => ~card[s].dirty \/ card[s].path = "none")
              \/ /\ card[s].dirty /\ card[s].path # "none" /\ ~Blocked(card[s])
                 /\ \E t \in FlushTail(card[s]) : temp' = [kind |-> "temp", s |-> s, tail |-> t]
  <1> DEFINE s == Head(todo).s
             c == card[s]
  <1>1. s \in Slots /\ card \in [Slots -> Card] /\ temp = NoTemp
    BY HeadTail DEF TypeOK, Flush, Doing
  <1>2. CASE (~c.dirty \/ c.path = "none") /\ card' = card /\ temp' = temp
    BY <1>1, <1>2, SameSlots
  <1>3. CASE temp' = temp /\ \E r \in {-1, -2} : card' = [card EXCEPT ![s].result = r]
    <2>1. PICK r \in {-1, -2} : card' = [card EXCEPT ![s].result = r]
      BY <1>3
    <2>2. OnlySlot(s) /\ Alike(card'[s], card[s]) /\ card'[s].result = r
      BY <1>1, <2>1, ResultSlot
    <2> QED
      BY <1>1, <1>3, <2>1, <2>2
  <1>4. CASE /\ c.dirty /\ c.path # "none" /\ ~Blocked(c) /\ card' = card
             /\ \E t \in FlushTail(c) : temp' = [kind |-> "temp", s |-> s, tail |-> t]
    <2>1. OnlySlot(s) /\ Alike(card'[s], card[s])
      BY <1>1, <1>4, SameSlots
    <2> QED
      BY <1>4, <2>1
  <1> QED
    BY <1>2, <1>3, <1>4 DEF Flush

\* A card was published: only the flags, the result and the tail change.
Published(d, c, t) ==
    /\ d.data = c.data /\ d.path = c.path /\ d.ext = t /\ d.result = 0
    /\ (d.present <=> c.present) /\ ~d.dirty
    /\ (d.readFailed <=> c.readFailed) /\ (d.codecFailed <=> c.codecFailed)

\* The rename: the card was published, or is as before with result -1.
LEMMA RenameFacts ==
    ASSUME TypeOK, Rename
    PROVE  LET s == temp.s
               new == Whole(card[s].data, temp.tail) IN
           /\ s \in Slots /\ temp.tail \in Tails /\ OnlySlot(s)
           /\ temp' = NoTemp
           /\ \/ /\ Published(card'[s], card[s], temp.tail)
                 /\ IF card[s].path = "home"
                    THEN /\ disk' = [disk EXCEPT ![s] = new]
                         /\ survivors' = [survivors EXCEPT ![s] = @ \cup {new}]
                    ELSE disk' = disk /\ survivors' = survivors
                 /\ faults' = faults
              \/ /\ Alike(card'[s], card[s]) /\ card'[s].result = -1
                 /\ disk' = disk /\ survivors' = survivors
                 /\ faults < MaxFaults /\ faults' = faults + 1
  <1> DEFINE s == temp.s
             c == card[s]
             t == temp.tail
             new == Whole(c.data, t)
  <1>1. s \in Slots /\ t \in Tails /\ card \in [Slots -> Card] /\ c \in Card /\ temp' = NoTemp
    BY DEF TypeOK, Rename, NoTemp
  <1>2. CASE /\ IF c.path = "home"
                THEN /\ disk' = [disk EXCEPT ![s] = new]
                     /\ survivors' = [survivors EXCEPT ![s] = @ \cup {new}]
                ELSE UNCHANGED <<disk, survivors>>
             /\ card' = [card EXCEPT ![s].result = 0, ![s].dirty = FALSE, ![s].ext = t]
             /\ Sound
    <2> DEFINE d == [c EXCEPT !.result = 0, !.dirty = FALSE, !.ext = t]
    <2>1. card' = [card EXCEPT ![s] = d]
      BY <1>1, <1>2, Zenon
    <2>2. d \in Card
      BY <1>1 DEF Card
    <2>3. d.data = c.data /\ d.path = c.path /\ d.ext = t /\ d.result = 0
      BY <1>1 DEF Card
    <2>4. /\ (d.present <=> c.present) /\ ~d.dirty
          /\ (d.readFailed <=> c.readFailed) /\ (d.codecFailed <=> c.codecFailed)
      BY <1>1 DEF Card
    <2> HIDE DEF d
    <2>5. OnlySlot(s) /\ card'[s] = d
      BY <1>1, <2>1, <2>2, AssignSlot
    <2>6. Published(card'[s], card[s], t)
      BY <2>3, <2>4, <2>5 DEF Published
    <2> QED
      BY <1>1, <1>2, <2>5, <2>6 DEF Sound
  <1>3. CASE /\ card' = [card EXCEPT ![s].result = -1]
             /\ Faulty
             /\ UNCHANGED <<disk, survivors>>
    <2>1. OnlySlot(s) /\ Alike(card'[s], card[s]) /\ card'[s].result = -1
      BY <1>1, <1>3, ResultSlot
    <2> QED
      BY <1>1, <1>3, <2>1 DEF Faulty
  <1> QED
    BY <1>2, <1>3 DEF Rename

\* The format: a whole blank card and a present slot, or nothing.
LEMMA FormatFacts ==
    ASSUME TypeOK, Format
    PROVE  LET s == Head(todo).s IN
           /\ s \in Slots /\ OnlySlot(s)
           /\ card'[s].data = card[s].data /\ card'[s].path = card[s].path
           /\ (card'[s].dirty <=> card[s].dirty) /\ card'[s].ext = card[s].ext
           /\ card'[s].readFailed <=> card[s].readFailed
           /\ \/ /\ card'[s].present
                 /\ disk' = [disk EXCEPT ![s] = Whole(Blank, "none")]
                 /\ survivors' = [survivors EXCEPT ![s] = @ \cup {Whole(Blank, "none")}]
                 /\ faults' = faults
              \/ /\ card' = card /\ disk' = disk /\ survivors' = survivors
                 /\ faults < MaxFaults /\ faults' = faults + 1
  <1> DEFINE s == Head(todo).s
             c == card[s]
  <1>1. s \in Slots /\ card \in [Slots -> Card] /\ c \in Card /\ codec \in BOOLEAN
    BY HeadTail DEF TypeOK, Format, Doing
  <1>2. CASE /\ disk' = [disk EXCEPT ![s] = Whole(Blank, "none")]
             /\ survivors' = [survivors EXCEPT ![s] = @ \cup {Whole(Blank, "none")}]
             /\ \E refused \in BOOLEAN :
                   card' = [card EXCEPT ![s].present = TRUE,
                                        ![s].codecFailed = codec /\ refused]
             /\ Sound
    <2>1. PICK b \in BOOLEAN : card' = [card EXCEPT ![s].present = TRUE, ![s].codecFailed = b]
      BY <1>1, <1>2, Zenon
    <2> DEFINE d == [c EXCEPT !.present = TRUE, !.codecFailed = b]
    <2>2. card' = [card EXCEPT ![s] = d]
      BY <1>1, <2>1, Zenon
    <2>3. d \in Card
      BY <1>1 DEF Card
    <2>4. d.data = c.data /\ d.path = c.path /\ d.ext = c.ext
      BY <1>1 DEF Card
    <2>5. (d.dirty <=> c.dirty) /\ (d.readFailed <=> c.readFailed) /\ d.present
      BY <1>1 DEF Card
    <2> HIDE DEF d
    <2>6. OnlySlot(s) /\ card'[s] = d
      BY <1>1, <2>2, <2>3, AssignSlot
    <2> QED
      BY <1>1, <1>2, <2>4, <2>5, <2>6 DEF Sound
  <1>3. CASE Faulty /\ UNCHANGED <<card, disk, survivors>>
    BY <1>1, <1>3, SameSlots DEF Faulty, Alike
  <1> QED
    BY <1>2, <1>3 DEF Format

\* np_enter_guest_sandbox moves the slot to the file of the match.
LEMMA GuestFacts ==
    ASSUME TypeOK, GuestSlot
    PROVE  LET s == Head(todo).s
               skip == ~card[s].present /\ card[s].path = "none" IN
           /\ s \in Slots /\ OnlySlot(s)
           /\ card'[s].data = card[s].data /\ card'[s].path = "sandbox"
           /\ (card'[s].present <=> card[s].present)
           /\ card'[s].dirty <=> card[s].dirty \/ ~skip
  <1> DEFINE s == Head(todo).s
             c == card[s]
             skip == ~c.present /\ c.path = "none"
  <1>1. s \in Slots /\ card \in [Slots -> Card] /\ c \in Card
    BY HeadTail DEF TypeOK, GuestSlot, Doing
  <1>2. PICK b \in BOOLEAN : /\ b <=> c.dirty \/ ~skip
                             /\ card' = [card EXCEPT ![s].path = "sandbox", ![s].dirty = b]
    <2>1. CASE skip
      <3>1. card' = [card EXCEPT ![s].path = "sandbox", ![s].dirty = c.dirty]
        BY <1>1, <2>1 DEF GuestSlot
      <3>2. c.dirty \in BOOLEAN
        BY <1>1 DEF Card
      <3> QED
        BY <2>1, <3>1, <3>2, Zenon
    <2>2. CASE ~skip
      <3>1. card' = [card EXCEPT ![s].path = "sandbox", ![s].dirty = TRUE]
        BY <1>1, <2>2 DEF GuestSlot
      <3> QED
        BY <2>2, <3>1, Zenon
    <2> QED
      BY <2>1, <2>2
  <1> DEFINE d == [c EXCEPT !.path = "sandbox", !.dirty = b]
  <1>3. card' = [card EXCEPT ![s] = d]
    BY <1>1, <1>2
  <1>4. d \in Card
    BY <1>1 DEF Card, Places
  <1>5. d.data = c.data /\ d.path = "sandbox" /\ (d.present <=> c.present) /\ (d.dirty <=> b)
    BY <1>1 DEF Card
  <1> HIDE DEF d
  <1>6. OnlySlot(s) /\ card'[s] = d
    BY <1>1, <1>3, <1>4, AssignSlot
  <1> QED
    BY <1>1, <1>2, <1>5, <1>6

\* np_enter_host_card_sandbox moves the slot to the file of the match.
LEMMA HostFacts ==
    ASSUME TypeOK, HostSlot
    PROVE  LET s == Head(todo).s IN
           /\ s \in Slots /\ OnlySlot(s)
           /\ card'[s].data = card[s].data /\ card'[s].path = "sandbox"
           /\ (card'[s].present <=> card[s].present)
  <1> DEFINE s == Head(todo).s
             c == card[s]
             d == [c EXCEPT !.path = "sandbox"]
  <1>1. s \in Slots /\ card \in [Slots -> Card] /\ c \in Card
    BY HeadTail DEF TypeOK, HostSlot, Doing
  <1>3. card' = [card EXCEPT ![s] = d]
    BY <1>1 DEF HostSlot, RebindPath
  <1>4. d \in Card
    BY <1>1 DEF Card, Places
  <1>5. d.data = c.data /\ d.path = "sandbox" /\ (d.present <=> c.present)
    BY <1>1 DEF Card
  <1> HIDE DEF d
  <1>6. OnlySlot(s) /\ card'[s] = d
    BY <1>1, <1>3, <1>4, AssignSlot
  <1> QED
    BY <1>1, <1>5, <1>6

\* memcard_import_raw: the slot holds the card of another machine.
LEMMA ImportFacts ==
    ASSUME TypeOK, Import
    PROVE  LET s == Head(todo).s IN
           /\ s \in Slots /\ OnlySlot(s)
           /\ card'[s].data = Foreign /\ card'[s].path = card[s].path
           /\ card'[s].present /\ card'[s].dirty
  <1> DEFINE s == Head(todo).s
             c == card[s]
             e == DiscardExtension(c)
  <1>1. s \in Slots /\ card \in [Slots -> Card] /\ c \in Card /\ codec \in BOOLEAN
    BY HeadTail DEF TypeOK, Import, Doing
  <1>2. e \in Card /\ e.path = c.path
    BY <1>1, DiscardFacts
  <1>3. PICK b \in BOOLEAN :
          card' = [card EXCEPT ![s] = [e EXCEPT !.data = Foreign, !.present = TRUE,
                                               !.dirty = TRUE, !.codecFailed = b]]
    BY <1>1, Zenon DEF Import
  <1> HIDE DEF e
  <1> DEFINE d == [e EXCEPT !.data = Foreign, !.present = TRUE, !.dirty = TRUE, !.codecFailed = b]
  <1>4. d \in Card
    BY <1>2, ImageFacts DEF Card
  <1>5. d.data = Foreign /\ d.path = c.path /\ d.present /\ d.dirty
    BY <1>2 DEF Card
  <1>7. card' = [card EXCEPT ![s] = d]
    BY <1>3
  <1> HIDE DEF d
  <1>6. OnlySlot(s) /\ card'[s] = d
    BY <1>1, <1>7, <1>4, AssignSlot
  <1> QED
    BY <1>1, <1>5, <1>6

\* A sector write: the slot is dirty and holds the newest write.
LEMMA SioFacts ==
    ASSUME TypeOK, NEW s \in Slots, SioWrite(s)
    PROVE  /\ OnlySlot(s)
           /\ card'[s].data.n = writes + 1
           /\ card[s].path = "home" /\ card[s].data.origin = "home"
                => card'[s].data.origin = "home"
           /\ card'[s].path = card[s].path /\ card'[s].ext = card[s].ext
           /\ card'[s].present /\ card'[s].dirty
           /\ card'[s].readFailed <=> card[s].readFailed
  <1> DEFINE c == card[s]
             home == c.path = "home" /\ c.data.origin = "home"
             img == [origin |-> IF home THEN "home" ELSE "match", n |-> writes + 1]
             d == [c EXCEPT !.dirty = TRUE, !.data = img]
  <1>1. card \in [Slots -> Card] /\ c \in Card /\ writes + 1 \in Nat /\ c.present
    BY BoundsAssumption DEF TypeOK, SioWrite
  <1>2. img \in Image /\ img.n = writes + 1 /\ (home => img.origin = "home")
    BY <1>1 DEF Image
  <1>3. card' = [card EXCEPT ![s] = d]
    BY <1>1 DEF SioWrite
  <1> HIDE DEF img, home
  <1>4. d \in Card
    BY <1>1, <1>2 DEF Card
  <1>5. /\ d.data = img /\ d.path = c.path /\ d.ext = c.ext /\ (d.present <=> c.present) /\ d.dirty
        /\ d.readFailed <=> c.readFailed
    BY <1>1 DEF Card
  <1> HIDE DEF d
  <1>6. OnlySlot(s) /\ card'[s] = d
    BY <1>1, <1>3, <1>4, AssignSlot
  <1> QED
    BY <1>1, <1>2, <1>5, <1>6 DEF home

\* memcard_set_extension_codec changes only the verdict of the codec.
LEMMA CodecFacts ==
    ASSUME TypeOK, NEW on \in BOOLEAN, SetExtensionCodec(on)
    PROVE  /\ card' \in [Slots -> Card]
           /\ \A s \in Slots :
                /\ card'[s].data = card[s].data /\ card'[s].path = card[s].path
                /\ card'[s].ext = card[s].ext
                /\ (card'[s].present <=> card[s].present) /\ (card'[s].dirty <=> card[s].dirty)
                /\ card'[s].readFailed <=> card[s].readFailed
  <1> DEFINE b(s) == on /\ card[s].present
             d(s) == [card[s] EXCEPT !.codecFailed = b(s)]
  <1>1. ASSUME NEW s \in Slots
        PROVE  /\ card'[s] = d(s) /\ d(s) \in Card
               /\ d(s).data = card[s].data /\ d(s).path = card[s].path
               /\ d(s).ext = card[s].ext
               /\ (d(s).present <=> card[s].present) /\ (d(s).dirty <=> card[s].dirty)
               /\ d(s).readFailed <=> card[s].readFailed
    <2>1. card[s] \in Card
      BY DEF TypeOK
    <2>2. b(s) \in BOOLEAN
      OBVIOUS
    <2>3. card'[s] = d(s)
      BY DEF SetExtensionCodec
    <2> HIDE DEF b
    <2>4. d(s) \in Card
      BY <2>1, <2>2 DEF Card
    <2>5. /\ d(s).data = card[s].data /\ d(s).path = card[s].path
          /\ d(s).ext = card[s].ext
          /\ (d(s).present <=> card[s].present) /\ (d(s).dirty <=> card[s].dirty)
          /\ d(s).readFailed <=> card[s].readFailed
      BY <2>1, <2>2 DEF Card
    <2> QED
      BY <2>3, <2>4, <2>5
  <1>2. card' = [s \in Slots |-> d(s)]
    BY DEF SetExtensionCodec
  <1> HIDE DEF d
  <1>3. card' \in [Slots -> Card]
    BY <1>1, <1>2
  <1> QED
    BY <1>1, <1>3

\* Leaving a match: the paths come back and the slots show their files.
LEMMA RestoreFacts ==
    ASSUME TypeOK, NEW refused \in BOOLEAN, card' = RestoreCards(refused)
    PROVE  /\ card' \in [Slots -> Card]
           /\ \A s \in Slots :
                /\ card'[s].path = (IF np.role = "guest" \/ s = 1
                                    THEN np.personal[s] ELSE card[s].path)
                /\ ~card'[s].dirty
                /\ card'[s].present =>
                     /\ disk[s].kind = "whole" /\ card'[s].path # "none"
                     /\ card'[s].data = disk[s].base
                     /\ disk[s].tail = "big" => card'[s].readFailed
                     /\ disk[s].tail # "big" => card'[s].ext = disk[s].tail
  <1> DEFINE c(s) == IF np.role = "guest" \/ s = 1
                     THEN RebindPath(card[s], np.personal[s]) ELSE card[s]
             d(s) == Reload(c(s), disk[s], refused)
  <1>1. ASSUME NEW s \in Slots
        PROVE  /\ d(s) \in Card
               /\ d(s).path = (IF np.role = "guest" \/ s = 1
                                    THEN np.personal[s] ELSE card[s].path)
               /\ ~d(s).dirty
               /\ d(s).present =>
                     /\ disk[s].kind = "whole" /\ d(s).path # "none"
                     /\ d(s).data = disk[s].base
                     /\ disk[s].tail = "big" => d(s).readFailed
                     /\ disk[s].tail # "big" => d(s).ext = disk[s].tail
    <2>1. /\ card[s] \in Card /\ np.personal[s] \in {"home", "none"}
          /\ disk[s] \in Content /\ codec \in BOOLEAN
      BY DEF TypeOK, Session
    <2>2. PICK e \in Card : e = c(s) /\ e.path = (IF np.role = "guest" \/ s = 1
                                    THEN np.personal[s] ELSE card[s].path)
      BY <2>1, RebindFacts
    <2>3. d(s) = Reload(e, disk[s], refused)
      BY <2>2
    <2>4. PICK f \in Content : f = disk[s]
      BY <2>1
    <2>5. PICK g \in Card :
           /\ g = Reload(e, f, refused)
           /\ g.path = e.path /\ ~g.dirty
           /\ g.present => /\ f.kind = "whole" /\ e.path # "none" /\ g.data = f.base
                           /\ f.tail = "big" => g.readFailed
                           /\ f.tail # "big" => g.ext = f.tail
      BY <2>1, ReloadFacts
    <2> HIDE DEF c, d
    <2> QED
      BY <2>2, <2>3, <2>4, <2>5
  <1>2. card' = [s \in Slots |-> d(s)]
    BY DEF RestoreCards
  <1> HIDE DEF d
  <1>3. card' \in [Slots -> Card]
    BY <1>1, <1>2
  <1> QED
    BY <1>1, <1>2, <1>3

\* Mounting a file that opens.
LEMMA MountLoadFacts ==
    ASSUME TypeOK, NEW s \in Slots, card[s] = EmptyCard, disk[s].kind # "absent",
           NEW refused \in BOOLEAN,
           card' = [card EXCEPT ![s] = LoadCardImage([@ EXCEPT !.path = "home"], disk[s], refused)]
    PROVE  /\ OnlySlot(s)
           /\ card'[s].path = "home" /\ ~card'[s].dirty
           /\ disk[s].kind = "short" => ~card'[s].present
           /\ disk[s].kind = "whole" => card'[s].present /\ card'[s].data = disk[s].base
           /\ disk[s].kind = "whole" /\ disk[s].tail = "big" => card'[s].readFailed
           /\ disk[s].kind = "whole" /\ disk[s].tail # "big" => card'[s].ext = disk[s].tail
           /\ disk[s].kind \in {"short", "whole"}
  <1> DEFINE c == [EmptyCard EXCEPT !.path = "home"]
  <1>1. c \in Card /\ c.path = "home" /\ ~c.dirty
    BY EmptyType DEF Card, Places, EmptyCard
  <1>2. PICK f \in Content : f = disk[s]
    BY DEF TypeOK
  <1>3. card' = [card EXCEPT ![s] = LoadCardImage(c, f, refused)]
    BY <1>2 DEF TypeOK
  <1> HIDE DEF c
  <1>4. PICK d \in Card :
           /\ d = LoadCardImage(c, f, refused)
           /\ d.path = c.path /\ (d.dirty <=> c.dirty)
           /\ f.kind = "short" => ~d.present
           /\ f.kind = "whole" => d.present /\ d.data = f.base
           /\ f.kind = "whole" /\ f.tail = "big" => d.readFailed
           /\ f.kind = "whole" /\ f.tail # "big" => d.ext = f.tail
           /\ f.kind \in {"short", "whole"}
    BY <1>1, <1>2, LoadFacts DEF TypeOK
  <1>5. OnlySlot(s) /\ card'[s] = d
    BY <1>3, <1>4, AssignSlot DEF TypeOK
  <1> QED
    BY <1>1, <1>2, <1>4, <1>5

\* Mounting a file that does not open.
LEMMA MountBlankFacts ==
    ASSUME TypeOK, NEW s \in Slots, card[s] = EmptyCard,
           card' = [card EXCEPT ![s].path = "home", ![s].data = Blank]
    PROVE  /\ OnlySlot(s) /\ card'[s] = Formatted
           /\ card'[s].path = "home" /\ ~card'[s].present /\ ~card'[s].dirty
  <1>1. Formatted \in Card /\ Formatted.path = "home" /\ ~Formatted.present /\ ~Formatted.dirty
    BY EmptyType, ImageFacts DEF Formatted, Card, Places, EmptyCard
  <1>2. card' = [card EXCEPT ![s] = Formatted]
    BY DEF TypeOK, Formatted
  <1> QED
    BY <1>1, <1>2, AssignSlot DEF TypeOK

\* The handlers of a session start: mounts, of different slots, and then the
\* bindings of the seat, each slot once.
BootShape(t, role, gm) ==
    /\ t \in Seq(Op)
    /\ \A i \in 1..Len(t) :
         /\ t[i].op \in {"mount", "guest", "host", "flush"}
         /\ t[i].op = "guest" => role = "guest"
         /\ t[i].op = "host" => role = "host" /\ gm /\ t[i].s = 1
         /\ \A k \in 1..Len(t) : i < k =>
              /\ t[k].op = "mount" => t[i].op = "mount"
              /\ t[i].op = "mount" /\ t[k].op = "mount" => t[i].s # t[k].s
              /\ t[i].op \in {"guest", "host"} /\ t[k].op \in {"guest", "host"} => t[i].s # t[k].s
    /\ role = "guest" => \A s \in Slots : \E i \in 1..Len(t) : t[i] = Do("guest", s)
    /\ role = "host" /\ gm => \E i \in 1..Len(t) : t[i] = Do("host", 1)

\* An operation and its slot.
LEMMA OpFacts ==
    ASSUME NEW op \in {"mount", "format", "guest", "host", "import", "need", "flush",
            "ack", "restore", "match", "upload", "exit"}, NEW s \in Slots
    PROVE  Do(op, s) \in Op /\ Do(op, s).op = op /\ Do(op, s).s = s
  BY DEF Do, Op

\* Where the operations of two lists are in their concatenation.
LEMMA ConcatFacts ==
    ASSUME NEW a \in Seq(Op), NEW b \in Seq(Op)
    PROVE  /\ a \o b \in Seq(Op)
           /\ Len(a \o b) = Len(a) + Len(b)
           /\ \A i \in 1..Len(a) : i \in 1..Len(a \o b) /\ (a \o b)[i] = a[i]
           /\ \A i \in 1..Len(b) : i + Len(a) \in 1..Len(a \o b) /\ (a \o b)[i + Len(a)] = b[i]
           /\ \A i \in 1..Len(a \o b) :
                \/ i \in 1..Len(a) /\ (a \o b)[i] = a[i]
                \/ /\ i > Len(a) /\ i - Len(a) \in 1..Len(b)
                   /\ (a \o b)[i] = b[i - Len(a)]
  OBVIOUS

\* The handlers of a session start have the shape of one.
LEMMA BootFacts ==
    ASSUME NEW enabled \in SUBSET Slots, NEW role \in Role, NEW gm \in BOOLEAN
    PROVE  BootShape(BootScript(enabled, role, gm), role, gm)
  <1> DEFINE m(s) == IF s \in enabled THEN <<Do("mount", s)>> ELSE <<>>
             a == m(0) \o m(1)
             b == CASE role = "guest" -> <<Do("guest", 0), Do("guest", 1)>>
                  [] role = "host" /\ gm ->
                        <<Do("flush", 1), Do("host", 1)>>
                  [] OTHER -> <<>>
  <1>0. 0 \in Slots /\ 1 \in Slots
    BY DEF Slots
  <1>1. /\ a \in Seq(Op) /\ \A i \in 1..Len(a) : a[i].op = "mount"
        /\ \A i, k \in 1..Len(a) : i < k => a[i].s # a[k].s
    <2>1. CASE 0 \in enabled /\ 1 \in enabled
      <3>1. PICK x \in Op, y \in Op : x = Do("mount", 0) /\ y = Do("mount", 1)
        BY <1>0, OpFacts
      <3>2. a = <<x>> \o <<y>>
        BY <2>1, <3>1
      <3>4. /\ <<x>> \in Seq(Op) /\ Len(<<x>>) = 1 /\ <<x>>[1] = x
            /\ <<y>> \in Seq(Op) /\ Len(<<y>>) = 1 /\ <<y>>[1] = y
        OBVIOUS
      <3> HIDE DEF a
      <3>5. a \in Seq(Op) /\ Len(a) = 2
        BY <3>2, <3>4, ConcatFacts
      <3>6. a[1] = x
        BY <3>2, <3>4, ConcatFacts
      <3>7. a[2] = y
        BY <3>2, <3>4, ConcatFacts
      <3>3. Len(a) = 2 /\ a \in Seq(Op) /\ a[1] = x /\ a[2] = y
        BY <3>5, <3>6, <3>7
      <3> QED
        BY <1>0, <3>1, <3>3, OpFacts
    <2>2. CASE 0 \in enabled /\ 1 \notin enabled
      <3>1. a = <<Do("mount", 0)>>
        BY <2>2
      <3> QED
        BY <1>0, <3>1, OpFacts
    <2>3. CASE 0 \notin enabled /\ 1 \in enabled
      <3>1. a = <<Do("mount", 1)>>
        BY <2>3
      <3> QED
        BY <1>0, <3>1, OpFacts
    <2>4. CASE 0 \notin enabled /\ 1 \notin enabled
      <3>1. a = <<>>
        BY <2>4
      <3> QED
        BY <1>0, <3>1
    <2> QED
      BY <2>1, <2>2, <2>3, <2>4
  <1>2. /\ b \in Seq(Op)
        /\ \A i \in 1..Len(b) :
             /\ b[i].op \in {"guest", "host", "flush"}
             /\ b[i].op = "guest" => role = "guest"
             /\ b[i].op = "host" => role = "host" /\ gm /\ b[i].s = 1
        /\ \A i, k \in 1..Len(b) : i < k /\ b[i].op \in {"guest", "host"}
              /\ b[k].op \in {"guest", "host"} => b[i].s # b[k].s
        /\ role = "guest" => \A s \in Slots : \E i \in 1..Len(b) : b[i] = Do("guest", s)
        /\ role = "host" /\ gm => \E i \in 1..Len(b) : b[i] = Do("host", 1)
    <2>1. CASE role = "guest"
      <3>1. b = <<Do("guest", 0), Do("guest", 1)>>
        BY <2>1
      <3> QED
        BY <1>0, <2>1, <3>1, OpFacts DEF Slots
    <2>2. CASE role # "guest" /\ role = "host" /\ gm
      <3>1. b = <<Do("flush", 1), Do("host", 1)>>
        BY <2>2
      <3> QED
        BY <1>0, <2>2, <3>1, OpFacts
    <2>3. CASE role # "guest" /\ ~(role = "host" /\ gm)
      <3>1. b = <<>>
        BY <2>3
      <3> QED
        BY <2>3, <3>1
    <2> QED
      BY <2>1, <2>2, <2>3
  <1>3. BootScript(enabled, role, gm) = a \o b
    BY DEF BootScript
  <1> HIDE DEF a, b
  <1> DEFINE t == a \o b
  <1>4. /\ t \in Seq(Op) /\ Len(a) \in Nat /\ Len(b) \in Nat /\ Len(t) \in Nat
        /\ \A i \in 1..Len(b) : i + Len(a) \in 1..Len(t) /\ t[i + Len(a)] = b[i]
        /\ \A i \in 1..Len(t) :
                \/ i \in 1..Len(a) /\ t[i] = a[i]
                \/ /\ i > Len(a) /\ i - Len(a) \in 1..Len(b)
                   /\ t[i] = b[i - Len(a)]
    BY <1>1, <1>2, ConcatFacts
  <1> HIDE DEF t
  <1>5. role = "guest" => \A s \in Slots : \E i \in 1..Len(t) : t[i] = Do("guest", s)
    BY <1>2, <1>4
  <1>6. ASSUME role = "host", gm
        PROVE  \E i \in 1..Len(t) : t[i] = Do("host", 1)
    <2>1. PICK i \in 1..Len(b) : b[i] = Do("host", 1)
      BY <1>2, <1>6
    <2> QED
      BY <1>4, <2>1
  <1>7. ASSUME NEW i \in 1..Len(t)
        PROVE  /\ t[i].op \in {"mount", "guest", "host", "flush"}
               /\ t[i].op = "guest" => role = "guest"
               /\ t[i].op = "host" => role = "host" /\ gm /\ t[i].s = 1
    <2>1. CASE i \in 1..Len(a) /\ t[i] = a[i]
      BY <1>1, <2>1
    <2>2. CASE i - Len(a) \in 1..Len(b) /\ t[i] = b[i - Len(a)]
      BY <1>2, <2>2
    <2> QED
      BY <1>4, <2>1, <2>2
  <1>8. ASSUME NEW i \in 1..Len(t), NEW k \in 1..Len(t), i < k
        PROVE  /\ t[k].op = "mount" => t[i].op = "mount"
               /\ t[i].op = "mount" /\ t[k].op = "mount" => t[i].s # t[k].s
               /\ t[i].op \in {"guest", "host"} /\ t[k].op \in {"guest", "host"} => t[i].s # t[k].s
    <2>1. CASE k \in 1..Len(a) /\ t[k] = a[k]
      <3>1. i \in 1..Len(a) /\ t[i] = a[i]
        BY <1>4, <1>8, <2>1
      <3> QED
        BY <1>1, <1>8, <2>1, <3>1
    <2>2. CASE k - Len(a) \in 1..Len(b) /\ t[k] = b[k - Len(a)]
      <3>1. CASE i \in 1..Len(a) /\ t[i] = a[i]
        BY <1>1, <1>2, <2>2, <3>1
      <3>2. CASE i - Len(a) \in 1..Len(b) /\ t[i] = b[i - Len(a)]
        <4>1. i - Len(a) < k - Len(a)
          BY <1>4, <1>8
        <4> QED
          BY <1>2, <2>2, <3>2, <4>1
      <3> QED
        BY <1>4, <3>1, <3>2
    <2> QED
      BY <1>4, <2>1, <2>2
  <1> QED
    BY <1>3, <1>4, <1>5, <1>6, <1>7, <1>8 DEF BootShape, t

\* A list of operations of some kinds.
OpsIn(t, ops) == t \in Seq(Op) /\ \A i \in 1..Len(t) : t[i].op \in ops

\* A concatenation holds the operations of its parts.
LEMMA ConcatOps ==
    ASSUME NEW a, NEW b, NEW ops, OpsIn(a, ops), OpsIn(b, ops)
    PROVE  OpsIn(a \o b, ops)
  <1>1. a \in Seq(Op) /\ b \in Seq(Op)
    BY DEF OpsIn
  <1>2. a \o b \in Seq(Op)
    BY <1>1, ConcatFacts
  <1>3. ASSUME NEW i \in 1..Len(a \o b)
        PROVE  (a \o b)[i].op \in ops
    <2>1. CASE i \in 1..Len(a) /\ (a \o b)[i] = a[i]
      BY <2>1 DEF OpsIn
    <2>2. CASE i - Len(a) \in 1..Len(b) /\ (a \o b)[i] = b[i - Len(a)]
      BY <2>2 DEF OpsIn
    <2> QED
      BY <1>1, <2>1, <2>2, ConcatFacts
  <1> QED
    BY <1>2, <1>3 DEF OpsIn

\* The handler of a save: a flush, then the answer.
LEMMA SaveScript ==
    ASSUME NEW s \in Slots, todo' = <<Do("flush", s), Do("ack", s)>>
    PROVE  /\ OpsIn(todo', SaveOps) /\ Pos' = 1..2
           /\ todo'[1] = Do("flush", s) /\ todo'[2] = Do("ack", s)
  <1>1. PICK x \in Op, y \in Op : /\ x = Do("flush", s) /\ y = Do("ack", s)
                                  /\ x.op = "flush" /\ y.op = "ack"
    BY OpFacts
  <1>2. todo' = <<x, y>>
    BY <1>1
  <1> QED
    BY <1>1, <1>2 DEF OpsIn, SaveOps, Pos

\* The handlers that leave a match flush and restore.
LEMMA LeaveOpsIn == OpsIn(LeaveScript, LeaveOps)
  <1>0. 0 \in Slots /\ 1 \in Slots
    BY DEF Slots
  <1>1. PICK x \in Op, y \in Op, z \in Op, w \in Op :
          /\ x = Do("flush", 0) /\ y = Do("flush", 1)
          /\ z = Do("restore", 0) /\ w = Do("restore", 1)
          /\ x.op = "flush" /\ y.op = "flush" /\ z.op = "restore" /\ w.op = "restore"
    BY <1>0, OpFacts
  <1>2. CASE LeaveScript = <<x, y, z>>
    BY <1>1, <1>2 DEF OpsIn, LeaveOps
  <1>3. CASE LeaveScript = <<y, w>>
    BY <1>1, <1>3 DEF OpsIn, LeaveOps
  <1>4. CASE LeaveScript = <<>>
    BY <1>4 DEF OpsIn
  <1>5. CASE np.sandbox /\ np.role = "guest"
    BY <1>1, <1>2, <1>5 DEF LeaveScript
  <1>6. CASE ~(np.sandbox /\ np.role = "guest") /\ np.sandbox /\ np.role = "host"
    BY <1>1, <1>3, <1>6 DEF LeaveScript
  <1>7. CASE ~(np.sandbox /\ np.role = "guest") /\ ~(np.sandbox /\ np.role = "host")
    BY <1>4, <1>7 DEF LeaveScript
  <1> QED
    BY <1>5, <1>6, <1>7

\* The handlers of a session end.
LEMMA ExitOps ==
    ASSUME Shutdown
    PROVE  OpsIn(todo', LeaveOps)
  <1>0. 0 \in Slots /\ 1 \in Slots
    BY DEF Slots
  <1>1. PICK x \in Op, y \in Op, z \in Op :
          /\ x = Do("flush", 0) /\ y = Do("flush", 1) /\ z = Do("exit", 0)
          /\ x.op = "flush" /\ y.op = "flush" /\ z.op = "exit"
    BY <1>0, OpFacts
  <1>2. OpsIn(<<x, y, z>>, LeaveOps)
    BY <1>1 DEF OpsIn, LeaveOps
  <1>3. todo' = LeaveScript \o <<x, y, z>>
    BY <1>1 DEF Shutdown
  <1> QED
    BY <1>2, <1>3, LeaveOpsIn, ConcatOps

\* The handler of an agreement on the cards.
LEMMA MatchOps ==
    ASSUME todo' = <<Do("match", 0)>>
    PROVE  OpsIn(todo', {"match"})
  <1>1. PICK x \in Op : x = Do("match", 0) /\ x.op = "match"
    BY OpFacts DEF Slots
  <1>2. todo' = <<x>>
    BY <1>1
  <1> QED
    BY <1>1, <1>2 DEF OpsIn

\* The handler of the host's cards.
LEMMA BlobOps ==
    ASSUME NEW S \in SUBSET Slots, GuestBlob(S)
    PROVE  OpsIn(todo', {"import", "need", "match"})
  <1> DEFINE ops == {"import", "need", "match"}
             apply(s) == IF s \in S THEN <<Do("import", s), Do("need", s)>> ELSE <<>>
  <1>1. ASSUME NEW s \in Slots
        PROVE  OpsIn(apply(s), ops)
    <2>1. PICK x \in Op, y \in Op : /\ x = Do("import", s) /\ y = Do("need", s)
                                    /\ x.op = "import" /\ y.op = "need"
      BY OpFacts
    <2>2. CASE apply(s) = <<x, y>>
      BY <2>1, <2>2 DEF OpsIn
    <2>3. CASE apply(s) = <<>>
      BY <2>3 DEF OpsIn
    <2> QED
      BY <2>1, <2>2, <2>3
  <1>2. PICK x \in Op : x = Do("match", 0) /\ x.op = "match"
    BY OpFacts DEF Slots
  <1>3. OpsIn(<<x>>, ops)
    BY <1>2 DEF OpsIn
  <1>4. todo' = apply(0) \o apply(1) \o <<x>>
    BY <1>2 DEF GuestBlob
  <1> HIDE DEF apply, ops
  <1>5. OpsIn(apply(0) \o apply(1), ops)
    BY <1>1, ConcatOps DEF Slots
  <1> QED
    BY <1>3, <1>4, <1>5, ConcatOps DEF ops

\* The handler of the guest's card, once slot 2 is in the sandbox.
LEMMA UploadOps ==
    ASSUME NEW present \in BOOLEAN, HostUpload(present), np.sandbox
    PROVE  /\ OpsIn(todo', {"import", "upload"})
           /\ \A i \in Pos' : todo'[i].s = 1
  <1>1. PICK x \in Op, y \in Op : /\ x = Do("import", 1) /\ y = Do("upload", 1)
                                  /\ x.op = "import" /\ y.op = "upload" /\ x.s = 1 /\ y.s = 1
    BY OpFacts DEF Slots
  <1>2. CASE present
    <2>1. todo' = <<>> \o <<x, y>>
      BY <1>1, <1>2 DEF HostUpload, EnterHostCardSandbox
    <2>2. <<x, y>> \in Seq(Op)
      OBVIOUS
    <2>3. todo' = <<x, y>>
      BY <2>1, <2>2
    <2> QED
      BY <1>1, <2>3 DEF OpsIn, Pos
  <1>3. CASE ~present
    <2>1. todo' = <<y>>
      BY <1>1, <1>3 DEF HostUpload
    <2> QED
      BY <1>1, <2>1 DEF OpsIn, Pos
  <1> QED
    BY <1>2, <1>3

\* Every element of the handler is an operation on a slot.
LEMMA OpAt ==
    ASSUME todo \in Seq(Op), NEW k \in Pos
    PROVE  todo[k] \in Op /\ todo[k].s \in Slots
  <1>1. todo[k] \in Op
    BY DEF Pos
  <1> QED
    BY <1>1 DEF Op

\* Where the operations are once the first one was taken.
LEMMA PopPos ==
    ASSUME todo \in Seq(Op), todo # <<>>, todo' = Tail(todo)
    PROVE  /\ \A i \in Pos' : i \in Nat \ {0} /\ i + 1 \in Pos /\ todo'[i] = todo[i + 1]
           /\ \A i \in Pos : i # 1 => i - 1 \in Pos' /\ todo'[i - 1] = todo[i]
           /\ todo' \in Seq(Op)
  <1>1. /\ Pos' = 1..(Len(todo) - 1) /\ Pos = 1..Len(todo) /\ Len(todo) \in Nat \ {0}
        /\ \A i \in 1..(Len(todo) - 1) : todo'[i] = todo[i + 1]
        /\ todo' \in Seq(Op)
    BY HeadTail DEF Pos
  <1>2. \A i \in Pos' : i \in Nat \ {0} /\ i + 1 \in Pos /\ todo'[i] = todo[i + 1]
    BY <1>1
  <1>3. ASSUME NEW i \in Pos, i # 1
        PROVE  i - 1 \in Pos' /\ todo'[i - 1] = todo[i]
    <2>1. i - 1 \in Pos' /\ (i - 1) + 1 = i
      BY <1>1, <1>3
    <2> QED
      BY <1>1, <2>1
  <1> QED
    BY <1>1, <1>2, <1>3

\* Where the operations are once the first one was replaced.
LEMMA SwapPos ==
    ASSUME todo \in Seq(Op), todo # <<>>, NEW o \in Op, todo' = <<o>> \o Tail(todo)
    PROVE  /\ Pos' = Pos /\ 1 \in Pos /\ todo'[1] = o /\ todo' \in Seq(Op)
           /\ \A i \in Pos : i \in Nat \ {0} /\ (i # 1 => todo'[i] = todo[i])
  BY Replace, HeadTail DEF Pos

\* A machine that has just started.
Booted ==
    /\ card = [s \in Slots |-> EmptyCard]
    /\ temp = NoTemp
    /\ \E role \in Role, gm \in BOOLEAN :
         /\ gm => role = "host"
         /\ np = [Offline EXCEPT !.role = role, !.guestMemcard = gm, !.guestDone = ~gm]
         /\ BootShape(todo, role, gm)

\* A session start leaves a machine that has just started.
LEMMA BootStep ==
    ASSUME NEW enabled \in SlotSettings, NEW role \in Role, NEW gm \in BOOLEAN,
           gm => role = "host", Boot(enabled, role, gm)
    PROVE  Booted'
  <1>1. enabled \in SUBSET Slots
    BY BoundsAssumption DEF Slots
  <1>2. BootShape(todo', role, gm)
    BY <1>1, BootFacts DEF Boot
  <1>3. /\ card' = [s \in Slots |-> EmptyCard] /\ temp' = NoTemp
        /\ np' = [Offline EXCEPT !.role = role, !.guestMemcard = gm, !.guestDone = ~gm]
    BY DEF Boot
  <1> QED
    BY <1>2, <1>3, Zenon DEF Booted

\* A next session, a crash and a loss of power leave one too.
LEMMA BootNext ==
    ASSUME \/ \E enabled \in SlotSettings, role \in Role, gm \in BOOLEAN :
                Reboot(enabled, role, gm)
           \/ \E enabled \in SlotSettings : Crash(enabled)
           \/ PowerLoss
    PROVE  Booted'
  <1>0. FALSE \in BOOLEAN /\ "off" \in Role
    BY DEF Role
  <1>1. CASE \E enabled \in SlotSettings, role \in Role, gm \in BOOLEAN :
                Reboot(enabled, role, gm)
    BY <1>1, BootStep DEF Reboot, Start
  <1>2. CASE \E enabled \in SlotSettings : Crash(enabled)
    BY <1>0, <1>2, BootStep DEF Crash
  <1>3. CASE PowerLoss
    BY <1>0, <1>3, BootStep DEF PowerLoss
  <1> QED
    BY <1>1, <1>2, <1>3

\* The initial states are machines that have just started.
LEMMA BootInit ==
    ASSUME Init
    PROVE  Booted
  <1>1. PICK enabled \in SlotSettings, role \in Role, gm \in BOOLEAN :
         /\ (codec => role = "off") /\ (gm => role = "host")
         /\ np = [Offline EXCEPT !.role = role, !.guestMemcard = gm, !.guestDone = ~gm]
         /\ todo = BootScript(enabled, role, gm)
    BY DEF Init
  <1>2. enabled \in SUBSET Slots
    BY BoundsAssumption DEF Slots
  <1>3. BootShape(todo, role, gm)
    BY <1>1, <1>2, BootFacts
  <1>4. card = [s \in Slots |-> EmptyCard] /\ temp = NoTemp
    BY DEF Init
  <1> QED
    BY <1>1, <1>3, <1>4, Zenon DEF Booted

\* The types of what a session starts with.
BootTypes ==
    /\ card \in [Slots -> Card] /\ temp = NoTemp
    /\ todo \in Seq(Op) /\ np \in Session

\* A machine that has just started is well formed.
LEMMA BootedTypes == Booted => BootTypes
  <1> SUFFICES ASSUME Booted PROVE BootTypes
    OBVIOUS
  <1>1. PICK role \in Role, gm \in BOOLEAN :
         /\ np = [Offline EXCEPT !.role = role, !.guestMemcard = gm, !.guestDone = ~gm]
         /\ BootShape(todo, role, gm)
    BY DEF Booted
  <1>2. Offline \in Session
    BY DEF Offline, Session, Role
  <1>3. np \in Session
    BY <1>1, <1>2 DEF Session
  <1>4. card \in [Slots -> Card]
    BY EmptyType DEF Booted
  <1> QED
    BY <1>1, <1>3, <1>4 DEF Booted, BootShape, BootTypes

\* What a step on the file of one slot leaves alone.
OnlyFile(s, f) ==
    /\ disk' \in [Slots -> Content] /\ survivors' \in [Slots -> SUBSET Content]
    /\ disk'[s] = f /\ survivors'[s] = survivors[s] \cup {f}
    /\ \A t \in Slots : t # s => disk'[t] = disk[t] /\ survivors'[t] = survivors[t]

\* A file that gets new contents has them, and the other file is as before.
LEMMA AssignFile ==
    ASSUME TypeOK, NEW s \in Slots, NEW f \in Content,
           disk' = [disk EXCEPT ![s] = f],
           survivors' = [survivors EXCEPT ![s] = @ \cup {f}]
    PROVE  OnlyFile(s, f)
  <1>1. disk' \in [Slots -> Content] /\ disk'[s] = f
    BY DEF TypeOK
  <1>2. survivors[s] \cup {f} \in SUBSET Content
    BY DEF TypeOK
  <1>3. survivors' \in [Slots -> SUBSET Content] /\ survivors'[s] = survivors[s] \cup {f}
    BY <1>2 DEF TypeOK
  <1>4. \A t \in Slots : t # s => disk'[t] = disk[t] /\ survivors'[t] = survivors[t]
    BY DEF TypeOK
  <1> QED
    BY <1>1, <1>3, <1>4 DEF OnlyFile

\* A machine that has just started satisfies what the handlers rely on.
LEMMA BootedInv ==
    Booted => ScriptInv /\ BindInv /\ MountInv /\ FormatInv /\ HomeInv /\ TempInv /\ FileInv
  <1> SUFFICES ASSUME Booted
               PROVE  ScriptInv /\ BindInv /\ MountInv /\ FormatInv /\ HomeInv /\ TempInv /\ FileInv
    OBVIOUS
  <1>1. PICK role \in Role, gm \in BOOLEAN :
         /\ gm => role = "host"
         /\ np = [Offline EXCEPT !.role = role, !.guestMemcard = gm, !.guestDone = ~gm]
         /\ BootShape(todo, role, gm)
    BY DEF Booted
  <1>2. \A s \in Slots : card[s] = EmptyCard
    BY DEF Booted
  <1>3. EmptyCard.path = "none" /\ ~EmptyCard.present /\ ~EmptyCard.dirty
    BY DEF EmptyCard
  <1>4. np.role = role /\ (np.guestMemcard <=> gm)
    BY <1>1 DEF Offline
  <1>5. ScriptInv
    BY <1>1 DEF BootShape, ScriptInv, Within, BootOps, Pos
  <1>6. MountInv
    <2> SUFFICES ASSUME NEW k \in Pos, todo[k].op = "mount"
                 PROVE  /\ card[todo[k].s] = EmptyCard
                        /\ \A i \in Pos : i < k =>
                             todo[i].op \in {"mount", "format"} /\ todo[i].s # todo[k].s
      BY DEF MountInv
    <2>1. todo[k].s \in Slots
      BY <1>1, OpAt DEF BootShape
    <2>2. \A i \in Pos : i < k => todo[i].op = "mount" /\ todo[i].s # todo[k].s
      BY <1>1 DEF BootShape, Pos
    <2> QED
      BY <1>2, <2>1, <2>2
  <1>7. FormatInv
    BY <1>1 DEF BootShape, FormatInv, Pos
  <1>8. HomeInv /\ FileInv
    BY <1>2, <1>3 DEF HomeInv, FileInv
  <1>9. TempInv
    BY DEF Booted, TempInv
  <1>10. BindInv
    <2>1. \A s \in Slots : MatchSlot(s) => Unbound(s)
      <3> SUFFICES ASSUME NEW s \in Slots, MatchSlot(s) PROVE Unbound(s)
        OBVIOUS
      <3>1. CASE role = "guest"
        <4>1. PICK i \in Pos : todo[i] = Do("guest", s)
          BY <1>1, <3>1 DEF BootShape, Pos
        <4> QED
          BY <4>1, OpFacts DEF Unbound, Binds
      <3>2. CASE role = "host" /\ gm /\ s = 1
        <4>1. PICK i \in Pos : todo[i] = Do("host", s)
          BY <1>1, <3>2 DEF BootShape, Pos
        <4> QED
          BY <4>1, OpFacts DEF Unbound, Binds
      <3> QED
        BY <1>4, <3>1, <3>2 DEF MatchSlot
    <2>2. \A s \in Slots : Unbound(s) => MatchSlot(s)
      BY <1>1, <1>4 DEF BootShape, Unbound, Binds, MatchSlot, Pos
    <2>3. \A i, k \in Pos : i < k =>
            ~(\E s \in Slots : Binds(todo[i], s) /\ Binds(todo[k], s))
      BY <1>1 DEF BootShape, Binds, Pos
    <2>4. \A i \in Pos : todo[i].op # "import"
      BY <1>1 DEF BootShape, Pos
    <2>5. \A s \in Slots : card[s].path # "sandbox"
      BY <1>2, <1>3
    <2> QED
      BY <2>1, <2>2, <2>3, <2>4, <2>5 DEF BindInv
  <1> QED
    BY <1>5, <1>6, <1>7, <1>8, <1>9, <1>10

\* The slot about to be mounted is empty.
LEMMA MountHead ==
    ASSUME IInv, Mount
    PROVE  Head(todo).s \in Slots /\ card[Head(todo).s] = EmptyCard
  BY HeadTail DEF IInv, TypeOK, MountInv, Mount, Doing

\* The slot about to be bound is one of the match, not yet in its sandbox.
LEMMA BindHead ==
    ASSUME IInv, Doing("guest") \/ Doing("host")
    PROVE  LET s == Head(todo).s IN
           /\ s \in Slots /\ Unbound(s) /\ MatchSlot(s)
           /\ card[s].path \in {"home", "none"}
  <1>1. /\ todo \in Seq(Op) /\ todo # <<>> /\ Head(todo).op \in {"guest", "host"}
        /\ card \in [Slots -> Card]
    BY DEF IInv, TypeOK, Doing
  <1>2. Head(todo).s \in Slots /\ 1 \in Pos /\ Binds(todo[1], Head(todo).s)
    BY <1>1, HeadTail DEF Binds
  <1>3. Unbound(Head(todo).s)
    BY <1>2 DEF Unbound
  <1>4. MatchSlot(Head(todo).s) /\ card[Head(todo).s].path # "sandbox"
    BY <1>2, <1>3 DEF IInv, BindInv
  <1> QED
    BY <1>1, <1>2, <1>3, <1>4 DEF Card, Places

\* What a rename publishes is a whole card.
LEMMA RenameContent ==
    ASSUME TypeOK, Rename
    PROVE  temp.s \in Slots /\ Whole(card[temp.s].data, temp.tail) \in Content
  <1>1. temp.s \in Slots /\ temp.tail \in Tails /\ card[temp.s] \in Card
    BY RenameFacts DEF TypeOK
  <1>2. card[temp.s].data \in Image
    BY <1>1 DEF Card
  <1> QED
    BY <1>1, <1>2 DEF Content, Whole

\* When the guest's card arrives, slot 2 has been in the sandbox since the
\* session start: np_enter_host_card_sandbox has nothing left to do.
LEMMA HostBound ==
    ASSUME IInv, NEW present \in BOOLEAN, HostUpload(present)
    PROVE  np.sandbox /\ MatchSlot(1) /\ card[1].path = "sandbox"
  <1>1. Pos = {} /\ 1 \in Slots
    BY DEF HostUpload, Idle, Pos, Slots
  <1>2. MatchSlot(1) /\ ~Unbound(1)
    BY <1>1 DEF HostUpload, MatchSlot, Unbound
  <1> QED
    BY <1>1, <1>2 DEF IInv, BindInv

\* Every step keeps the cards well formed.
LEMMA CardType ==
    ASSUME IInv, [Next]_vars
    PROVE  card' \in [Slots -> Card]
  <1>1. CASE Mount
    <2> DEFINE s == Head(todo).s
    <2>1. s \in Slots /\ card[s] = EmptyCard
      BY <1>1, MountHead
    <2>2. CASE \E refused \in BOOLEAN : /\ disk[s].kind # "absent"
            /\ card' = [card EXCEPT ![s] =
                          LoadCardImage([@ EXCEPT !.path = "home"], disk[s], refused)]
      BY <2>1, <2>2, MountLoadFacts DEF IInv, OnlySlot
    <2>3. CASE card' = [card EXCEPT ![s].path = "home", ![s].data = Blank]
      BY <2>1, <2>3, MountBlankFacts DEF IInv, OnlySlot
    <2> QED
      BY <1>1, <2>2, <2>3 DEF Mount
  <1>2. CASE Format
    BY <1>2, FormatFacts DEF IInv, OnlySlot
  <1>3. CASE Flush
    BY <1>3, FlushFacts DEF IInv, OnlySlot
  <1>4. CASE Rename
    BY <1>4, RenameFacts DEF IInv, OnlySlot
  <1>5. CASE Ack
    BY <1>5 DEF Ack, IInv, TypeOK
  <1>6. CASE GuestSlot
    BY <1>6, GuestFacts DEF IInv, OnlySlot
  <1>7. CASE HostSlot
    BY <1>7, HostFacts DEF IInv, OnlySlot
  <1>8. CASE Import
    BY <1>8, ImportFacts DEF IInv, OnlySlot
  <1>9. CASE Need
    BY <1>9 DEF Need, IInv, TypeOK
  <1>10. CASE SyncDone
    BY <1>10 DEF SyncDone, IInv, TypeOK
  <1>11. CASE UploadDone
    BY <1>11 DEF UploadDone, IInv, TypeOK
  <1>12. CASE Restore
    <2>1. CASE np.sandbox
      BY <1>12, <2>1, RestoreFacts DEF Restore, IInv
    <2>2. CASE ~np.sandbox
      BY <1>12, <2>2 DEF Restore, IInv, TypeOK
    <2> QED
      BY <2>1, <2>2
  <1>13. ASSUME NEW s \in Slots, SioWrite(s)
        PROVE  card' \in [Slots -> Card]
    BY <1>13, SioFacts DEF IInv, OnlySlot
  <1>14. ASSUME NEW on \in BOOLEAN, SetExtensionCodec(on)
        PROVE  card' \in [Slots -> Card]
    BY <1>14, CodecFacts DEF IInv
  <1>15. ASSUME NEW present \in BOOLEAN, HostUpload(present)
        PROVE  card' \in [Slots -> Card]
    BY <1>15 DEF HostUpload, IInv, TypeOK
  <1>16. CASE HostSync
    BY <1>16 DEF HostSync, IInv, TypeOK
  <1>17. ASSUME NEW S \in SUBSET Slots, GuestBlob(S)
        PROVE  card' \in [Slots -> Card]
    BY <1>17 DEF GuestBlob, IInv, TypeOK
  <1>18. CASE Shutdown
    BY <1>18 DEF Shutdown, IInv, TypeOK
  <1>19. CASE Booted'
    <2>1. BootTypes'
      BY <1>19, BootedTypes, PTL
    <2> QED
      BY <2>1 DEF BootTypes
  <1>20. CASE Writeback
    BY <1>20 DEF Writeback, IInv, TypeOK
  <1>21. CASE UNCHANGED vars
    BY <1>21 DEF vars, IInv, TypeOK
  <1> QED
    BY <1>1, <1>2, <1>3, <1>4, <1>5, <1>6, <1>7, <1>8, <1>9, <1>10, <1>11, <1>12, <1>13,
       <1>14, <1>15, <1>16, <1>17, <1>18, <1>19, <1>20, <1>21, BootNext DEF Next

\* Every step keeps the handler a list of operations.
LEMMA TodoType ==
    ASSUME IInv, [Next]_vars
    PROVE  todo' \in Seq(Op)
  <1>1. CASE Mount
    <2>1. Do("format", Head(todo).s) \in Op /\ todo # <<>> /\ todo \in Seq(Op)
      BY <1>1, HeadTail, OpFacts DEF Mount, Doing, IInv, TypeOK
    <2>2. CASE todo' = Tail(todo)
      BY <2>1, <2>2, PopPos
    <2>3. CASE todo' = <<Do("format", Head(todo).s)>> \o Tail(todo)
      BY <2>1, <2>3, SwapPos
    <2> QED
      BY <1>1, <2>2, <2>3 DEF Mount
  <1>2. CASE Format
    BY <1>2, PopPos DEF Format, Doing, IInv, TypeOK
  <1>3. CASE Flush
    BY <1>3, PopPos DEF Flush, Doing, IInv, TypeOK
  <1>4. CASE Rename
    BY <1>4 DEF Rename, IInv, TypeOK
  <1>5. CASE Ack
    BY <1>5, PopPos DEF Ack, Doing, IInv, TypeOK
  <1>6. CASE GuestSlot
    <2>1. Do("flush", Head(todo).s) \in Op /\ todo # <<>> /\ todo \in Seq(Op)
      BY <1>6, HeadTail, OpFacts DEF GuestSlot, Doing, IInv, TypeOK
    <2>2. CASE todo' = Tail(todo)
      BY <2>1, <2>2, PopPos
    <2>3. CASE todo' = <<Do("flush", Head(todo).s)>> \o Tail(todo)
      BY <2>1, <2>3, SwapPos
    <2> QED
      BY <1>6, <2>2, <2>3 DEF GuestSlot
  <1>7. CASE HostSlot
    BY <1>7, PopPos DEF HostSlot, Doing, IInv, TypeOK
  <1>8. CASE Import
    <2>1. Do("flush", Head(todo).s) \in Op /\ todo # <<>> /\ todo \in Seq(Op)
      BY <1>8, HeadTail, OpFacts DEF Import, Doing, IInv, TypeOK
    <2> QED
      BY <1>8, <2>1, SwapPos DEF Import
  <1>9. CASE Need
    <2>1. todo # <<>> /\ todo \in Seq(Op)
      BY <1>9 DEF Need, Doing, IInv, TypeOK
    <2>2. CASE todo' = Tail(todo)
      BY <2>1, <2>2, PopPos
    <2>3. CASE todo' = <<>>
      BY <2>3
    <2> QED
      BY <1>9, <2>2, <2>3 DEF Need
  <1>10. CASE SyncDone
    BY <1>10, PopPos DEF SyncDone, Doing, IInv, TypeOK
  <1>11. CASE UploadDone
    BY <1>11, PopPos DEF UploadDone, Doing, IInv, TypeOK
  <1>12. CASE Restore
    BY <1>12, PopPos DEF Restore, Doing, IInv, TypeOK
  <1>13. ASSUME NEW s \in Slots, SioWrite(s)
        PROVE  todo' \in Seq(Op)
    BY <1>13, SaveScript DEF SioWrite, OpsIn
  <1>14. ASSUME NEW on \in BOOLEAN, SetExtensionCodec(on)
        PROVE  todo' \in Seq(Op)
    BY <1>14 DEF SetExtensionCodec, IInv, TypeOK
  <1>15. ASSUME NEW present \in BOOLEAN, HostUpload(present)
        PROVE  todo' \in Seq(Op)
    BY <1>15, HostBound, UploadOps DEF OpsIn
  <1>16. CASE HostSync
    BY <1>16, MatchOps DEF HostSync, OpsIn
  <1>17. ASSUME NEW S \in SUBSET Slots, GuestBlob(S)
        PROVE  todo' \in Seq(Op)
    BY <1>17, BlobOps DEF OpsIn
  <1>18. CASE Shutdown
    BY <1>18, ExitOps DEF OpsIn
  <1>19. CASE Booted'
    <2>1. BootTypes'
      BY <1>19, BootedTypes, PTL
    <2> QED
      BY <2>1 DEF BootTypes
  <1>20. CASE Writeback
    BY <1>20 DEF Writeback, IInv, TypeOK
  <1>21. CASE UNCHANGED vars
    BY <1>21 DEF vars, IInv, TypeOK
  <1> QED
    BY <1>1, <1>2, <1>3, <1>4, <1>5, <1>6, <1>7, <1>8, <1>9, <1>10, <1>11, <1>12, <1>13,
       <1>14, <1>15, <1>16, <1>17, <1>18, <1>19, <1>20, <1>21, BootNext DEF Next

\* Every step keeps the session well formed.
LEMMA SessionType ==
    ASSUME IInv, [Next]_vars
    PROVE  np' \in Session
  <1>1. CASE Mount
    BY <1>1 DEF Mount, IInv, TypeOK
  <1>2. CASE Format
    BY <1>2 DEF Format, IInv, TypeOK
  <1>3. CASE Flush
    BY <1>3 DEF Flush, IInv, TypeOK
  <1>4. CASE Rename
    BY <1>4 DEF Rename, IInv, TypeOK
  <1>5. CASE Ack
    BY <1>5 DEF Ack, IInv, TypeOK
  <1>6. CASE GuestSlot
    <2> DEFINE s == Head(todo).s
               p == [np.personal EXCEPT ![s] = card[s].path]
    <2>1. s \in Slots /\ card[s].path \in {"home", "none"}
      BY <1>6, BindHead DEF GuestSlot
    <2>2. np' = [np EXCEPT !.sandbox = TRUE, !.personal = p]
      BY <1>6 DEF GuestSlot
    <2>3. np \in Session /\ p \in [Slots -> {"home", "none"}]
      BY <2>1 DEF IInv, TypeOK, Session
    <2> HIDE DEF p
    <2> QED
      BY <2>2, <2>3 DEF Session
  <1>7. CASE HostSlot
    <2> DEFINE s == Head(todo).s
               p == [np.personal EXCEPT ![s] = card[s].path]
    <2>1. s \in Slots /\ card[s].path \in {"home", "none"}
      BY <1>7, BindHead DEF HostSlot
    <2>2. np' = [np EXCEPT !.sandbox = TRUE, !.personal = p]
      BY <1>7 DEF HostSlot
    <2>3. np \in Session /\ p \in [Slots -> {"home", "none"}]
      BY <2>1 DEF IInv, TypeOK, Session
    <2> HIDE DEF p
    <2> QED
      BY <2>2, <2>3 DEF Session
  <1>8. CASE Import
    BY <1>8 DEF Import, IInv, TypeOK
  <1>9. CASE Need
    BY <1>9 DEF Need, IInv, TypeOK
  <1>10. CASE SyncDone
    BY <1>10 DEF SyncDone, IInv, TypeOK, Session
  <1>11. CASE UploadDone
    BY <1>11 DEF UploadDone, IInv, TypeOK, Session
  <1>12. CASE Restore
    BY <1>12 DEF Restore, Offline, Session, Role
  <1>13. ASSUME NEW s \in Slots, SioWrite(s)
        PROVE  np' \in Session
    BY <1>13 DEF SioWrite, IInv, TypeOK
  <1>14. ASSUME NEW on \in BOOLEAN, SetExtensionCodec(on)
        PROVE  np' \in Session
    BY <1>14 DEF SetExtensionCodec, IInv, TypeOK
  <1>15. ASSUME NEW present \in BOOLEAN, HostUpload(present)
        PROVE  np' \in Session
    BY <1>15 DEF HostUpload, IInv, TypeOK
  <1>16. CASE HostSync
    BY <1>16 DEF HostSync, IInv, TypeOK
  <1>17. ASSUME NEW S \in SUBSET Slots, GuestBlob(S)
        PROVE  np' \in Session
    BY <1>17 DEF GuestBlob, IInv, TypeOK
  <1>18. CASE Shutdown
    BY <1>18 DEF Shutdown, IInv, TypeOK
  <1>19. CASE Booted'
    <2>1. BootTypes'
      BY <1>19, BootedTypes, PTL
    <2> QED
      BY <2>1 DEF BootTypes
  <1>20. CASE Writeback
    BY <1>20 DEF Writeback, IInv, TypeOK
  <1>21. CASE UNCHANGED vars
    BY <1>21 DEF vars, IInv, TypeOK
  <1> QED
    BY <1>1, <1>2, <1>3, <1>4, <1>5, <1>6, <1>7, <1>8, <1>9, <1>10, <1>11, <1>12, <1>13,
       <1>14, <1>15, <1>16, <1>17, <1>18, <1>19, <1>20, <1>21, BootNext DEF Next

\* Every step keeps the files well formed.
LEMMA DiskType ==
    ASSUME IInv, [Next]_vars
    PROVE  disk' \in [Slots -> Content] /\ survivors' \in [Slots -> SUBSET Content]
  <1>1. CASE Mount
    <2>1. Head(todo).s \in Slots /\ Short \in Content
      BY <1>1, MountHead DEF Content
    <2>2. CASE UNCHANGED <<disk, survivors>>
      BY <2>2 DEF IInv, TypeOK
    <2>3. CASE /\ disk' = [disk EXCEPT ![Head(todo).s] = Short]
               /\ survivors' = [survivors EXCEPT ![Head(todo).s] = @ \cup {Short}]
      BY <2>1, <2>3, AssignFile DEF IInv, OnlyFile
    <2> QED
      BY <1>1, <2>2, <2>3 DEF Mount
  <1>2. CASE Format
    <2>1. Whole(Blank, "none") \in Content
      BY ImageFacts DEF Content, Whole, Tails
    <2>2. CASE UNCHANGED <<disk, survivors>>
      BY <2>2 DEF IInv, TypeOK
    <2> QED
      BY <1>2, <2>1, <2>2, FormatFacts, AssignFile DEF IInv, OnlyFile
  <1>3. CASE Flush
    BY <1>3 DEF Flush, IInv, TypeOK
  <1>4. CASE Rename
    <2>1. temp.s \in Slots /\ Whole(card[temp.s].data, temp.tail) \in Content
      BY <1>4, RenameContent DEF IInv
    <2>2. CASE UNCHANGED <<disk, survivors>>
      BY <2>2 DEF IInv, TypeOK
    <2> QED
      BY <1>4, <2>1, <2>2, AssignFile DEF Rename, IInv, OnlyFile
  <1>5. CASE Ack
    BY <1>5 DEF Ack, IInv, TypeOK
  <1>6. CASE GuestSlot
    BY <1>6 DEF GuestSlot, IInv, TypeOK
  <1>7. CASE HostSlot
    BY <1>7 DEF HostSlot, IInv, TypeOK
  <1>8. CASE Import
    BY <1>8 DEF Import, IInv, TypeOK
  <1>9. CASE Need
    BY <1>9 DEF Need, IInv, TypeOK
  <1>10. CASE SyncDone
    BY <1>10 DEF SyncDone, IInv, TypeOK
  <1>11. CASE UploadDone
    BY <1>11 DEF UploadDone, IInv, TypeOK
  <1>12. CASE Restore
    BY <1>12 DEF Restore, IInv, TypeOK
  <1>13. ASSUME NEW s \in Slots, SioWrite(s)
        PROVE  disk' \in [Slots -> Content] /\ survivors' \in [Slots -> SUBSET Content]
    BY <1>13 DEF SioWrite, IInv, TypeOK
  <1>14. ASSUME NEW on \in BOOLEAN, SetExtensionCodec(on)
        PROVE  disk' \in [Slots -> Content] /\ survivors' \in [Slots -> SUBSET Content]
    BY <1>14 DEF SetExtensionCodec, IInv, TypeOK
  <1>15. ASSUME NEW present \in BOOLEAN, HostUpload(present)
        PROVE  disk' \in [Slots -> Content] /\ survivors' \in [Slots -> SUBSET Content]
    BY <1>15 DEF HostUpload, IInv, TypeOK
  <1>16. CASE HostSync
    BY <1>16 DEF HostSync, IInv, TypeOK
  <1>17. ASSUME NEW S \in SUBSET Slots, GuestBlob(S)
        PROVE  disk' \in [Slots -> Content] /\ survivors' \in [Slots -> SUBSET Content]
    BY <1>17 DEF GuestBlob, IInv, TypeOK
  <1>18. CASE Shutdown
    BY <1>18 DEF Shutdown, IInv, TypeOK
  <1>19. ASSUME NEW enabled \in SlotSettings, NEW role \in Role, NEW gm \in BOOLEAN,
               Reboot(enabled, role, gm)
        PROVE  disk' \in [Slots -> Content] /\ survivors' \in [Slots -> SUBSET Content]
    BY <1>19 DEF Reboot, IInv, TypeOK
  <1>20. ASSUME NEW enabled \in SlotSettings, Crash(enabled)
        PROVE  disk' \in [Slots -> Content] /\ survivors' \in [Slots -> SUBSET Content]
    BY <1>20 DEF Crash, IInv, TypeOK
  <1>21. CASE PowerLoss
    <2>1. PICK f0 \in survivors[0], f1 \in survivors[1] :
            disk' = [s \in Slots |-> IF s = 0 THEN f0 ELSE f1]
      BY <1>21 DEF PowerLoss
    <2>2. f0 \in Content /\ f1 \in Content
      BY <2>1 DEF IInv, TypeOK, Slots
    <2>3. survivors' = [s \in Slots |-> {disk'[s]}]
      BY <1>21 DEF PowerLoss
    <2> QED
      BY <2>1, <2>2, <2>3
  <1>22. CASE Writeback
    BY <1>22 DEF Writeback, IInv, TypeOK
  <1>23. CASE UNCHANGED vars
    BY <1>23 DEF vars, IInv, TypeOK
  <1> QED
    BY <1>1, <1>2, <1>3, <1>4, <1>5, <1>6, <1>7, <1>8, <1>9, <1>10, <1>11, <1>12, <1>13,
       <1>14, <1>15, <1>16, <1>17, <1>18, <1>19, <1>20, <1>21, <1>22, <1>23 DEF Next

\* Every step keeps the counters within their bounds and the flag a flag.
LEMMA CountersType ==
    ASSUME IInv, [Next]_vars
    PROVE  codec' \in BOOLEAN /\ writes' \in 0..MaxWrites /\ faults' \in 0..MaxFaults
  <1>1. CASE Mount
    BY <1>1, BoundsAssumption DEF Mount, Sound, Faulty, IInv, TypeOK
  <1>2. CASE Format
    BY <1>2, BoundsAssumption DEF Format, Sound, Faulty, IInv, TypeOK
  <1>3. CASE Flush
    BY <1>3, BoundsAssumption DEF Flush, Sound, Faulty, IInv, TypeOK
  <1>4. CASE Rename
    BY <1>4, BoundsAssumption DEF Rename, Sound, Faulty, IInv, TypeOK
  <1>5. CASE Ack
    BY <1>5, BoundsAssumption DEF Ack, Sound, Faulty, IInv, TypeOK
  <1>6. CASE GuestSlot
    BY <1>6, BoundsAssumption DEF GuestSlot, Sound, Faulty, IInv, TypeOK
  <1>7. CASE HostSlot
    BY <1>7, BoundsAssumption DEF HostSlot, Sound, Faulty, IInv, TypeOK
  <1>8. CASE Import
    BY <1>8, BoundsAssumption DEF Import, Sound, Faulty, IInv, TypeOK
  <1>9. CASE Need
    BY <1>9, BoundsAssumption DEF Need, Sound, Faulty, IInv, TypeOK
  <1>10. CASE SyncDone
    BY <1>10, BoundsAssumption DEF SyncDone, Sound, Faulty, IInv, TypeOK
  <1>11. CASE UploadDone
    BY <1>11, BoundsAssumption DEF UploadDone, Sound, Faulty, IInv, TypeOK
  <1>12. CASE Restore
    BY <1>12, BoundsAssumption DEF Restore, Sound, Faulty, IInv, TypeOK
  <1>13. ASSUME NEW s \in Slots, SioWrite(s)
        PROVE  codec' \in BOOLEAN /\ writes' \in 0..MaxWrites /\ faults' \in 0..MaxFaults
    BY <1>13, BoundsAssumption DEF SioWrite, Sound, Faulty, IInv, TypeOK
  <1>14. ASSUME NEW on \in BOOLEAN, SetExtensionCodec(on)
        PROVE  codec' \in BOOLEAN /\ writes' \in 0..MaxWrites /\ faults' \in 0..MaxFaults
    BY <1>14, BoundsAssumption DEF SetExtensionCodec, Sound, Faulty, IInv, TypeOK
  <1>15. ASSUME NEW present \in BOOLEAN, HostUpload(present)
        PROVE  codec' \in BOOLEAN /\ writes' \in 0..MaxWrites /\ faults' \in 0..MaxFaults
    BY <1>15, BoundsAssumption DEF HostUpload, Sound, Faulty, IInv, TypeOK
  <1>16. CASE HostSync
    BY <1>16, BoundsAssumption DEF HostSync, Sound, Faulty, IInv, TypeOK
  <1>17. ASSUME NEW S \in SUBSET Slots, GuestBlob(S)
        PROVE  codec' \in BOOLEAN /\ writes' \in 0..MaxWrites /\ faults' \in 0..MaxFaults
    BY <1>17, BoundsAssumption DEF GuestBlob, Sound, Faulty, IInv, TypeOK
  <1>18. CASE Shutdown
    BY <1>18, BoundsAssumption DEF Shutdown, Sound, Faulty, IInv, TypeOK
  <1>19. ASSUME NEW enabled \in SlotSettings, NEW role \in Role, NEW gm \in BOOLEAN,
               Reboot(enabled, role, gm)
        PROVE  codec' \in BOOLEAN /\ writes' \in 0..MaxWrites /\ faults' \in 0..MaxFaults
    BY <1>19, BoundsAssumption DEF Reboot, Sound, Faulty, IInv, TypeOK
  <1>20. ASSUME NEW enabled \in SlotSettings, Crash(enabled)
        PROVE  codec' \in BOOLEAN /\ writes' \in 0..MaxWrites /\ faults' \in 0..MaxFaults
    <2>1. codec' \in BOOLEAN
      BY <1>20, Zenon DEF Crash
    <2>2. writes' \in 0..MaxWrites /\ faults' \in 0..MaxFaults
      BY <1>20, BoundsAssumption DEF Crash, Faulty, IInv, TypeOK
    <2> QED
      BY <2>1, <2>2
  <1>21. CASE PowerLoss
    <2>1. codec' \in BOOLEAN
      BY <1>21, Zenon DEF PowerLoss
    <2>2. writes' \in 0..MaxWrites /\ faults' \in 0..MaxFaults
      BY <1>21, BoundsAssumption DEF PowerLoss, Faulty, IInv, TypeOK
    <2> QED
      BY <2>1, <2>2
  <1>22. CASE Writeback
    BY <1>22, BoundsAssumption DEF Writeback, Sound, Faulty, IInv, TypeOK
  <1>23. CASE UNCHANGED vars
    BY <1>23 DEF vars, IInv, TypeOK
  <1> QED
    BY <1>1, <1>2, <1>3, <1>4, <1>5, <1>6, <1>7, <1>8, <1>9, <1>10, <1>11, <1>12, <1>13,
       <1>14, <1>15, <1>16, <1>17, <1>18, <1>19, <1>20, <1>21, <1>22, <1>23 DEF Next

\* Every step keeps the acknowledged writes numbers.
LEMMA AckedType ==
    ASSUME IInv, [Next]_vars
    PROVE  acked' \in [Slots -> Nat]
  <1>1. CASE Mount
    BY <1>1 DEF Mount, IInv, TypeOK
  <1>2. CASE Format
    BY <1>2 DEF Format, IInv, TypeOK
  <1>3. CASE Flush
    BY <1>3 DEF Flush, IInv, TypeOK
  <1>4. CASE Rename
    BY <1>4 DEF Rename, IInv, TypeOK
  <1>5. CASE Ack
    <2>1. Head(todo).s \in Slots /\ card[Head(todo).s] \in Card
      BY <1>5, HeadTail DEF Ack, Doing, IInv, TypeOK
    <2>2. card[Head(todo).s].data.n \in Nat
      BY <2>1 DEF Card, Image
    <2> QED
      BY <1>5, <2>1, <2>2 DEF Ack, IInv, TypeOK
  <1>6. CASE GuestSlot
    BY <1>6 DEF GuestSlot, IInv, TypeOK
  <1>7. CASE HostSlot
    BY <1>7 DEF HostSlot, IInv, TypeOK
  <1>8. CASE Import
    BY <1>8 DEF Import, IInv, TypeOK
  <1>9. CASE Need
    BY <1>9 DEF Need, IInv, TypeOK
  <1>10. CASE SyncDone
    BY <1>10 DEF SyncDone, IInv, TypeOK
  <1>11. CASE UploadDone
    BY <1>11 DEF UploadDone, IInv, TypeOK
  <1>12. CASE Restore
    BY <1>12 DEF Restore, IInv, TypeOK
  <1>13. ASSUME NEW s \in Slots, SioWrite(s)
        PROVE  acked' \in [Slots -> Nat]
    BY <1>13 DEF SioWrite, IInv, TypeOK
  <1>14. ASSUME NEW on \in BOOLEAN, SetExtensionCodec(on)
        PROVE  acked' \in [Slots -> Nat]
    BY <1>14 DEF SetExtensionCodec, IInv, TypeOK
  <1>15. ASSUME NEW present \in BOOLEAN, HostUpload(present)
        PROVE  acked' \in [Slots -> Nat]
    BY <1>15 DEF HostUpload, IInv, TypeOK
  <1>16. CASE HostSync
    BY <1>16 DEF HostSync, IInv, TypeOK
  <1>17. ASSUME NEW S \in SUBSET Slots, GuestBlob(S)
        PROVE  acked' \in [Slots -> Nat]
    BY <1>17 DEF GuestBlob, IInv, TypeOK
  <1>18. CASE Shutdown
    BY <1>18 DEF Shutdown, IInv, TypeOK
  <1>19. ASSUME NEW enabled \in SlotSettings, NEW role \in Role, NEW gm \in BOOLEAN,
               Reboot(enabled, role, gm)
        PROVE  acked' \in [Slots -> Nat]
    BY <1>19 DEF Reboot, IInv, TypeOK
  <1>20. ASSUME NEW enabled \in SlotSettings, Crash(enabled)
        PROVE  acked' \in [Slots -> Nat]
    BY <1>20 DEF Crash, IInv, TypeOK
  <1>21. CASE PowerLoss
    BY <1>21 DEF PowerLoss, IInv, TypeOK
  <1>22. CASE Writeback
    BY <1>22 DEF Writeback, IInv, TypeOK
  <1>23. CASE UNCHANGED vars
    BY <1>23 DEF vars, IInv, TypeOK
  <1> QED
    BY <1>1, <1>2, <1>3, <1>4, <1>5, <1>6, <1>7, <1>8, <1>9, <1>10, <1>11, <1>12, <1>13,
       <1>14, <1>15, <1>16, <1>17, <1>18, <1>19, <1>20, <1>21, <1>22, <1>23 DEF Next

\* Every step keeps the temporary well formed.
LEMMA TempType ==
    ASSUME IInv, [Next]_vars
    PROVE  temp' \in {NoTemp} \cup [kind: {"temp"}, s: Slots, tail: Tails]
  <1>1. CASE Mount
    BY <1>1 DEF Mount, IInv, TypeOK
  <1>2. CASE Format
    BY <1>2 DEF Format, IInv, TypeOK
  <1>3. CASE Flush
    <2> DEFINE s == Head(todo).s
    <2>1. s \in Slots /\ card[s] \in Card
      BY <1>3, HeadTail DEF Flush, Doing, IInv, TypeOK
    <2>2. FlushTail(card[s]) \subseteq Tails
      BY <2>1 DEF FlushTail, Tails, Card
    <2> QED
      BY <1>3, <2>1, <2>2, FlushFacts DEF IInv
  <1>4. CASE Rename
    BY <1>4 DEF Rename, IInv, TypeOK
  <1>5. CASE Ack
    BY <1>5 DEF Ack, IInv, TypeOK
  <1>6. CASE GuestSlot
    BY <1>6 DEF GuestSlot, IInv, TypeOK
  <1>7. CASE HostSlot
    BY <1>7 DEF HostSlot, IInv, TypeOK
  <1>8. CASE Import
    BY <1>8 DEF Import, IInv, TypeOK
  <1>9. CASE Need
    BY <1>9 DEF Need, IInv, TypeOK
  <1>10. CASE SyncDone
    BY <1>10 DEF SyncDone, IInv, TypeOK
  <1>11. CASE UploadDone
    BY <1>11 DEF UploadDone, IInv, TypeOK
  <1>12. CASE Restore
    BY <1>12 DEF Restore, IInv, TypeOK
  <1>13. ASSUME NEW s \in Slots, SioWrite(s)
        PROVE  temp' \in {NoTemp} \cup [kind: {"temp"}, s: Slots, tail: Tails]
    BY <1>13 DEF SioWrite, IInv, TypeOK
  <1>14. ASSUME NEW on \in BOOLEAN, SetExtensionCodec(on)
        PROVE  temp' \in {NoTemp} \cup [kind: {"temp"}, s: Slots, tail: Tails]
    BY <1>14 DEF SetExtensionCodec, IInv, TypeOK
  <1>15. ASSUME NEW present \in BOOLEAN, HostUpload(present)
        PROVE  temp' \in {NoTemp} \cup [kind: {"temp"}, s: Slots, tail: Tails]
    BY <1>15 DEF HostUpload, IInv, TypeOK
  <1>16. CASE HostSync
    BY <1>16 DEF HostSync, IInv, TypeOK
  <1>17. ASSUME NEW S \in SUBSET Slots, GuestBlob(S)
        PROVE  temp' \in {NoTemp} \cup [kind: {"temp"}, s: Slots, tail: Tails]
    BY <1>17 DEF GuestBlob, IInv, TypeOK
  <1>18. CASE Shutdown
    BY <1>18 DEF Shutdown, IInv, TypeOK
  <1>19. CASE Booted'
    BY <1>19 DEF Booted
  <1>20. CASE Writeback
    BY <1>20 DEF Writeback, IInv, TypeOK
  <1>21. CASE UNCHANGED vars
    BY <1>21 DEF vars, IInv, TypeOK
  <1> QED
    BY <1>1, <1>2, <1>3, <1>4, <1>5, <1>6, <1>7, <1>8, <1>9, <1>10, <1>11, <1>12, <1>13,
       <1>14, <1>15, <1>16, <1>17, <1>18, <1>19, <1>20, <1>21, BootNext DEF Next

\* Every step keeps the state well formed.
LEMMA TypeStep ==
    ASSUME IInv, [Next]_vars
    PROVE  TypeOK'
  BY CardType, TodoType, SessionType, DiskType, CountersType, AckedType, TempType DEF
     TypeOK

\* A handler stays what it is when an operation is taken.
LEMMA PopScript ==
    ASSUME TypeOK, ScriptInv, todo # <<>>, todo' = Tail(todo)
    PROVE  ScriptInv'
  <1>1. \A i \in Pos' : i + 1 \in Pos /\ todo'[i] = todo[i + 1]
    BY PopPos DEF TypeOK
  <1>2. ASSUME NEW ops, Within(ops)
        PROVE  \A i \in Pos' : todo'[i].op \in ops
    BY <1>1, <1>2 DEF Within
  <1> QED
    BY <1>2 DEF ScriptInv, Within

\* A handler stays what it is when one of its own operations replaces another.
LEMMA SwapScript ==
    ASSUME TypeOK, NEW ops, Within(ops), todo # <<>>, NEW o \in Op, o.op \in ops,
           todo' = <<o>> \o Tail(todo)
    PROVE  \A i \in Pos' : todo'[i].op \in ops
  BY SwapPos DEF TypeOK, Within

\* A list of the operations of one handler is that handler.
LEMMA NewScript ==
    ASSUME NEW ops, OpsIn(todo', ops),
           \/ ops \subseteq BootOps \/ ops \subseteq SyncOps
           \/ ops \subseteq SaveOps \/ ops \subseteq LeaveOps
    PROVE  ScriptInv'
  BY DEF OpsIn, ScriptInv, Within, Pos

\* The operations that name the handler they belong to.
LEMMA HeadScript ==
    ASSUME TypeOK, ScriptInv, todo # <<>>
    PROVE  /\ Head(todo).op \in {"mount", "guest"} => Within(BootOps)
           /\ Head(todo).op = "import" => Within(SyncOps)
           /\ Head(todo).op = "restore" => Within(LeaveOps)
  <1>1. 1 \in Pos /\ Head(todo) = todo[1]
    BY HeadTail DEF TypeOK
  <1> QED
    BY <1>1 DEF ScriptInv, Within, BootOps, SyncOps, SaveOps, LeaveOps

\* Every step keeps the running handler one of the four.
LEMMA ScriptStep ==
    ASSUME IInv, [Next]_vars
    PROVE  ScriptInv'
  <1>1. CASE Mount
    <2>1. todo # <<>> /\ Within(BootOps) /\ TypeOK
      BY <1>1, HeadScript DEF Mount, Doing, IInv
    <2>2. PICK o \in Op : o = Do("format", Head(todo).s) /\ o.op = "format"
      BY <2>1, HeadTail, OpFacts DEF TypeOK
    <2>3. CASE todo' = Tail(todo)
      BY <2>1, <2>3, PopScript DEF IInv
    <2>4. CASE todo' = <<o>> \o Tail(todo)
      <3>1. "format" \in BootOps
        BY DEF BootOps
      <3> QED
        BY <2>1, <2>2, <2>4, <3>1, SwapScript DEF ScriptInv, Within
    <2> QED
      BY <1>1, <2>2, <2>3, <2>4 DEF Mount
  <1>2. CASE Format
    BY <1>2, PopScript DEF Format, Doing, IInv
  <1>3. CASE Flush
    BY <1>3, PopScript DEF Flush, Doing, IInv
  <1>4. CASE Rename
    BY <1>4 DEF Rename, ScriptInv, Within, Pos, IInv
  <1>5. CASE Ack
    BY <1>5, PopScript DEF Ack, Doing, IInv
  <1>6. CASE GuestSlot
    <2>1. todo # <<>> /\ Within(BootOps) /\ TypeOK
      BY <1>6, HeadScript DEF GuestSlot, Doing, IInv
    <2>2. PICK o \in Op : o = Do("flush", Head(todo).s) /\ o.op = "flush"
      BY <2>1, HeadTail, OpFacts DEF TypeOK
    <2>3. CASE todo' = Tail(todo)
      BY <2>1, <2>3, PopScript DEF IInv
    <2>4. CASE todo' = <<o>> \o Tail(todo)
      <3>1. "flush" \in BootOps
        BY DEF BootOps
      <3> QED
        BY <2>1, <2>2, <2>4, <3>1, SwapScript DEF ScriptInv, Within
    <2> QED
      BY <1>6, <2>2, <2>3, <2>4 DEF GuestSlot
  <1>7. CASE HostSlot
    BY <1>7, PopScript DEF HostSlot, Doing, IInv
  <1>8. CASE Import
    <2>1. todo # <<>> /\ Within(SyncOps) /\ TypeOK
      BY <1>8, HeadScript DEF Import, Doing, IInv
    <2>2. PICK o \in Op : o = Do("flush", Head(todo).s) /\ o.op = "flush"
      BY <2>1, HeadTail, OpFacts DEF TypeOK
    <2>3. CASE todo' = Tail(todo)
      BY <2>1, <2>3, PopScript DEF IInv
    <2>4. CASE todo' = <<o>> \o Tail(todo)
      <3>1. "flush" \in SyncOps
        BY DEF SyncOps
      <3> QED
        BY <2>1, <2>2, <2>4, <3>1, SwapScript DEF ScriptInv, Within
    <2> QED
      BY <1>8, <2>2, <2>3, <2>4 DEF Import
  <1>9. CASE Need
    <2>1. todo # <<>>
      BY <1>9 DEF Need, Doing
    <2>2. CASE todo' = Tail(todo)
      BY <2>1, <2>2, PopScript DEF IInv
    <2>3. CASE todo' = <<>>
      BY <2>3 DEF ScriptInv, Within, Pos
    <2> QED
      BY <1>9, <2>2, <2>3 DEF Need
  <1>10. CASE SyncDone
    BY <1>10, PopScript DEF SyncDone, Doing, IInv
  <1>11. CASE UploadDone
    BY <1>11, PopScript DEF UploadDone, Doing, IInv
  <1>12. CASE Restore
    BY <1>12, PopScript DEF Restore, Doing, IInv
  <1>13. ASSUME NEW s \in Slots, SioWrite(s)
        PROVE  ScriptInv'
    <2>1. OpsIn(todo', SaveOps)
      BY <1>13, SaveScript DEF SioWrite
    <2> QED
      BY <2>1, NewScript DEF BootOps, SyncOps, SaveOps, LeaveOps
  <1>14. ASSUME NEW on \in BOOLEAN, SetExtensionCodec(on)
        PROVE  ScriptInv'
    BY <1>14 DEF SetExtensionCodec, ScriptInv, Within, Pos, IInv
  <1>15. ASSUME NEW present \in BOOLEAN, HostUpload(present)
        PROVE  ScriptInv'
    <2>1. OpsIn(todo', {"import", "upload"})
      BY <1>15, HostBound, UploadOps
    <2> QED
      BY <2>1, NewScript DEF BootOps, SyncOps, SaveOps, LeaveOps
  <1>16. CASE HostSync
    <2>1. OpsIn(todo', {"match"})
      BY <1>16, MatchOps DEF HostSync
    <2> QED
      BY <2>1, NewScript DEF BootOps, SyncOps, SaveOps, LeaveOps
  <1>17. ASSUME NEW S \in SUBSET Slots, GuestBlob(S)
        PROVE  ScriptInv'
    <2>1. OpsIn(todo', {"import", "need", "match"})
      BY <1>17, BlobOps
    <2> QED
      BY <2>1, NewScript DEF BootOps, SyncOps, SaveOps, LeaveOps
  <1>18. CASE Shutdown
    <2>1. OpsIn(todo', LeaveOps)
      BY <1>18, ExitOps
    <2> QED
      BY <2>1, NewScript DEF BootOps, SyncOps, SaveOps, LeaveOps
  <1>19. CASE Booted'
    BY <1>19, BootedInv, PTL
  <1>20. CASE Writeback
    BY <1>20 DEF Writeback, ScriptInv, Within, Pos, IInv
  <1>21. CASE UNCHANGED vars
    BY <1>21 DEF vars, ScriptInv, Within, Pos, IInv
  <1> QED
    BY <1>1, <1>2, <1>3, <1>4, <1>5, <1>6, <1>7, <1>8, <1>9, <1>10, <1>11, <1>12, <1>13,
       <1>14, <1>15, <1>16, <1>17, <1>18, <1>19, <1>20, <1>21, BootNext DEF Next

\* The running handler makes no such operation any more.
NoneLeft(op) == \A i \in Pos : todo[i].op # op

\* With no mount left there is nothing to show of one.
LEMMA VoidMount == NoneLeft("mount") => MountInv
  BY DEF NoneLeft, MountInv

\* With no format left there is nothing to show of one.
LEMMA VoidFormat == NoneLeft("format") => FormatInv
  BY DEF NoneLeft, FormatInv

\* Mounting comes first: after another operation none is left.
LEMMA NoMount ==
    ASSUME TypeOK, MountInv, todo # <<>>, Head(todo).op \notin {"mount", "format"}
    PROVE  NoneLeft("mount")
  <1>1. 1 \in Pos /\ Head(todo) = todo[1] /\ Pos \subseteq Nat /\ \A i \in Pos : i >= 1
    BY HeadTail DEF TypeOK, Pos
  <1> QED
    BY <1>1 DEF NoneLeft, MountInv

\* An operation that is not left does not come back when one is taken.
LEMMA PopNone ==
    ASSUME TypeOK, NEW op, NoneLeft(op), todo # <<>>, todo' = Tail(todo)
    PROVE  NoneLeft(op)'
  BY PopPos DEF NoneLeft, TypeOK

\* ... or replaced by another.
LEMMA SwapNone ==
    ASSUME TypeOK, NEW op, NoneLeft(op), todo # <<>>, NEW o \in Op, o.op # op,
           todo' = <<o>> \o Tail(todo)
    PROVE  NoneLeft(op)'
  BY SwapPos DEF NoneLeft, TypeOK

\* A format is the first operation, so none is left when it is taken.
LEMMA PopNoFormat ==
    ASSUME TypeOK, FormatInv, todo # <<>>, todo' = Tail(todo)
    PROVE  NoneLeft("format")'
  <1> SUFFICES ASSUME NEW i \in Pos', todo'[i].op = "format"
               PROVE  FALSE
    BY DEF NoneLeft
  <1>1. i \in Nat \ {0} /\ i + 1 \in Pos /\ todo'[i] = todo[i + 1]
    BY PopPos DEF TypeOK
  <1>2. i + 1 = 1
    BY <1>1 DEF FormatInv
  <1> QED
    BY <1>1, <1>2

\* A format is the first operation, so none is left when it is replaced.
LEMMA SwapNoFormat ==
    ASSUME TypeOK, FormatInv, todo # <<>>, NEW o \in Op, o.op # "format",
           todo' = <<o>> \o Tail(todo)
    PROVE  NoneLeft("format")'
  BY SwapPos DEF NoneLeft, FormatInv, TypeOK

\* A new handler holds only its own operations.
LEMMA FreshNone ==
    ASSUME NEW ops, OpsIn(todo', ops), NEW op, op \notin ops
    PROVE  NoneLeft(op)'
  BY DEF NoneLeft, OpsIn, Pos

\* Between handlers nothing is left to do.
LEMMA IdleNone ==
    ASSUME Idle, NEW op, todo' = todo
    PROVE  NoneLeft(op)'
  BY DEF Idle, NoneLeft, Pos

\* The mounts still to come are not those of the slot this step works on.
LEMMA MountOthers ==
    ASSUME IInv, todo # <<>>, Head(todo).op \in {"mount", "format"},
           OnlySlot(Head(todo).s),
           \/ todo' = Tail(todo)
           \/ todo' = <<Do("format", Head(todo).s)>> \o Tail(todo)
    PROVE  MountInv'
  <1> DEFINE s == Head(todo).s
  <1>0. TypeOK /\ MountInv /\ todo \in Seq(Op) /\ 1 \in Pos /\ s = todo[1].s /\ s \in Slots
    BY HeadTail DEF IInv, TypeOK
  <1>1. ASSUME NEW k \in Pos, k # 1, todo[k].op = "mount"
        PROVE  card'[todo[k].s] = EmptyCard /\ todo[k].s # s
    <2>1. todo[k].s \in Slots /\ card[todo[k].s] = EmptyCard
      BY <1>0, <1>1, OpAt DEF MountInv
    <2>2. k > 1
      BY <1>1 DEF Pos
    <2>3. todo[k].s # s
      BY <1>0, <1>1, <2>2 DEF MountInv
    <2> QED
      BY <2>1, <2>3 DEF OnlySlot
  <1>2. CASE todo' = Tail(todo)
    <2> SUFFICES ASSUME NEW k \in Pos', todo'[k].op = "mount"
                 PROVE  /\ card'[todo'[k].s] = EmptyCard
                        /\ \A i \in Pos' : i < k =>
                             todo'[i].op \in {"mount", "format"} /\ todo'[i].s # todo'[k].s
      BY DEF MountInv
    <2>1. \A i \in Pos' : i \in Nat \ {0} /\ i + 1 \in Pos /\ todo'[i] = todo[i + 1]
      BY <1>0, <1>2, PopPos
    <2>2. card'[todo'[k].s] = EmptyCard
      BY <1>1, <2>1
    <2>3. ASSUME NEW i \in Pos', i < k
          PROVE  todo'[i].op \in {"mount", "format"} /\ todo'[i].s # todo'[k].s
      <3>1. i + 1 \in Pos /\ k + 1 \in Pos /\ i + 1 < k + 1 /\ todo[k + 1].op = "mount"
        BY <2>1, <2>3
      <3>2. todo[i + 1].op \in {"mount", "format"} /\ todo[i + 1].s # todo[k + 1].s
        BY <1>0, <3>1 DEF MountInv
      <3> QED
        BY <2>1, <3>2
    <2> QED
      BY <2>2, <2>3
  <1>3. CASE todo' = <<Do("format", s)>> \o Tail(todo)
    <2> SUFFICES ASSUME NEW k \in Pos', todo'[k].op = "mount"
                 PROVE  /\ card'[todo'[k].s] = EmptyCard
                        /\ \A i \in Pos' : i < k =>
                             todo'[i].op \in {"mount", "format"} /\ todo'[i].s # todo'[k].s
      BY DEF MountInv
    <2>0. PICK o \in Op : o = Do("format", s) /\ o.op = "format" /\ o.s = s
      BY <1>0, OpFacts
    <2>1. /\ Pos' = Pos /\ todo'[1] = o
          /\ \A i \in Pos : i \in Nat \ {0} /\ (i # 1 => todo'[i] = todo[i])
      BY <1>0, <1>3, <2>0, SwapPos
    <2>2. k # 1 /\ k \in Pos /\ todo'[k] = todo[k]
      BY <2>0, <2>1
    <2>3. card'[todo'[k].s] = EmptyCard /\ todo'[k].s # s
      BY <1>1, <2>2
    <2>4. ASSUME NEW i \in Pos', i < k
          PROVE  todo'[i].op \in {"mount", "format"} /\ todo'[i].s # todo'[k].s
      <3>1. CASE i = 1
        BY <2>0, <2>1, <2>3, <3>1
      <3>2. CASE i # 1
        BY <1>0, <2>1, <2>2, <2>4, <3>2 DEF MountInv
      <3> QED
        BY <3>1, <3>2
    <2> QED
      BY <2>3, <2>4
  <1> QED
    BY <1>2, <1>3

\* The outcomes of a mount: the slot shows its file or stays empty, or the
\* file is created and about to be formatted.
LEMMA MountCard ==
    ASSUME IInv, Mount
    PROVE  LET s == Head(todo).s IN
           /\ s \in Slots /\ OnlySlot(s) /\ card'[s].path = "home" /\ ~card'[s].dirty
           /\ \/ /\ disk' = disk /\ survivors' = survivors /\ todo' = Tail(todo)
                 /\ \/ ~card'[s].present
                    \/ /\ card'[s].present /\ disk[s].kind = "whole" /\ card'[s].data = disk[s].base
                       /\ disk[s].tail = "big" => card'[s].readFailed
                       /\ disk[s].tail # "big" => card'[s].ext = disk[s].tail
              \/ /\ disk[s].kind = "absent" \/ OpenFaults
                 /\ disk' = [disk EXCEPT ![s] = Short]
                 /\ survivors' = [survivors EXCEPT ![s] = @ \cup {Short}]
                 /\ todo' = <<Do("format", s)>> \o Tail(todo)
                 /\ card'[s] = Formatted /\ ~card'[s].present
  <1> DEFINE s == Head(todo).s
  <1>1. s \in Slots /\ card[s] = EmptyCard /\ TypeOK
    BY MountHead DEF IInv
  <1>2. CASE /\ disk[s].kind # "absent"
             /\ \E refused \in BOOLEAN :
                  card' = [card EXCEPT ![s] =
                             LoadCardImage([@ EXCEPT !.path = "home"], disk[s], refused)]
             /\ todo' = Tail(todo) /\ disk' = disk /\ survivors' = survivors
    <2>1. PICK refused \in BOOLEAN :
                  card' = [card EXCEPT ![s] =
                             LoadCardImage([@ EXCEPT !.path = "home"], disk[s], refused)]
      BY <1>2
    <2>2. /\ OnlySlot(s)
          /\ card'[s].path = "home" /\ ~card'[s].dirty
          /\ disk[s].kind = "short" => ~card'[s].present
          /\ disk[s].kind = "whole" => card'[s].present /\ card'[s].data = disk[s].base
          /\ disk[s].kind = "whole" /\ disk[s].tail = "big" => card'[s].readFailed
          /\ disk[s].kind = "whole" /\ disk[s].tail # "big" => card'[s].ext = disk[s].tail
          /\ disk[s].kind \in {"short", "whole"}
      BY <1>1, <1>2, <2>1, MountLoadFacts
    <2>3. CASE disk[s].kind = "short"
      BY <1>1, <1>2, <2>2, <2>3
    <2>4. CASE disk[s].kind = "whole"
      <3>1. card'[s].present /\ card'[s].data = disk[s].base
        BY <2>2, <2>4
      <3>2. disk[s].tail = "big" => card'[s].readFailed
        BY <2>2, <2>4
      <3>3. disk[s].tail # "big" => card'[s].ext = disk[s].tail
        BY <2>2, <2>4
      <3> QED
        BY <1>1, <1>2, <2>2, <2>4, <3>1, <3>2, <3>3
    <2> QED
      BY <2>2, <2>3, <2>4
  <1>3. CASE /\ disk[s].kind = "absent" \/ OpenFaults
             /\ card' = [card EXCEPT ![s].path = "home", ![s].data = Blank]
             /\ \/ /\ disk' = [disk EXCEPT ![s] = Short]
                   /\ survivors' = [survivors EXCEPT ![s] = @ \cup {Short}]
                   /\ todo' = <<Do("format", s)>> \o Tail(todo)
                \/ /\ todo' = Tail(todo)
                   /\ disk' = disk /\ survivors' = survivors
    <2>1. /\ OnlySlot(s) /\ card'[s] = Formatted
          /\ card'[s].path = "home" /\ ~card'[s].present /\ ~card'[s].dirty
      BY <1>1, <1>3, MountBlankFacts
    <2> QED
      BY <1>1, <1>3, <2>1
  <1> QED
    BY <1>2, <1>3 DEF Mount

\* Every step keeps the slots to be mounted empty.
LEMMA MountStep ==
    ASSUME IInv, [Next]_vars
    PROVE  MountInv'
  <1>1. CASE Mount
    <2>0. todo # <<>> /\ Head(todo).op = "mount"
      BY <1>1 DEF Mount, Doing
    <2>1. OnlySlot(Head(todo).s)
      BY <1>1, MountCard
    <2>2. todo' = Tail(todo) \/ todo' = <<Do("format", Head(todo).s)>> \o Tail(todo)
      BY <1>1 DEF Mount
    <2> QED
      BY <2>0, <2>1, <2>2, MountOthers
  <1>2. CASE Format
    <2>0. todo # <<>> /\ Head(todo).op = "format" /\ todo' = Tail(todo)
      BY <1>2 DEF Format, Doing
    <2>1. OnlySlot(Head(todo).s)
      BY <1>2, FormatFacts DEF IInv
    <2> QED
      BY <2>0, <2>1, MountOthers
  <1>3. CASE Flush
    <2>1. NoneLeft("mount")'
      <3>1. /\ TypeOK /\ MountInv /\ todo # <<>> /\ todo' = Tail(todo)
            /\ Head(todo).op \notin {"mount", "format"}
        BY <1>3 DEF Flush, Doing, IInv
      <3> QED
        BY <3>1, NoMount, PopNone
    <2> QED
      BY <2>1, VoidMount, PTL
  <1>4. CASE Rename
    <2>1. todo' = todo /\ temp # NoTemp /\ OnlySlot(temp.s)
      BY <1>4, RenameFacts DEF Rename, IInv
    <2>2. card[temp.s] # EmptyCard
      BY <2>1 DEF IInv, TempInv, EmptyCard
    <2>3. todo \in Seq(Op)
      BY DEF IInv, TypeOK
    <2>4. \A k \in Pos : todo[k].s \in Slots
      BY <2>3, OpAt
    <2> QED
      BY <2>1, <2>2, <2>4 DEF IInv, MountInv, OnlySlot, Pos
  <1>5. CASE Ack
    <2>1. NoneLeft("mount")'
      <3>1. /\ TypeOK /\ MountInv /\ todo # <<>> /\ todo' = Tail(todo)
            /\ Head(todo).op \notin {"mount", "format"}
        BY <1>5 DEF Ack, Doing, IInv
      <3> QED
        BY <3>1, NoMount, PopNone
    <2> QED
      BY <2>1, VoidMount, PTL
  <1>6. CASE GuestSlot
    <2>1. NoneLeft("mount")'
      <3>1. /\ TypeOK /\ MountInv /\ FormatInv /\ todo # <<>>
            /\ Head(todo).op \notin {"mount", "format"}
        BY <1>6 DEF GuestSlot, Doing, IInv
      <3>2. PICK o \in Op : o = Do("flush", Head(todo).s) /\ o.op = "flush"
        BY <3>1, HeadTail, OpFacts DEF TypeOK
      <3>3. todo' = Tail(todo) \/ todo' = <<o>> \o Tail(todo)
        BY <1>6, <3>2 DEF GuestSlot
      <3> QED
        BY <3>1, <3>2, <3>3, NoMount, PopNone, SwapNone
    <2> QED
      BY <2>1, VoidMount, PTL
  <1>7. CASE HostSlot
    <2>1. NoneLeft("mount")'
      <3>1. /\ TypeOK /\ MountInv /\ todo # <<>> /\ todo' = Tail(todo)
            /\ Head(todo).op \notin {"mount", "format"}
        BY <1>7 DEF HostSlot, Doing, IInv
      <3> QED
        BY <3>1, NoMount, PopNone
    <2> QED
      BY <2>1, VoidMount, PTL
  <1>8. CASE Import
    <2>1. NoneLeft("mount")'
      <3>1. /\ TypeOK /\ MountInv /\ FormatInv /\ todo # <<>>
            /\ Head(todo).op \notin {"mount", "format"}
        BY <1>8 DEF Import, Doing, IInv
      <3>2. PICK o \in Op : o = Do("flush", Head(todo).s) /\ o.op = "flush"
        BY <3>1, HeadTail, OpFacts DEF TypeOK
      <3>3. todo' = Tail(todo) \/ todo' = <<o>> \o Tail(todo)
        BY <1>8, <3>2 DEF Import
      <3> QED
        BY <3>1, <3>2, <3>3, NoMount, PopNone, SwapNone
    <2> QED
      BY <2>1, VoidMount, PTL
  <1>9. CASE Need
    <2>1. NoneLeft("mount")'
      <3>1. /\ TypeOK /\ MountInv /\ FormatInv /\ todo # <<>>
            /\ Head(todo).op \notin {"mount", "format"}
        BY <1>9 DEF Need, Doing, IInv
      <3>2. CASE todo' = <<>>
        BY <3>2 DEF NoneLeft, Pos
      <3>3. CASE todo' = Tail(todo)
        BY <3>1, <3>3, NoMount, PopNone
      <3> QED
        BY <1>9, <3>2, <3>3 DEF Need
    <2> QED
      BY <2>1, VoidMount, PTL
  <1>10. CASE SyncDone
    <2>1. NoneLeft("mount")'
      <3>1. /\ TypeOK /\ MountInv /\ todo # <<>> /\ todo' = Tail(todo)
            /\ Head(todo).op \notin {"mount", "format"}
        BY <1>10 DEF SyncDone, Doing, IInv
      <3> QED
        BY <3>1, NoMount, PopNone
    <2> QED
      BY <2>1, VoidMount, PTL
  <1>11. CASE UploadDone
    <2>1. NoneLeft("mount")'
      <3>1. /\ TypeOK /\ MountInv /\ todo # <<>> /\ todo' = Tail(todo)
            /\ Head(todo).op \notin {"mount", "format"}
        BY <1>11 DEF UploadDone, Doing, IInv
      <3> QED
        BY <3>1, NoMount, PopNone
    <2> QED
      BY <2>1, VoidMount, PTL
  <1>12. CASE Restore
    <2>1. NoneLeft("mount")'
      <3>1. /\ TypeOK /\ MountInv /\ todo # <<>> /\ todo' = Tail(todo)
            /\ Head(todo).op \notin {"mount", "format"}
        BY <1>12 DEF Restore, Doing, IInv
      <3> QED
        BY <3>1, NoMount, PopNone
    <2> QED
      BY <2>1, VoidMount, PTL
  <1>13. ASSUME NEW s \in Slots, SioWrite(s)
        PROVE  MountInv'
    <2>1. NoneLeft("mount")'
      <3>1. OpsIn(todo', SaveOps)
        BY <1>13, SaveScript DEF SioWrite
      <3> QED
        BY <3>1, FreshNone DEF SaveOps, LeaveOps
    <2> QED
      BY <2>1, VoidMount, PTL
  <1>14. ASSUME NEW on \in BOOLEAN, SetExtensionCodec(on)
        PROVE  MountInv'
    <2>1. NoneLeft("mount")'
      BY <1>14, IdleNone DEF SetExtensionCodec
    <2> QED
      BY <2>1, VoidMount, PTL
  <1>15. ASSUME NEW present \in BOOLEAN, HostUpload(present)
        PROVE  MountInv'
    <2>1. NoneLeft("mount")'
      <3>1. OpsIn(todo', {"import", "upload"})
        BY <1>15, HostBound, UploadOps
      <3> QED
        BY <3>1, FreshNone DEF SaveOps, LeaveOps
    <2> QED
      BY <2>1, VoidMount, PTL
  <1>16. CASE HostSync
    <2>1. NoneLeft("mount")'
      <3>1. OpsIn(todo', {"match"})
        BY <1>16, MatchOps DEF HostSync
      <3> QED
        BY <3>1, FreshNone DEF SaveOps, LeaveOps
    <2> QED
      BY <2>1, VoidMount, PTL
  <1>17. ASSUME NEW S \in SUBSET Slots, GuestBlob(S)
        PROVE  MountInv'
    <2>1. NoneLeft("mount")'
      <3>1. OpsIn(todo', {"import", "need", "match"})
        BY <1>17, BlobOps
      <3> QED
        BY <3>1, FreshNone DEF SaveOps, LeaveOps
    <2> QED
      BY <2>1, VoidMount, PTL
  <1>18. CASE Shutdown
    <2>1. NoneLeft("mount")'
      <3>1. OpsIn(todo', LeaveOps)
        BY <1>18, ExitOps
      <3> QED
        BY <3>1, FreshNone DEF SaveOps, LeaveOps
    <2> QED
      BY <2>1, VoidMount, PTL
  <1>19. CASE Booted'
    BY <1>19, BootedInv, PTL
  <1>20. CASE Writeback
    BY <1>20 DEF Writeback, MountInv, Pos, IInv
  <1>21. CASE UNCHANGED vars
    BY <1>21 DEF vars, MountInv, Pos, IInv
  <1> QED
    BY <1>1, <1>2, <1>3, <1>4, <1>5, <1>6, <1>7, <1>8, <1>9, <1>10, <1>11, <1>12, <1>13,
       <1>14, <1>15, <1>16, <1>17, <1>18, <1>19, <1>20, <1>21, BootNext DEF Next

\* Every step keeps a format under way on the file just created.
LEMMA FormatStep ==
    ASSUME IInv, [Next]_vars
    PROVE  FormatInv'
  <1>1. CASE Mount
    <2> DEFINE s == Head(todo).s
    <2>0. todo # <<>> /\ temp' = NoTemp /\ TypeOK /\ FormatInv /\ s \in Slots
      BY <1>1, MountHead DEF Mount, Doing, IInv
    <2>1. CASE todo' = Tail(todo)
      <3>1. NoneLeft("format")'
        BY <2>0, <2>1, PopNoFormat
      <3> QED
        BY <3>1, VoidFormat, PTL
    <2>2. CASE /\ todo' = <<Do("format", s)>> \o Tail(todo)
               /\ disk' = [disk EXCEPT ![s] = Short] /\ card'[s] = Formatted
      <3>1. PICK o \in Op : o = Do("format", s) /\ o.op = "format" /\ o.s = s
        BY <2>0, OpFacts
      <3>2. /\ Pos' = Pos /\ 1 \in Pos /\ todo'[1] = o
            /\ \A i \in Pos : i # 1 => todo'[i] = todo[i]
        BY <2>0, <2>2, <3>1, SwapPos DEF TypeOK
      <3>3. disk'[s] = Short
        BY <2>0, <2>2 DEF TypeOK
      <3>4. \A i \in Pos' : todo'[i].op = "format" => i = 1
        BY <2>0, <3>2 DEF FormatInv
      <3>5. card'[todo'[1].s] = Formatted /\ disk'[todo'[1].s] = Short
        BY <2>2, <3>1, <3>2, <3>3
      <3> QED
        BY <2>0, <3>4, <3>5 DEF FormatInv
    <2> QED
      BY <1>1, <2>1, <2>2, MountCard
  <1>2. CASE Format
    <2>1. NoneLeft("format")'
      <3>1. TypeOK /\ FormatInv /\ todo # <<>> /\ todo' = Tail(todo)
        BY <1>2 DEF Format, Doing, IInv
      <3> QED
        BY <3>1, PopNoFormat
    <2> QED
      BY <2>1, VoidFormat, PTL
  <1>3. CASE Flush
    <2>1. NoneLeft("format")'
      <3>1. TypeOK /\ FormatInv /\ todo # <<>> /\ todo' = Tail(todo)
        BY <1>3 DEF Flush, Doing, IInv
      <3> QED
        BY <3>1, PopNoFormat
    <2> QED
      BY <2>1, VoidFormat, PTL
  <1>4. CASE Rename
    <2>1. NoneLeft("format")'
      BY <1>4 DEF Rename, IInv, FormatInv, NoneLeft, Pos
    <2> QED
      BY <2>1, VoidFormat, PTL
  <1>5. CASE Ack
    <2>1. NoneLeft("format")'
      <3>1. TypeOK /\ FormatInv /\ todo # <<>> /\ todo' = Tail(todo)
        BY <1>5 DEF Ack, Doing, IInv
      <3> QED
        BY <3>1, PopNoFormat
    <2> QED
      BY <2>1, VoidFormat, PTL
  <1>6. CASE GuestSlot
    <2>1. NoneLeft("format")'
      <3>1. /\ TypeOK /\ MountInv /\ FormatInv /\ todo # <<>>
            /\ Head(todo).op \notin {"mount", "format"}
        BY <1>6 DEF GuestSlot, Doing, IInv
      <3>2. PICK o \in Op : o = Do("flush", Head(todo).s) /\ o.op = "flush"
        BY <3>1, HeadTail, OpFacts DEF TypeOK
      <3>3. todo' = Tail(todo) \/ todo' = <<o>> \o Tail(todo)
        BY <1>6, <3>2 DEF GuestSlot
      <3> QED
        BY <3>1, <3>2, <3>3, PopNoFormat, SwapNoFormat
    <2> QED
      BY <2>1, VoidFormat, PTL
  <1>7. CASE HostSlot
    <2>1. NoneLeft("format")'
      <3>1. TypeOK /\ FormatInv /\ todo # <<>> /\ todo' = Tail(todo)
        BY <1>7 DEF HostSlot, Doing, IInv
      <3> QED
        BY <3>1, PopNoFormat
    <2> QED
      BY <2>1, VoidFormat, PTL
  <1>8. CASE Import
    <2>1. NoneLeft("format")'
      <3>1. /\ TypeOK /\ MountInv /\ FormatInv /\ todo # <<>>
            /\ Head(todo).op \notin {"mount", "format"}
        BY <1>8 DEF Import, Doing, IInv
      <3>2. PICK o \in Op : o = Do("flush", Head(todo).s) /\ o.op = "flush"
        BY <3>1, HeadTail, OpFacts DEF TypeOK
      <3>3. todo' = Tail(todo) \/ todo' = <<o>> \o Tail(todo)
        BY <1>8, <3>2 DEF Import
      <3> QED
        BY <3>1, <3>2, <3>3, PopNoFormat, SwapNoFormat
    <2> QED
      BY <2>1, VoidFormat, PTL
  <1>9. CASE Need
    <2>1. NoneLeft("format")'
      <3>1. /\ TypeOK /\ MountInv /\ FormatInv /\ todo # <<>>
            /\ Head(todo).op \notin {"mount", "format"}
        BY <1>9 DEF Need, Doing, IInv
      <3>2. CASE todo' = <<>>
        BY <3>2 DEF NoneLeft, Pos
      <3>3. CASE todo' = Tail(todo)
        BY <3>1, <3>3, PopNoFormat
      <3> QED
        BY <1>9, <3>2, <3>3 DEF Need
    <2> QED
      BY <2>1, VoidFormat, PTL
  <1>10. CASE SyncDone
    <2>1. NoneLeft("format")'
      <3>1. TypeOK /\ FormatInv /\ todo # <<>> /\ todo' = Tail(todo)
        BY <1>10 DEF SyncDone, Doing, IInv
      <3> QED
        BY <3>1, PopNoFormat
    <2> QED
      BY <2>1, VoidFormat, PTL
  <1>11. CASE UploadDone
    <2>1. NoneLeft("format")'
      <3>1. TypeOK /\ FormatInv /\ todo # <<>> /\ todo' = Tail(todo)
        BY <1>11 DEF UploadDone, Doing, IInv
      <3> QED
        BY <3>1, PopNoFormat
    <2> QED
      BY <2>1, VoidFormat, PTL
  <1>12. CASE Restore
    <2>1. NoneLeft("format")'
      <3>1. TypeOK /\ FormatInv /\ todo # <<>> /\ todo' = Tail(todo)
        BY <1>12 DEF Restore, Doing, IInv
      <3> QED
        BY <3>1, PopNoFormat
    <2> QED
      BY <2>1, VoidFormat, PTL
  <1>13. ASSUME NEW s \in Slots, SioWrite(s)
        PROVE  FormatInv'
    <2>1. NoneLeft("format")'
      <3>1. OpsIn(todo', SaveOps)
        BY <1>13, SaveScript DEF SioWrite
      <3> QED
        BY <3>1, FreshNone DEF SaveOps, LeaveOps
    <2> QED
      BY <2>1, VoidFormat, PTL
  <1>14. ASSUME NEW on \in BOOLEAN, SetExtensionCodec(on)
        PROVE  FormatInv'
    <2>1. NoneLeft("format")'
      BY <1>14, IdleNone DEF SetExtensionCodec
    <2> QED
      BY <2>1, VoidFormat, PTL
  <1>15. ASSUME NEW present \in BOOLEAN, HostUpload(present)
        PROVE  FormatInv'
    <2>1. NoneLeft("format")'
      <3>1. OpsIn(todo', {"import", "upload"})
        BY <1>15, HostBound, UploadOps
      <3> QED
        BY <3>1, FreshNone DEF SaveOps, LeaveOps
    <2> QED
      BY <2>1, VoidFormat, PTL
  <1>16. CASE HostSync
    <2>1. NoneLeft("format")'
      <3>1. OpsIn(todo', {"match"})
        BY <1>16, MatchOps DEF HostSync
      <3> QED
        BY <3>1, FreshNone DEF SaveOps, LeaveOps
    <2> QED
      BY <2>1, VoidFormat, PTL
  <1>17. ASSUME NEW S \in SUBSET Slots, GuestBlob(S)
        PROVE  FormatInv'
    <2>1. NoneLeft("format")'
      <3>1. OpsIn(todo', {"import", "need", "match"})
        BY <1>17, BlobOps
      <3> QED
        BY <3>1, FreshNone DEF SaveOps, LeaveOps
    <2> QED
      BY <2>1, VoidFormat, PTL
  <1>18. CASE Shutdown
    <2>1. NoneLeft("format")'
      <3>1. OpsIn(todo', LeaveOps)
        BY <1>18, ExitOps
      <3> QED
        BY <3>1, FreshNone DEF SaveOps, LeaveOps
    <2> QED
      BY <2>1, VoidFormat, PTL
  <1>19. CASE Booted'
    BY <1>19, BootedInv, PTL
  <1>20. CASE Writeback
    BY <1>20 DEF Writeback, FormatInv, Pos, IInv
  <1>21. CASE UNCHANGED vars
    BY <1>21 DEF vars, FormatInv, Pos, IInv
  <1> QED
    BY <1>1, <1>2, <1>3, <1>4, <1>5, <1>6, <1>7, <1>8, <1>9, <1>10, <1>11, <1>12, <1>13,
       <1>14, <1>15, <1>16, <1>17, <1>18, <1>19, <1>20, <1>21, BootNext DEF Next

\* The head is gone, or an operation that binds and imports nothing took its place.
Dropped ==
    /\ todo # <<>>
    /\ \/ todo' = Tail(todo)
       \/ \E o \in Op : o.op \in {"flush", "format"} /\ todo' = <<o>> \o Tail(todo)

\* What is left to bind and to import once the head is gone.
LEMMA DroppedFacts ==
    ASSUME TypeOK, BindInv, Dropped
    PROVE  /\ \A s \in Slots : Unbound(s)' <=> \E i \in Pos : i # 1 /\ Binds(todo[i], s)
           /\ \A i, k \in Pos' : i < k =>
                ~(\E s \in Slots : Binds(todo'[i], s) /\ Binds(todo'[k], s))
           /\ \A i \in Pos' : todo'[i].op = "import" => MatchSlot(todo'[i].s)
  <1>0. todo \in Seq(Op) /\ todo # <<>>
    BY DEF TypeOK, Dropped
  <1>1. CASE todo' = Tail(todo)
    <2>1. /\ \A i \in Pos' : i \in Nat \ {0} /\ i + 1 \in Pos /\ todo'[i] = todo[i + 1]
          /\ \A i \in Pos : i # 1 => i - 1 \in Pos' /\ todo'[i - 1] = todo[i]
      BY <1>0, <1>1, PopPos
    <2>2. ASSUME NEW s \in Slots
          PROVE  Unbound(s)' <=> \E i \in Pos : i # 1 /\ Binds(todo[i], s)
      <3>1. ASSUME NEW i \in Pos', Binds(todo'[i], s)
            PROVE  \E j \in Pos : j # 1 /\ Binds(todo[j], s)
        <4>1. i + 1 \in Pos /\ i + 1 # 1 /\ Binds(todo[i + 1], s)
          BY <2>1, <3>1
        <4> QED
          BY <4>1
      <3>2. ASSUME NEW i \in Pos, i # 1, Binds(todo[i], s)
            PROVE  \E j \in Pos' : Binds(todo'[j], s)
        BY <2>1, <3>2
      <3> QED
        BY <3>1, <3>2 DEF Unbound
    <2>3. ASSUME NEW i \in Pos', NEW k \in Pos', i < k
          PROVE  ~(\E s \in Slots : Binds(todo'[i], s) /\ Binds(todo'[k], s))
      <3>1. i + 1 \in Pos /\ k + 1 \in Pos /\ i + 1 < k + 1
        BY <2>1, <2>3
      <3>2. ~(\E s \in Slots : Binds(todo[i + 1], s) /\ Binds(todo[k + 1], s))
        BY <3>1 DEF BindInv
      <3> QED
        BY <2>1, <3>2
    <2>4. \A i \in Pos' : todo'[i].op = "import" => MatchSlot(todo'[i].s)
      BY <2>1 DEF BindInv
    <2> QED
      BY <2>2, <2>3, <2>4
  <1>2. ASSUME NEW o \in Op, o.op \in {"flush", "format"}, todo' = <<o>> \o Tail(todo)
        PROVE  /\ \A s \in Slots : Unbound(s)' <=> \E i \in Pos : i # 1 /\ Binds(todo[i], s)
               /\ \A i, k \in Pos' : i < k =>
                    ~(\E s \in Slots : Binds(todo'[i], s) /\ Binds(todo'[k], s))
               /\ \A i \in Pos' : todo'[i].op = "import" => MatchSlot(todo'[i].s)
    <2>1. /\ Pos' = Pos /\ 1 \in Pos /\ todo'[1] = o
          /\ \A i \in Pos : i \in Nat \ {0} /\ (i # 1 => todo'[i] = todo[i])
      BY <1>0, <1>2, SwapPos
    <2>2. \A s \in Slots : ~Binds(o, s)
      BY <1>2 DEF Binds
    <2>3. ASSUME NEW s \in Slots
          PROVE  Unbound(s)' <=> \E i \in Pos : i # 1 /\ Binds(todo[i], s)
      BY <2>1, <2>2 DEF Unbound
    <2>4. ASSUME NEW i \in Pos', NEW k \in Pos', i < k
          PROVE  ~(\E s \in Slots : Binds(todo'[i], s) /\ Binds(todo'[k], s))
      <3>1. k # 1 /\ todo'[k] = todo[k] /\ i \in Pos /\ k \in Pos
        BY <2>1, <2>4
      <3>2. CASE i = 1
        BY <2>1, <2>2, <3>2
      <3>3. CASE i # 1
        BY <2>1, <2>4, <3>1, <3>3 DEF BindInv
      <3> QED
        BY <3>2, <3>3
    <2>5. \A i \in Pos' : todo'[i].op = "import" => MatchSlot(todo'[i].s)
      <3>1. o.op # "import"
        BY <1>2
      <3> QED
        BY <2>1, <3>1 DEF BindInv
    <2> QED
      BY <2>3, <2>4, <2>5
  <1> QED
    BY <1>1, <1>2 DEF Dropped

\* The session as far as the slots of a match depend on it.
SameSeat ==
    /\ np'.role = np.role /\ (np'.guestMemcard <=> np.guestMemcard)
    /\ np.sandbox => np'.sandbox
\* The same slots are in a sandbox.
SamePaths == \A s \in Slots : (card'[s].path = "sandbox") <=> (card[s].path = "sandbox")

\* The slots of a match depend on the seat alone.
LEMMA SeatSlots ==
    ASSUME SameSeat
    PROVE  \A s : MatchSlot(s)' <=> MatchSlot(s)
  BY DEF SameSeat, MatchSlot

\* A step that binds no slot.
LEMMA BindKept ==
    ASSUME TypeOK, BindInv, Dropped, SameSeat, SamePaths,
           Head(todo).op \notin {"guest", "host"}
    PROVE  BindInv'
  <1>1. 1 \in Pos /\ Head(todo) = todo[1]
    BY HeadTail DEF TypeOK, Dropped
  <1>2. \A s \in Slots : Unbound(s)' <=> Unbound(s)
    BY <1>1, DroppedFacts DEF Unbound, Binds
  <1>3. \A s \in Slots : MatchSlot(s)' => ((card'[s].path = "sandbox") <=> ~Unbound(s)')
    BY <1>2, SeatSlots DEF BindInv, SamePaths
  <1>4. \A s \in Slots : card'[s].path = "sandbox" => MatchSlot(s)' /\ np'.sandbox
    BY SeatSlots DEF BindInv, SamePaths, SameSeat
  <1>5. \A s \in Slots : Unbound(s)' => MatchSlot(s)'
    BY <1>2, SeatSlots DEF BindInv
  <1>6. \A i, k \in Pos' : i < k =>
          ~(\E s \in Slots : Binds(todo'[i], s) /\ Binds(todo'[k], s))
    BY DroppedFacts
  <1>7. \A i \in Pos' : todo'[i].op = "import" => MatchSlot(todo[i].s)'
    BY DroppedFacts DEF SameSeat, MatchSlot
  <1> QED
    BY <1>3, <1>4, <1>5, <1>6, <1>7 DEF BindInv

\* A step that binds the slot of the head to the file of the match.
LEMMA BindTaken ==
    ASSUME IInv, Dropped, SameSeat, np'.sandbox, Doing("guest") \/ Doing("host"),
           OnlySlot(Head(todo).s), card'[Head(todo).s].path = "sandbox"
    PROVE  BindInv'
  <1>0. PICK t \in Slots : TypeOK /\ BindInv /\ t = Head(todo).s /\ Unbound(t) /\ MatchSlot(t)
    BY BindHead DEF IInv
  <1>1. 1 \in Pos /\ Head(todo) = todo[1] /\ \A i \in Pos : i \in Nat /\ (i # 1 => 1 < i)
    BY <1>0, HeadTail DEF TypeOK, Dropped, Pos
  <1>2. Binds(todo[1], t) /\ \A s \in Slots : Binds(todo[1], s) => s = t
    BY <1>0, <1>1 DEF Binds, Doing
  <1>3. ~\E i \in Pos : i # 1 /\ Binds(todo[i], t)
    BY <1>0, <1>1, <1>2 DEF BindInv
  <1>4. ~Unbound(t)' /\ \A s \in Slots : s # t => (Unbound(s)' <=> Unbound(s))
    <2>1. ~Unbound(t)'
      BY <1>0, <1>3, DroppedFacts
    <2>2. ASSUME NEW s \in Slots, s # t
          PROVE  Unbound(s)' <=> Unbound(s)
      BY <1>0, <1>2, <2>2, DroppedFacts DEF Unbound
    <2> QED
      BY <2>1, <2>2
  <1>5. card'[t].path = "sandbox" /\ \A s \in Slots : s # t => card'[s] = card[s]
    BY <1>0 DEF OnlySlot
  <1>6. \A s \in Slots : MatchSlot(s)' => ((card'[s].path = "sandbox") <=> ~Unbound(s)')
    BY <1>0, <1>4, <1>5, SeatSlots DEF BindInv
  <1>7. \A s \in Slots : card'[s].path = "sandbox" => MatchSlot(s)' /\ np'.sandbox
    BY <1>0, <1>5, SeatSlots DEF BindInv
  <1>8. \A s \in Slots : Unbound(s)' => MatchSlot(s)'
    BY <1>0, <1>4, SeatSlots DEF BindInv
  <1>9. \A i, k \in Pos' : i < k =>
          ~(\E s \in Slots : Binds(todo'[i], s) /\ Binds(todo'[k], s))
    BY <1>0, DroppedFacts
  <1>10. \A i \in Pos' : todo'[i].op = "import" => MatchSlot(todo[i].s)'
    BY <1>0, DroppedFacts DEF SameSeat, MatchSlot
  <1> QED
    BY <1>6, <1>7, <1>8, <1>9, <1>10 DEF BindInv

\* A new list of operations, none of which binds a slot.
LEMMA BindFresh ==
    ASSUME BindInv, \A s \in Slots : ~Unbound(s), SameSeat, SamePaths,
           \A i \in Pos' : todo'[i].op \notin {"guest", "host"},
           \A i \in Pos' : todo'[i].op = "import" => MatchSlot(todo'[i].s)
    PROVE  BindInv'
  <1>2. \A s : ~Unbound(s)'
    BY DEF Unbound, Binds
  <1>3. \A s \in Slots : MatchSlot(s)' => ((card'[s].path = "sandbox") <=> ~Unbound(s)')
    BY <1>2, SeatSlots DEF BindInv, SamePaths
  <1>4. \A s \in Slots : card'[s].path = "sandbox" => MatchSlot(s)' /\ np'.sandbox
    BY SeatSlots DEF BindInv, SamePaths, SameSeat
  <1>5. \A s \in Slots : Unbound(s)' => MatchSlot(s)'
    BY <1>2
  <1>6. \A i, k \in Pos' : i < k =>
          ~(\E s \in Slots : Binds(todo'[i], s) /\ Binds(todo'[k], s))
    BY DEF Binds
  <1>7. \A i \in Pos' : todo'[i].op = "import" => MatchSlot(todo[i].s)'
    BY DEF SameSeat, MatchSlot
  <1> QED
    BY <1>3, <1>4, <1>5, <1>6, <1>7 DEF BindInv

\* Between handlers no slot is to be bound.
LEMMA IdleBound ==
    ASSUME Idle
    PROVE  \A s \in Slots : ~Unbound(s)
  BY DEF Idle, Unbound, Pos

\* A step that leaves the handler alone.
LEMMA BindSame ==
    ASSUME BindInv, todo' = todo, SameSeat, SamePaths
    PROVE  BindInv'
  <1>2. \A s : Unbound(s)' <=> Unbound(s)
    BY DEF Unbound, Pos
  <1> QED
    BY <1>2, SeatSlots DEF BindInv, SamePaths, SameSeat, Pos

\* Cards are applied after every slot of the match was bound.
LEMMA NeedBound ==
    ASSUME IInv, Need
    PROVE  \A s \in Slots : ~Unbound(s)
  <1>1. 1 \in Pos /\ todo[1].op = "need"
    BY HeadTail DEF Need, Doing, IInv, TypeOK
  <1>2. Within(SyncOps)
    BY <1>1 DEF IInv, ScriptInv, Within, BootOps, SaveOps, LeaveOps
  <1> QED
    BY <1>2 DEF Within, SyncOps, Unbound, Binds

\* A match is left only when the session ends.
LEMMA RestoreTail ==
    ASSUME IInv, Restore
    PROVE  \A i \in Pos' : todo'[i].op \in LeaveOps
  <1>1. TypeOK /\ ScriptInv /\ todo # <<>> /\ todo' = Tail(todo) /\ Head(todo).op = "restore"
    BY DEF IInv, Restore, Doing
  <1>2. Within(LeaveOps)
    BY <1>1, HeadScript
  <1> QED
    BY <1>1, <1>2, PopPos DEF Within, TypeOK

\* The paths of the players come back when a match is left.
LEMMA RestoredPaths ==
    ASSUME IInv, Restore
    PROVE  \A s \in Slots : card'[s].path # "sandbox"
  <1>0. TypeOK /\ BindInv
    BY DEF IInv
  <1>1. CASE np.sandbox
    <2>1. PICK refused \in BOOLEAN : card' = RestoreCards(refused)
      BY <1>1 DEF Restore
    <2>2. \A s \in Slots : card'[s].path = (IF np.role = "guest" \/ s = 1
                                            THEN np.personal[s] ELSE card[s].path)
      BY <1>0, <2>1, RestoreFacts
    <2>3. \A s \in Slots : np.personal[s] \in {"home", "none"}
      BY <1>0 DEF TypeOK, Session
    <2>4. \A s \in Slots : ~(np.role = "guest" \/ s = 1) => card[s].path # "sandbox"
      BY <1>0 DEF BindInv, MatchSlot
    <2> QED
      BY <2>2, <2>3, <2>4
  <1>2. CASE ~np.sandbox
    BY <1>0, <1>2 DEF Restore, BindInv
  <1> QED
    BY <1>1, <1>2

\* Every step keeps the slots of a match bound once, and no other.
LEMMA BindStep ==
    ASSUME IInv, [Next]_vars
    PROVE  BindInv'
  <1>1. CASE Mount
    <2>1. Dropped /\ Head(todo).op \notin {"guest", "host"}
      <3>1. todo \in Seq(Op) /\ todo # <<>> /\ Head(todo).op \notin {"guest", "host"}
        BY <1>1 DEF Mount, Doing, IInv, TypeOK
      <3>2. PICK o \in Op : o = Do("format", Head(todo).s) /\ o.op = "format"
        BY <3>1, HeadTail, OpFacts
      <3>3. todo' = Tail(todo) \/ todo' = <<o>> \o Tail(todo)
        BY <1>1, <3>2 DEF Mount
      <3> QED
        BY <3>1, <3>2, <3>3 DEF Dropped
    <2>2. SameSeat
      BY <1>1 DEF Mount, SameSeat
    <2>3. SamePaths
      <3>1. card[Head(todo).s].path = "none"
        BY <1>1, MountHead DEF EmptyCard
      <3> QED
        BY <1>1, <3>1, MountCard DEF OnlySlot, SamePaths
    <2> QED
      BY <2>1, <2>2, <2>3, BindKept DEF IInv
  <1>2. CASE Format
    <2>1. Dropped /\ Head(todo).op \notin {"guest", "host"}
      BY <1>2 DEF Format, Doing, Dropped
    <2>2. SameSeat
      BY <1>2 DEF Format, SameSeat
    <2>3. SamePaths
      BY <1>2, FormatFacts DEF IInv, OnlySlot, Alike, Published, SamePaths
    <2> QED
      BY <2>1, <2>2, <2>3, BindKept DEF IInv
  <1>3. CASE Flush
    <2>1. Dropped /\ Head(todo).op \notin {"guest", "host"}
      BY <1>3 DEF Flush, Doing, Dropped
    <2>2. SameSeat
      BY <1>3 DEF Flush, SameSeat
    <2>3. SamePaths
      BY <1>3, FlushFacts DEF IInv, OnlySlot, Alike, Published, SamePaths
    <2> QED
      BY <2>1, <2>2, <2>3, BindKept DEF IInv
  <1>4. CASE Rename
    <2>1. todo' = todo /\ SameSeat
      BY <1>4 DEF Rename, SameSeat
    <2>2. SamePaths
      BY <1>4, RenameFacts DEF IInv, OnlySlot, Alike, Published, SamePaths
    <2> QED
      BY <2>1, <2>2, BindSame DEF IInv
  <1>5. CASE Ack
    <2>1. Dropped /\ Head(todo).op \notin {"guest", "host"}
      BY <1>5 DEF Ack, Doing, Dropped
    <2>2. SameSeat
      BY <1>5 DEF Ack, SameSeat
    <2>3. SamePaths
      BY <1>5 DEF Ack, SamePaths
    <2> QED
      BY <2>1, <2>2, <2>3, BindKept DEF IInv
  <1>6. CASE GuestSlot
    <2>1. Dropped
      <3>1. todo \in Seq(Op) /\ todo # <<>>
        BY <1>6 DEF GuestSlot, Doing, IInv, TypeOK
      <3>2. PICK o \in Op : o = Do("flush", Head(todo).s) /\ o.op = "flush"
        BY <3>1, HeadTail, OpFacts
      <3>3. todo' = Tail(todo) \/ todo' = <<o>> \o Tail(todo)
        BY <1>6, <3>2 DEF GuestSlot
      <3> QED
        BY <3>1, <3>2, <3>3 DEF Dropped
    <2>2. SameSeat /\ np'.sandbox
      BY <1>6 DEF GuestSlot, SameSeat, IInv, TypeOK, Session
    <2>3. OnlySlot(Head(todo).s) /\ card'[Head(todo).s].path = "sandbox"
      BY <1>6, GuestFacts DEF IInv
    <2>4. Doing("guest") \/ Doing("host")
      BY <1>6 DEF GuestSlot
    <2> QED
      BY <2>1, <2>2, <2>3, <2>4, BindTaken
  <1>7. CASE HostSlot
    <2>1. Dropped
      <3>1. todo \in Seq(Op) /\ todo # <<>>
        BY <1>7 DEF HostSlot, Doing, IInv, TypeOK
      <3>2. PICK o \in Op : o = Do("flush", Head(todo).s) /\ o.op = "flush"
        BY <3>1, HeadTail, OpFacts
      <3>3. todo' = Tail(todo) \/ todo' = <<o>> \o Tail(todo)
        BY <1>7, <3>2 DEF HostSlot
      <3> QED
        BY <3>1, <3>2, <3>3 DEF Dropped
    <2>2. SameSeat /\ np'.sandbox
      BY <1>7 DEF HostSlot, SameSeat, IInv, TypeOK, Session
    <2>3. OnlySlot(Head(todo).s) /\ card'[Head(todo).s].path = "sandbox"
      BY <1>7, HostFacts DEF IInv
    <2>4. Doing("guest") \/ Doing("host")
      BY <1>7 DEF HostSlot
    <2> QED
      BY <2>1, <2>2, <2>3, <2>4, BindTaken
  <1>8. CASE Import
    <2>1. Dropped /\ Head(todo).op \notin {"guest", "host"}
      <3>1. todo \in Seq(Op) /\ todo # <<>> /\ Head(todo).op \notin {"guest", "host"}
        BY <1>8 DEF Import, Doing, IInv, TypeOK
      <3>2. PICK o \in Op : o = Do("flush", Head(todo).s) /\ o.op = "flush"
        BY <3>1, HeadTail, OpFacts
      <3>3. todo' = Tail(todo) \/ todo' = <<o>> \o Tail(todo)
        BY <1>8, <3>2 DEF Import
      <3> QED
        BY <3>1, <3>2, <3>3 DEF Dropped
    <2>2. SameSeat
      BY <1>8 DEF Import, SameSeat
    <2>3. SamePaths
      BY <1>8, ImportFacts DEF IInv, OnlySlot, Alike, Published, SamePaths
    <2> QED
      BY <2>1, <2>2, <2>3, BindKept DEF IInv
  <1>9. CASE Need
    <2>1. SameSeat /\ SamePaths
      BY <1>9 DEF Need, SameSeat, SamePaths
    <2>2. CASE todo' = Tail(todo)
      <3>1. Dropped /\ Head(todo).op \notin {"guest", "host"}
        BY <1>9, <2>2 DEF Need, Doing, Dropped
      <3> QED
        BY <2>1, <3>1, BindKept DEF IInv
    <2>3. CASE todo' = <<>>
      <3>1. Pos' = {}
        BY <2>3 DEF Pos
      <3>2. \A s \in Slots : ~Unbound(s)
        BY <1>9, NeedBound
      <3> QED
        BY <2>1, <3>1, <3>2, BindFresh DEF IInv
    <2> QED
      BY <1>9, <2>2, <2>3 DEF Need
  <1>10. CASE SyncDone
    <2>1. Dropped /\ Head(todo).op \notin {"guest", "host"}
      BY <1>10 DEF SyncDone, Doing, Dropped
    <2>2. SameSeat
      BY <1>10 DEF SyncDone, SameSeat, IInv, TypeOK, Session
    <2>3. SamePaths
      BY <1>10 DEF SyncDone, SamePaths
    <2> QED
      BY <2>1, <2>2, <2>3, BindKept DEF IInv
  <1>11. CASE UploadDone
    <2>1. Dropped /\ Head(todo).op \notin {"guest", "host"}
      BY <1>11 DEF UploadDone, Doing, Dropped
    <2>2. SameSeat
      BY <1>11 DEF UploadDone, SameSeat, IInv, TypeOK, Session
    <2>3. SamePaths
      BY <1>11 DEF UploadDone, SamePaths
    <2> QED
      BY <2>1, <2>2, <2>3, BindKept DEF IInv
  <1>12. CASE Restore
    <2>1. np'.role = "off"
      BY <1>12 DEF Restore, Offline
    <2>2. \A s : ~MatchSlot(s)'
      BY <2>1 DEF MatchSlot
    <2>3. \A i \in Pos' : todo'[i].op \in LeaveOps
      BY <1>12, RestoreTail
    <2>4. \A s : ~Unbound(s)'
      BY <2>3 DEF Unbound, Binds, LeaveOps
    <2>5. \A s \in Slots : card'[s].path # "sandbox"
      BY <1>12, RestoredPaths
    <2>6. \A i \in Pos' : todo'[i].op # "import" /\ todo'[i].op \notin {"guest", "host"}
      BY <2>3 DEF LeaveOps
    <2> QED
      BY <2>2, <2>4, <2>5, <2>6 DEF BindInv, Binds
  <1>13. ASSUME NEW s \in Slots, SioWrite(s)
        PROVE  BindInv'
    <2>1. OpsIn(todo', SaveOps)
      BY <1>13, SaveScript DEF SioWrite
    <2>2. \A i \in Pos' : todo'[i].op \notin {"guest", "host"}
      BY <2>1 DEF OpsIn, Pos, SaveOps, LeaveOps
    <2>3. \A i \in Pos' : todo'[i].op = "import" => MatchSlot(todo'[i].s)
      BY <2>1 DEF OpsIn, Pos, SaveOps, LeaveOps
    <2>4. SameSeat /\ \A t \in Slots : ~Unbound(t)
      BY <1>13, IdleBound DEF SioWrite, Running, SameSeat
    <2>5. SamePaths
      BY <1>13, SioFacts DEF IInv, OnlySlot, SamePaths
    <2> QED
      BY <2>2, <2>3, <2>4, <2>5, BindFresh DEF IInv
  <1>14. ASSUME NEW on \in BOOLEAN, SetExtensionCodec(on)
        PROVE  BindInv'
    <2>1. todo' = todo /\ SameSeat
      BY <1>14 DEF SetExtensionCodec, SameSeat
    <2>2. SamePaths
      BY <1>14, CodecFacts DEF IInv, SamePaths
    <2> QED
      BY <2>1, <2>2, BindSame DEF IInv
  <1>15. ASSUME NEW present \in BOOLEAN, HostUpload(present)
        PROVE  BindInv'
    <2>1. OpsIn(todo', {"import", "upload"})
      BY <1>15, HostBound, UploadOps
    <2>2. \A i \in Pos' : todo'[i].op \notin {"guest", "host"}
      BY <2>1 DEF OpsIn, Pos, SaveOps, LeaveOps
    <2>3. \A i \in Pos' : todo'[i].op = "import" => MatchSlot(todo'[i].s)
      BY <1>15, HostBound, UploadOps
    <2>4. SameSeat /\ \A t \in Slots : ~Unbound(t)
      BY <1>15, IdleBound DEF HostUpload, Running, SameSeat
    <2>5. SamePaths
      BY <1>15 DEF HostUpload, SamePaths
    <2> QED
      BY <2>2, <2>3, <2>4, <2>5, BindFresh DEF IInv
  <1>16. CASE HostSync
    <2>1. OpsIn(todo', {"match"})
      BY <1>16, MatchOps DEF HostSync
    <2>2. \A i \in Pos' : todo'[i].op \notin {"guest", "host"}
      BY <2>1 DEF OpsIn, Pos, SaveOps, LeaveOps
    <2>3. \A i \in Pos' : todo'[i].op = "import" => MatchSlot(todo'[i].s)
      BY <2>1 DEF OpsIn, Pos, SaveOps, LeaveOps
    <2>4. SameSeat /\ \A t \in Slots : ~Unbound(t)
      BY <1>16, IdleBound DEF HostSync, Running, SameSeat
    <2>5. SamePaths
      BY <1>16 DEF HostSync, SamePaths
    <2> QED
      BY <2>2, <2>3, <2>4, <2>5, BindFresh DEF IInv
  <1>17. ASSUME NEW S \in SUBSET Slots, GuestBlob(S)
        PROVE  BindInv'
    <2>1. OpsIn(todo', {"import", "need", "match"})
      BY <1>17, BlobOps
    <2>2. \A i \in Pos' : todo'[i].op \notin {"guest", "host"}
      BY <2>1 DEF OpsIn, Pos, SaveOps, LeaveOps
    <2>3. \A i \in Pos' : todo'[i].op = "import" => MatchSlot(todo'[i].s)
      BY <1>17 DEF GuestBlob, MatchSlot
    <2>4. SameSeat /\ \A t \in Slots : ~Unbound(t)
      BY <1>17, IdleBound DEF GuestBlob, Running, SameSeat
    <2>5. SamePaths
      BY <1>17 DEF GuestBlob, SamePaths
    <2> QED
      BY <2>2, <2>3, <2>4, <2>5, BindFresh DEF IInv
  <1>18. CASE Shutdown
    <2>1. OpsIn(todo', LeaveOps)
      BY <1>18, ExitOps
    <2>2. \A i \in Pos' : todo'[i].op \notin {"guest", "host"}
      BY <2>1 DEF OpsIn, Pos, SaveOps, LeaveOps
    <2>3. \A i \in Pos' : todo'[i].op = "import" => MatchSlot(todo'[i].s)
      BY <2>1 DEF OpsIn, Pos, SaveOps, LeaveOps
    <2>4. SameSeat /\ \A t \in Slots : ~Unbound(t)
      BY <1>18, IdleBound DEF Shutdown, Running, SameSeat
    <2>5. SamePaths
      BY <1>18 DEF Shutdown, SamePaths
    <2> QED
      BY <2>2, <2>3, <2>4, <2>5, BindFresh DEF IInv
  <1>19. CASE Booted'
    BY <1>19, BootedInv, PTL
  <1>20. CASE Writeback
    <2>1. todo' = todo /\ SameSeat /\ SamePaths
      BY <1>20 DEF Writeback, SameSeat, SamePaths
    <2> QED
      BY <2>1, BindSame DEF IInv
  <1>21. CASE UNCHANGED vars
    <2>1. todo' = todo /\ SameSeat /\ SamePaths
      BY <1>21 DEF vars, SameSeat, SamePaths
    <2> QED
      BY <2>1, BindSame DEF IInv
  <1> QED
    BY <1>1, <1>2, <1>3, <1>4, <1>5, <1>6, <1>7, <1>8, <1>9, <1>10, <1>11, <1>12, <1>13,
       <1>14, <1>15, <1>16, <1>17, <1>18, <1>19, <1>20, <1>21, BootNext DEF Next

\* The conditions of HomeInv and FileInv on one slot.
HomeCard(c) ==
    /\ c.present => c.path # "none"
    /\ c.path = "home" =>
          \/ c.present /\ c.data.origin = "home"
          \/ ~c.present /\ ~c.dirty
FileCard(c, f) ==
    c.present /\ c.path = "home" =>
        /\ f.kind = "whole"
        /\ ~c.dirty => f.base = c.data
        /\ ~c.readFailed => f.tail = c.ext /\ c.ext # "big"

\* HomeInv after a step on one slot.
LEMMA HomeOne ==
    ASSUME HomeInv, NEW s \in Slots, OnlySlot(s), HomeCard(card'[s])
    PROVE  HomeInv'
  BY DEF HomeInv, HomeCard, OnlySlot

\* A card is applied to a slot bound to the file of the match.
LEMMA ImportBound ==
    ASSUME IInv, Import
    PROVE  card[Head(todo).s].path = "sandbox"
  <1> DEFINE s == Head(todo).s
  <1>0. TypeOK /\ BindInv /\ ScriptInv /\ todo # <<>> /\ Head(todo).op = "import"
    BY DEF IInv, Import, Doing
  <1>1. 1 \in Pos /\ todo[1] = Head(todo) /\ s \in Slots
    BY <1>0, HeadTail DEF TypeOK
  <1>2. MatchSlot(s)
    BY <1>0, <1>1 DEF BindInv
  <1>3. Within(SyncOps)
    BY <1>0, HeadScript
  <1>4. ~Unbound(s)
    BY <1>3 DEF Within, SyncOps, Unbound, Binds
  <1> QED
    BY <1>0, <1>1, <1>2, <1>4 DEF BindInv

\* The slot a format works on.
LEMMA FormatHead ==
    ASSUME IInv, Format
    PROVE  /\ Head(todo).s \in Slots /\ card[Head(todo).s] = Formatted
           /\ disk[Head(todo).s] = Short
  <1>0. TypeOK /\ FormatInv /\ todo # <<>> /\ Head(todo).op = "format"
    BY DEF IInv, Format, Doing
  <1>1. 1 \in Pos /\ todo[1] = Head(todo) /\ Head(todo).s \in Slots
    BY <1>0, HeadTail DEF TypeOK
  <1> QED
    BY <1>0, <1>1 DEF FormatInv

\* The card of a slot whose file was just created.
LEMMA FormattedFacts ==
    /\ Formatted.path = "home" /\ ~Formatted.present /\ ~Formatted.dirty
    /\ Formatted.data = Blank /\ Formatted.ext = "none" /\ Blank.origin = "home"
  BY DEF Formatted, EmptyCard, Blank

\* Every step keeps only own cards in the slots bound to the player's files.
LEMMA HomeStep ==
    ASSUME IInv, [Next]_vars
    PROVE  HomeInv'
  <1>1. CASE Mount
    <2> DEFINE s == Head(todo).s
    <2>1. s \in Slots /\ OnlySlot(s) /\ card'[s].path = "home" /\ ~card'[s].dirty
      BY <1>1, MountCard
    <2>2. CASE ~card'[s].present
      BY <2>1, <2>2, HomeOne DEF IInv, HomeCard
    <2>3. CASE card'[s].present /\ disk[s].kind = "whole" /\ card'[s].data = disk[s].base
      <3>1. disk[s].base.origin = "home"
        BY <2>1, <2>3 DEF IInv, OwnCard
      <3> QED
        BY <2>1, <2>3, <3>1, HomeOne DEF IInv, HomeCard
    <2> QED
      BY <1>1, <2>2, <2>3, MountCard
  <1>2. CASE Format
    <2> DEFINE s == Head(todo).s
    <2>1. s \in Slots /\ card[s] = Formatted /\ TypeOK /\ HomeInv
      BY <1>2, FormatHead DEF IInv
    <2>2. CASE card' = card
      BY <2>1, <2>2 DEF HomeInv
    <2>3. CASE card'[s].present
      <3>1. OnlySlot(s) /\ card'[s].data = Blank /\ card'[s].path = "home"
        BY <1>2, <2>1, FormatFacts, FormattedFacts
      <3> QED
        BY <2>1, <2>3, <3>1, FormattedFacts, HomeOne DEF HomeCard
    <2> QED
      BY <1>2, <2>1, <2>2, <2>3, FormatFacts
  <1>3. CASE Flush
    <2> DEFINE s == Head(todo).s
    <2>1. s \in Slots /\ HomeInv
      BY <1>3, HeadTail DEF Flush, Doing, IInv, TypeOK
    <2>2. OnlySlot(s) /\ HomeCard(card'[s])
      BY <1>3, <2>1, FlushFacts DEF IInv, HomeInv, HomeCard, Alike
    <2> QED
      BY <2>1, <2>2, HomeOne
  <1>4. CASE Rename
    <2> DEFINE s == temp.s
    <2>1. s \in Slots /\ OnlySlot(s) /\ HomeInv
      BY <1>4, RenameFacts DEF IInv
    <2>2. HomeCard(card'[s])
      <3>1. CASE Alike(card'[s], card[s])
        BY <2>1, <3>1 DEF Alike, HomeInv, HomeCard
      <3>2. CASE Published(card'[s], card[s], temp.tail)
        BY <2>1, <3>2 DEF Published, HomeInv, HomeCard
      <3> QED
        BY <1>4, <3>1, <3>2, RenameFacts DEF IInv
    <2> QED
      BY <2>1, <2>2, HomeOne
  <1>5. CASE Ack
    BY <1>5 DEF Ack, IInv, HomeInv
  <1>6. CASE GuestSlot
    <2> DEFINE s == Head(todo).s
    <2>1. s \in Slots /\ HomeInv
      BY <1>6, HeadTail DEF GuestSlot, Doing, IInv, TypeOK
    <2>2. OnlySlot(s) /\ HomeCard(card'[s])
      BY <1>6, <2>1, GuestFacts DEF IInv, HomeInv, HomeCard, Alike
    <2> QED
      BY <2>1, <2>2, HomeOne
  <1>7. CASE HostSlot
    <2> DEFINE s == Head(todo).s
    <2>1. s \in Slots /\ HomeInv
      BY <1>7, HeadTail DEF HostSlot, Doing, IInv, TypeOK
    <2>2. OnlySlot(s) /\ HomeCard(card'[s])
      BY <1>7, <2>1, HostFacts DEF IInv, HomeInv, HomeCard, Alike
    <2> QED
      BY <2>1, <2>2, HomeOne
  <1>8. CASE Import
    <2> DEFINE s == Head(todo).s
    <2>1. s \in Slots /\ HomeInv
      BY <1>8, HeadTail DEF Import, Doing, IInv, TypeOK
    <2>2. OnlySlot(s) /\ HomeCard(card'[s])
      BY <1>8, <2>1, ImportFacts, ImportBound DEF IInv, HomeInv, HomeCard, Alike
    <2> QED
      BY <2>1, <2>2, HomeOne
  <1>9. CASE Need
    BY <1>9 DEF Need, IInv, HomeInv
  <1>10. CASE SyncDone
    BY <1>10 DEF SyncDone, IInv, HomeInv
  <1>11. CASE UploadDone
    BY <1>11 DEF UploadDone, IInv, HomeInv
  <1>12. CASE Restore
    <2>1. CASE ~np.sandbox
      BY <1>12, <2>1 DEF Restore, IInv, HomeInv
    <2>2. CASE np.sandbox
      <3>1. PICK refused \in BOOLEAN : card' = RestoreCards(refused)
        BY <1>12, <2>2 DEF Restore
      <3>2. \A s \in Slots :
              /\ ~card'[s].dirty
              /\ card'[s].present => /\ disk[s].kind = "whole" /\ card'[s].path # "none"
                                     /\ card'[s].data = disk[s].base
        BY <3>1, RestoreFacts DEF IInv
      <3>3. \A s \in Slots : disk[s].kind = "whole" => disk[s].base.origin = "home"
        BY DEF IInv, OwnCard
      <3> QED
        BY <3>2, <3>3 DEF HomeInv
    <2> QED
      BY <2>1, <2>2
  <1>13. ASSUME NEW s \in Slots, SioWrite(s)
        PROVE  HomeInv'
    <2>1. HomeInv /\ card[s].present
      BY <1>13 DEF IInv, SioWrite
    <2>2. OnlySlot(s) /\ HomeCard(card'[s])
      BY <1>13, <2>1, SioFacts DEF IInv, HomeInv, HomeCard
    <2> QED
      BY <2>1, <2>2, HomeOne
  <1>14. ASSUME NEW on \in BOOLEAN, SetExtensionCodec(on)
        PROVE  HomeInv'
    BY <1>14, CodecFacts DEF IInv, HomeInv
  <1>15. ASSUME NEW present \in BOOLEAN, HostUpload(present)
        PROVE  HomeInv'
    BY <1>15 DEF HostUpload, IInv, HomeInv
  <1>16. CASE HostSync
    BY <1>16 DEF HostSync, IInv, HomeInv
  <1>17. ASSUME NEW S \in SUBSET Slots, GuestBlob(S)
        PROVE  HomeInv'
    BY <1>17 DEF GuestBlob, IInv, HomeInv
  <1>18. CASE Shutdown
    BY <1>18 DEF Shutdown, IInv, HomeInv
  <1>19. CASE Booted'
    BY <1>19, BootedInv, PTL
  <1>20. CASE Writeback
    BY <1>20 DEF Writeback, IInv, HomeInv
  <1>21. CASE UNCHANGED vars
    BY <1>21 DEF vars, IInv, HomeInv
  <1> QED
    BY <1>1, <1>2, <1>3, <1>4, <1>5, <1>6, <1>7, <1>8, <1>9, <1>10, <1>11, <1>12, <1>13,
       <1>14, <1>15, <1>16, <1>17, <1>18, <1>19, <1>20, <1>21, BootNext DEF Next

\* Every step keeps a publication under way one of a dirty card that is not blocked.
LEMMA TempStep ==
    ASSUME IInv, [Next]_vars
    PROVE  TempInv'
  <1>1. CASE Mount
    BY <1>1 DEF Mount, Doing, Idle, Running, TempInv
  <1>2. CASE Format
    BY <1>2 DEF Format, Doing, Idle, Running, TempInv
  <1>3. CASE Flush
    <2> DEFINE s == Head(todo).s
               c == card[s]
    <2>1. Alike(card'[s], c) /\ codec' = codec
      BY <1>3, FlushFacts DEF IInv, Flush
    <2>2. CASE temp' = NoTemp
      BY <2>2 DEF TempInv
    <2>3. CASE /\ c.dirty /\ c.path # "none" /\ ~Blocked(c)
               /\ \E t \in FlushTail(c) : temp' = [kind |-> "temp", s |-> s, tail |-> t]
      <3>1. temp'.s = s /\ temp'.tail \in FlushTail(c)
        BY <2>3
      <3>2. card'[s].dirty /\ card'[s].path # "none" /\ ~Blocked(card'[s])
        BY <2>1, <2>3 DEF Alike, Blocked
      <3>3. temp'.tail \in (IF codec' THEN {"kept", "none"} ELSE {card'[s].ext})
        BY <2>1, <3>1 DEF Alike, FlushTail
      <3> QED
        BY <3>1, <3>2, <3>3 DEF TempInv, FlushTail, Blocked
    <2> QED
      BY <1>3, <2>2, <2>3, FlushFacts DEF IInv
  <1>4. CASE Rename
    BY <1>4 DEF Rename, TempInv
  <1>5. CASE Ack
    BY <1>5 DEF Ack, Doing, Idle, Running, TempInv
  <1>6. CASE GuestSlot
    BY <1>6 DEF GuestSlot, Doing, Idle, Running, TempInv
  <1>7. CASE HostSlot
    BY <1>7 DEF HostSlot, Doing, Idle, Running, TempInv
  <1>8. CASE Import
    BY <1>8 DEF Import, Doing, Idle, Running, TempInv
  <1>9. CASE Need
    BY <1>9 DEF Need, Doing, Idle, Running, TempInv
  <1>10. CASE SyncDone
    BY <1>10 DEF SyncDone, Doing, Idle, Running, TempInv
  <1>11. CASE UploadDone
    BY <1>11 DEF UploadDone, Doing, Idle, Running, TempInv
  <1>12. CASE Restore
    BY <1>12 DEF Restore, Doing, Idle, Running, TempInv
  <1>13. ASSUME NEW s \in Slots, SioWrite(s)
        PROVE  TempInv'
    BY <1>13 DEF SioWrite, Doing, Idle, Running, TempInv
  <1>14. ASSUME NEW on \in BOOLEAN, SetExtensionCodec(on)
        PROVE  TempInv'
    BY <1>14 DEF SetExtensionCodec, Doing, Idle, Running, TempInv
  <1>15. ASSUME NEW present \in BOOLEAN, HostUpload(present)
        PROVE  TempInv'
    BY <1>15 DEF HostUpload, Doing, Idle, Running, TempInv
  <1>16. CASE HostSync
    BY <1>16 DEF HostSync, Doing, Idle, Running, TempInv
  <1>17. ASSUME NEW S \in SUBSET Slots, GuestBlob(S)
        PROVE  TempInv'
    BY <1>17 DEF GuestBlob, Doing, Idle, Running, TempInv
  <1>18. CASE Shutdown
    BY <1>18 DEF Shutdown, Doing, Idle, Running, TempInv
  <1>19. CASE Booted'
    BY <1>19, BootedInv, PTL
  <1>20. CASE Writeback
    BY <1>20 DEF Writeback, Doing, Idle, Running, TempInv
  <1>21. CASE UNCHANGED vars
    BY <1>21 DEF vars, IInv, TempInv, FlushTail
  <1> QED
    BY <1>1, <1>2, <1>3, <1>4, <1>5, <1>6, <1>7, <1>8, <1>9, <1>10, <1>11, <1>12, <1>13,
       <1>14, <1>15, <1>16, <1>17, <1>18, <1>19, <1>20, <1>21, BootNext DEF Next

\* FileInv after a step on one slot and its file.
LEMMA FileOne ==
    ASSUME FileInv, NEW s \in Slots, OnlySlot(s), FileCard(card'[s], disk'[s]),
           \A t \in Slots : t # s => disk'[t] = disk[t]
    PROVE  FileInv'
  BY DEF FileInv, FileCard, OnlySlot

\* A card published into the player's file is the player's, and its tail fits.
LEMMA PublishedTail ==
    ASSUME IInv, Rename, card[temp.s].path = "home"
    PROVE  /\ card[temp.s].present /\ card[temp.s].data.origin = "home"
           /\ temp.tail # "big" /\ disk[temp.s].kind = "whole"
           /\ disk[temp.s].tail # "big"
           /\ disk[temp.s].tail = "kept" /\ ~codec => temp.tail = "kept"
  <1> DEFINE s == temp.s
             c == card[s]
  <1>1. s \in Slots /\ HomeInv /\ FileInv /\ TempInv /\ temp # NoTemp
    BY RenameFacts DEF IInv, Rename
  <1>2. c.dirty /\ ~c.readFailed /\ temp.tail \in FlushTail(c)
    BY <1>1 DEF TempInv, Blocked
  <1>3. c.present /\ c.data.origin = "home"
    BY <1>1, <1>2 DEF HomeInv
  <1>4. disk[s].kind = "whole" /\ disk[s].tail = c.ext /\ c.ext # "big"
    BY <1>1, <1>2, <1>3 DEF FileInv
  <1> QED
    BY <1>2, <1>3, <1>4 DEF FlushTail

\* Every step keeps the clean cards what their files hold.
LEMMA FileStep ==
    ASSUME IInv, [Next]_vars
    PROVE  FileInv'
  <1>1. CASE Mount
    <2> DEFINE s == Head(todo).s
    <2>1. s \in Slots /\ OnlySlot(s) /\ FileInv /\ TypeOK
      BY <1>1, MountCard DEF IInv
    <2>2. CASE disk' = disk
      <3>1. CASE ~card'[s].present
        BY <2>1, <2>2, <3>1, FileOne DEF FileCard
      <3>2. CASE /\ card'[s].present /\ disk[s].kind = "whole" /\ card'[s].data = disk[s].base
                 /\ disk[s].tail = "big" => card'[s].readFailed
                 /\ disk[s].tail # "big" => card'[s].ext = disk[s].tail
        <4>1. FileCard(card'[s], disk'[s])
          BY <2>2, <3>2 DEF FileCard
        <4> QED
          BY <2>1, <2>2, <4>1, FileOne
      <3> QED
        BY <1>1, <3>1, <3>2, MountCard
    <2>3. CASE ~card'[s].present /\ disk' = [disk EXCEPT ![s] = Short]
      <3>1. \A t \in Slots : t # s => disk'[t] = disk[t]
        BY <2>1, <2>3 DEF TypeOK
      <3> QED
        BY <2>1, <2>3, <3>1, FileOne DEF FileCard
    <2> QED
      BY <1>1, <2>2, <2>3, MountCard
  <1>2. CASE Format
    <2> DEFINE s == Head(todo).s
    <2>1. s \in Slots /\ card[s] = Formatted /\ TypeOK /\ FileInv
      BY <1>2, FormatHead DEF IInv
    <2>2. CASE card' = card /\ disk' = disk
      BY <2>1, <2>2 DEF FileInv
    <2>3. CASE card'[s].present /\ disk' = [disk EXCEPT ![s] = Whole(Blank, "none")]
      <3>1. OnlySlot(s) /\ card'[s].data = Blank /\ card'[s].ext = "none"
        BY <1>2, <2>1, FormatFacts, FormattedFacts
      <3>2. disk'[s] = Whole(Blank, "none") /\ \A t \in Slots : t # s => disk'[t] = disk[t]
        BY <2>1, <2>3 DEF TypeOK
      <3>3. FileCard(card'[s], disk'[s])
        BY <3>1, <3>2 DEF FileCard, Whole
      <3> QED
        BY <2>1, <3>1, <3>2, <3>3, FileOne
    <2> QED
      BY <1>2, <2>1, <2>2, <2>3, FormatFacts
  <1>3. CASE Flush
    <2> DEFINE s == Head(todo).s
    <2>1. s \in Slots /\ FileInv /\ disk' = disk
      BY <1>3, HeadTail DEF Flush, Doing, IInv, TypeOK
    <2>2. OnlySlot(s) /\ FileCard(card'[s], disk[s])
      BY <1>3, <2>1, FlushFacts DEF IInv, FileInv, FileCard, Alike
    <2> QED
      BY <2>1, <2>2, FileOne
  <1>4. CASE Rename
    <2> DEFINE s == temp.s
               c == card[s]
    <2>1. s \in Slots /\ OnlySlot(s) /\ FileInv /\ HomeInv /\ TypeOK
      BY <1>4, RenameFacts DEF IInv
    <2>2. CASE Alike(card'[s], c) /\ disk' = disk
      <3>1. FileCard(card'[s], disk'[s])
        BY <2>1, <2>2 DEF Alike, FileInv, FileCard
      <3> QED
        BY <2>1, <2>2, <3>1, FileOne
    <2>3. CASE Published(card'[s], c, temp.tail) /\ c.path # "home" /\ disk' = disk
      <3>1. FileCard(card'[s], disk'[s])
        BY <2>3 DEF Published, FileCard
      <3> QED
        BY <2>1, <2>3, <3>1, FileOne
    <2>4. CASE /\ Published(card'[s], c, temp.tail) /\ c.path = "home"
               /\ disk' = [disk EXCEPT ![s] = Whole(c.data, temp.tail)]
      <3>1. /\ disk'[s] = Whole(c.data, temp.tail)
            /\ \A t \in Slots : t # s => disk'[t] = disk[t]
        BY <2>1, <2>4 DEF TypeOK
      <3>2. temp.tail # "big"
        BY <1>4, PublishedTail, <2>1, <2>4
      <3>3. FileCard(card'[s], disk'[s])
        BY <2>4, <3>1, <3>2 DEF Published, FileCard, Whole
      <3> QED
        BY <2>1, <3>1, <3>3, FileOne
    <2> QED
      BY <1>4, <2>2, <2>3, <2>4, RenameFacts DEF IInv
  <1>5. CASE Ack
    BY <1>5 DEF Ack, IInv, FileInv
  <1>6. CASE GuestSlot
    <2> DEFINE s == Head(todo).s
    <2>1. s \in Slots /\ FileInv /\ disk' = disk
      BY <1>6, HeadTail DEF GuestSlot, Doing, IInv, TypeOK
    <2>2. OnlySlot(s) /\ FileCard(card'[s], disk[s])
      BY <1>6, <2>1, GuestFacts DEF IInv, FileCard
    <2> QED
      BY <2>1, <2>2, FileOne
  <1>7. CASE HostSlot
    <2> DEFINE s == Head(todo).s
    <2>1. s \in Slots /\ FileInv /\ disk' = disk
      BY <1>7, HeadTail DEF HostSlot, Doing, IInv, TypeOK
    <2>2. OnlySlot(s) /\ FileCard(card'[s], disk[s])
      BY <1>7, <2>1, HostFacts DEF IInv, FileCard
    <2> QED
      BY <2>1, <2>2, FileOne
  <1>8. CASE Import
    <2> DEFINE s == Head(todo).s
    <2>1. s \in Slots /\ FileInv /\ disk' = disk
      BY <1>8, HeadTail DEF Import, Doing, IInv, TypeOK
    <2>2. OnlySlot(s) /\ FileCard(card'[s], disk[s])
      BY <1>8, <2>1, ImportFacts, ImportBound DEF IInv, FileCard
    <2> QED
      BY <2>1, <2>2, FileOne
  <1>9. CASE Need
    BY <1>9 DEF Need, IInv, FileInv
  <1>10. CASE SyncDone
    BY <1>10 DEF SyncDone, IInv, FileInv
  <1>11. CASE UploadDone
    BY <1>11 DEF UploadDone, IInv, FileInv
  <1>12. CASE Restore
    <2>1. CASE ~np.sandbox
      BY <1>12, <2>1 DEF Restore, IInv, FileInv
    <2>2. CASE np.sandbox
      <3>1. PICK refused \in BOOLEAN : card' = RestoreCards(refused)
        BY <1>12, <2>2 DEF Restore
      <3>2. disk' = disk
        BY <1>12 DEF Restore
      <3>3. \A s \in Slots : card'[s].present =>
              /\ disk[s].kind = "whole" /\ card'[s].data = disk[s].base
              /\ disk[s].tail = "big" => card'[s].readFailed
              /\ disk[s].tail # "big" => card'[s].ext = disk[s].tail
        BY <3>1, RestoreFacts DEF IInv
      <3> QED
        BY <3>2, <3>3 DEF FileInv
    <2> QED
      BY <2>1, <2>2
  <1>13. ASSUME NEW s \in Slots, SioWrite(s)
        PROVE  FileInv'
    <2>1. FileInv /\ card[s].present /\ disk' = disk
      BY <1>13 DEF IInv, SioWrite
    <2>2. OnlySlot(s) /\ FileCard(card'[s], disk'[s])
      BY <1>13, <2>1, SioFacts DEF IInv, FileInv, FileCard
    <2> QED
      BY <2>1, <2>2, FileOne
  <1>14. ASSUME NEW on \in BOOLEAN, SetExtensionCodec(on)
        PROVE  FileInv'
    BY <1>14, CodecFacts DEF IInv, FileInv, SetExtensionCodec
  <1>15. ASSUME NEW present \in BOOLEAN, HostUpload(present)
        PROVE  FileInv'
    BY <1>15 DEF HostUpload, IInv, FileInv
  <1>16. CASE HostSync
    BY <1>16 DEF HostSync, IInv, FileInv
  <1>17. ASSUME NEW S \in SUBSET Slots, GuestBlob(S)
        PROVE  FileInv'
    BY <1>17 DEF GuestBlob, IInv, FileInv
  <1>18. CASE Shutdown
    BY <1>18 DEF Shutdown, IInv, FileInv
  <1>19. CASE Booted'
    BY <1>19, BootedInv, PTL
  <1>20. CASE Writeback
    BY <1>20 DEF Writeback, IInv, FileInv
  <1>21. CASE UNCHANGED vars
    BY <1>21 DEF vars, IInv, FileInv
  <1> QED
    BY <1>1, <1>2, <1>3, <1>4, <1>5, <1>6, <1>7, <1>8, <1>9, <1>10, <1>11, <1>12, <1>13,
       <1>14, <1>15, <1>16, <1>17, <1>18, <1>19, <1>20, <1>21, BootNext DEF Next

\* DiskInv after a step on one file.
LEMMA DiskOne ==
    ASSUME TypeOK, DiskInv, NEW s \in Slots, NEW f \in Content,
           disk' = [disk EXCEPT ![s] = f],
           survivors' = [survivors EXCEPT ![s] = @ \cup {f}]
    PROVE  DiskInv'
  <1>1. OnlyFile(s, f)
    BY AssignFile
  <1> QED
    BY <1>1 DEF OnlyFile, DiskInv

\* OwnCard after a step on one file.
LEMMA OwnOne ==
    ASSUME TypeOK, OwnCard, NEW s \in Slots, NEW f \in Content,
           f.kind = "whole" => f.base.origin = "home",
           disk' = [disk EXCEPT ![s] = f],
           survivors' = [survivors EXCEPT ![s] = @ \cup {f}]
    PROVE  OwnCard'
  <1>1. OnlyFile(s, f)
    BY AssignFile
  <1>2. ASSUME NEW t \in Slots, NEW g \in survivors'[t] \cup {disk'[t]}
        PROVE  g.kind = "whole" => g.base.origin = "home"
    <2>1. g = f \/ g \in survivors[t] \cup {disk[t]}
      BY <1>1, <1>2 DEF OnlyFile
    <2> QED
      BY <2>1 DEF OwnCard
  <1> QED
    BY <1>2 DEF OwnCard

\* Every step keeps the file one of those a loss of power may leave.
LEMMA DiskStep ==
    ASSUME IInv, [Next]_vars
    PROVE  DiskInv'
  <1>1. CASE Mount
    <2>1. Head(todo).s \in Slots /\ Short \in Content /\ Short.kind # "whole"
      BY <1>1, MountHead DEF Content, Short
    <2>2. CASE UNCHANGED <<disk, survivors>>
      BY <2>2 DEF IInv, DiskInv
    <2>3. CASE /\ disk' = [disk EXCEPT ![Head(todo).s] = Short]
               /\ survivors' = [survivors EXCEPT ![Head(todo).s] = @ \cup {Short}]
      BY <2>1, <2>3, DiskOne DEF IInv
    <2> QED
      BY <1>1, <2>2, <2>3 DEF Mount
  <1>2. CASE Format
    <2>1. Whole(Blank, "none") \in Content /\ Whole(Blank, "none").base.origin = "home"
      BY ImageFacts DEF Content, Whole, Tails, Blank
    <2>2. CASE UNCHANGED <<disk, survivors>>
      BY <2>2 DEF IInv, DiskInv
    <2> QED
      BY <1>2, <2>1, <2>2, FormatFacts, DiskOne DEF IInv
  <1>3. CASE Flush
    BY <1>3 DEF Flush, IInv, DiskInv
  <1>4. CASE Rename
    <2> DEFINE f == Whole(card[temp.s].data, temp.tail)
    <2>1. temp.s \in Slots /\ f \in Content /\ f.base = card[temp.s].data
      BY <1>4, RenameContent DEF IInv, Whole
    <2>2. CASE UNCHANGED <<disk, survivors>>
      BY <2>2 DEF IInv, DiskInv
    <2>3. CASE /\ card[temp.s].path = "home"
               /\ disk' = [disk EXCEPT ![temp.s] = f]
               /\ survivors' = [survivors EXCEPT ![temp.s] = @ \cup {f}]
      <3>1. f.base.origin = "home"
        BY <1>4, <2>1, <2>3, PublishedTail
      <3> HIDE DEF f
      <3> QED
        BY <2>1, <2>3, <3>1, DiskOne DEF IInv
    <2> QED
      BY <1>4, <2>2, <2>3 DEF Rename
  <1>5. CASE Ack
    BY <1>5 DEF Ack, IInv, DiskInv
  <1>6. CASE GuestSlot
    BY <1>6 DEF GuestSlot, IInv, DiskInv
  <1>7. CASE HostSlot
    BY <1>7 DEF HostSlot, IInv, DiskInv
  <1>8. CASE Import
    BY <1>8 DEF Import, IInv, DiskInv
  <1>9. CASE Need
    BY <1>9 DEF Need, IInv, DiskInv
  <1>10. CASE SyncDone
    BY <1>10 DEF SyncDone, IInv, DiskInv
  <1>11. CASE UploadDone
    BY <1>11 DEF UploadDone, IInv, DiskInv
  <1>12. CASE Restore
    BY <1>12 DEF Restore, IInv, DiskInv
  <1>13. ASSUME NEW s \in Slots, SioWrite(s)
        PROVE  DiskInv'
    BY <1>13 DEF SioWrite, IInv, DiskInv
  <1>14. ASSUME NEW on \in BOOLEAN, SetExtensionCodec(on)
        PROVE  DiskInv'
    BY <1>14 DEF SetExtensionCodec, IInv, DiskInv
  <1>15. ASSUME NEW present \in BOOLEAN, HostUpload(present)
        PROVE  DiskInv'
    BY <1>15 DEF HostUpload, IInv, DiskInv
  <1>16. CASE HostSync
    BY <1>16 DEF HostSync, IInv, DiskInv
  <1>17. ASSUME NEW S \in SUBSET Slots, GuestBlob(S)
        PROVE  DiskInv'
    BY <1>17 DEF GuestBlob, IInv, DiskInv
  <1>18. CASE Shutdown
    BY <1>18 DEF Shutdown, IInv, DiskInv
  <1>19. ASSUME NEW enabled \in SlotSettings, NEW role \in Role, NEW gm \in BOOLEAN,
               Reboot(enabled, role, gm)
        PROVE  DiskInv'
    BY <1>19 DEF Reboot, IInv, DiskInv
  <1>20. ASSUME NEW enabled \in SlotSettings, Crash(enabled)
        PROVE  DiskInv'
    BY <1>20 DEF Crash, IInv, DiskInv
  <1>21. CASE PowerLoss
    <2>1. survivors' = [s \in Slots |-> {disk'[s]}]
      BY <1>21 DEF PowerLoss
    <2> QED
      BY <2>1 DEF DiskInv
  <1>22. CASE Writeback
    <2>1. disk' = disk /\ survivors' = [s \in Slots |-> {disk[s]}]
      BY <1>22 DEF Writeback
    <2> QED
      BY <2>1 DEF DiskInv
  <1>23. CASE UNCHANGED vars
    BY <1>23 DEF vars, IInv, DiskInv
  <1> QED
    BY <1>1, <1>2, <1>3, <1>4, <1>5, <1>6, <1>7, <1>8, <1>9, <1>10, <1>11, <1>12, <1>13,
       <1>14, <1>15, <1>16, <1>17, <1>18, <1>19, <1>20, <1>21, <1>22, <1>23 DEF Next

\* Every step keeps the player's own saves in the player's files.
LEMMA OwnStep ==
    ASSUME IInv, [Next]_vars
    PROVE  OwnCard'
  <1>1. CASE Mount
    <2>1. Head(todo).s \in Slots /\ Short \in Content /\ Short.kind # "whole"
      BY <1>1, MountHead DEF Content, Short
    <2>2. CASE UNCHANGED <<disk, survivors>>
      BY <2>2 DEF IInv, OwnCard
    <2>3. CASE /\ disk' = [disk EXCEPT ![Head(todo).s] = Short]
               /\ survivors' = [survivors EXCEPT ![Head(todo).s] = @ \cup {Short}]
      BY <2>1, <2>3, OwnOne DEF IInv
    <2> QED
      BY <1>1, <2>2, <2>3 DEF Mount
  <1>2. CASE Format
    <2>1. Whole(Blank, "none") \in Content /\ Whole(Blank, "none").base.origin = "home"
      BY ImageFacts DEF Content, Whole, Tails, Blank
    <2>2. CASE UNCHANGED <<disk, survivors>>
      BY <2>2 DEF IInv, OwnCard
    <2> QED
      BY <1>2, <2>1, <2>2, FormatFacts, OwnOne DEF IInv
  <1>3. CASE Flush
    BY <1>3 DEF Flush, IInv, OwnCard
  <1>4. CASE Rename
    <2> DEFINE f == Whole(card[temp.s].data, temp.tail)
    <2>1. temp.s \in Slots /\ f \in Content /\ f.base = card[temp.s].data
      BY <1>4, RenameContent DEF IInv, Whole
    <2>2. CASE UNCHANGED <<disk, survivors>>
      BY <2>2 DEF IInv, OwnCard
    <2>3. CASE /\ card[temp.s].path = "home"
               /\ disk' = [disk EXCEPT ![temp.s] = f]
               /\ survivors' = [survivors EXCEPT ![temp.s] = @ \cup {f}]
      <3>1. f.base.origin = "home"
        BY <1>4, <2>1, <2>3, PublishedTail
      <3> HIDE DEF f
      <3> QED
        BY <2>1, <2>3, <3>1, OwnOne DEF IInv
    <2> QED
      BY <1>4, <2>2, <2>3 DEF Rename
  <1>5. CASE Ack
    BY <1>5 DEF Ack, IInv, OwnCard
  <1>6. CASE GuestSlot
    BY <1>6 DEF GuestSlot, IInv, OwnCard
  <1>7. CASE HostSlot
    BY <1>7 DEF HostSlot, IInv, OwnCard
  <1>8. CASE Import
    BY <1>8 DEF Import, IInv, OwnCard
  <1>9. CASE Need
    BY <1>9 DEF Need, IInv, OwnCard
  <1>10. CASE SyncDone
    BY <1>10 DEF SyncDone, IInv, OwnCard
  <1>11. CASE UploadDone
    BY <1>11 DEF UploadDone, IInv, OwnCard
  <1>12. CASE Restore
    BY <1>12 DEF Restore, IInv, OwnCard
  <1>13. ASSUME NEW s \in Slots, SioWrite(s)
        PROVE  OwnCard'
    BY <1>13 DEF SioWrite, IInv, OwnCard
  <1>14. ASSUME NEW on \in BOOLEAN, SetExtensionCodec(on)
        PROVE  OwnCard'
    BY <1>14 DEF SetExtensionCodec, IInv, OwnCard
  <1>15. ASSUME NEW present \in BOOLEAN, HostUpload(present)
        PROVE  OwnCard'
    BY <1>15 DEF HostUpload, IInv, OwnCard
  <1>16. CASE HostSync
    BY <1>16 DEF HostSync, IInv, OwnCard
  <1>17. ASSUME NEW S \in SUBSET Slots, GuestBlob(S)
        PROVE  OwnCard'
    BY <1>17 DEF GuestBlob, IInv, OwnCard
  <1>18. CASE Shutdown
    BY <1>18 DEF Shutdown, IInv, OwnCard
  <1>19. ASSUME NEW enabled \in SlotSettings, NEW role \in Role, NEW gm \in BOOLEAN,
               Reboot(enabled, role, gm)
        PROVE  OwnCard'
    BY <1>19 DEF Reboot, IInv, OwnCard
  <1>20. ASSUME NEW enabled \in SlotSettings, Crash(enabled)
        PROVE  OwnCard'
    BY <1>20 DEF Crash, IInv, OwnCard
  <1>21. CASE PowerLoss
    <2>1. survivors' = [s \in Slots |-> {disk'[s]}]
      BY <1>21 DEF PowerLoss
    <2>2. \A s \in Slots : disk'[s] \in survivors[s]
      BY <1>21 DEF PowerLoss, Slots
    <2> QED
      BY <2>1, <2>2 DEF IInv, OwnCard
  <1>22. CASE Writeback
    <2>1. disk' = disk /\ survivors' = [s \in Slots |-> {disk[s]}]
      BY <1>22 DEF Writeback
    <2> QED
      BY <2>1 DEF IInv, OwnCard
  <1>23. CASE UNCHANGED vars
    BY <1>23 DEF vars, IInv, OwnCard
  <1> QED
    BY <1>1, <1>2, <1>3, <1>4, <1>5, <1>6, <1>7, <1>8, <1>9, <1>10, <1>11, <1>12, <1>13,
       <1>14, <1>15, <1>16, <1>17, <1>18, <1>19, <1>20, <1>21, <1>22, <1>23 DEF Next

\* The invariant holds when the machine starts ...
LEMMA InvInit == Init => IInv
  <1> SUFFICES ASSUME Init PROVE IInv
    OBVIOUS
  <1>1. Booted
    BY BootInit
  <1>2. /\ BootTypes
        /\ ScriptInv /\ BindInv /\ MountInv /\ FormatInv /\ HomeInv /\ TempInv /\ FileInv
    BY <1>1, BootedTypes, BootedInv
  <1>3. \A t \in StartTails : Whole(Blank, t) \in Content
    BY ImageFacts, BoundsAssumption DEF Whole, Content, Tails
  <1>4. disk \in [Slots -> Content] /\ survivors = [s \in Slots |-> {disk[s]}]
    BY <1>3 DEF Init, Content
  <1>5. survivors \in [Slots -> SUBSET Content]
    BY <1>4
  <1>6. /\ codec \in BOOLEAN /\ writes \in 0..MaxWrites /\ faults \in 0..MaxFaults
        /\ acked \in [Slots -> Nat]
    BY BoundsAssumption DEF Init
  <1>7. TypeOK
    BY <1>2, <1>4, <1>5, <1>6 DEF TypeOK, BootTypes
  <1>8. DiskInv
    BY <1>4 DEF DiskInv
  <1>9. OwnCard
    <2>1. \A s \in Slots : disk[s].kind = "whole" => disk[s].base.origin = "home"
      BY DEF Init, Absent, Whole, Blank
    <2> QED
      BY <1>4, <2>1 DEF OwnCard
  <1> QED
    BY <1>2, <1>7, <1>8, <1>9 DEF IInv

\* ... and every step keeps it.
LEMMA InvStep == IInv /\ [Next]_vars => IInv'
  BY TypeStep, ScriptStep, BindStep, MountStep, FormatStep, HomeStep, TempStep, FileStep,
     DiskStep, OwnStep DEF IInv

\* The inductive invariant holds in every reachable state, whatever may fail.
THEOREM Invariance == Spec => []IInv
  BY InvInit, InvStep, PTL DEF Spec

\* The state stays well formed.
THEOREM TypeCorrect == Spec => []TypeOK
  <1>1. IInv => TypeOK
    BY DEF IInv
  <1> QED
    BY <1>1, Invariance, PTL

\* The player's own files hold the player's own saves (OwnCard): whichever
\* operation of a match fails, opening a file included, and wherever the process
\* or the power ends (memcard.c, psx_netplay.c).
THEOREM OwnCardsOnly == Spec => []OwnCard
  <1>1. IInv => OwnCard
    BY DEF IInv
  <1> QED
    BY <1>1, Invariance, PTL

\* Between handlers, a slot that is not dirty shows exactly what its own file
\* holds (CleanMeansSaved; memcard_flush, memcard_reload_bound).
THEOREM CleanCards == Spec => []CleanMeansSaved
  <1>1. IInv => CleanMeansSaved
    BY DEF IInv, FileInv, CleanMeansSaved
  <1> QED
    BY <1>1, Invariance, PTL

\* With no answer left there is nothing to show of one.
LEMMA VoidAnswer == NoneLeft("ack") => AnswerInv
  BY DEF NoneLeft, AnswerInv

\* A machine that has just started answers no save.
LEMMA BootedNoAck == Booted => NoneLeft("ack")
  BY DEF Booted, BootShape, NoneLeft, Pos

\* An answer follows a flush: after another operation none is left.
LEMMA PopNoAck ==
    ASSUME TypeOK, AnswerInv, todo # <<>>, Head(todo).op # "flush", todo' = Tail(todo)
    PROVE  NoneLeft("ack")'
  <1> SUFFICES ASSUME NEW i \in Pos', todo'[i].op = "ack"
               PROVE  FALSE
    BY DEF NoneLeft
  <1>1. i \in Nat \ {0} /\ i + 1 \in Pos /\ todo'[i] = todo[i + 1]
    BY PopPos DEF TypeOK
  <1>4. i + 1 \in Pos /\ i + 1 # 1
    BY <1>1
  <1>5. todo[i + 1].op = "ack"
    BY <1>1
  <1>0. PICK k \in Pos : k # 1 /\ todo[k].op = "ack"
    BY <1>4, <1>5
  <1>2. todo[1] = Do("flush", todo[k].s)
    BY <1>0 DEF AnswerInv
  <1>3. Head(todo) = todo[1] /\ todo[1].op = "flush"
    BY <1>2, HeadTail DEF TypeOK, Do
  <1> QED
    BY <1>3

\* ... nor is one when it was replaced.
LEMMA SwapNoAck ==
    ASSUME TypeOK, AnswerInv, todo # <<>>, Head(todo).op # "flush", NEW o \in Op, o.op # "ack",
           todo' = <<o>> \o Tail(todo)
    PROVE  NoneLeft("ack")'
  <1> SUFFICES ASSUME NEW i \in Pos', todo'[i].op = "ack"
               PROVE  FALSE
    BY DEF NoneLeft
  <1>1. i \in Pos /\ i # 1 /\ todo'[i] = todo[i]
    BY SwapPos DEF TypeOK
  <1>2. todo[1] = Do("flush", todo[i].s)
    BY <1>1 DEF AnswerInv
  <1>3. Head(todo) = todo[1] /\ todo[1].op = "flush"
    BY <1>2, HeadTail DEF TypeOK, Do
  <1> QED
    BY <1>3

\* Every step keeps an answer behind the flush it reports.
LEMMA AnswerStep ==
    ASSUME IInv, AckInv, [Next]_vars
    PROVE  AnswerInv'
  <1>1. CASE Mount
    <2>1. NoneLeft("ack")'
      <3>1. TypeOK /\ AnswerInv /\ todo # <<>> /\ Head(todo).op # "flush"
        BY <1>1 DEF Mount, Doing, IInv, AckInv
      <3>2. PICK o \in Op : o = Do("format", Head(todo).s) /\ o.op = "format"
        BY <3>1, HeadTail, OpFacts DEF TypeOK
      <3>3. todo' = Tail(todo) \/ todo' = <<o>> \o Tail(todo)
        BY <1>1, <3>2 DEF Mount
      <3> QED
        BY <3>1, <3>2, <3>3, PopNoAck, SwapNoAck
    <2> QED
      BY <2>1, VoidAnswer, PTL
  <1>2. CASE Format
    <2>1. NoneLeft("ack")'
      <3>1. /\ TypeOK /\ AnswerInv /\ todo # <<>> /\ Head(todo).op # "flush"
            /\ todo' = Tail(todo)
        BY <1>2 DEF Format, Doing, IInv, AckInv
      <3> QED
        BY <3>1, PopNoAck
    <2> QED
      BY <2>1, VoidAnswer, PTL
  <1>3. CASE Flush
    <2> SUFFICES ASSUME NEW i \in Pos', todo'[i].op = "ack"
                 PROVE  /\ card'[todo'[i].s].present /\ card'[todo'[i].s].data.n <= writes'
                        /\ i # 1 => i = 2 /\ todo'[1] = Do("flush", todo'[i].s) /\ temp' = NoTemp
                        /\ i = 1 /\ temp' # NoTemp => temp'.s = todo'[i].s
                        /\ i = 1 /\ temp' = NoTemp /\ card'[todo'[i].s].result = 0
                             => ~card'[todo'[i].s].dirty
      BY DEF AnswerInv
    <2>1. todo \in Seq(Op) /\ todo # <<>> /\ todo' = Tail(todo) /\ writes' = writes
      BY <1>3 DEF Flush, Doing, IInv, TypeOK
    <2>2. i \in Nat \ {0} /\ i + 1 \in Pos /\ todo'[i] = todo[i + 1]
      BY <2>1, PopPos
    <2>3. PICK s \in Slots : s = todo[i + 1].s
      BY <2>1, <2>2, OpAt
    <2>4. i = 1 /\ todo[1] = Do("flush", s) /\ card[s].present /\ card[s].data.n <= writes
      BY <2>2, <2>3 DEF AckInv, AnswerInv
    <2>5. Head(todo).s = s
      BY <2>1, <2>4, HeadTail DEF Do
    <2>6. Alike(card'[s], card[s]) /\ card[s].path # "none"
      BY <1>3, <2>3, <2>4, <2>5, FlushFacts DEF IInv, HomeInv
    <2>7. temp' # NoTemp => temp'.s = s
      BY <1>3, <2>5, FlushFacts DEF IInv
    <2>8. temp' = NoTemp /\ card'[s].result = 0 => ~card[s].dirty
      <3>1. \A t \in FlushTail(card[s]) : [kind |-> "temp", s |-> s, tail |-> t] # NoTemp
        BY DEF NoTemp
      <3> QED
        BY <1>3, <2>5, <2>6, <3>1, FlushFacts DEF IInv
    <2> QED
      BY <2>1, <2>2, <2>3, <2>4, <2>6, <2>7, <2>8 DEF Alike
  <1>4. CASE Rename
    <2> SUFFICES ASSUME NEW i \in Pos', todo'[i].op = "ack"
                 PROVE  /\ card'[todo'[i].s].present /\ card'[todo'[i].s].data.n <= writes'
                        /\ i # 1 => i = 2 /\ todo'[1] = Do("flush", todo'[i].s) /\ temp' = NoTemp
                        /\ i = 1 /\ temp' # NoTemp => temp'.s = todo'[i].s
                        /\ i = 1 /\ temp' = NoTemp /\ card'[todo'[i].s].result = 0
                             => ~card'[todo'[i].s].dirty
      BY DEF AnswerInv
    <2>1. /\ todo \in Seq(Op) /\ todo' = todo /\ i \in Pos /\ writes' = writes
          /\ temp # NoTemp /\ temp' = NoTemp
      BY <1>4 DEF Rename, IInv, TypeOK, Pos
    <2>2. PICK s \in Slots : s = todo[i].s
      BY <2>1, OpAt
    <2>3. i = 1 /\ temp.s = s /\ card[s].present /\ card[s].data.n <= writes
      BY <2>1, <2>2 DEF AckInv, AnswerInv
    <2>4. \/ Published(card'[s], card[s], temp.tail)
          \/ Alike(card'[s], card[s]) /\ card'[s].result = -1
      BY <1>4, <2>3, RenameFacts DEF IInv
    <2> QED
      BY <2>1, <2>2, <2>3, <2>4 DEF Published, Alike
  <1>5. CASE Ack
    <2>1. NoneLeft("ack")'
      <3>1. /\ TypeOK /\ AnswerInv /\ todo # <<>> /\ Head(todo).op # "flush"
            /\ todo' = Tail(todo)
        BY <1>5 DEF Ack, Doing, IInv, AckInv
      <3> QED
        BY <3>1, PopNoAck
    <2> QED
      BY <2>1, VoidAnswer, PTL
  <1>6. CASE GuestSlot
    <2>1. NoneLeft("ack")'
      <3>1. TypeOK /\ AnswerInv /\ todo # <<>> /\ Head(todo).op # "flush"
        BY <1>6 DEF GuestSlot, Doing, IInv, AckInv
      <3>2. PICK o \in Op : o = Do("flush", Head(todo).s) /\ o.op = "flush"
        BY <3>1, HeadTail, OpFacts DEF TypeOK
      <3>3. todo' = Tail(todo) \/ todo' = <<o>> \o Tail(todo)
        BY <1>6, <3>2 DEF GuestSlot
      <3> QED
        BY <3>1, <3>2, <3>3, PopNoAck, SwapNoAck
    <2> QED
      BY <2>1, VoidAnswer, PTL
  <1>7. CASE HostSlot
    <2>1. NoneLeft("ack")'
      <3>1. /\ TypeOK /\ AnswerInv /\ todo # <<>> /\ Head(todo).op # "flush"
            /\ todo' = Tail(todo)
        BY <1>7 DEF HostSlot, Doing, IInv, AckInv
      <3> QED
        BY <3>1, PopNoAck
    <2> QED
      BY <2>1, VoidAnswer, PTL
  <1>8. CASE Import
    <2>1. NoneLeft("ack")'
      <3>1. TypeOK /\ AnswerInv /\ todo # <<>> /\ Head(todo).op # "flush"
        BY <1>8 DEF Import, Doing, IInv, AckInv
      <3>2. PICK o \in Op : o = Do("flush", Head(todo).s) /\ o.op = "flush"
        BY <3>1, HeadTail, OpFacts DEF TypeOK
      <3>3. todo' = Tail(todo) \/ todo' = <<o>> \o Tail(todo)
        BY <1>8, <3>2 DEF Import
      <3> QED
        BY <3>1, <3>2, <3>3, PopNoAck, SwapNoAck
    <2> QED
      BY <2>1, VoidAnswer, PTL
  <1>9. CASE Need
    <2>1. NoneLeft("ack")'
      <3>1. TypeOK /\ AnswerInv /\ todo # <<>> /\ Head(todo).op # "flush"
        BY <1>9 DEF Need, Doing, IInv, AckInv
      <3>2. CASE todo' = <<>>
        BY <3>2 DEF NoneLeft, Pos
      <3>3. CASE todo' = Tail(todo)
        BY <3>1, <3>3, PopNoAck
      <3> QED
        BY <1>9, <3>2, <3>3 DEF Need
    <2> QED
      BY <2>1, VoidAnswer, PTL
  <1>10. CASE SyncDone
    <2>1. NoneLeft("ack")'
      <3>1. /\ TypeOK /\ AnswerInv /\ todo # <<>> /\ Head(todo).op # "flush"
            /\ todo' = Tail(todo)
        BY <1>10 DEF SyncDone, Doing, IInv, AckInv
      <3> QED
        BY <3>1, PopNoAck
    <2> QED
      BY <2>1, VoidAnswer, PTL
  <1>11. CASE UploadDone
    <2>1. NoneLeft("ack")'
      <3>1. /\ TypeOK /\ AnswerInv /\ todo # <<>> /\ Head(todo).op # "flush"
            /\ todo' = Tail(todo)
        BY <1>11 DEF UploadDone, Doing, IInv, AckInv
      <3> QED
        BY <3>1, PopNoAck
    <2> QED
      BY <2>1, VoidAnswer, PTL
  <1>12. CASE Restore
    <2>1. NoneLeft("ack")'
      <3>1. /\ TypeOK /\ AnswerInv /\ todo # <<>> /\ Head(todo).op # "flush"
            /\ todo' = Tail(todo)
        BY <1>12 DEF Restore, Doing, IInv, AckInv
      <3> QED
        BY <3>1, PopNoAck
    <2> QED
      BY <2>1, VoidAnswer, PTL
  <1>13. ASSUME NEW s \in Slots, SioWrite(s)
        PROVE  AnswerInv'
    <2>1. /\ Pos' = 1..2 /\ todo'[1] = Do("flush", s) /\ todo'[2] = Do("ack", s)
          /\ temp' = NoTemp /\ writes' = writes + 1
      BY <1>13, SaveScript DEF SioWrite, Running, Idle
    <2>2. todo'[1].op # "ack" /\ todo'[2].s = s
      BY <2>1, OpFacts
    <2>3. card'[s].present /\ card'[s].data.n = writes + 1
      BY <1>13, SioFacts DEF IInv
    <2>4. writes \in Nat
      BY BoundsAssumption DEF IInv, TypeOK
    <2> QED
      BY <2>1, <2>2, <2>3, <2>4 DEF AnswerInv
  <1>14. ASSUME NEW on \in BOOLEAN, SetExtensionCodec(on)
        PROVE  AnswerInv'
    <2>1. NoneLeft("ack")'
      BY <1>14, IdleNone DEF SetExtensionCodec
    <2> QED
      BY <2>1, VoidAnswer, PTL
  <1>15. ASSUME NEW present \in BOOLEAN, HostUpload(present)
        PROVE  AnswerInv'
    <2>1. NoneLeft("ack")'
      <3>1. OpsIn(todo', {"import", "upload"})
        BY <1>15, HostBound, UploadOps
      <3> QED
        BY <3>1, FreshNone DEF LeaveOps
    <2> QED
      BY <2>1, VoidAnswer, PTL
  <1>16. CASE HostSync
    <2>1. NoneLeft("ack")'
      <3>1. OpsIn(todo', {"match"})
        BY <1>16, MatchOps DEF HostSync
      <3> QED
        BY <3>1, FreshNone DEF LeaveOps
    <2> QED
      BY <2>1, VoidAnswer, PTL
  <1>17. ASSUME NEW S \in SUBSET Slots, GuestBlob(S)
        PROVE  AnswerInv'
    <2>1. NoneLeft("ack")'
      <3>1. OpsIn(todo', {"import", "need", "match"})
        BY <1>17, BlobOps
      <3> QED
        BY <3>1, FreshNone DEF LeaveOps
    <2> QED
      BY <2>1, VoidAnswer, PTL
  <1>18. CASE Shutdown
    <2>1. NoneLeft("ack")'
      <3>1. OpsIn(todo', LeaveOps)
        BY <1>18, ExitOps
      <3> QED
        BY <3>1, FreshNone DEF LeaveOps
    <2> QED
      BY <2>1, VoidAnswer, PTL
  <1>19. CASE Booted'
    <2>1. NoneLeft("ack")'
      BY <1>19, BootedNoAck, PTL
    <2> QED
      BY <2>1, VoidAnswer, PTL
  <1>20. CASE Writeback
    <2>1. NoneLeft("ack")'
      BY <1>20, IdleNone DEF Writeback
    <2> QED
      BY <2>1, VoidAnswer, PTL
  <1>21. CASE UNCHANGED vars
    BY <1>21 DEF vars, AckInv, AnswerInv, Pos
  <1> QED
    BY <1>1, <1>2, <1>3, <1>4, <1>5, <1>6, <1>7, <1>8, <1>9, <1>10, <1>11, <1>12, <1>13,
       <1>14, <1>15, <1>16, <1>17, <1>18, <1>19, <1>20, <1>21, BootNext DEF Next

\* The number of the write a well-formed card or file holds.
LEMMA NumberFacts ==
    ASSUME TypeOK, NEW s \in Slots
    PROVE  /\ card[s].data.n \in Nat /\ acked[s] \in Nat /\ writes \in Nat
           /\ disk[s].kind = "whole" => disk[s].base.n \in Nat
  <1>1. card[s] \in Card /\ acked[s] \in Nat /\ writes \in Nat /\ disk[s] \in Content
    BY BoundsAssumption DEF TypeOK
  <1>2. card[s].data \in Image
    BY <1>1 DEF Card
  <1>3. disk[s].kind = "whole" => disk[s].base \in Image
    BY <1>1 DEF Content, Absent, Short
  <1> QED
    BY <1>1, <1>2, <1>3 DEF Image

\* What a slot reads from its file is no older than what was acknowledged.
LEMMA FileOlder ==
    ASSUME TypeOK, AckInv, NEW s \in Slots, disk[s].kind = "whole"
    PROVE  disk[s].base.n >= acked[s]
  <1>1. acked[s] \in Nat /\ disk[s].base.n \in Nat
    BY NumberFacts
  <1> QED
    BY <1>1 DEF AckInv, AckDurable

\* OlderInv after a step on one slot.
LEMMA OlderOne ==
    ASSUME OlderInv, NEW s \in Slots, OnlySlot(s), acked' = acked, writes' = writes,
           card'[s].path = "home" /\ card'[s].present => card'[s].data.n >= acked[s]
    PROVE  OlderInv'
  BY DEF OlderInv, OnlySlot

\* Every step keeps the acknowledged writes no newer than what the slot holds.
LEMMA OlderStep ==
    ASSUME IInv, AckInv, [Next]_vars
    PROVE  OlderInv'
  <1>1. CASE Mount
    <2> DEFINE s == Head(todo).s
    <2>1. s \in Slots /\ OnlySlot(s) /\ OlderInv /\ acked' = acked /\ writes' = writes /\ TypeOK
      BY <1>1, MountCard DEF Mount, IInv, AckInv
    <2>2. CASE ~card'[s].present
      BY <2>1, <2>2, OlderOne
    <2>3. CASE disk[s].kind = "whole" /\ card'[s].data = disk[s].base
      BY <2>1, <2>3, FileOlder, OlderOne
    <2> QED
      BY <1>1, <2>2, <2>3, MountCard
  <1>2. CASE Format
    <2> DEFINE s == Head(todo).s
    <2>1. /\ s \in Slots /\ OlderInv /\ acked' = acked /\ writes' = writes /\ TypeOK
          /\ card[s] = Formatted /\ disk[s] = Short
      BY <1>2, FormatHead DEF Format, IInv, AckInv
    <2>2. OnlySlot(s) /\ card'[s].data = Blank
      BY <1>2, <2>1, FormatFacts, FormattedFacts
    <2>3. acked[s] \in Nat
      BY <2>1, NumberFacts
    <2>4. acked[s] = 0
      BY <2>1, <2>3 DEF AckInv, AckDurable, Short
    <2>5. Blank.n >= acked[s]
      BY <2>4 DEF Blank
    <2> QED
      BY <2>1, <2>2, <2>5, OlderOne
  <1>3. CASE Flush
    <2> DEFINE s == Head(todo).s
    <2>1. s \in Slots /\ OlderInv /\ acked' = acked /\ writes' = writes
      BY <1>3, HeadTail DEF Flush, Doing, IInv, TypeOK, AckInv
    <2>2. /\ OnlySlot(s)
          /\ card'[s].path = "home" /\ card'[s].present => card'[s].data.n >= acked[s]
      BY <1>3, <2>1, FlushFacts DEF IInv, OlderInv, Alike
    <2> QED
      BY <2>1, <2>2, OlderOne
  <1>4. CASE Rename
    <2> DEFINE s == temp.s
    <2>1. s \in Slots /\ OnlySlot(s) /\ OlderInv /\ acked' = acked /\ writes' = writes
      BY <1>4, RenameFacts DEF Rename, IInv, AckInv
    <2>2. Alike(card'[s], card[s]) \/ Published(card'[s], card[s], temp.tail)
      BY <1>4, RenameFacts DEF IInv
    <2> QED
      BY <2>1, <2>2, OlderOne DEF Alike, Published, OlderInv
  <1>5. CASE Ack
    <2> DEFINE s == Head(todo).s
    <2>1. s \in Slots /\ 1 \in Pos /\ todo[1].op = "ack" /\ todo[1].s = s /\ TypeOK
      BY <1>5, HeadTail DEF Ack, Doing, IInv, TypeOK
    <2>2. card[s].data.n <= writes /\ card[s].data.n \in Nat
      BY <2>1, NumberFacts DEF AckInv, AnswerInv
    <2>3. /\ card' = card /\ writes' = writes
          /\ acked' = acked \/ acked' = [acked EXCEPT ![s] = card[s].data.n]
      BY <1>5 DEF Ack
    <2>4. CASE acked' = acked
      BY <2>3, <2>4 DEF AckInv, OlderInv
    <2>5. CASE acked' = [acked EXCEPT ![s] = card[s].data.n]
      <3>1. acked'[s] = card[s].data.n /\ \A t \in Slots : t # s => acked'[t] = acked[t]
        BY <2>1, <2>5 DEF TypeOK
      <3> QED
        BY <2>1, <2>2, <2>3, <3>1 DEF AckInv, OlderInv
    <2> QED
      BY <2>3, <2>4, <2>5
  <1>6. CASE GuestSlot
    <2> DEFINE s == Head(todo).s
    <2>1. s \in Slots /\ OlderInv /\ acked' = acked /\ writes' = writes
      BY <1>6, HeadTail DEF GuestSlot, Doing, IInv, TypeOK, AckInv
    <2>2. /\ OnlySlot(s)
          /\ card'[s].path = "home" /\ card'[s].present => card'[s].data.n >= acked[s]
      BY <1>6, <2>1, GuestFacts DEF IInv
    <2> QED
      BY <2>1, <2>2, OlderOne
  <1>7. CASE HostSlot
    <2> DEFINE s == Head(todo).s
    <2>1. s \in Slots /\ OlderInv /\ acked' = acked /\ writes' = writes
      BY <1>7, HeadTail DEF HostSlot, Doing, IInv, TypeOK, AckInv
    <2>2. /\ OnlySlot(s)
          /\ card'[s].path = "home" /\ card'[s].present => card'[s].data.n >= acked[s]
      BY <1>7, <2>1, HostFacts DEF IInv
    <2> QED
      BY <2>1, <2>2, OlderOne
  <1>8. CASE Import
    <2> DEFINE s == Head(todo).s
    <2>1. s \in Slots /\ OlderInv /\ acked' = acked /\ writes' = writes
      BY <1>8, HeadTail DEF Import, Doing, IInv, TypeOK, AckInv
    <2>2. /\ OnlySlot(s)
          /\ card'[s].path = "home" /\ card'[s].present => card'[s].data.n >= acked[s]
      BY <1>8, <2>1, ImportFacts, ImportBound DEF IInv
    <2> QED
      BY <2>1, <2>2, OlderOne
  <1>9. CASE Need
    BY <1>9 DEF Need, AckInv, OlderInv
  <1>10. CASE SyncDone
    BY <1>10 DEF SyncDone, AckInv, OlderInv
  <1>11. CASE UploadDone
    BY <1>11 DEF UploadDone, AckInv, OlderInv
  <1>12. CASE Restore
    <2>1. CASE ~np.sandbox
      BY <1>12, <2>1 DEF Restore, AckInv, OlderInv
    <2>2. CASE np.sandbox
      <3>1. PICK refused \in BOOLEAN : card' = RestoreCards(refused)
        BY <1>12, <2>2 DEF Restore
      <3>2. \A s \in Slots : card'[s].present =>
              disk[s].kind = "whole" /\ card'[s].data = disk[s].base
        BY <3>1, RestoreFacts DEF IInv
      <3>3. \A s \in Slots : disk[s].kind = "whole" => disk[s].base.n >= acked[s]
        BY FileOlder DEF IInv
      <3>4. acked' = acked /\ writes' = writes
        BY <1>12 DEF Restore
      <3> QED
        BY <3>2, <3>3, <3>4 DEF AckInv, OlderInv
    <2> QED
      BY <2>1, <2>2
  <1>13. ASSUME NEW s \in Slots, SioWrite(s)
        PROVE  OlderInv'
    <2>1. OlderInv /\ acked' = acked /\ writes' = writes + 1 /\ TypeOK
      BY <1>13 DEF IInv, AckInv, SioWrite
    <2>2. OnlySlot(s) /\ card'[s].data.n = writes + 1
      BY <1>13, SioFacts DEF IInv
    <2>3. writes \in Nat /\ \A t \in Slots : acked[t] \in Nat
      BY <2>1, NumberFacts
    <2> QED
      BY <2>1, <2>2, <2>3 DEF OlderInv, OnlySlot
  <1>14. ASSUME NEW on \in BOOLEAN, SetExtensionCodec(on)
        PROVE  OlderInv'
    BY <1>14, CodecFacts DEF IInv, AckInv, OlderInv, SetExtensionCodec
  <1>15. ASSUME NEW present \in BOOLEAN, HostUpload(present)
        PROVE  OlderInv'
    BY <1>15 DEF HostUpload, AckInv, OlderInv
  <1>16. CASE HostSync
    BY <1>16 DEF HostSync, AckInv, OlderInv
  <1>17. ASSUME NEW S \in SUBSET Slots, GuestBlob(S)
        PROVE  OlderInv'
    BY <1>17 DEF GuestBlob, AckInv, OlderInv
  <1>18. CASE Shutdown
    BY <1>18 DEF Shutdown, AckInv, OlderInv
  <1>19. ASSUME NEW enabled \in SlotSettings, NEW role \in Role, NEW gm \in BOOLEAN,
               Reboot(enabled, role, gm)
        PROVE  OlderInv'
    <2>1. Booted'
      BY <1>19, BootNext
    <2>2. \A s \in Slots : card'[s] = EmptyCard
      BY <2>1 DEF Booted
    <2>3. ~EmptyCard.present
      BY DEF EmptyCard
    <2>4. writes' = writes /\ acked' = acked
      BY <1>19 DEF Reboot
    <2> QED
      BY <2>2, <2>3, <2>4 DEF AckInv, OlderInv
  <1>20. ASSUME NEW enabled \in SlotSettings, Crash(enabled)
        PROVE  OlderInv'
    <2>1. Booted'
      BY <1>20, BootNext
    <2>2. \A s \in Slots : card'[s] = EmptyCard
      BY <2>1 DEF Booted
    <2>3. ~EmptyCard.present
      BY DEF EmptyCard
    <2>4. writes' = writes /\ acked' = acked
      BY <1>20 DEF Crash
    <2> QED
      BY <2>2, <2>3, <2>4 DEF AckInv, OlderInv
  <1>21. CASE PowerLoss
    <2>1. Booted'
      BY <1>21, BootNext
    <2>2. \A s \in Slots : card'[s] = EmptyCard
      BY <2>1 DEF Booted
    <2>3. ~EmptyCard.present
      BY DEF EmptyCard
    <2>4. writes' = writes /\ acked' = [s \in Slots |-> 0]
      BY <1>21 DEF PowerLoss
    <2>5. writes \in Nat
      BY BoundsAssumption DEF IInv, TypeOK
    <2> QED
      BY <2>2, <2>3, <2>4, <2>5 DEF OlderInv
  <1>22. CASE Writeback
    BY <1>22 DEF Writeback, AckInv, OlderInv
  <1>23. CASE UNCHANGED vars
    BY <1>23 DEF vars, AckInv, OlderInv
  <1> QED
    BY <1>1, <1>2, <1>3, <1>4, <1>5, <1>6, <1>7, <1>8, <1>9, <1>10, <1>11, <1>12, <1>13,
       <1>14, <1>15, <1>16, <1>17, <1>18, <1>19, <1>20, <1>21, <1>22, <1>23 DEF Next

\* AckDurable after a step on one file.
LEMMA DurableOne ==
    ASSUME TypeOK, AckDurable, NEW s \in Slots, NEW f,
           disk' = [disk EXCEPT ![s] = f], acked' = acked,
           acked[s] > 0 => f.kind = "whole" /\ f.base.n >= acked[s]
    PROVE  AckDurable'
  BY DEF TypeOK, AckDurable

\* Every step keeps the acknowledged writes in the player's files.
LEMMA DurableStep ==
    ASSUME OpenFaults = FALSE, IInv, AckInv, [Next]_vars
    PROVE  AckDurable'
  <1>1. CASE Mount
    <2> DEFINE s == Head(todo).s
    <2>1. s \in Slots /\ acked' = acked /\ TypeOK /\ AckDurable
      BY <1>1, MountCard DEF Mount, IInv, AckInv
    <2>2. CASE disk' = disk
      BY <2>1, <2>2 DEF AckDurable
    <2>3. CASE disk[s].kind = "absent" /\ disk' = [disk EXCEPT ![s] = Short]
      <3>1. ~(acked[s] > 0)
        BY <2>1, <2>3 DEF AckDurable
      <3> QED
        BY <2>1, <2>3, <3>1, DurableOne
    <2> QED
      BY <1>1, <2>2, <2>3, MountCard
  <1>2. CASE Format
    <2> DEFINE s == Head(todo).s
    <2>1. s \in Slots /\ disk[s] = Short /\ acked' = acked /\ TypeOK /\ AckDurable
      BY <1>2, FormatHead DEF Format, IInv, AckInv
    <2>2. ~(acked[s] > 0)
      BY <2>1 DEF AckDurable, Short
    <2>3. CASE disk' = disk
      BY <2>1, <2>3 DEF AckDurable
    <2>4. CASE disk' = [disk EXCEPT ![s] = Whole(Blank, "none")]
      BY <2>1, <2>2, <2>4, DurableOne
    <2> QED
      BY <1>2, <2>3, <2>4 DEF Format
  <1>3. CASE Flush
    BY <1>3 DEF Flush, AckInv, AckDurable
  <1>4. CASE Rename
    <2> DEFINE s == temp.s
               f == Whole(card[s].data, temp.tail)
    <2>1. s \in Slots /\ acked' = acked /\ TypeOK /\ AckDurable /\ OlderInv
      BY <1>4, RenameFacts DEF Rename, IInv, AckInv
    <2>2. CASE disk' = disk
      BY <2>1, <2>2 DEF AckDurable
    <2>3. CASE card[s].path = "home" /\ disk' = [disk EXCEPT ![s] = f]
      <3>1. card[s].present
        BY <1>4, <2>3, PublishedTail
      <3>2. f.kind = "whole" /\ f.base = card[s].data
        BY DEF Whole
      <3>3. f.base.n >= acked[s]
        BY <2>1, <2>3, <3>1, <3>2 DEF OlderInv
      <3> HIDE DEF f
      <3> QED
        BY <2>1, <2>3, <3>2, <3>3, DurableOne
    <2> QED
      BY <1>4, <2>2, <2>3 DEF Rename
  <1>5. CASE Ack
    <2> DEFINE s == Head(todo).s
    <2>1. s \in Slots /\ 1 \in Pos /\ todo[1].op = "ack" /\ todo[1].s = s /\ TypeOK /\ temp = NoTemp
      BY <1>5, HeadTail DEF Ack, Doing, IInv, TypeOK
    <2>2. CASE acked' = acked
      BY <1>5, <2>2 DEF Ack, AckInv, AckDurable
    <2>3. CASE /\ card[s].result = 0 /\ card[s].path # "sandbox"
               /\ acked' = [acked EXCEPT ![s] = card[s].data.n]
      <3>1. card[s].present /\ ~card[s].dirty
        BY <2>1, <2>3 DEF AckInv, AnswerInv
      <3>2. card[s].path = "home"
        <4>1. card[s] \in Card
          BY <2>1 DEF TypeOK
        <4>2. card[s].path \in {"home", "sandbox", "none"}
          BY <4>1 DEF Card, Places
        <4> QED
          BY <2>1, <2>3, <3>1, <4>2 DEF IInv, HomeInv
      <3>3. disk[s].kind = "whole" /\ disk[s].base = card[s].data
        BY <2>1, <3>1, <3>2 DEF IInv, FileInv
      <3>4. card[s].data.n \in Nat
        BY <2>1, NumberFacts
      <3>5. disk' = disk
        BY <1>5 DEF Ack
      <3> QED
        BY <2>1, <2>3, <3>3, <3>4, <3>5 DEF AckInv, AckDurable, TypeOK
    <2> QED
      BY <1>5, <2>2, <2>3 DEF Ack, AckGood
  <1>6. CASE GuestSlot
    BY <1>6 DEF GuestSlot, AckInv, AckDurable
  <1>7. CASE HostSlot
    BY <1>7 DEF HostSlot, AckInv, AckDurable
  <1>8. CASE Import
    BY <1>8 DEF Import, AckInv, AckDurable
  <1>9. CASE Need
    BY <1>9 DEF Need, AckInv, AckDurable
  <1>10. CASE SyncDone
    BY <1>10 DEF SyncDone, AckInv, AckDurable
  <1>11. CASE UploadDone
    BY <1>11 DEF UploadDone, AckInv, AckDurable
  <1>12. CASE Restore
    BY <1>12 DEF Restore, AckInv, AckDurable
  <1>13. ASSUME NEW s \in Slots, SioWrite(s)
        PROVE  AckDurable'
    BY <1>13 DEF SioWrite, AckInv, AckDurable
  <1>14. ASSUME NEW on \in BOOLEAN, SetExtensionCodec(on)
        PROVE  AckDurable'
    BY <1>14 DEF SetExtensionCodec, AckInv, AckDurable
  <1>15. ASSUME NEW present \in BOOLEAN, HostUpload(present)
        PROVE  AckDurable'
    BY <1>15 DEF HostUpload, AckInv, AckDurable
  <1>16. CASE HostSync
    BY <1>16 DEF HostSync, AckInv, AckDurable
  <1>17. ASSUME NEW S \in SUBSET Slots, GuestBlob(S)
        PROVE  AckDurable'
    BY <1>17 DEF GuestBlob, AckInv, AckDurable
  <1>18. CASE Shutdown
    BY <1>18 DEF Shutdown, AckInv, AckDurable
  <1>19. ASSUME NEW enabled \in SlotSettings, NEW role \in Role, NEW gm \in BOOLEAN,
               Reboot(enabled, role, gm)
        PROVE  AckDurable'
    BY <1>19 DEF Reboot, AckInv, AckDurable
  <1>20. ASSUME NEW enabled \in SlotSettings, Crash(enabled)
        PROVE  AckDurable'
    BY <1>20 DEF Crash, AckInv, AckDurable
  <1>21. CASE PowerLoss
    BY <1>21 DEF PowerLoss, AckInv, AckDurable
  <1>22. CASE Writeback
    BY <1>22 DEF Writeback, AckInv, AckDurable
  <1>23. CASE UNCHANGED vars
    BY <1>23 DEF vars, AckInv, AckDurable
  <1> QED
    BY <1>1, <1>2, <1>3, <1>4, <1>5, <1>6, <1>7, <1>8, <1>9, <1>10, <1>11, <1>12, <1>13,
       <1>14, <1>15, <1>16, <1>17, <1>18, <1>19, <1>20, <1>21, <1>22, <1>23 DEF Next

\* The invariant of the answers holds when the machine starts.
LEMMA AckInit == Init => AckInv
  <1> SUFFICES ASSUME Init PROVE AckInv
    OBVIOUS
  <1>1. Booted
    BY BootInit
  <1>2. AnswerInv
    BY <1>1, BootedNoAck, VoidAnswer
  <1>3. \A s \in Slots : acked[s] = 0 /\ card[s] = EmptyCard
    BY DEF Init
  <1>4. writes = 0 /\ ~EmptyCard.present
    BY DEF Init, EmptyCard
  <1> QED
    BY <1>2, <1>3, <1>4 DEF AckInv, OlderInv, AckDurable

\* A save the game was told is good stays in the player's file until the power
\* fails (AckDurable; sio.c, memcard_flush), where a file that exists opens.
THEOREM SavesDurable == OpenFaults = FALSE => (Spec => []AckDurable)
  <1> SUFFICES ASSUME OpenFaults = FALSE
               PROVE  Spec => []AckDurable
    OBVIOUS
  <1>1. IInv /\ AckInv /\ [Next]_vars => AckInv'
    BY AnswerStep, OlderStep, DurableStep DEF AckInv
  <1>2. AckInv => AckDurable
    BY DEF AckInv
  <1> QED
    BY <1>1, <1>2, AckInit, Invariance, PTL DEF Spec

\* What a step may do to the player's files.
FileStepShape ==
    \A s \in Slots :
        \/ disk'[s] = disk[s] /\ survivors'[s] \subseteq survivors[s]
        \/ disk'[s] \in survivors[s] /\ survivors'[s] = {disk'[s]}
        \/ disk[s] \in {Absent, Short}
        \/ /\ disk[s].kind = "whole" /\ disk[s].tail # "big"
           /\ disk'[s].kind = "whole"
           /\ disk[s].tail = "kept" /\ ~codec => disk'[s].tail = "kept"
           /\ survivors'[s] = survivors[s] \cup {disk'[s]}

\* A step leaves a file alone, loses the power, fills in a missing or short one, or publishes.
LEMMA ShapeStep ==
    ASSUME OpenFaults = FALSE, IInv, [Next]_vars
    PROVE  FileStepShape
  <1>1. CASE Mount
    <2> DEFINE s == Head(todo).s
    <2>1. s \in Slots /\ TypeOK
      BY <1>1, MountCard DEF IInv
    <2>2. CASE disk' = disk /\ survivors' = survivors
      BY <2>2 DEF FileStepShape
    <2>3. CASE /\ disk[s].kind = "absent" /\ disk' = [disk EXCEPT ![s] = Short]
               /\ survivors' = [survivors EXCEPT ![s] = @ \cup {Short}]
      <3>1. disk[s] = Absent
        BY <2>1, <2>3 DEF TypeOK, Content, Short
      <3>2. \A t \in Slots : t # s => disk'[t] = disk[t] /\ survivors'[t] = survivors[t]
        BY <2>1, <2>3 DEF TypeOK
      <3> QED
        BY <3>1, <3>2 DEF FileStepShape
    <2> QED
      BY <1>1, <2>2, <2>3, MountCard
  <1>2. CASE Format
    <2> DEFINE s == Head(todo).s
    <2>1. s \in Slots /\ TypeOK /\ disk[s] = Short
      BY <1>2, FormatHead DEF IInv
    <2>2. CASE disk' = disk /\ survivors' = survivors
      BY <2>2 DEF FileStepShape
    <2>3. CASE /\ disk' = [disk EXCEPT ![s] = Whole(Blank, "none")]
               /\ survivors' = [survivors EXCEPT ![s] = @ \cup {Whole(Blank, "none")}]
      <3>1. \A t \in Slots : t # s => disk'[t] = disk[t] /\ survivors'[t] = survivors[t]
        BY <2>1, <2>3 DEF TypeOK
      <3> QED
        BY <2>1, <3>1 DEF FileStepShape
    <2> QED
      BY <1>2, <2>2, <2>3 DEF Format
  <1>3. CASE Flush
    BY <1>3 DEF Flush, FileStepShape
  <1>4. CASE Rename
    <2> DEFINE s == temp.s
               f == Whole(card[s].data, temp.tail)
    <2>1. s \in Slots /\ f \in Content /\ TypeOK
      BY <1>4, RenameContent DEF IInv
    <2>2. CASE disk' = disk /\ survivors' = survivors
      BY <2>2 DEF FileStepShape
    <2>3. CASE /\ card[s].path = "home" /\ disk' = [disk EXCEPT ![s] = f]
               /\ survivors' = [survivors EXCEPT ![s] = @ \cup {f}]
      <3>1. OnlyFile(s, f)
        BY <2>1, <2>3, AssignFile
      <3>2. f.kind = "whole" /\ f.tail = temp.tail
        BY DEF Whole
      <3>3. /\ disk[s].kind = "whole" /\ disk[s].tail # "big"
            /\ disk[s].tail = "kept" /\ ~codec => temp.tail = "kept"
        BY <1>4, <2>3, PublishedTail
      <3> HIDE DEF f
      <3> QED
        BY <3>1, <3>2, <3>3 DEF OnlyFile, FileStepShape
    <2> QED
      BY <1>4, <2>2, <2>3 DEF Rename
  <1>5. CASE Ack
    BY <1>5 DEF Ack, FileStepShape
  <1>6. CASE GuestSlot
    BY <1>6 DEF GuestSlot, FileStepShape
  <1>7. CASE HostSlot
    BY <1>7 DEF HostSlot, FileStepShape
  <1>8. CASE Import
    BY <1>8 DEF Import, FileStepShape
  <1>9. CASE Need
    BY <1>9 DEF Need, FileStepShape
  <1>10. CASE SyncDone
    BY <1>10 DEF SyncDone, FileStepShape
  <1>11. CASE UploadDone
    BY <1>11 DEF UploadDone, FileStepShape
  <1>12. CASE Restore
    BY <1>12 DEF Restore, FileStepShape
  <1>13. ASSUME NEW s \in Slots, SioWrite(s)
        PROVE  FileStepShape
    BY <1>13 DEF SioWrite, FileStepShape
  <1>14. ASSUME NEW on \in BOOLEAN, SetExtensionCodec(on)
        PROVE  FileStepShape
    BY <1>14 DEF SetExtensionCodec, FileStepShape
  <1>15. ASSUME NEW present \in BOOLEAN, HostUpload(present)
        PROVE  FileStepShape
    BY <1>15 DEF HostUpload, FileStepShape
  <1>16. CASE HostSync
    BY <1>16 DEF HostSync, FileStepShape
  <1>17. ASSUME NEW S \in SUBSET Slots, GuestBlob(S)
        PROVE  FileStepShape
    BY <1>17 DEF GuestBlob, FileStepShape
  <1>18. CASE Shutdown
    BY <1>18 DEF Shutdown, FileStepShape
  <1>19. ASSUME NEW enabled \in SlotSettings, NEW role \in Role, NEW gm \in BOOLEAN,
               Reboot(enabled, role, gm)
        PROVE  FileStepShape
    BY <1>19 DEF Reboot, FileStepShape
  <1>20. ASSUME NEW enabled \in SlotSettings, Crash(enabled)
        PROVE  FileStepShape
    BY <1>20 DEF Crash, FileStepShape
  <1>21. CASE PowerLoss
    <2>1. survivors' = [s \in Slots |-> {disk'[s]}]
      BY <1>21 DEF PowerLoss
    <2>2. \A s \in Slots : disk'[s] \in survivors[s]
      BY <1>21 DEF PowerLoss, Slots
    <2> QED
      BY <2>1, <2>2 DEF FileStepShape
  <1>22. CASE Writeback
    <2>1. disk' = disk /\ survivors' = [s \in Slots |-> {disk[s]}]
      BY <1>22 DEF Writeback
    <2>2. \A s \in Slots : disk[s] \in survivors[s]
      BY DEF IInv, DiskInv
    <2> QED
      BY <2>1, <2>2 DEF FileStepShape
  <1>23. CASE UNCHANGED vars
    BY <1>23 DEF vars, FileStepShape
  <1> QED
    BY <1>1, <1>2, <1>3, <1>4, <1>5, <1>6, <1>7, <1>8, <1>9, <1>10, <1>11, <1>12, <1>13,
       <1>14, <1>15, <1>16, <1>17, <1>18, <1>19, <1>20, <1>21, <1>22, <1>23 DEF Next

\* A whole file never becomes one that a loss of power may tear (NeverTorn;
\* publish_card, memcard_init_slots), where a file that exists opens.
THEOREM FilesWhole == OpenFaults = FALSE => (Spec => NeverTorn)
  <1> SUFFICES ASSUME OpenFaults = FALSE
               PROVE  Spec => NeverTorn
    OBVIOUS
  <1>1. ASSUME IInv, [Next]_vars
        PROVE  \A s \in Slots : ~Torn(s) /\ disk[s] # Absent => ~Torn(s)'
    <2> SUFFICES ASSUME NEW s \in Slots, Short \notin survivors[s],
                        disk[s] # Short, disk[s] # Absent
                 PROVE  Short \notin survivors'[s] /\ disk'[s] # Short
      BY DEF Torn
    <2>1. FileStepShape
      BY <1>1, ShapeStep
    <2>2. Short.kind # "whole"
      BY DEF Short
    <2> QED
      BY <2>1, <2>2 DEF FileStepShape
  <1>2. IInv /\ [Next]_vars => [\A s \in Slots : ~Torn(s) /\ disk[s] # Absent => ~Torn(s)']_vars
    BY <1>1
  <1> QED
    BY <1>2, Invariance, PTL DEF Spec, NeverTorn

\* The bytes after the card are never lost (TailKept; memcard_flush), where a
\* file that exists opens.
THEOREM TailsKept == OpenFaults = FALSE => (Spec => TailKept)
  <1> DEFINE Kept == \A s \in Slots :
         disk[s].kind = "whole" /\ disk'[s] \notin survivors[s] =>
            /\ disk[s].tail # "big"
            /\ disk[s].tail = "kept" /\ ~codec =>
                  disk'[s].kind = "whole" /\ disk'[s].tail = "kept"
  <1> SUFFICES ASSUME OpenFaults = FALSE
               PROVE  Spec => TailKept
    OBVIOUS
  <1>1. ASSUME IInv, [Next]_vars
        PROVE  Kept
    <2>1. FileStepShape /\ \A s \in Slots : disk[s] \in survivors[s]
      BY <1>1, ShapeStep DEF IInv, DiskInv
    <2>2. Short.kind # "whole" /\ Absent.kind # "whole"
      BY DEF Short, Absent
    <2> QED
      BY <2>1, <2>2 DEF FileStepShape
  <1>2. IInv /\ [Next]_vars => [Kept]_vars
    BY <1>1
  <1> QED
    BY <1>2, Invariance, PTL DEF Spec, TailKept
=============================================================================
