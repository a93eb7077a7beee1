------------------------------- MODULE MemCard -------------------------------
(***************************************************************************)
(* The memory cards of one machine (runtime/src/memcard.c), the sandboxes  *)
(* a netplay match puts around them (runtime/src/psx_netplay.c) and the    *)
(* write command of the serial port that acknowledges a save (sio.c).      *)
(*                                                                         *)
(* A handler runs on the emulation thread from start to end; what can      *)
(* come between two of its disk operations is the end of the process or    *)
(* of the power.  A handler is therefore a list `todo' of the operations   *)
(* it makes, each one step; steps that touch only RAM are merged with the  *)
(* disk operation that follows them, which no crash can tell apart.        *)
(*                                                                         *)
(* Card images are records: who made them and the number of the write.     *)
(***************************************************************************)
EXTENDS Integers, Sequences

CONSTANTS
    MaxWrites,      \* sector writes of the game (bound of the model)
    MaxFaults,      \* failed disk operations, crashes, codec refusals (bound)
    OpenFaults,     \* fopen(path, "rb") may fail although the file exists
    StartTails,     \* tails of the cards on disk at the start
    SlotSettings    \* the sets of slots the player's settings may enable

ASSUME BoundsAssumption ==
    /\ MaxWrites \in Nat
    /\ MaxFaults \in Nat
    /\ OpenFaults \in BOOLEAN
    /\ StartTails \subseteq {"none", "kept", "big"}
    /\ SlotSettings \subseteq SUBSET {0, 1}

Slots == {0, 1}                          \* MAX_CARDS

\* Where a slot's filepath points: the player's file or the match's file.  No
\* handler reads a match's file back, so only the players' files are kept.
Places == {"home", "sandbox"}

\* The contents of a 128 KiB base.  "home": the player's own saves; "match":
\* a card of another machine or one written during a match on the sandbox
\* file; "junk": what a short read leaves in the buffer.
Image == [origin: {"home", "match", "junk"}, n: Nat]
Blank == [origin |-> "home", n |-> 0]
Foreign == [origin |-> "match", n |-> 0]
Junk == [origin |-> "junk", n |-> 0]

\* The bytes after the base: absent, one the machine can hold, or more than
\* MEMCARD_EXTENSION_MAX bytes.
Tails == {"none", "kept", "big"}

\* A file: absent, shorter than a card, or a whole card and its tail.
Absent == [kind |-> "absent"]
Short == [kind |-> "short"]
Whole(img, tail) == [kind |-> "whole", base |-> img, tail |-> tail]
Content == {Absent, Short} \cup
           [kind: {"whole"}, base: Image, tail: Tails]

Op == [op: {"mount", "format", "guest", "host", "import", "need", "flush",
            "ack", "restore", "match", "upload", "exit"}, s: Slots]
Do(op, s) == [op |-> op, s |-> s]

NoTemp == [kind |-> "none"]

VARIABLES
    card,       \* cards[s]: the RAM image and its flags
    codec,      \* extension_load and extension_save are set
    disk,       \* what a reader of the player's file of each slot sees
    survivors,  \* what the loss of power may leave of that file
    temp,       \* the temporary of a publication between fclose and rename
    todo,       \* the rest of the running handler
    np,         \* g_np: role, agreed guest card, sandbox flag, saved paths, sync
    writes, faults,
    acked       \* newest write to the player's file the game was told is saved

vars == <<card, codec, disk, survivors, temp, todo, np, writes, faults, acked>>

Card == [data: Image, path: Places \cup {"none"}, present: BOOLEAN,
         dirty: BOOLEAN, ext: Tails, readFailed: BOOLEAN,
         codecFailed: BOOLEAN, result: {0, -1, -2}]

Role == {"off", "host", "guest"}
Session == [role: Role, guestMemcard: BOOLEAN, sandbox: BOOLEAN,
            personal: [Slots -> {"home", "none"}], guestDone: BOOLEAN,
            syncDone: BOOLEAN]

TypeOK ==
    /\ card \in [Slots -> Card]
    /\ codec \in BOOLEAN
    /\ disk \in [Slots -> Content]
    /\ survivors \in [Slots -> SUBSET Content]
    /\ temp \in {NoTemp} \cup [kind: {"temp"}, s: Slots, tail: Tails]
    /\ todo \in Seq(Op)
    /\ np \in Session
    /\ writes \in 0..MaxWrites
    /\ faults \in 0..MaxFaults
    /\ acked \in [Slots -> Nat]

Idle == todo = <<>> /\ temp = NoTemp
Doing(op) == todo # <<>> /\ temp = NoTemp /\ Head(todo).op = op
Faulty == faults < MaxFaults /\ faults' = faults + 1
Sound == UNCHANGED faults

-----------------------------------------------------------------------------
(***************************************************************************)
(* Loading and mounting.                                                   *)
(***************************************************************************)

\* memset(cards, 0): an empty slot.
EmptyCard == [data |-> Junk, path |-> "none", present |-> FALSE,
              dirty |-> FALSE, ext |-> "none", readFailed |-> FALSE,
              codecFailed |-> FALSE, result |-> 0]

\* discard_extension
DiscardExtension(c) ==
    [c EXCEPT !.ext = "none", !.readFailed = FALSE, !.codecFailed = FALSE]

\* load_card_image on a file that opened, with notify_extension_load; `refused'
\* is the verdict of the codec.  A short file is refused, a tail that does not
\* fit blocks publication.
LoadCardImage(c, f, refused) ==
    LET base == DiscardExtension(c) IN
    CASE f.kind = "short" -> [base EXCEPT !.data = Junk, !.present = FALSE]
      [] f.kind = "whole" /\ f.tail = "big" ->
             [base EXCEPT !.data = f.base, !.present = TRUE, !.readFailed = TRUE]
      [] f.kind = "whole" /\ f.tail # "big" ->
             [base EXCEPT !.data = f.base, !.present = TRUE, !.ext = f.tail,
                          !.codecFailed = codec /\ refused]

\* One slot of memcard_reload_bound.
Reload(c, f, refused) ==
    IF c.path = "none" \/ f.kind = "absent"
    THEN [DiscardExtension(c) EXCEPT !.present = FALSE, !.dirty = FALSE]
    ELSE [LoadCardImage(c, f, refused) EXCEPT !.dirty = FALSE]

\* memcard_rebind_path: an empty path empties the slot.
RebindPath(c, path) ==
    IF path = "none"
    THEN [c EXCEPT !.path = "none", !.present = FALSE, !.dirty = FALSE]
    ELSE [c EXCEPT !.path = path]

\* One enabled slot of memcard_init_slots: load the file, or open it for
\* writing when it does not open for reading.
Mount ==
    LET s == Head(todo).s IN
    /\ Doing("mount")
    /\ \/ /\ disk[s].kind # "absent"
          /\ \E refused \in BOOLEAN :
                card' = [card EXCEPT ![s] =
                           LoadCardImage([@ EXCEPT !.path = "home"], disk[s], refused)]
          /\ todo' = Tail(todo)
          /\ Sound
          /\ UNCHANGED <<disk, survivors>>
       \/ /\ disk[s].kind = "absent" \/ OpenFaults
          /\ card' = [card EXCEPT ![s].path = "home", ![s].data = Blank]
          /\ \/ /\ disk' = [disk EXCEPT ![s] = Short]
                /\ survivors' = [survivors EXCEPT ![s] = @ \cup {Short}]
                /\ todo' = <<Do("format", s)>> \o Tail(todo)
                /\ IF disk[s].kind = "absent" THEN Sound ELSE Faulty
             \/ /\ todo' = Tail(todo)
                /\ Faulty
                /\ UNCHANGED <<disk, survivors>>
    /\ UNCHANGED <<codec, temp, np, writes, acked>>

\* The blank image written into the file just created: not synced, and a
\* failed write leaves the file short and the slot empty.
Format ==
    LET s == Head(todo).s IN
    /\ Doing("format")
    /\ \/ /\ disk' = [disk EXCEPT ![s] = Whole(Blank, "none")]
          /\ survivors' = [survivors EXCEPT ![s] = @ \cup {Whole(Blank, "none")}]
          /\ \E refused \in BOOLEAN :
                card' = [card EXCEPT ![s].present = TRUE,
                                     ![s].codecFailed = codec /\ refused]
          /\ Sound
       \/ /\ Faulty
          /\ UNCHANGED <<card, disk, survivors>>
    /\ todo' = Tail(todo)
    /\ UNCHANGED <<codec, temp, np, writes, acked>>

-----------------------------------------------------------------------------
(***************************************************************************)
(* Publication: memcard_flush and publish_card.                            *)
(***************************************************************************)

\* Mutant: a tail that was not read does not block publication.
BlockedByCodec(c) == c.codecFailed
\* What memcard_flush finds before it writes anything.
Blocked(c) == c.readFailed \/ c.codecFailed
FlushTail(c) == IF codec THEN {"kept", "none"} ELSE {c.ext}

\* Mutant: a refused publication counts as done.
FlushDropsDirty ==
    LET s == Head(todo).s
        c == card[s] IN
    /\ Doing("flush")
    /\ IF c.dirty /\ c.path # "none" /\ ~Blocked(c)
       THEN /\ \E t \in FlushTail(c) : temp' = [kind |-> "temp", s |-> s, tail |-> t]
            /\ UNCHANGED card
       ELSE /\ card' = [card EXCEPT ![s].result = IF Blocked(c) THEN -2 ELSE @,
                                   ![s].dirty = FALSE]
            /\ UNCHANGED temp
    /\ todo' = Tail(todo)
    /\ UNCHANGED <<codec, disk, survivors, np, writes, faults, acked>>
\* memcard_flush up to the rename: nothing to do, refused (-2), failed (-1), or
\* a synced temporary beside the card.
Flush ==
    LET s == Head(todo).s
        c == card[s] IN
    /\ Doing("flush")
    /\ \/ /\ ~c.dirty \/ c.path = "none"
          /\ Sound
          /\ UNCHANGED <<card, temp>>
       \/ /\ c.dirty /\ c.path # "none" /\ Blocked(c)
          /\ card' = [card EXCEPT ![s].result = -2]
          /\ Sound
          /\ UNCHANGED temp
       \/ /\ c.dirty /\ c.path # "none" /\ ~Blocked(c)
          /\ \E r \in IF codec THEN {-1, -2} ELSE {-1} :
                card' = [card EXCEPT ![s].result = r]
          /\ Faulty
          /\ UNCHANGED temp
       \/ /\ c.dirty /\ c.path # "none" /\ ~Blocked(c)
          /\ \E t \in FlushTail(c) : temp' = [kind |-> "temp", s |-> s, tail |-> t]
          /\ Sound
          /\ UNCHANGED card
    /\ todo' = Tail(todo)
    /\ UNCHANGED <<codec, disk, survivors, np, writes, acked>>

\* Mutant: the temporary is renamed without a sync.
RenameUnsynced ==
    LET s == temp.s
        new == Whole(card[s].data, temp.tail) IN
    /\ temp # NoTemp
    /\ IF card[s].path = "home"
       THEN /\ disk' = [disk EXCEPT ![s] = new]
            /\ survivors' = [survivors EXCEPT ![s] = @ \cup {new, Short}]
       ELSE UNCHANGED <<disk, survivors>>
    /\ card' = [card EXCEPT ![s].result = 0, ![s].dirty = FALSE, ![s].ext = temp.tail]
    /\ temp' = NoTemp
    /\ UNCHANGED <<codec, todo, np, writes, faults, acked>>
\* rename over the card, then the bookkeeping of memcard_flush; a failed
\* rename removes the temporary.  The directory is not synced: a loss of power
\* may bring the previous file back.
Rename ==
    LET s == temp.s
        c == card[s]
        new == Whole(c.data, temp.tail) IN
    /\ temp # NoTemp
    /\ \/ /\ IF c.path = "home"
             THEN /\ disk' = [disk EXCEPT ![s] = new]
                  /\ survivors' = [survivors EXCEPT ![s] = @ \cup {new}]
             ELSE UNCHANGED <<disk, survivors>>
          /\ card' = [card EXCEPT ![s].result = 0, ![s].dirty = FALSE,
                                  ![s].ext = temp.tail]
          /\ Sound
       \/ /\ card' = [card EXCEPT ![s].result = -1]
          /\ Faulty
          /\ UNCHANGED <<disk, survivors>>
    /\ temp' = NoTemp
    /\ UNCHANGED <<codec, todo, np, writes, acked>>

-----------------------------------------------------------------------------
(***************************************************************************)
(* The serial port's write command and the codec registration.             *)
(***************************************************************************)

\* The game runs: no handler active, and in a match both peers agreed on the
\* cards (psx_netplay_admit waits for mc_sync_done).
Running == Idle /\ (np.role # "off" => np.syncDone)

\* MC_WRITE_CHK with a good checksum: memcard_write_sector, then the flush.
\* Whether the image still is the player's own is decided by the file the
\* slot is bound to.
SioWrite(s) ==
    /\ Running
    /\ card[s].present
    /\ writes < MaxWrites
    /\ writes' = writes + 1
    /\ LET home == card[s].path = "home" /\ card[s].data.origin = "home"
       IN  card' = [card EXCEPT ![s].dirty = TRUE,
                      ![s].data = [origin |-> IF home THEN "home" ELSE "match",
                                   n |-> writes + 1]]
    /\ todo' = <<Do("flush", s), Do("ack", s)>>
    /\ UNCHANGED <<codec, disk, survivors, temp, np, faults, acked>>

\* Mutant: a write that reached the buffer is good.
AckGoodAlways(s) == TRUE
\* The answer: 0x47 (good) only when the last flush returned 0.
AckGood(s) == card[s].result = 0
Ack ==
    LET s == Head(todo).s IN
    /\ Doing("ack")
    /\ acked' = IF AckGood(s) /\ card[s].path # "sandbox"
                THEN [acked EXCEPT ![s] = card[s].data.n] ELSE acked
    /\ todo' = Tail(todo)
    /\ UNCHANGED <<card, codec, disk, survivors, temp, np, writes, faults>>

\* memcard_set_extension_codec: the cards now mounted have not been seen by
\* the new codec, and are blocked until a reload.  Extended cards are refused
\* in a match.
SetExtensionCodec(on) ==
    /\ Idle
    /\ np.role = "off"
    /\ on # codec
    /\ codec' = on
    /\ card' = [s \in Slots |-> [card[s] EXCEPT !.codecFailed = on /\ card[s].present]]
    /\ UNCHANGED <<disk, survivors, temp, todo, np, writes, faults, acked>>

-----------------------------------------------------------------------------
(***************************************************************************)
(* The sandboxes of a match.                                               *)
(***************************************************************************)

Offline == [role |-> "off", guestMemcard |-> FALSE, sandbox |-> FALSE,
            personal |-> [s \in Slots |-> "none"], guestDone |-> FALSE,
            syncDone |-> FALSE]

\* np_enter_guest_sandbox, one slot of memcard_rebind_dir: the RAM image
\* becomes the sandbox file.  A slot without a card or a file is only bound.
GuestSlot ==
    LET s == Head(todo).s
        c == card[s]
        skip == ~c.present /\ c.path = "none" IN
    /\ Doing("guest")
    /\ np' = [np EXCEPT !.sandbox = TRUE, !.personal[s] = c.path]
    /\ card' = [card EXCEPT ![s].path = "sandbox", ![s].dirty = IF skip THEN @ ELSE TRUE]
    /\ todo' = IF skip THEN Tail(todo) ELSE <<Do("flush", s)>> \o Tail(todo)
    /\ UNCHANGED <<codec, disk, survivors, temp, writes, faults, acked>>

\* np_enter_host_card_sandbox: after a flush of slot 2, its path is saved and
\* it is bound to the sandbox file; RAM is left as it is.
HostSlot ==
    LET s == Head(todo).s IN
    /\ Doing("host")
    /\ np' = [np EXCEPT !.sandbox = TRUE, !.personal[s] = card[s].path]
    /\ card' = [card EXCEPT ![s] = RebindPath(@, "sandbox")]
    /\ todo' = Tail(todo)
    /\ UNCHANGED <<codec, disk, survivors, temp, writes, faults, acked>>

\* Mutant: the sandbox is entered again for the upload.
EnterHostAgain == <<Do("flush", 1), Do("host", 1)>>
\* np_enter_host_card_sandbox does nothing the second time.
EnterHostCardSandbox ==
    IF np.sandbox THEN <<>> ELSE <<Do("flush", 1), Do("host", 1)>>

\* memcard_import_raw: RAM is overwritten first, the flush may then fail.
Import ==
    LET s == Head(todo).s IN
    /\ Doing("import")
    /\ \E refused \in BOOLEAN :
         card' = [card EXCEPT ![s] =
                    [DiscardExtension(@) EXCEPT
                        !.data = Foreign, !.present = TRUE, !.dirty = TRUE,
                        !.codecFailed = codec /\ refused]]
    /\ todo' = <<Do("flush", s)>> \o Tail(todo)
    /\ UNCHANGED <<codec, disk, survivors, temp, np, writes, faults, acked>>

\* np_apply_mc_blob stops at the first import that failed.
Need ==
    /\ Doing("need")
    /\ todo' = IF card[Head(todo).s].result = 0 THEN Tail(todo) ELSE <<>>
    /\ UNCHANGED <<card, codec, disk, survivors, temp, np, writes, faults, acked>>

\* The flags set when a card transfer was applied.
SyncDone ==
    /\ Doing("match")
    /\ np' = [np EXCEPT !.syncDone = TRUE]
    /\ todo' = Tail(todo)
    /\ UNCHANGED <<card, codec, disk, survivors, temp, writes, faults, acked>>
UploadDone ==
    /\ Doing("upload")
    /\ np' = [np EXCEPT !.guestDone = TRUE]
    /\ todo' = Tail(todo)
    /\ UNCHANGED <<card, codec, disk, survivors, temp, writes, faults, acked>>

\* Host: the upload of seat 1, a card or the "absent" header, is applied
\* (np_apply_ready_state, MEMCARD).  A failed import is only reported.
HostUpload(present) ==
    /\ Idle
    /\ np.role = "host" /\ np.guestMemcard /\ ~np.guestDone
    /\ todo' = IF present
               THEN EnterHostCardSandbox \o <<Do("import", 1), Do("upload", 1)>>
               ELSE <<Do("upload", 1)>>
    /\ UNCHANGED <<card, codec, disk, survivors, temp, np, writes, faults, acked>>

\* Host: the peers agreed on the cards (hash match, or the blob was sent).
HostSync ==
    /\ Idle
    /\ np.role = "host" /\ np.guestDone /\ ~np.syncDone
    /\ todo' = <<Do("match", 0)>>
    /\ UNCHANGED <<card, codec, disk, survivors, temp, np, writes, faults, acked>>

\* Guest: the host's cards arrive (np_apply_ready_state, SRAM); S are the
\* slots the blob holds a card for.
GuestBlob(S) ==
    LET apply(s) == IF s \in S THEN <<Do("import", s), Do("need", s)>> ELSE <<>> IN
    /\ Idle
    /\ np.role = "guest" /\ ~np.syncDone
    /\ todo' = apply(0) \o apply(1) \o <<Do("match", 0)>>
    /\ UNCHANGED <<card, codec, disk, survivors, temp, np, writes, faults, acked>>

\* Mutant: the paths come back, the cards are not read again.
RestoreCardsKeepRam(refused) ==
    [s \in Slots |-> IF np.role = "guest" \/ s = 1
                     THEN RebindPath(card[s], np.personal[s]) ELSE card[s]]
\* np_leave_guest_sandbox and np_leave_host_card_sandbox after their flushes:
\* the saved paths come back and both slots are read again.
RestoreCards(refused) ==
    [s \in Slots |->
       LET c == IF np.role = "guest" \/ s = 1
                THEN RebindPath(card[s], np.personal[s]) ELSE card[s]
       IN  Reload(c, disk[s], refused)]
Restore ==
    /\ Doing("restore")
    /\ IF np.sandbox
       THEN \E refused \in BOOLEAN : card' = RestoreCards(refused)
       ELSE UNCHANGED card
    /\ np' = Offline
    /\ todo' = Tail(todo)
    /\ UNCHANGED <<codec, disk, survivors, temp, writes, faults, acked>>

-----------------------------------------------------------------------------
(***************************************************************************)
(* Sessions, the end of the process and the loss of power.                 *)
(***************************************************************************)

\* memcard_init_slots and then psx_netplay_bind_guest_saves: the handlers of a
\* session start, for the enabled slots and the seat of this machine.
BootScript(enabled, role, guestMemcard) ==
    LET mount(s) == IF s \in enabled THEN <<Do("mount", s)>> ELSE <<>>
        bind == CASE role = "guest" -> <<Do("guest", 0), Do("guest", 1)>>
                  [] role = "host" /\ guestMemcard ->
                        <<Do("flush", 1), Do("host", 1)>>
                  [] OTHER -> <<>>
    IN  mount(0) \o mount(1) \o bind

Boot(enabled, role, guestMemcard) ==
    /\ card' = [s \in Slots |-> EmptyCard]
    /\ np' = [Offline EXCEPT !.role = role, !.guestMemcard = guestMemcard,
                             !.guestDone = ~guestMemcard]
    /\ temp' = NoTemp
    /\ todo' = BootScript(enabled, role, guestMemcard)

\* A session starts with any slots enabled, on its own or in a match; extended
\* cards keep a machine out of matches.
Start(enabled, role, guestMemcard) ==
    /\ (codec => role = "off") /\ (guestMemcard => role = "host")
    /\ Boot(enabled, role, guestMemcard)

\* psx_netplay_shutdown and memcard_flush_all at the end of a session.
LeaveScript ==
    CASE np.sandbox /\ np.role = "guest" ->
            <<Do("flush", 0), Do("flush", 1), Do("restore", 0)>>
      [] np.sandbox /\ np.role = "host" -> <<Do("flush", 1), Do("restore", 1)>>
      [] OTHER -> <<>>
Shutdown ==
    /\ Idle
    /\ todo' = LeaveScript \o <<Do("flush", 0), Do("flush", 1), Do("exit", 0)>>
    /\ UNCHANGED <<card, codec, disk, survivors, temp, np, writes, faults, acked>>

\* The next session, in the same process or a new one.
Reboot(enabled, role, guestMemcard) ==
    /\ Doing("exit")
    /\ Start(enabled, role, guestMemcard)
    /\ UNCHANGED <<codec, disk, survivors, writes, faults, acked>>

\* The process dies in the middle of anything; RAM is lost, the files stay.
Crash(enabled) ==
    /\ Faulty
    /\ Boot(enabled, "off", FALSE)
    /\ codec' = FALSE
    /\ UNCHANGED <<disk, survivors, writes, acked>>

\* The power fails: of each file one of its possible contents is left.
PowerLoss ==
    /\ Faulty
    /\ \E enabled \in SlotSettings : Boot(enabled, "off", FALSE)
    /\ codec' = FALSE
    /\ \E f0 \in survivors[0], f1 \in survivors[1] :
          disk' = [s \in Slots |-> IF s = 0 THEN f0 ELSE f1]
    /\ survivors' = [s \in Slots |-> {disk'[s]}]
    /\ acked' = [s \in Slots |-> 0]
    /\ UNCHANGED writes

\* The operating system writes its caches back (between handlers: within one
\* it would only rule contents out).
Writeback ==
    /\ Idle
    /\ survivors' = [s \in Slots |-> {disk[s]}]
    /\ survivors' # survivors
    /\ UNCHANGED <<card, codec, disk, temp, todo, np, writes, faults, acked>>

Init ==
    /\ disk \in [Slots -> {Absent} \cup {Whole(Blank, t) : t \in StartTails}]
    /\ survivors = [s \in Slots |-> {disk[s]}]
    /\ codec \in BOOLEAN
    /\ writes = 0 /\ faults = 0
    /\ acked = [s \in Slots |-> 0]
    /\ temp = NoTemp
    /\ card = [s \in Slots |-> EmptyCard]
    /\ \E enabled \in SlotSettings, role \in Role, gm \in BOOLEAN :
         /\ (codec => role = "off") /\ (gm => role = "host")
         /\ np = [Offline EXCEPT !.role = role, !.guestMemcard = gm, !.guestDone = ~gm]
         /\ todo = BootScript(enabled, role, gm)

Next ==
    \/ Mount \/ Format \/ Flush \/ Rename \/ Ack
    \/ GuestSlot \/ HostSlot \/ Import \/ Need \/ SyncDone \/ UploadDone \/ Restore
    \/ \E s \in Slots : SioWrite(s)
    \/ \E on \in BOOLEAN : SetExtensionCodec(on)
    \/ \E present \in BOOLEAN : HostUpload(present)
    \/ HostSync
    \/ \E S \in SUBSET Slots : GuestBlob(S)
    \/ Shutdown
    \/ \E enabled \in SlotSettings, role \in Role, gm \in BOOLEAN :
          Reboot(enabled, role, gm)
    \/ \E enabled \in SlotSettings : Crash(enabled)
    \/ PowerLoss
    \/ Writeback

Spec == Init /\ [][Next]_vars

-----------------------------------------------------------------------------
(***************************************************************************)
(* Properties.                                                             *)
(***************************************************************************)

\* The player's own files hold the player's own saves: neither the cards of
\* another machine, nor what a match wrote, nor the remains of a short read
\* ever reach them, whichever operation of a match fails and wherever the
\* process or the power ends (memcard.c:477-556, psx_netplay.c:1302-1427).
OwnCard ==
    \A s \in Slots : \A f \in survivors[s] \cup {disk[s]} :
        f.kind = "whole" => f.base.origin = "home"

\* A save the game was told is good (0x47, sio.c:1936-1940) is in the player's
\* file, or a newer one is, until the power fails: no later failure, match,
\* codec change or crash of the process takes it back.
AckDurable ==
    \A s \in Slots : acked[s] > 0 =>
        /\ disk[s].kind = "whole"
        /\ disk[s].base.n >= acked[s]

\* Between handlers, a slot that is not dirty shows the game exactly what its
\* own file holds, also after a match gave the slot back (memcard.c:385-421,
\* 529-556).
CleanMeansSaved ==
    Idle => \A s \in Slots :
        card[s].present /\ ~card[s].dirty /\ card[s].path = "home" =>
            /\ disk[s].kind = "whole"
            /\ disk[s].base = card[s].data
            /\ ~card[s].readFailed => disk[s].tail = card[s].ext

\* A player's file whose every possible content after a loss of power is a
\* whole card never becomes one that power loss may tear: publication syncs
\* the temporary before the rename, and only a missing file is formatted in
\* place (memcard.c:111-165, 279-291).
Torn(s) == Short \in survivors[s] \/ disk[s] = Short
NeverTorn ==
    [][\A s \in Slots : ~Torn(s) /\ disk[s] # Absent => ~Torn(s)']_vars

\* The bytes after the card in a player's file are never lost: a tail that does
\* not fit in memory keeps its file as it is, and a tail that was read leaves
\* only for one an accepting codec produced (memcard.c:83-109, 392-407).  New
\* contents are those that were not on the disk in some form before.
TailKept ==
    [][\A s \in Slots :
         disk[s].kind = "whole" /\ disk'[s] \notin survivors[s] =>
            /\ disk[s].tail # "big"
            /\ disk[s].tail = "kept" /\ ~codec =>
                  disk'[s].kind = "whole" /\ disk'[s].tail = "kept"]_vars

\* docs/NETPLAY.md:161: "The host's real slot-2 card is neither read by the
\* match nor written".  In a match with a guest card, once the upload of seat 1
\* is settled and the game runs, slot 2 does not show the host's own card.
HostCardUnread ==
    Running /\ np.role = "host" /\ np.guestMemcard =>
        ~(card[1].present /\ card[1].data.origin = "home")
=============================================================================
