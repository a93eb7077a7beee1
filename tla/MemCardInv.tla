----------------------------- MODULE MemCardInv -----------------------------
(***************************************************************************)
(* The inductive invariant behind the properties of MemCard: what the      *)
(* operations that the running handler still has to make may rely on.      *)
(***************************************************************************)
EXTENDS MemCard

Pos == 1..Len(todo)

\* The handlers: starting a session, applying cards in a match, a save, leaving.
BootOps == {"mount", "format", "guest", "host", "flush"}
SyncOps == {"import", "need", "upload", "match", "flush"}
SaveOps == {"flush", "ack"}
LeaveOps == {"flush", "restore", "exit"}
Within(ops) == \A i \in Pos : todo[i].op \in ops
ScriptInv == Within(BootOps) \/ Within(SyncOps) \/ Within(SaveOps) \/ Within(LeaveOps)

\* The slots that this machine's seat keeps in a match's file, and whether one is
\* still to be bound to it.
MatchSlot(s) == np.role = "guest" \/ (np.role = "host" /\ np.guestMemcard /\ s = 1)
Binds(o, s) == o.op \in {"guest", "host"} /\ o.s = s
Unbound(s) == \E i \in Pos : Binds(todo[i], s)

\* A slot of a match is in its sandbox or still to be bound, once; no other slot is.
BindInv ==
    /\ \A s \in Slots : MatchSlot(s) => (card[s].path = "sandbox" <=> ~Unbound(s))
    /\ \A s \in Slots : card[s].path = "sandbox" => MatchSlot(s) /\ np.sandbox
    /\ \A s \in Slots : Unbound(s) => MatchSlot(s)
    /\ \A i, k \in Pos : i < k =>
          ~(\E s \in Slots : Binds(todo[i], s) /\ Binds(todo[k], s))
    /\ \A i \in Pos : todo[i].op = "import" => MatchSlot(todo[i].s)

\* Slots still to be mounted are empty, and mounting comes first.
MountInv ==
    \A k \in Pos : todo[k].op = "mount" =>
        /\ card[todo[k].s] = EmptyCard
        /\ \A i \in Pos : i < k => todo[i].op \in {"mount", "format"} /\ todo[i].s # todo[k].s

\* A format under way goes into the file just created.
Formatted == [EmptyCard EXCEPT !.path = "home", !.data = Blank]
FormatInv ==
    \A i \in Pos : todo[i].op = "format" =>
        /\ i = 1 /\ temp = NoTemp
        /\ card[todo[i].s] = Formatted
        /\ disk[todo[i].s] = Short

\* A card the game can see has a file, and a slot bound to the player's file
\* holds the player's card, or nothing that could be written there.
HomeInv ==
    \A s \in Slots :
        /\ card[s].present => card[s].path # "none"
        /\ card[s].path = "home" =>
              \/ card[s].present /\ card[s].data.origin = "home"
              \/ ~card[s].present /\ ~card[s].dirty

\* A publication under way is one of a dirty card that is not blocked.
TempInv ==
    temp # NoTemp =>
        /\ card[temp.s].dirty /\ card[temp.s].path # "none" /\ ~Blocked(card[temp.s])
        /\ temp.tail \in FlushTail(card[temp.s])

\* The file of a card the game can see: its tail is the card's, and so is the
\* base unless the card is dirty.
FileInv ==
    \A s \in Slots : card[s].present /\ card[s].path = "home" =>
        /\ disk[s].kind = "whole"
        /\ ~card[s].dirty => disk[s].base = card[s].data
        /\ ~card[s].readFailed => disk[s].tail = card[s].ext /\ card[s].ext # "big"

\* A loss of power may leave the file as it is.
DiskInv == \A s \in Slots : disk[s] \in survivors[s]

IInv ==
    /\ TypeOK /\ ScriptInv /\ BindInv /\ MountInv /\ FormatInv /\ HomeInv
    /\ TempInv /\ FileInv /\ DiskInv /\ OwnCard

\* A good answer about to be given follows a flush that cleared the dirty flag.
AnswerInv ==
    \A i \in Pos : todo[i].op = "ack" =>
        LET s == todo[i].s IN
        /\ card[s].present /\ card[s].data.n <= writes
        /\ i # 1 => i = 2 /\ todo[1] = Do("flush", s) /\ temp = NoTemp
        /\ i = 1 /\ temp # NoTemp => temp.s = s
        /\ i = 1 /\ temp = NoTemp /\ card[s].result = 0 => ~card[s].dirty

\* An acknowledged write is older than what the slot holds.
OlderInv ==
    \A s \in Slots :
        /\ acked[s] <= writes
        /\ card[s].path = "home" /\ card[s].present => card[s].data.n >= acked[s]

AckInv == AnswerInv /\ OlderInv /\ AckDurable
=============================================================================
