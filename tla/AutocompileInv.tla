--------------------------- MODULE AutocompileInv ---------------------------
(***************************************************************************)
(* The inductive invariant behind the properties of Autocompile.           *)
(***************************************************************************)
EXTENDS Autocompile

\* The counters say where the two threads are, and both hold a shard there.
CountInv ==
    /\ preparing = IF prep.at \in {"map", "store"} THEN 1 ELSE 0
    /\ commit = IF emu.at = "commit" THEN 1 ELSE 0
    /\ prep.at \in {"map", "store"} => prep.item \in Shards
    /\ emu.at = "commit" => emu.item \in Shards
    /\ prep.at = "map" => prep.tries < Attempts

\* Which threads there are: the preparer of a run from its request to the join,
\* the watcher as long as the compiler it reads.
LifeInv ==
    /\ state = "IDLE" <=> prep.at = "off"
    /\ state = "IDLE" => watcher = "off" /\ emu.at \notin {"commit", "cancel", "canceljoin"}
    /\ child.at = "running" => watcher = "reading"
    /\ emu.at \in {"cancel", "canceljoin"} =>
          watcher = "off" /\ raw = <<>> /\ ready = <<>> /\ prep.at \notin {"map", "store"}
    /\ emu.at = "off" => state = "IDLE"
    /\ emu.at \in {"canceljoin", "shutdown"} => stop
    /\ stop => state = "IDLE" \/ emu.at \in {"canceljoin", "shutdown"}

\* The image on its way to the game: the one being mapped, waiting or committed.
HandInv ==
    /\ prep.at = "map" => images = {}
    /\ prep.at = "store" => images \subseteq {prep.item}
    /\ emu.at = "commit" => images = {emu.item}
    /\ prep.at # "store" /\ emu.at # "commit" => images = {ready[i] : i \in 1..Len(ready)}

\* Nothing is queued between runs.
RestInv == state = "IDLE" => raw = <<>> /\ ready = <<>>

\* The shards committed, the one in flight and the ones still queued are all those
\* the compiler named, in its order: as long as nothing was lost and the run is not
\* being stopped.
Flying == preparing + Len(ready) + commit
Flow ==
    /\ run.named = Len(committed) + Flying + Len(raw)
    /\ \A i \in 1..Len(committed) : committed[i] = i
    /\ prep.at \in {"map", "store"} => prep.item = Len(committed) + 1
    /\ \A i \in 1..Len(ready) : ready[i] = Len(committed) + i
    /\ emu.at = "commit" => emu.item = Len(committed) + 1
    /\ \A i \in 1..Len(raw) : raw[i] = Len(committed) + Flying + i
FlowInv == ~run.lost /\ ~stop => Flow

\* A verdict stands until the next run.
VerdictInv == verdict = "ok" => state = "IDLE"

IInv ==
    /\ TypeOK /\ CountInv /\ OneHandoff /\ LifeInv /\ HandInv /\ RestInv
    /\ FlowInv /\ VerdictInv /\ SuccessMeansAll
=============================================================================
