-------------------------- MODULE AutocompileProofs --------------------------
(***************************************************************************)
(* Theorems about Autocompile, for every number of shards and attempts.    *)
(***************************************************************************)
EXTENDS AutocompileInv, TLAPS

\* A run keeps its type when another shard is named.
LEMMA RunNamed ==
    ASSUME NEW r \in Runs, NEW n \in 0..MaxShards
    PROVE  [r EXCEPT !.named = n] \in Runs
  BY DEF Runs

\* The flag set when a shard is lost keeps the type of a run.
LEMMA RunLost ==
    ASSUME NEW r \in Runs
    PROVE  [r EXCEPT !.lost = TRUE] \in Runs
  BY DEF Runs

\* ... and is then set.
LEMMA RunFlag ==
    ASSUME NEW r \in Runs
    PROVE  [r EXCEPT !.lost = TRUE].lost
  BY DEF Runs

\* The result line keeps the type of a run.
LEMMA RunResult ==
    ASSUME NEW r \in Runs
    PROVE  [r EXCEPT !.result = TRUE] \in Runs
  BY DEF Runs

\* A new run is a run.
LEMMA RunNew == [named |-> 0, result |-> FALSE, lost |-> FALSE] \in Runs
  BY SizesAssumption DEF Runs

\* The number of shards named is within the bound.
LEMMA RunCount ==
    ASSUME NEW r \in Runs
    PROVE  r.named \in 0..MaxShards
  BY DEF Runs

\* A shard line that was lost keeps the type of a run.
LEMMA RunNamedLost ==
    ASSUME NEW r \in Runs, NEW n \in 0..MaxShards
    PROVE  [r EXCEPT !.named = n, !.lost = TRUE] \in Runs
  BY DEF Runs

\* What taking its head does to a queue.
LEMMA QueueHead ==
    ASSUME NEW q \in Seq(Shards), q # <<>>
    PROVE  /\ Head(q) \in Shards /\ Head(q) = q[1]
           /\ Tail(q) \in Seq(Shards) /\ Len(Tail(q)) = Len(q) - 1
           /\ Len(q) \in Nat /\ Len(q) >= 1
           /\ \A i \in 1..Len(Tail(q)) : Tail(q)[i] = q[i + 1]
  OBVIOUS

\* What appending a shard does to a queue.
LEMMA QueueEnd ==
    ASSUME NEW q \in Seq(Shards), NEW s \in Shards
    PROVE  /\ Append(q, s) \in Seq(Shards) /\ Len(Append(q, s)) = Len(q) + 1
           /\ Len(q) \in Nat
           /\ \A i \in 1..Len(q) : Append(q, s)[i] = q[i]
           /\ Append(q, s)[Len(q) + 1] = s
  OBVIOUS

\* One of two counters that together are at most one.
LEMMA OneOnly ==
    ASSUME NEW p \in {0, 1}, NEW l \in Nat, l >= 1, p + l <= 1
    PROVE  p = 0 /\ l = 1
  OBVIOUS

\* The empty queue.
LEMMA QueueNone ==
    /\ <<>> \in Seq(Shards) /\ Len(<<>>) = 0
    /\ \A q \in Seq(Shards) : Len(q) \in Nat /\ (Len(q) = 0 <=> q = <<>>)
  OBVIOUS

\* The images in flight are a number.
LEMMA FlyingNat ==
    ASSUME TypeOK
    PROVE  Flying \in Nat
  <1>1. preparing \in Nat /\ commit \in Nat /\ Len(ready) \in Nat
    BY QueueNone DEF TypeOK
  <1> QED
    BY <1>1 DEF Flying

\* Every action keeps the types.
LEMMA TypeStep ==
    ASSUME TypeOK, CountInv, [Next]_vars
    PROVE  TypeOK'
  <1> USE SizesAssumption DEF TypeOK, CountInv, Shards
  <1>1. CASE WatchShard
    <2>1. raw' \in Seq(Shards) /\ ready' \in Seq(Shards) /\ committed' \in Seq(Shards)
      BY <1>1, QueueEnd, RunCount DEF WatchShard, queues, Woken
    <2>2. preparing' \in 0..1 /\ commit' \in 0..1
      BY <1>1 DEF WatchShard, queues, Woken
    <2>3. prep' \in [at: {"off", "top", "asleep", "map", "store", "leave", "ended"},
                   item: 0..MaxShards, tries: 0..Attempts]
      BY <1>1, QueueEnd, RunCount DEF WatchShard, queues, Woken
    <2>4. emu' \in [at: {"frame", "commit", "check", "cancel", "canceljoin",
                       "shutdown", "off"}, item: 0..MaxShards]
      BY <1>1, QueueEnd, RunCount DEF WatchShard, queues, Woken
    <2>5. run' \in Runs
      <3>1. run.named + 1 \in 0..MaxShards
        BY <1>1, RunCount DEF WatchShard
      <3> QED
        BY <1>1, <3>1, RunNamed DEF WatchShard
    <2>6. state' \in {"IDLE", "RUNNING", "DONE"} /\ verdict' \in {"none", "ok", "fail"}
            /\ inputDone' \in BOOLEAN /\ stop' \in BOOLEAN /\ gated' \in BOOLEAN
      BY <1>1 DEF WatchShard, queues, Woken
    <2>7. watcher' \in {"off", "reading", "ended"} /\ child' \in [at: {"none", "running", "gone"}, code: {0, 1}]
      BY <1>1 DEF WatchShard, queues, Woken
    <2>8. images' \subseteq Shards
      BY <1>1 DEF WatchShard, queues, Woken
    <2> QED
      BY <2>1, <2>2, <2>3, <2>4, <2>5, <2>6, <2>7, <2>8
  <1>2. CASE WatchLost
    <2>1. raw' \in Seq(Shards) /\ ready' \in Seq(Shards) /\ committed' \in Seq(Shards)
      BY <1>2 DEF WatchLost, queues
    <2>2. preparing' \in 0..1 /\ commit' \in 0..1
      BY <1>2 DEF WatchLost, queues
    <2>3. prep' \in [at: {"off", "top", "asleep", "map", "store", "leave", "ended"},
                   item: 0..MaxShards, tries: 0..Attempts]
      BY <1>2 DEF WatchLost, queues
    <2>4. emu' \in [at: {"frame", "commit", "check", "cancel", "canceljoin",
                       "shutdown", "off"}, item: 0..MaxShards]
      BY <1>2 DEF WatchLost, queues
    <2>5. run' \in Runs
      <3>1. run.named + 1 \in 0..MaxShards
        BY <1>2, RunCount DEF WatchLost
      <3> QED
        BY <1>2, <3>1, RunNamedLost DEF WatchLost
    <2>6. state' \in {"IDLE", "RUNNING", "DONE"} /\ verdict' \in {"none", "ok", "fail"}
            /\ inputDone' \in BOOLEAN /\ stop' \in BOOLEAN /\ gated' \in BOOLEAN
      BY <1>2 DEF WatchLost, queues
    <2>7. watcher' \in {"off", "reading", "ended"} /\ child' \in [at: {"none", "running", "gone"}, code: {0, 1}]
      BY <1>2 DEF WatchLost, queues
    <2>8. images' \subseteq Shards
      BY <1>2 DEF WatchLost, queues
    <2> QED
      BY <2>1, <2>2, <2>3, <2>4, <2>5, <2>6, <2>7, <2>8
  <1>3. CASE WatchResult
    <2>1. raw' \in Seq(Shards) /\ ready' \in Seq(Shards) /\ committed' \in Seq(Shards)
      BY <1>3 DEF WatchResult, queues
    <2>2. preparing' \in 0..1 /\ commit' \in 0..1
      BY <1>3 DEF WatchResult, queues
    <2>3. prep' \in [at: {"off", "top", "asleep", "map", "store", "leave", "ended"},
                   item: 0..MaxShards, tries: 0..Attempts]
      BY <1>3 DEF WatchResult, queues
    <2>4. emu' \in [at: {"frame", "commit", "check", "cancel", "canceljoin",
                       "shutdown", "off"}, item: 0..MaxShards]
      BY <1>3 DEF WatchResult, queues
    <2>5. run' \in Runs
      BY <1>3, RunResult DEF WatchResult, queues
    <2>6. state' \in {"IDLE", "RUNNING", "DONE"} /\ verdict' \in {"none", "ok", "fail"}
            /\ inputDone' \in BOOLEAN /\ stop' \in BOOLEAN /\ gated' \in BOOLEAN
      BY <1>3 DEF WatchResult, queues
    <2>7. watcher' \in {"off", "reading", "ended"} /\ child' \in [at: {"none", "running", "gone"}, code: {0, 1}]
      BY <1>3 DEF WatchResult, queues
    <2>8. images' \subseteq Shards
      BY <1>3 DEF WatchResult, queues
    <2> QED
      BY <2>1, <2>2, <2>3, <2>4, <2>5, <2>6, <2>7, <2>8
  <1>4. CASE WatchEnd
    BY <1>4 DEF WatchEnd, queues, Woken
  <1>5. CASE \E code \in {0, 1} : ChildExit(code)
    BY <1>5 DEF ChildExit, queues
  <1>6. CASE PrepTop
    <2>1. raw' \in Seq(Shards) /\ ready' \in Seq(Shards) /\ committed' \in Seq(Shards)
      BY <1>6, QueueHead DEF PrepTop, queues, MustWait
    <2>2. preparing' \in 0..1 /\ commit' \in 0..1
      BY <1>6 DEF PrepTop, queues, MustWait
    <2>3. prep' \in [at: {"off", "top", "asleep", "map", "store", "leave", "ended"},
                   item: 0..MaxShards, tries: 0..Attempts]
      <3>1. raw # <<>> => Head(raw) \in 0..MaxShards
        BY QueueHead
      <3> QED
        BY <1>6, <3>1 DEF PrepTop
    <2>4. emu' \in [at: {"frame", "commit", "check", "cancel", "canceljoin",
                       "shutdown", "off"}, item: 0..MaxShards]
      BY <1>6, QueueHead DEF PrepTop, queues, MustWait
    <2>5. run' \in Runs
      BY <1>6 DEF PrepTop, queues, MustWait
    <2>6. state' \in {"IDLE", "RUNNING", "DONE"} /\ verdict' \in {"none", "ok", "fail"}
            /\ inputDone' \in BOOLEAN /\ stop' \in BOOLEAN /\ gated' \in BOOLEAN
      BY <1>6 DEF PrepTop, queues, MustWait
    <2>7. watcher' \in {"off", "reading", "ended"} /\ child' \in [at: {"none", "running", "gone"}, code: {0, 1}]
      BY <1>6 DEF PrepTop, queues, MustWait
    <2>8. images' \subseteq Shards
      BY <1>6 DEF PrepTop, queues, MustWait
    <2> QED
      BY <2>1, <2>2, <2>3, <2>4, <2>5, <2>6, <2>7, <2>8
  <1>7. CASE PrepMap
    <2>1. raw' \in Seq(Shards) /\ ready' \in Seq(Shards) /\ committed' \in Seq(Shards)
      BY <1>7 DEF PrepMap, queues
    <2>2. preparing' \in 0..1 /\ commit' \in 0..1
      BY <1>7 DEF PrepMap, queues
    <2>3. prep' \in [at: {"off", "top", "asleep", "map", "store", "leave", "ended"},
                   item: 0..MaxShards, tries: 0..Attempts]
      <3>1. prep.at = "map" /\ prep.tries + 1 \in 0..Attempts
        BY <1>7 DEF PrepMap
      <3>2. CASE prep' = [prep EXCEPT !.at = "store"]
        BY <3>2
      <3>3. CASE prep' = [prep EXCEPT !.tries = prep.tries + 1, !.at = "store"]
        BY <3>1, <3>3
      <3>4. CASE prep' = [prep EXCEPT !.tries = prep.tries + 1, !.at = "map"]
        BY <3>1, <3>4
      <3> QED
        BY <1>7, <3>2, <3>3, <3>4 DEF PrepMap
    <2>4. emu' \in [at: {"frame", "commit", "check", "cancel", "canceljoin",
                       "shutdown", "off"}, item: 0..MaxShards]
      BY <1>7 DEF PrepMap, queues
    <2>5. run' \in Runs
      BY <1>7 DEF PrepMap, queues
    <2>6. state' \in {"IDLE", "RUNNING", "DONE"} /\ verdict' \in {"none", "ok", "fail"}
            /\ inputDone' \in BOOLEAN /\ stop' \in BOOLEAN /\ gated' \in BOOLEAN
      BY <1>7 DEF PrepMap, queues
    <2>7. watcher' \in {"off", "reading", "ended"} /\ child' \in [at: {"none", "running", "gone"}, code: {0, 1}]
      BY <1>7 DEF PrepMap, queues
    <2>8. images' \subseteq Shards
      BY <1>7 DEF PrepMap, queues
    <2> QED
      BY <2>1, <2>2, <2>3, <2>4, <2>5, <2>6, <2>7, <2>8
  <1>8. CASE PrepStore
    <2>1. raw' \in Seq(Shards) /\ ready' \in Seq(Shards) /\ committed' \in Seq(Shards)
      <3>1. Append(ready, prep.item) \in Seq(Shards)
        BY <1>8, QueueEnd DEF PrepStore
      <3> QED
        BY <1>8, <3>1 DEF PrepStore
    <2>2. preparing' \in 0..1 /\ commit' \in 0..1
      BY <1>8 DEF PrepStore, queues
    <2>3. prep' \in [at: {"off", "top", "asleep", "map", "store", "leave", "ended"},
                   item: 0..MaxShards, tries: 0..Attempts]
      <3>1. 0 \in 0..MaxShards
        OBVIOUS
      <3>2. prep.tries \in 0..Attempts
        OBVIOUS
      <3>3. prep' = [at |-> prep'.at, item |-> 0, tries |-> prep.tries]
                /\ prep'.at \in {"top", "leave"}
        BY <1>8 DEF PrepStore
      <3> QED
        BY <3>1, <3>2, <3>3
    <2>4. emu' \in [at: {"frame", "commit", "check", "cancel", "canceljoin",
                       "shutdown", "off"}, item: 0..MaxShards]
      BY <1>8, QueueEnd DEF PrepStore, queues
    <2>5. run' \in Runs
      BY <1>8, RunLost DEF PrepStore, queues
    <2>6. state' \in {"IDLE", "RUNNING", "DONE"} /\ verdict' \in {"none", "ok", "fail"}
            /\ inputDone' \in BOOLEAN /\ stop' \in BOOLEAN /\ gated' \in BOOLEAN
      BY <1>8 DEF PrepStore, queues
    <2>7. watcher' \in {"off", "reading", "ended"} /\ child' \in [at: {"none", "running", "gone"}, code: {0, 1}]
      BY <1>8 DEF PrepStore, queues
    <2>8. images' \subseteq Shards
      BY <1>8 DEF PrepStore, queues
    <2> QED
      BY <2>1, <2>2, <2>3, <2>4, <2>5, <2>6, <2>7, <2>8
  <1>9. CASE PrepLeave
    BY <1>9 DEF PrepLeave, queues
  <1>10. CASE \E outcome \in Outcomes : Request(outcome)
    <2>1. raw' \in Seq(Shards) /\ ready' \in Seq(Shards) /\ committed' \in Seq(Shards)
      BY <1>10, QueueNone DEF Request, queues, RequestOk, Discarded, Outcomes, NoteFailure
    <2>2. preparing' \in 0..1 /\ commit' \in 0..1
      BY <1>10 DEF Request, queues, RequestOk, Discarded, Outcomes, NoteFailure
    <2>3. prep' \in [at: {"off", "top", "asleep", "map", "store", "leave", "ended"},
                   item: 0..MaxShards, tries: 0..Attempts]
      BY <1>10, QueueNone DEF Request, queues, RequestOk, Discarded, Outcomes, NoteFailure
    <2>4. emu' \in [at: {"frame", "commit", "check", "cancel", "canceljoin",
                       "shutdown", "off"}, item: 0..MaxShards]
      BY <1>10, QueueNone DEF Request, queues, RequestOk, Discarded, Outcomes, NoteFailure
    <2>5. run' \in Runs
      BY <1>10, RunNew DEF Request, queues, RequestOk, Discarded, Outcomes, NoteFailure
    <2>6. state' \in {"IDLE", "RUNNING", "DONE"} /\ verdict' \in {"none", "ok", "fail"}
            /\ inputDone' \in BOOLEAN /\ stop' \in BOOLEAN /\ gated' \in BOOLEAN
      BY <1>10 DEF Request, queues, RequestOk, Discarded, Outcomes, NoteFailure
    <2>7. watcher' \in {"off", "reading", "ended"} /\ child' \in [at: {"none", "running", "gone"}, code: {0, 1}]
      BY <1>10 DEF Request, queues, RequestOk, Discarded, Outcomes, NoteFailure
    <2>8. images' \subseteq Shards
      BY <1>10 DEF Request, queues, RequestOk, Discarded, Outcomes, NoteFailure
    <2> QED
      BY <2>1, <2>2, <2>3, <2>4, <2>5, <2>6, <2>7, <2>8
  <1>11. CASE Cancel
    <2>1. raw' \in Seq(Shards) /\ ready' \in Seq(Shards) /\ committed' \in Seq(Shards)
      BY <1>11 DEF Cancel, queues, Woken
    <2>2. preparing' \in 0..1 /\ commit' \in 0..1
      BY <1>11 DEF Cancel, queues, Woken
    <2>3. prep' \in [at: {"off", "top", "asleep", "map", "store", "leave", "ended"},
                   item: 0..MaxShards, tries: 0..Attempts]
      BY <1>11 DEF Cancel, queues, Woken
    <2>4. emu' \in [at: {"frame", "commit", "check", "cancel", "canceljoin",
                       "shutdown", "off"}, item: 0..MaxShards]
      BY <1>11 DEF Cancel, queues, Woken
    <2>5. run' \in Runs
      BY <1>11 DEF Cancel, queues, Woken
    <2>6. state' \in {"IDLE", "RUNNING", "DONE"} /\ verdict' \in {"none", "ok", "fail"}
            /\ inputDone' \in BOOLEAN /\ stop' \in BOOLEAN /\ gated' \in BOOLEAN
      BY <1>11 DEF Cancel, queues, Woken
    <2>7. watcher' \in {"off", "reading", "ended"} /\ child' \in [at: {"none", "running", "gone"}, code: {0, 1}]
      BY <1>11 DEF Cancel, queues, Woken
    <2>8. images' \subseteq Shards
      BY <1>11 DEF Cancel, queues, Woken
    <2> QED
      BY <2>1, <2>2, <2>3, <2>4, <2>5, <2>6, <2>7, <2>8
  <1>12. CASE CancelJoin
    BY <1>12 DEF CancelJoin, queues, NoteFailure
  <1>13. CASE PollPop
    <2>1. raw' \in Seq(Shards) /\ ready' \in Seq(Shards) /\ committed' \in Seq(Shards)
      BY <1>13, QueueHead DEF PollPop, queues
    <2>2. preparing' \in 0..1 /\ commit' \in 0..1
      BY <1>13 DEF PollPop, queues
    <2>3. prep' \in [at: {"off", "top", "asleep", "map", "store", "leave", "ended"},
                   item: 0..MaxShards, tries: 0..Attempts]
      BY <1>13, QueueHead DEF PollPop, queues
    <2>4. emu' \in [at: {"frame", "commit", "check", "cancel", "canceljoin",
                       "shutdown", "off"}, item: 0..MaxShards]
      BY <1>13, QueueHead DEF PollPop, queues
    <2>5. run' \in Runs
      BY <1>13 DEF PollPop, queues
    <2>6. state' \in {"IDLE", "RUNNING", "DONE"} /\ verdict' \in {"none", "ok", "fail"}
            /\ inputDone' \in BOOLEAN /\ stop' \in BOOLEAN /\ gated' \in BOOLEAN
      BY <1>13 DEF PollPop, queues
    <2>7. watcher' \in {"off", "reading", "ended"} /\ child' \in [at: {"none", "running", "gone"}, code: {0, 1}]
      BY <1>13 DEF PollPop, queues
    <2>8. images' \subseteq Shards
      BY <1>13 DEF PollPop, queues
    <2> QED
      BY <2>1, <2>2, <2>3, <2>4, <2>5, <2>6, <2>7, <2>8
  <1>14. CASE PollCommit
    <2>1. raw' \in Seq(Shards) /\ ready' \in Seq(Shards) /\ committed' \in Seq(Shards)
      <3>1. Append(committed, emu.item) \in Seq(Shards)
        BY <1>14, QueueEnd DEF PollCommit
      <3> QED
        BY <1>14, <3>1 DEF PollCommit
    <2>2. preparing' \in 0..1 /\ commit' \in 0..1
      BY <1>14 DEF PollCommit, queues, Woken
    <2>3. prep' \in [at: {"off", "top", "asleep", "map", "store", "leave", "ended"},
                   item: 0..MaxShards, tries: 0..Attempts]
      BY <1>14, QueueEnd DEF PollCommit, queues, Woken
    <2>4. emu' \in [at: {"frame", "commit", "check", "cancel", "canceljoin",
                       "shutdown", "off"}, item: 0..MaxShards]
      BY <1>14, QueueEnd DEF PollCommit, queues, Woken
    <2>5. run' \in Runs
      BY <1>14, RunLost DEF PollCommit, queues, Woken
    <2>6. state' \in {"IDLE", "RUNNING", "DONE"} /\ verdict' \in {"none", "ok", "fail"}
            /\ inputDone' \in BOOLEAN /\ stop' \in BOOLEAN /\ gated' \in BOOLEAN
      BY <1>14 DEF PollCommit, queues, Woken
    <2>7. watcher' \in {"off", "reading", "ended"} /\ child' \in [at: {"none", "running", "gone"}, code: {0, 1}]
      BY <1>14 DEF PollCommit, queues, Woken
    <2>8. images' \subseteq Shards
      BY <1>14 DEF PollCommit, queues, Woken
    <2> QED
      BY <2>1, <2>2, <2>3, <2>4, <2>5, <2>6, <2>7, <2>8
  <1>15. CASE PollNothing
    BY <1>15 DEF PollNothing, queues
  <1>16. CASE PollFinish
    BY <1>16 DEF PollFinish, queues, PublishPending, NoteFailure, NoteSuccess, RunGood
  <1>17. CASE Shutdown
    BY <1>17 DEF Shutdown, queues, Woken
  <1>18. CASE ShutdownJoin
    <2>1. raw' \in Seq(Shards) /\ ready' \in Seq(Shards) /\ committed' \in Seq(Shards)
      BY <1>18, QueueNone DEF ShutdownJoin, queues, Discarded
    <2>2. preparing' \in 0..1 /\ commit' \in 0..1
      BY <1>18 DEF ShutdownJoin, queues, Discarded
    <2>3. prep' \in [at: {"off", "top", "asleep", "map", "store", "leave", "ended"},
                   item: 0..MaxShards, tries: 0..Attempts]
      BY <1>18, QueueNone DEF ShutdownJoin, queues, Discarded
    <2>4. emu' \in [at: {"frame", "commit", "check", "cancel", "canceljoin",
                       "shutdown", "off"}, item: 0..MaxShards]
      BY <1>18, QueueNone DEF ShutdownJoin, queues, Discarded
    <2>5. run' \in Runs
      BY <1>18 DEF ShutdownJoin, queues, Discarded
    <2>6. state' \in {"IDLE", "RUNNING", "DONE"} /\ verdict' \in {"none", "ok", "fail"}
            /\ inputDone' \in BOOLEAN /\ stop' \in BOOLEAN /\ gated' \in BOOLEAN
      BY <1>18 DEF ShutdownJoin, queues, Discarded
    <2>7. watcher' \in {"off", "reading", "ended"} /\ child' \in [at: {"none", "running", "gone"}, code: {0, 1}]
      BY <1>18 DEF ShutdownJoin, queues, Discarded
    <2>8. images' \subseteq Shards
      BY <1>18 DEF ShutdownJoin, queues, Discarded
    <2> QED
      BY <2>1, <2>2, <2>3, <2>4, <2>5, <2>6, <2>7, <2>8
  <1>19. CASE RetryDelay
    <2>1. raw' \in Seq(Shards) /\ ready' \in Seq(Shards) /\ committed' \in Seq(Shards)
      BY <1>19 DEF RetryDelay, queues
    <2>2. preparing' \in 0..1 /\ commit' \in 0..1
      BY <1>19 DEF RetryDelay, queues
    <2>3. prep' \in [at: {"off", "top", "asleep", "map", "store", "leave", "ended"},
                   item: 0..MaxShards, tries: 0..Attempts]
      BY <1>19 DEF RetryDelay, queues
    <2>4. emu' \in [at: {"frame", "commit", "check", "cancel", "canceljoin",
                       "shutdown", "off"}, item: 0..MaxShards]
      BY <1>19 DEF RetryDelay, queues
    <2>5. run' \in Runs
      BY <1>19 DEF RetryDelay, queues
    <2>6. state' \in {"IDLE", "RUNNING", "DONE"} /\ verdict' \in {"none", "ok", "fail"}
            /\ inputDone' \in BOOLEAN /\ stop' \in BOOLEAN /\ gated' \in BOOLEAN
      BY <1>19 DEF RetryDelay, queues
    <2>7. watcher' \in {"off", "reading", "ended"} /\ child' \in [at: {"none", "running", "gone"}, code: {0, 1}]
      BY <1>19 DEF RetryDelay, queues
    <2>8. images' \subseteq Shards
      BY <1>19 DEF RetryDelay, queues
    <2> QED
      BY <2>1, <2>2, <2>3, <2>4, <2>5, <2>6, <2>7, <2>8
  <1>20. CASE UNCHANGED vars
    BY <1>20 DEF vars
  <1> QED
    BY <1>1, <1>2, <1>3, <1>4, <1>5, <1>6, <1>7, <1>8, <1>9, <1>10, <1>11, <1>12, <1>13, <1>14, <1>15, <1>16, <1>17, <1>18, <1>19, <1>20 DEF Next

\* Every action keeps the counters and what the threads hold.
LEMMA CountStep ==
    ASSUME TypeOK, CountInv, LifeInv, [Next]_vars
    PROVE  CountInv'
  <1> USE SizesAssumption DEF TypeOK, CountInv, Shards, LifeInv, Runs
  <1>1. CASE WatchShard
    BY <1>1 DEF WatchShard, queues, Woken
  <1>2. CASE WatchLost
    BY <1>2 DEF WatchLost, queues
  <1>3. CASE WatchResult
    BY <1>3 DEF WatchResult, queues
  <1>4. CASE WatchEnd
    BY <1>4 DEF WatchEnd, queues, Woken
  <1>5. CASE \E code \in {0, 1} : ChildExit(code)
    BY <1>5 DEF ChildExit, queues
  <1>6. CASE PrepTop
    <2>1. raw # <<>> => Head(raw) \in Shards
      BY QueueHead
    <2>2. CASE prep' = [prep EXCEPT !.at = "asleep"]
      BY <1>6, <2>2 DEF PrepTop
    <2>3. CASE prep' = [prep EXCEPT !.at = "leave"]
      BY <1>6, <2>3 DEF PrepTop
    <2>4. CASE raw # <<>> /\ prep' = [at |-> "map", item |-> Head(raw), tries |-> 0]
                /\ preparing' = preparing + 1
      <3>1. prep'.item \in Shards /\ prep'.tries < Attempts /\ prep'.at = "map"
        BY <2>1, <2>4
      <3>2. preparing' = 1
        BY <1>6, <2>4 DEF PrepTop
      <3> QED
        BY <1>6, <3>1, <3>2 DEF PrepTop
    <2> QED
      BY <1>6, <2>2, <2>3, <2>4 DEF PrepTop
  <1>7. CASE PrepMap
    <2>1. CASE prep' = [prep EXCEPT !.at = "store"]
      BY <1>7, <2>1 DEF PrepMap, queues
    <2>2. CASE prep' = [prep EXCEPT !.tries = prep.tries + 1, !.at = "store"]
      BY <1>7, <2>2 DEF PrepMap, queues
    <2>3. CASE prep' = [prep EXCEPT !.tries = prep.tries + 1, !.at = "map"]
               /\ prep.tries + 1 < Attempts
      BY <1>7, <2>3 DEF PrepMap, queues
    <2>4. CASE prep.tries + 1 >= Attempts \/ stop
      BY <1>7, <2>1, <2>2, <2>4 DEF PrepMap
    <2>5. CASE ~(prep.tries + 1 >= Attempts \/ stop)
      <3>1. prep.tries + 1 < Attempts
        BY <2>5
      <3> QED
        BY <1>7, <2>1, <2>3, <2>5, <3>1 DEF PrepMap
    <2> QED
      BY <2>4, <2>5
  <1>8. CASE PrepStore
    <2>1. prep'.at \in {"top", "leave"}
      BY <1>8 DEF PrepStore
    <2>2. preparing' = 0
      BY <1>8 DEF PrepStore
    <2> QED
      BY <1>8, <2>1, <2>2 DEF PrepStore
  <1>9. CASE PrepLeave
    BY <1>9 DEF PrepLeave, queues
  <1>10. CASE \E outcome \in Outcomes : Request(outcome)
    BY <1>10 DEF Request, queues, RequestOk, Discarded, Outcomes, NoteFailure
  <1>11. CASE Cancel
    BY <1>11 DEF Cancel, queues, Woken
  <1>12. CASE CancelJoin
    BY <1>12 DEF CancelJoin, queues, NoteFailure
  <1>13. CASE PollPop
    BY <1>13 DEF PollPop, queues
  <1>14. CASE PollCommit
    BY <1>14 DEF PollCommit, queues, Woken
  <1>15. CASE PollNothing
    BY <1>15 DEF PollNothing, queues
  <1>16. CASE PollFinish
    BY <1>16 DEF PollFinish, queues, PublishPending, NoteFailure, NoteSuccess, RunGood
  <1>17. CASE Shutdown
    BY <1>17 DEF Shutdown, queues, Woken
  <1>18. CASE ShutdownJoin
    BY <1>18 DEF ShutdownJoin, queues, Discarded
  <1>19. CASE RetryDelay
    BY <1>19 DEF RetryDelay, queues
  <1>20. CASE UNCHANGED vars
    BY <1>20 DEF vars
  <1> QED
    BY <1>1, <1>2, <1>3, <1>4, <1>5, <1>6, <1>7, <1>8, <1>9, <1>10, <1>11, <1>12, <1>13, <1>14, <1>15, <1>16, <1>17, <1>18, <1>19, <1>20 DEF Next

\* Every action leaves at most one image in flight.
LEMMA HandoffStep ==
    ASSUME TypeOK, CountInv, OneHandoff, LifeInv, [Next]_vars
    PROVE  OneHandoff'
  <1> USE SizesAssumption DEF TypeOK, CountInv, OneHandoff, Shards, LifeInv, Runs
  <1>1. CASE WatchShard
    BY <1>1 DEF WatchShard, queues, Woken
  <1>2. CASE WatchLost
    BY <1>2 DEF WatchLost, queues
  <1>3. CASE WatchResult
    BY <1>3 DEF WatchResult, queues
  <1>4. CASE WatchEnd
    BY <1>4 DEF WatchEnd, queues, Woken
  <1>5. CASE \E code \in {0, 1} : ChildExit(code)
    BY <1>5 DEF ChildExit, queues
  <1>6. CASE PrepTop
    BY <1>6 DEF PrepTop, queues, MustWait
  <1>7. CASE PrepMap
    BY <1>7 DEF PrepMap, queues
  <1>8. CASE PrepStore
    BY <1>8 DEF PrepStore, queues
  <1>9. CASE PrepLeave
    BY <1>9 DEF PrepLeave, queues
  <1>10. CASE \E outcome \in Outcomes : Request(outcome)
    BY <1>10 DEF Request, queues, RequestOk, Discarded, Outcomes, NoteFailure
  <1>11. CASE Cancel
    BY <1>11 DEF Cancel, queues, Woken
  <1>12. CASE CancelJoin
    BY <1>12 DEF CancelJoin, queues, NoteFailure
  <1>13. CASE PollPop
    BY <1>13 DEF PollPop, queues
  <1>14. CASE PollCommit
    BY <1>14 DEF PollCommit, queues, Woken
  <1>15. CASE PollNothing
    BY <1>15 DEF PollNothing, queues
  <1>16. CASE PollFinish
    BY <1>16 DEF PollFinish, queues, PublishPending, NoteFailure, NoteSuccess, RunGood
  <1>17. CASE Shutdown
    BY <1>17 DEF Shutdown, queues, Woken
  <1>18. CASE ShutdownJoin
    BY <1>18 DEF ShutdownJoin, queues, Discarded
  <1>19. CASE RetryDelay
    BY <1>19 DEF RetryDelay, queues
  <1>20. CASE UNCHANGED vars
    BY <1>20 DEF vars
  <1> QED
    BY <1>1, <1>2, <1>3, <1>4, <1>5, <1>6, <1>7, <1>8, <1>9, <1>10, <1>11, <1>12, <1>13, <1>14, <1>15, <1>16, <1>17, <1>18, <1>19, <1>20 DEF Next

\* Every action keeps the threads and the run together.
LEMMA LifeStep ==
    ASSUME TypeOK, CountInv, LifeInv, RestInv, [Next]_vars
    PROVE  LifeInv'
  <1> USE SizesAssumption DEF TypeOK, CountInv, LifeInv, RestInv, Shards, Runs
  <1>1. CASE WatchShard
    BY <1>1 DEF WatchShard, queues, Woken
  <1>2. CASE WatchLost
    BY <1>2 DEF WatchLost, queues
  <1>3. CASE WatchResult
    BY <1>3 DEF WatchResult, queues
  <1>4. CASE WatchEnd
    BY <1>4 DEF WatchEnd, queues, Woken
  <1>5. CASE \E code \in {0, 1} : ChildExit(code)
    BY <1>5 DEF ChildExit, queues
  <1>6. CASE PrepTop
    BY <1>6 DEF PrepTop, queues, MustWait
  <1>7. CASE PrepMap
    BY <1>7 DEF PrepMap, queues
  <1>8. CASE PrepStore
    BY <1>8 DEF PrepStore, queues
  <1>9. CASE PrepLeave
    BY <1>9 DEF PrepLeave, queues
  <1>10. CASE \E outcome \in Outcomes : Request(outcome)
    BY <1>10 DEF Request, queues, RequestOk, Discarded, Outcomes, NoteFailure
  <1>11. CASE Cancel
    BY <1>11 DEF Cancel, queues, Woken
  <1>12. CASE CancelJoin
    BY <1>12 DEF CancelJoin, queues, NoteFailure
  <1>13. CASE PollPop
    BY <1>13 DEF PollPop, queues
  <1>14. CASE PollCommit
    BY <1>14 DEF PollCommit, queues, Woken
  <1>15. CASE PollNothing
    BY <1>15 DEF PollNothing, queues
  <1>16. CASE PollFinish
    BY <1>16 DEF PollFinish, queues, PublishPending, NoteFailure, NoteSuccess, RunGood
  <1>17. CASE Shutdown
    BY <1>17 DEF Shutdown, queues, Woken
  <1>18. CASE ShutdownJoin
    BY <1>18 DEF ShutdownJoin, queues, Discarded
  <1>19. CASE RetryDelay
    BY <1>19 DEF RetryDelay, queues
  <1>20. CASE UNCHANGED vars
    BY <1>20 DEF vars
  <1> QED
    BY <1>1, <1>2, <1>3, <1>4, <1>5, <1>6, <1>7, <1>8, <1>9, <1>10, <1>11, <1>12, <1>13, <1>14, <1>15, <1>16, <1>17, <1>18, <1>19, <1>20 DEF Next

\* Every action leaves the queues empty between runs.
LEMMA RestStep ==
    ASSUME TypeOK, CountInv, LifeInv, RestInv, [Next]_vars
    PROVE  RestInv'
  <1> USE SizesAssumption DEF TypeOK, CountInv, LifeInv, RestInv, Shards, Runs
  <1>1. CASE WatchShard
    BY <1>1 DEF WatchShard, queues, Woken
  <1>2. CASE WatchLost
    BY <1>2 DEF WatchLost, queues
  <1>3. CASE WatchResult
    BY <1>3 DEF WatchResult, queues
  <1>4. CASE WatchEnd
    BY <1>4 DEF WatchEnd, queues, Woken
  <1>5. CASE \E code \in {0, 1} : ChildExit(code)
    BY <1>5 DEF ChildExit, queues
  <1>6. CASE PrepTop
    BY <1>6 DEF PrepTop, queues, MustWait
  <1>7. CASE PrepMap
    BY <1>7 DEF PrepMap, queues
  <1>8. CASE PrepStore
    BY <1>8 DEF PrepStore, queues
  <1>9. CASE PrepLeave
    BY <1>9 DEF PrepLeave, queues
  <1>10. CASE \E outcome \in Outcomes : Request(outcome)
    BY <1>10 DEF Request, queues, RequestOk, Discarded, Outcomes, NoteFailure
  <1>11. CASE Cancel
    BY <1>11 DEF Cancel, queues, Woken
  <1>12. CASE CancelJoin
    BY <1>12 DEF CancelJoin, queues, NoteFailure
  <1>13. CASE PollPop
    BY <1>13 DEF PollPop, queues
  <1>14. CASE PollCommit
    BY <1>14 DEF PollCommit, queues, Woken
  <1>15. CASE PollNothing
    BY <1>15 DEF PollNothing, queues
  <1>16. CASE PollFinish
    BY <1>16 DEF PollFinish, queues, PublishPending, NoteFailure, NoteSuccess, RunGood
  <1>17. CASE Shutdown
    BY <1>17 DEF Shutdown, queues, Woken
  <1>18. CASE ShutdownJoin
    BY <1>18 DEF ShutdownJoin, queues, Discarded
  <1>19. CASE RetryDelay
    BY <1>19 DEF RetryDelay, queues
  <1>20. CASE UNCHANGED vars
    BY <1>20 DEF vars
  <1> QED
    BY <1>1, <1>2, <1>3, <1>4, <1>5, <1>6, <1>7, <1>8, <1>9, <1>10, <1>11, <1>12, <1>13, <1>14, <1>15, <1>16, <1>17, <1>18, <1>19, <1>20 DEF Next

\* Every action keeps track of the mapped images.
LEMMA HandStep ==
    ASSUME TypeOK, CountInv, LifeInv, OneHandoff, HandInv, [Next]_vars
    PROVE  HandInv'
  <1> USE SizesAssumption DEF TypeOK, CountInv, LifeInv, HandInv, OneHandoff, Shards, Runs
  <1>1. CASE WatchShard
    BY <1>1 DEF WatchShard, queues, Woken
  <1>2. CASE WatchLost
    BY <1>2 DEF WatchLost, queues
  <1>3. CASE WatchResult
    BY <1>3 DEF WatchResult, queues
  <1>4. CASE WatchEnd
    BY <1>4 DEF WatchEnd, queues, Woken
  <1>5. CASE \E code \in {0, 1} : ChildExit(code)
    BY <1>5 DEF ChildExit, queues
  <1>6. CASE PrepTop
    BY <1>6 DEF PrepTop, queues, MustWait
  <1>7. CASE PrepMap
    <2>1. prep.at = "map" /\ emu.at # "commit" /\ images = {}
      BY <1>7, QueueNone DEF PrepMap
    <2>2. prep'.item = prep.item /\ prep'.at \in {"map", "store"} /\ emu' = emu
      BY <1>7 DEF PrepMap
    <2>3. (images' = {prep.item} /\ prep'.at = "store") \/ images' = {}
      BY <1>7, <2>1 DEF PrepMap
    <2>4. {ready'[i] : i \in 1..Len(ready')} = {}
      BY <1>7, QueueNone DEF PrepMap, queues
    <2> QED
      BY <2>1, <2>2, <2>3, <2>4
  <1>8. CASE PrepStore
    <2>1. prep.at = "store" /\ emu.at # "commit" /\ ready = <<>> /\ images \subseteq {prep.item}
      BY <1>8, QueueNone DEF PrepStore
    <2>2. prep'.at \in {"top", "leave"} /\ emu' = emu
      BY <1>8 DEF PrepStore
    <2>3. CASE prep.item \notin images
      <3>1. images' = {} /\ ready' = <<>>
        BY <1>8, <2>1, <2>3 DEF PrepStore
      <3>2. {ready'[i] : i \in 1..Len(ready')} = {}
        BY <3>1, QueueNone
      <3> QED
        BY <2>1, <2>2, <3>1, <3>2
    <2>4. CASE prep.item \in images /\ stop
      <3>1. images' = {} /\ ready' = <<>>
        BY <1>8, <2>1, <2>4 DEF PrepStore
      <3>2. {ready'[i] : i \in 1..Len(ready')} = {}
        BY <3>1, QueueNone
      <3> QED
        BY <2>1, <2>2, <3>1, <3>2
    <2>5. CASE prep.item \in images /\ ~stop
      <3>1. images' = {prep.item} /\ ready' = Append(<<>>, prep.item)
        BY <1>8, <2>1, <2>5 DEF PrepStore
      <3>2. Len(ready') = 1 /\ ready'[1] = prep.item
        BY <3>1
      <3>3. {ready'[i] : i \in 1..Len(ready')} = {prep.item}
        BY <3>2
      <3> QED
        BY <2>1, <2>2, <3>1, <3>3
    <2> QED
      BY <2>3, <2>4, <2>5
  <1>9. CASE PrepLeave
    BY <1>9 DEF PrepLeave, queues
  <1>10. CASE \E outcome \in Outcomes : Request(outcome)
    BY <1>10 DEF Request, queues, RequestOk, Discarded, Outcomes, NoteFailure
  <1>11. CASE Cancel
    BY <1>11 DEF Cancel, queues, Woken
  <1>12. CASE CancelJoin
    BY <1>12 DEF CancelJoin, queues, NoteFailure
  <1>13. CASE PollPop
    <2>1. CASE ready = <<>>
      BY <1>13, <2>1 DEF PollPop
    <2>2. CASE ready # <<>>
      <3>1. Len(ready) = 1 /\ prep.at \notin {"map", "store"} /\ emu.at # "commit"
        <4>1. emu.at = "frame" /\ Len(ready) \in Nat /\ Len(ready) >= 1
          BY <1>13, <2>2, QueueHead DEF PollPop
        <4>2. preparing \in {0, 1} /\ commit = 0
          BY <4>1
        <4>3. preparing + Len(ready) <= 1
          BY <4>1, <4>2
        <4>4. preparing = 0 /\ Len(ready) = 1
          BY <4>1, <4>2, <4>3, OneOnly
        <4> QED
          BY <4>1, <4>4
      <3>2. images = {ready[1]}
        BY <3>1
      <3>3. emu'.at = "commit" /\ emu'.item = ready[1] /\ UNCHANGED <<prep, images>>
        BY <1>13, <2>2, QueueHead DEF PollPop
      <3> QED
        BY <3>1, <3>2, <3>3
    <2> QED
      BY <2>1, <2>2
  <1>14. CASE PollCommit
    BY <1>14 DEF PollCommit, queues, Woken
  <1>15. CASE PollNothing
    BY <1>15 DEF PollNothing, queues
  <1>16. CASE PollFinish
    BY <1>16 DEF PollFinish, queues, PublishPending, NoteFailure, NoteSuccess, RunGood
  <1>17. CASE Shutdown
    BY <1>17 DEF Shutdown, queues, Woken
  <1>18. CASE ShutdownJoin
    <2>1. prep.at \notin {"map", "store"} /\ emu.at = "shutdown"
      BY <1>18 DEF ShutdownJoin
    <2>2. images' = {}
      BY <1>18, <2>1 DEF ShutdownJoin, Discarded
    <2>3. {ready'[i] : i \in 1..Len(ready')} = {}
      BY <1>18, QueueNone DEF ShutdownJoin
    <2>4. prep'.at = "off" /\ emu'.at = "off"
      BY <1>18 DEF ShutdownJoin
    <2> QED
      BY <2>2, <2>3, <2>4
  <1>19. CASE RetryDelay
    BY <1>19 DEF RetryDelay, queues
  <1>20. CASE UNCHANGED vars
    BY <1>20 DEF vars
  <1> QED
    BY <1>1, <1>2, <1>3, <1>4, <1>5, <1>6, <1>7, <1>8, <1>9, <1>10, <1>11, <1>12, <1>13, <1>14, <1>15, <1>16, <1>17, <1>18, <1>19, <1>20 DEF Next

\* Every action keeps the shards in the order they were named.
LEMMA FlowStep ==
    ASSUME TypeOK, CountInv, LifeInv, OneHandoff, FlowInv, [Next]_vars
    PROVE  FlowInv'
  <1> USE SizesAssumption DEF TypeOK, CountInv, LifeInv, FlowInv, Flying, OneHandoff, Shards, Runs
  <1>1. CASE WatchShard
    <2> SUFFICES ASSUME ~run'.lost, ~stop' PROVE Flow'
      OBVIOUS
    <2>1. Flow /\ run.named + 1 \in Shards
      BY <1>1, RunCount DEF WatchShard
    <2>2. /\ Len(raw') = Len(raw) + 1 /\ Len(raw) \in Nat
          /\ \A i \in 1..Len(raw) : raw'[i] = raw[i]
          /\ raw'[Len(raw) + 1] = run.named + 1
      BY <1>1, <2>1, QueueEnd DEF WatchShard
    <2>3. UNCHANGED <<preparing, ready, commit, committed, emu>> /\ run'.named = run.named + 1
      BY <1>1 DEF WatchShard
    <2>4. prep'.item = prep.item /\ (prep'.at \in {"map", "store"} => prep'.at = prep.at)
      BY <1>1 DEF WatchShard, Woken
    <2>5. Flying \in Nat /\ Len(committed) \in Nat /\ Flying' = Flying
      <3>1. Len(ready) \in Nat /\ Len(committed) \in Nat
        BY QueueNone
      <3>3. Flying \in Nat
        BY FlyingNat
      <3>4. Flying' = Flying
        BY <2>3
      <3> QED
        BY <3>1, <3>3, <3>4
    <2> HIDE DEF TypeOK, CountInv, LifeInv, OneHandoff, FlowInv, Flying, Runs
    <2>6. ASSUME NEW i \in 1..Len(raw')
          PROVE  raw'[i] = Len(committed) + Flying + i
      <3>1. CASE i \in 1..Len(raw)
        BY <2>1, <2>2, <3>1 DEF Flow
      <3>2. CASE i = Len(raw) + 1
        <4>1. run.named = Len(committed) + Flying + Len(raw)
          BY <2>1 DEF Flow
        <4> QED
          BY <2>2, <2>5, <3>2, <4>1
      <3> QED
        BY <2>2, <3>1, <3>2
    <2>7. run'.named = Len(committed) + Flying + Len(raw')
      BY <2>1, <2>2, <2>3, <2>5 DEF Flow
    <2> QED
      BY <2>1, <2>3, <2>4, <2>5, <2>6, <2>7 DEF Flow
  <1>2. CASE WatchLost
    BY <1>2 DEF WatchLost, queues, Flow
  <1>3. CASE WatchResult
    BY <1>3 DEF WatchResult, queues, Flow
  <1>4. CASE WatchEnd
    BY <1>4 DEF WatchEnd, queues, Woken, Flow
  <1>5. CASE \E code \in {0, 1} : ChildExit(code)
    <2>1. UNCHANGED <<queues, prep, emu, run, committed>>
      BY <1>5 DEF ChildExit
    <2> QED
      BY <2>1 DEF Flow, queues
  <1>6. CASE PrepTop
    <2> SUFFICES ASSUME ~run'.lost, ~stop' PROVE Flow'
      OBVIOUS
    <2>1. Flow /\ UNCHANGED <<committed, ready, commit, emu, run>>
      BY <1>6 DEF PrepTop
    <2>2. CASE UNCHANGED <<raw, preparing>> /\ prep'.at \notin {"map", "store"}
      BY <2>1, <2>2 DEF Flow
    <2>3. CASE /\ prep.at = "top" /\ ready = <<>> /\ commit = 0 /\ raw # <<>> /\ raw' = Tail(raw)
               /\ preparing' = preparing + 1
               /\ prep' = [at |-> "map", item |-> Head(raw), tries |-> 0]
      <3>1. Flying = 0 /\ Flying' = 1 /\ Len(committed) \in Nat /\ Len(ready) = 0
        BY <2>1, <2>3, QueueNone
      <3>2. /\ Len(raw') = Len(raw) - 1 /\ Len(raw) \in Nat /\ Len(raw) >= 1
            /\ prep'.item = raw[1] /\ \A i \in 1..Len(raw') : raw'[i] = raw[i + 1]
        BY <2>3, QueueHead
      <3> HIDE DEF TypeOK, CountInv, LifeInv, OneHandoff, FlowInv, Flying, Runs
      <3>3. raw[1] = Len(committed) + 1
        BY <2>1, <3>1, <3>2 DEF Flow
      <3>4. ASSUME NEW i \in 1..Len(raw')
            PROVE  raw'[i] = Len(committed) + 1 + i
        <4>1. i + 1 \in 1..Len(raw) /\ raw'[i] = raw[i + 1]
          BY <3>2
        <4>2. raw[i + 1] = Len(committed) + Flying + (i + 1)
          BY <2>1, <4>1 DEF Flow
        <4> QED
          BY <3>1, <4>1, <4>2
      <3>5. run.named = Len(committed) + 1 + Len(raw')
        BY <2>1, <3>1, <3>2 DEF Flow
      <3> QED
        BY <2>1, <2>3, <3>1, <3>2, <3>3, <3>4, <3>5 DEF Flow
    <2> QED
      BY <1>6, <2>2, <2>3 DEF PrepTop, MustWait
  <1>7. CASE PrepMap
    BY <1>7 DEF PrepMap, queues, Flow
  <1>8. CASE PrepStore
    <2> SUFFICES ASSUME ~run'.lost, ~stop' PROVE Flow'
      OBVIOUS
    <2>1. Flow /\ UNCHANGED <<committed, raw, commit, emu>>
      BY <1>8 DEF PrepStore
    <2>2. /\ prep.at = "store" /\ prep'.at \notin {"map", "store"} /\ ready' = Append(ready, prep.item)
          /\ run' = run /\ preparing' = 0
      <3>1. run' # [run EXCEPT !.lost = TRUE]
        BY RunFlag
      <3>2. prep.at = "store" /\ preparing' = 0 /\ ~stop /\ prep.item \in images
        BY <1>8, <3>1 DEF PrepStore
      <3> QED
        BY <1>8, <3>2 DEF PrepStore
    <2>3. ready = <<>> /\ commit = 0 /\ prep.item \in Shards /\ Len(ready) = 0
      BY <2>2, QueueNone
    <2>4. Len(ready') = 1 /\ ready'[1] = Len(committed) + 1
      BY <2>1, <2>2, <2>3, QueueEnd DEF Flow
    <2>5. Flying' = 1 /\ Flying = 1
      BY <2>1, <2>2, <2>3, <2>4
    <2>6. \A i \in 1..Len(ready') : ready'[i] = Len(committed) + i
      BY <2>4
    <2> HIDE DEF Flying
    <2> QED
      BY <2>1, <2>2, <2>5, <2>6 DEF Flow
  <1>9. CASE PrepLeave
    BY <1>9 DEF PrepLeave, queues, Flow
  <1>10. CASE \E outcome \in Outcomes : Request(outcome)
    BY <1>10 DEF Request, queues, RequestOk, Discarded, Outcomes, NoteFailure, Flow
  <1>11. CASE Cancel
    BY <1>11 DEF Cancel, queues, Woken, Flow
  <1>12. CASE CancelJoin
    BY <1>12 DEF CancelJoin, queues, NoteFailure, Flow
  <1>13. CASE PollPop
    <2> SUFFICES ASSUME ~run'.lost, ~stop' PROVE Flow'
      OBVIOUS
    <2>1. Flow /\ UNCHANGED <<committed, raw, preparing, prep, run>>
      BY <1>13 DEF PollPop
    <2>2. CASE ready = <<>>
      <3>1. UNCHANGED <<ready, commit>> /\ emu'.at # "commit"
        BY <1>13, <2>2 DEF PollPop
      <3> QED
        BY <2>1, <3>1 DEF Flow
    <2>3. CASE ready # <<>>
      <3>1. /\ Len(ready') = Len(ready) - 1 /\ Len(ready) \in Nat /\ Len(ready) >= 1
            /\ emu'.item = ready[1] /\ commit' = commit + 1 /\ commit = 0
        BY <1>13, <2>3, QueueHead DEF PollPop
      <3>2. preparing = 0 /\ Len(ready) = 1
        <4>1. preparing \in {0, 1}
          OBVIOUS
        <4>2. preparing + Len(ready) + commit <= 1
          OBVIOUS
        <4> HIDE DEF TypeOK, CountInv, LifeInv, OneHandoff, FlowInv, Flying, Runs
        <4>3. preparing + Len(ready) <= 1
          BY <3>1, <4>1, <4>2
        <4> QED
          BY <3>1, <4>1, <4>3, OneOnly
      <3>3. ready[1] = Len(committed) + 1
        BY <2>1, <3>1, <3>2 DEF Flow
      <3>4. Flying = 1 /\ Flying' = 1 /\ Len(ready') = 0
        BY <2>1, <3>1, <3>2
      <3> HIDE DEF Flying
      <3> QED
        BY <2>1, <3>1, <3>2, <3>3, <3>4 DEF Flow
    <2> QED
      BY <2>2, <2>3
  <1>14. CASE PollCommit
    <2> SUFFICES ASSUME ~run'.lost, ~stop' PROVE Flow'
      OBVIOUS
    <2>1. UNCHANGED <<ready, raw, preparing>> /\ emu'.at = "check" /\ emu.at = "commit"
      BY <1>14 DEF PollCommit
    <2>2. prep'.item = prep.item /\ (prep'.at \in {"map", "store"} => prep'.at = prep.at)
      BY <1>14 DEF PollCommit, Woken
    <2>3. run' = run /\ committed' = Append(committed, emu.item) /\ Flow
      BY <1>14 DEF PollCommit
    <2>4. preparing = 0 /\ Len(ready) = 0 /\ commit = 1 /\ commit' = 0 /\ emu.item \in Shards
      BY <1>14, <2>1, QueueNone DEF PollCommit
    <2>5. /\ Len(committed') = Len(committed) + 1 /\ Len(committed) \in Nat /\ Len(raw) \in Nat
          /\ \A i \in 1..Len(committed) : committed'[i] = committed[i]
          /\ committed'[Len(committed) + 1] = emu.item
      BY <2>3, <2>4, QueueEnd, QueueNone
    <2>6. \A i \in 1..Len(committed') : committed'[i] = i
      BY <2>1, <2>3, <2>5 DEF Flow
    <2>7. Flying = 1 /\ Flying' = 0
      BY <2>1, <2>4
    <2> HIDE DEF TypeOK, CountInv, LifeInv, OneHandoff, FlowInv, Flying, Runs
    <2>8. run'.named = Len(committed') + Flying' + Len(raw')
      BY <2>1, <2>3, <2>5, <2>7 DEF Flow
    <2>9. \A i \in 1..Len(raw') : raw'[i] = Len(committed') + Flying' + i
      BY <2>1, <2>3, <2>5, <2>7 DEF Flow
    <2>10. prep'.at \notin {"map", "store"}
      BY <2>2, <2>4 DEF CountInv
    <2>11. Len(ready') = 0
      BY <2>1, <2>4
    <2> QED
      BY <2>1, <2>6, <2>8, <2>9, <2>10, <2>11 DEF Flow
  <1>15. CASE PollNothing
    BY <1>15 DEF PollNothing, queues, Flow
  <1>16. CASE PollFinish
    BY <1>16 DEF PollFinish, queues, PublishPending, NoteFailure, NoteSuccess, RunGood, Flow
  <1>17. CASE Shutdown
    BY <1>17 DEF Shutdown, queues, Woken, Flow
  <1>18. CASE ShutdownJoin
    BY <1>18 DEF ShutdownJoin, queues, Discarded, Flow
  <1>19. CASE RetryDelay
    BY <1>19 DEF RetryDelay, queues, Flow
  <1>20. CASE UNCHANGED vars
    BY <1>20 DEF vars, Flow
  <1> QED
    BY <1>1, <1>2, <1>3, <1>4, <1>5, <1>6, <1>7, <1>8, <1>9, <1>10, <1>11, <1>12, <1>13, <1>14, <1>15, <1>16, <1>17, <1>18, <1>19, <1>20 DEF Next

\* Every action keeps the verdict and what it stands for.
LEMMA VerdictStep ==
    ASSUME TypeOK, CountInv, LifeInv, FlowInv, VerdictInv, SuccessMeansAll, [Next]_vars
    PROVE  (VerdictInv /\ SuccessMeansAll)'
  <1> USE SizesAssumption DEF TypeOK, CountInv, LifeInv, FlowInv, Flow, Flying, VerdictInv, SuccessMeansAll, Shards, Runs
  <1>1. CASE WatchShard
    BY <1>1 DEF WatchShard, queues, Woken
  <1>2. CASE WatchLost
    BY <1>2 DEF WatchLost, queues
  <1>3. CASE WatchResult
    BY <1>3 DEF WatchResult, queues
  <1>4. CASE WatchEnd
    BY <1>4 DEF WatchEnd, queues, Woken
  <1>5. CASE \E code \in {0, 1} : ChildExit(code)
    BY <1>5 DEF ChildExit, queues
  <1>6. CASE PrepTop
    BY <1>6 DEF PrepTop, queues, MustWait
  <1>7. CASE PrepMap
    BY <1>7 DEF PrepMap, queues
  <1>8. CASE PrepStore
    BY <1>8 DEF PrepStore, queues
  <1>9. CASE PrepLeave
    BY <1>9 DEF PrepLeave, queues
  <1>10. CASE \E outcome \in Outcomes : Request(outcome)
    BY <1>10 DEF Request, queues, RequestOk, Discarded, Outcomes, NoteFailure
  <1>11. CASE Cancel
    BY <1>11 DEF Cancel, queues, Woken
  <1>12. CASE CancelJoin
    BY <1>12 DEF CancelJoin, queues, NoteFailure
  <1>13. CASE PollPop
    BY <1>13 DEF PollPop, queues
  <1>14. CASE PollCommit
    BY <1>14 DEF PollCommit, queues, Woken
  <1>15. CASE PollNothing
    BY <1>15 DEF PollNothing, queues
  <1>16. CASE PollFinish
    BY <1>16 DEF PollFinish, queues, PublishPending, NoteFailure, NoteSuccess, RunGood
  <1>17. CASE Shutdown
    BY <1>17 DEF Shutdown, queues, Woken
  <1>18. CASE ShutdownJoin
    BY <1>18 DEF ShutdownJoin, queues, Discarded
  <1>19. CASE RetryDelay
    BY <1>19 DEF RetryDelay, queues
  <1>20. CASE UNCHANGED vars
    BY <1>20 DEF vars
  <1> QED
    BY <1>1, <1>2, <1>3, <1>4, <1>5, <1>6, <1>7, <1>8, <1>9, <1>10, <1>11, <1>12, <1>13, <1>14, <1>15, <1>16, <1>17, <1>18, <1>19, <1>20 DEF Next

\* The first state satisfies the invariant.
LEMMA InitInv == Init => IInv
  <1> SUFFICES ASSUME Init PROVE IInv
    OBVIOUS
  <1> USE SizesAssumption, QueueNone, RunNew DEF Init
  <1>1. TypeOK
    <2>1. prep \in [at: {"off", "top", "asleep", "map", "store", "leave", "ended"},
                   item: 0..MaxShards, tries: 0..Attempts]
      OBVIOUS
    <2>2. emu \in [at: {"frame", "commit", "check", "cancel", "canceljoin",
                       "shutdown", "off"}, item: 0..MaxShards]
      OBVIOUS
    <2>3. run \in Runs /\ images \subseteq Shards
      OBVIOUS
    <2>4. raw \in Seq(Shards) /\ ready \in Seq(Shards) /\ committed \in Seq(Shards)
      OBVIOUS
    <2>5. child \in [at: {"none", "running", "gone"}, code: {0, 1}]
      OBVIOUS
    <2>6. preparing \in 0..1 /\ commit \in 0..1
      OBVIOUS
    <2>7. /\ inputDone \in BOOLEAN /\ stop \in BOOLEAN /\ gated \in BOOLEAN
          /\ state \in {"IDLE", "RUNNING", "DONE"} /\ verdict \in {"none", "ok", "fail"}
          /\ watcher \in {"off", "reading", "ended"}
      OBVIOUS
    <2> HIDE DEF Init
    <2> QED
      BY <2>1, <2>2, <2>3, <2>4, <2>5, <2>6, <2>7 DEF TypeOK
  <1>2. CountInv /\ OneHandoff /\ LifeInv /\ RestInv /\ VerdictInv /\ SuccessMeansAll
    BY DEF CountInv, OneHandoff, LifeInv, RestInv, VerdictInv, SuccessMeansAll
  <1>3. HandInv
    BY DEF HandInv
  <1>4. FlowInv
    BY DEF FlowInv, Flow, Flying
  <1> QED
    BY <1>1, <1>2, <1>3, <1>4 DEF IInv

\* The invariant holds in every reachable state of the three threads.
THEOREM Invariance == Spec => []IInv
  <1>1. Init => IInv
    BY InitInv
  <1>2. IInv /\ [Next]_vars => IInv'
    <2> SUFFICES ASSUME IInv, [Next]_vars PROVE IInv'
      OBVIOUS
    <2> USE DEF IInv
    <2>1. TypeOK'
      BY TypeStep
    <2>2. CountInv'
      BY CountStep
    <2>3. OneHandoff'
      BY HandoffStep
    <2>4. LifeInv' /\ RestInv'
      BY LifeStep, RestStep
    <2>5. HandInv'
      BY HandStep
    <2>6. FlowInv'
      BY FlowStep
    <2>7. VerdictInv' /\ SuccessMeansAll'
      BY VerdictStep
    <2> QED
      BY <2>1, <2>2, <2>3, <2>4, <2>5, <2>6, <2>7
  <1> QED
    BY <1>1, <1>2, PTL DEF Spec

\* However the watcher, the preparer and the emulation thread interleave, and
\* whatever fails, at most one image is mapped, waiting or being committed
\* (autocompile.c:384).
THEOREM Handoff == Spec => []OneHandoff
  <1>1. IInv => OneHandoff
    BY DEF IInv
  <1> QED
    BY <1>1, Invariance, PTL

\* Before a run starts and after a shutdown there is no worker, no queued path
\* and no mapped image of an earlier run (autocompile.c:1104, 1453-1462, 1517-1533).
THEOREM CleanBetweenRuns == Spec => []NothingLeft
  <1>1. IInv => NothingLeft
    <2> SUFFICES ASSUME IInv, state = "IDLE", emu.at \in {"frame", "check", "off"}
                 PROVE  /\ prep.at = "off" /\ watcher = "off" /\ child.at # "running"
                        /\ raw = <<>> /\ ready = <<>> /\ images = {}
      BY DEF NothingLeft
    <2>1. prep.at = "off" /\ watcher = "off" /\ child.at # "running"
      BY DEF IInv, LifeInv
    <2>2. raw = <<>> /\ ready = <<>>
      BY DEF IInv, RestInv
    <2>3. images = {ready[i] : i \in 1..Len(ready)}
      BY <2>1 DEF IInv, HandInv
    <2> QED
      BY <2>1, <2>2, <2>3, QueueNone
  <1> QED
    BY <1>1, Invariance, PTL

\* A run that reopened the retry gate committed exactly the shards its compiler
\* named, in the order it named them (autocompile.c:1485-1493).
THEOREM GoodRuns == Spec => []SuccessMeansAll
  <1>1. IInv => SuccessMeansAll
    BY DEF IInv
  <1> QED
    BY <1>1, Invariance, PTL

==============================================================================
