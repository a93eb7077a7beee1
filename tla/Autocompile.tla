----------------------------- MODULE Autocompile -----------------------------
(***************************************************************************)
(* Background compilation of overlays and the hand-off of the compiled     *)
(* images to the emulation thread (runtime/src/autocompile.c, the Windows  *)
(* half).  Three threads share the queues under s_out_lock: the watcher    *)
(* reads the compiler's output, the preparer maps the images it names, and *)
(* the emulation thread commits them, one per frame, and starts and ends   *)
(* runs.  A critical section is one step; s_publish_cv is modelled with    *)
(* its sleeper, so that a missing wake-up shows.                           *)
(***************************************************************************)
EXTENDS Integers, Sequences, FiniteSets

CONSTANTS
    MaxShards,      \* PSX_SHARD_PUBLISHED lines of one run (bound of the model)
    Attempts        \* AC_PREPARE_ATTEMPTS

ASSUME SizesAssumption ==
    /\ MaxShards \in Nat
    /\ Attempts \in Nat \ {0}

VARIABLES
    state,      \* s_state
    raw,        \* s_publish_raw: shards named by the compiler, not mapped yet
    ready,      \* s_publish_ready: shards mapped, not committed yet
    preparing,  \* s_publish_preparing
    commit,     \* s_publish_commit_active
    inputDone,  \* s_publish_input_done
    stop,       \* s_publish_stop
    child,      \* the compiler: "none", "running" or "gone", and its exit code
    watcher,    \* the thread: "off", "reading" or "ended"
    prep,       \* the thread: where it is, its shard, its failed attempts
    emu,        \* the emulation thread: where it is, the shard it commits
    run,        \* of this run: shards named, result line seen, anything lost
    gated,      \* s_retry_not_before_ms is in the future
    images,     \* mapped images neither committed nor discarded
    committed,  \* shards committed in this run, in order
    verdict     \* how the last run ended

vars == <<state, raw, ready, preparing, commit, inputDone, stop, child, watcher,
          prep, emu, run, gated, images, committed, verdict>>
queues == <<raw, ready, preparing, commit, inputDone, stop>>

Shards == 1..MaxShards
Runs == [named: 0..MaxShards, result: BOOLEAN, lost: BOOLEAN]

TypeOK ==
    /\ state \in {"IDLE", "RUNNING", "DONE"}
    /\ raw \in Seq(Shards) /\ ready \in Seq(Shards)
    /\ preparing \in 0..1 /\ commit \in 0..1
    /\ inputDone \in BOOLEAN /\ stop \in BOOLEAN
    /\ child \in [at: {"none", "running", "gone"}, code: {0, 1}]
    /\ watcher \in {"off", "reading", "ended"}
    /\ prep \in [at: {"off", "top", "asleep", "map", "store", "leave", "ended"},
                 item: 0..MaxShards, tries: 0..Attempts]
    /\ emu \in [at: {"frame", "commit", "check", "cancel", "canceljoin",
                     "shutdown", "off"}, item: 0..MaxShards]
    /\ run \in Runs
    /\ gated \in BOOLEAN
    /\ images \subseteq Shards
    /\ committed \in Seq(Shards)
    /\ verdict \in {"none", "ok", "fail"}

Init ==
    /\ state = "IDLE" /\ raw = <<>> /\ ready = <<>>
    /\ preparing = 0 /\ commit = 0 /\ inputDone = FALSE /\ stop = FALSE
    /\ child = [at |-> "none", code |-> 1]
    /\ watcher = "off"
    /\ prep = [at |-> "off", item |-> 0, tries |-> 0]
    /\ emu = [at |-> "frame", item |-> 0]
    /\ run = [named |-> 0, result |-> FALSE, lost |-> FALSE]
    /\ gated = FALSE /\ images = {} /\ committed = <<>> /\ verdict = "none"

\* WakeConditionVariable and WakeAllConditionVariable: only the preparer waits.
Woken == IF prep.at = "asleep" THEN [prep EXCEPT !.at = "top"] ELSE prep

\* autocompile_note_failure: the retry gate closes.
NoteFailure == verdict' = "fail" /\ gated' = TRUE
\* autocompile_note_success
NoteSuccess == verdict' = "ok" /\ gated' = FALSE

-----------------------------------------------------------------------------
(***************************************************************************)
(* The compiler and the watcher.                                           *)
(***************************************************************************)

\* A PSX_SHARD_PUBLISHED line: the watcher queues its path.
WatchShard ==
    /\ watcher = "reading" /\ child.at = "running"
    /\ run.named < MaxShards
    /\ run' = [run EXCEPT !.named = @ + 1]
    /\ raw' = Append(raw, run.named + 1)
    /\ prep' = Woken
    /\ UNCHANGED <<state, ready, preparing, commit, inputDone, stop, child, watcher,
                   emu, gated, images, committed, verdict>>

\* A shard line that cannot be kept: too long, no memory, or cut off.
WatchLost ==
    /\ watcher = "reading" /\ child.at = "running"
    /\ run.named < MaxShards
    /\ run' = [run EXCEPT !.named = @ + 1, !.lost = TRUE]
    /\ UNCHANGED <<state, queues, child, watcher, prep, emu, gated, images,
                   committed, verdict>>

\* PSX_SHARD_RESULT with no failed shard.
WatchResult ==
    /\ watcher = "reading" /\ child.at = "running" /\ ~run.result
    /\ run' = [run EXCEPT !.result = TRUE]
    /\ UNCHANGED <<state, queues, child, watcher, prep, emu, gated, images,
                   committed, verdict>>

\* The compiler ends on its own.
ChildExit(code) ==
    /\ child.at = "running"
    /\ child' = [at |-> "gone", code |-> code]
    /\ UNCHANGED <<state, queues, watcher, prep, emu, run, gated, images,
                   committed, verdict>>

\* End of the pipe and of the process: the exit code is kept, the preparer told.
WatchEnd ==
    /\ watcher = "reading" /\ child.at = "gone"
    /\ watcher' = "ended"
    /\ inputDone' = TRUE
    /\ prep' = Woken
    /\ UNCHANGED <<state, raw, ready, preparing, commit, stop, child, emu, run,
                   gated, images, committed, verdict>>

-----------------------------------------------------------------------------
(***************************************************************************)
(* The preparer.                                                           *)
(***************************************************************************)

\* Mutant: the next image is mapped while one waits to be committed.
MustWaitForShard == ~stop /\ raw = <<>> /\ ~inputDone
\* Why the preparer sleeps: nothing to map, or a hand-off is still open.
MustWait ==
    /\ ~stop
    /\ \/ raw = <<>> /\ ~inputDone
       \/ raw # <<>> /\ (ready # <<>> \/ commit # 0)

\* One turn of the loop at its head, under the lock.
PrepTop ==
    /\ prep.at = "top"
    /\ \/ /\ MustWait
          /\ prep' = [prep EXCEPT !.at = "asleep"]
          /\ UNCHANGED <<raw, preparing>>
       \/ /\ ~MustWait
          /\ stop \/ raw = <<>>
          /\ prep' = [prep EXCEPT !.at = "leave"]
          /\ UNCHANGED <<raw, preparing>>
       \/ /\ ~MustWait /\ ~stop /\ raw # <<>>
          /\ raw' = Tail(raw)
          /\ preparing' = preparing + 1
          /\ prep' = [at |-> "map", item |-> Head(raw), tries |-> 0]
    /\ UNCHANGED <<state, ready, commit, inputDone, stop, child, watcher, emu, run,
                   gated, images, committed, verdict>>

\* overlay_loader_prepare_published, outside the lock: an image, or a failure
\* that is tried again unless it was the last attempt or the run is stopping.
PrepMap ==
    /\ prep.at = "map"
    /\ \/ /\ images' = images \cup {prep.item}
          /\ prep' = [prep EXCEPT !.at = "store"]
       \/ /\ prep' = [prep EXCEPT !.tries = @ + 1,
                        !.at = IF prep.tries + 1 >= Attempts \/ stop THEN "store" ELSE "map"]
          /\ UNCHANGED images
    /\ UNCHANGED <<state, queues, child, watcher, emu, run, gated, committed, verdict>>

\* Back under the lock: a failure is counted, an image is queued, or discarded
\* when the run was stopped meanwhile.
PrepStore ==
    /\ prep.at = "store"
    /\ preparing' = preparing - 1
    /\ \/ /\ prep.item \notin images
          /\ run' = [run EXCEPT !.lost = TRUE]
          /\ prep' = [prep EXCEPT !.at = "top", !.item = 0]
          /\ UNCHANGED <<ready, images>>
       \/ /\ prep.item \in images /\ stop
          /\ images' = images \ {prep.item}
          /\ prep' = [prep EXCEPT !.at = "leave", !.item = 0]
          /\ UNCHANGED <<ready, run>>
       \/ /\ prep.item \in images /\ ~stop
          /\ ready' = Append(ready, prep.item)
          /\ prep' = [prep EXCEPT !.at = "top", !.item = 0]
          /\ UNCHANGED <<images, run>>
    /\ UNCHANGED <<state, raw, commit, inputDone, stop, child, watcher, emu, gated,
                   committed, verdict>>

\* The last statement of the thread.
PrepLeave ==
    /\ prep.at = "leave"
    /\ state' = IF stop THEN state ELSE "DONE"
    /\ prep' = [prep EXCEPT !.at = "ended"]
    /\ UNCHANGED <<queues, child, watcher, emu, run, gated, images, committed, verdict>>

-----------------------------------------------------------------------------
(***************************************************************************)
(* The emulation thread.                                                   *)
(***************************************************************************)

\* publish_discard_all when nothing is being prepared or committed.
Discarded == images \ {ready[i] : i \in 1..Len(ready)}

\* autocompile_request starts a run, or fails: at the pipe (not counted), at
\* the process or a thread.  The preparer is there before the watcher.
RequestOk == state = "IDLE" /\ ~gated /\ preparing = 0 /\ commit = 0
Request(outcome) ==
    /\ emu.at = "frame"
    /\ RequestOk
    /\ images' = Discarded
    /\ raw' = <<>> /\ ready' = <<>>
    /\ inputDone' = FALSE /\ stop' = FALSE
    /\ run' = [named |-> 0, result |-> FALSE, lost |-> FALSE]
    /\ committed' = <<>>
    /\ UNCHANGED <<preparing, commit>>
    /\ \/ /\ outcome = "failed"
          /\ NoteFailure
          /\ UNCHANGED <<state, child, watcher, prep, emu>>
       \/ /\ outcome = "nopipe"
          /\ UNCHANGED <<state, child, watcher, prep, emu, gated, verdict>>
       \/ /\ outcome \in {"started", "nowatcher"}
          /\ state' = "RUNNING"
          /\ verdict' = "none"
          /\ prep' = [at |-> "top", item |-> 0, tries |-> 0]
          /\ child' = [at |-> IF outcome = "started" THEN "running" ELSE "none", code |-> 1]
          /\ watcher' = IF outcome = "started" THEN "reading" ELSE watcher
          /\ emu' = IF outcome = "started" THEN emu ELSE [emu EXCEPT !.at = "cancel"]
          /\ UNCHANGED gated

\* No watcher: the child was killed, the preparer is stopped and joined.
Cancel ==
    /\ emu.at = "cancel"
    /\ stop' = TRUE
    /\ prep' = Woken
    /\ emu' = [emu EXCEPT !.at = "canceljoin"]
    /\ UNCHANGED <<state, raw, ready, preparing, commit, inputDone, child, watcher, run,
                   gated, images, committed, verdict>>
CancelJoin ==
    /\ emu.at = "canceljoin" /\ prep.at = "ended"
    /\ prep' = [prep EXCEPT !.at = "off"]
    /\ state' = "IDLE"
    /\ NoteFailure
    /\ emu' = [emu EXCEPT !.at = "frame"]
    /\ UNCHANGED <<queues, child, watcher, run, images, committed>>

\* autocompile_poll_main: at most one image is taken per frame.
PollPop ==
    /\ emu.at = "frame"
    /\ IF ready = <<>>
       THEN /\ emu' = [emu EXCEPT !.at = "check"]
            /\ UNCHANGED <<ready, commit>>
       ELSE /\ emu' = [at |-> "commit", item |-> Head(ready)]
            /\ ready' = Tail(ready)
            /\ commit' = commit + 1
    /\ UNCHANGED <<state, raw, preparing, inputDone, stop, child, watcher, prep, run,
                   gated, images, committed, verdict>>

\* Mutant: a commit that failed is not counted against the run.
PollCommitQuiet ==
    /\ emu.at = "commit"
    /\ images' = images \ {emu.item}
    /\ \/ committed' = Append(committed, emu.item)
       \/ UNCHANGED committed
    /\ commit' = commit - 1
    /\ prep' = Woken
    /\ emu' = [at |-> "check", item |-> 0]
    /\ UNCHANGED <<state, raw, ready, preparing, inputDone, stop, child, watcher, run,
                   gated, verdict>>
\* Mutant: the end of a commit wakes nobody.
PollCommitSilent ==
    /\ emu.at = "commit"
    /\ images' = images \ {emu.item}
    /\ \/ committed' = Append(committed, emu.item) /\ UNCHANGED run
       \/ run' = [run EXCEPT !.lost = TRUE] /\ UNCHANGED committed
    /\ commit' = commit - 1
    /\ emu' = [at |-> "check", item |-> 0]
    /\ UNCHANGED <<state, raw, ready, preparing, inputDone, stop, child, watcher, prep,
                   gated, verdict>>
\* overlay_loader_commit_published consumes the image on every path; a refusal
\* counts against the run.  publish_commit_finished wakes the preparer.
PollCommit ==
    /\ emu.at = "commit"
    /\ images' = images \ {emu.item}
    /\ \/ committed' = Append(committed, emu.item) /\ UNCHANGED run
       \/ run' = [run EXCEPT !.lost = TRUE] /\ UNCHANGED committed
    /\ commit' = commit - 1
    /\ prep' = Woken
    /\ emu' = [at |-> "check", item |-> 0]
    /\ UNCHANGED <<state, raw, ready, preparing, inputDone, stop, child, watcher, gated,
                   verdict>>

\* Mutant: only images being mapped or committed hold the end of a run up.
PublishPendingActive == preparing # 0 \/ commit # 0
\* publish_pending
PublishPending == raw # <<>> \/ ready # <<>> \/ preparing # 0 \/ commit # 0

\* Nothing to finish this frame.
PollNothing ==
    /\ emu.at = "check"
    /\ state # "DONE" \/ PublishPending
    /\ emu' = [emu EXCEPT !.at = "frame"]
    /\ UNCHANGED <<state, queues, child, watcher, prep, run, gated, images, committed,
                   verdict>>

\* Both workers are joined, the cache is scanned and the run is judged.
RunGood == child.code = 0 /\ run.result /\ ~run.lost
PollFinish ==
    /\ emu.at = "check"
    /\ state = "DONE" /\ ~PublishPending
    /\ prep.at = "ended" /\ watcher = "ended"
    /\ prep' = [prep EXCEPT !.at = "off"] /\ watcher' = "off"
    /\ child' = [child EXCEPT !.at = "none"]
    /\ state' = "IDLE"
    /\ IF RunGood THEN NoteSuccess ELSE NoteFailure
    /\ emu' = [emu EXCEPT !.at = "frame"]
    /\ UNCHANGED <<queues, run, images, committed>>

\* autocompile_shutdown: stop the pipeline, kill the compiler...
Shutdown ==
    /\ emu.at = "frame"
    /\ stop' = TRUE
    /\ prep' = Woken
    /\ child' = IF child.at = "running" THEN [at |-> "gone", code |-> 1] ELSE child
    /\ emu' = [emu EXCEPT !.at = "shutdown"]
    /\ UNCHANGED <<state, raw, ready, preparing, commit, inputDone, watcher, run, gated,
                   images, committed, verdict>>
\* ... join both workers and discard what is left.
ShutdownJoin ==
    /\ emu.at = "shutdown"
    /\ prep.at \in {"off", "ended"} /\ watcher \in {"off", "ended"}
    /\ prep' = [prep EXCEPT !.at = "off"] /\ watcher' = "off"
    /\ child' = [child EXCEPT !.at = "none"]
    /\ images' = Discarded
    /\ raw' = <<>> /\ ready' = <<>>
    /\ state' = "IDLE"
    /\ emu' = [emu EXCEPT !.at = "off"]
    /\ UNCHANGED <<preparing, commit, inputDone, stop, run, gated, committed, verdict>>

\* The retry delay passes.
RetryDelay ==
    /\ gated /\ gated' = FALSE
    /\ UNCHANGED <<state, queues, child, watcher, prep, emu, run, images, committed,
                   verdict>>

Watcher == WatchShard \/ WatchLost \/ WatchResult \/ WatchEnd
Preparer == PrepTop \/ PrepMap \/ PrepStore \/ PrepLeave
Poll == PollPop \/ PollCommit \/ PollNothing \/ PollFinish \/ Cancel \/ CancelJoin
          \/ ShutdownJoin
Outcomes == {"started", "failed", "nopipe", "nowatcher"}

Next ==
    \/ WatchShard \/ WatchLost \/ WatchResult \/ WatchEnd
    \/ \E code \in {0, 1} : ChildExit(code)
    \/ PrepTop \/ PrepMap \/ PrepStore \/ PrepLeave
    \/ \E outcome \in Outcomes : Request(outcome)
    \/ Cancel \/ CancelJoin
    \/ PollPop \/ PollCommit \/ PollNothing \/ PollFinish
    \/ Shutdown \/ ShutdownJoin
    \/ RetryDelay

Spec == Init /\ [][Next]_vars

\* The threads are scheduled, the emulation thread polls every frame, and the
\* compiler ends: nothing in the code limits how long it may take.
FairSpec ==
    /\ Spec
    /\ WF_vars(WatchEnd) /\ WF_vars(Preparer) /\ WF_vars(Poll)
    /\ WF_vars(\E code \in {0, 1} : ChildExit(code))

-----------------------------------------------------------------------------
(***************************************************************************)
(* Properties.                                                             *)
(***************************************************************************)

\* "There is exactly one mapped handoff at a time" (autocompile.c:384): of being
\* mapped, waiting and being committed, at most one image is anywhere.
OneHandoff == preparing + Len(ready) + commit <= 1

\* When a new run may start, and after a shutdown, nothing of an earlier run is
\* left: no worker, no queued path, no mapped image (autocompile.c:1104, 1453-1462,
\* 1517-1533).
NothingLeft ==
    state = "IDLE" /\ emu.at \in {"frame", "check", "off"} =>
        /\ prep.at = "off" /\ watcher = "off" /\ child.at # "running"
        /\ raw = <<>> /\ ready = <<>> /\ images = {}

\* A run that reset the retry gate committed every shard its compiler named,
\* once, in the order it named them (autocompile.c:1485-1493).
SuccessMeansAll ==
    verdict = "ok" => committed = [i \in 1..run.named |-> i]

\* A run ends, by its verdict, a cancelled request or a shutdown that joins both
\* workers, however the three threads interleave and whatever fails: no thread is
\* left waiting for a wake-up or a join (autocompile.c:387-490, 1496-1534).
RunEnds == (state # "IDLE") ~> (state = "IDLE")

=============================================================================
