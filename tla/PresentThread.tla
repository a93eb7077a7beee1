---------------------------- MODULE PresentThread ----------------------------
(***************************************************************************)
(* The present thread core, runtime/src/present_thread.c.                  *)
(*                                                                         *)
(* The composer draws each frame into a numbered slot and queues it; the   *)
(* present thread shows the queued slots in order and hands each slot back *)
(* with a done token (a fence).  One mutex and one condition variable      *)
(* guard everything, so a step is a critical section: from the lock, or    *)
(* the return of cnd_wait, to the unlock or the next cnd_wait.  Only the   *)
(* present thread keeps the mutex from one step to the next (locked).      *)
(*                                                                         *)
(* Frames of a session are numbered from 1 by submission.  A ready fence   *)
(* and a done token carry the number of their frame; 0 is NULL.            *)
(***************************************************************************)
EXTENDS Integers, FiniteSets

CONSTANTS
    N,          \* P.cfg.slots
    MaxSlots,   \* PT_MAX_SLOTS
    MaxSubmits  \* bound on the submissions of a session

ASSUME SlotsAssumption == N \in Nat /\ MaxSlots \in Nat /\ 2 <= N /\ N <= MaxSlots
ASSUME SubmitsAssumption == MaxSubmits \in Nat

VARIABLES
    state, ready, done,    \* P.state, P.ready, P.done
    queue, qHead, qLen,    \* P.queue, P.q_head, P.q_len
    current,               \* P.current
    running, stop, initDone, initOk,
    locked,                \* the present thread is inside P.mtx
    asleep,                \* threads sleeping in cnd_wait
    cpc, ppc,              \* program counters: composer, present thread
    pslot, pready, ptok,   \* present_loop's slot, ready and done
    ctxOn,                 \* the present context is current
    image,                 \* the frame each slot's image belongs to
    submitted, shown,      \* frames submitted, last frame shown
    tokens                 \* done tokens neither collected nor disposed of

slotVars  == <<state, ready, done>>
queueVars == <<queue, qHead, qLen>>
initVars  == <<initDone, initOk>>
localVars == <<pslot, pready, ptok>>
vars == <<slotVars, queueVars, current, running, stop, initVars, locked, asleep, cpc, ppc,
          localVars, ctxOn, image, submitted, shown, tokens>>

Slot == 0 .. N - 1
Index == 0 .. MaxSlots - 1
SlotState == {"free", "composing", "queued", "presenting"}
ComposerPc == {"idle", "create", "init", "joinFail", "submit", "drain", "join"}
PresentPc == {"none", "ctx", "init", "loop", "present", "finish", "release", "done"}

Init ==
    /\ state = [s \in Slot |-> "free"]
    /\ ready = [s \in Slot |-> 0] /\ done = [s \in Slot |-> 0]
    /\ queue = [i \in Index |-> 0] /\ qHead = 0 /\ qLen = 0
    /\ current = 0
    /\ running = FALSE /\ stop = FALSE /\ initDone = FALSE /\ initOk = FALSE
    /\ locked = FALSE /\ asleep = {}
    /\ cpc = "idle" /\ ppc = "none"
    /\ pslot = 0 /\ pready = 0 /\ ptok = 0
    /\ ctxOn = FALSE
    /\ image = [s \in Slot |-> 0]
    /\ submitted = 0 /\ shown = 0 /\ tokens = {}

-----------------------------------------------------------------------------
(* pt_start and pt_stop *)

\* A composer step takes the mutex: it is awake and the present thread is outside.
Enter == "composer" \notin asleep /\ ~locked

\* pt_start up to the creation of the thread.
Start ==
    /\ cpc = "idle" /\ ~running /\ Enter
    /\ stop' = FALSE /\ initDone' = FALSE /\ initOk' = FALSE
    /\ qHead' = 0 /\ qLen' = 0
    /\ state' = [s \in Slot |-> IF s = 0 THEN "composing" ELSE "free"]
    /\ ready' = [s \in Slot |-> 0] /\ done' = [s \in Slot |-> 0]
    /\ current' = 0
    /\ image' = [s \in Slot |-> 0] /\ submitted' = 0 /\ shown' = 0
    /\ cpc' = "create" /\ ppc' = "none"
    /\ UNCHANGED <<queue, running, locked, asleep, localVars, ctxOn, tokens>>

Create ==
    /\ cpc = "create"
    /\ \/ cpc' = "init" /\ ppc' = "ctx"
       \/ cpc' = "idle" /\ UNCHANGED ppc
    /\ UNCHANGED <<slotVars, queueVars, current, running, stop, initVars, locked, asleep,
                   localVars, ctxOn, image, submitted, shown, tokens>>

\* pt_start waits until the thread has tried to take its context.
AwaitInit ==
    /\ cpc = "init" /\ Enter
    /\ \/ /\ ~initDone
          /\ asleep' = asleep \cup {"composer"}
          /\ UNCHANGED <<cpc, running>>
       \/ /\ initDone /\ initOk
          /\ running' = TRUE /\ cpc' = "idle"
          /\ UNCHANGED asleep
       \/ /\ initDone /\ ~initOk
          /\ cpc' = "joinFail"
          /\ UNCHANGED <<asleep, running>>
    /\ UNCHANGED <<slotVars, queueVars, current, stop, initVars, locked, ppc, localVars,
                   ctxOn, image, submitted, shown, tokens>>

\* pt_stop: raise stop and join.
Stop ==
    /\ cpc = "idle" /\ running /\ Enter
    /\ stop' = TRUE /\ asleep' = {}
    /\ cpc' = "join"
    /\ UNCHANGED <<slotVars, queueVars, current, running, initVars, locked, ppc, localVars,
                   ctxOn, image, submitted, shown, tokens>>

\* The join of pt_stop and of a failed pt_start.
Join ==
    /\ cpc \in {"join", "joinFail"} /\ ppc = "done"
    /\ running' = FALSE
    /\ cpc' = "idle"
    /\ UNCHANGED <<slotVars, queueVars, current, stop, initVars, locked, asleep, ppc,
                   localVars, ctxOn, image, submitted, shown, tokens>>

-----------------------------------------------------------------------------
(* The composer *)

\* The frame that will be number submitted + 1 is drawn into the current slot.
Compose ==
    /\ cpc = "idle" /\ running
    /\ submitted < MaxSubmits
    /\ image[current] # submitted + 1
    /\ image' = [image EXCEPT ![current] = submitted + 1]
    /\ UNCHANGED <<slotVars, queueVars, current, running, stop, initVars, locked, asleep,
                   cpc, ppc, localVars, ctxOn, submitted, shown, tokens>>

IsFree(st, s) == st[s] = "free"

\* Mutant: the search starts at slot 0.
NextSlotFromZero(st) == CHOOSE s \in Slot : IsFree(st, s) /\ \A r \in 0 .. s - 1 : ~IsFree(st, r)

\* pt_submit's choice: the first free slot after the current one.
Ahead(k) == (current + k) % N
NextSlot(st) ==
    Ahead(CHOOSE k \in 1 .. N :
              IsFree(st, Ahead(k)) /\ \A j \in 1 .. k - 1 : ~IsFree(st, Ahead(j)))

\* Mutant: the done token of the slot taken is not cleared.
TakeSlotKeepToken(st, awake) ==
    \/ /\ \E s \in Slot : IsFree(st, s)
       /\ state' = [st EXCEPT ![NextSlot(st)] = "composing"]
       /\ current' = NextSlot(st)
       /\ tokens' = tokens \ {done[NextSlot(st)]}
       /\ asleep' = awake
       /\ cpc' = "idle" /\ UNCHANGED done
    \/ /\ \A s \in Slot : ~IsFree(st, s)
       /\ state' = st
       /\ asleep' = awake \cup {"composer"}
       /\ cpc' = "submit"
       /\ UNCHANGED <<current, done, tokens>>

\* The loop of pt_submit over slot states st: take a slot and its token, which the
\* caller waits for or which is disposed of, or sleep until a slot is handed back.
TakeSlot(st, awake) ==
    \/ /\ \E s \in Slot : IsFree(st, s)
       /\ state' = [st EXCEPT ![NextSlot(st)] = "composing"]
       /\ current' = NextSlot(st)
       /\ done' = [done EXCEPT ![NextSlot(st)] = 0]
       /\ tokens' = tokens \ {done[NextSlot(st)]}
       /\ asleep' = awake
       /\ cpc' = "idle"
    \/ /\ \A s \in Slot : ~IsFree(st, s)
       /\ state' = st
       /\ asleep' = awake \cup {"composer"}
       /\ cpc' = "submit"
       /\ UNCHANGED <<current, done, tokens>>

\* Mutant: the new slot is queued without waking the present thread.
SubmitNoWake ==
    /\ cpc = "idle" /\ running /\ Enter
    /\ image[current] = submitted + 1
    /\ submitted' = submitted + 1
    /\ ready' = [ready EXCEPT ![current] = submitted + 1]
    /\ queue' = [queue EXCEPT ![(qHead + qLen) % MaxSlots] = current]
    /\ qLen' = qLen + 1
    /\ TakeSlot([state EXCEPT ![current] = "queued"], asleep)
    /\ UNCHANGED <<qHead, running, stop, initVars, locked, ppc, localVars, ctxOn, image,
                   shown>>

\* pt_submit: queue the current slot, wake the present thread, take the next slot.
Submit ==
    /\ cpc = "idle" /\ running /\ Enter
    /\ image[current] = submitted + 1
    /\ submitted' = submitted + 1
    /\ ready' = [ready EXCEPT ![current] = submitted + 1]
    /\ queue' = [queue EXCEPT ![(qHead + qLen) % MaxSlots] = current]
    /\ qLen' = qLen + 1
    /\ TakeSlot([state EXCEPT ![current] = "queued"], {})
    /\ UNCHANGED <<qHead, running, stop, initVars, locked, ppc, localVars, ctxOn, image,
                   shown>>

\* pt_submit after cnd_wait.
SubmitRetry ==
    /\ cpc = "submit" /\ Enter
    /\ TakeSlot(state, asleep)
    /\ UNCHANGED <<ready, queueVars, running, stop, initVars, locked, ppc, localVars, ctxOn,
                   image, submitted, shown>>

\* pt_drain, on entry and after cnd_wait.
Busy == qLen > 0 \/ \E s \in Slot : state[s] = "presenting"
Drain ==
    /\ cpc \in {"idle", "drain"} /\ running /\ Enter
    /\ \/ /\ Busy
          /\ asleep' = asleep \cup {"composer"}
          /\ cpc' = "drain"
       \/ /\ ~Busy
          /\ cpc' = "idle"
          /\ UNCHANGED asleep
    /\ UNCHANGED <<slotVars, queueVars, current, running, stop, initVars, locked, ppc,
                   localVars, ctxOn, image, submitted, shown, tokens>>

-----------------------------------------------------------------------------
(* The present thread *)

\* present_loop: take the present context, which may fail.
PresentCtx ==
    /\ ppc = "ctx"
    /\ ctxOn' \in BOOLEAN
    /\ ppc' = "init"
    /\ UNCHANGED <<slotVars, queueVars, current, running, stop, initVars, locked, asleep,
                   cpc, localVars, image, submitted, shown, tokens>>

PresentInit ==
    /\ ppc = "init"
    /\ initDone' = TRUE /\ initOk' = ctxOn
    /\ asleep' = {}
    /\ locked' = ctxOn
    /\ ppc' = IF ctxOn THEN "loop" ELSE "done"
    /\ UNCHANGED <<slotVars, queueVars, current, running, stop, cpc, localVars, ctxOn, image,
                   submitted, shown, tokens>>

\* The queue is empty: sleep.
PresentWait ==
    /\ ppc = "loop" /\ "present" \notin asleep
    /\ qLen = 0 /\ ~stop
    /\ asleep' = asleep \cup {"present"}
    /\ locked' = FALSE
    /\ UNCHANGED <<slotVars, queueVars, current, running, stop, initVars, cpc, ppc,
                   localVars, ctxOn, image, submitted, shown, tokens>>

\* Mutant: the newest queued slot is shown first.
PresentTakeNewest ==
    /\ ppc = "loop" /\ "present" \notin asleep
    /\ qLen > 0
    /\ LET s == queue[(qHead + qLen - 1) % MaxSlots]
       IN  /\ pslot' = s
           /\ state' = [state EXCEPT ![s] = "presenting"]
           /\ pready' = ready[s]
           /\ ready' = [ready EXCEPT ![s] = 0]
    /\ qLen' = qLen - 1
    /\ locked' = FALSE
    /\ ppc' = "present"
    /\ UNCHANGED <<done, queue, qHead, current, running, stop, initVars, asleep, cpc, ptok,
                   ctxOn, image, submitted, shown, tokens>>

\* Take the oldest queued slot.
PresentTake ==
    /\ ppc = "loop" /\ "present" \notin asleep
    /\ qLen > 0
    /\ pslot' = queue[qHead]
    /\ qHead' = (qHead + 1) % MaxSlots
    /\ qLen' = qLen - 1
    /\ state' = [state EXCEPT ![queue[qHead]] = "presenting"]
    /\ pready' = ready[queue[qHead]]
    /\ ready' = [ready EXCEPT ![queue[qHead]] = 0]
    /\ locked' = FALSE
    /\ ppc' = "present"
    /\ UNCHANGED <<done, queue, current, running, stop, initVars, asleep, cpc, ptok, ctxOn,
                   image, submitted, shown, tokens>>

\* Outside the mutex: the slot is shown; present() may return a done token.
PresentShow ==
    /\ ppc = "present"
    /\ shown' = pready
    /\ \E t \in {0, pready} : ptok' = t /\ tokens' = tokens \cup ({t} \ {0})
    /\ ppc' = "finish"
    /\ UNCHANGED <<slotVars, queueVars, current, running, stop, initVars, locked, asleep,
                   cpc, pslot, pready, ctxOn, image, submitted>>

\* Mutant: the slot is handed back in silence.
PresentFinishNoWake ==
    /\ ppc = "finish"
    /\ done' = [done EXCEPT ![pslot] = ptok]
    /\ state' = [state EXCEPT ![pslot] = "free"]
    /\ locked' = TRUE
    /\ ppc' = "loop"
    /\ UNCHANGED <<ready, queueVars, current, running, stop, initVars, asleep, cpc,
                   localVars, ctxOn, image, submitted, shown, tokens>>

\* The slot is handed back with its token; the mutex is kept for the next turn.
PresentFinish ==
    /\ ppc = "finish"
    /\ done' = [done EXCEPT ![pslot] = ptok]
    /\ state' = [state EXCEPT ![pslot] = "free"]
    /\ asleep' = {}
    /\ locked' = TRUE
    /\ ppc' = "loop"
    /\ UNCHANGED <<ready, queueVars, current, running, stop, initVars, cpc, localVars, ctxOn,
                   image, submitted, shown, tokens>>

\* Mutant: a stop ends the loop although slots are queued.
PresentLeaveEarly ==
    /\ ppc = "loop" /\ "present" \notin asleep
    /\ stop
    /\ done' = [s \in Slot |-> 0]
    /\ tokens' = tokens \ {done[s] : s \in Slot}
    /\ locked' = FALSE
    /\ ppc' = "release"
    /\ UNCHANGED <<state, ready, queueVars, current, running, stop, initVars, asleep, cpc,
                   localVars, ctxOn, image, submitted, shown>>

\* Stop with nothing queued: dispose of the tokens nobody will collect.
PresentLeave ==
    /\ ppc = "loop" /\ "present" \notin asleep
    /\ qLen = 0 /\ stop
    /\ done' = [s \in Slot |-> 0]
    /\ tokens' = tokens \ {done[s] : s \in Slot}
    /\ locked' = FALSE
    /\ ppc' = "release"
    /\ UNCHANGED <<state, ready, queueVars, current, running, stop, initVars, asleep, cpc,
                   localVars, ctxOn, image, submitted, shown>>

PresentRelease ==
    /\ ppc = "release"
    /\ ctxOn' = FALSE
    /\ ppc' = "done"
    /\ UNCHANGED <<slotVars, queueVars, current, running, stop, initVars, locked, asleep,
                   cpc, localVars, image, submitted, shown, tokens>>

\* cnd_wait returns without a broadcast.
Spurious ==
    /\ \E t \in asleep : asleep' = asleep \ {t}
    /\ UNCHANGED <<slotVars, queueVars, current, running, stop, initVars, locked, cpc, ppc,
                   localVars, ctxOn, image, submitted, shown, tokens>>

-----------------------------------------------------------------------------
ComposerCall == Start \/ Stop \/ Compose \/ Submit \/ Drain
ComposerStep == Create \/ AwaitInit \/ Join \/ SubmitRetry \/ (cpc = "drain" /\ Drain)
PresentStep ==
    \/ PresentCtx \/ PresentInit \/ PresentWait \/ PresentTake \/ PresentShow
    \/ PresentFinish \/ PresentLeave \/ PresentRelease

Next == ComposerCall \/ ComposerStep \/ PresentStep \/ Spurious

Spec == Init /\ [][Next]_vars

\* Both threads keep running while they can.
FairSpec == Spec /\ WF_vars(ComposerStep) /\ WF_vars(PresentStep)

-----------------------------------------------------------------------------
(* Properties *)

\* Type invariant of the slots, the queue and both threads.
TypeOK ==
    /\ state \in [Slot -> SlotState] /\ ready \in [Slot -> Nat] /\ done \in [Slot -> Nat]
    /\ queue \in [Index -> Slot] /\ qHead \in Index /\ qLen \in Nat
    /\ current \in Slot /\ pslot \in Slot /\ pready \in Nat /\ ptok \in Nat
    /\ running \in BOOLEAN /\ stop \in BOOLEAN /\ initDone \in BOOLEAN
    /\ initOk \in BOOLEAN /\ locked \in BOOLEAN /\ ctxOn \in BOOLEAN
    /\ asleep \in SUBSET {"composer", "present"}
    /\ cpc \in ComposerPc /\ ppc \in PresentPc
    /\ image \in [Slot -> Nat]
    /\ submitted \in Nat /\ shown \in Nat /\ tokens \in SUBSET Nat

\* The slot on screen holds the next frame in submission order, with the image its
\* composer submitted: no frame is skipped, repeated, reordered or drawn over.
ShownInOrder ==
    ppc = "present" => pready = shown + 1 /\ image[pslot] = pready

\* Slots rotate, so the slot pt_submit takes is always the one shown longest ago.
SlotsRotate == [][(running /\ running') => current' \in {current, (current + 1) % N}]_vars

\* Every done token is held by exactly the free slot it belongs to until the
\* composer takes that slot or the stop disposes of it.
TokensHeld ==
    /\ tokens = ({done[s] : s \in Slot} \cup (IF ppc = "finish" THEN {ptok} ELSE {})) \ {0}
    /\ \A s \in Slot : done[s] # 0 => state[s] = "free" /\ done[s] = image[s]

\* Outside pt_submit at most N - 1 submitted frames wait for the screen.
LatencyBounded ==
    submitted - shown <= (IF cpc = "submit" THEN N ELSE N - 1)

\* After pt_stop, or a failed pt_start, every submitted frame was shown, no token
\* is left and the present context is released.
StoppedClean ==
    (cpc = "idle" /\ ~running) => shown = submitted /\ tokens = {} /\ ~ctxOn

\* pt_start, pt_submit, pt_drain and pt_stop return.
CallReturns == (cpc # "idle") ~> (cpc = "idle")

\* A submitted frame reaches the screen even if the composer does nothing more.
FramesShown == \A n \in 1 .. MaxSubmits : (submitted >= n) ~> (shown >= n)

=============================================================================
