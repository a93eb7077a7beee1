--------------------------- MODULE PresentThreadInv ---------------------------
(***************************************************************************)
(* The inductive invariant of PresentThread, in named parts.               *)
(*                                                                         *)
(* Frame j + 1 of a session is always composed in slot j % N: everything   *)
(* else follows from that and from three counters, the frames handed back, *)
(* taken off the queue and submitted.                                      *)
(***************************************************************************)
EXTENDS PresentThread

Taken == IF ppc = "present" THEN shown + 1 ELSE shown
HandedBack == IF ppc = "finish" THEN shown - 1 ELSE shown
Composed == IF cpc = "submit" THEN submitted ELSE submitted + 1

\* The queue holds the frames from Taken to submitted, oldest first.
QueueInv ==
    /\ HandedBack \in Nat /\ Taken <= submitted
    /\ submitted - HandedBack <= N /\ (cpc # "submit" => submitted - HandedBack < N)
    /\ qLen = submitted - Taken /\ qHead = Taken % MaxSlots
    /\ \A j \in Taken .. submitted - 1 :
          /\ queue[j % MaxSlots] = j % N
          /\ state[j % N] = "queued" /\ ready[j % N] = j + 1 /\ image[j % N] = j + 1

\* The slot on screen, the slot being composed and the free slots between them.
SlotInv ==
    /\ ppc \in {"present", "finish"} =>
          /\ pslot = HandedBack % N /\ state[pslot] = "presenting"
          /\ pready = HandedBack + 1 /\ image[pslot] = pready
    /\ Composed > 0 /\ current = (Composed - 1) % N
    /\ (cpc \in {"create", "init", "drain", "join"} \/ (cpc = "idle" /\ running))
          => state[current] = "composing"
    /\ \A j \in Composed .. HandedBack + N - 1 : state[j % N] = "free"

\* A token is the number of the frame its slot showed last.
TokenInv ==
    /\ \A s \in Slot : image[s] # 0 => image[s] <= submitted + 1 /\ (image[s] - 1) % N = s
    /\ ppc = "finish" => ptok \in {0, pready}

\* What each thread may be doing while the other is where it is.
ThreadInv ==
    /\ running <=> (cpc \in {"submit", "drain", "join"} \/ (cpc = "idle" /\ running))
    /\ (cpc \in {"submit", "drain"} \/ (cpc = "idle" /\ running)) =>
          ppc \in {"loop", "present", "finish"} /\ ~stop
    /\ cpc = "join" => stop /\ ppc \in {"loop", "present", "finish", "release", "done"}
    /\ cpc \in {"create", "init", "joinFail"} => ~stop /\ submitted = 0
    /\ (cpc = "create" \/ (cpc = "idle" /\ ~running)) => ppc \in {"none", "done"}
    /\ cpc = "create" => ~initDone
    /\ cpc = "init" => /\ ~initDone => ppc \in {"ctx", "init"}
                       /\ initDone => ppc = (IF initOk THEN "loop" ELSE "done")
    /\ cpc = "joinFail" => ppc = "done"
    /\ ppc \in {"none", "ctx", "init", "release", "done"} =>
          /\ submitted = shown
          /\ \A s \in Slot : done[s] = 0
    /\ ppc \in {"none", "done"} => ~ctxOn

IInv == TypeOK /\ QueueInv /\ SlotInv /\ TokenInv /\ TokensHeld /\ ThreadInv

=============================================================================
