---------------------------- MODULE CommandQueue ----------------------------
(***************************************************************************)
(* What the render thread core promises its backend (render_thread.h): the *)
(* commands recorded by the emulation thread are replayed once each, in    *)
(* the order they were committed and only while the render thread owns the *)
(* graphics context; and the context changes hands only when nothing is    *)
(* left to replay.                                                         *)
(*                                                                         *)
(* A command is a number; numbers grow in commit order within a session    *)
(* (from rt_start to rt_stop).  Commands below floor are behind the replay *)
(* position and never come back.                                           *)
(***************************************************************************)
EXTENDS Naturals

VARIABLES pending, floor, owner

vars == <<pending, floor, owner>>

Init == pending = {} /\ floor = 0 /\ owner = "emu"

\* A command is committed.
Commit ==
    /\ owner # "emu"
    /\ \E c \in pending' \ pending :
          /\ pending' = pending \cup {c}
          /\ c >= floor
          /\ \A q \in pending : q < c
    /\ UNCHANGED <<floor, owner>>

\* The oldest command is replayed.
Replay ==
    /\ owner = "render"
    /\ \E c \in pending :
          /\ \A q \in pending : c <= q
          /\ pending' = pending \ {c}
          /\ c < floor'
    /\ \A q \in pending' : floor' <= q
    /\ UNCHANGED owner

\* The replay position moves without a command (filler at the end of the ring).
Skip ==
    /\ owner = "render"
    /\ floor' > floor
    /\ \A q \in pending : floor' <= q
    /\ UNCHANGED <<pending, owner>>

\* The context is given up with nothing left to replay ...
Give ==
    /\ owner \in {"render", "emu"} /\ owner' = "none"
    /\ pending = {}
    /\ UNCHANGED <<pending, floor>>

\* ... and taken: by the render thread at any time, by the emulation thread only
\* if nothing is pending.
Take ==
    /\ owner = "none"
    /\ owner' = "render" \/ (owner' = "emu" /\ pending = {})
    /\ UNCHANGED <<pending, floor>>

\* A new session: the emulation thread gives the context away and numbers restart.
Open ==
    /\ owner = "emu" /\ owner' = "none"
    /\ pending = {} /\ pending' = {} /\ floor' = 0

Next == Commit \/ Replay \/ Skip \/ Give \/ Take \/ Open

Spec == Init /\ [][Next]_vars

=============================================================================
