--------------------------- MODULE RenderThreadInv ---------------------------
(***************************************************************************)
(* The inductive invariant of RenderThread, in named parts.                *)
(***************************************************************************)
EXTENDS RenderThread

\* The cell of position p holds the header of a record written for p.
HeaderAt(mem, p) == mem[p % Cap].at = p /\ mem[p % Cap].kind \in Headers

\* The payload of the n-unit "op" at p is in place.
PayloadAt(mem, p, n) ==
    \A i \in 1 .. n - 1 :
        mem[(p + i) % Cap].kind = "data" /\ mem[(p + i) % Cap].at = p + i

\* At p stands a whole record: it fits before the ring end, its payload behind it.
RecordAt(mem, p) ==
    /\ HeaderAt(mem, p)
    /\ mem[p % Cap].size > 0 /\ (p % Cap) + mem[p % Cap].size <= Cap
    /\ mem[p % Cap].kind = "op" => PayloadAt(mem, p, mem[p % Cap].size)

\* From lo to hi the ring is a chain of whole records, and no cell inside one, the
\* unwritten rest of a pad included, passes for a header.
Chain(mem, lo, hi) ==
    /\ lo < hi => HeaderAt(mem, lo)
    /\ \A p \in lo .. hi - 1 : HeaderAt(mem, p) =>
          /\ RecordAt(mem, p)
          /\ p + mem[p % Cap].size <= hi
          /\ p + mem[p % Cap].size < hi => HeaderAt(mem, p + mem[p % Cap].size)
          /\ \A q \in p + 1 .. p + mem[p % Cap].size - 1 : ~HeaderAt(mem, q)

\* emu_wait keeps its caller's predicate exactly while the call is under way.
WaitInv ==
    /\ wait.ret \in {"idle", "write", "marker", "acqReq", "acqCtx", "stopReq"}
    /\ wakeTo \in {"idle", "frames", "sleepLock"}
    /\ wait # NoWait =>
          \/ epc \in {"test", "sleepLock", "sleep"}
          \/ epc \in {"wake", "wakeLock"} /\ wakeTo = "sleepLock"

\* The unread part of the ring is a chain of whole records from rpos to wpos.
RingInv ==
    /\ rpos <= wpos /\ wpos - rpos <= Cap
    /\ Chain(ring, rpos, wpos)
    /\ rpc \in {"exec", "store"} => rpos < wpos

\* No header in memory claims a position that was never written.
FreshInv ==
    \A i \in Offsets : ring[i].kind \in Headers =>
        ring[i].at < (IF epc = "commit" THEN pend.at + pend.size ELSE wpos)

\* A record between rt_cmd_begin and rt_cmd_commit, and a marker about to be
\* committed, have their space; once written they are whole.
PendInv ==
    /\ (epc \in {"write", "commit"} \/ wait.ret = "write") =>
          /\ pend.at = wpos + pend.pad /\ pend.size > 0
          /\ (pend.at % Cap) + pend.size <= Cap
          /\ pend.pad > 0 => (wpos % Cap) + pend.pad = Cap
    /\ wait.ret = "write" => wait.pred = "space" /\ wait.arg = pend.at + pend.size
    /\ wait.ret = "marker" => wait.pred = "space" /\ wait.arg = wpos + 1
    /\ epc \in {"write", "commit"} => pend.at + pend.size - rpos <= Cap
    /\ epc = "marker" => wpos + 1 - rpos <= Cap
    /\ epc = "commit" =>
          /\ RecordAt(ring, pend.at)
          /\ At(pend.at).kind = "op" /\ At(pend.at).size = pend.size
          /\ pend.pad > 0 => /\ RecordAt(ring, wpos)
                             /\ At(wpos).kind = "pad" /\ At(wpos).size = pend.pad
                             /\ \A q \in wpos + 1 .. pend.at - 1 : ~HeaderAt(ring, q)

\* Who has the context, by program counter.
RenderHasCtx == {"loop", "poll", "exec", "store", "wakeEmu", "wakeEmuLock", "lock",
                 "sleep", "awake", "srvCtx0", "srvRelock"}
RenderLacksCtx == {"none", "start", "srvLock", "srvWait", "srvCtx1"}
CtxInv ==
    /\ rpc \in RenderHasCtx => "render" \in ctxOn
    /\ rpc \in RenderLacksCtx => "render" \notin ctxOn
    /\ "emu" \in ctxOn <=> (~running \/ (held /\ epc # "relReq"))

\* The life cycle: what runs, and what a stop has already settled.
LifeInv ==
    /\ ~running => rpc \in {"none", "done"} /\ ~held /\ epc = "idle" /\ wait = NoWait
    /\ epc = "spawn" => rpc = "none" /\ ~held /\ ~releaseReq
    /\ (running /\ epc # "spawn") => rpc # "none"
    /\ (running /\ stop) => epc = "join"
    /\ epc = "join" => stop /\ ~releaseReq
    /\ rpc \in {"exit", "done"} => stop

\* The hand-off: from the request to its withdrawal, and while nothing runs, the
\* ring is empty; and the emulation thread has the context only while the render
\* thread is parked.
HandInv ==
    /\ wait.ret = "acqCtx" <=> wait.pred = "released"
    /\ wait.ret \in {"acqReq", "stopReq"} => wait.pred = "drained"
    /\ wait.pred = "drained" /\ wait # NoWait => wait.arg = wpos
    /\ released <=> rpc = "srvWait"
    /\ releaseReq <=> \/ held /\ epc # "join"
                      \/ epc = "acqCtx"
                      \/ wait.pred = "released"
    /\ epc \in {"acqReq", "acqCtx", "stopReq", "join", "spawn"} \/ releaseReq \/ held
          \/ ~running => wpos = rpos
    /\ epc = "acqCtx" => rpc = "srvWait" /\ ~held
    /\ rpc \in {"srvCtx0", "srvLock"} => wait.pred = "released"
    /\ held => /\ epc \in {"idle", "relReq", "stopReq", "join"} /\ wait = NoWait
               /\ rpc = "srvWait" \/ (epc = "join" /\ rpc \in {"exit", "done"})
               /\ "render" \notin ctxOn
    /\ epc = "relReq" => held

\* What the frame counters count: the closed frames whose marker is in the ring or
\* about to be written, less the one the render thread has counted already.
Counted == rpc = "store" /\ At(rpos).kind = "frame"
CountInv ==
    produced + (IF Counted THEN 1 ELSE 0)
        = consumed + Cardinality(Markers) + (IF MarkerPending THEN 1 ELSE 0)

\* More than MaxFrames frames are in flight only inside rt_frame_end, which knows
\* its own bound.
InFrameEnd ==
    \/ MarkerPending
    \/ epc = "frames" \/ (epc \in {"wake", "wakeLock"} /\ wakeTo = "frames")
    \/ wait.pred = "frames"
BoundInv ==
    /\ wait.pred = "frames" => wait.arg = MaxFrames /\ wait.ret = "idle"
    /\ produced - consumed <= MaxFrames + (IF InFrameEnd THEN 1 ELSE 0)

\* The inductive invariant.
IInv ==
    /\ TypeOK /\ WaitInv /\ RingInv /\ FreshInv /\ PendInv /\ CtxInv /\ LifeInv /\ HandInv
    /\ CountInv /\ BoundInv

=============================================================================
