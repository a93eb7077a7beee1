-------------------------- MODULE RenderThreadProofs --------------------------
(***************************************************************************)
(* Theorems about RenderThread, for every ring size, frame bound, record   *)
(* size and wake batch.                                                    *)
(***************************************************************************)
EXTENDS RenderThreadInv, FiniteSetTheorems, TLAPS

-----------------------------------------------------------------------------
(* The ring arithmetic *)

\* Quotient and remainder of a position.
LEMMA DivMod ==
    ASSUME NEW p \in Nat
    PROVE  p \div Cap \in Nat /\ p % Cap \in 0 .. Cap - 1 /\ p = Cap * (p \div Cap) + (p % Cap)
  BY CapAssumption

\* A larger factor gives a product larger by at least Cap.
LEMMA MulStrict == ASSUME NEW x \in Nat, NEW y \in Nat, x < y PROVE Cap * x + Cap <= Cap * y
  BY CapAssumption

\* The remainder of a number written as quotient and remainder.
LEMMA ModUnique == ASSUME NEW k \in Nat, NEW r \in 0 .. Cap - 1 PROVE (Cap * k + r) % Cap = r
  BY CapAssumption

\* Two positions less than a ring apart have different offsets.
LEMMA OffsetsDiffer ==
    ASSUME NEW p \in Nat, NEW q \in Nat, p < q, q < p + Cap
    PROVE  p % Cap # q % Cap
  <1>. SUFFICES ASSUME p % Cap = q % Cap PROVE FALSE  OBVIOUS
  <1>. DEFINE a == p \div Cap
              b == q \div Cap
  <1>1. a \in Nat /\ b \in Nat /\ p = Cap * a + (p % Cap) /\ q = Cap * b + (q % Cap)
    BY DivMod
  <1>2. p % Cap \in Nat /\ q % Cap \in Nat  BY DivMod
  <1>. HIDE DEF a, b
  <1>3. Cap * a < Cap * b  BY <1>1, <1>2, CapAssumption
  <1>4. ~(b < a)  BY <1>1, <1>3, MulStrict, CapAssumption
  <1>5. a < b  BY <1>1, <1>3, <1>4
  <1>6. Cap * a + Cap <= Cap * b  BY <1>1, <1>5, MulStrict
  <1>7. QED BY <1>1, <1>2, <1>6, CapAssumption

\* Inside the ring the offset moves with the position.
LEMMA OffsetPlus ==
    ASSUME NEW p \in Nat, NEW d \in Nat, (p % Cap) + d < Cap
    PROVE  (p + d) % Cap = (p % Cap) + d
  <1>1. p \div Cap \in Nat /\ p % Cap \in Nat /\ p = Cap * (p \div Cap) + (p % Cap)
    BY DivMod
  <1>2. p + d = Cap * (p \div Cap) + ((p % Cap) + d)  BY <1>1, CapAssumption
  <1>3. (p % Cap) + d \in 0 .. Cap - 1  BY <1>1, CapAssumption
  <1>4. QED BY <1>1, <1>2, <1>3, ModUnique

\* A pad ends where the ring does: the next offset is 0.
LEMMA OffsetWrap ==
    ASSUME NEW p \in Nat, NEW d \in Nat, (p % Cap) + d = Cap
    PROVE  (p + d) % Cap = 0
  <1>1. p \div Cap \in Nat /\ p % Cap \in Nat /\ p = Cap * (p \div Cap) + (p % Cap)
    BY DivMod
  <1>2. p + d = Cap * ((p \div Cap) + 1) + 0  BY <1>1, CapAssumption
  <1>3. QED BY <1>1, <1>2, ModUnique, CapAssumption

\* The offset of a position lies in the ring.
LEMMA OffsetType == ASSUME NEW p \in Nat PROVE p % Cap \in Offsets
  BY DivMod DEF Offsets

\* Writing a record leaves a ring of cells.
LEMMA WrittenType ==
    ASSUME NEW mem \in [Offsets -> Cell], NEW p \in Nat, NEW n \in Nat,
           NEW k \in Headers
    PROVE  Written(mem, p, n, k) \in [Offsets -> Cell]
  <1>1. p % Cap \in Offsets  BY OffsetType
  <1>. DEFINE off == p % Cap
              top == IF k = "pad" THEN off ELSE off + n - 1
              cell(i) == [at   |-> p + (i - off),
                          size |-> IF i = off THEN n ELSE 0,
                          kind |-> IF i = off THEN k ELSE "data"]
  <1>2. ASSUME NEW i \in Offsets, i \in off .. top PROVE cell(i) \in Cell
    BY <1>1, <1>2, CapAssumption DEF Cell, Offsets, Headers
  <1>3. QED BY <1>1, <1>2 DEF Written

\* What a write leaves at each position it covers.
LEMMA WrittenCell ==
    ASSUME NEW mem \in [Offsets -> Cell], NEW p \in Nat, NEW n \in Nat, NEW k \in Headers,
           (p % Cap) + n <= Cap, NEW d \in 0 .. n - 1, k # "pad"
    PROVE  /\ Written(mem, p, n, k)[(p + d) % Cap].at = p + d
           /\ Written(mem, p, n, k)[(p + d) % Cap].size = IF d = 0 THEN n ELSE 0
           /\ Written(mem, p, n, k)[(p + d) % Cap].kind = IF d = 0 THEN k ELSE "data"
  <1>1. p % Cap \in 0 .. Cap - 1  BY DivMod
  <1>2. (p + d) % Cap = (p % Cap) + d
    <2>1. d \in Nat /\ (p % Cap) + d < Cap  BY <1>1, CapAssumption
    <2>2. QED BY <2>1, OffsetPlus
  <1>3. (p % Cap) + d \in Offsets  BY <1>1, CapAssumption DEF Offsets
  <1>. DEFINE off == p % Cap
              top == IF k = "pad" THEN off ELSE off + n - 1
  <1>4. off + d \in off .. top  BY <1>1
  <1>5. p + ((off + d) - off) = p + d /\ ((off + d = off) <=> (d = 0))  BY <1>1
  <1>6. QED BY <1>2, <1>3, <1>4, <1>5 DEF Written

\* A write that ends less than a ring after q leaves the cell of q alone.
LEMMA WrittenFrame ==
    ASSUME NEW mem \in [Offsets -> Cell], NEW p \in Nat, NEW n \in Nat \ {0}, NEW k \in Headers,
           (p % Cap) + n <= Cap, NEW q \in Nat, q < p, p + n - q <= Cap
    PROVE  Written(mem, p, n, k)[q % Cap] = mem[q % Cap]
  <1>. DEFINE off == p % Cap
              top == IF k = "pad" THEN off ELSE off + n - 1
  <1>1. off \in 0 .. Cap - 1 /\ q % Cap \in 0 .. Cap - 1  BY DivMod
  <1>2. ASSUME q % Cap \in off .. top PROVE FALSE
    <2>. DEFINE d == (q % Cap) - off
    <2>1. d \in Nat /\ d < n /\ off + d < Cap  BY <1>1, <1>2, CapAssumption
    <2>2. (p + d) % Cap = off + d  BY <2>1, OffsetPlus
    <2>3. (p + d) % Cap = q % Cap  BY <2>2, <1>1
    <2>. HIDE DEF d
    <2>4. p + d \in Nat /\ q < p + d /\ p + d < q + Cap  BY <2>1, CapAssumption
    <2>5. QED BY <2>3, <2>4, OffsetsDiffer
  <1>3. q % Cap \in Offsets  BY OffsetType
  <1>4. QED BY <1>2, <1>3 DEF Written

-----------------------------------------------------------------------------
(* Type correctness *)

\* Unwritten memory is a cell.
LEMMA JunkType == JunkCell \in Cell  BY DEF JunkCell, Cell

\* Nothing runs and the ring is unwritten: every variable is in its type.
LEMMA TypeInit == Init => TypeOK
  <1>. SUFFICES ASSUME Init PROVE TypeOK  OBVIOUS
  <1>2. DataType  BY JunkType DEF Init, DataType, NoPend
  <1>3. FlagType  BY DEF Init, FlagType
  <1>4. ControlType
    BY DEF Init, ControlType, Threads, EmuPc, RenderPc, WaitPreds, NoWait
  <1>5. QED BY <1>2, <1>3, <1>4 DEF TypeOK

\* Every step preserves the type invariant.
LEMMA TypeStep == TypeOK /\ [Next]_vars => TypeOK'
  <1>. SUFFICES ASSUME TypeOK, [Next]_vars PROVE TypeOK'  OBVIOUS
  <1>. USE DEF TypeOK, Threads, EmuPc, RenderPc, WaitPreds, vars, shared, dataVars,
           ringVars, frameVars, sleepVars, flagVars, lockVars, handVars, batchVars,
           emuVars, renderVars
  <1>1. CASE UNCHANGED vars
    BY <1>1 DEF DataType, FlagType, ControlType
  <1>2. ASSUME NEW n \in Sizes, CmdBegin(n) PROVE TypeOK'
    BY <1>2, SizesAssumption, CapAssumption DEF CmdBegin, EnterWait, PadFor, DataType, FlagType, ControlType
  <1>3. ASSUME NEW ret \in {"idle", "acqReq", "stopReq"}, Drain(ret) PROVE TypeOK'
    BY <1>3 DEF Drain, EnterWait, DataType, FlagType, ControlType
  <1>4. CASE EmuTest
    BY <1>4 DEF EmuTest, ForceWake, NoWait, DataType, FlagType, ControlType
  <1>5. CASE EmuWake
    BY <1>5 DEF EmuWake, DataType, FlagType, ControlType
  <1>6. CASE EmuWakeLock
    <2>1. DataType'  BY <1>6 DEF EmuWakeLock, DataType
    <2>2. FlagType'  BY <1>6 DEF EmuWakeLock, FlagType
    <2>3. ControlType'  BY <1>6 DEF EmuWakeLock, DataType, ControlType
    <2>4. QED BY <2>1, <2>2, <2>3
  <1>7. CASE EmuSleepLock
    BY <1>7 DEF EmuSleepLock, DataType, FlagType, ControlType
  <1>8. CASE EmuSleep
    <2>1. DataType'  BY <1>8 DEF EmuSleep, NoWait, DataType
    <2>2. FlagType'  BY <1>8 DEF EmuSleep, NoWait, FlagType
    <2>3. ControlType'  BY <1>8 DEF EmuSleep, NoWait, DataType, ControlType
    <2>4. QED BY <2>1, <2>2, <2>3
  <1>9. CASE EmuRelock
    BY <1>9 DEF EmuRelock, DataType, FlagType, ControlType
  <1>10. CASE CmdWrite
    <2>1. DataType'
      <3>. DEFINE padded == IF pend.pad > 0
                            THEN Written(ring, pend.at - pend.pad, pend.pad, "pad")
                            ELSE ring
      <3>1. pend.at \in Nat /\ pend.pad \in Nat /\ pend.size \in Nat
            /\ pend.at - pend.pad \in Nat
        BY DEF DataType
      <3>2. padded \in [Offsets -> Cell]
        BY <3>1, WrittenType DEF DataType, Headers
      <3>3. Written(padded, pend.at, pend.size, "op") \in [Offsets -> Cell]
        BY <3>1, <3>2, WrittenType DEF Headers
      <3>4. QED BY <3>3, <1>10 DEF CmdWrite, DataType
    <2>2. FlagType'  BY <1>10 DEF CmdWrite, FlagType
    <2>3. ControlType'  BY <1>10 DEF CmdWrite, DataType, ControlType
    <2>4. QED BY <2>1, <2>2, <2>3
  <1>11. CASE CmdCommit
    BY <1>11 DEF CmdCommit, ForceWake, NoPend, DataType, FlagType, ControlType
  <1>12. CASE Marker
    <2>1. DataType'
      <3>1. Written(ring, wpos, 1, "frame") \in [Offsets -> Cell]
        BY WrittenType DEF DataType, Headers
      <3>2. QED BY <3>1, <1>12 DEF Marker, ForceWake, DataType
    <2>2. FlagType'  BY <1>12 DEF Marker, ForceWake, FlagType
    <2>3. ControlType'  BY <1>12 DEF Marker, ForceWake, DataType, ControlType
    <2>4. QED BY <2>1, <2>2, <2>3
  <1>13. CASE FrameBound
    <2>1. DataType'  BY MaxFramesAssumption, <1>13 DEF FrameBound, EnterWait, DataType
    <2>2. FlagType'  BY <1>13 DEF FrameBound, EnterWait, FlagType
    <2>3. ControlType'  BY MaxFramesAssumption, <1>13 DEF FrameBound, EnterWait, DataType, ControlType
    <2>4. QED BY <2>1, <2>2, <2>3
  <1>14. CASE AcquireRequest
    <2>1. DataType'  BY <1>14 DEF AcquireRequest, EnterWait, DataType
    <2>2. FlagType'  BY <1>14 DEF AcquireRequest, EnterWait, FlagType
    <2>3. ControlType'  BY <1>14 DEF AcquireRequest, EnterWait, DataType, ControlType
    <2>4. QED BY <2>1, <2>2, <2>3
  <1>15. CASE AcquireCtx
    BY <1>15 DEF AcquireCtx, DataType, FlagType, ControlType
  <1>16. CASE ReleaseRequest
    <2>1. DataType'  BY <1>16 DEF ReleaseRequest, DataType
    <2>2. FlagType'  BY <1>16 DEF ReleaseRequest, FlagType
    <2>3. ControlType'  BY <1>16 DEF ReleaseRequest, DataType, ControlType
    <2>4. QED BY <2>1, <2>2, <2>3
  <1>17. CASE StopRequest
    <2>1. DataType'  BY <1>17 DEF StopRequest, DataType
    <2>2. FlagType'  BY <1>17 DEF StopRequest, FlagType
    <2>3. ControlType'  BY <1>17 DEF StopRequest, DataType, ControlType
    <2>4. QED BY <2>1, <2>2, <2>3
  <1>18. CASE StopJoin
    <2>1. DataType'  BY <1>18 DEF StopJoin, DataType
    <2>2. FlagType'  BY <1>18 DEF StopJoin, FlagType
    <2>3. ControlType'  BY <1>18 DEF StopJoin, DataType, ControlType
    <2>4. QED BY <2>1, <2>2, <2>3
  <1>19. CASE Spawn
    BY <1>19 DEF Spawn, DataType, FlagType, ControlType
  <1>20. CASE SpawnFail
    <2>1. DataType'  BY <1>20 DEF SpawnFail, DataType
    <2>2. FlagType'  BY <1>20 DEF SpawnFail, FlagType
    <2>3. ControlType'  BY <1>20 DEF SpawnFail, DataType, ControlType
    <2>4. QED BY <2>1, <2>2, <2>3
  <1>21. CASE FrameEndHeld
    BY <1>21 DEF FrameEndHeld, DataType, FlagType, ControlType
  <1>22. CASE FrameEnd
    BY <1>22 DEF FrameEnd, EnterWait, DataType, FlagType, ControlType
  <1>23. CASE Release
    BY <1>23 DEF Release, DataType, FlagType, ControlType
  <1>24. CASE StopHeld
    BY <1>24 DEF StopHeld, DataType, FlagType, ControlType
  <1>25. CASE Start
    <2>1. DataType'  BY JunkType, <1>25 DEF Start, NoPend, NoWait, DataType
    <2>2. FlagType'  BY <1>25 DEF Start, NoPend, NoWait, FlagType
    <2>3. ControlType'  BY <1>25 DEF Start, NoPend, NoWait, DataType, ControlType
    <2>4. QED BY <2>1, <2>2, <2>3
  <1>26. CASE CallStopped
    BY <1>26 DEF CallStopped, DataType, FlagType, ControlType
  <1>27. CASE RenderStart
    BY <1>27 DEF RenderStart, DataType, FlagType, ControlType
  <1>28. CASE RunTick
    <2>1. DataType'  BY <1>28 DEF RunTick, DataType
    <2>2. FlagType'  BY <1>28 DEF RunTick, FlagType
    <2>3. ControlType'  BY <1>28 DEF RunTick, DataType, ControlType
    <2>4. QED BY <2>1, <2>2, <2>3
  <1>29. CASE RenderPoll
    BY <1>29 DEF RenderPoll, DataType, FlagType, ControlType
  <1>30. CASE RenderExec
    <2>1. DataType'  BY OffsetType, <1>30 DEF RenderExec, DataType
    <2>2. FlagType'  BY <1>30 DEF RenderExec, FlagType
    <2>3. ControlType'  BY <1>30 DEF RenderExec, DataType, ControlType
    <2>4. QED BY <2>1, <2>2, <2>3
  <1>31. CASE RenderStore
    <2>1. DataType'
      <3>1. At(rpos) \in Cell  BY OffsetType DEF At, DataType
      <3>2. QED BY <3>1, <1>31 DEF RenderStore, DataType, Cell
    <2>2. FlagType'  BY <1>31 DEF RenderStore, FlagType
    <2>3. ControlType'  BY <1>31 DEF RenderStore, DataType, ControlType
    <2>4. QED BY <2>1, <2>2, <2>3
  <1>32. CASE RenderWakeEmu
    BY <1>32 DEF RenderWakeEmu, DataType, FlagType, ControlType
  <1>33. CASE RenderWakeEmuLock
    <2>1. DataType'  BY <1>33 DEF RenderWakeEmuLock, DataType
    <2>2. FlagType'  BY <1>33 DEF RenderWakeEmuLock, FlagType
    <2>3. ControlType'  BY <1>33 DEF RenderWakeEmuLock, DataType, ControlType
    <2>4. QED BY <2>1, <2>2, <2>3
  <1>34. CASE RenderLock
    BY <1>34 DEF RenderLock, DataType, FlagType, ControlType
  <1>35. CASE RenderSleep
    <2>1. DataType'  BY <1>35 DEF RenderSleep, DataType
    <2>2. FlagType'  BY <1>35 DEF RenderSleep, FlagType
    <2>3. ControlType'  BY <1>35 DEF RenderSleep, DataType, ControlType
    <2>4. QED BY <2>1, <2>2, <2>3
  <1>36. CASE RenderRelock
    BY <1>36 DEF RenderRelock, DataType, FlagType, ControlType
  <1>37. CASE RenderAwake
    <2>1. DataType'  BY <1>37 DEF RenderAwake, DataType
    <2>2. FlagType'  BY <1>37 DEF RenderAwake, FlagType
    <2>3. ControlType'  BY <1>37 DEF RenderAwake, DataType, ControlType
    <2>4. QED BY <2>1, <2>2, <2>3
  <1>38. CASE ServeCtx0
    BY <1>38 DEF ServeCtx0, DataType, FlagType, ControlType
  <1>39. CASE ServeReleased
    <2>1. DataType'  BY <1>39 DEF ServeReleased, DataType
    <2>2. FlagType'  BY <1>39 DEF ServeReleased, FlagType
    <2>3. ControlType'  BY <1>39 DEF ServeReleased, DataType, ControlType
    <2>4. QED BY <2>1, <2>2, <2>3
  <1>40. CASE ServeWait
    <2>1. DataType'  BY <1>40 DEF ServeWait, DataType
    <2>2. FlagType'  BY <1>40 DEF ServeWait, FlagType
    <2>3. ControlType'  BY <1>40 DEF ServeWait, DataType, ControlType
    <2>4. QED BY <2>1, <2>2, <2>3
  <1>41. CASE ServeCtx1
    BY <1>41 DEF ServeCtx1, DataType, FlagType, ControlType
  <1>42. CASE ServeReturn
    BY <1>42 DEF ServeReturn, DataType, FlagType, ControlType
  <1>43. CASE RenderExit
    BY <1>43 DEF RenderExit, DataType, FlagType, ControlType
  <1>44. CASE Spurious
    <2>1. DataType'  BY <1>44 DEF Spurious, DataType
    <2>2. FlagType'  BY <1>44 DEF Spurious, FlagType
    <2>3. ControlType'  BY <1>44 DEF Spurious, DataType, ControlType
    <2>4. QED BY <2>1, <2>2, <2>3
  <1>45. QED
    BY <1>1, <1>2, <1>3, <1>4, <1>5, <1>6, <1>7, <1>8, <1>9, <1>10, <1>11, <1>12, <1>13, <1>14, <1>15, <1>16, <1>17, <1>18, <1>19, <1>20, <1>21, <1>22, <1>23, <1>24, <1>25, <1>26, <1>27, <1>28, <1>29, <1>30, <1>31, <1>32, <1>33, <1>34, <1>35, <1>36, <1>37, <1>38, <1>39, <1>40, <1>41, <1>42, <1>43, <1>44 DEF Next, EmuCall, EmuStep, RenderStep

\* THEOREM: the variables keep their types.
THEOREM TypeCorrect == Spec => []TypeOK
  <1>1. Init => TypeOK  BY TypeInit
  <1>2. TypeOK /\ [Next]_vars => TypeOK'  BY TypeStep
  <1>3. QED BY <1>1, <1>2, PTL DEF Spec

-----------------------------------------------------------------------------
(* The ring *)

\* The control of emu_wait.
LEMMA WaitStep == TypeOK /\ WaitInv /\ [Next]_vars => WaitInv'
  <1>. SUFFICES ASSUME TypeOK, WaitInv, [Next]_vars PROVE WaitInv'  OBVIOUS
  <1>. USE DEF WaitInv, NoWait, TypeOK, ControlType
  <1>1. CASE UNCHANGED <<epc, wait, wakeTo>>  BY <1>1
  <1>2. ASSUME NEW n \in Sizes, CmdBegin(n) PROVE WaitInv'
    BY <1>2 DEF CmdBegin, EnterWait, batchVars
  <1>3. ASSUME NEW ret \in {"idle", "acqReq", "stopReq"}, Drain(ret) PROVE WaitInv'
    BY <1>3 DEF Drain, EnterWait, batchVars
  <1>4. CASE FrameEnd \/ FrameEndHeld \/ Release \/ StopHeld \/ Start \/ CallStopped
    BY <1>4 DEF FrameEnd, FrameEndHeld, Release, StopHeld, Start, CallStopped, EnterWait,
       batchVars, emuVars, vars
  <1>5. CASE EmuTest  BY <1>5 DEF EmuTest, ForceWake, batchVars
  <1>6. CASE EmuSleep BY <1>6 DEF EmuSleep, batchVars
  <1>7. CASE EmuWake \/ EmuWakeLock \/ EmuSleepLock \/ EmuRelock
    BY <1>7 DEF EmuWake, EmuWakeLock, EmuSleepLock, EmuRelock, batchVars, emuVars
  <1>8. CASE CmdWrite \/ CmdCommit \/ Marker
    BY <1>8 DEF CmdWrite, CmdCommit, Marker, ForceWake, batchVars
  <1>9. CASE FrameBound \/ AcquireRequest
    BY <1>9 DEF FrameBound, AcquireRequest, EnterWait, batchVars
  <1>10. CASE AcquireCtx \/ ReleaseRequest \/ StopRequest \/ StopJoin \/ Spawn \/ SpawnFail
    BY <1>10 DEF AcquireCtx, ReleaseRequest, StopRequest, StopJoin, Spawn, SpawnFail, batchVars
  <1>11. RenderStep \/ Spurious => UNCHANGED <<epc, wait, wakeTo>>
    BY DEF RenderStep, RenderStart, RunTick, RenderPoll, RenderExec, RenderStore,
       RenderWakeEmu, RenderWakeEmuLock, RenderLock, RenderSleep, RenderRelock,
       RenderAwake, ServeCtx0, ServeReleased, ServeWait, ServeCtx1, ServeReturn,
       RenderExit, Spurious, emuVars, batchVars
  <1>12. QED
    BY <1>1, <1>2, <1>3, <1>4, <1>5, <1>6, <1>7, <1>8, <1>9, <1>10, <1>11
    DEF Next, EmuCall, EmuStep, vars, emuVars, batchVars

\* A chain depends on nothing but its own cells.
LEMMA ChainSame ==
    ASSUME NEW mem, NEW mem2, NEW lo \in Nat, NEW hi \in Nat, Chain(mem, lo, hi),
           mem \in [Offsets -> Cell],
           \A q \in lo .. hi - 1 : mem2[q % Cap] = mem[q % Cap]
    PROVE  Chain(mem2, lo, hi)
  <1>1. \A q \in lo .. hi - 1 : HeaderAt(mem2, q) = HeaderAt(mem, q)  BY DEF HeaderAt
  <1>2. ASSUME NEW p \in lo .. hi - 1, HeaderAt(mem2, p)
        PROVE  /\ RecordAt(mem2, p)
               /\ p + mem2[p % Cap].size <= hi
               /\ p + mem2[p % Cap].size < hi => HeaderAt(mem2, p + mem2[p % Cap].size)
               /\ \A q \in p + 1 .. p + mem2[p % Cap].size - 1 : ~HeaderAt(mem2, q)
    <2>. DEFINE n == mem[p % Cap].size
    <2>1. mem2[p % Cap] = mem[p % Cap] /\ HeaderAt(mem, p)  BY <1>1, <1>2
    <2>2. n \in Nat  BY OffsetType DEF Cell
    <2>3. RecordAt(mem, p) /\ p + n <= hi /\ (p + n < hi => HeaderAt(mem, p + n))
          /\ \A q \in p + 1 .. p + n - 1 : ~HeaderAt(mem, q)
      BY <2>1 DEF Chain
    <2>. HIDE DEF n
    <2>4. p + n < hi => HeaderAt(mem2, p + n)
      <3>1. p + n < hi => p + n \in lo .. hi - 1  BY <2>2
      <3>2. QED BY <1>1, <2>3, <3>1
    <2>5. PayloadAt(mem, p, n) => PayloadAt(mem2, p, n)
      <3>1. \A i \in 1 .. n - 1 : p + i \in lo .. hi - 1  BY <2>2, <2>3
      <3>2. QED BY <3>1 DEF PayloadAt
    <2>6. RecordAt(mem2, p)  BY <1>2, <2>1, <2>3, <2>5 DEF RecordAt, n
    <2>7. \A q \in p + 1 .. p + n - 1 : ~HeaderAt(mem2, q)
      <3>1. \A q \in p + 1 .. p + n - 1 : q \in lo .. hi - 1  BY <2>2, <2>3
      <3>2. QED BY <1>1, <2>3, <3>1
    <2>8. QED BY <2>1, <2>3, <2>4, <2>6, <2>7 DEF n
  <1>3. lo < hi => HeaderAt(mem2, lo)
    <2>1. lo < hi => lo \in lo .. hi - 1  OBVIOUS
    <2>2. QED BY <1>1, <2>1 DEF Chain
  <1>4. QED BY <1>2, <1>3 DEF Chain

\* A chain stays one when its first record is dropped ...
LEMMA ChainDrop ==
    ASSUME NEW mem \in [Offsets -> Cell], NEW lo \in Nat, NEW hi \in Nat,
           Chain(mem, lo, hi), lo < hi
    PROVE  LET n == mem[lo % Cap].size
           IN  n \in Nat /\ n > 0 /\ lo + n <= hi /\ Chain(mem, lo + n, hi)
  <1>. DEFINE n == mem[lo % Cap].size
  <1>1. n \in Nat  BY OffsetType DEF Cell
  <1>2. lo \in lo .. hi - 1 /\ HeaderAt(mem, lo)  BY DEF Chain
  <1>3. n > 0 /\ lo + n <= hi /\ (lo + n < hi => HeaderAt(mem, lo + n))
    BY <1>2 DEF Chain, RecordAt
  <1>. HIDE DEF n
  <1>4. lo + n .. hi - 1 \subseteq lo .. hi - 1  BY <1>1
  <1>5. Chain(mem, lo + n, hi)  BY <1>3, <1>4 DEF Chain
  <1>6. QED BY <1>1, <1>3, <1>5 DEF n

\* ... and when a whole record is put at its end.  (No cell inside the record can
\* pass for a header: it is data, or carries another position.)
LEMMA ChainAppend ==
    ASSUME NEW mem \in [Offsets -> Cell], NEW lo \in Nat, NEW hi \in Nat, lo <= hi,
           Chain(mem, lo, hi), RecordAt(mem, hi),
           \A q \in hi + 1 .. hi + mem[hi % Cap].size - 1 : ~HeaderAt(mem, q)
    PROVE  Chain(mem, lo, hi + mem[hi % Cap].size)
  <1>. DEFINE n == mem[hi % Cap].size
  <1>1. n \in Nat  BY OffsetType DEF Cell
  <1>2. n > 0 /\ HeaderAt(mem, hi)  BY DEF RecordAt
  <1>3. \A q \in hi + 1 .. hi + n - 1 : ~HeaderAt(mem, q)  OBVIOUS
  <1>. HIDE DEF n
  <1>4. lo < hi + n => HeaderAt(mem, lo)
    <2>1. lo < hi \/ lo = hi  OBVIOUS
    <2>2. QED BY <1>2, <2>1 DEF Chain
  <1>5. ASSUME NEW p \in lo .. hi + n - 1, HeaderAt(mem, p)
        PROVE  /\ RecordAt(mem, p)
               /\ p + mem[p % Cap].size <= hi + n
               /\ p + mem[p % Cap].size < hi + n => HeaderAt(mem, p + mem[p % Cap].size)
               /\ \A q \in p + 1 .. p + mem[p % Cap].size - 1 : ~HeaderAt(mem, q)
    <2>1. CASE p < hi
      <3>. DEFINE m == mem[p % Cap].size
      <3>1. p \in lo .. hi - 1  BY <1>1, <2>1
      <3>2. m \in Nat  BY OffsetType DEF Cell
      <3>3. RecordAt(mem, p) /\ p + m <= hi /\ (p + m < hi => HeaderAt(mem, p + m))
            /\ \A q \in p + 1 .. p + m - 1 : ~HeaderAt(mem, q)
        BY <1>5, <3>1 DEF Chain
      <3>. HIDE DEF m
      <3>4. p + m < hi \/ p + m = hi  BY <3>2, <3>3
      <3>5. p + m <= hi + n /\ HeaderAt(mem, p + m)  BY <1>1, <1>2, <3>2, <3>3, <3>4
      <3>6. QED BY <3>3, <3>5 DEF m
    <2>2. CASE p = hi  BY <1>1, <1>3, <2>2 DEF n
    <2>3. CASE p > hi  
      <3>1. p \in hi + 1 .. hi + n - 1  BY <1>1, <2>3
      <3>2. QED BY <1>3, <1>5, <3>1
    <2>4. QED BY <1>1, <2>1, <2>2, <2>3
  <1>6. \A p \in lo .. hi + n - 1 : HeaderAt(mem, p) =>
               /\ RecordAt(mem, p)
               /\ p + mem[p % Cap].size <= hi + n
               /\ p + mem[p % Cap].size < hi + n => HeaderAt(mem, p + mem[p % Cap].size)
               /\ \A q \in p + 1 .. p + mem[p % Cap].size - 1 : ~HeaderAt(mem, q)
    BY <1>5
  <1>7. lo .. (hi + n) - 1 = lo .. hi + n - 1  BY <1>1
  <1>8. Chain(mem, lo, hi + n)  BY <1>4, <1>6, <1>7 DEF Chain
  <1>9. QED BY <1>8 DEF n

\* Every record of n units written at p in one piece is a whole record there.
LEMMA WrittenRecord ==
    ASSUME NEW mem \in [Offsets -> Cell], NEW p \in Nat, NEW n \in Nat \ {0},
           NEW k \in Headers, (p % Cap) + n <= Cap
    PROVE  LET new == Written(mem, p, n, k)
           IN  /\ RecordAt(new, p)
               /\ new[p % Cap].kind = k /\ new[p % Cap].size = n
               /\ k # "pad" => \A q \in p + 1 .. p + n - 1 : ~HeaderAt(new, q)
  <1>. DEFINE new == Written(mem, p, n, k)
  <1>1. new[p % Cap].at = p /\ new[p % Cap].size = n /\ new[p % Cap].kind = k
    <2>. DEFINE off == p % Cap
                top == IF k = "pad" THEN off ELSE off + n - 1
    <2>1. off \in Offsets /\ off \in Nat  BY OffsetType, DivMod
    <2>2. off \in off .. top /\ p + (off - off) = p  BY <2>1
    <2>3. QED BY <2>1, <2>2 DEF Written
  <1>2. ASSUME k # "pad", NEW i \in 1 .. n - 1
        PROVE  new[(p + i) % Cap].kind = "data" /\ new[(p + i) % Cap].at = p + i
    <2>1. i \in 0 .. n - 1 /\ i # 0 /\ n \in Nat  OBVIOUS
    <2>2. QED BY <1>2, <2>1, WrittenCell
  <1>. HIDE DEF new
  <1>3. k = "op" => PayloadAt(new, p, n)  BY <1>2 DEF PayloadAt
  <1>4. RecordAt(new, p)  BY <1>1, <1>3 DEF RecordAt, HeaderAt
  <1>5. ASSUME k # "pad", NEW q \in p + 1 .. p + n - 1 PROVE ~HeaderAt(new, q)
    <2>1. q - p \in 1 .. n - 1 /\ p + (q - p) = q  OBVIOUS
    <2>2. new[q % Cap].kind = "data"  BY <1>2, <1>5, <2>1
    <2>3. QED BY <2>2 DEF HeaderAt, Headers
  <1>6. QED BY <1>1, <1>4, <1>5 DEF new

\* A write leaves no header at or above its end if there was none above its start.
LEMMA WrittenFresh ==
    ASSUME NEW mem \in [Offsets -> Cell], NEW p \in Nat, NEW n \in Nat \ {0},
           NEW k \in Headers, (p % Cap) + n <= Cap, NEW top \in Nat, top <= p,
           \A i \in Offsets : mem[i].kind \in Headers => mem[i].at < top
    PROVE  \A i \in Offsets : Written(mem, p, n, k)[i].kind \in Headers
                                 => Written(mem, p, n, k)[i].at < p + n
  <1>. SUFFICES ASSUME NEW i \in Offsets, Written(mem, p, n, k)[i].kind \in Headers
                PROVE  Written(mem, p, n, k)[i].at < p + n
    OBVIOUS
  <1>. DEFINE off == p % Cap
              last == IF k = "pad" THEN off ELSE off + n - 1
  <1>1. off \in 0 .. Cap - 1 /\ i \in Int  BY DivMod, CapAssumption DEF Offsets
  <1>2. CASE i \in off .. last
    <2>1. p + (i - off) < p + n  BY <1>1, <1>2
    <2>2. Written(mem, p, n, k)[i].at = p + (i - off)  BY <1>2 DEF Written
    <2>3. QED BY <2>1, <2>2
  <1>3. CASE i \notin off .. last
    <2>1. Written(mem, p, n, k)[i] = mem[i]  BY <1>3 DEF Written
    <2>2. mem[i] \in Cell  OBVIOUS
    <2>3. QED BY <2>1, <2>2 DEF Cell
  <1>4. QED BY <1>2, <1>3

\* A step that leaves the ring and both positions alone keeps the chain.
LEMMA RingKept ==
    ASSUME RingInv, UNCHANGED <<ring, wpos, rpos>>,
           rpc' \in {"exec", "store"} => rpos < wpos
    PROVE  RingInv'
  BY DEF RingInv

\* The record between begin and commit is not disturbed by the render thread.
LEMMA PendKept ==
    ASSUME FreshInv, PendInv, UNCHANGED <<ring, wpos, rpos, pend, epc, wait>>
    PROVE  FreshInv' /\ PendInv'
  BY DEF FreshInv, PendInv, At

\* Moving rpos past a record keeps the chain and frees space.
LEMMA StoreStep ==
    ASSUME TypeOK, RingInv, FreshInv, PendInv, RenderStore
    PROVE  RingInv' /\ FreshInv' /\ PendInv'
  <1>. DEFINE n == ring[rpos % Cap].size
  <1>1. rpos \in Nat /\ wpos \in Nat /\ ring \in [Offsets -> Cell] /\ rpos < wpos
        /\ Chain(ring, rpos, wpos) /\ wpos - rpos <= Cap
    BY DEF TypeOK, DataType, RingInv, RenderStore
  <1>2. n \in Nat /\ n > 0 /\ rpos + n <= wpos /\ Chain(ring, rpos + n, wpos)
    BY <1>1, ChainDrop
  <1>3. rpos' = rpos + n /\ rpc' = "wakeEmu" /\ UNCHANGED <<ring, wpos, pend, epc, wait>>
    BY DEF RenderStore, emuVars, At
  <1>. HIDE DEF n
  <1>4. RingInv'  BY <1>1, <1>2, <1>3, CapAssumption DEF RingInv
  <1>5. FreshInv'  BY <1>3 DEF FreshInv
  <1>6. PendInv'
    <2>1. epc \in {"write", "commit"} => pend.at + pend.size - rpos' <= Cap
      BY <1>1, <1>2, <1>3, CapAssumption DEF PendInv, TypeOK, DataType
    <2>2. epc = "marker" => wpos + 1 - rpos' <= Cap
      BY <1>1, <1>2, <1>3, CapAssumption DEF PendInv
    <2>3. QED BY <1>3, <2>1, <2>2 DEF PendInv, At
  <1>7. QED BY <1>4, <1>5, <1>6

\* Writing the record of rt_cmd_begin touches no unread cell and leaves it whole.
LEMMA WriteStep ==
    ASSUME TypeOK, RingInv, FreshInv, PendInv, CmdWrite
    PROVE  RingInv' /\ FreshInv' /\ PendInv'
  <1>. DEFINE padded == IF pend.pad > 0
                        THEN Written(ring, pend.at - pend.pad, pend.pad, "pad")
                        ELSE ring
  <1>1. /\ pend.at \in Nat /\ pend.pad \in Nat /\ pend.size \in Nat \ {0}
        /\ rpos \in Nat /\ wpos \in Nat /\ ring \in [Offsets -> Cell]
        /\ pend.at = wpos + pend.pad /\ pend.at - pend.pad = wpos
        /\ (pend.at % Cap) + pend.size <= Cap
        /\ pend.at + pend.size - rpos <= Cap /\ rpos <= wpos /\ wpos - rpos <= Cap
        /\ Chain(ring, rpos, wpos)
    BY DEF PendInv, RingInv, TypeOK, DataType, CmdWrite
  <1>2. "op" \in Headers /\ "pad" \in Headers /\ "op" # "pad"  BY DEF Headers
  <1>3. ASSUME pend.pad > 0
        PROVE  /\ pend.pad \in Nat \ {0} /\ (wpos % Cap) + pend.pad <= Cap
               /\ padded = Written(ring, wpos, pend.pad, "pad")
    BY <1>1, <1>3, CapAssumption DEF PendInv, CmdWrite
  <1>4. padded \in [Offsets -> Cell]
    BY <1>1, <1>2, <1>3, WrittenType
  <1>5. ring' = Written(padded, pend.at, pend.size, "op")
        /\ epc' = "commit" /\ UNCHANGED <<wpos, rpos, pend, wait, rpc>>
    BY DEF CmdWrite, renderVars
  <1>6. ASSUME NEW q \in Nat, rpos <= q, q < pend.at PROVE ring'[q % Cap] = padded[q % Cap]
    <2>1. pend.at + pend.size - q <= Cap  BY <1>1, <1>6, CapAssumption
    <2>. HIDE DEF padded
    <2>2. Written(padded, pend.at, pend.size, "op")[q % Cap] = padded[q % Cap]
      BY <1>1, <1>2, <1>4, <1>6, <2>1, WrittenFrame
    <2>3. QED BY <1>5, <2>2
  <1>7. ASSUME NEW q \in Nat, rpos <= q, q < wpos PROVE padded[q % Cap] = ring[q % Cap]
    <2>1. CASE pend.pad > 0
      <3>1. wpos + pend.pad - q <= Cap  BY <1>1, <1>7, CapAssumption
      <3>2. Written(ring, wpos, pend.pad, "pad")[q % Cap] = ring[q % Cap]
        BY <1>1, <1>2, <1>3, <1>7, <2>1, <3>1, WrittenFrame
      <3>3. QED BY <1>3, <2>1, <3>2
    <2>2. CASE ~(pend.pad > 0)  BY <2>2
    <2>3. QED BY <2>1, <2>2
  <1>8. RingInv'
    <2>. HIDE DEF padded
    <2>1. \A q \in rpos .. wpos - 1 : ring'[q % Cap] = ring[q % Cap]
      BY <1>1, <1>6, <1>7
    <2>2. Chain(ring', rpos, wpos)  BY <1>1, <2>1, ChainSame
    <2>3. QED BY <1>1, <1>5, <2>2 DEF RingInv
  <1>9. FreshInv'
    <2>1. \A i \in Offsets : padded[i].kind \in Headers => padded[i].at < pend.at
      <3>1. \A i \in Offsets : ring[i].kind \in Headers => ring[i].at < wpos
        BY DEF FreshInv, CmdWrite
      <3>2. CASE pend.pad > 0
        <4>1. wpos + pend.pad = pend.at /\ wpos <= wpos  BY <1>1
        <4>2. \A i \in Offsets : Written(ring, wpos, pend.pad, "pad")[i].kind \in Headers
                 => Written(ring, wpos, pend.pad, "pad")[i].at < wpos + pend.pad
          BY <1>1, <1>2, <1>3, <3>1, <3>2, <4>1, WrittenFresh
        <4>3. QED BY <1>3, <3>2, <4>1, <4>2
      <3>3. CASE ~(pend.pad > 0)  BY <1>1, <3>1, <3>3
      <3>4. QED BY <3>2, <3>3
    <2>. HIDE DEF padded
    <2>2. pend.at <= pend.at  BY <1>1
    <2>3. \A i \in Offsets : Written(padded, pend.at, pend.size, "op")[i].kind \in Headers
             => Written(padded, pend.at, pend.size, "op")[i].at < pend.at + pend.size
      BY <1>1, <1>2, <1>4, <2>1, <2>2, WrittenFresh
    <2>4. QED BY <1>5, <2>3 DEF FreshInv
  <1>10. PendInv'
    <2>1. RecordAt(ring', pend.at) /\ ring'[pend.at % Cap].kind = "op"
          /\ ring'[pend.at % Cap].size = pend.size
      <3>. HIDE DEF padded
      <3>1. QED BY <1>1, <1>2, <1>4, <1>5, WrittenRecord
    <2>2. ASSUME pend.pad > 0
          PROVE  /\ RecordAt(ring', wpos) /\ ring'[wpos % Cap].kind = "pad"
                 /\ ring'[wpos % Cap].size = pend.pad
      <3>1. RecordAt(padded, wpos) /\ padded[wpos % Cap].kind = "pad"
            /\ padded[wpos % Cap].size = pend.pad
        BY <1>1, <1>2, <1>3, <2>2, WrittenRecord
      <3>2. ring'[wpos % Cap] = padded[wpos % Cap]  BY <1>1, <1>6, <2>2
      <3>. HIDE DEF padded
      <3>3. QED BY <3>1, <3>2 DEF RecordAt, HeaderAt
    <2>3. ASSUME pend.pad > 0, NEW q \in wpos + 1 .. pend.at - 1
          PROVE  ~HeaderAt(ring', q)
      <3>1. q \in Nat /\ rpos <= q /\ q < pend.at /\ wpos < q /\ q < wpos + Cap
        <4>1. wpos % Cap \in Nat  BY <1>1, DivMod
        <4>2. QED BY <1>1, <1>3, <2>3, <4>1, CapAssumption
      <3>2. ring'[q % Cap] = padded[q % Cap]  BY <1>6, <3>1
      <3>3. q % Cap # wpos % Cap /\ q % Cap \in Offsets
        BY <1>1, <3>1, OffsetsDiffer, OffsetType
      <3>4. padded[q % Cap] = ring[q % Cap]
        <4>1. q % Cap \notin (wpos % Cap) .. (wpos % Cap)
          BY <1>1, <3>1, <3>3, DivMod
        <4>2. QED BY <1>3, <2>3, <3>3, <4>1 DEF Written
      <3>5. ring[q % Cap].kind \in Headers => ring[q % Cap].at < wpos
        BY <3>3 DEF FreshInv, CmdWrite
      <3>6. QED BY <1>1, <3>1, <3>2, <3>4, <3>5 DEF HeaderAt
    <2>. HIDE DEF padded
    <2>4. QED BY <1>5, <2>1, <2>2, <2>3 DEF PendInv, CmdWrite, At
  <1>11. QED BY <1>8, <1>9, <1>10

\* Publishing the record, with its pad, appends it to the chain.
LEMMA CommitStep ==
    ASSUME TypeOK, WaitInv, RingInv, FreshInv, PendInv, CmdCommit
    PROVE  RingInv' /\ FreshInv' /\ PendInv'
  <1>1. /\ pend.at \in Nat /\ pend.pad \in Nat /\ pend.size \in Nat \ {0}
        /\ rpos \in Nat /\ wpos \in Nat /\ ring \in [Offsets -> Cell]
        /\ pend.at = wpos + pend.pad
        /\ pend.at + pend.size - rpos <= Cap /\ rpos <= wpos
        /\ Chain(ring, rpos, wpos) /\ RecordAt(ring, pend.at)
        /\ ring[pend.at % Cap].kind = "op" /\ ring[pend.at % Cap].size = pend.size
    BY DEF PendInv, RingInv, TypeOK, DataType, CmdCommit, At
  <1>2. wpos' = pend.at + pend.size /\ UNCHANGED <<ring, rpos, rpc, wait>>
        /\ epc' \in {"idle", "wake"}
    BY DEF CmdCommit, ForceWake, renderVars
  <1>3. Chain(ring, rpos, pend.at)
    <2>1. CASE pend.pad > 0
      <3>1. RecordAt(ring, wpos) /\ ring[wpos % Cap].size = pend.pad
            /\ \A q \in wpos + 1 .. pend.at - 1 : ~HeaderAt(ring, q)
        BY <2>1 DEF PendInv, CmdCommit, At
      <3>2. \A q \in wpos + 1 .. wpos + ring[wpos % Cap].size - 1 : ~HeaderAt(ring, q)
        BY <1>1, <3>1
      <3>3. Chain(ring, rpos, wpos + ring[wpos % Cap].size)
        BY <1>1, <3>1, <3>2, ChainAppend
      <3>4. QED BY <1>1, <3>1, <3>3
    <2>2. CASE ~(pend.pad > 0)
      <3>1. pend.at = wpos  BY <1>1, <2>2
      <3>2. QED BY <1>1, <3>1
    <2>3. QED BY <2>1, <2>2
  <1>4. Chain(ring, rpos, pend.at + pend.size)
    <2>1. ASSUME NEW q \in pend.at + 1 .. pend.at + ring[pend.at % Cap].size - 1
          PROVE  ~HeaderAt(ring, q)
      <3>1. q - pend.at \in 1 .. pend.size - 1 /\ pend.at + (q - pend.at) = q
        BY <1>1, <2>1
      <3>2. ring[q % Cap].kind = "data"
        BY <1>1, <3>1 DEF RecordAt, PayloadAt
      <3>3. QED BY <3>2 DEF HeaderAt, Headers
    <2>2. rpos <= pend.at  BY <1>1
    <2>3. Chain(ring, rpos, pend.at + ring[pend.at % Cap].size)
      BY <1>1, <1>3, <2>1, <2>2, ChainAppend
    <2>4. QED BY <1>1, <2>3
  <1>5. RingInv'
    <2>1. rpos < wpos'  BY <1>1, <1>2
    <2>2. wpos' - rpos <= Cap  BY <1>1, <1>2, CapAssumption
    <2>3. QED BY <1>1, <1>2, <1>4, <2>1, <2>2 DEF RingInv
  <1>6. FreshInv'  BY <1>2 DEF FreshInv, CmdCommit
  <1>7. PendInv'
    <2>1. wait = NoWait  BY DEF WaitInv, CmdCommit
    <2>2. QED BY <1>2, <2>1 DEF PendInv, NoWait
  <1>8. QED BY <1>5, <1>6, <1>7

\* So does a frame marker.
LEMMA MarkerStep ==
    ASSUME TypeOK, WaitInv, RingInv, FreshInv, PendInv, Marker
    PROVE  RingInv' /\ FreshInv' /\ PendInv'
  <1>1. /\ rpos \in Nat /\ wpos \in Nat /\ ring \in [Offsets -> Cell]
        /\ wpos + 1 - rpos <= Cap /\ rpos <= wpos /\ Chain(ring, rpos, wpos)
    BY DEF PendInv, RingInv, TypeOK, DataType, Marker
  <1>2. ring' = Written(ring, wpos, 1, "frame") /\ wpos' = wpos + 1
        /\ UNCHANGED <<rpos, rpc, wait>> /\ epc' = "wake"
    BY DEF Marker, ForceWake, renderVars
  <1>3. "frame" \in Headers /\ "frame" # "pad" /\ 1 \in Nat \ {0}
        /\ (wpos % Cap) + 1 <= Cap
    BY <1>1, DivMod, CapAssumption DEF Headers
  <1>4. ring' \in [Offsets -> Cell]  BY <1>1, <1>2, <1>3, WrittenType
  <1>5. RecordAt(ring', wpos) /\ ring'[wpos % Cap].size = 1
        /\ \A q \in wpos + 1 .. wpos + 1 - 1 : ~HeaderAt(ring', q)
    BY <1>1, <1>2, <1>3, WrittenRecord
  <1>6. Chain(ring', rpos, wpos)
    <2>1. ASSUME NEW q \in rpos .. wpos - 1 PROVE ring'[q % Cap] = ring[q % Cap]
      <3>1. q \in Nat /\ q < wpos /\ wpos + 1 - q <= Cap  BY <1>1, <2>1, CapAssumption
      <3>2. Written(ring, wpos, 1, "frame")[q % Cap] = ring[q % Cap]
        BY <1>1, <1>3, <3>1, WrittenFrame
      <3>3. QED BY <1>2, <3>2
    <2>2. QED BY <1>1, <2>1, ChainSame
  <1>7. Chain(ring', rpos, wpos + 1)
    <2>1. Chain(ring', rpos, wpos + ring'[wpos % Cap].size)
      <3>1. \A q \in wpos + 1 .. wpos + ring'[wpos % Cap].size - 1 : ~HeaderAt(ring', q)
        BY <1>5
      <3>2. QED BY <1>1, <1>4, <1>5, <1>6, <3>1, ChainAppend
    <2>2. QED BY <1>5, <2>1
  <1>8. RingInv'
    <2>1. rpos < wpos' /\ wpos' - rpos <= Cap  BY <1>1, <1>2, CapAssumption
    <2>2. QED BY <1>1, <1>2, <1>7, <2>1 DEF RingInv
  <1>9. FreshInv'
    <2>1. \A i \in Offsets : ring[i].kind \in Headers => ring[i].at < wpos
      BY DEF FreshInv, Marker
    <2>2. wpos <= wpos  BY <1>1
    <2>3. \A i \in Offsets : Written(ring, wpos, 1, "frame")[i].kind \in Headers
             => Written(ring, wpos, 1, "frame")[i].at < wpos + 1
      BY <1>1, <1>3, <2>1, <2>2, WrittenFresh
    <2>4. QED BY <1>2, <2>3 DEF FreshInv
  <1>10. PendInv'
    <2>1. wait = NoWait  BY DEF WaitInv, Marker
    <2>2. QED BY <1>2, <2>1 DEF PendInv, NoWait
  <1>11. QED BY <1>8, <1>9, <1>10

\* rt_cmd_begin computes a place that does not straddle the ring end.
LEMMA BeginStep ==
    ASSUME TypeOK, WaitInv, RingInv, FreshInv, PendInv, NEW n \in Sizes, CmdBegin(n)
    PROVE  RingInv' /\ FreshInv' /\ PendInv'
  <1>. DEFINE pad == PadFor(wpos, n)
  <1>1. n \in Nat \ {0} /\ n <= Cap \div 2 /\ wpos \in Nat /\ rpos \in Nat
    BY SizesAssumption DEF CmdBegin, TypeOK, DataType
  <1>2. wpos % Cap \in 0 .. Cap - 1  BY <1>1, DivMod
  <1>3. pad \in Nat /\ ((wpos + pad) % Cap) + n <= Cap
        /\ (pad > 0 => (wpos % Cap) + pad = Cap)
    <2>1. CASE (wpos % Cap) + n > Cap
      <3>1. pad = Cap - (wpos % Cap)  BY <2>1 DEF PadFor
      <3>2. pad \in Nat /\ (wpos % Cap) + pad = Cap  BY <1>2, <3>1, CapAssumption
      <3>3. (wpos + pad) % Cap = 0  BY <1>1, <3>2, OffsetWrap
      <3>4. n <= Cap  BY <1>1, CapAssumption
      <3>5. QED BY <1>1, <3>2, <3>3, <3>4
    <2>2. CASE ~((wpos % Cap) + n > Cap)
      <3>1. pad = 0  BY <2>2 DEF PadFor
      <3>2. wpos + pad = wpos  BY <1>1, <3>1
      <3>3. QED BY <1>1, <1>2, <2>2, <3>1, <3>2, CapAssumption
    <2>3. QED BY <2>1, <2>2
  <1>4. /\ pend' = [at |-> wpos + pad, pad |-> pad, size |-> n]
        /\ UNCHANGED <<ring, wpos, rpos, rpc>> /\ epc = "idle"
        /\ \/ PredSpace(wpos + pad + n) /\ epc' = "write" /\ UNCHANGED wait
           \/ /\ epc' = "test"
              /\ wait' = [pred |-> "space", arg |-> wpos + pad + n, ret |-> "write"]
    BY DEF CmdBegin, EnterWait, renderVars
  <1>. HIDE DEF pad
  <1>5. RingInv'  BY <1>4, RingKept DEF RingInv
  <1>6. FreshInv'  BY <1>4 DEF FreshInv
  <1>7. wait = NoWait  BY <1>4 DEF WaitInv
  <1>8. PendInv'
    <2>1. pend'.at = wpos + pad /\ pend'.pad = pad /\ pend'.size = n  BY <1>4
    <2>2. CASE PredSpace(wpos + pad + n) /\ epc' = "write" /\ UNCHANGED wait
      <3>1. wpos + pad + n - rpos <= Cap  BY <2>2, <1>1, <1>3, CapAssumption DEF PredSpace
      <3>2. QED BY <1>1, <1>3, <1>4, <1>7, <2>1, <2>2, <3>1 DEF PendInv, NoWait
    <2>3. CASE /\ epc' = "test"
               /\ wait' = [pred |-> "space", arg |-> wpos + pad + n, ret |-> "write"]
      BY <1>1, <1>3, <1>4, <2>1, <2>3 DEF PendInv
    <2>4. QED BY <1>4, <2>2, <2>3
  <1>9. QED BY <1>5, <1>6, <1>8

\* emu_wait returns to rt_cmd_begin or commit_marker only when there is space.
LEMMA WaitReturnStep ==
    ASSUME TypeOK, WaitInv, RingInv, FreshInv, PendInv, EmuTest \/ EmuSleep
    PROVE  RingInv' /\ FreshInv' /\ PendInv'
  <1>1. /\ UNCHANGED <<ring, wpos, rpos, pend, rpc>> /\ epc \in {"test", "sleep"}
        /\ \/ Pred(wait) /\ epc' = wait.ret /\ wait' = NoWait
           \/ epc' \in {"wake", "sleep"} /\ UNCHANGED wait
    BY DEF EmuTest, EmuSleep, ForceWake, shared, dataVars, ringVars, renderVars
  <1>2. RingInv'  BY <1>1, RingKept DEF RingInv
  <1>3. FreshInv'  BY <1>1 DEF FreshInv, WaitInv
  <1>4. PendInv'
    <2>1. CASE epc' \in {"wake", "sleep"} /\ UNCHANGED wait
      BY <1>1, <2>1 DEF PendInv
    <2>2. CASE Pred(wait) /\ epc' = wait.ret /\ wait' = NoWait
      <3>1. wait.pred = "space" => wait.arg - rpos <= Cap
        BY <2>2 DEF Pred, PredSpace
      <3>2. wait.ret = "write" => pend.at + pend.size - rpos <= Cap
        BY <3>1 DEF PendInv, TypeOK, DataType
      <3>3. wait.ret = "marker" => wpos + 1 - rpos <= Cap
        BY <3>1 DEF PendInv, TypeOK, DataType
      <3>4. QED BY <1>1, <2>2, <3>2, <3>3 DEF PendInv, WaitInv, NoWait
    <2>3. QED BY <1>1, <2>1, <2>2
  <1>5. QED BY <1>2, <1>3, <1>4

\* The ring, the memory above it and the record being written, step by step.
LEMMA RingStep ==
    TypeOK /\ WaitInv /\ RingInv /\ FreshInv /\ PendInv /\ [Next]_vars
      => RingInv' /\ FreshInv' /\ PendInv'
  <1>. SUFFICES ASSUME TypeOK, WaitInv, RingInv, FreshInv, PendInv, [Next]_vars
                PROVE  RingInv' /\ FreshInv' /\ PendInv'
    OBVIOUS
  <1>. USE DEF shared, dataVars, ringVars, emuVars, renderVars, batchVars
  <1>1. CASE UNCHANGED vars  BY <1>1, RingKept, PendKept DEF vars, RingInv
  <1>2. ASSUME NEW n \in Sizes, CmdBegin(n) PROVE RingInv' /\ FreshInv' /\ PendInv'
    BY <1>2, BeginStep
  <1>3. CASE EmuTest \/ EmuSleep  BY <1>3, WaitReturnStep
  <1>4. CASE CmdWrite  BY <1>4, WriteStep
  <1>5. CASE CmdCommit  BY <1>5, CommitStep
  <1>6. CASE Marker  BY <1>6, MarkerStep
  <1>7. CASE RenderStore  BY <1>7, StoreStep
  <1>8. CASE FrameEnd
    <2>1. /\ UNCHANGED <<ring, wpos, rpos, pend, rpc>> /\ epc = "idle"
          /\ \/ PredSpace(wpos + 1) /\ epc' = "marker" /\ UNCHANGED wait
             \/ /\ epc' = "test"
                /\ wait' = [pred |-> "space", arg |-> wpos + 1, ret |-> "marker"]
      BY <1>8 DEF FrameEnd, EnterWait
    <2>2. RingInv'  BY <2>1, RingKept DEF RingInv
    <2>3. FreshInv'  BY <2>1 DEF FreshInv
    <2>4. wait = NoWait  BY <2>1 DEF WaitInv
    <2>5. PredSpace(wpos + 1) => wpos + 1 - rpos <= Cap
      BY CapAssumption DEF PredSpace, TypeOK, DataType
    <2>6. PendInv'  BY <2>1, <2>4, <2>5 DEF PendInv, NoWait
    <2>7. QED BY <2>2, <2>3, <2>6
  <1>9. ASSUME UNCHANGED <<ring, wpos, rpos, pend, rpc>>,
               epc \notin {"write", "commit", "marker"},
               epc' \notin {"write", "commit", "marker"},
               UNCHANGED wait \/ wait'.ret \notin {"write", "marker"}
        PROVE  RingInv' /\ FreshInv' /\ PendInv'
    <2>1. RingInv'  BY <1>9, RingKept DEF RingInv
    <2>2. FreshInv'  BY <1>9 DEF FreshInv
    <2>3. PendInv'  BY <1>9 DEF PendInv
    <2>4. QED BY <2>1, <2>2, <2>3
  <1>10. CASE EmuWake \/ EmuWakeLock \/ EmuSleepLock \/ EmuRelock
    BY <1>9, <1>10 DEF EmuWake, EmuWakeLock, EmuSleepLock, EmuRelock, WaitInv
  <1>11. CASE FrameBound \/ AcquireRequest
    <2>1. wait'.ret \in {"idle", "acqCtx"} \/ UNCHANGED wait
      BY <1>11 DEF FrameBound, AcquireRequest, EnterWait
    <2>2. QED BY <1>9, <1>11, <2>1 DEF FrameBound, AcquireRequest, EnterWait
  <1>12. ASSUME NEW ret \in {"idle", "acqReq", "stopReq"}, Drain(ret)
         PROVE  RingInv' /\ FreshInv' /\ PendInv'
    <2>1. wait'.ret \notin {"write", "marker"}  BY <1>12 DEF Drain, EnterWait
    <2>2. QED BY <1>9, <1>12, <2>1 DEF Drain, EnterWait
  <1>13. CASE AcquireCtx \/ ReleaseRequest \/ StopRequest \/ StopJoin \/ SpawnFail
              \/ FrameEndHeld \/ Release \/ StopHeld \/ CallStopped
    BY <1>9, <1>13 DEF AcquireCtx, ReleaseRequest, StopRequest, StopJoin, SpawnFail,
       FrameEndHeld, Release, StopHeld, CallStopped, vars
  <1>14. CASE Spawn
    <2>1. UNCHANGED <<ring, wpos, rpos, pend, wait>> /\ epc = "spawn" /\ epc' = "idle"
          /\ rpc' = "start"
      BY <1>14 DEF Spawn
    <2>2. QED BY <2>1, RingKept DEF RingInv, FreshInv, PendInv
  <1>15. CASE Start
    <2>1. /\ ring' = [i \in Offsets |-> JunkCell] /\ wpos' = 0 /\ rpos' = 0
          /\ epc' = "spawn" /\ rpc' = "none" /\ wait' = NoWait
      BY <1>15 DEF Start
    <2>2. Chain(ring', 0, 0)  BY DEF Chain
    <2>3. RingInv'  BY <2>1, <2>2, CapAssumption DEF RingInv
    <2>4. FreshInv'  BY <2>1 DEF FreshInv, JunkCell, Headers
    <2>5. PendInv'  BY <2>1 DEF PendInv, NoWait
    <2>6. QED BY <2>3, <2>4, <2>5
  <1>16. CASE RenderPoll
    <2>1. UNCHANGED <<ring, wpos, rpos, pend, epc, wait>>
          /\ (rpc' \in {"exec", "store"} => wpos # rpos)
      BY <1>16 DEF RenderPoll
    <2>2. wpos # rpos => rpos < wpos  BY DEF RingInv, TypeOK, DataType
    <2>3. QED BY <2>1, <2>2, RingKept, PendKept
  <1>17. CASE RenderExec
    BY <1>17, RingKept, PendKept DEF RenderExec, RingInv
  <1>18. CASE RenderStart \/ RunTick \/ RenderWakeEmu \/ RenderWakeEmuLock \/ RenderLock
              \/ RenderSleep \/ RenderRelock \/ RenderAwake \/ ServeCtx0 \/ ServeReleased
              \/ ServeWait \/ ServeCtx1 \/ ServeReturn \/ RenderExit \/ Spurious
    <2>1. UNCHANGED <<ring, wpos, rpos, pend, epc, wait>>
      BY <1>18 DEF RenderStart, RunTick, RenderWakeEmu, RenderWakeEmuLock, RenderLock,
         RenderSleep, RenderRelock, RenderAwake, ServeCtx0, ServeReleased, ServeWait,
         ServeCtx1, ServeReturn, RenderExit, Spurious
    <2>2. rpc' \in {"exec", "store"} => rpc \in {"exec", "store"}
      BY <1>18 DEF RenderStart, RunTick, RenderWakeEmu, RenderWakeEmuLock, RenderLock,
         RenderSleep, RenderRelock, RenderAwake, ServeCtx0, ServeReleased, ServeWait,
         ServeCtx1, ServeReturn, RenderExit, Spurious
    <2>3. QED BY <2>1, <2>2, RingKept, PendKept DEF RingInv
  <1>19. QED
    BY <1>1, <1>2, <1>3, <1>4, <1>5, <1>6, <1>7, <1>8, <1>10, <1>11, <1>12, <1>13, <1>14,
       <1>15, <1>16, <1>17, <1>18
    DEF Next, EmuCall, EmuStep, RenderStep

\* What the chain says of the record being replayed.
LEMMA RingIntact == TypeOK /\ RingInv => RecordIntact
  <1>. SUFFICES ASSUME TypeOK, RingInv, rpc \in {"exec", "store"}
                PROVE  /\ At(rpos).kind \in Headers /\ At(rpos).at = rpos
                       /\ rpos + At(rpos).size <= wpos
                       /\ (rpos % Cap) + At(rpos).size <= Cap
                       /\ At(rpos).kind = "op" =>
                            \A i \in 1 .. At(rpos).size - 1 :
                              At(rpos + i).kind = "data" /\ At(rpos + i).at = rpos + i
    BY DEF RecordIntact
  <1>1. rpos \in Nat /\ wpos \in Nat /\ rpos < wpos /\ Chain(ring, rpos, wpos)
    BY DEF TypeOK, DataType, RingInv
  <1>2. rpos \in rpos .. wpos - 1 /\ HeaderAt(ring, rpos)  BY <1>1 DEF Chain
  <1>3. RecordAt(ring, rpos) /\ rpos + ring[rpos % Cap].size <= wpos
    BY <1>1, <1>2 DEF Chain
  <1>4. QED BY <1>3 DEF RecordAt, HeaderAt, PayloadAt, At

-----------------------------------------------------------------------------
(* What the ring queues *)

\* The positions of the records of the kinds K in the chain from lo to hi.
Queued(mem, lo, hi, K) ==
    {p \in lo .. hi - 1 : mem[p % Cap].at = p /\ mem[p % Cap].kind \in K}

\* The markers and the live records are two such sets.
LEMMA QueuedSets ==
    /\ Markers = Queued(ring, rpos, wpos, {"frame"})
    /\ LiveRecords = Queued(ring, rpos, wpos, {"op", "frame"})
  <1>1. Markers = Queued(ring, rpos, wpos, {"frame"})
    BY DEF Markers, Queued, At
  <1>2. LiveRecords = Queued(ring, rpos, wpos, {"op", "frame"})
    BY DEF LiveRecords, Queued, At
  <1>3. QED BY <1>1, <1>2

\* They depend on nothing but the cells of the chain.
LEMMA QueuedSame ==
    ASSUME NEW mem, NEW mem2, NEW lo \in Nat, NEW hi \in Nat, NEW K,
           \A q \in lo .. hi - 1 : mem2[q % Cap] = mem[q % Cap]
    PROVE  Queued(mem2, lo, hi, K) = Queued(mem, lo, hi, K)
  BY DEF Queued

\* One record more at the end.
LEMMA QueuedAppend ==
    ASSUME NEW mem, NEW lo \in Nat, NEW hi \in Nat, NEW end \in Nat, lo <= hi, hi < end,
           NEW K \in SUBSET Headers, HeaderAt(mem, hi),
           \A q \in hi + 1 .. end - 1 : ~HeaderAt(mem, q)
    PROVE  Queued(mem, lo, end, K)
             = Queued(mem, lo, hi, K) \cup (IF mem[hi % Cap].kind \in K THEN {hi} ELSE {})
  <1>1. ASSUME NEW p \in lo .. end - 1, mem[p % Cap].at = p, mem[p % Cap].kind \in K
        PROVE  p \in lo .. hi - 1 \/ p = hi
    <2>1. HeaderAt(mem, p)  BY <1>1 DEF HeaderAt
    <2>2. p \notin hi + 1 .. end - 1  BY <2>1
    <2>3. QED BY <1>1, <2>2
  <1>2. lo .. hi - 1 \subseteq lo .. end - 1 /\ hi \in lo .. end - 1
    OBVIOUS
  <1>3. mem[hi % Cap].at = hi  BY DEF HeaderAt
  <1>4. QED BY <1>1, <1>2, <1>3 DEF Queued

\* One record less at the start.
LEMMA QueuedDrop ==
    ASSUME NEW mem, NEW lo \in Nat, NEW hi \in Nat, NEW n \in Nat \ {0},
           NEW K \in SUBSET Headers,
           \A q \in lo + 1 .. lo + n - 1 : ~HeaderAt(mem, q)
    PROVE  Queued(mem, lo + n, hi, K) = Queued(mem, lo, hi, K) \ {lo}
  <1>1. ASSUME NEW p \in lo .. hi - 1, mem[p % Cap].at = p, mem[p % Cap].kind \in K, p # lo
        PROVE  p \in lo + n .. hi - 1
    <2>1. HeaderAt(mem, p)  BY <1>1 DEF HeaderAt
    <2>2. p \notin lo + 1 .. lo + n - 1  BY <2>1
    <2>3. QED BY <1>1, <2>2
  <1>2. lo + n .. hi - 1 \subseteq lo .. hi - 1 /\ lo \notin lo + n .. hi - 1
    OBVIOUS
  <1>3. QED BY <1>1, <1>2 DEF Queued

\* The marker of a closed frame, and the record about to be published, are written
\* over no unread cell.
LEMMA WritesKeep ==
    ASSUME TypeOK, RingInv, PendInv, CmdWrite \/ Marker
    PROVE  \A q \in rpos .. wpos - 1 : ring'[q % Cap] = ring[q % Cap]
  <1>. SUFFICES ASSUME NEW q \in rpos .. wpos - 1 PROVE ring'[q % Cap] = ring[q % Cap]
    OBVIOUS
  <1>1. /\ rpos \in Nat /\ wpos \in Nat /\ ring \in [Offsets -> Cell]
        /\ q \in Nat /\ q < wpos /\ rpos <= q
    BY DEF TypeOK, DataType
  <1>2. "op" \in Headers /\ "pad" \in Headers /\ "frame" \in Headers  BY DEF Headers
  <1>3. CASE Marker
    <2>1. 1 \in Nat \ {0} /\ (wpos % Cap) + 1 <= Cap  BY <1>1, DivMod, CapAssumption
    <2>2. wpos + 1 - q <= Cap  BY <1>1, <1>3, CapAssumption DEF PendInv, Marker
    <2>3. Written(ring, wpos, 1, "frame")[q % Cap] = ring[q % Cap]
      BY <1>1, <1>2, <2>1, <2>2, WrittenFrame
    <2>4. QED BY <1>3, <2>3 DEF Marker
  <1>4. CASE CmdWrite
    <2>. DEFINE padded == IF pend.pad > 0
                          THEN Written(ring, pend.at - pend.pad, pend.pad, "pad")
                          ELSE ring
    <2>1. /\ pend.at \in Nat /\ pend.pad \in Nat /\ pend.size \in Nat \ {0}
          /\ pend.at = wpos + pend.pad /\ pend.at - pend.pad = wpos
          /\ (pend.at % Cap) + pend.size <= Cap
          /\ pend.at + pend.size - rpos <= Cap
      BY <1>4 DEF PendInv, TypeOK, DataType, CmdWrite
    <2>2. padded[q % Cap] = ring[q % Cap] /\ padded \in [Offsets -> Cell]
      <3>1. CASE pend.pad > 0
        <4>1. pend.pad \in Nat \ {0} /\ (wpos % Cap) + pend.pad <= Cap
          BY <1>4, <2>1, <3>1, CapAssumption DEF PendInv, CmdWrite
        <4>2. wpos + pend.pad - q <= Cap  BY <1>1, <2>1, CapAssumption
        <4>3. Written(ring, wpos, pend.pad, "pad")[q % Cap] = ring[q % Cap]
          BY <1>1, <1>2, <4>1, <4>2, WrittenFrame
        <4>4. Written(ring, wpos, pend.pad, "pad") \in [Offsets -> Cell]
          BY <1>1, <1>2, <4>1, WrittenType
        <4>5. QED BY <2>1, <3>1, <4>3, <4>4
      <3>2. CASE ~(pend.pad > 0)  BY <1>1, <3>2
      <3>3. QED BY <3>1, <3>2
    <2>3. ring' = Written(padded, pend.at, pend.size, "op")  BY <1>4 DEF CmdWrite
    <2>. HIDE DEF padded
    <2>4. q < pend.at /\ pend.at + pend.size - q <= Cap  BY <1>1, <2>1, CapAssumption
    <2>5. Written(padded, pend.at, pend.size, "op")[q % Cap] = padded[q % Cap]
      BY <1>1, <1>2, <2>1, <2>2, <2>4, WrittenFrame
    <2>6. QED BY <2>2, <2>3, <2>5
  <1>5. QED BY <1>3, <1>4

\* rt_cmd_commit publishes its record and no other; its pad is not one.
LEMMA CommitQueue ==
    ASSUME TypeOK, RingInv, PendInv, CmdCommit, NEW K \in SUBSET {"op", "frame"}
    PROVE  Queued(ring', rpos', wpos', K)
             = Queued(ring, rpos, wpos, K) \cup (IF "op" \in K THEN {pend.at} ELSE {})
  <1>1. /\ pend.at \in Nat /\ pend.pad \in Nat /\ pend.size \in Nat \ {0}
        /\ rpos \in Nat /\ wpos \in Nat /\ pend.at = wpos + pend.pad
        /\ rpos <= wpos /\ rpos <= pend.at
        /\ RecordAt(ring, pend.at)
        /\ ring[pend.at % Cap].kind = "op" /\ ring[pend.at % Cap].size = pend.size
    BY DEF PendInv, RingInv, TypeOK, DataType, CmdCommit, At
  <1>2. wpos' = pend.at + pend.size /\ ring' = ring /\ rpos' = rpos  BY DEF CmdCommit
  <1>3. K \in SUBSET Headers /\ "pad" \notin K  BY DEF Headers
  <1>4. Queued(ring, rpos, pend.at, K) = Queued(ring, rpos, wpos, K)
    <2>1. CASE pend.pad > 0
      <3>1. RecordAt(ring, wpos) /\ ring[wpos % Cap].kind = "pad"
            /\ \A q \in wpos + 1 .. pend.at - 1 : ~HeaderAt(ring, q)
        BY <2>1 DEF PendInv, CmdCommit, At
      <3>2. HeaderAt(ring, wpos) /\ wpos < pend.at
        BY <1>1, <2>1, <3>1 DEF RecordAt
      <3>3. Queued(ring, rpos, pend.at, K)
              = Queued(ring, rpos, wpos, K) \cup (IF ring[wpos % Cap].kind \in K THEN {wpos} ELSE {})
        BY <1>1, <1>3, <3>1, <3>2, QueuedAppend
      <3>4. QED BY <1>1, <1>3, <3>1, <3>3
    <2>2. CASE ~(pend.pad > 0)
      <3>1. pend.at = wpos  BY <1>1, <2>2
      <3>2. QED BY <3>1
    <2>3. QED BY <2>1, <2>2
  <1>9e. PICK end \in Nat : end = pend.at + pend.size  BY <1>1
  <1>5. ASSUME NEW q \in pend.at + 1 .. end - 1 PROVE ~HeaderAt(ring, q)
    <2>1. q - pend.at \in 1 .. pend.size - 1 /\ pend.at + (q - pend.at) = q
      BY <1>1, <1>5, <1>9e
    <2>2. ring[q % Cap].kind = "data"  BY <1>1, <2>1 DEF RecordAt, PayloadAt
    <2>3. QED BY <2>2 DEF HeaderAt, Headers
  <1>6. HeaderAt(ring, pend.at)  BY <1>1 DEF RecordAt
  <1>7. Queued(ring, rpos, end, K)
          = Queued(ring, rpos, pend.at, K)
              \cup (IF ring[pend.at % Cap].kind \in K THEN {pend.at} ELSE {})
    <2>1. pend.at < end  BY <1>1, <1>9e
    <2>2. QED BY <1>1, <1>3, <1>5, <1>6, <2>1, QueuedAppend
  <1>8. QED BY <1>1, <1>2, <1>4, <1>7, <1>9e

\* commit_marker publishes the marker.
LEMMA MarkerQueue ==
    ASSUME TypeOK, RingInv, PendInv, Marker, NEW K \in SUBSET {"op", "frame"}, "frame" \in K
    PROVE  Queued(ring', rpos', wpos', K) = Queued(ring, rpos, wpos, K) \cup {wpos}
  <1>1. rpos \in Nat /\ wpos \in Nat /\ ring \in [Offsets -> Cell] /\ rpos <= wpos
    BY DEF RingInv, TypeOK, DataType
  <1>2. ring' = Written(ring, wpos, 1, "frame") /\ wpos' = wpos + 1 /\ rpos' = rpos
    BY DEF Marker
  <1>3. "frame" \in Headers /\ "frame" # "pad" /\ 1 \in Nat \ {0}
        /\ (wpos % Cap) + 1 <= Cap
    BY <1>1, DivMod, CapAssumption DEF Headers
  <1>4. RecordAt(ring', wpos) /\ ring'[wpos % Cap].kind = "frame"
    BY <1>1, <1>2, <1>3, WrittenRecord
  <1>9m. PICK mem : mem = ring'  OBVIOUS
  <1>9e. PICK end \in Nat : end = wpos + 1  BY <1>1
  <1>5. HeaderAt(mem, wpos)  BY <1>4, <1>9m DEF RecordAt
  <1>6. Queued(mem, rpos, wpos, K) = Queued(ring, rpos, wpos, K)
    <2>1. \A q \in rpos .. wpos - 1 : mem[q % Cap] = ring[q % Cap]
      BY <1>9m, WritesKeep
    <2>2. QED BY <1>1, <2>1, QueuedSame
  <1>7. Queued(mem, rpos, end, K)
          = Queued(mem, rpos, wpos, K) \cup (IF mem[wpos % Cap].kind \in K THEN {wpos} ELSE {})
    <2>1. \A p : p \in rpos .. end - 1 <=> p \in rpos .. wpos - 1 \/ p = wpos
      BY <1>1, <1>9e
    <2>2. mem[wpos % Cap].at = wpos  BY <1>5 DEF HeaderAt
    <2>3. QED BY <2>1, <2>2 DEF Queued
  <1>8. QED BY <1>2, <1>4, <1>6, <1>7, <1>9e, <1>9m

\* The store of rpos takes away the record it stands at and no other.
LEMMA StoreQueue ==
    ASSUME TypeOK, RingInv, RenderStore, NEW K \in SUBSET {"op", "frame"}
    PROVE  /\ Queued(ring', rpos', wpos', K) = Queued(ring, rpos, wpos, K) \ {rpos}
           /\ rpos \in Queued(ring, rpos, wpos, K) <=> At(rpos).kind \in K
           /\ At(rpos).kind \in Headers
           /\ rpos' > rpos
  <1>. DEFINE n == ring[rpos % Cap].size
  <1>1. rpos \in Nat /\ wpos \in Nat /\ ring \in [Offsets -> Cell] /\ rpos < wpos
        /\ Chain(ring, rpos, wpos)
    BY DEF TypeOK, DataType, RingInv, RenderStore
  <1>2. n \in Nat /\ n > 0  BY <1>1, ChainDrop
  <1>3. rpos \in rpos .. wpos - 1 /\ HeaderAt(ring, rpos)  BY <1>1 DEF Chain
  <1>4. \A q \in rpos + 1 .. rpos + n - 1 : ~HeaderAt(ring, q)
    BY <1>1, <1>3 DEF Chain
  <1>5. rpos' = rpos + n /\ ring' = ring /\ wpos' = wpos  BY DEF RenderStore, At
  <1>. HIDE DEF n
  <1>6. K \in SUBSET Headers  BY DEF Headers
  <1>7. Queued(ring, rpos + n, wpos, K) = Queued(ring, rpos, wpos, K) \ {rpos}
    BY <1>1, <1>2, <1>4, <1>6, QueuedDrop
  <1>8. ring[rpos % Cap].at = rpos /\ ring[rpos % Cap].kind \in Headers
    BY <1>3 DEF HeaderAt
  <1>9. rpos \in Queued(ring, rpos, wpos, K) <=> At(rpos).kind \in K
    BY <1>3, <1>8 DEF Queued, At
  <1>10. QED BY <1>1, <1>2, <1>5, <1>7, <1>8, <1>9 DEF At

-----------------------------------------------------------------------------
(* The frame counters *)

\* The markers in the ring can be counted.
LEMMA MarkersFinite ==
    ASSUME TypeOK
    PROVE  IsFiniteSet(Markers) /\ Cardinality(Markers) \in Nat
  <1>1. rpos \in Int /\ wpos - 1 \in Int  BY DEF TypeOK, DataType
  <1>2. IsFiniteSet(rpos .. wpos - 1)  BY <1>1, FS_Interval
  <1>3. Markers \subseteq rpos .. wpos - 1  BY DEF Markers
  <1>4. IsFiniteSet(Markers)  BY <1>2, <1>3, FS_Subset
  <1>5. QED BY <1>4, FS_CardinalityType

\* The same, as a fact of every state.
LEMMA MarkersCounted == TypeOK => Cardinality(Markers) \in Nat
  BY MarkersFinite

\* A step that moves neither position and rewrites no unread cell leaves the markers
\* and the live records in place.
LEMMA QueueKept ==
    ASSUME TypeOK, UNCHANGED <<wpos, rpos>>,
           \A q \in rpos .. wpos - 1 : ring'[q % Cap] = ring[q % Cap]
    PROVE  Markers' = Markers /\ LiveRecords' = LiveRecords
  BY DEF Markers, LiveRecords, At

\* commit_marker adds one to the markers ...
LEMMA MarkerCount ==
    ASSUME TypeOK, RingInv, PendInv, Marker
    PROVE  Cardinality(Markers') = Cardinality(Markers) + 1
  <1>1. Queued(ring', rpos', wpos', {"frame"}) = Queued(ring, rpos, wpos, {"frame"}) \cup {wpos}
    BY MarkerQueue
  <1>2. Markers' = Queued(ring', rpos', wpos', {"frame"})  BY DEF Markers, Queued, At
  <1>3. Markers' = Markers \cup {wpos}  BY <1>1, <1>2, QueuedSets
  <1>4. wpos \notin Markers  BY DEF Markers, TypeOK, DataType
  <1>5. IsFiniteSet(Markers)  BY MarkersFinite
  <1>6. QED BY <1>3, <1>4, <1>5, FS_AddElement

\* ... and the store of rpos takes one away when it stands at a marker.
LEMMA StoreCount ==
    ASSUME TypeOK, RingInv, RenderStore
    PROVE  Cardinality(Markers)
             = Cardinality(Markers') + (IF At(rpos).kind = "frame" THEN 1 ELSE 0)
  <1>1. Queued(ring', rpos', wpos', {"frame"}) = Queued(ring, rpos, wpos, {"frame"}) \ {rpos}
        /\ (rpos \in Queued(ring, rpos, wpos, {"frame"}) <=> At(rpos).kind \in {"frame"})
    BY StoreQueue
  <1>2. Markers' = Queued(ring', rpos', wpos', {"frame"})  BY DEF Markers, Queued, At
  <1>3. Markers' = Markers \ {rpos} /\ (rpos \in Markers <=> At(rpos).kind = "frame")
    BY <1>1, <1>2, QueuedSets
  <1>4. IsFiniteSet(Markers) /\ Cardinality(Markers) \in Nat  BY MarkersFinite
  <1>5. CASE rpos \in Markers
    <2>1. Cardinality(Markers \ {rpos}) = Cardinality(Markers) - 1
      BY <1>4, <1>5, FS_RemoveElement
    <2>2. QED BY <1>3, <1>4, <1>5, <2>1
  <1>6. CASE rpos \notin Markers
    <2>1. Markers' = Markers  BY <1>3, <1>6
    <2>2. Cardinality(Markers') = Cardinality(Markers)  BY <2>1
    <2>3. At(rpos).kind # "frame"  BY <1>3, <1>6
    <2>4. QED BY <1>4, <2>2, <2>3
  <1>7. QED BY <1>5, <1>6

\* A frame the render thread has counted is still in the ring.
LEMMA CountedThere ==
    ASSUME TypeOK, RingInv, Counted
    PROVE  Cardinality(Markers) >= 1
  <1>1. rpos \in Nat /\ wpos \in Nat /\ rpos < wpos /\ Chain(ring, rpos, wpos)
        /\ At(rpos).kind = "frame"
    BY DEF TypeOK, DataType, RingInv, Counted
  <1>2. rpos \in rpos .. wpos - 1 /\ HeaderAt(ring, rpos)  BY <1>1 DEF Chain
  <1>3. rpos \in Markers  BY <1>1, <1>2 DEF HeaderAt, Markers, At
  <1>4. IsFiniteSet(Markers) /\ Cardinality(Markers) \in Nat  BY MarkersFinite
  <1>5. Cardinality(Markers) # 0  BY <1>3, <1>4, FS_EmptySet
  <1>6. QED BY <1>4, <1>5

\* The counters stay right when the markers do and nobody touches them.
LEMMA CountKept ==
    ASSUME TypeOK, CountInv, UNCHANGED <<ring, wpos, rpos, produced, consumed>>,
           Counted' <=> Counted, MarkerPending' <=> MarkerPending
    PROVE  CountInv'
  <1>1. Markers' = Markers  BY QueueKept
  <1>2. QED BY <1>1 DEF CountInv

\* Every step keeps the frame counters right.
LEMMA CountStep ==
    TypeOK /\ WaitInv /\ RingInv /\ PendInv /\ LifeInv /\ CountInv /\ [Next]_vars => CountInv'
  <1>. SUFFICES ASSUME TypeOK, WaitInv, RingInv, PendInv, LifeInv, CountInv, [Next]_vars
                PROVE  CountInv'
    OBVIOUS
  <1>. USE DEF vars, shared, dataVars, ringVars, frameVars, emuVars, renderVars, batchVars
  <1>0. /\ produced \in Nat /\ consumed \in Nat /\ Cardinality(Markers) \in Nat
        /\ rpos \in Nat /\ wpos \in Nat
    BY MarkersFinite DEF TypeOK, DataType
  <1>1. ASSUME UNCHANGED <<ring, wpos, rpos, produced, consumed, rpc>>,
               MarkerPending' <=> MarkerPending
        PROVE  CountInv'
    <2>1. Counted' <=> Counted  BY <1>1 DEF Counted, At
    <2>2. QED BY <1>1, <2>1, CountKept
  <1>2. ASSUME UNCHANGED <<ring, wpos, rpos, produced, consumed, epc, wait>>,
               rpc # "store", rpc' # "store"
        PROVE  CountInv'
    <2>1. Counted' <=> Counted  BY <1>2 DEF Counted
    <2>2. MarkerPending' <=> MarkerPending  BY <1>2 DEF MarkerPending
    <2>3. QED BY <1>2, <2>1, <2>2, CountKept
  <1>3. CASE UNCHANGED vars  BY <1>1, <1>3 DEF MarkerPending
  <1>4. ASSUME NEW n \in Sizes, CmdBegin(n) PROVE CountInv'
    <2>1. MarkerPending' <=> MarkerPending
      BY <1>4 DEF CmdBegin, EnterWait, MarkerPending, WaitInv, NoWait
    <2>2. QED BY <1>1, <1>4, <2>1 DEF CmdBegin
  <1>5. ASSUME NEW ret \in {"idle", "acqReq", "stopReq"}, Drain(ret) PROVE CountInv'
    <2>1. MarkerPending' <=> MarkerPending
      BY <1>5 DEF Drain, EnterWait, MarkerPending, WaitInv, NoWait
    <2>2. QED BY <1>1, <1>5, <2>1 DEF Drain
  <1>6. CASE EmuTest \/ EmuSleep
    <2>1. /\ UNCHANGED <<ring, wpos, rpos, produced, consumed, rpc>>
          /\ epc \in {"test", "sleep"}
          /\ \/ epc' = wait.ret /\ wait' = NoWait
             \/ epc' \in {"wake", "sleep"} /\ UNCHANGED wait
      BY <1>6 DEF EmuTest, EmuSleep, ForceWake
    <2>2. MarkerPending' <=> MarkerPending
      BY <2>1 DEF MarkerPending, PendInv, NoWait
    <2>3. QED BY <1>1, <2>1, <2>2
  <1>7. CASE EmuWake \/ EmuWakeLock \/ EmuSleepLock \/ EmuRelock
    <2>1. MarkerPending' <=> MarkerPending
      BY <1>7 DEF EmuWake, EmuWakeLock, EmuSleepLock, EmuRelock, MarkerPending, WaitInv
    <2>2. QED BY <1>1, <1>7, <2>1 DEF EmuWake, EmuWakeLock, EmuSleepLock, EmuRelock
  <1>8. CASE FrameBound \/ AcquireRequest
    <2>1. MarkerPending' <=> MarkerPending
      BY <1>8 DEF FrameBound, AcquireRequest, EnterWait, MarkerPending, WaitInv, NoWait
    <2>2. QED BY <1>1, <1>8, <2>1 DEF FrameBound, AcquireRequest
  <1>9. CASE AcquireCtx \/ ReleaseRequest \/ StopRequest \/ StopJoin \/ SpawnFail
             \/ Release \/ StopHeld \/ CallStopped
    <2>1. MarkerPending' <=> MarkerPending
      BY <1>9 DEF AcquireCtx, ReleaseRequest, StopRequest, StopJoin, SpawnFail, Release,
         StopHeld, CallStopped, MarkerPending
    <2>2. QED BY <1>1, <1>9, <2>1 DEF AcquireCtx, ReleaseRequest, StopRequest, StopJoin,
         SpawnFail, Release, StopHeld, CallStopped
  <1>10. CASE Spawn
    <2>1. UNCHANGED <<ring, wpos, rpos, produced, consumed, wait>> /\ epc = "spawn"
          /\ epc' = "idle" /\ rpc' = "start"
      BY <1>10 DEF Spawn
    <2>2. rpc # "store"  BY <2>1 DEF LifeInv
    <2>3. Counted' <=> Counted  BY <2>1, <2>2 DEF Counted
    <2>4. MarkerPending' <=> MarkerPending  BY <2>1 DEF MarkerPending
    <2>5. QED BY <2>1, <2>3, <2>4, CountKept
  <1>11. CASE FrameEndHeld
    <2>1. /\ UNCHANGED <<ring, wpos, rpos, epc, wait, rpc>>
          /\ produced' = produced + 1 /\ consumed' = consumed + 1
      BY <1>11 DEF FrameEndHeld
    <2>2. Markers' = Markers  BY <2>1, QueueKept
    <2>3. (Counted' <=> Counted) /\ (MarkerPending' <=> MarkerPending)
      BY <2>1 DEF Counted, MarkerPending, At
    <2>4. PICK a \in Nat : a = IF Counted THEN 1 ELSE 0  OBVIOUS
    <2>5. PICK b \in Nat : b = IF MarkerPending THEN 1 ELSE 0  OBVIOUS
    <2>6. PICK m \in Nat : m = Cardinality(Markers)  BY <1>0
    <2>7. produced + a = consumed + m + b  BY <2>4, <2>5, <2>6 DEF CountInv
    <2>8. (produced + 1) + a = (consumed + 1) + m + b
      BY <1>0, <2>4, <2>5, <2>6, <2>7
    <2>9. Cardinality(Markers') = m  BY <2>2, <2>6
    <2>10. produced' + a = consumed' + Cardinality(Markers') + b
      BY <2>1, <2>8, <2>9
    <2>11. QED BY <2>3, <2>4, <2>5, <2>10 DEF CountInv
  <1>12. CASE FrameEnd
    <2>1. /\ UNCHANGED <<ring, wpos, rpos, consumed, rpc>> /\ epc = "idle"
          /\ produced' = produced + 1
          /\ \/ epc' = "marker"
             \/ wait' = [pred |-> "space", arg |-> wpos + 1, ret |-> "marker"]
      BY <1>12 DEF FrameEnd, EnterWait
    <2>2. Markers' = Markers  BY <2>1, QueueKept
    <2>3. Counted' <=> Counted  BY <2>1 DEF Counted, At
    <2>4. ~MarkerPending  BY <2>1 DEF MarkerPending, WaitInv, NoWait
    <2>5. MarkerPending'  BY <2>1 DEF MarkerPending
    <2>6. QED BY <1>0, <2>1, <2>2, <2>3, <2>4, <2>5 DEF CountInv
  <1>13. CASE CmdWrite \/ CmdCommit
    <2>1. /\ UNCHANGED <<rpos, produced, consumed, wait, rpc>>
          /\ epc \in {"write", "commit"} /\ epc' \in {"commit", "idle", "wake"}
      BY <1>13 DEF CmdWrite, CmdCommit, ForceWake
    <2>2. MarkerPending' <=> MarkerPending  BY <2>1 DEF MarkerPending
    <2>3. rpc = "store" => At(rpos)' = At(rpos)
      <3>1. rpc = "store" => rpos \in rpos .. wpos - 1  BY <1>0 DEF RingInv
      <3>2. CASE CmdWrite  BY <2>1, <3>1, <3>2, WritesKeep DEF At
      <3>3. CASE CmdCommit  BY <2>1, <3>3 DEF CmdCommit, At
      <3>4. QED BY <1>13, <3>2, <3>3
    <2>4. Counted' <=> Counted  BY <2>1, <2>3 DEF Counted
    <2>5. Markers' = Markers
      <3>1. CASE CmdWrite
        <4>1. UNCHANGED <<wpos, rpos>>  BY <3>1 DEF CmdWrite
        <4>2. QED BY <3>1, <4>1, WritesKeep, QueueKept
      <3>2. CASE CmdCommit
        <4>1. Queued(ring', rpos', wpos', {"frame"})
                = Queued(ring, rpos, wpos, {"frame"}) \cup (IF "op" \in {"frame"} THEN {pend.at} ELSE {})
          BY <3>2, CommitQueue
        <4>2. Markers' = Queued(ring', rpos', wpos', {"frame"})  BY DEF Markers, Queued, At
        <4>3. QED BY <4>1, <4>2, QueuedSets
      <3>3. QED BY <1>13, <3>1, <3>2
    <2>6. QED BY <2>1, <2>2, <2>4, <2>5 DEF CountInv
  <1>14. CASE Marker
    <2>1. /\ UNCHANGED <<rpos, produced, consumed, wait, rpc>>
          /\ epc = "marker" /\ epc' = "wake"
      BY <1>14 DEF Marker, ForceWake
    <2>2. MarkerPending /\ ~MarkerPending'  BY <2>1 DEF MarkerPending, WaitInv, NoWait
    <2>3. rpc = "store" => At(rpos)' = At(rpos)
      <3>1. rpc = "store" => rpos \in rpos .. wpos - 1  BY <1>0 DEF RingInv
      <3>2. QED BY <1>14, <2>1, <3>1, WritesKeep DEF At
    <2>4. Counted' <=> Counted  BY <2>1, <2>3 DEF Counted
    <2>5. Cardinality(Markers') = Cardinality(Markers) + 1  BY <1>14, MarkerCount
    <2>6. QED BY <1>0, <2>1, <2>2, <2>4, <2>5 DEF CountInv
  <1>15. CASE Start
    <2>1. /\ wpos' = 0 /\ rpos' = 0 /\ produced' = 0 /\ consumed' = 0
          /\ epc' = "spawn" /\ rpc' = "none" /\ wait' = NoWait
      BY <1>15 DEF Start
    <2>2. Markers' = {}  BY <2>1 DEF Markers
    <2>3. Cardinality(Markers') = 0  BY <2>2, FS_EmptySet
    <2>4. ~Counted' /\ ~MarkerPending'  BY <2>1 DEF Counted, MarkerPending, NoWait
    <2>5. QED BY <2>1, <2>3, <2>4 DEF CountInv
  <1>16. CASE RenderExec
    <2>1. /\ UNCHANGED <<ring, wpos, rpos, produced, epc, wait>>
          /\ rpc = "exec" /\ rpc' = "store"
          /\ consumed' = IF At(rpos).kind = "frame" THEN consumed + 1 ELSE consumed
      BY <1>16 DEF RenderExec
    <2>2. Markers' = Markers  BY <2>1, QueueKept
    <2>3. ~Counted /\ (Counted' <=> At(rpos).kind = "frame")
          /\ (MarkerPending' <=> MarkerPending)
      BY <2>1 DEF Counted, MarkerPending, At
    <2>4. QED BY <1>0, <2>1, <2>2, <2>3 DEF CountInv
  <1>17. CASE RenderStore
    <2>1. /\ UNCHANGED <<produced, consumed, epc, wait>>
          /\ rpc = "store" /\ rpc' = "wakeEmu"
      BY <1>17 DEF RenderStore
    <2>2. Cardinality(Markers)
            = Cardinality(Markers') + (IF At(rpos).kind = "frame" THEN 1 ELSE 0)
      BY <1>17, StoreCount
    <2>3. ~Counted' /\ (Counted <=> At(rpos).kind = "frame")
          /\ (MarkerPending' <=> MarkerPending)
      BY <2>1 DEF Counted, MarkerPending
    <2>4. Cardinality(Markers') \in Nat
      <3>1. TypeOK'  BY TypeStep
      <3>2. (Cardinality(Markers) \in Nat)'  BY <3>1, MarkersCounted, PTL
      <3>3. QED BY <3>2
    <2>5. QED BY <1>0, <2>1, <2>2, <2>3, <2>4 DEF CountInv
  <1>18. CASE RenderStart \/ RunTick \/ RenderPoll \/ RenderWakeEmu \/ RenderWakeEmuLock
              \/ RenderLock \/ RenderSleep \/ RenderAwake \/ ServeCtx0
              \/ ServeReleased \/ ServeWait \/ ServeCtx1 \/ ServeReturn \/ RenderExit
    BY <1>2, <1>18 DEF RenderStart, RunTick, RenderPoll, RenderWakeEmu, RenderWakeEmuLock,
       RenderLock, RenderSleep, RenderAwake, ServeCtx0, ServeReleased, ServeWait,
       ServeCtx1, ServeReturn, RenderExit
  <1>19. CASE RenderRelock \/ Spurious
    <2>1. UNCHANGED <<ring, wpos, rpos, produced, consumed, epc, wait, rpc>>
      BY <1>19 DEF RenderRelock, Spurious
    <2>2. QED BY <1>1, <2>1 DEF MarkerPending
  <1>20. QED
    BY <1>3, <1>4, <1>5, <1>6, <1>7, <1>8, <1>9, <1>10, <1>11, <1>12, <1>13, <1>14, <1>15,
       <1>16, <1>17, <1>18, <1>19
    DEF Next, EmuCall, EmuStep, RenderStep

\* One frame more consumed leaves no more in flight.
LEMMA LessAhead ==
    ASSUME NEW a \in Nat, NEW b \in Nat, NEW c \in Nat, NEW lim \in Nat, a - b <= lim, c >= b
    PROVE  a - c <= lim
  OBVIOUS

\* Every step keeps the bound of rt_frame_end.
LEMMA BoundStep == TypeOK /\ WaitInv /\ PendInv /\ BoundInv /\ [Next]_vars => BoundInv'
  <1>. SUFFICES ASSUME TypeOK, WaitInv, PendInv, BoundInv, [Next]_vars
                PROVE  BoundInv'
    OBVIOUS
  <1>. USE DEF vars, shared, dataVars, ringVars, frameVars, emuVars, renderVars, batchVars
  <1>0. produced \in Nat /\ consumed \in Nat /\ MaxFrames \in Nat
    BY MaxFramesAssumption DEF TypeOK, DataType
  <1>1. ASSUME UNCHANGED wait \/ wait'.pred # "frames",
               produced' - consumed' = produced - consumed,
               InFrameEnd => InFrameEnd' \/ produced - consumed <= MaxFrames
        PROVE  BoundInv'
    <2>1. wait'.pred = "frames" => wait'.arg = MaxFrames /\ wait'.ret = "idle"
      BY <1>1 DEF BoundInv
    <2>2. produced - consumed <= MaxFrames + (IF InFrameEnd THEN 1 ELSE 0)
      BY DEF BoundInv
    <2>3. produced' - consumed' <= MaxFrames + (IF InFrameEnd' THEN 1 ELSE 0)
      BY <1>0, <1>1, <2>2
    <2>4. QED BY <2>1, <2>3 DEF BoundInv
  <1>2. CASE UNCHANGED vars  BY <1>1, <1>2 DEF InFrameEnd, MarkerPending
  <1>3. ASSUME NEW n \in Sizes, CmdBegin(n) PROVE BoundInv'
    <2>1. wait'.pred # "frames" /\ UNCHANGED <<produced, consumed>> /\ ~InFrameEnd
      BY <1>3 DEF CmdBegin, EnterWait, WaitInv, NoWait, InFrameEnd, MarkerPending
    <2>2. QED BY <1>1, <2>1
  <1>4. ASSUME NEW ret \in {"idle", "acqReq", "stopReq"}, Drain(ret) PROVE BoundInv'
    <2>1. wait'.pred # "frames" /\ UNCHANGED <<produced, consumed>> /\ ~InFrameEnd
      BY <1>4 DEF Drain, EnterWait, WaitInv, NoWait, InFrameEnd, MarkerPending
    <2>2. QED BY <1>1, <2>1
  <1>5. CASE EmuTest \/ EmuSleep
    <2>1. /\ UNCHANGED <<produced, consumed>> /\ epc \in {"test", "sleep"}
          /\ \/ Pred(wait) /\ epc' = wait.ret /\ wait' = NoWait
             \/ epc' \in {"wake", "sleep"} /\ UNCHANGED wait
      BY <1>5 DEF EmuTest, EmuSleep, ForceWake
    <2>2. CASE epc' \in {"wake", "sleep"} /\ UNCHANGED wait
      <3>1. InFrameEnd => InFrameEnd'
        BY <2>1, <2>2 DEF InFrameEnd, MarkerPending
      <3>2. QED BY <1>1, <2>1, <2>2, <3>1
    <2>3. CASE Pred(wait) /\ epc' = wait.ret /\ wait' = NoWait
      <3>1. wait.pred = "frames" => produced - consumed <= MaxFrames
        BY <2>3 DEF BoundInv, Pred, PredFrames
      <3>2. InFrameEnd => wait.pred = "frames" \/ wait.ret = "marker"
        BY <2>1 DEF InFrameEnd, MarkerPending
      <3>3. wait.ret = "marker" => InFrameEnd'
        BY <2>3 DEF InFrameEnd, MarkerPending
      <3>4. wait'.pred # "frames"  BY <2>3 DEF NoWait
      <3>5. QED BY <1>1, <2>1, <3>1, <3>2, <3>3, <3>4
    <2>4. QED BY <2>1, <2>2, <2>3
  <1>6. CASE EmuWake \/ EmuWakeLock \/ EmuSleepLock \/ EmuRelock
    <2>1. UNCHANGED <<wait, produced, consumed>>
      BY <1>6 DEF EmuWake, EmuWakeLock, EmuSleepLock, EmuRelock
    <2>2. InFrameEnd => InFrameEnd'
      BY <1>6 DEF EmuWake, EmuWakeLock, EmuSleepLock, EmuRelock, InFrameEnd, MarkerPending
    <2>3. QED BY <1>1, <2>1, <2>2
  <1>7. CASE FrameBound
    <2>1. UNCHANGED <<produced, consumed>> /\ epc = "frames"  BY <1>7 DEF FrameBound
    <2>2. CASE PredFrames(MaxFrames) /\ UNCHANGED wait
      BY <1>1, <2>1, <2>2 DEF PredFrames
    <2>3. CASE EnterWait("frames", MaxFrames, "idle")
      <3>1. wait'.pred = "frames" /\ wait'.arg = MaxFrames /\ wait'.ret = "idle"
        BY <2>3 DEF EnterWait
      <3>2. InFrameEnd /\ InFrameEnd'  BY <2>1, <3>1 DEF InFrameEnd
      <3>3. produced' - consumed' <= MaxFrames + (IF InFrameEnd' THEN 1 ELSE 0)
        BY <2>1, <3>2 DEF BoundInv
      <3>4. QED BY <3>1, <3>3 DEF BoundInv
    <2>4. QED BY <1>7, <2>2, <2>3 DEF FrameBound
  <1>8. CASE CmdWrite \/ CmdCommit \/ AcquireRequest \/ AcquireCtx \/ ReleaseRequest
             \/ StopRequest \/ StopJoin \/ Spawn \/ SpawnFail
             \/ Release \/ StopHeld \/ CallStopped \/ FrameEndHeld
    <2>1. epc \in {"write", "commit", "acqReq", "acqCtx", "relReq", "stopReq", "join",
                   "spawn", "idle"}
      BY <1>8 DEF CmdWrite, CmdCommit, AcquireRequest, AcquireCtx, ReleaseRequest,
         StopRequest, StopJoin, Spawn, SpawnFail, Release, StopHeld, CallStopped, FrameEndHeld
    <2>2. ~InFrameEnd  BY <2>1 DEF WaitInv, NoWait, InFrameEnd, MarkerPending
    <2>3. UNCHANGED wait \/ wait'.pred # "frames"
      BY <1>8 DEF CmdWrite, CmdCommit, AcquireRequest, AcquireCtx, ReleaseRequest,
         StopRequest, StopJoin, Spawn, SpawnFail, Release, StopHeld, CallStopped,
         FrameEndHeld, EnterWait
    <2>4. UNCHANGED <<produced, consumed>>
          \/ (produced' = produced + 1 /\ consumed' = consumed + 1)
      BY <1>8 DEF CmdWrite, CmdCommit, AcquireRequest, AcquireCtx, ReleaseRequest,
         StopRequest, StopJoin, Spawn, SpawnFail, Release, StopHeld, CallStopped,
         FrameEndHeld
    <2>5. produced' - consumed' = produced - consumed  BY <1>0, <2>4
    <2>6. QED BY <1>1, <2>2, <2>3, <2>5
  <1>9. CASE FrameEnd
    <2>1. /\ UNCHANGED consumed /\ epc = "idle" /\ produced' = produced + 1
          /\ \/ epc' = "marker" /\ UNCHANGED wait
             \/ wait' = [pred |-> "space", arg |-> wpos + 1, ret |-> "marker"]
      BY <1>9 DEF FrameEnd, EnterWait
    <2>2. ~InFrameEnd /\ InFrameEnd' /\ wait'.pred # "frames"
      BY <2>1 DEF WaitInv, NoWait, InFrameEnd, MarkerPending
    <2>3. produced - consumed <= MaxFrames  BY <1>0, <2>2 DEF BoundInv
    <2>4. produced' - consumed' <= MaxFrames + 1  BY <1>0, <2>1, <2>3
    <2>5. QED BY <2>2, <2>4 DEF BoundInv
  <1>10. CASE Marker
    <2>1. UNCHANGED <<wait, produced, consumed>> /\ epc' = "wake" /\ wakeTo' = "frames"
      BY <1>10 DEF Marker, ForceWake
    <2>2. InFrameEnd'  BY <2>1 DEF InFrameEnd
    <2>3. QED BY <1>1, <2>1, <2>2
  <1>11. CASE Start
    <2>1. produced' = 0 /\ consumed' = 0 /\ wait' = NoWait  BY <1>11 DEF Start
    <2>2. wait'.pred # "frames"  BY <2>1 DEF NoWait
    <2>3. produced' - consumed' <= MaxFrames + (IF InFrameEnd' THEN 1 ELSE 0)
      BY <1>0, <2>1
    <2>4. QED BY <2>2, <2>3 DEF BoundInv
  <1>12. CASE RenderExec
    <2>1. UNCHANGED <<produced, epc, wait, wakeTo>>
          /\ (consumed' = consumed + 1 \/ consumed' = consumed)
      BY <1>12 DEF RenderExec
    <2>2. InFrameEnd' <=> InFrameEnd  BY <2>1 DEF InFrameEnd, MarkerPending
    <2>3. produced' - consumed' <= produced - consumed  BY <1>0, <2>1
    <2>4. consumed' \in Nat  BY <1>0, <2>1
    <2>5. produced' - consumed' <= MaxFrames + (IF InFrameEnd' THEN 1 ELSE 0)
      <3>1. produced - consumed <= MaxFrames + (IF InFrameEnd THEN 1 ELSE 0)
        BY DEF BoundInv
      <3>2. PICK lim \in Nat : lim = MaxFrames + (IF InFrameEnd THEN 1 ELSE 0)  BY <1>0
      <3>3. produced - consumed <= lim  BY <3>1, <3>2
      <3>4. produced' - consumed' <= lim
        <4>1. produced' = produced  BY <2>1
        <4>2. consumed' >= consumed  BY <1>0, <2>1
        <4>3. produced - consumed' <= lim  BY <1>0, <2>4, <3>3, <4>2, LessAhead
        <4>4. QED BY <4>1, <4>3
      <3>5. lim = MaxFrames + (IF InFrameEnd' THEN 1 ELSE 0)  BY <2>2, <3>2
      <3>6. QED BY <3>4, <3>5
    <2>6. QED BY <2>1, <2>5 DEF BoundInv
  <1>13. CASE RenderStart \/ RunTick \/ RenderPoll \/ RenderStore \/ RenderWakeEmu
              \/ RenderWakeEmuLock \/ RenderLock \/ RenderSleep \/ RenderRelock
              \/ RenderAwake \/ ServeCtx0 \/ ServeReleased \/ ServeWait \/ ServeCtx1
              \/ ServeReturn \/ RenderExit \/ Spurious
    <2>1. UNCHANGED <<produced, consumed, epc, wait, wakeTo>>
      BY <1>13 DEF RenderStart, RunTick, RenderPoll, RenderStore, RenderWakeEmu,
         RenderWakeEmuLock, RenderLock, RenderSleep, RenderRelock, RenderAwake, ServeCtx0,
         ServeReleased, ServeWait, ServeCtx1, ServeReturn, RenderExit, Spurious
    <2>2. InFrameEnd' <=> InFrameEnd  BY <2>1 DEF InFrameEnd, MarkerPending
    <2>3. QED BY <1>1, <2>1, <2>2
  <1>14. QED
    BY <1>2, <1>3, <1>4, <1>5, <1>6, <1>7, <1>8, <1>9, <1>10, <1>11, <1>12, <1>13
    DEF Next, EmuCall, EmuStep, RenderStep

-----------------------------------------------------------------------------
(* The hand-off of the context *)

\* The initial state: nothing is queued, nothing runs.
LEMMA InvInit == Init => IInv
  <1>. SUFFICES ASSUME Init PROVE IInv  OBVIOUS
  <1>1. TypeOK  BY TypeInit
  <1>2. WaitInv  BY DEF Init, WaitInv, NoWait
  <1>3. RingInv
    <2>1. Chain(ring, 0, 0)  BY DEF Chain
    <2>2. QED BY <2>1, CapAssumption DEF Init, RingInv
  <1>4. FreshInv  BY DEF Init, FreshInv, JunkCell, Headers
  <1>5. PendInv  BY DEF Init, PendInv, NoWait
  <1>6. CtxInv  BY DEF Init, CtxInv, RenderHasCtx, RenderLacksCtx
  <1>7. LifeInv  BY DEF Init, LifeInv, NoWait
  <1>8. HandInv  BY DEF Init, HandInv, NoWait
  <1>9. CountInv
    <2>1. Markers = {}  BY DEF Init, Markers
    <2>2. Cardinality(Markers) = 0  BY <2>1, FS_EmptySet
    <2>3. ~Counted /\ ~MarkerPending  BY DEF Init, Counted, MarkerPending, NoWait
    <2>4. QED BY <2>2, <2>3 DEF Init, CountInv
  <1>10. BoundInv  BY MaxFramesAssumption DEF Init, BoundInv, NoWait
  <1>11. QED
    BY <1>1, <1>2, <1>3, <1>4, <1>5, <1>6, <1>7, <1>8, <1>9, <1>10 DEF IInv

\* Every step preserves the three invariants of the hand-off.
LEMMA HandStep == IInv /\ [Next]_vars => CtxInv' /\ LifeInv' /\ HandInv'
  <1>. SUFFICES ASSUME TypeOK, WaitInv, RingInv, CtxInv, LifeInv, HandInv, [Next]_vars
                PROVE  CtxInv' /\ LifeInv' /\ HandInv'
    BY DEF IInv
  <1>. USE DEF vars, shared, dataVars, ringVars, frameVars, sleepVars, flagVars, lockVars,
           handVars, batchVars, emuVars, renderVars, RenderHasCtx, RenderLacksCtx
  <1>1. CASE UNCHANGED vars
    BY <1>1 DEF CtxInv, LifeInv, HandInv
  <1>2. ASSUME NEW n \in Sizes, CmdBegin(n) PROVE CtxInv' /\ LifeInv' /\ HandInv'
    <2>1. CtxInv'  BY <1>2 DEF CmdBegin, EnterWait, CtxInv, LifeInv, HandInv, WaitInv
    <2>2. LifeInv'  BY <1>2 DEF CmdBegin, EnterWait, LifeInv, HandInv, WaitInv
    <2>3. HandInv'  BY <1>2 DEF CmdBegin, EnterWait, CtxInv, LifeInv, HandInv, WaitInv, RingInv, NoWait, TypeOK, DataType
    <2>4. QED BY <2>1, <2>2, <2>3
  <1>3. ASSUME NEW ret \in {"idle", "acqReq", "stopReq"}, Drain(ret) PROVE CtxInv' /\ LifeInv' /\ HandInv'
    <2>1. CtxInv'  BY <1>3 DEF Drain, EnterWait, CtxInv, LifeInv, HandInv, WaitInv
    <2>2. LifeInv'  BY <1>3 DEF Drain, EnterWait, LifeInv, HandInv, WaitInv
    <2>3. HandInv'  BY <1>3 DEF Drain, EnterWait, CtxInv, LifeInv, HandInv, WaitInv, RingInv, NoWait, TypeOK, DataType
    <2>4. QED BY <2>1, <2>2, <2>3
  <1>4. CASE EmuTest
    <2>1. wait.pred = "drained" /\ Pred(wait) => rpos = wait.arg  BY DEF Pred, PredDrained
    <2>2. wait.pred = "released" /\ Pred(wait) => released  BY DEF Pred, PredReleased
    <2>3. \/ Pred(wait) /\ epc' = wait.ret /\ wait' = NoWait
          \/ epc' \in {"wake", "sleep"} /\ UNCHANGED wait
      BY <1>4 DEF EmuTest, ForceWake
    <2>4. UNCHANGED <<wpos, rpos, running, releaseReq, stop, released, held, ctxOn, rpc>>
          /\ epc \in {"test", "sleep"}
      BY <1>4 DEF EmuTest
    <2>5. CtxInv'  BY <2>3, <2>4 DEF CtxInv, HandInv, WaitInv
    <2>6. LifeInv'  BY <2>3, <2>4 DEF LifeInv, HandInv, WaitInv
    <2>7. HandInv'
      <3>1. CASE epc' \in {"wake", "sleep"} /\ UNCHANGED wait
        BY <2>4, <3>1 DEF HandInv
      <3>2. CASE Pred(wait) /\ epc' = wait.ret /\ wait' = NoWait
        <4>1. ~held /\ ~stop  BY <2>4 DEF HandInv, LifeInv
        <4>2. wait.ret \in {"acqReq", "stopReq"} => wpos = rpos
          BY <2>1, <3>2 DEF HandInv, NoWait
        <4>3. wait.ret = "acqCtx" => rpc = "srvWait" /\ releaseReq /\ wpos = rpos
          BY <2>2, <3>2 DEF HandInv
        <4>4. wait.ret # "acqCtx" => ~releaseReq /\ rpc \notin {"srvCtx0", "srvLock"}
          BY <2>4, <4>1 DEF HandInv
        <4>5. QED BY <2>4, <3>2, <4>1, <4>2, <4>3, <4>4 DEF HandInv, WaitInv, NoWait
      <3>3. QED BY <2>3, <3>1, <3>2
    <2>8. QED BY <2>5, <2>6, <2>7
  <1>5. CASE EmuWake
    <2>1. CtxInv'  BY <1>5 DEF EmuWake, CtxInv, LifeInv, HandInv, WaitInv
    <2>2. LifeInv'  BY <1>5 DEF EmuWake, LifeInv, HandInv, WaitInv
    <2>3. HandInv'  BY <1>5 DEF EmuWake, CtxInv, LifeInv, HandInv, WaitInv, RingInv, NoWait, TypeOK, DataType
    <2>4. QED BY <2>1, <2>2, <2>3
  <1>6. CASE EmuWakeLock
    <2>1. CtxInv'  BY <1>6 DEF EmuWakeLock, CtxInv, LifeInv, HandInv, WaitInv
    <2>2. LifeInv'  BY <1>6 DEF EmuWakeLock, LifeInv, HandInv, WaitInv
    <2>3. HandInv'  BY <1>6 DEF EmuWakeLock, CtxInv, LifeInv, HandInv, WaitInv, RingInv, NoWait, TypeOK, DataType
    <2>4. QED BY <2>1, <2>2, <2>3
  <1>7. CASE EmuSleepLock
    <2>1. CtxInv'  BY <1>7 DEF EmuSleepLock, CtxInv, LifeInv, HandInv, WaitInv
    <2>2. LifeInv'  BY <1>7 DEF EmuSleepLock, LifeInv, HandInv, WaitInv
    <2>3. HandInv'  BY <1>7 DEF EmuSleepLock, CtxInv, LifeInv, HandInv, WaitInv, RingInv, NoWait, TypeOK, DataType
    <2>4. QED BY <2>1, <2>2, <2>3
  <1>8. CASE EmuSleep
    <2>1. wait.pred = "drained" /\ Pred(wait) => rpos = wait.arg  BY DEF Pred, PredDrained
    <2>2. wait.pred = "released" /\ Pred(wait) => released  BY DEF Pred, PredReleased
    <2>3. \/ Pred(wait) /\ epc' = wait.ret /\ wait' = NoWait
          \/ epc' \in {"wake", "sleep"} /\ UNCHANGED wait
      BY <1>8 DEF EmuSleep
    <2>4. UNCHANGED <<wpos, rpos, running, releaseReq, stop, released, held, ctxOn, rpc>>
          /\ epc \in {"test", "sleep"}
      BY <1>8 DEF EmuSleep
    <2>5. CtxInv'  BY <2>3, <2>4 DEF CtxInv, HandInv, WaitInv
    <2>6. LifeInv'  BY <2>3, <2>4 DEF LifeInv, HandInv, WaitInv
    <2>7. HandInv'
      <3>1. CASE epc' \in {"wake", "sleep"} /\ UNCHANGED wait
        BY <2>4, <3>1 DEF HandInv
      <3>2. CASE Pred(wait) /\ epc' = wait.ret /\ wait' = NoWait
        <4>1. ~held /\ ~stop  BY <2>4 DEF HandInv, LifeInv
        <4>2. wait.ret \in {"acqReq", "stopReq"} => wpos = rpos
          BY <2>1, <3>2 DEF HandInv, NoWait
        <4>3. wait.ret = "acqCtx" => rpc = "srvWait" /\ releaseReq /\ wpos = rpos
          BY <2>2, <3>2 DEF HandInv
        <4>4. wait.ret # "acqCtx" => ~releaseReq /\ rpc \notin {"srvCtx0", "srvLock"}
          BY <2>4, <4>1 DEF HandInv
        <4>5. QED BY <2>4, <3>2, <4>1, <4>2, <4>3, <4>4 DEF HandInv, WaitInv, NoWait
      <3>3. QED BY <2>3, <3>1, <3>2
    <2>8. QED BY <2>5, <2>6, <2>7
  <1>9. CASE EmuRelock
    <2>1. CtxInv'  BY <1>9 DEF EmuRelock, CtxInv, LifeInv, HandInv, WaitInv
    <2>2. LifeInv'  BY <1>9 DEF EmuRelock, LifeInv, HandInv, WaitInv
    <2>3. HandInv'  BY <1>9 DEF EmuRelock, CtxInv, LifeInv, HandInv, WaitInv, RingInv, NoWait, TypeOK, DataType
    <2>4. QED BY <2>1, <2>2, <2>3
  <1>10. CASE CmdWrite
    <2>1. CtxInv'  BY <1>10 DEF CmdWrite, CtxInv, LifeInv, HandInv, WaitInv
    <2>2. LifeInv'  BY <1>10 DEF CmdWrite, LifeInv, HandInv, WaitInv
    <2>3. HandInv'  BY <1>10 DEF CmdWrite, CtxInv, LifeInv, HandInv, WaitInv, RingInv, NoWait, TypeOK, DataType
    <2>4. QED BY <2>1, <2>2, <2>3
  <1>11. CASE CmdCommit
    <2>1. CtxInv'  BY <1>11 DEF CmdCommit, ForceWake, CtxInv, LifeInv, HandInv, WaitInv
    <2>2. LifeInv'  BY <1>11 DEF CmdCommit, ForceWake, LifeInv, HandInv, WaitInv
    <2>3. HandInv'  BY <1>11 DEF CmdCommit, ForceWake, CtxInv, LifeInv, HandInv, WaitInv, RingInv, NoWait, TypeOK, DataType
    <2>4. QED BY <2>1, <2>2, <2>3
  <1>12. CASE Marker
    <2>1. CtxInv'  BY <1>12 DEF Marker, ForceWake, CtxInv, LifeInv, HandInv, WaitInv
    <2>2. LifeInv'  BY <1>12 DEF Marker, ForceWake, LifeInv, HandInv, WaitInv
    <2>3. HandInv'  BY <1>12 DEF Marker, ForceWake, CtxInv, LifeInv, HandInv, WaitInv, RingInv, NoWait, TypeOK, DataType
    <2>4. QED BY <2>1, <2>2, <2>3
  <1>13. CASE FrameBound
    <2>1. CtxInv'  BY <1>13 DEF FrameBound, EnterWait, CtxInv, LifeInv, HandInv, WaitInv
    <2>2. LifeInv'  BY <1>13 DEF FrameBound, EnterWait, LifeInv, HandInv, WaitInv
    <2>3. HandInv'  BY <1>13 DEF FrameBound, EnterWait, CtxInv, LifeInv, HandInv, WaitInv, RingInv, NoWait, TypeOK, DataType
    <2>4. QED BY <2>1, <2>2, <2>3
  <1>14. CASE AcquireRequest
    <2>1. CtxInv'  BY <1>14 DEF AcquireRequest, EnterWait, CtxInv, LifeInv, HandInv, WaitInv
    <2>2. LifeInv'  BY <1>14 DEF AcquireRequest, EnterWait, LifeInv, HandInv, WaitInv
    <2>3. HandInv'  BY <1>14 DEF AcquireRequest, EnterWait, CtxInv, LifeInv, HandInv, WaitInv, RingInv, NoWait, TypeOK, DataType
    <2>4. QED BY <2>1, <2>2, <2>3
  <1>15. CASE AcquireCtx
    <2>1. CtxInv'  BY <1>15 DEF AcquireCtx, CtxInv, LifeInv, HandInv, WaitInv
    <2>2. LifeInv'  BY <1>15 DEF AcquireCtx, LifeInv, HandInv, WaitInv
    <2>3. HandInv'  BY <1>15 DEF AcquireCtx, CtxInv, LifeInv, HandInv, WaitInv, RingInv, NoWait, TypeOK, DataType
    <2>4. QED BY <2>1, <2>2, <2>3
  <1>16. CASE ReleaseRequest
    <2>1. CtxInv'  BY <1>16 DEF ReleaseRequest, CtxInv, LifeInv, HandInv, WaitInv
    <2>2. LifeInv'  BY <1>16 DEF ReleaseRequest, LifeInv, HandInv, WaitInv
    <2>3. HandInv'  BY <1>16 DEF ReleaseRequest, CtxInv, LifeInv, HandInv, WaitInv, RingInv, NoWait, TypeOK, DataType
    <2>4. QED BY <2>1, <2>2, <2>3
  <1>17. CASE StopRequest
    <2>1. CtxInv'  BY <1>17 DEF StopRequest, CtxInv, LifeInv, HandInv, WaitInv
    <2>2. LifeInv'  BY <1>17 DEF StopRequest, LifeInv, HandInv, WaitInv
    <2>3. HandInv'  BY <1>17 DEF StopRequest, CtxInv, LifeInv, HandInv, WaitInv, RingInv, NoWait, TypeOK, DataType
    <2>4. QED BY <2>1, <2>2, <2>3
  <1>18. CASE StopJoin
    <2>1. CtxInv'  BY <1>18 DEF StopJoin, CtxInv, LifeInv, HandInv, WaitInv
    <2>2. LifeInv'  BY <1>18 DEF StopJoin, LifeInv, HandInv, WaitInv
    <2>3. HandInv'  BY <1>18 DEF StopJoin, CtxInv, LifeInv, HandInv, WaitInv, RingInv, NoWait, TypeOK, DataType
    <2>4. QED BY <2>1, <2>2, <2>3
  <1>19. CASE Spawn
    <2>1. CtxInv'  BY <1>19 DEF Spawn, CtxInv, LifeInv, HandInv, WaitInv
    <2>2. LifeInv'  BY <1>19 DEF Spawn, LifeInv, HandInv, WaitInv
    <2>3. HandInv'  BY <1>19 DEF Spawn, CtxInv, LifeInv, HandInv, WaitInv, RingInv, NoWait, TypeOK, DataType
    <2>4. QED BY <2>1, <2>2, <2>3
  <1>20. CASE SpawnFail
    <2>1. CtxInv'  BY <1>20 DEF SpawnFail, CtxInv, LifeInv, HandInv, WaitInv
    <2>2. LifeInv'  BY <1>20 DEF SpawnFail, LifeInv, HandInv, WaitInv
    <2>3. HandInv'  BY <1>20 DEF SpawnFail, CtxInv, LifeInv, HandInv, WaitInv, RingInv, NoWait, TypeOK, DataType
    <2>4. QED BY <2>1, <2>2, <2>3
  <1>21. CASE FrameEndHeld
    <2>1. CtxInv'  BY <1>21 DEF FrameEndHeld, CtxInv, LifeInv, HandInv, WaitInv
    <2>2. LifeInv'  BY <1>21 DEF FrameEndHeld, LifeInv, HandInv, WaitInv
    <2>3. HandInv'  BY <1>21 DEF FrameEndHeld, CtxInv, LifeInv, HandInv, WaitInv, RingInv, NoWait, TypeOK, DataType
    <2>4. QED BY <2>1, <2>2, <2>3
  <1>22. CASE FrameEnd
    <2>1. CtxInv'  BY <1>22 DEF FrameEnd, EnterWait, CtxInv, LifeInv, HandInv, WaitInv
    <2>2. LifeInv'  BY <1>22 DEF FrameEnd, EnterWait, LifeInv, HandInv, WaitInv
    <2>3. HandInv'  BY <1>22 DEF FrameEnd, EnterWait, CtxInv, LifeInv, HandInv, WaitInv, RingInv, NoWait, TypeOK, DataType
    <2>4. QED BY <2>1, <2>2, <2>3
  <1>23. CASE Release
    <2>1. CtxInv'  BY <1>23 DEF Release, CtxInv, LifeInv, HandInv, WaitInv
    <2>2. LifeInv'  BY <1>23 DEF Release, LifeInv, HandInv, WaitInv
    <2>3. HandInv'  BY <1>23 DEF Release, CtxInv, LifeInv, HandInv, WaitInv, RingInv, NoWait, TypeOK, DataType
    <2>4. QED BY <2>1, <2>2, <2>3
  <1>24. CASE StopHeld
    <2>1. CtxInv'  BY <1>24 DEF StopHeld, CtxInv, LifeInv, HandInv, WaitInv
    <2>2. LifeInv'  BY <1>24 DEF StopHeld, LifeInv, HandInv, WaitInv
    <2>3. HandInv'  BY <1>24 DEF StopHeld, CtxInv, LifeInv, HandInv, WaitInv, RingInv, NoWait, TypeOK, DataType
    <2>4. QED BY <2>1, <2>2, <2>3
  <1>25. CASE Start
    <2>1. CtxInv'  BY <1>25 DEF Start, CtxInv, LifeInv, HandInv, WaitInv
    <2>2. LifeInv'  BY <1>25 DEF Start, LifeInv, HandInv, WaitInv
    <2>3. HandInv'  BY <1>25 DEF Start, CtxInv, LifeInv, HandInv, WaitInv, RingInv, NoWait, TypeOK, DataType
    <2>4. QED BY <2>1, <2>2, <2>3
  <1>26. CASE RenderStart
    <2>1. CtxInv'  BY <1>26 DEF RenderStart, CtxInv, LifeInv, HandInv, WaitInv
    <2>2. LifeInv'  BY <1>26 DEF RenderStart, LifeInv, HandInv, WaitInv
    <2>3. HandInv'  BY <1>26 DEF RenderStart, CtxInv, LifeInv, HandInv, WaitInv, RingInv, NoWait, TypeOK, DataType
    <2>4. QED BY <2>1, <2>2, <2>3
  <1>27. CASE RunTick
    <2>1. CtxInv'  BY <1>27 DEF RunTick, CtxInv, LifeInv, HandInv, WaitInv
    <2>2. LifeInv'  BY <1>27 DEF RunTick, LifeInv, HandInv, WaitInv
    <2>3. HandInv'  BY <1>27 DEF RunTick, CtxInv, LifeInv, HandInv, WaitInv, RingInv, NoWait, TypeOK, DataType
    <2>4. QED BY <2>1, <2>2, <2>3
  <1>28. CASE RenderPoll
    <2>1. CtxInv'  BY <1>28 DEF RenderPoll, CtxInv, LifeInv, HandInv, WaitInv
    <2>2. LifeInv'  BY <1>28 DEF RenderPoll, LifeInv, HandInv, WaitInv
    <2>3. HandInv'  BY <1>28 DEF RenderPoll, CtxInv, LifeInv, HandInv, WaitInv, RingInv, NoWait, TypeOK, DataType
    <2>4. QED BY <2>1, <2>2, <2>3
  <1>29. CASE RenderExec
    <2>1. CtxInv'  BY <1>29 DEF RenderExec, CtxInv, LifeInv, HandInv, WaitInv
    <2>2. LifeInv'  BY <1>29 DEF RenderExec, LifeInv, HandInv, WaitInv
    <2>3. HandInv'  BY <1>29 DEF RenderExec, CtxInv, LifeInv, HandInv, WaitInv, RingInv, NoWait, TypeOK, DataType
    <2>4. QED BY <2>1, <2>2, <2>3
  <1>30. CASE RenderStore
    <2>1. CtxInv'  BY <1>30 DEF RenderStore, CtxInv, LifeInv, HandInv, WaitInv
    <2>2. LifeInv'  BY <1>30 DEF RenderStore, LifeInv, HandInv, WaitInv
    <2>3. HandInv'  BY <1>30 DEF RenderStore, CtxInv, LifeInv, HandInv, WaitInv, RingInv, NoWait, TypeOK, DataType
    <2>4. QED BY <2>1, <2>2, <2>3
  <1>31. CASE RenderWakeEmu
    <2>1. CtxInv'  BY <1>31 DEF RenderWakeEmu, CtxInv, LifeInv, HandInv, WaitInv
    <2>2. LifeInv'  BY <1>31 DEF RenderWakeEmu, LifeInv, HandInv, WaitInv
    <2>3. HandInv'  BY <1>31 DEF RenderWakeEmu, CtxInv, LifeInv, HandInv, WaitInv, RingInv, NoWait, TypeOK, DataType
    <2>4. QED BY <2>1, <2>2, <2>3
  <1>32. CASE RenderWakeEmuLock
    <2>1. CtxInv'  BY <1>32 DEF RenderWakeEmuLock, CtxInv, LifeInv, HandInv, WaitInv
    <2>2. LifeInv'  BY <1>32 DEF RenderWakeEmuLock, LifeInv, HandInv, WaitInv
    <2>3. HandInv'  BY <1>32 DEF RenderWakeEmuLock, CtxInv, LifeInv, HandInv, WaitInv, RingInv, NoWait, TypeOK, DataType
    <2>4. QED BY <2>1, <2>2, <2>3
  <1>33. CASE RenderLock
    <2>1. CtxInv'  BY <1>33 DEF RenderLock, CtxInv, LifeInv, HandInv, WaitInv
    <2>2. LifeInv'  BY <1>33 DEF RenderLock, LifeInv, HandInv, WaitInv
    <2>3. HandInv'  BY <1>33 DEF RenderLock, CtxInv, LifeInv, HandInv, WaitInv, RingInv, NoWait, TypeOK, DataType
    <2>4. QED BY <2>1, <2>2, <2>3
  <1>34. CASE RenderSleep
    <2>1. CtxInv'  BY <1>34 DEF RenderSleep, CtxInv, LifeInv, HandInv, WaitInv
    <2>2. LifeInv'  BY <1>34 DEF RenderSleep, LifeInv, HandInv, WaitInv
    <2>3. HandInv'  BY <1>34 DEF RenderSleep, CtxInv, LifeInv, HandInv, WaitInv, RingInv, NoWait, TypeOK, DataType
    <2>4. QED BY <2>1, <2>2, <2>3
  <1>35. CASE RenderRelock
    <2>1. CtxInv'  BY <1>35 DEF RenderRelock, CtxInv, LifeInv, HandInv, WaitInv
    <2>2. LifeInv'  BY <1>35 DEF RenderRelock, LifeInv, HandInv, WaitInv
    <2>3. HandInv'  BY <1>35 DEF RenderRelock, CtxInv, LifeInv, HandInv, WaitInv, RingInv, NoWait, TypeOK, DataType
    <2>4. QED BY <2>1, <2>2, <2>3
  <1>36. CASE RenderAwake
    <2>1. CtxInv'  BY <1>36 DEF RenderAwake, CtxInv, LifeInv, HandInv, WaitInv
    <2>2. LifeInv'  BY <1>36 DEF RenderAwake, LifeInv, HandInv, WaitInv
    <2>3. HandInv'  BY <1>36 DEF RenderAwake, CtxInv, LifeInv, HandInv, WaitInv, RingInv, NoWait, TypeOK, DataType
    <2>4. QED BY <2>1, <2>2, <2>3
  <1>37. CASE ServeCtx0
    <2>1. CtxInv'  BY <1>37 DEF ServeCtx0, CtxInv, LifeInv, HandInv, WaitInv
    <2>2. LifeInv'  BY <1>37 DEF ServeCtx0, LifeInv, HandInv, WaitInv
    <2>3. HandInv'  BY <1>37 DEF ServeCtx0, CtxInv, LifeInv, HandInv, WaitInv, RingInv, NoWait, TypeOK, DataType
    <2>4. QED BY <2>1, <2>2, <2>3
  <1>38. CASE ServeReleased
    <2>1. CtxInv'  BY <1>38 DEF ServeReleased, CtxInv, LifeInv, HandInv, WaitInv
    <2>2. LifeInv'  BY <1>38 DEF ServeReleased, LifeInv, HandInv, WaitInv
    <2>3. HandInv'  BY <1>38 DEF ServeReleased, CtxInv, LifeInv, HandInv, WaitInv, RingInv, NoWait, TypeOK, DataType
    <2>4. QED BY <2>1, <2>2, <2>3
  <1>39. CASE ServeWait
    <2>1. CtxInv'  BY <1>39 DEF ServeWait, CtxInv, LifeInv, HandInv, WaitInv
    <2>2. LifeInv'  BY <1>39 DEF ServeWait, LifeInv, HandInv, WaitInv
    <2>3. HandInv'  BY <1>39 DEF ServeWait, CtxInv, LifeInv, HandInv, WaitInv, RingInv, NoWait, TypeOK, DataType
    <2>4. QED BY <2>1, <2>2, <2>3
  <1>40. CASE ServeCtx1
    <2>1. CtxInv'  BY <1>40 DEF ServeCtx1, CtxInv, LifeInv, HandInv, WaitInv
    <2>2. LifeInv'  BY <1>40 DEF ServeCtx1, LifeInv, HandInv, WaitInv
    <2>3. HandInv'  BY <1>40 DEF ServeCtx1, CtxInv, LifeInv, HandInv, WaitInv, RingInv, NoWait, TypeOK, DataType
    <2>4. QED BY <2>1, <2>2, <2>3
  <1>41. CASE ServeReturn
    <2>1. CtxInv'  BY <1>41 DEF ServeReturn, CtxInv, LifeInv, HandInv, WaitInv
    <2>2. LifeInv'  BY <1>41 DEF ServeReturn, LifeInv, HandInv, WaitInv
    <2>3. HandInv'  BY <1>41 DEF ServeReturn, CtxInv, LifeInv, HandInv, WaitInv, RingInv, NoWait, TypeOK, DataType
    <2>4. QED BY <2>1, <2>2, <2>3
  <1>42. CASE RenderExit
    <2>1. CtxInv'  BY <1>42 DEF RenderExit, CtxInv, LifeInv, HandInv, WaitInv
    <2>2. LifeInv'  BY <1>42 DEF RenderExit, LifeInv, HandInv, WaitInv
    <2>3. HandInv'  BY <1>42 DEF RenderExit, CtxInv, LifeInv, HandInv, WaitInv, RingInv, NoWait, TypeOK, DataType
    <2>4. QED BY <2>1, <2>2, <2>3
  <1>43. CASE Spurious
    <2>1. CtxInv'  BY <1>43 DEF Spurious, CtxInv, LifeInv, HandInv, WaitInv
    <2>2. LifeInv'  BY <1>43 DEF Spurious, LifeInv, HandInv, WaitInv
    <2>3. HandInv'  BY <1>43 DEF Spurious, CtxInv, LifeInv, HandInv, WaitInv, RingInv, NoWait, TypeOK, DataType
    <2>4. QED BY <2>1, <2>2, <2>3
  <1>44. QED
    BY <1>1, <1>2, <1>3, <1>4, <1>5, <1>6, <1>7, <1>8, <1>9, <1>10, <1>11, <1>12, <1>13, <1>14, <1>15, <1>16, <1>17, <1>18, <1>19, <1>20, <1>21, <1>22, <1>23, <1>24, <1>25, <1>26, <1>27, <1>28, <1>29, <1>30, <1>31, <1>32, <1>33, <1>34, <1>35, <1>36, <1>37, <1>38, <1>39, <1>40, <1>41, <1>42, <1>43 DEF Next, EmuCall, EmuStep, RenderStep, CallStopped

-----------------------------------------------------------------------------
(* The theorems *)

\* Every step keeps the inductive invariant.
LEMMA InvStep == IInv /\ [Next]_vars => IInv'
  <1> SUFFICES ASSUME IInv, [Next]_vars PROVE IInv'
    OBVIOUS
  <1>1. TypeOK'  BY TypeStep DEF IInv
  <1>2. WaitInv'  BY WaitStep DEF IInv
  <1>3. RingInv' /\ FreshInv' /\ PendInv'  BY RingStep DEF IInv
  <1>4. CtxInv' /\ LifeInv' /\ HandInv'  BY HandStep DEF IInv
  <1>5. CountInv'  BY CountStep DEF IInv
  <1>6. BoundInv'  BY BoundStep DEF IInv
  <1> QED BY <1>1, <1>2, <1>3, <1>4, <1>5, <1>6 DEF IInv

\* The inductive invariant holds in every state of render_thread.c's protocol.
THEOREM Invariance == Spec => []IInv
  BY InvInit, InvStep, PTL DEF Spec

\* The record render_main replays is whole until its bytes are given back.
THEOREM RecordsIntact == Spec => []RecordIntact
  <1>1. IInv => RecordIntact  BY RingIntact DEF IInv
  <1> QED BY <1>1, Invariance, PTL

\* The invariant keeps the graphics context off one of the two threads.
LEMMA Exclusion == IInv => ContextExclusive
  <1> SUFFICES ASSUME IInv, rpc # "done", "emu" \in ctxOn
               PROVE  "render" \notin ctxOn
    BY DEF ContextExclusive
  <1>1. CASE held
    BY <1>1 DEF IInv, HandInv
  <1>2. CASE ~running
    BY <1>2 DEF IInv, LifeInv, CtxInv, RenderLacksCtx
  <1> QED BY <1>1, <1>2 DEF IInv, CtxInv

\* No state has the graphics context current on both threads.
THEOREM ContextExclusion == Spec => []ContextExclusive
  BY Exclusion, Invariance, PTL

\* exec and the tick callback run with the context on the render thread alone.
THEOREM ExecWithContext == Spec => []ExecHasContext
  <1>1. IInv => ExecHasContext
    <2> SUFFICES ASSUME IInv, rpc \in {"loop", "poll", "exec", "store"}
                 PROVE  ctxOn = {"render"}
      BY DEF ExecHasContext
    <2>1. "render" \in ctxOn
      BY DEF IInv, CtxInv, RenderHasCtx
    <2>2. "emu" \notin ctxOn
      BY <2>1, Exclusion DEF ContextExclusive
    <2>3. ctxOn \subseteq {"emu", "render"}
      BY DEF IInv, TypeOK, ControlType, Threads
    <2> QED BY <2>1, <2>2, <2>3
  <1> QED BY <1>1, Invariance, PTL

\* Between rt_acquire and rt_release the ring is empty and the render thread parked.
THEOREM HeldDrained == Spec => []HeldMeansDrained
  <1>1. IInv => HeldMeansDrained
    <2> SUFFICES ASSUME IInv, held, epc = "idle"
                 PROVE  wpos = rpos /\ rpc = "srvWait" /\ ctxOn = {"emu"}
      BY DEF HeldMeansDrained
    <2>1. wpos = rpos /\ rpc = "srvWait" /\ "render" \notin ctxOn
      BY DEF IInv, HandInv
    <2>2. "emu" \in ctxOn
      BY DEF IInv, CtxInv
    <2>3. ctxOn \subseteq {"emu", "render"}
      BY DEF IInv, TypeOK, ControlType, Threads
    <2> QED BY <2>1, <2>2, <2>3
  <1> QED BY <1>1, Invariance, PTL

\* What the counters say whenever either thread reads them.
LEMMA CountersRight == IInv => FramesCounted
  <1>. SUFFICES ASSUME IInv PROVE FramesCounted  OBVIOUS
  <1>0. TypeOK /\ WaitInv /\ RingInv /\ CountInv /\ BoundInv  BY DEF IInv
  <1>1. /\ produced \in Nat /\ consumed \in Nat /\ Cardinality(Markers) \in Nat
        /\ MaxFrames \in Nat
    BY <1>0, MarkersFinite, MaxFramesAssumption DEF TypeOK, DataType
  <1>2. Counted => Cardinality(Markers) >= 1  BY <1>0, CountedThere
  <1>3. FramesBounded
    <2>1. consumed <= produced
      BY <1>0, <1>1, <1>2 DEF CountInv
    <2>2. produced - consumed <= MaxFrames + 1
      BY <1>0, <1>1 DEF BoundInv
    <2>3. ASSUME epc \in {"idle", "write", "commit"} PROVE produced - consumed <= MaxFrames
      <3>1. ~InFrameEnd
        BY <1>0, <2>3 DEF WaitInv, NoWait, InFrameEnd, MarkerPending
      <3>2. QED BY <1>0, <1>1, <3>1 DEF BoundInv
    <2>4. QED BY <2>1, <2>2, <2>3 DEF FramesBounded
  <1>4. FramesAheadExact
    <2>. SUFFICES ASSUME rpc = "exec"
                  PROVE  LET closed == Cardinality(Markers) + (IF MarkerPending THEN 1 ELSE 0)
                         IN  FramesAhead = IF closed = 0 THEN 0 ELSE closed - 1
      BY DEF FramesAheadExact
    <2>1. ~Counted  BY DEF Counted
    <2>2. produced - consumed = Cardinality(Markers) + (IF MarkerPending THEN 1 ELSE 0)
      BY <1>0, <1>1, <2>1 DEF CountInv
    <2>3. QED BY <1>1, <2>2 DEF FramesAhead
  <1>5. QED BY <1>3, <1>4 DEF FramesCounted

\* The frame counters are right at every moment either thread reads them.
THEOREM FramesRight == Spec => []FramesCounted
  BY CountersRight, Invariance, PTL

-----------------------------------------------------------------------------
(* The command queue *)

\* A step that publishes nothing, gives back nothing and hands nothing over.
LEMMA QueueStutter ==
    ASSUME LiveRecords' = LiveRecords, rpos' = rpos, CtxOwner' = CtxOwner
    PROVE  UNCHANGED Queue!vars
  BY DEF Queue!vars

\* An empty ring holds no live record.
LEMMA EmptyQueue ==
    ASSUME TypeOK, wpos = rpos
    PROVE  LiveRecords = {}
  BY DEF LiveRecords, TypeOK, DataType

\* Who owns the context, from where the render thread stands.
LEMMA Owners ==
    ASSUME IInv
    PROVE  /\ rpc \in RenderHasCtx => CtxOwner = "render"
           /\ rpc \in {"start", "srvLock", "srvCtx1"} => CtxOwner = "none"
           /\ rpc = "none" /\ running => CtxOwner = "none"
           /\ running /\ ~held => "emu" \notin ctxOn
           /\ epc = "relReq" => "emu" \notin ctxOn
  <1>0. CtxInv /\ LifeInv /\ HandInv /\ ContextExclusive  BY Exclusion DEF IInv
  <1>1. rpc \in RenderHasCtx => CtxOwner = "render"
    BY <1>0 DEF CtxInv, ContextExclusive, CtxOwner, RenderHasCtx
  <1>2. ASSUME rpc \in {"start", "srvLock", "srvCtx1"} PROVE CtxOwner = "none"
    <2>1. running /\ ~held  BY <1>0, <1>2 DEF LifeInv, HandInv
    <2>2. "emu" \notin ctxOn /\ "render" \notin ctxOn
      BY <1>0, <1>2, <2>1 DEF CtxInv, RenderLacksCtx
    <2>3. QED BY <2>2 DEF CtxOwner
  <1>3. ASSUME rpc = "none", running PROVE CtxOwner = "none"
    <2>1. ~held  BY <1>0, <1>3 DEF HandInv
    <2>2. "emu" \notin ctxOn /\ "render" \notin ctxOn
      BY <1>0, <1>3, <2>1 DEF CtxInv, RenderLacksCtx
    <2>3. QED BY <2>2 DEF CtxOwner
  <1>4. (running /\ ~held => "emu" \notin ctxOn) /\ (epc = "relReq" => "emu" \notin ctxOn)
    BY <1>0 DEF CtxInv, LifeInv
  <1>5. QED BY <1>1, <1>2, <1>3, <1>4

\* rt_cmd_commit and commit_marker commit one command, the youngest.
LEMMA CommitMaps ==
    ASSUME IInv, CmdCommit \/ Marker
    PROVE  Queue!Commit
  <1>0. TypeOK /\ RingInv /\ PendInv /\ LifeInv /\ HandInv  BY DEF IInv
  <1>1. rpos \in Nat /\ wpos \in Nat /\ rpos <= wpos
    BY <1>0 DEF TypeOK, DataType, RingInv
  <1>2. epc \in {"commit", "marker"} /\ UNCHANGED <<rpos, ctxOn, rpc>>
    BY DEF CmdCommit, Marker, renderVars
  <1>3. running /\ ~held  BY <1>0, <1>2 DEF LifeInv, HandInv
  <1>4. CtxOwner # "emu"  BY <1>3, Owners DEF CtxOwner
  <1>5. CtxOwner' = CtxOwner  BY <1>2 DEF CtxOwner
  <1>6. PICK c \in Nat : /\ c >= wpos
                         /\ LiveRecords' = LiveRecords \cup {c}
    <2>1. LiveRecords' = Queued(ring', rpos', wpos', {"op", "frame"})
      BY DEF LiveRecords, Queued, At
    <2>2. CASE CmdCommit
      <3>1. Queued(ring', rpos', wpos', {"op", "frame"})
              = Queued(ring, rpos, wpos, {"op", "frame"})
                  \cup (IF "op" \in {"op", "frame"} THEN {pend.at} ELSE {})
        BY <1>0, <2>2, CommitQueue
      <3>2. LiveRecords' = LiveRecords \cup {pend.at}  BY <2>1, <3>1, QueuedSets
      <3>3. pend.at \in Nat /\ pend.at >= wpos
        BY <1>0, <1>1, <2>2 DEF PendInv, CmdCommit, TypeOK, DataType
      <3>4. QED BY <3>2, <3>3
    <2>3. CASE Marker
      <3>1. Queued(ring', rpos', wpos', {"op", "frame"})
              = Queued(ring, rpos, wpos, {"op", "frame"}) \cup {wpos}
        BY <1>0, <2>3, MarkerQueue
      <3>2. LiveRecords' = LiveRecords \cup {wpos}  BY <2>1, <3>1, QueuedSets
      <3>3. wpos >= wpos  BY <1>1
      <3>4. QED BY <1>1, <3>2, <3>3
    <2>4. QED BY <2>2, <2>3
  <1>7. \A q \in LiveRecords : q < c  BY <1>1, <1>6 DEF LiveRecords
  <1>8. c \notin LiveRecords  BY <1>6, <1>7
  <1>9. c >= rpos  BY <1>1, <1>6
  <1>10. QED BY <1>2, <1>4, <1>5, <1>6, <1>7, <1>8, <1>9 DEF Queue!Commit

\* The store of rpos replays the oldest command, or skips a pad.
LEMMA StoreMaps ==
    ASSUME IInv, RenderStore
    PROVE  Queue!Replay \/ Queue!Skip
  <1>0. TypeOK /\ RingInv  BY DEF IInv
  <1>1. rpos \in Nat /\ wpos \in Nat  BY <1>0 DEF TypeOK, DataType
  <1>2. rpc = "store" /\ rpc' = "wakeEmu" /\ ctxOn' = ctxOn  BY DEF RenderStore
  <1>3. CtxOwner = "render"  BY <1>2, Owners DEF RenderHasCtx
  <1>4. CtxOwner' = CtxOwner  BY <1>2 DEF CtxOwner
  <1>5. /\ Queued(ring', rpos', wpos', {"op", "frame"})
             = Queued(ring, rpos, wpos, {"op", "frame"}) \ {rpos}
        /\ rpos \in Queued(ring, rpos, wpos, {"op", "frame"})
             <=> At(rpos).kind \in {"op", "frame"}
        /\ rpos' > rpos
    BY <1>0, StoreQueue
  <1>6. LiveRecords' = LiveRecords \ {rpos}
    <2>1. LiveRecords' = Queued(ring', rpos', wpos', {"op", "frame"})
      BY DEF LiveRecords, Queued, At
    <2>2. QED BY <1>5, <2>1, QueuedSets
  <1>7. rpos' \in Nat
    BY <1>0, TypeStep DEF TypeOK, DataType, Next, RenderStep
  <1>8. \A q \in LiveRecords' : rpos' <= q  BY <1>7 DEF LiveRecords
  <1>9. \A q \in LiveRecords : rpos <= q  BY <1>1 DEF LiveRecords
  <1>10. CASE rpos \in LiveRecords
    BY <1>3, <1>4, <1>5, <1>6, <1>8, <1>9, <1>10 DEF Queue!Replay
  <1>11. CASE rpos \notin LiveRecords
    <2>1. LiveRecords' = LiveRecords  BY <1>6, <1>11
    <2>2. QED BY <1>3, <1>4, <1>5, <1>8, <2>1 DEF Queue!Skip
  <1>12. QED BY <1>10, <1>11

\* The initial state is the initial state of the queue.
LEMMA InitMaps == Init => Queue!Init
  BY DEF Init, Queue!Init, LiveRecords, CtxOwner

\* Every step is a step of the queue or changes nothing the queue shows.
LEMMA StepMaps == IInv /\ [Next]_vars => [Queue!Next]_(Queue!vars)
  <1>. SUFFICES ASSUME IInv, [Next]_vars PROVE Queue!Next \/ UNCHANGED Queue!vars
    OBVIOUS
  <1>. USE DEF vars, shared, dataVars, ringVars, sleepVars, flagVars, lockVars, handVars,
           emuVars, renderVars
  <1>0. TypeOK /\ WaitInv /\ RingInv /\ PendInv /\ CtxInv /\ LifeInv /\ HandInv
    BY DEF IInv
  <1>1. ASSUME UNCHANGED <<ring, wpos, rpos>> PROVE LiveRecords' = LiveRecords
    BY <1>0, <1>1, QueueKept
  <1>2. ASSUME UNCHANGED <<ring, wpos, rpos, ctxOn>>, rpc' = "done" <=> rpc = "done"
        PROVE  UNCHANGED Queue!vars
    <2>1. CtxOwner' = CtxOwner  BY <1>2 DEF CtxOwner
    <2>2. QED BY <1>1, <1>2, <2>1, QueueStutter
  <1>3. ASSUME UNCHANGED <<ring, wpos, rpos>>, CtxOwner \in {"render", "emu"},
               CtxOwner' = "none", wpos = rpos
        PROVE  Queue!Give
    BY <1>0, <1>1, <1>3, EmptyQueue DEF Queue!Give
  <1>4. ASSUME UNCHANGED <<ring, wpos, rpos>>, CtxOwner = "none",
               CtxOwner' = "render" \/ (CtxOwner' = "emu" /\ wpos = rpos)
        PROVE  Queue!Take
    BY <1>0, <1>1, <1>4, EmptyQueue DEF Queue!Take
  <1>5. CASE UNCHANGED vars  BY <1>2, <1>5
  <1>6. ASSUME NEW n \in Sizes, CmdBegin(n) PROVE UNCHANGED Queue!vars
    BY <1>2, <1>6 DEF CmdBegin
  <1>7. ASSUME NEW ret \in {"idle", "acqReq", "stopReq"}, Drain(ret) PROVE UNCHANGED Queue!vars
    BY <1>2, <1>7 DEF Drain
  <1>8. CASE CmdCommit \/ Marker  BY <1>8, CommitMaps DEF Queue!Next
  <1>9. CASE RenderStore  BY <1>9, StoreMaps DEF Queue!Next
  <1>10. CASE CmdWrite
    <2>1. UNCHANGED <<wpos, rpos, ctxOn, rpc>>  BY <1>10 DEF CmdWrite
    <2>2. LiveRecords' = LiveRecords  BY <1>0, <1>10, <2>1, WritesKeep, QueueKept
    <2>3. CtxOwner' = CtxOwner  BY <2>1 DEF CtxOwner
    <2>4. QED BY <2>1, <2>2, <2>3, QueueStutter
  <1>11. CASE EmuTest \/ EmuWake \/ EmuWakeLock \/ EmuSleepLock \/ EmuSleep \/ EmuRelock
    BY <1>2, <1>11 DEF EmuTest, EmuWake, EmuWakeLock, EmuSleepLock, EmuSleep, EmuRelock
  <1>12. CASE FrameEnd \/ FrameEndHeld \/ FrameBound \/ AcquireRequest \/ ReleaseRequest
              \/ StopHeld \/ StopRequest \/ CallStopped
    BY <1>2, <1>12 DEF FrameEnd, FrameEndHeld, FrameBound, AcquireRequest, ReleaseRequest,
       StopHeld, StopRequest, CallStopped
  <1>13. CASE AcquireCtx
    <2>1. UNCHANGED <<ring, wpos, rpos>> /\ ctxOn' = ctxOn \cup {"emu"} /\ epc = "acqCtx"
      BY <1>13 DEF AcquireCtx
    <2>2. rpc = "srvWait" /\ ~held /\ running /\ wpos = rpos
      BY <1>0, <2>1 DEF HandInv, LifeInv
    <2>3. "emu" \notin ctxOn /\ "render" \notin ctxOn
      BY <1>0, <2>2, Owners DEF CtxInv, RenderLacksCtx
    <2>4. CtxOwner = "none" /\ CtxOwner' = "emu"  BY <2>1, <2>3 DEF CtxOwner
    <2>5. QED BY <1>4, <2>1, <2>2, <2>4 DEF Queue!Next
  <1>14. CASE Release
    <2>1. UNCHANGED <<ring, wpos, rpos, rpc>> /\ ctxOn' = ctxOn \ {"emu"} /\ epc = "idle"
          /\ held
      BY <1>14 DEF Release
    <2>2. wpos = rpos /\ "render" \notin ctxOn /\ "emu" \in ctxOn
      BY <1>0, <2>1 DEF HandInv, CtxInv
    <2>3. CtxOwner = "emu" /\ CtxOwner' = "none"  BY <2>1, <2>2 DEF CtxOwner
    <2>4. QED BY <1>3, <2>1, <2>2, <2>3 DEF Queue!Next
  <1>15. CASE StopJoin
    <2>1. UNCHANGED <<ring, wpos, rpos, rpc>> /\ epc = "join" /\ rpc = "done"
          /\ ctxOn' = IF held THEN ctxOn ELSE ctxOn \cup {"emu"}
      BY <1>15 DEF StopJoin
    <2>2. running /\ wpos = rpos  BY <1>0, <2>1 DEF LifeInv, HandInv
    <2>3. CASE held  BY <1>2, <2>1, <2>3
    <2>4. CASE ~held
      <3>1. "emu" \notin ctxOn  BY <2>2, <2>4, Owners
      <3>2. CtxOwner = "none" /\ CtxOwner' = "emu"  BY <2>1, <2>4, <3>1 DEF CtxOwner
      <3>3. QED BY <1>4, <2>1, <2>2, <3>2 DEF Queue!Next
    <2>5. QED BY <2>3, <2>4
  <1>16. CASE Start
    <2>1. /\ wpos' = 0 /\ rpos' = 0 /\ ctxOn = {"emu"} /\ ctxOn' = {} /\ ~running
      BY <1>16 DEF Start
    <2>2. LiveRecords = {}  BY <1>0, <2>1, EmptyQueue DEF HandInv
    <2>3. LiveRecords' = {}  BY <2>1 DEF LiveRecords
    <2>4. CtxOwner = "emu" /\ CtxOwner' = "none"  BY <2>1 DEF CtxOwner
    <2>5. QED BY <2>1, <2>2, <2>3, <2>4 DEF Queue!Next, Queue!Open
  <1>17. CASE Spawn
    <2>1. UNCHANGED <<ring, wpos, rpos, ctxOn>> /\ epc = "spawn" /\ rpc' = "start"
      BY <1>17 DEF Spawn
    <2>2. rpc = "none"  BY <1>0, <2>1 DEF LifeInv
    <2>3. QED BY <1>2, <2>1, <2>2
  <1>18. CASE SpawnFail
    <2>1. UNCHANGED <<ring, wpos, rpos, rpc>> /\ epc = "spawn" /\ ctxOn' = ctxOn \cup {"emu"}
      BY <1>18 DEF SpawnFail
    <2>2. rpc = "none" /\ running /\ wpos = rpos  BY <1>0, <2>1 DEF LifeInv, HandInv
    <2>3. CtxOwner = "none"  BY <2>2, Owners
    <2>4. CtxOwner' = "emu"  BY <2>1 DEF CtxOwner
    <2>5. QED BY <1>4, <2>1, <2>2, <2>3, <2>4 DEF Queue!Next
  <1>19. CASE RenderStart
    <2>1. UNCHANGED <<ring, wpos, rpos>> /\ rpc = "start" /\ rpc' = "loop"
          /\ ctxOn' = ctxOn \cup {"render"}
      BY <1>19 DEF RenderStart
    <2>2. CtxOwner = "none"  BY <2>1, Owners
    <2>3. CtxOwner' = "render"  BY <2>1, <2>2 DEF CtxOwner
    <2>4. QED BY <1>4, <2>1, <2>2, <2>3 DEF Queue!Next
  <1>20. CASE ServeCtx0
    <2>1. UNCHANGED <<ring, wpos, rpos>> /\ rpc = "srvCtx0" /\ rpc' = "srvLock"
          /\ ctxOn' = ctxOn \ {"render"}
      BY <1>20 DEF ServeCtx0
    <2>2. wpos = rpos  BY <1>0, <2>1 DEF HandInv
    <2>3. CtxOwner = "render"  BY <2>1, Owners DEF RenderHasCtx
    <2>4. CtxOwner' = "none"  BY <2>1, <2>3 DEF CtxOwner
    <2>5. QED BY <1>3, <2>1, <2>2, <2>3, <2>4 DEF Queue!Next
  <1>21. CASE ServeCtx1
    <2>1. UNCHANGED <<ring, wpos, rpos>> /\ rpc = "srvCtx1" /\ rpc' = "srvRelock"
          /\ ctxOn' = ctxOn \cup {"render"}
      BY <1>21 DEF ServeCtx1
    <2>2. CtxOwner = "none"  BY <2>1, Owners
    <2>3. CtxOwner' = "render"  BY <2>1, <2>2 DEF CtxOwner
    <2>4. QED BY <1>4, <2>1, <2>2, <2>3 DEF Queue!Next
  <1>22. CASE RenderExit
    <2>1. UNCHANGED <<ring, wpos, rpos>> /\ rpc = "exit" /\ rpc' = "done"
          /\ ("emu" \in ctxOn' <=> "emu" \in ctxOn)
      BY <1>22 DEF RenderExit
    <2>2. wpos = rpos  BY <1>0, <2>1 DEF LifeInv, HandInv
    <2>3. CASE CtxOwner = "render"
      <3>1. CtxOwner' = "none"  BY <2>1, <2>3 DEF CtxOwner
      <3>2. QED BY <1>3, <2>1, <2>2, <2>3, <3>1 DEF Queue!Next
    <2>4. CASE CtxOwner # "render"
      <3>1. CtxOwner' = CtxOwner  BY <2>1, <2>4 DEF CtxOwner
      <3>2. QED BY <1>1, <2>1, <3>1, QueueStutter
    <2>5. QED BY <2>3, <2>4
  <1>23. CASE RunTick \/ RenderPoll \/ RenderExec \/ RenderWakeEmu \/ RenderWakeEmuLock
              \/ RenderLock \/ RenderSleep \/ RenderRelock \/ RenderAwake
              \/ ServeReleased \/ ServeWait \/ ServeReturn \/ Spurious
    <2>1. UNCHANGED <<ring, wpos, rpos, ctxOn>>
      BY <1>23 DEF RunTick, RenderPoll, RenderExec, RenderWakeEmu, RenderWakeEmuLock,
         RenderLock, RenderSleep, RenderRelock, RenderAwake, ServeReleased, ServeWait,
         ServeReturn, Spurious
    <2>2. rpc' = "done" <=> rpc = "done"
      BY <1>23 DEF RunTick, RenderPoll, RenderExec, RenderWakeEmu, RenderWakeEmuLock,
         RenderLock, RenderSleep, RenderRelock, RenderAwake, ServeReleased, ServeWait,
         ServeReturn, Spurious
    <2>3. QED BY <1>2, <2>1, <2>2
  <1>24. QED
    BY <1>5, <1>6, <1>7, <1>8, <1>9, <1>10, <1>11, <1>12, <1>13, <1>14, <1>15, <1>16, <1>17,
       <1>18, <1>19, <1>20, <1>21, <1>22, <1>23
    DEF Next, EmuCall, EmuStep, RenderStep

\* render_thread.c implements the command queue: every record is replayed once, in
\* commit order, and the context changes hands only when nothing is left to replay.
THEOREM QueueImplemented == Spec => ImplementsQueue
  BY InitMaps, StepMaps, Invariance, PTL DEF Spec, ImplementsQueue, Queue!Spec

=============================================================================
