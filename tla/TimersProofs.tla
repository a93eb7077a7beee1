----------------------------- MODULE TimersProofs -----------------------------
(***************************************************************************)
(* Proofs about one root counter, for every width of the counter.          *)
(***************************************************************************)
EXTENDS Timers, Iteration

-----------------------------------------------------------------------------
(* One count.                                                              *)

LEMMA FireType ==
    ASSUME NEW x \in Timer
    PROVE  Fire(x) \in Timer
<1> DEFINE line == IF x.toggle THEN 1 - x.line ELSE x.line
           request == ~(x.toggle /\ x.line = 0)
           raised == x.raised + (IF x.toggle /\ x.line = 1 THEN 0 ELSE 1)
           onTarget == x.irqTarget /\ x.repeat
           onOverflow == x.irqOverflow /\ x.repeat
<1>1. line \in {0, 1} /\ raised \in Nat /\ x.fires + 1 \in Nat
  BY DEF Timer
<1>2. request \in BOOLEAN /\ onTarget \in BOOLEAN /\ onOverflow \in BOOLEAN
  OBVIOUS
<1>3. Fire(x) = [x EXCEPT !.line = line, !.request = request, !.raised = raised,
                          !.fires = @ + 1, !.irqTarget = onTarget, !.irqOverflow = onOverflow]
  BY DEF Fire
<1> HIDE DEF line, request, raised, onTarget, onOverflow
<1> QED BY <1>1, <1>2, <1>3 DEF Timer

LEMMA AtTargetType ==
    ASSUME NEW x \in Timer, Wrap \in Nat \ {0}
    PROVE  AtTarget(x) \in Timer
<1> DEFINE y == IF x.irqTarget THEN Fire(x) ELSE x
           c == IF x.reset THEN 0 ELSE y.counter
<1>1. y \in Timer BY FireType
<1>2. c \in 0..(Wrap - 1) 
  <2> HIDE DEF y
  <2> QED BY <1>1 DEF Timer
<1>3. AtTarget(x) = [y EXCEPT !.targetFlag = TRUE, !.counter = c] BY DEF AtTarget
<1> HIDE DEF y, c
<1> QED BY <1>1, <1>2, <1>3 DEF Timer

LEMMA AtOverflowType ==
    ASSUME NEW x \in Timer
    PROVE  AtOverflow(x) \in Timer
<1>1. Fire(x) \in Timer BY FireType
<1> QED BY <1>1 DEF AtOverflow, Timer

LEMMA TickType ==
    ASSUME NEW x \in Timer, Wrap \in Nat \ {0}
    PROVE  TickOne(x) \in Timer
<1> DEFINE y == [x EXCEPT !.counter = (@ + 1) % Wrap]
           z == IF y.counter = y.target THEN AtTarget(y) ELSE y
<1>1. y \in Timer BY DEF Timer
<1>2. z \in Timer 
  <2> HIDE DEF y
  <2> QED BY <1>1, AtTargetType
<1>3. AtOverflow(z) \in Timer BY <1>2, AtOverflowType
<1>4. TickOne(x) = IF x.counter = Wrap - 1 THEN AtOverflow(z) ELSE z BY DEF TickOne
<1> QED BY <1>2, <1>3, <1>4

\* The recursive function Ticks is defined by its equation.
LEMMA TicksDef ==
    ASSUME NEW x \in Timer, Wrap \in Nat \ {0}
    PROVE  /\ Ticks(x) \in [Nat -> Timer]
           /\ Ticks(x)[0] = x
           /\ \A n \in Nat : Ticks(x)[n + 1] = TickOne(Ticks(x)[n])
<1> DEFINE g == [y \in Timer |-> TickOne(y)]
           Eqn(f) == f = [n \in Nat |-> IF n = 0 THEN x ELSE TickOne(f[n - 1])]
<1>1. g \in [Timer -> Timer] BY TickType
<1>2. PICK f \in [Nat -> Timer] : IteratesOf(f, g, x)
  <2> HIDE DEF g
  <2> QED BY <1>1, Iterates
<1>3. \A n \in Nat \ {0} : f[n] = TickOne(f[n - 1])
  <2> SUFFICES ASSUME NEW n \in Nat \ {0} PROVE f[n] = TickOne(f[n - 1]) OBVIOUS
  <2>1. n - 1 \in Nat /\ (n - 1) + 1 = n OBVIOUS
  <2>2. f[(n - 1) + 1] = g[f[n - 1]] BY <1>2, <2>1 DEF IteratesOf
  <2>3. f[n - 1] \in Timer BY <1>2, <2>1
  <2> QED BY <2>1, <2>2, <2>3
<1>4. Eqn(f) BY <1>2, <1>3 DEF IteratesOf
<1>5. Ticks(x) = CHOOSE h : Eqn(h) BY DEF Ticks
<1>6. Eqn(Ticks(x))
  <2> HIDE DEF Eqn
  <2> QED BY <1>4, <1>5
<1>7. Ticks(x)[0] = x
  BY <1>6
<1>8. ASSUME NEW n \in Nat PROVE Ticks(x)[n + 1] = TickOne(Ticks(x)[n])
  <2>1. n + 1 \in Nat /\ n + 1 # 0 /\ (n + 1) - 1 = n OBVIOUS
  <2> QED BY <1>6, <2>1
<1> DEFINE P == {n \in Nat : Ticks(x)[n] \in Timer}
<1>9. 0 \in P BY <1>7
<1>10. ASSUME NEW n \in Nat, n \in P PROVE n + 1 \in P
  BY <1>8, <1>10, TickType
<1>11. \A n \in Nat : n \in P
  <2> HIDE DEF P
  <2> QED BY <1>9, <1>10, Induction
<1>12. Ticks(x) \in [Nat -> Timer]
  BY <1>6, <1>11
<1> QED BY <1>7, <1>8, <1>12

-----------------------------------------------------------------------------
(* A chunk is as many counts.                                              *)

LEMMA ModWrap ==
    ASSUME Wrap \in Nat \ {0}
    PROVE  /\ \A a \in 0..(Wrap - 1) : a % Wrap = a
           /\ \A a \in Wrap..(2 * Wrap - 1) : a % Wrap = a - Wrap
           /\ \A a \in (-Wrap)..(-1) : a % Wrap = a + Wrap
  OBVIOUS

LEMMA LeastOfThree ==
    ASSUME NEW a \in Int, NEW b \in Int, NEW c \in Int
    PROVE  /\ Min({a, b, c}) \in {a, b, c}
           /\ Min({a, b, c}) <= a /\ Min({a, b, c}) <= b /\ Min({a, b, c}) <= c
<1> DEFINE S == {a, b, c}
<1>1. \E x \in S : \A y \in S : x =< y
  <2>1. CASE a <= b /\ a <= c BY <2>1
  <2>2. CASE b <= a /\ b <= c BY <2>2
  <2>3. CASE c <= a /\ c <= b BY <2>3
  <2> QED BY <2>1, <2>2, <2>3
<1>2. Min(S) \in S /\ \A y \in S : Min(S) =< y
  <2> HIDE DEF S
  <2> QED BY <1>1 DEF Min
<1> QED BY <1>2

LEMMA Distances ==
    ASSUME NEW x \in Timer, Wrap \in Nat \ {0}
    PROVE  /\ TargetDist(x) \in 1..Wrap
           /\ OverflowDist(x) \in 1..Wrap
           /\ x.target > x.counter => TargetDist(x) = x.target - x.counter
           /\ x.target <= x.counter => TargetDist(x) = x.target - x.counter + Wrap
<1>1. x.target \in 0..(Wrap - 1) /\ x.counter \in 0..(Wrap - 1) BY DEF Timer
<1>2. CASE x.target >= x.counter
  <2>1. (x.target - x.counter) % Wrap = x.target - x.counter BY <1>1, <1>2, ModWrap
  <2> QED BY <1>1, <1>2, <2>1 DEF TargetDist, OverflowDist
<1>3. CASE x.target < x.counter
  <2>1. (x.target - x.counter) % Wrap = x.target - x.counter + Wrap BY <1>1, <1>3, ModWrap
  <2> QED BY <1>1, <1>3, <2>1 DEF TargetDist, OverflowDist
<1> QED BY <1>1, <1>2, <1>3

LEMMA StepBounds ==
    ASSUME NEW x \in Timer, NEW ticks \in Nat \ {0}, Wrap \in Nat \ {0}
    PROVE  /\ NextStep(x, ticks) \in 1..ticks
           /\ NextStep(x, ticks) <= TargetDist(x)
           /\ NextStep(x, ticks) <= OverflowDist(x)
<1>1. TargetDist(x) \in 1..Wrap /\ OverflowDist(x) \in 1..Wrap BY Distances
<1> DEFINE td == TargetDist(x)
           od == OverflowDist(x)
           m == Min({ticks, td, od})
<1>2. td \in Int /\ od \in Int /\ ticks \in Int BY <1>1
<1>3. NextStep(x, ticks) = m BY DEF NextStep
<1> HIDE DEF td, od
<1>4. m \in {ticks, td, od} /\ m <= ticks /\ m <= td /\ m <= od
  BY <1>2, LeastOfThree
<1> HIDE DEF m
<1>5. td \in 1..Wrap /\ od \in 1..Wrap BY <1>1 DEF td, od
<1>6. m \in 1..ticks /\ m <= td /\ m <= od BY <1>4, <1>5
<1> QED BY <1>3, <1>6 DEF td, od

\* The timer j counts on, with nothing met.
Ahead(x, j) == [x EXCEPT !.counter = @ + j]

\* The body of a chunk of step counts.
Chunk(x, step) ==
    LET y == [x EXCEPT !.counter = (@ + step) % Wrap]
        z == IF step = TargetDist(x) THEN AtTarget(y) ELSE y
    IN  IF x.counter + step >= Wrap THEN AtOverflow(z) ELSE z

LEMMA LastTick ==
    ASSUME NEW x \in Timer, Wrap \in Nat \ {0}, NEW step \in Nat \ {0},
           step <= TargetDist(x), step <= OverflowDist(x)
    PROVE  TickOne(Ahead(x, step - 1)) = Chunk(x, step)
<1> DEFINE a == Ahead(x, step - 1)
           y == [x EXCEPT !.counter = (@ + step) % Wrap]
<1>1. /\ x.target \in 0..(Wrap - 1) /\ x.counter \in 0..(Wrap - 1)
      /\ x.counter + step <= Wrap
  BY DEF Timer, OverflowDist
<1>2. a.counter = x.counter + (step - 1)
  BY DEF Ahead, Timer
<1>3. [a EXCEPT !.counter = (@ + 1) % Wrap] = y
  <2>1. (a.counter + 1) % Wrap = (x.counter + step) % Wrap BY <1>1, <1>2
  <2> QED BY <2>1 DEF Ahead, Timer
<1>4. y.counter = (x.counter + step) % Wrap /\ y.target = x.target
  BY DEF Timer
<1>5. (y.counter = y.target) <=> (step = TargetDist(x))
  <2>1. CASE x.counter + step < Wrap
    <3>1. y.counter = x.counter + step BY <1>1, <1>4, <2>1, ModWrap
    <3>2. (x.counter + step = x.target) <=> (step = TargetDist(x))
      BY <2>1, <1>1, Distances
    <3> QED BY <3>1, <3>2, <1>4
  <2>2. CASE x.counter + step = Wrap
    <3>1. y.counter = 0 BY <1>1, <1>4, <2>2, ModWrap
    <3> QED BY <3>1, <2>2, <1>1, <1>4, Distances
  <2> QED BY <1>1, <2>1, <2>2
<1>6. (a.counter = Wrap - 1) <=> (x.counter + step >= Wrap)
  BY <1>1, <1>2
<1>7. TickOne(a) = LET z == IF y.counter = y.target THEN AtTarget(y) ELSE y
                   IN  IF a.counter = Wrap - 1 THEN AtOverflow(z) ELSE z
  <2> HIDE DEF a, y
  <2> QED BY <1>3 DEF TickOne
<1>8. Chunk(x, step) = LET z == IF step = TargetDist(x) THEN AtTarget(y) ELSE y
                       IN  IF x.counter + step >= Wrap THEN AtOverflow(z) ELSE z
  BY DEF Chunk
<1> HIDE DEF a, y
<1>9. TickOne(a) = Chunk(x, step)
  BY <1>5, <1>6, <1>7, <1>8
<1> QED BY <1>9 DEF a

\* A chunk leaves what its counts one by one leave.
LEMMA ChunkIsTicks ==
    ASSUME NEW x \in Timer, Wrap \in Nat \ {0}, NEW step \in Nat \ {0},
           step <= TargetDist(x), step <= OverflowDist(x)
    PROVE  Ticks(x)[step] = Chunk(x, step)
<1> DEFINE P == {j \in Nat : j < step => Ticks(x)[j] = Ahead(x, j)}
<1>1. 0 \in P
  <2>1. Ahead(x, 0) = x BY DEF Ahead, Timer
  <2> QED BY <2>1, TicksDef
<1>2. ASSUME NEW j \in Nat, j \in P PROVE j + 1 \in P
  <2> SUFFICES ASSUME j + 1 < step PROVE Ticks(x)[j + 1] = Ahead(x, j + 1)
    OBVIOUS
  <2>1. Ticks(x)[j] = Ahead(x, j) BY <1>2
  <2>2. Ticks(x)[j + 1] = TickOne(Ahead(x, j)) BY <2>1, TicksDef
  <2>3. /\ j + 1 \in Nat \ {0} /\ (j + 1) - 1 = j
        /\ j + 1 <= TargetDist(x) /\ j + 1 <= OverflowDist(x) /\ j + 1 # TargetDist(x)
    BY Distances
  <2>4. TickOne(Ahead(x, j)) = Chunk(x, j + 1)
    <3>1. TickOne(Ahead(x, (j + 1) - 1)) = Chunk(x, j + 1) BY <2>3, LastTick
    <3> QED BY <3>1, <2>3
  <2>5. /\ x.counter \in 0..(Wrap - 1) /\ x.counter + (j + 1) < Wrap
        /\ (x.counter + (j + 1)) % Wrap = x.counter + (j + 1)
    <3>1. x.counter \in 0..(Wrap - 1) /\ x.counter + (j + 1) < Wrap BY DEF Timer, OverflowDist
    <3> QED BY <3>1, ModWrap
  <2>6. Chunk(x, j + 1) = Ahead(x, j + 1)
    BY <2>3, <2>5 DEF Chunk, Ahead
  <2> QED BY <2>2, <2>4, <2>6
<1>3. \A j \in Nat : j \in P
  <2> HIDE DEF P
  <2> QED BY <1>1, <1>2, Induction
<1>4. step - 1 \in Nat /\ step - 1 < step /\ (step - 1) + 1 = step OBVIOUS
<1>5. Ticks(x)[step - 1] = Ahead(x, step - 1) BY <1>3, <1>4
<1>6. Ticks(x)[step] = TickOne(Ahead(x, step - 1))
  <2>1. Ticks(x)[(step - 1) + 1] = TickOne(Ticks(x)[step - 1]) BY <1>4, TicksDef
  <2> QED BY <2>1, <1>4, <1>5
<1> QED BY <1>6, LastTick

\* Counting a and then b is counting a + b.
LEMMA TicksAdd ==
    ASSUME NEW x \in Timer, Wrap \in Nat \ {0}, NEW a \in Nat, NEW b \in Nat
    PROVE  Ticks(Ticks(x)[a])[b] = Ticks(x)[a + b]
<1> DEFINE y == Ticks(x)[a]
           P == {n \in Nat : Ticks(y)[n] = Ticks(x)[a + n]}
<1>0. y \in Timer BY TicksDef
<1>1. 0 \in P
  <2>1. Ticks(y)[0] = y
    <3> HIDE DEF y
    <3> QED BY <1>0, TicksDef
  <2>2. a + 0 = a OBVIOUS
  <2> QED BY <2>1, <2>2
<1>2. ASSUME NEW n \in Nat, n \in P PROVE n + 1 \in P
  <2> HIDE DEF y
  <2>1. Ticks(y)[n + 1] = TickOne(Ticks(y)[n]) BY <1>0, TicksDef
  <2>2. a + n \in Nat /\ (a + n) + 1 = a + (n + 1) OBVIOUS
  <2>3. Ticks(x)[(a + n) + 1] = TickOne(Ticks(x)[a + n]) BY <2>2, TicksDef
  <2> QED BY <1>2, <2>1, <2>2, <2>3
<1>3. \A n \in Nat : n \in P
  <2> HIDE DEF P
  <2> QED BY <1>1, <1>2, Induction
<1> QED BY <1>3

-----------------------------------------------------------------------------
(* The loop of timer_advance_counts.                                       *)

LoopState == [timer : Timer, left : Nat]

LEMMA ChunkType ==
    ASSUME NEW x \in Timer, Wrap \in Nat \ {0}, NEW step \in Nat
    PROVE  Chunk(x, step) \in Timer
<1> DEFINE y == [x EXCEPT !.counter = (@ + step) % Wrap]
           z == IF step = TargetDist(x) THEN AtTarget(y) ELSE y
<1>1. y \in Timer BY DEF Timer
<1>2. z \in Timer
  <2> HIDE DEF y
  <2> QED BY <1>1, AtTargetType
<1>3. AtOverflow(z) \in Timer BY <1>2, AtOverflowType
<1>4. Chunk(x, step) = IF x.counter + step >= Wrap THEN AtOverflow(z) ELSE z BY DEF Chunk
<1> QED BY <1>2, <1>3, <1>4

\* A turn of the loop is a chunk.
LEMMA TurnIsChunk ==
    ASSUME NEW s \in LoopState, Wrap \in Nat \ {0}, s.left # 0
    PROVE  LET step == NextStep(s.timer, s.left)
           IN  /\ CountChunk(s) = [timer |-> Chunk(s.timer, step), left |-> s.left - step]
               /\ step \in 1..s.left
               /\ step <= TargetDist(s.timer) /\ step <= OverflowDist(s.timer)
<1> DEFINE step == NextStep(s.timer, s.left)
<1>1. s.timer \in Timer /\ s.left \in Nat \ {0} BY DEF LoopState
<1>2. step \in 1..s.left /\ step <= TargetDist(s.timer) /\ step <= OverflowDist(s.timer)
  BY <1>1, StepBounds
<1>3. CountChunk(s) = [timer |-> Chunk(s.timer, step), left |-> s.left - step]
  BY DEF CountChunk, Chunk
<1> QED BY <1>2, <1>3

LEMMA TurnType ==
    ASSUME NEW s \in LoopState, Wrap \in Nat \ {0}
    PROVE  CountChunk(s) \in LoopState
<1>1. CASE s.left = 0
  BY <1>1 DEF CountChunk
<1>2. CASE s.left # 0
  <2> DEFINE step == NextStep(s.timer, s.left)
  <2>1. /\ CountChunk(s) = [timer |-> Chunk(s.timer, step), left |-> s.left - step]
        /\ step \in 1..s.left
    BY <1>2, TurnIsChunk
  <2> HIDE DEF step
  <2>2. s.timer \in Timer /\ s.left \in Nat BY DEF LoopState
  <2>3. step \in Nat /\ s.left - step \in Nat BY <2>1, <2>2
  <2>4. Chunk(s.timer, step) \in Timer BY <2>2, <2>3, ChunkType
  <2> QED BY <2>1, <2>3, <2>4 DEF LoopState
<1> QED BY <1>1, <1>2

\* The recursive function CountLoop is defined by its equation.
LEMMA LoopDef ==
    ASSUME NEW x \in Timer, NEW ticks \in Nat, Wrap \in Nat \ {0}
    PROVE  /\ CountLoop(x, ticks) \in [Nat -> LoopState]
           /\ CountLoop(x, ticks)[0] = [timer |-> x, left |-> ticks]
           /\ \A k \in Nat : CountLoop(x, ticks)[k + 1] = CountChunk(CountLoop(x, ticks)[k])
<1> DEFINE g == [s \in LoopState |-> CountChunk(s)]
           init == [timer |-> x, left |-> ticks]
           Eqn(f) == f = [k \in Nat |-> IF k = 0 THEN init ELSE CountChunk(f[k - 1])]
           loop == CountLoop(x, ticks)
<1>1. g \in [LoopState -> LoopState] BY TurnType
<1>2. init \in LoopState BY DEF LoopState
<1>3. PICK f \in [Nat -> LoopState] : IteratesOf(f, g, init)
  <2> HIDE DEF g, init
  <2> QED BY <1>1, <1>2, Iterates
<1>4. \A k \in Nat \ {0} : f[k] = CountChunk(f[k - 1])
  <2> SUFFICES ASSUME NEW k \in Nat \ {0} PROVE f[k] = CountChunk(f[k - 1]) OBVIOUS
  <2>1. k - 1 \in Nat /\ (k - 1) + 1 = k OBVIOUS
  <2> HIDE DEF init
  <2>2. f[(k - 1) + 1] = g[f[k - 1]] BY <1>3, <2>1 DEF IteratesOf
  <2>3. f[k - 1] \in LoopState BY <1>3, <2>1
  <2> QED BY <2>1, <2>2, <2>3
<1>5. Eqn(f)
  <2> HIDE DEF init, g
  <2> QED BY <1>3, <1>4 DEF IteratesOf
<1>6. loop = CHOOSE h : Eqn(h) BY DEF CountLoop
<1>7. Eqn(loop)
  <2> HIDE DEF Eqn, loop
  <2> QED BY <1>5, <1>6
<1> HIDE DEF init, loop
<1>8. loop[0] = init
  BY <1>7
<1>9. ASSUME NEW k \in Nat PROVE loop[k + 1] = CountChunk(loop[k])
  <2>1. k + 1 \in Nat /\ k + 1 # 0 /\ (k + 1) - 1 = k OBVIOUS
  <2> QED BY <1>7, <2>1
<1> DEFINE P == {k \in Nat : loop[k] \in LoopState}
<1>10. 0 \in P BY <1>8, <1>2
<1>11. ASSUME NEW k \in Nat, k \in P PROVE k + 1 \in P
  BY <1>9, <1>11, TurnType
<1>12. \A k \in Nat : k \in P
  <2> HIDE DEF P
  <2> QED BY <1>10, <1>11, Induction
<1>13. loop \in [Nat -> LoopState]
  BY <1>7, <1>12
<1> QED BY <1>8, <1>9, <1>13 DEF loop, init

\* Chunked counting is counting, over every span and from every timer: after each turn,
\* counting what is left one by one leads where counting all of it would have led, and k
\* turns have counted at least k.
LEMMA ChunkedIsCounted ==
    ASSUME NEW x \in Timer, NEW n \in Nat, Wrap \in Nat \ {0}
    PROVE  AdvanceCounts(x, n) = Ticks(x)[n]
<1> DEFINE loop == CountLoop(x, n)
           P == {k \in Nat : /\ Ticks(loop[k].timer)[loop[k].left] = Ticks(x)[n]
                             /\ loop[k].left = 0 \/ loop[k].left + k <= n}
<1>0. /\ loop \in [Nat -> LoopState]
      /\ loop[0] = [timer |-> x, left |-> n]
      /\ \A k \in Nat : loop[k + 1] = CountChunk(loop[k])
  BY LoopDef
<1> HIDE DEF loop
<1>1. 0 \in P
  <2>1. loop[0].timer = x /\ loop[0].left = n BY <1>0
  <2> QED BY <2>1
<1>2. ASSUME NEW k \in Nat, k \in P PROVE k + 1 \in P
  <2> DEFINE s == loop[k]
             step == NextStep(s.timer, s.left)
  <2>1. s \in LoopState /\ s.timer \in Timer /\ s.left \in Nat BY <1>0 DEF LoopState
  <2>2. /\ loop[k + 1] = CountChunk(s)
        /\ Ticks(s.timer)[s.left] = Ticks(x)[n]
        /\ s.left = 0 \/ s.left + k <= n
    BY <1>0, <1>2
  <2>3. CASE s.left = 0
    <3>1. CountChunk(s) = s BY <2>3 DEF CountChunk
    <3> HIDE DEF s
    <3> QED BY <2>2, <2>3, <3>1
  <2>4. CASE s.left # 0
    <3> HIDE DEF s
    <3>1. /\ CountChunk(s) = [timer |-> Chunk(s.timer, step), left |-> s.left - step]
          /\ step \in 1..s.left
          /\ step <= TargetDist(s.timer) /\ step <= OverflowDist(s.timer)
      BY <2>1, <2>4, TurnIsChunk
    <3> HIDE DEF step
    <3>2. step \in Nat \ {0} /\ s.left - step \in Nat /\ step + (s.left - step) = s.left
      BY <2>1, <3>1
    <3>3. Ticks(s.timer)[step] = Chunk(s.timer, step) BY <2>1, <3>1, <3>2, ChunkIsTicks
    <3>4. Ticks(Ticks(s.timer)[step])[s.left - step] = Ticks(s.timer)[s.left]
      <4>1. Ticks(Ticks(s.timer)[step])[s.left - step] = Ticks(s.timer)[step + (s.left - step)]
        BY <2>1, <3>2, TicksAdd
      <4> QED BY <4>1, <3>2
    <3>5. loop[k + 1].timer = Chunk(s.timer, step) /\ loop[k + 1].left = s.left - step
      BY <2>2, <3>1
    <3>6. Ticks(loop[k + 1].timer)[loop[k + 1].left] = Ticks(x)[n]
      BY <2>2, <3>3, <3>4, <3>5
    <3>7. loop[k + 1].left + (k + 1) <= n
      BY <2>1, <2>2, <2>4, <3>1, <3>5
    <3> QED BY <3>6, <3>7
  <2> QED BY <2>3, <2>4
<1>3. \A k \in Nat : k \in P
  <2> HIDE DEF P
  <2> QED BY <1>1, <1>2, Induction
<1>4. loop[n] \in LoopState /\ loop[n].timer \in Timer /\ loop[n].left \in Nat
  BY <1>0 DEF LoopState
<1>5. loop[n].left = 0 /\ Ticks(loop[n].timer)[loop[n].left] = Ticks(x)[n]
  BY <1>3, <1>4
<1>6. Ticks(loop[n].timer)[0] = loop[n].timer BY <1>4, TicksDef
<1> QED BY <1>5, <1>6 DEF AdvanceCounts, loop

-----------------------------------------------------------------------------
(* The fraction of a count.                                                *)

WithFrac(x, f) == [x EXCEPT !.frac = f]

LEMMA WithFracFacts ==
    ASSUME NEW x \in Timer, NEW f \in Nat
    PROVE  /\ WithFrac(x, f) \in Timer
           /\ WithFrac(x, f).frac = f /\ WithFrac(x, f).div = x.div
           /\ \A e \in Nat : WithFrac(WithFrac(x, e), f) = WithFrac(x, f)
  BY DEF WithFrac, Timer

LEMMA FireFrac ==
    ASSUME NEW x \in Timer, NEW f \in Nat
    PROVE  Fire(WithFrac(x, f)) = WithFrac(Fire(x), f)
  BY DEF Fire, WithFrac, Timer

LEMMA AtTargetFrac ==
    ASSUME NEW x \in Timer, NEW f \in Nat
    PROVE  AtTarget(WithFrac(x, f)) = WithFrac(AtTarget(x), f)
<1> DEFINE y == IF x.irqTarget THEN Fire(x) ELSE x
           v == IF WithFrac(x, f).irqTarget THEN Fire(WithFrac(x, f)) ELSE WithFrac(x, f)
<1>1. y \in Timer BY FireType
<1>2. v = WithFrac(y, f)
  <2>1. WithFrac(x, f).irqTarget = x.irqTarget BY DEF WithFrac, Timer
  <2> QED BY <2>1, FireFrac
<1>3. WithFrac(x, f).reset = x.reset BY DEF WithFrac, Timer
<1>4. /\ AtTarget(x) = [y EXCEPT !.targetFlag = TRUE, !.counter = IF x.reset THEN 0 ELSE @]
      /\ AtTarget(WithFrac(x, f)) =
             [v EXCEPT !.targetFlag = TRUE, !.counter = IF WithFrac(x, f).reset THEN 0 ELSE @]
  BY DEF AtTarget
<1> HIDE DEF y, v
<1> QED BY <1>1, <1>2, <1>3, <1>4 DEF WithFrac, Timer

LEMMA AtOverflowFrac ==
    ASSUME NEW x \in Timer, NEW f \in Nat
    PROVE  AtOverflow(WithFrac(x, f)) = WithFrac(AtOverflow(x), f)
<1> DEFINE y == IF x.irqOverflow THEN Fire(x) ELSE x
           v == IF WithFrac(x, f).irqOverflow THEN Fire(WithFrac(x, f)) ELSE WithFrac(x, f)
<1>1. y \in Timer BY FireType
<1>2. v = WithFrac(y, f)
  <2>1. WithFrac(x, f).irqOverflow = x.irqOverflow BY DEF WithFrac, Timer
  <2> QED BY <2>1, FireFrac
<1>3. /\ AtOverflow(x) = [y EXCEPT !.overflowFlag = TRUE]
      /\ AtOverflow(WithFrac(x, f)) = [v EXCEPT !.overflowFlag = TRUE]
  BY DEF AtOverflow
<1> HIDE DEF y, v
<1> QED BY <1>1, <1>2, <1>3 DEF WithFrac, Timer

\* Counting neither reads nor changes the fraction.
LEMMA TickFrac ==
    ASSUME NEW x \in Timer, NEW f \in Nat, Wrap \in Nat \ {0}
    PROVE  TickOne(WithFrac(x, f)) = WithFrac(TickOne(x), f)
<1> DEFINE Inc(t) == [t EXCEPT !.counter = (@ + 1) % Wrap]
           Hit(t) == IF t.counter = t.target THEN AtTarget(t) ELSE t
           y == Inc(x)
           w == WithFrac(x, f)
<1>1. y \in Timer BY DEF Timer
<1>2. Inc(w) = WithFrac(y, f) BY DEF WithFrac, Timer
<1>3. w.counter = x.counter BY DEF WithFrac, Timer
<1>4. /\ TickOne(x) = IF x.counter = Wrap - 1 THEN AtOverflow(Hit(y)) ELSE Hit(y)
      /\ TickOne(w) = IF w.counter = Wrap - 1 THEN AtOverflow(Hit(Inc(w))) ELSE Hit(Inc(w))
  BY DEF TickOne
<1> HIDE DEF y, w, Inc
<1>5. Hit(WithFrac(y, f)) = WithFrac(Hit(y), f)
  <2>1. WithFrac(y, f).counter = y.counter /\ WithFrac(y, f).target = y.target
    BY <1>1 DEF WithFrac, Timer
  <2> QED BY <1>1, <2>1, AtTargetFrac
<1>6. Hit(y) \in Timer BY <1>1, AtTargetType
<1> HIDE DEF Hit
<1>7. AtOverflow(WithFrac(Hit(y), f)) = WithFrac(AtOverflow(Hit(y)), f) BY <1>6, AtOverflowFrac
<1>8. TickOne(w) = WithFrac(TickOne(x), f)
  BY <1>2, <1>3, <1>4, <1>5, <1>7
<1> QED BY <1>8 DEF w

LEMMA TicksFrac ==
    ASSUME NEW x \in Timer, NEW f \in Nat, Wrap \in Nat \ {0}, NEW n \in Nat
    PROVE  Ticks(WithFrac(x, f))[n] = WithFrac(Ticks(x)[n], f)
<1> DEFINE w == WithFrac(x, f)
           P == {k \in Nat : Ticks(w)[k] = WithFrac(Ticks(x)[k], f)}
<1>0. w \in Timer BY WithFracFacts
<1> HIDE DEF w
<1>1. 0 \in P
  BY <1>0, TicksDef DEF w
<1>2. ASSUME NEW k \in Nat, k \in P PROVE k + 1 \in P
  <2>1. Ticks(w)[k + 1] = TickOne(Ticks(w)[k]) BY <1>0, TicksDef
  <2>2. Ticks(x)[k + 1] = TickOne(Ticks(x)[k]) /\ Ticks(x)[k] \in Timer BY TicksDef
  <2>3. TickOne(WithFrac(Ticks(x)[k], f)) = WithFrac(TickOne(Ticks(x)[k]), f)
    BY <2>2, TickFrac
  <2> QED BY <1>2, <2>1, <2>2, <2>3
<1>3. \A k \in Nat : k \in P
  <2> HIDE DEF P
  <2> QED BY <1>1, <1>2, Induction
<1> QED BY <1>3 DEF w

\* Counting leaves the clock's divisor and fraction.
LEMMA TickKeeps ==
    ASSUME NEW x \in Timer, Wrap \in Nat \ {0}
    PROVE  TickOne(x).frac = x.frac /\ TickOne(x).div = x.div
<1> DEFINE y == [x EXCEPT !.counter = (@ + 1) % Wrap]
           z == IF y.counter = y.target THEN AtTarget(y) ELSE y
<1>1. y \in Timer /\ y.frac = x.frac /\ y.div = x.div BY DEF Timer
<1>2. ASSUME NEW t \in Timer
      PROVE  /\ Fire(t).frac = t.frac /\ Fire(t).div = t.div
             /\ AtTarget(t).frac = t.frac /\ AtTarget(t).div = t.div
             /\ AtOverflow(t).frac = t.frac /\ AtOverflow(t).div = t.div
  <2>1. Fire(t) \in Timer /\ Fire(t).frac = t.frac /\ Fire(t).div = t.div
    <3>1. Fire(t).frac = t.frac /\ Fire(t).div = t.div BY DEF Fire, Timer
    <3> QED BY <3>1, FireType
  <2> QED BY <2>1 DEF AtTarget, AtOverflow, Timer
<1> HIDE DEF y
<1>3. z \in Timer /\ z.frac = x.frac /\ z.div = x.div BY <1>1, <1>2, AtTargetType
<1>4. TickOne(x) = IF x.counter = Wrap - 1 THEN AtOverflow(z) ELSE z BY DEF TickOne, y
<1> HIDE DEF z
<1> QED BY <1>2, <1>3, <1>4

LEMMA TicksKeep ==
    ASSUME NEW x \in Timer, Wrap \in Nat \ {0}, NEW n \in Nat
    PROVE  Ticks(x)[n].frac = x.frac /\ Ticks(x)[n].div = x.div
<1> DEFINE P == {k \in Nat : Ticks(x)[k].frac = x.frac /\ Ticks(x)[k].div = x.div}
<1>1. 0 \in P BY TicksDef
<1>2. ASSUME NEW k \in Nat, k \in P PROVE k + 1 \in P
  <2>1. Ticks(x)[k + 1] = TickOne(Ticks(x)[k]) /\ Ticks(x)[k] \in Timer BY TicksDef
  <2> QED BY <1>2, <2>1, TickKeeps
<1>3. \A k \in Nat : k \in P
  <2> HIDE DEF P
  <2> QED BY <1>1, <1>2, Induction
<1> QED BY <1>3

-----------------------------------------------------------------------------
(* timers_advance.                                                         *)

\* Advancing is counting the whole counts.
LEMMA AdvanceIsTicks ==
    ASSUME NEW x \in Timer, NEW c \in Nat, Wrap \in Nat \ {0}
    PROVE  LET q == (x.frac + c) \div x.div
               r == (x.frac + c) % x.div
           IN  /\ Advance(x, c) = WithFrac(Ticks(x)[q], r)
               /\ Advance(x, c) \in Timer
               /\ Advance(x, c).frac = r /\ Advance(x, c).div = x.div
               /\ q \in Nat /\ r \in 0..(x.div - 1)
<1> DEFINE q == (x.frac + c) \div x.div
           r == (x.frac + c) % x.div
<1>1. x.frac \in Nat /\ x.div \in Nat \ {0} BY DEF Timer
<1>2. q \in Nat /\ r \in 0..(x.div - 1) /\ r \in Nat
  <2>1. x.frac + c \in Nat BY <1>1
  <2>2. q \in Nat /\ r \in 0..(x.div - 1) BY <1>1, <2>1, Division
  <2> QED BY <1>1, <2>2
<1>3. Advance(x, c) = AdvanceCounts(WithFrac(x, r), q) BY DEF Advance, WithFrac
<1> HIDE DEF q, r
<1>4. WithFrac(x, r) \in Timer BY <1>2, WithFracFacts
<1>5. Advance(x, c) = Ticks(WithFrac(x, r))[q] BY <1>2, <1>3, <1>4, ChunkedIsCounted
<1>6. Advance(x, c) = WithFrac(Ticks(x)[q], r) BY <1>2, <1>5, TicksFrac
<1>7. Ticks(x)[q] \in Timer /\ Ticks(x)[q].div = x.div BY <1>2, TicksDef, TicksKeep
<1>8. Advance(x, c) \in Timer /\ Advance(x, c).frac = r /\ Advance(x, c).div = x.div
  BY <1>2, <1>6, <1>7, WithFracFacts
<1> QED BY <1>2, <1>6, <1>8 DEF q, r

LEMMA AdvanceAdds ==
    ASSUME NEW x \in Timer, NEW a \in Nat, NEW b \in Nat, Wrap \in Nat \ {0}
    PROVE  Advance(Advance(x, a), b) = Advance(x, a + b)
<1> DEFINE d == x.div
           q == (x.frac + a) \div d
           r == (x.frac + a) % d
           y == Advance(x, a)
           p == (r + b) \div d
           s == (r + b) % d
<1>1. x.frac \in Nat /\ d \in Nat \ {0} /\ x.frac + a \in Nat BY DEF Timer
<1>2. /\ y = WithFrac(Ticks(x)[q], r) /\ y \in Timer /\ y.frac = r /\ y.div = d
      /\ q \in Nat /\ r \in 0..(d - 1)
  BY AdvanceIsTicks
<1>3. /\ (r + b) % d = ((x.frac + a) + b) % d
      /\ q + (r + b) \div d = ((x.frac + a) + b) \div d
  BY <1>1, CarriedDivision
<1>4. (x.frac + a) + b = x.frac + (a + b) /\ a + b \in Nat BY <1>1
<1>5. Advance(x, a + b) = WithFrac(Ticks(x)[q + p], s)
  <2>1. Advance(x, a + b) = WithFrac(Ticks(x)[(x.frac + (a + b)) \div d], (x.frac + (a + b)) % d)
    BY <1>4, AdvanceIsTicks
  <2> QED BY <2>1, <1>3, <1>4
<1> HIDE DEF y, q, r, d
<1>6. /\ Advance(y, b) = WithFrac(Ticks(y)[p], s)
      /\ p \in Nat /\ s \in 0..(d - 1)
  <2>1. LET k == (y.frac + b) \div y.div
            m == (y.frac + b) % y.div
        IN  Advance(y, b) = WithFrac(Ticks(y)[k], m) /\ k \in Nat /\ m \in 0..(y.div - 1)
    BY <1>2, AdvanceIsTicks
  <2> QED BY <1>2, <2>1
<1> HIDE DEF p, s
<1>7. Ticks(x)[q] \in Timer BY <1>2, TicksDef
<1>8. s \in Nat /\ r \in Nat BY <1>1, <1>2, <1>6
<1>9. Ticks(y)[p] = WithFrac(Ticks(Ticks(x)[q])[p], r)
  BY <1>2, <1>6, <1>7, <1>8, TicksFrac
<1>10. Ticks(Ticks(x)[q])[p] = Ticks(x)[q + p] BY <1>2, <1>6, TicksAdd
<1>11. Ticks(x)[q + p] \in Timer
  <2>1. q + p \in Nat BY <1>2, <1>6
  <2> QED BY <2>1, TicksDef
<1>12. WithFrac(WithFrac(Ticks(x)[q + p], r), s) = WithFrac(Ticks(x)[q + p], s)
  BY <1>8, <1>11, WithFracFacts
<1> QED BY <1>5, <1>6, <1>9, <1>10, <1>12 DEF y

-----------------------------------------------------------------------------
(* The prediction.                                                         *)

\* The count of t meets its target, or wraps, with that interrupt armed.
Match(t) == t.irqTarget /\ (t.counter + 1) % Wrap = t.target
Wraps(t) == t.irqOverflow /\ t.counter = Wrap - 1

LEMMA FireFires ==
    ASSUME NEW x \in Timer
    PROVE  Fire(x).fires = x.fires + 1
  BY DEF Fire, Timer

LEMMA AtTargetEffect ==
    ASSUME NEW x \in Timer
    PROVE  /\ x.irqTarget => AtTarget(x).fires = x.fires + 1
           /\ ~x.irqTarget => AtTarget(x) = [x EXCEPT !.targetFlag = TRUE,
                                                      !.counter = IF x.reset THEN 0 ELSE @]
<1>1. Fire(x) \in Timer BY FireType
<1>2. ASSUME x.irqTarget PROVE AtTarget(x).fires = Fire(x).fires
  BY <1>1, <1>2 DEF AtTarget, Timer
<1> QED BY <1>2, FireFires DEF AtTarget

LEMMA AtOverflowEffect ==
    ASSUME NEW x \in Timer
    PROVE  /\ x.irqOverflow => AtOverflow(x).fires = x.fires + 1
           /\ ~x.irqOverflow => AtOverflow(x) = [x EXCEPT !.overflowFlag = TRUE]
<1>1. Fire(x) \in Timer BY FireType
<1>2. ASSUME x.irqOverflow PROVE AtOverflow(x).fires = Fire(x).fires
  BY <1>1, <1>2 DEF AtOverflow, Timer
<1> QED BY <1>2, FireFires DEF AtOverflow

\* What a count that fires no interrupt leaves alone.
Quiet(x, y) ==
    /\ y.fires = x.fires /\ y.target = x.target /\ y.reset = x.reset
    /\ y.irqTarget = x.irqTarget /\ y.irqOverflow = x.irqOverflow

LEMMA QuietTick ==
    ASSUME NEW x \in Timer, Wrap \in Nat \ {0}, ~Match(x), ~Wraps(x)
    PROVE  /\ Quiet(x, TickOne(x))
           /\ TickOne(x).counter = IF (x.counter + 1) % Wrap = x.target /\ x.reset THEN 0
                                   ELSE (x.counter + 1) % Wrap
<1> DEFINE y == [x EXCEPT !.counter = (@ + 1) % Wrap]
           z == IF y.counter = y.target THEN AtTarget(y) ELSE y
<1>1. y \in Timer /\ Quiet(x, y) /\ y.counter = (x.counter + 1) % Wrap BY DEF Timer, Quiet
<1>2. TickOne(x) = IF x.counter = Wrap - 1 THEN AtOverflow(z) ELSE z BY DEF TickOne
<1> HIDE DEF y
<1>3. /\ z \in Timer /\ Quiet(x, z)
      /\ z.counter = IF (x.counter + 1) % Wrap = x.target /\ x.reset THEN 0
                     ELSE (x.counter + 1) % Wrap
  <2>1. CASE y.counter = y.target
    <3>1. ~y.irqTarget BY <1>1, <2>1 DEF Match, Quiet
    <3>2. z = [y EXCEPT !.targetFlag = TRUE, !.counter = IF y.reset THEN 0 ELSE @]
      BY <1>1, <2>1, <3>1, AtTargetEffect
    <3>3. z \in Timer BY <1>1, <2>1, AtTargetType
    <3> HIDE DEF z
    <3> QED BY <1>1, <2>1, <3>2, <3>3 DEF Quiet, Timer
  <2>2. CASE y.counter # y.target
    <3>1. z = y BY <2>2
    <3> QED BY <1>1, <2>2, <3>1 DEF Quiet
  <2> QED BY <2>1, <2>2
<1> HIDE DEF z
<1>4. CASE x.counter = Wrap - 1
  <2>1. ~z.irqOverflow BY <1>3, <1>4 DEF Wraps, Quiet
  <2>2. TickOne(x) = [z EXCEPT !.overflowFlag = TRUE] BY <1>2, <1>3, <1>4, <2>1, AtOverflowEffect
  <2> QED BY <1>3, <2>2 DEF Quiet, Timer
<1>5. CASE x.counter # Wrap - 1
  BY <1>2, <1>3, <1>5
<1> QED BY <1>4, <1>5

LEMMA FiringTick ==
    ASSUME NEW x \in Timer, Wrap \in Nat \ {0}, Match(x) \/ Wraps(x)
    PROVE  TickOne(x).fires > x.fires
<1> DEFINE y == [x EXCEPT !.counter = (@ + 1) % Wrap]
           z == IF y.counter = y.target THEN AtTarget(y) ELSE y
<1>1. y \in Timer /\ Quiet(x, y) /\ y.counter = (x.counter + 1) % Wrap BY DEF Timer, Quiet
<1>2. TickOne(x) = IF x.counter = Wrap - 1 THEN AtOverflow(z) ELSE z BY DEF TickOne
<1>3. x.fires \in Nat BY DEF Timer
<1> HIDE DEF y
<1>4. z \in Timer BY <1>1, AtTargetType
<1>5. \/ z.fires = x.fires + 1
      \/ z.fires = x.fires /\ z.irqOverflow = x.irqOverflow /\ ~Match(x)
  <2>1. CASE y.counter = y.target
    <3>1. CASE y.irqTarget
      <4>1. z.fires = y.fires + 1 BY <1>1, <2>1, <3>1, AtTargetEffect
      <4> QED BY <1>1, <4>1 DEF Quiet
    <3>2. CASE ~y.irqTarget
      <4>1. z = [y EXCEPT !.targetFlag = TRUE, !.counter = IF y.reset THEN 0 ELSE @]
        BY <1>1, <2>1, <3>2, AtTargetEffect
      <4> HIDE DEF z
      <4> QED BY <1>1, <3>2, <4>1 DEF Quiet, Timer, Match
    <3> QED BY <3>1, <3>2
  <2>2. CASE y.counter # y.target
    <3>1. z = y BY <2>2
    <3> QED BY <1>1, <2>2, <3>1 DEF Quiet, Match
  <2> QED BY <2>1, <2>2
<1> HIDE DEF z
<1>6. z.irqOverflow => AtOverflow(z).fires = z.fires + 1 BY <1>4, AtOverflowEffect
<1>7. ~z.irqOverflow => AtOverflow(z).fires = z.fires
  <2>1. ~z.irqOverflow => AtOverflow(z) = [z EXCEPT !.overflowFlag = TRUE] BY <1>4, AtOverflowEffect
  <2> QED BY <1>4, <2>1 DEF Timer
<1>8. z.fires \in Nat BY <1>4 DEF Timer
<1> QED BY <1>2, <1>3, <1>5, <1>6, <1>7, <1>8 DEF Wraps

\* No armed interrupt is met in the next j counts.
Before(x, j) ==
    /\ x.irqTarget => j < TargetDist(x)
    /\ x.irqOverflow => j < OverflowDist(x)

\* An interrupt is armed that the counter is sure to meet.
Bound(x) == x.irqTarget \/ (x.irqOverflow /\ ~x.reset)

\* Where y stands j quiet counts after x: a counter that is not reset on the way has
\* counted them all, and one that is has not come further.
Reached(x, y, j) ==
    /\ y \in Timer /\ Quiet(x, y)
    /\ Bound(x) => y.counter = (x.counter + j) % Wrap
    /\ x.irqOverflow => y.counter <= x.counter + j

LEMMA BeforeBounds ==
    ASSUME NEW x \in Timer, NEW j \in Nat, Wrap \in Nat \ {0}, Before(x, j)
    PROVE  /\ Bound(x) => x.counter + j < 2 * Wrap
           /\ x.irqOverflow => x.counter + j < Wrap
           /\ x.counter \in 0..(Wrap - 1) /\ x.target \in 0..(Wrap - 1)
<1>1. x.counter \in 0..(Wrap - 1) /\ x.target \in 0..(Wrap - 1) BY DEF Timer
<1>2. TargetDist(x) <= Wrap /\ TargetDist(x) \in Int BY Distances
<1> QED BY <1>1, <1>2 DEF Before, Bound, OverflowDist

\* One count on, modulo the width.
LEMMA ModNext ==
    ASSUME Wrap \in Nat \ {0}, NEW a \in 0..(2 * Wrap - 1)
    PROVE  ((a % Wrap) + 1) % Wrap = (a + 1) % Wrap
<1>1. a \in Nat /\ 1 \in Nat BY Wrap \in Nat
<1> QED BY <1>1, CarriedDivision

\* j + 1 counts meet the target exactly when they are its distance.
LEMMA MeetsTarget ==
    ASSUME NEW x \in Timer, NEW j \in Nat, Wrap \in Nat \ {0}, j + 1 <= TargetDist(x)
    PROVE  (x.counter + (j + 1)) % Wrap = x.target <=> j + 1 = TargetDist(x)
<1> DEFINE c == x.counter + (j + 1)
<1>1. x.counter \in 0..(Wrap - 1) /\ x.target \in 0..(Wrap - 1) BY DEF Timer
<1>2. TargetDist(x) \in 1..Wrap BY Distances
<1>3. c \in 1..(2 * Wrap - 1) BY <1>1, <1>2
<1>4. CASE c < Wrap
  <2>1. c % Wrap = c BY <1>3, <1>4, ModWrap
  <2>2. (c = x.target) <=> (j + 1 = TargetDist(x)) BY <1>1, <1>2, <1>4, Distances
  <2> QED BY <2>1, <2>2
<1>5. CASE c >= Wrap
  <2>1. c % Wrap = c - Wrap BY <1>3, <1>5, ModWrap
  <2>2. (c - Wrap = x.target) <=> (j + 1 = TargetDist(x)) BY <1>1, <1>2, <1>5, Distances
  <2> QED BY <2>1, <2>2
<1> QED BY <1>3, <1>4, <1>5

LEMMA QuietTicks ==
    ASSUME NEW x \in Timer, NEW n \in Nat, Wrap \in Nat \ {0}, Before(x, n)
    PROVE  Reached(x, Ticks(x)[n], n)
<1> DEFINE P == {j \in Nat : j <= n => Reached(x, Ticks(x)[j], j)}
<1>0. x.counter \in 0..(Wrap - 1) /\ x.target \in 0..(Wrap - 1) BY DEF Timer
<1>1. 0 \in P
  <2>1. Ticks(x)[0] = x BY TicksDef
  <2>2. (x.counter + 0) % Wrap = x.counter /\ x.counter + 0 = x.counter BY <1>0, ModWrap
  <2> QED BY <1>0, <2>1, <2>2 DEF Reached, Quiet
<1>2. ASSUME NEW j \in Nat, j \in P PROVE j + 1 \in P
  <2> SUFFICES ASSUME j + 1 <= n PROVE Reached(x, Ticks(x)[j + 1], j + 1)
    OBVIOUS
  <2> DEFINE y == Ticks(x)[j]
  <2>1. Reached(x, y, j) BY <1>2
  <2>2. Ticks(x)[j + 1] = TickOne(y) BY TicksDef
  <2> HIDE DEF y
  <2>3. y \in Timer /\ TickOne(y) \in Timer /\ y.counter \in 0..(Wrap - 1)
    <3>1. y \in Timer BY <2>1 DEF Reached
    <3> QED BY <3>1, TickType DEF Timer
  <2>4. Before(x, j) /\ Before(x, j + 1)
    BY Distances DEF Before
  <2>5. /\ Bound(x) => x.counter + j < 2 * Wrap
        /\ x.irqOverflow => x.counter + (j + 1) < Wrap
    BY <2>4, BeforeBounds
  <2>6. Bound(x) => (y.counter + 1) % Wrap = (x.counter + (j + 1)) % Wrap
    <3>1. ASSUME Bound(x) PROVE (y.counter + 1) % Wrap = (x.counter + (j + 1)) % Wrap
      <4>1. y.counter = (x.counter + j) % Wrap BY <2>1, <3>1 DEF Reached
      <4>2. x.counter + j \in 0..(2 * Wrap - 1) BY <1>0, <2>5, <3>1
      <4>3. (((x.counter + j) % Wrap) + 1) % Wrap = ((x.counter + j) + 1) % Wrap BY <4>2, ModNext
      <4>4. (x.counter + j) + 1 = x.counter + (j + 1) BY <1>0
      <4> QED BY <4>1, <4>3, <4>4
    <3> QED BY <3>1
  <2>7. x.irqTarget => (y.counter + 1) % Wrap # x.target
    <3>1. ASSUME x.irqTarget PROVE (y.counter + 1) % Wrap # x.target
      <4>1. j + 1 < TargetDist(x) /\ TargetDist(x) \in Int BY <2>4, <3>1, Distances DEF Before
      <4>2. (x.counter + (j + 1)) % Wrap # x.target BY <4>1, MeetsTarget
      <4> QED BY <2>6, <3>1, <4>2 DEF Bound
    <3> QED BY <3>1
  <2>8. x.irqOverflow => y.counter + 1 < Wrap /\ y.counter + 1 <= x.counter + (j + 1)
    BY <1>0, <2>1, <2>3, <2>5 DEF Reached
  <2>9. Quiet(x, y) BY <2>1 DEF Reached
  <2>10. ~Match(y) /\ ~Wraps(y)
    BY <2>3, <2>7, <2>8, <2>9 DEF Match, Wraps, Quiet
  <2>11. /\ Quiet(y, TickOne(y))
         /\ TickOne(y).counter = IF (y.counter + 1) % Wrap = y.target /\ y.reset THEN 0
                                 ELSE (y.counter + 1) % Wrap
    BY <2>3, <2>10, QuietTick
  <2>12. Quiet(x, TickOne(y)) BY <2>9, <2>11 DEF Quiet
  <2>13. Bound(x) => TickOne(y).counter = (x.counter + (j + 1)) % Wrap
    BY <2>6, <2>7, <2>9, <2>11 DEF Bound, Quiet
  <2>14. x.irqOverflow => TickOne(y).counter <= x.counter + (j + 1)
    <3>1. ASSUME x.irqOverflow PROVE TickOne(y).counter <= x.counter + (j + 1)
      <4>1. (y.counter + 1) % Wrap = y.counter + 1 BY <2>3, <2>8, <3>1, ModWrap
      <4> QED BY <1>0, <2>3, <2>8, <2>11, <3>1, <4>1
    <3> QED BY <3>1
  <2> QED BY <2>2, <2>3, <2>12, <2>13, <2>14 DEF Reached
<1>3. \A j \in Nat : j \in P
  <2> HIDE DEF P
  <2> QED BY <1>1, <1>2, Induction
<1> QED BY <1>3

\* The counts to the next armed interrupt.
IrqTicks(x) ==
    Min((IF x.irqTarget THEN {TargetDist(x)} ELSE {})
        \cup (IF x.irqOverflow THEN {OverflowDist(x)} ELSE {}))

LEMMA IrqTicksFacts ==
    ASSUME NEW x \in Timer, Wrap \in Nat \ {0}, x.irqTarget \/ x.irqOverflow
    PROVE  /\ IrqTicks(x) \in 1..Wrap
           /\ x.irqTarget => IrqTicks(x) <= TargetDist(x)
           /\ x.irqOverflow => IrqTicks(x) <= OverflowDist(x)
           /\ \/ x.irqTarget /\ IrqTicks(x) = TargetDist(x)
              \/ x.irqOverflow /\ IrqTicks(x) = OverflowDist(x)
<1> DEFINE t == TargetDist(x)
           o == OverflowDist(x)
<1>1. t \in 1..Wrap /\ o \in 1..Wrap /\ t \in Int /\ o \in Int
  <2>1. t \in 1..Wrap /\ o \in 1..Wrap BY Distances
  <2> HIDE DEF t, o
  <2> QED BY <2>1
<1> HIDE DEF t, o
<1>2. CASE x.irqTarget /\ x.irqOverflow
  <2>1. IrqTicks(x) = Min({t, o, o}) 
    <3>1. {t} \cup {o} = {t, o, o} OBVIOUS
    <3> QED BY <1>2, <3>1 DEF IrqTicks, t, o
  <2>2. Min({t, o, o}) \in {t, o, o} /\ Min({t, o, o}) <= t /\ Min({t, o, o}) <= o
    BY <1>1, LeastOfThree
  <2> QED BY <1>1, <1>2, <2>1, <2>2 DEF t, o
<1>3. CASE x.irqTarget /\ ~x.irqOverflow
  <2>1. IrqTicks(x) = Min({t, t, t})
    <3>1. {t} \cup {} = {t, t, t} OBVIOUS
    <3> QED BY <1>3, <3>1 DEF IrqTicks, t
  <2>2. Min({t, t, t}) \in {t, t, t} BY <1>1, LeastOfThree
  <2> QED BY <1>1, <1>3, <2>1, <2>2 DEF t
<1>4. CASE ~x.irqTarget /\ x.irqOverflow
  <2>1. IrqTicks(x) = Min({o, o, o})
    <3>1. {} \cup {o} = {o, o, o} OBVIOUS
    <3> QED BY <1>4, <3>1 DEF IrqTicks, o
  <2>2. Min({o, o, o}) \in {o, o, o} BY <1>1, LeastOfThree
  <2> QED BY <1>1, <1>4, <2>1, <2>2 DEF o
<1> QED BY <1>2, <1>3, <1>4

LEMMA FiresOnTime ==
    ASSUME NEW x \in Timer, Wrap \in Nat \ {0}, Bound(x)
    PROVE  Ticks(x)[IrqTicks(x)].fires > x.fires
<1> DEFINE n == IrqTicks(x)
           y == Ticks(x)[n - 1]
<1>0. x.counter \in 0..(Wrap - 1) /\ x.target \in 0..(Wrap - 1) BY DEF Timer
<1>1. /\ n \in 1..Wrap
      /\ x.irqTarget => n <= TargetDist(x)
      /\ x.irqOverflow => n <= OverflowDist(x)
      /\ (x.irqTarget /\ n = TargetDist(x)) \/ (x.irqOverflow /\ n = OverflowDist(x))
  BY IrqTicksFacts DEF Bound
<1> HIDE DEF n
<1>2. n - 1 \in Nat /\ (n - 1) + 1 = n BY <1>1
<1>3. Before(x, n - 1) BY <1>1, Distances DEF Before
<1>4. Reached(x, y, n - 1) BY <1>2, <1>3, QuietTicks
<1>5. Ticks(x)[n] = TickOne(y)
  <2>1. Ticks(x)[(n - 1) + 1] = TickOne(Ticks(x)[n - 1]) BY <1>2, TicksDef
  <2> QED BY <1>2, <2>1
<1> HIDE DEF y
<1>6. y \in Timer /\ Quiet(x, y) /\ y.counter = (x.counter + (n - 1)) % Wrap
  BY <1>4 DEF Reached
<1>7. CASE x.irqTarget /\ n = TargetDist(x)
  <2>1. x.counter + (n - 1) \in 0..(2 * Wrap - 1) BY <1>0, <1>1
  <2>2. (((x.counter + (n - 1)) % Wrap) + 1) % Wrap = ((x.counter + (n - 1)) + 1) % Wrap
    BY <2>1, ModNext
  <2>3. (x.counter + (n - 1)) + 1 = x.counter + ((n - 1) + 1) BY <1>0, <1>1
  <2>4. (x.counter + ((n - 1) + 1)) % Wrap = x.target
    <3>1. (n - 1) + 1 = TargetDist(x) /\ (n - 1) + 1 <= TargetDist(x) BY <1>1, <1>2, <1>7
    <3> QED BY <1>2, <3>1, MeetsTarget
  <2>5. Match(y) BY <1>6, <1>7, <2>2, <2>3, <2>4 DEF Match, Quiet
  <2>6. TickOne(y).fires > y.fires BY <1>6, <2>5, FiringTick
  <2> QED BY <1>5, <1>6, <2>6 DEF Quiet, n
<1>8. CASE x.irqOverflow /\ n = OverflowDist(x)
  <2>1. x.counter + (n - 1) = Wrap - 1 BY <1>0, <1>8 DEF OverflowDist
  <2>2. (Wrap - 1) % Wrap = Wrap - 1 BY ModWrap
  <2>3. Wraps(y) BY <1>6, <1>8, <2>1, <2>2 DEF Wraps, Quiet
  <2>4. TickOne(y).fires > y.fires BY <1>6, <2>3, FiringTick
  <2> QED BY <1>5, <1>6, <2>4 DEF Quiet, n
<1> QED BY <1>1, <1>7, <1>8

LEMMA QuietAdvance ==
    ASSUME NEW x \in Timer, NEW c \in Nat, Wrap \in Nat \ {0},
           Before(x, (x.frac + c) \div x.div)
    PROVE  Advance(x, c).fires = x.fires
<1> DEFINE q == (x.frac + c) \div x.div
           r == (x.frac + c) % x.div
<1>1. Advance(x, c) = WithFrac(Ticks(x)[q], r) /\ q \in Nat BY AdvanceIsTicks
<1> HIDE DEF q, r
<1>2. Reached(x, Ticks(x)[q], q) BY <1>1, QuietTicks DEF q
<1>3. Ticks(x)[q] \in Timer /\ Ticks(x)[q].fires = x.fires BY <1>2 DEF Reached, Quiet
<1>4. WithFrac(Ticks(x)[q], r).fires = Ticks(x)[q].fires BY <1>3 DEF WithFrac, Timer
<1> QED BY <1>1, <1>3, <1>4

LEMMA LargerOfTwo ==
    ASSUME NEW a \in Int, NEW b \in Int, a >= b
    PROVE  Max({a, b}) = a
<1> DEFINE S == {a, b}
<1>1. \E x \in S : \A y \in S : x >= y OBVIOUS
<1>2. Max(S) \in S /\ \A y \in S : Max(S) >= y
  <2> HIDE DEF S
  <2> QED BY <1>1 DEF Max
<1> QED BY <1>2

\* The prediction of timers_cycles_to_irq from any timer whose fraction is less than a count.
LEMMA Prediction ==
    ASSUME NEW x \in Timer, x.frac < x.div, Wrap \in Nat \ {0}, Far \in Nat
    PROVE  /\ \A n \in 0..(CyclesToIrq(x) - 1) : Advance(x, n).fires = x.fires
           /\ Bound(x) => /\ CyclesToIrq(x) > 0
                          /\ Advance(x, CyclesToIrq(x)).fires > x.fires
<1>1. CASE ~x.irqTarget /\ ~x.irqOverflow
  <2>1. \A j : Before(x, j) BY <1>1 DEF Before
  <2>2. ~Bound(x) BY <1>1 DEF Bound
  <2>3. CyclesToIrq(x) = Far BY <1>1 DEF CyclesToIrq
  <2>4. \A n \in 0..(Far - 1) : Advance(x, n).fires = x.fires
    <3>1. \A n \in 0..(Far - 1) : n \in Nat OBVIOUS
    <3> QED BY <2>1, <3>1, QuietAdvance
  <2> QED BY <2>2, <2>3, <2>4
<1>2. CASE x.irqTarget \/ x.irqOverflow
  <2> DEFINE d == x.div
             f == x.frac
             t == IrqTicks(x)
             c == t * d - f
  <2>1. f \in Nat /\ d \in Nat \ {0} /\ f < d BY DEF Timer
  <2>2. /\ t \in 1..Wrap
        /\ x.irqTarget => t <= TargetDist(x)
        /\ x.irqOverflow => t <= OverflowDist(x)
    BY <1>2, IrqTicksFacts
  <2>3. CyclesToIrq(x) = Max({c, 0}) BY <1>2 DEF CyclesToIrq, IrqTicks
  <2> HIDE DEF d, f, t
  <2>4. t \in Nat /\ 0 < t BY <2>2
  <2>5. t * d \in Nat /\ d <= t * d
    <3>1. 0 * d + d <= t * d BY <2>1, <2>4, TimesMonotone
    <3>2. 0 * d = 0 BY <2>1
    <3>3. t * d \in Nat BY <2>1, <2>4
    <3> QED BY <2>1, <3>1, <3>2, <3>3
  <2>6. c \in Nat /\ c > 0 /\ f + c = t * d BY <2>1, <2>5
  <2>7. CyclesToIrq(x) = c
    <3> HIDE DEF c
    <3>1. c \in Int /\ 0 \in Int /\ c >= 0 BY <2>6
    <3> QED BY <2>3, <3>1, LargerOfTwo
  <2> HIDE DEF c
  <2>8. ASSUME NEW n \in 0..(c - 1) PROVE Advance(x, n).fires = x.fires
    <3> DEFINE q == (f + n) \div d
    <3>1. n \in Nat /\ f + n \in Nat /\ f + n < t * d BY <2>1, <2>6
    <3>2. q \in Nat /\ q * d <= f + n
      <4>1. q \in Nat /\ (f + n) % d \in 0..(d - 1) /\ f + n = q * d + ((f + n) % d)
        BY <2>1, <3>1, Division
      <4> DEFINE m == (f + n) % d
      <4> HIDE DEF q, m
      <4>2. q * d \in Nat /\ m \in Nat /\ f + n = q * d + m BY <2>1, <4>1 DEF m
      <4> QED BY <3>1, <4>1, <4>2
    <3> HIDE DEF q
    <3>3. q < t
      <4>1. CASE t < q
        <5>1. t * d + d <= q * d BY <2>1, <2>4, <3>2, <4>1, TimesMonotone
        <5>2. q * d \in Nat BY <2>1, <3>2
        <5> QED BY <2>1, <2>5, <3>1, <3>2, <5>1, <5>2
      <4>2. CASE t = q BY <2>5, <3>1, <3>2, <4>2
      <4> QED BY <2>4, <3>2, <4>1, <4>2
    <3>4. Before(x, q) BY <2>2, <2>4, <3>2, <3>3, Distances DEF Before
    <3> QED BY <3>1, <3>4, QuietAdvance DEF q, f, d
  <2>9. ASSUME Bound(x) PROVE Advance(x, c).fires > x.fires
    <3>1. (t * d + 0) \div d = t BY <2>1, <2>4, DivisionUnique
    <3>2. (f + c) \div d = t BY <2>5, <2>6, <3>1
    <3> DEFINE r == (f + c) % d
    <3>3. Advance(x, c) = WithFrac(Ticks(x)[(f + c) \div d], r)
      BY <2>6, AdvanceIsTicks DEF f, d
    <3>4. Advance(x, c) = WithFrac(Ticks(x)[t], r) BY <3>2, <3>3
    <3> HIDE DEF r
    <3>5. Ticks(x)[t] \in Timer BY <2>4, TicksDef
    <3>6. WithFrac(Ticks(x)[t], r).fires = Ticks(x)[t].fires BY <3>5 DEF WithFrac, Timer
    <3>7. Ticks(x)[t].fires > x.fires BY <2>9, FiresOnTime DEF t
    <3> QED BY <3>4, <3>6, <3>7
  <2> QED BY <2>6, <2>7, <2>8, <2>9
<1> QED BY <1>1, <1>2

-----------------------------------------------------------------------------
(* The theorems.                                                           *)

LEMMA WriteType ==
    ASSUME TypeOK, TimersAssumption,
           \/ \E div \in Divisors, reset, onTarget, onOverflow, repeat, toggle \in BOOLEAN :
                  WriteMode(div, reset, onTarget, onOverflow, repeat, toggle)
           \/ \E v \in Counts : WriteCounter(v)
           \/ \E v \in Targets : WriteTarget(v)
           \/ ReadMode
    PROVE  TypeOK'
<1>0. Wrap \in Nat \ {0} BY DEF TimersAssumption
<1>1. ASSUME NEW div \in Divisors, NEW reset \in BOOLEAN, NEW onTarget \in BOOLEAN,
             NEW onOverflow \in BOOLEAN, NEW repeat \in BOOLEAN, NEW toggle \in BOOLEAN,
             WriteMode(div, reset, onTarget, onOverflow, repeat, toggle)
      PROVE  TypeOK'
  <2>1. div \in Nat \ {0} BY DEF TimersAssumption
  <2>2. tm \in Timer BY DEF TypeOK
  <2>3. tm' = [counter |-> 0, target |-> tm.target, frac |-> 0, div |-> div,
               reset |-> reset, irqTarget |-> onTarget, irqOverflow |-> onOverflow,
               repeat |-> repeat, toggle |-> toggle, line |-> 0, request |-> TRUE,
               targetFlag |-> FALSE, overflowFlag |-> FALSE, raised |-> 0, fires |-> 0]
    BY <1>1, <2>2 DEF WriteMode, Timer
  <2>4. tm' \in Timer
    <3>1. tm.target \in 0..(Wrap - 1) /\ 0 \in 0..(Wrap - 1) BY <1>0, <2>2 DEF Timer
    <3> QED BY <2>1, <2>3, <3>1 DEF Timer
  <2>5. tm'.frac = 0 /\ tm'.div = div BY <2>3
  <2> QED BY <2>1, <2>4, <2>5 DEF TypeOK
<1>2. ASSUME NEW v \in Counts, WriteCounter(v) PROVE TypeOK'
  <2>1. v \in 0..(Wrap - 1) BY DEF TimersAssumption
  <2> QED BY <1>2, <2>1 DEF TypeOK, WriteCounter, Timer
<1>3. ASSUME NEW v \in Targets, WriteTarget(v) PROVE TypeOK'
  <2>1. v \in 0..(Wrap - 1) BY DEF TimersAssumption
  <2> QED BY <1>3, <2>1 DEF TypeOK, WriteTarget, Timer
<1>4. ASSUME ReadMode PROVE TypeOK'
  BY <1>4 DEF TypeOK, ReadMode, Timer
<1> QED BY <1>1, <1>2, <1>3, <1>4

\* Every register keeps its width and the fraction stays less than a count of the clock the
\* mode selects: timers_write clears it whenever it changes the clock.
THEOREM TypeCorrect == Spec => []TypeOK
<1>1. Init => TypeOK
  BY TimersAssumption DEF Init, TypeOK, Timer, TimersAssumption
<1>2. TypeOK /\ [Next]_tm => TypeOK'
  <2> SUFFICES ASSUME TypeOK, [Next]_tm PROVE TypeOK'
    OBVIOUS
  <2>1. ASSUME NEW c \in Chunks, Run(c) PROVE TypeOK'
    <3>1. c \in Nat /\ Wrap \in Nat \ {0} BY TimersAssumption DEF TimersAssumption
    <3>2. tm \in Timer /\ tm' = Advance(tm, c) BY <2>1 DEF TypeOK, Run
    <3> DEFINE r == (tm.frac + c) % tm.div
    <3>3. /\ Advance(tm, c) \in Timer
          /\ Advance(tm, c).frac = r /\ Advance(tm, c).div = tm.div /\ r \in 0..(tm.div - 1)
      BY <3>1, <3>2, AdvanceIsTicks
    <3>4. tm.div \in Nat BY <3>2 DEF Timer
    <3> HIDE DEF r
    <3> QED BY <3>2, <3>3, <3>4 DEF TypeOK
  <2>2. ASSUME UNCHANGED tm PROVE TypeOK'
    BY <2>2 DEF TypeOK
  <2> QED BY <2>1, <2>2, TimersAssumption, WriteType DEF Next
<1> QED BY <1>1, <1>2, PTL DEF Spec

\* timer_advance_counts, which jumps from match to wrap, leaves what as many calls of
\* timer_tick_one leave, whatever the width, the registers and the span.
THEOREM ChunksCount == Spec => []ChunksAreTicks
<1>1. TypeOK => ChunksAreTicks
  <2> SUFFICES ASSUME TypeOK, NEW n \in 0..Horizon PROVE AdvanceCounts(tm, n) = Ticks(tm)[n]
    BY DEF ChunksAreTicks
  <2>1. Wrap \in Nat \ {0} BY TimersAssumption DEF TimersAssumption
  <2>2. n \in Nat BY <2>1 DEF Horizon
  <2> QED BY <2>1, <2>2, ChunkedIsCounted DEF TypeOK
<1> QED BY <1>1, TypeCorrect, PTL

\* Two calls of timers_advance do what one call for the sum of their cycles does: what the
\* guest reads does not depend on how host scheduling cuts the time.
THEOREM SplitsInvisible == Spec => []SplitInvisible
<1>1. TypeOK => SplitInvisible
  <2> SUFFICES ASSUME TypeOK, NEW a \in Chunks, NEW b \in Chunks
               PROVE  Advance(Advance(tm, a), b) = Advance(tm, a + b)
    BY DEF SplitInvisible
  <2>1. Wrap \in Nat \ {0} /\ a \in Nat /\ b \in Nat BY TimersAssumption DEF TimersAssumption
  <2> QED BY <2>1, AdvanceAdds DEF TypeOK
<1> QED BY <1>1, TypeCorrect, PTL

\* timers_cycles_to_irq is exact: no interrupt fires before the cycle it names, and one fires
\* on it unless the counter may be reset at its target before it can overflow.
THEOREM PredictionRight == Spec => []PredictionExact
<1>1. TypeOK => PredictionExact
  <2> SUFFICES ASSUME TypeOK PROVE PredictionExact
    OBVIOUS
  <2>1. Wrap \in Nat \ {0} /\ Far \in Nat BY TimersAssumption DEF TimersAssumption
  <2>2. tm \in Timer /\ tm.frac < tm.div BY DEF TypeOK
  <2>3. /\ \A n \in 0..(CyclesToIrq(tm) - 1) : Advance(tm, n).fires = tm.fires
        /\ Bound(tm) => /\ CyclesToIrq(tm) > 0
                        /\ Advance(tm, CyclesToIrq(tm)).fires > tm.fires
    BY <2>1, <2>2, Prediction
  <2> QED BY <2>3 DEF PredictionExact, Bound
<1> QED BY <1>1, TypeCorrect, PTL

=============================================================================
