------------------------------- MODULE Timers -------------------------------
(***************************************************************************)
(* One root counter, runtime/src/timers.c.  The three counters differ only *)
(* in the clock they divide, so a mode write picks the divisor.            *)
(*                                                                         *)
(* The counter has Wrap values (0x10000 in the code).  timers_advance runs *)
(* it in chunks that end on a target match or a wrap, and                  *)
(* timers_cycles_to_irq predicts the next interrupt; both are to agree     *)
(* with a counter that is ticked one count at a time (timer_tick_one).     *)
(***************************************************************************)
EXTENDS Integers, FiniteSetsExt

CONSTANTS
    Wrap,       \* 2^16 in the code
    Divisors,   \* 1 for the system clock, 8, 5, or a scanline
    Targets,    \* values written to the target register
    Counts,     \* values written to the counter register
    Chunks,     \* cycles per timers_advance call
    Far,        \* UINT32_MAX: no interrupt is armed
    MaxFires    \* bound on the interrupts fired since the last mode write

ASSUME TimersAssumption ==
    /\ Wrap \in Nat \ {0} /\ Divisors \subseteq Nat \ {0} /\ MaxFires \in Nat
    /\ Targets \subseteq 0..(Wrap - 1) /\ Counts \subseteq 0..(Wrap - 1) /\ Chunks \subseteq Nat \ {0}
    /\ Far \in Nat /\ \A d \in Divisors : Wrap * d < Far     \* no distance is clamped

VARIABLE tm     \* the Timer record, its divisor and timer_frac

-----------------------------------------------------------------------------
(* Counting.                                                               *)

\* timer_fire_irq: a pulse, or every other match with the line toggled; one-shot unless repeat.
Fire(x) ==
    [x EXCEPT !.line = IF x.toggle THEN 1 - @ ELSE @,
              !.request = ~(x.toggle /\ x.line = 0),
              !.raised = @ + (IF x.toggle /\ x.line = 1 THEN 0 ELSE 1),
              !.fires = @ + 1,
              !.irqTarget = @ /\ x.repeat,
              !.irqOverflow = @ /\ x.repeat]

AtTarget(x) ==
    LET y == IF x.irqTarget THEN Fire(x) ELSE x
    IN  [y EXCEPT !.targetFlag = TRUE, !.counter = IF x.reset THEN 0 ELSE @]

AtOverflow(x) ==
    LET y == IF x.irqOverflow THEN Fire(x) ELSE x
    IN  [y EXCEPT !.overflowFlag = TRUE]

\* One count (timer_tick_one).
TickOne(x) ==
    LET y == [x EXCEPT !.counter = (@ + 1) % Wrap]
        z == IF y.counter = y.target THEN AtTarget(y) ELSE y
    IN  IF x.counter = Wrap - 1 THEN AtOverflow(z) ELSE z

TargetDist(x) ==
    LET d == (x.target - x.counter) % Wrap
    IN  IF d = 0 THEN Wrap ELSE d

OverflowDist(x) == Wrap - x.counter

\* Mutant: a chunk may run over a target match.
NextStepNoTarget(x, ticks) == Min({ticks, OverflowDist(x)})

\* The longest chunk that ends on the next match or wrap.
NextStep(x, ticks) == Min({ticks, TargetDist(x), OverflowDist(x)})

\* One turn of the loop of timer_advance_counts: a chunk, and what is left to count.
CountChunk(s) ==
    LET x == s.timer
        step == NextStep(x, s.left)
        y == [x EXCEPT !.counter = (@ + step) % Wrap]
        z == IF step = TargetDist(x) THEN AtTarget(y) ELSE y
        w == IF x.counter + step >= Wrap THEN AtOverflow(z) ELSE z
    IN  IF s.left = 0 THEN s ELSE [timer |-> w, left |-> s.left - step]

\* The loop after k turns.
CountLoop(x, ticks) ==
    LET at[k \in Nat] == IF k = 0 THEN [timer |-> x, left |-> ticks] ELSE CountChunk(at[k - 1])
    IN  at

\* timer_advance_counts: a turn counts at least once, so the loop is over after ticks turns.
AdvanceCounts(x, ticks) == CountLoop(x, ticks)[ticks].timer

\* Mutant: the fraction of a count is dropped.
AdvanceDropFrac(x, cycles) == AdvanceCounts(x, cycles \div x.div)

\* timers_advance: divided clocks carry the fraction of a count.
Advance(x, cycles) ==
    AdvanceCounts([x EXCEPT !.frac = (@ + cycles) % x.div], (x.frac + cycles) \div x.div)

\* Mutant: the fraction already accumulated is not subtracted.
CyclesToIrqNoFrac(x) ==
    LET ticks == Min((IF x.irqTarget THEN {TargetDist(x)} ELSE {})
                     \cup (IF x.irqOverflow THEN {OverflowDist(x)} ELSE {}))
    IN  IF ~x.irqTarget /\ ~x.irqOverflow THEN Far ELSE ticks * x.div

\* timers_cycles_to_irq, of an unmasked timer.
CyclesToIrq(x) ==
    LET ticks == Min((IF x.irqTarget THEN {TargetDist(x)} ELSE {})
                     \cup (IF x.irqOverflow THEN {OverflowDist(x)} ELSE {}))
    IN  IF ~x.irqTarget /\ ~x.irqOverflow THEN Far
        ELSE Max({ticks * x.div - x.frac, 0})

-----------------------------------------------------------------------------
(* The registers.                                                          *)

Init ==
    tm = [counter |-> 0, target |-> 0, frac |-> 0, div |-> 1,
          reset |-> FALSE, irqTarget |-> FALSE, irqOverflow |-> FALSE,
          repeat |-> FALSE, toggle |-> FALSE, line |-> 0, request |-> FALSE,
          targetFlag |-> FALSE, overflowFlag |-> FALSE,
          raised |-> 0, fires |-> 0]

\* Mutant: the fraction of the old clock is kept.
WriteModeKeepFrac(div, reset, onTarget, onOverflow, repeat, toggle) ==
    tm' = [tm EXCEPT !.counter = 0, !.div = div, !.reset = reset,
                     !.irqTarget = onTarget, !.irqOverflow = onOverflow,
                     !.repeat = repeat, !.toggle = toggle, !.line = 0, !.request = TRUE,
                     !.targetFlag = FALSE, !.overflowFlag = FALSE, !.raised = 0, !.fires = 0]

\* A mode write restarts the counter (timers_write 0x04).
WriteMode(div, reset, onTarget, onOverflow, repeat, toggle) ==
    tm' = [tm EXCEPT !.counter = 0, !.frac = 0, !.div = div, !.reset = reset,
                     !.irqTarget = onTarget, !.irqOverflow = onOverflow,
                     !.repeat = repeat, !.toggle = toggle, !.line = 0, !.request = TRUE,
                     !.targetFlag = FALSE, !.overflowFlag = FALSE, !.raised = 0, !.fires = 0]

WriteCounter(v) == tm' = [tm EXCEPT !.counter = v]
WriteTarget(v) == tm' = [tm EXCEPT !.target = v]

\* Reading the mode clears the two flags (timers_read 0x04).
ReadMode == tm' = [tm EXCEPT !.targetFlag = FALSE, !.overflowFlag = FALSE]

Run(cycles) == tm.fires < MaxFires /\ tm' = Advance(tm, cycles)

Next ==
    \/ \E div \in Divisors, reset, onTarget, onOverflow, repeat, toggle \in BOOLEAN :
           WriteMode(div, reset, onTarget, onOverflow, repeat, toggle)
    \/ \E v \in Counts : WriteCounter(v)
    \/ \E v \in Targets : WriteTarget(v)
    \/ ReadMode
    \/ \E c \in Chunks : Run(c)

Spec == Init /\ [][Next]_tm

-----------------------------------------------------------------------------
(* Properties.                                                             *)

\* The timer after n calls of timer_tick_one.
Ticks(x) ==
    LET after[n \in Nat] == IF n = 0 THEN x ELSE TickOne(after[n - 1])
    IN  after

Timer ==
    [counter : 0..(Wrap - 1), target : 0..(Wrap - 1), frac : Nat, div : Nat \ {0},
     reset : BOOLEAN, irqTarget : BOOLEAN, irqOverflow : BOOLEAN,
     repeat : BOOLEAN, toggle : BOOLEAN, line : {0, 1}, request : BOOLEAN,
     targetFlag : BOOLEAN, overflowFlag : BOOLEAN, raised : Nat, fires : Nat]

\* The registers are 16 bits wide and the fraction is less than a count.
TypeOK == tm \in Timer /\ tm.frac < tm.div

\* How far the properties look ahead: two turns of the counter.
Horizon == 2 * Wrap

\* Chunked counting is counting: over any span, timer_advance_counts leaves what that many
\* timer_tick_one calls leave, interrupts raised included.
ChunksAreTicks == \A n \in 0..Horizon : AdvanceCounts(tm, n) = Ticks(tm)[n]

\* Splitting an advance changes nothing: the order and size of timers_advance calls, which
\* depend on host scheduling, are invisible to the guest.
SplitInvisible ==
    \A a, b \in Chunks : Advance(Advance(tm, a), b) = Advance(tm, a + b)

\* The predicted distance is right (timers_cycles_to_irq): no interrupt fires before it,
\* "never lets a native block run past a timer interrupt", and one fires on it unless the
\* counter is reset at its target before it can overflow.
PredictionExact ==
    /\ \A n \in 0..(CyclesToIrq(tm) - 1) : Advance(tm, n).fires = tm.fires
    /\ tm.irqTarget \/ (tm.irqOverflow /\ ~tm.reset) =>
        /\ CyclesToIrq(tm) > 0
        /\ Advance(tm, CyclesToIrq(tm)).fires > tm.fires

=============================================================================
