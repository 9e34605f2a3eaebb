----------------------------- MODULE Statistics -----------------------------
(***************************************************************************)
(* The clock and the statistics of the main loop (main.rs).  The SysTick   *)
(* interrupt counts milliseconds in TICKS, between any two steps of the    *)
(* loop; the loop reads it once, at its top, and at its end publishes the  *)
(* number of iterations when the last publication is a second old.         *)
(*                                                                         *)
(* What an iteration does in between, and the temperature published with   *)
(* the count, is left out; how long it takes is bounded by MaxLag.         *)
(***************************************************************************)
EXTENDS Naturals

CONSTANTS Word,           \* 2^32: TICKS and the counter are u32
          Interval,       \* milliseconds between publications (1000)
          OverflowChecks, \* the build panics on overflow (dev) or wraps
          MaxLag,         \* ticks while one iteration runs
          LoopsPerTick    \* iterations that begin within one tick

ASSUME StatisticsAssumption ==
    /\ Interval \in Nat \ {0} /\ MaxLag \in Nat \ {0} /\ LoopsPerTick \in Nat \ {0}
    /\ Word \in Nat /\ MaxLag < Word
    /\ OverflowChecks \in BOOLEAN

VARIABLES TICKS,
          looptime, lastlooptime, perfcounter,
          lps,        \* STATS.0
          pc,         \* "top" or "end" of the loop
          panicked,
          \* history
          wrapped,    \* TICKS has started again
          begun,      \* iterations begun within this tick
          starts      \* iterations begun since the one that published last

loopvars == <<looptime, lastlooptime, perfcounter, lps, pc, starts>>
vars     == <<TICKS, loopvars, panicked, wrapped, begun>>

Init ==
    /\ TICKS = 0
    /\ looptime = 0 /\ lastlooptime = 0
    /\ perfcounter = 0
    /\ lps = 0
    /\ pc = "top"
    /\ panicked = FALSE
    /\ wrapped = FALSE
    /\ begun = 0
    /\ starts = 0

-----------------------------------------------------------------------------
(* Unsigned arithmetic.                                                    *)

SaturatingSub(a, b) == IF a >= b THEN a - b ELSE 0

\* The value after `+= 1`.  Mutant: it has no width.
IncrementUnbounded(n) == n + 1
Increment(n)          == (n + 1) % Word

Overflows(n) == OverflowChecks /\ n + 1 = Word

-----------------------------------------------------------------------------
\* Ticks since the loop read the clock.
Lag == (TICKS + Word - looptime) % Word

\* SysTick calls increase_counter.
SysTick ==
    /\ ~panicked
    /\ Lag < MaxLag
    /\ TICKS' = IF Overflows(TICKS) THEN TICKS ELSE Increment(TICKS)
    /\ panicked' = Overflows(TICKS)
    /\ wrapped' = (wrapped \/ TICKS + 1 = Word)
    /\ begun' = 0
    /\ UNCHANGED loopvars

\* let looptime = get_counter();
BeginLoop ==
    /\ ~panicked
    /\ pc = "top"
    /\ begun < LoopsPerTick
    /\ looptime' = TICKS
    /\ begun' = begun + 1
    /\ starts' = (starts + 1) % Word
    /\ pc' = "end"
    /\ UNCHANGED <<TICKS, lastlooptime, perfcounter, lps, panicked, wrapped>>

\* A second has passed, by the clock the loop reads.
SecondPassed == SaturatingSub(looptime, lastlooptime) >= Interval

\* finalize_perfcounter.  Mutants: it does not return the new time; the counter
\* is not reset.
PublishForgetsTime == lps' = perfcounter /\ UNCHANGED lastlooptime
Publish            == lps' = perfcounter /\ lastlooptime' = looptime

CounterKept(cnt)  == cnt
CounterReset(cnt) == 0

\* perfcounter += 1 follows in either case.
FinalizePerfcounter ==
    /\ ~panicked
    /\ pc = "end"
    /\ pc' = "top"
    /\ IF SecondPassed
         THEN /\ Publish
              /\ perfcounter' = Increment(CounterReset(perfcounter))
              /\ starts' = 1
              /\ UNCHANGED panicked
         ELSE /\ panicked' = Overflows(perfcounter)
              /\ perfcounter' = Increment(perfcounter)
              /\ UNCHANGED <<lps, lastlooptime, starts>>
    /\ UNCHANGED <<TICKS, looptime, wrapped, begun>>

MainLoop == BeginLoop \/ FinalizePerfcounter

Next == MainLoop \/ SysTick

Spec == Init /\ [][Next]_vars

-----------------------------------------------------------------------------
(* Properties.                                                             *)

\* Every variable stays in its type.
TypeOK ==
    /\ TICKS \in 0 .. Word - 1 /\ looptime \in 0 .. Word - 1 /\ lastlooptime \in 0 .. Word - 1
    /\ perfcounter \in 0 .. Word - 1 /\ lps \in 0 .. Word - 1 /\ starts \in 0 .. Word - 1
    /\ begun \in 0 .. LoopsPerTick
    /\ pc \in {"top", "end"}
    /\ panicked \in BOOLEAN /\ wrapped \in BOOLEAN

\* "the number of program loops performed per second": a published number is
\* that of the iterations begun at or after the last publication's reading of
\* the clock and before this one's (modulo the word).  Until the clock wraps, the
\* two readings are a second apart, and no more than that and the longest
\* iteration, wherever the interrupt falls between the steps of the loop.
CountsASecond ==
    [][lastlooptime' # lastlooptime =>
         /\ starts = (lps' + 1) % Word
         /\ wrapped \/ looptime - lastlooptime \in Interval .. Interval + MaxLag - 1]_vars

\* The published number is never older than an interval and two iterations, until
\* the clock wraps.  (Then saturating_sub yields zero and nothing is published.)
NeverStale == wrapped \/ TICKS < lastlooptime + Interval + 2 * MaxLag
=============================================================================
