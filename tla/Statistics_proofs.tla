-------------------------- MODULE Statistics_proofs -------------------------
(***************************************************************************)
(* Proofs about Statistics, for every width of the clock, interval and     *)
(* length of an iteration, and for both kinds of builds.                   *)
(***************************************************************************)
EXTENDS Statistics, TLAPS

-----------------------------------------------------------------------------
(* Arithmetic modulo a word.                                               *)

\* An addition stays in the word, and is exact below its end.
LEMMA Increments ==
    ASSUME NEW n \in 0 .. Word - 1
    PROVE  /\ Increment(n) \in 0 .. Word - 1
           /\ n + 1 < Word => Increment(n) = n + 1
  BY StatisticsAssumption DEF Increment

\* Without a wrap between two readings, their distance is their difference.
LEMMA LagIsDifference ==
    ASSUME TypeOK, looptime <= TICKS
    PROVE  Lag = TICKS - looptime
<1> DEFINE d == TICKS - looptime
<1>1. d \in 0 .. Word - 1
  BY StatisticsAssumption DEF TypeOK
<1>2. TICKS + Word - looptime = d + Word
  BY StatisticsAssumption DEF TypeOK
<1>3. (d + Word) % Word = d
  BY <1>1, StatisticsAssumption
<1> QED
  BY <1>2, <1>3 DEF Lag

-----------------------------------------------------------------------------
(* The invariant.                                                          *)

\* The counter is the number of iterations begun since the last publication,
\* but for the one that is running.
CounterIsStarts ==
    /\ pc = "top" => starts = perfcounter
    /\ pc = "end" => starts = (perfcounter + 1) % Word

\* Until the clock wraps: the readings of the clock are in order, the last one
\* is recent, and at the top of the loop less than an interval was counted.
ClockInOrder ==
    ~wrapped =>
        /\ lastlooptime <= looptime
        /\ looptime <= TICKS
        /\ TICKS <= looptime + MaxLag
        /\ looptime < lastlooptime + Interval + MaxLag
        /\ pc = "top" => looptime < lastlooptime + Interval

IInv == TypeOK /\ CounterIsStarts /\ ClockInOrder

\* Every reading and every count begins at zero.
LEMMA InitInv == ASSUME Init PROVE IInv
<1>1. 0 \in 0 .. Word - 1 /\ 0 \in 0 .. LoopsPerTick
  BY StatisticsAssumption
<1>2. panicked \in BOOLEAN /\ wrapped \in BOOLEAN
  BY DEF Init
<1>3. TypeOK
  BY <1>1, <1>2 DEF Init, TypeOK
<1>4. CounterIsStarts
  BY DEF Init, CounterIsStarts
<1>5. ClockInOrder
  BY StatisticsAssumption DEF Init, ClockInOrder
<1> QED
  BY <1>3, <1>4, <1>5 DEF IInv

\* The interrupt moves the clock only, and not past the longest iteration.
LEMMA SysTickStep == ASSUME IInv, SysTick PROVE IInv'
<1> USE DEF IInv
<1>1. Increment(TICKS) \in 0 .. Word - 1
      /\ (TICKS + 1 < Word => Increment(TICKS) = TICKS + 1)
  BY Increments DEF TypeOK
<1>2. TICKS' \in 0 .. Word - 1
  BY <1>1 DEF SysTick, TypeOK
<1>3. TypeOK'
  <2>1. panicked' \in BOOLEAN
    BY DEF SysTick, Overflows
  <2>2. wrapped' \in BOOLEAN
    BY DEF SysTick
  <2> QED
    BY <1>2, <2>1, <2>2, StatisticsAssumption DEF SysTick, TypeOK, loopvars
<1>4. CounterIsStarts'
  BY DEF SysTick, CounterIsStarts, loopvars
<1>5. ClockInOrder'
  <2> SUFFICES ASSUME ~wrapped' PROVE ClockInOrder'
    BY DEF ClockInOrder
  <2>1. ~wrapped /\ TICKS + 1 # Word
    BY DEF SysTick
  <2>2. TICKS + 1 < Word
    BY <2>1, StatisticsAssumption DEF TypeOK
  <2>3. TICKS' = TICKS + 1
    BY <1>1, <2>1, <2>2 DEF SysTick, Overflows
  <2>4. TICKS - looptime < MaxLag
    BY <2>1, LagIsDifference DEF SysTick, ClockInOrder
  <2> QED
    BY <2>1, <2>3, <2>4, StatisticsAssumption DEF SysTick, TypeOK, ClockInOrder, loopvars
<1> QED
  BY <1>3, <1>4, <1>5

\* The top of the loop reads the clock and begins an iteration.
LEMMA BeginStep == ASSUME IInv, BeginLoop PROVE IInv'
<1> USE DEF IInv
<1>1. (starts + 1) % Word \in 0 .. Word - 1
  BY Increments DEF TypeOK, Increment
<1>2. TypeOK'
  BY <1>1, StatisticsAssumption DEF BeginLoop, TypeOK
<1>3. CounterIsStarts'
  BY DEF BeginLoop, CounterIsStarts
<1>4. ClockInOrder'
  BY StatisticsAssumption DEF BeginLoop, TypeOK, ClockInOrder
<1> QED
  BY <1>2, <1>3, <1>4

\* A publication is due exactly when the readings are an interval apart.
LEMMA SecondIsDifference ==
    ASSUME TypeOK, lastlooptime <= looptime
    PROVE  SecondPassed <=> looptime >= lastlooptime + Interval
  BY StatisticsAssumption DEF TypeOK, SecondPassed, SaturatingSub

\* The end of the iteration counts it, and publishes if an interval has passed.
LEMMA FinalizeStep == ASSUME IInv, FinalizePerfcounter PROVE IInv'
<1> USE DEF IInv
<1>1. Increment(perfcounter) \in 0 .. Word - 1 /\ Increment(0) = 1
  BY Increments, StatisticsAssumption DEF TypeOK
<1>2. 1 \in 0 .. Word - 1
  BY StatisticsAssumption
<1>3. panicked' \in BOOLEAN
  BY DEF FinalizePerfcounter, Overflows, TypeOK
<1>4. CASE SecondPassed
  <2>1. TypeOK'
    BY <1>1, <1>2, <1>3, <1>4, StatisticsAssumption
       DEF FinalizePerfcounter, Publish, CounterReset, TypeOK
  <2>2. CounterIsStarts'
    BY <1>1, <1>4 DEF FinalizePerfcounter, CounterReset, CounterIsStarts
  <2>3. ClockInOrder'
    BY <1>4, StatisticsAssumption DEF FinalizePerfcounter, Publish, TypeOK, ClockInOrder
  <2> QED
    BY <2>1, <2>2, <2>3
<1>5. CASE ~SecondPassed
  <2>1. TypeOK'
    BY <1>1, <1>3, <1>5, StatisticsAssumption DEF FinalizePerfcounter, TypeOK
  <2>2. CounterIsStarts'
    BY <1>5 DEF FinalizePerfcounter, CounterIsStarts, Increment
  <2>3. ClockInOrder'
    BY <1>5, SecondIsDifference, StatisticsAssumption
       DEF FinalizePerfcounter, TypeOK, ClockInOrder
  <2> QED
    BY <2>1, <2>2, <2>3
<1> QED
  BY <1>4, <1>5

\* Every step keeps the invariant.
LEMMA NextStep == IInv /\ [Next]_vars => IInv'
<1> SUFFICES ASSUME IInv, [Next]_vars PROVE IInv'
  OBVIOUS
<1>1. CASE SysTick
  BY <1>1, SysTickStep
<1>2. CASE BeginLoop
  BY <1>2, BeginStep
<1>3. CASE FinalizePerfcounter
  BY <1>3, FinalizeStep
<1>4. CASE UNCHANGED vars
  BY <1>4 DEF vars, loopvars, IInv, TypeOK, CounterIsStarts, ClockInOrder
<1> QED
  BY <1>1, <1>2, <1>3, <1>4 DEF Next, MainLoop

\* The invariant above holds of all behaviours.
THEOREM Invariance == Spec => []IInv
<1>1. Init => IInv
  BY InitInv
<1>2. IInv /\ [Next]_vars => IInv'
  BY NextStep
<1> QED
  BY <1>1, <1>2, PTL DEF Spec

-----------------------------------------------------------------------------
(* Theorems.                                                               *)

\* Type correctness of the clock and the statistics.
THEOREM TypeCorrect == Spec => []TypeOK
<1>1. IInv => TypeOK
  BY DEF IInv
<1> QED
  BY <1>1, Invariance, PTL

\* The published number is at most an interval and two iterations old, whatever
\* the interrupt interleaves with, until the clock wraps.
THEOREM StatisticsAreFresh == Spec => []NeverStale
<1>1. IInv => NeverStale
  BY StatisticsAssumption DEF IInv, TypeOK, ClockInOrder, NeverStale
<1> QED
  BY <1>1, Invariance, PTL

\* Each publication counts the iterations of its interval, none twice and none
\* left out, and the interval is a second up to the length of one iteration.
THEOREM CountIsExact == Spec => CountsASecond
<1> DEFINE Exact == lastlooptime' # lastlooptime =>
             /\ starts = (lps' + 1) % Word
             /\ wrapped \/ looptime - lastlooptime \in Interval .. Interval + MaxLag - 1
<1>1. IInv /\ [Next]_vars => [Exact]_vars
  <2> SUFFICES ASSUME IInv, Next, lastlooptime' # lastlooptime
               PROVE  /\ starts = (lps' + 1) % Word
                      /\ wrapped \/ looptime - lastlooptime \in Interval .. Interval + MaxLag - 1
    OBVIOUS
  <2>1. FinalizePerfcounter /\ SecondPassed
    BY DEF Next, MainLoop, SysTick, BeginLoop, FinalizePerfcounter, loopvars
  <2>2. starts = (lps' + 1) % Word
    BY <2>1 DEF FinalizePerfcounter, Publish, IInv, CounterIsStarts
  <2>3. ASSUME ~wrapped
        PROVE  looptime - lastlooptime \in Interval .. Interval + MaxLag - 1
    BY <2>1, <2>3, SecondIsDifference, StatisticsAssumption DEF IInv, TypeOK, ClockInOrder
  <2> QED
    BY <2>2, <2>3
<1> QED
  BY <1>1, Invariance, PTL DEF Spec, CountsASecond
=============================================================================
