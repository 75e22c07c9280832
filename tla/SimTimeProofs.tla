--------------------------- MODULE SimTimeProofs ---------------------------
(* Machine-checked facts about SimTime, for every width of the counters,   *)
(* every nesting of timers and every progress of the clock.                *)
EXTENDS SimTime, SequenceTheorems, TLAPS

\* Addition in a counter of SimMod values stays in the counter.
LEMMA WrapType ==
    ASSUME NEW n \in Nat, n < 2 * SimMod
    PROVE  Wrap(n) \in 0..(SimMod - 1)
  BY SimTimeAssumption DEF Wrap

\* A stack that is not empty has a first element.
LEMMA FirstOfStack ==
    ASSUME NEW S, NEW s \in Seq(S), s # <<>>
    PROVE  Len(s) \in Nat /\ Len(s) >= 1 /\ s[1] \in S
<1>1. Len(s) \in Nat /\ Len(s) >= 1
  BY EmptySeq
<1> QED
  BY <1>1, ElementOfSeq

\* Removing the last of several elements leaves the first one.
LEMMA PoppedStack ==
    ASSUME NEW S, NEW s \in Seq(S), Len(s) > 1
    PROVE  /\ SubSeq(s, 1, Len(s) - 1) \in Seq(S)
           /\ SubSeq(s, 1, Len(s) - 1) # <<>>
           /\ SubSeq(s, 1, Len(s) - 1)[1] = s[1]
<1> DEFINE t == SubSeq(s, 1, Len(s) - 1)
<1>1. Len(s) \in Nat /\ \A i \in 1..(Len(s) - 1) : s[i] \in S
  BY LenProperties, ElementOfSeq
<1>2. t \in Seq(S) /\ t[1] = s[1] /\ Len(t) = Len(s) - 1
  BY <1>1, SubSeqProperties
<1>3. t # <<>>
  <2>1. Len(t) > 0
    BY <1>1, <1>2
  <2> HIDE DEF t
  <2> QED
    BY <2>1
<1> QED
  BY <1>2, <1>3

\* Adding to an account and then adding the time that passes is adding the
\* longer account.
LEMMA WrapAssociates ==
    ASSUME NEW s \in 0..(SimMod - 1), NEW x \in 0..(SimMod - 1),
           NEW d \in 0..(SimMod - 1)
    PROVE  Wrap(Wrap(s + x) + d) = Wrap(s + Wrap(x + d))
  BY SimTimeAssumption DEF Wrap

\* The time since a reading grows by the time that passes, modulo SimMod.
LEMMA SinceAdvances ==
    ASSUME NEW c \in 0..(SimMod - 1), NEW r \in 0..(SimMod - 1),
           NEW d \in 0..(SimMod - 1)
    PROVE  (IF Wrap(c + d) >= r THEN Wrap(c + d) - r ELSE Wrap(c + d) + SimMod - r)
           = Wrap((IF c >= r THEN c - r ELSE c + SimMod - r) + d)
  BY SimTimeAssumption DEF Wrap

\* No timer runs and no time has passed when the program starts.
LEMMA TimeInitInv == TimeInit => TimeInv
  BY SimTimeAssumption DEF TimeInit, TimeInv, TimeTypeOK, SimTimeIsBusyTime

\* Starting a timer inside another one changes no account; starting the first
\* one opens the account at the current reading.
LEMMA StartInv == TimeInv /\ StartTimer => TimeInv'
<1> SUFFICES ASSUME TimeInv, StartTimer PROVE TimeInv'
  OBVIOUS
<1>1. /\ timerStack \in Seq(0..(SimMod - 1)) /\ clock \in 0..(SimMod - 1)
      /\ currentSimTime \in 0..(SimMod - 1) /\ busy \in 0..(SimMod - 1)
      /\ timerStack' = Append(timerStack, clock)
      /\ UNCHANGED <<currentSimTime, clock, busy>>
  BY DEF TimeInv, TimeTypeOK, StartTimer
<1>2. timerStack' \in Seq(0..(SimMod - 1)) /\ timerStack' # <<>>
  BY <1>1
<1>3. CASE timerStack = <<>>
  <2>1. timerStack'[1] = clock
    BY <1>1, <1>3
  <2>2. busy = currentSimTime
    BY <1>3 DEF TimeInv, SimTimeIsBusyTime
  <2> QED
    BY <1>1, <1>2, <2>1, <2>2, SimTimeAssumption
       DEF TimeInv, TimeTypeOK, SimTimeIsBusyTime, Since, Wrap
<1>4. CASE timerStack # <<>>
  <2>1. timerStack'[1] = timerStack[1]
    BY <1>1, <1>4
  <2> QED
    BY <1>1, <1>2, <1>4, <2>1
       DEF TimeInv, TimeTypeOK, SimTimeIsBusyTime, Since, Wrap
<1> QED
  BY <1>3, <1>4

\* Stopping an inner timer changes no account; stopping the outermost one
\* moves what its account holds into the simulation time.
LEMMA StopInv ==
    ASSUME TimeInv, NEW id \in 0..(IdMod - 1), StopTimer(id) PROVE TimeInv'
<1>1. /\ timerStack \in Seq(0..(SimMod - 1)) /\ clock \in 0..(SimMod - 1)
      /\ currentSimTime \in 0..(SimMod - 1) /\ busy \in 0..(SimMod - 1)
      /\ timerStack # <<>> /\ id = Len(timerStack) /\ Len(timerStack) \in Nat
      /\ timerStack' = SubSeq(timerStack, 1, Len(timerStack) - 1)
      /\ UNCHANGED <<clock, busy>>
  BY DEF TimeInv, TimeTypeOK, StopTimer, Mismatched
<1>2. Len(timerStack) >= 1 /\ timerStack[1] \in 0..(SimMod - 1)
  BY <1>1, FirstOfStack
<1>3. CASE Len(timerStack) = 1
  <2>1. timerStack' = <<>>
    BY <1>1, <1>3
  <2>2. currentSimTime' = Wrap(currentSimTime + Since(timerStack[1]))
    BY <1>1, <1>3 DEF StopTimer, CountsAsSimTime
  <2>3. busy = Wrap(currentSimTime + Since(timerStack[1]))
    BY <1>1 DEF TimeInv, SimTimeIsBusyTime
  <2>4. busy' = currentSimTime'
    BY <1>1, <2>2, <2>3
  <2>5. timerStack' \in Seq(0..(SimMod - 1))
    BY <2>1
  <2>6. currentSimTime' \in 0..(SimMod - 1)
    BY <1>1, <2>4
  <2> QED
    BY <1>1, <2>1, <2>4, <2>5, <2>6 DEF TimeInv, TimeTypeOK, SimTimeIsBusyTime
<1>4. CASE Len(timerStack) # 1
  <2>1. currentSimTime' = currentSimTime
    BY <1>1, <1>4 DEF StopTimer, CountsAsSimTime
  <2>2. /\ timerStack' \in Seq(0..(SimMod - 1)) /\ timerStack' # <<>>
        /\ timerStack'[1] = timerStack[1]
    <3>1. Len(timerStack) > 1
      BY <1>1, <1>2, <1>4
    <3> QED
      BY <1>1, <3>1, PoppedStack
  <2>3. SimTimeIsBusyTime'
    BY <1>1, <2>1, <2>2 DEF TimeInv, SimTimeIsBusyTime, Since, Wrap
  <2> QED
    BY <1>1, <2>1, <2>2, <2>3 DEF TimeInv, TimeTypeOK
<1> QED
  BY <1>3, <1>4

\* The clock and the account of the outermost timer advance together, also
\* when either wraps.
LEMMA ElapseInv ==
    ASSUME TimeInv, NEW d \in Elapsed, Elapse(d) PROVE TimeInv'
<1>1. /\ d \in 0..(SimMod - 1) /\ SimMod \in Nat
      /\ timerStack \in Seq(0..(SimMod - 1)) /\ clock \in 0..(SimMod - 1)
      /\ currentSimTime \in 0..(SimMod - 1) /\ busy \in 0..(SimMod - 1)
      /\ clock' = Wrap(clock + d)
      /\ UNCHANGED <<timerStack, currentSimTime>>
  BY SimTimeAssumption DEF TimeInv, TimeTypeOK, Elapse
<1>2. clock' \in 0..(SimMod - 1)
  BY <1>1, WrapType
<1>3. CASE timerStack = <<>>
  BY <1>1, <1>2, <1>3 DEF TimeInv, TimeTypeOK, SimTimeIsBusyTime, Elapse
<1>4. CASE timerStack # <<>>
  <2> DEFINE r == timerStack[1]
  <2>1. r \in 0..(SimMod - 1)
    BY <1>1, <1>4
  <2>2. busy = Wrap(currentSimTime + Since(r)) /\ busy' = Wrap(busy + d)
    BY <1>4 DEF TimeInv, SimTimeIsBusyTime, Elapse
  <2>a. r' = r
    BY <1>1
  <2> HIDE DEF r
  <2>3. busy' = Wrap(currentSimTime + Since(r)')
    <3>1. Since(r)' = IF Wrap(clock + d) >= r THEN Wrap(clock + d) - r
                      ELSE Wrap(clock + d) + SimMod - r
      BY <1>1, <2>a DEF Since
    <3>2. Since(r)' = Wrap(Since(r) + d)
      BY <1>1, <2>1, <3>1, SinceAdvances DEF Since
    <3>3. Since(r) \in 0..(SimMod - 1)
      BY <1>1, <2>1 DEF Since
    <3>4. busy' = Wrap(Wrap(currentSimTime + Since(r)) + d)
      BY <2>2
    <3>5. Wrap(Wrap(currentSimTime + Since(r)) + d)
          = Wrap(currentSimTime + Wrap(Since(r) + d))
      BY <1>1, <3>3, WrapAssociates
    <3> QED
      BY <3>2, <3>4, <3>5
  <2>4. busy' \in 0..(SimMod - 1)
    BY <1>1, <2>2, WrapType
  <2>5. SimTimeIsBusyTime'
    BY <1>1, <1>4, <2>3 DEF SimTimeIsBusyTime, r
  <2> QED
    BY <1>1, <1>2, <2>4, <2>5 DEF TimeInv, TimeTypeOK
<1> QED
  BY <1>3, <1>4

\* The invariant is inductive.
LEMMA TimeNextInv == TimeInv /\ [TimeNext]_timeVars => TimeInv'
<1> SUFFICES ASSUME TimeInv, [TimeNext]_timeVars PROVE TimeInv'
  OBVIOUS
<1>1. CASE UNCHANGED timeVars
  BY <1>1 DEF timeVars, TimeInv, TimeTypeOK, SimTimeIsBusyTime, Since, Wrap
<1>2. CASE StartTimer
  BY <1>2, StartInv
<1>3. CASE \E id \in 0..(IdMod - 1) : StopTimer(id)
  BY <1>3, StopInv
<1>4. CASE \E id \in 0..(IdMod - 1) : StopThrows(id)
  BY <1>1, <1>4 DEF StopThrows
<1>5. CASE \E d \in Elapsed : Elapse(d)
  BY <1>5, ElapseInv
<1> QED
  BY <1>1, <1>2, <1>3, <1>4, <1>5 DEF TimeNext

\* Whatever the nesting of timers and wherever the counters wrap, the
\* simulation time is the time some timer ran.
THEOREM SimTimeCorrect == TimeSpec => []SimTimeIsBusyTime
<1>1. TimeInv => SimTimeIsBusyTime
  BY DEF TimeInv
<1> QED
  BY <1>1, TimeInitInv, TimeNextInv, PTL DEF TimeSpec

\* The simulation time moves only when the last running timer stops, whatever
\* the width of a timer identifier.
THEOREM UppermostOnly == TimeSpec => OnlyUppermostCounts
<1> DEFINE Quiet == currentSimTime' # currentSimTime =>
                       Len(timerStack) = 1 /\ timerStack' = <<>>
<1>1. TimeInv /\ [TimeNext]_timeVars => [Quiet]_timeVars
  <2> SUFFICES ASSUME TimeInv, TimeNext PROVE Quiet
    BY DEF timeVars
  <2>1. CASE StartTimer
    BY <2>1 DEF StartTimer
  <2>2. ASSUME NEW id \in 0..(IdMod - 1), StopTimer(id) PROVE Quiet
    <3>1. /\ timerStack \in Seq(0..(SimMod - 1)) /\ id = Len(timerStack)
          /\ timerStack' = SubSeq(timerStack, 1, Len(timerStack) - 1)
      BY <2>2 DEF StopTimer, Mismatched, TimeInv, TimeTypeOK
    <3>2. CASE id = 1
      BY <3>1, <3>2
    <3>3. CASE id # 1
      BY <2>2, <3>3 DEF StopTimer, CountsAsSimTime
    <3> QED
      BY <3>2, <3>3
  <2>3. CASE \E id \in 0..(IdMod - 1) : StopThrows(id)
    BY <2>3 DEF StopThrows, timeVars
  <2>4. CASE \E d \in Elapsed : Elapse(d)
    BY <2>4 DEF Elapse
  <2> QED
    BY <2>1, <2>2, <2>3, <2>4 DEF TimeNext
<1> QED
  BY <1>1, TimeInitInv, TimeNextInv, PTL DEF TimeSpec, OnlyUppermostCounts
=============================================================================
