--------------------------- MODULE UtilityProofs ---------------------------
(* Machine-checked facts about Scheduler, Endian, Strings and MapDivision,   *)
(* for every set of events and every wait, words of every width, any texts   *)
(* and buffers, and maps of any power of two, with the induction over the    *)
(* natural numbers that the last two need.                                   *)
EXTENDS Scheduler, Endian, Strings, MapDivision, SimTimeProofs, WellFoundedInduction

-----------------------------------------------------------------------------
(* Induction and recursion over the natural numbers, for sets and functions*)

\* A set with 0 and the successor of each of its numbers has all of them.
LEMMA SetInduction ==
    ASSUME NEW T, 0 \in T, \A n \in Nat : n \in T => n + 1 \in T
    PROVE  Nat \subseteq T
<1> DEFINE Missing == Nat \ T
           R == OpToRel(<, Nat)
<1>1. SUFFICES ASSUME Missing # {} PROVE FALSE
  OBVIOUS
<1>2. PICK x \in Missing : \A y \in Missing : ~(<<y, x>> \in R)
  <2>1. IsWellFoundedOn(R, Nat) /\ Missing \subseteq Nat
    BY NatLessThanWellFounded
  <2> HIDE DEF R, Missing
  <2> QED
    BY <1>1, <2>1, WFMin
<1>3. \A y \in Nat : y < x => <<y, x>> \in R
  BY DEF OpToRel
<1> HIDE DEF R
<1>4. x - 1 \in Nat /\ x - 1 < x /\ (x - 1) + 1 = x
  OBVIOUS
<1>5. x - 1 \in Missing
  BY <1>4
<1> QED
  BY <1>2, <1>3, <1>4, <1>5

\* f is what g makes of a in m steps.
Steps(f, m, S, a, g) ==
    f \in [0..m -> S] /\ f[0] = a /\ \A n \in 0..(m - 1) : f[n + 1] = g[n][f[n]]

\* There is a sequence of values that begins with a and goes on with g.
Recursion(S, a, g) == \E f \in [Nat -> S] : f[0] = a /\ \A n \in Nat : f[n + 1] = g[n][f[n]]

\* Recursion: a first value and a function from each value to the next one have
\* a sequence of values.
LEMMA NatRecursion ==
    ASSUME NEW S, NEW a \in S, NEW g \in [Nat -> [S -> S]]
    PROVE  Recursion(S, a, g)
<1> DEFINE Good(f, m) == Steps(f, m, S, a, g)
<1>1. \A m \in Nat : \E f : Good(f, m)
  <2> DEFINE T == {m \in Nat : \E f : Good(f, m)}
  <2>1. 0 \in T
    <3>1. Good([i \in 0..0 |-> a], 0)
      BY DEF Steps
    <3> HIDE DEF Good
    <3> QED
      BY <3>1
  <2>2. ASSUME NEW m \in Nat, m \in T PROVE m + 1 \in T
    <3>1. PICK f : Good(f, m)
      BY <2>2
    <3> DEFINE h == [i \in 0..(m + 1) |-> IF i = m + 1 THEN g[m][f[m]] ELSE f[i]]
    <3>2. f[m] \in S /\ \A i \in 0..m : f[i] \in S
      BY <3>1 DEF Steps
    <3>3. g[m][f[m]] \in S
      BY <3>2
    <3>4. \A i \in 0..(m + 1) : i = m + 1 \/ i \in 0..m
      OBVIOUS
    <3>5. h \in [0..(m + 1) -> S]
      BY <3>2, <3>3, <3>4
    <3>6. h[m + 1] = g[m][f[m]] /\ \A i \in 0..m : h[i] = f[i]
      OBVIOUS
    <3> HIDE DEF h
    <3>7. ASSUME NEW n \in 0..((m + 1) - 1) PROVE h[n + 1] = g[n][h[n]]
      <4>1. n \in 0..m /\ h[n] = f[n]
        BY <3>6
      <4>2. CASE n = m
        BY <3>6, <4>1, <4>2
      <4>3. CASE n # m
        <5>1. n \in 0..(m - 1) /\ n + 1 \in 0..m
          BY <4>1, <4>3
        <5> QED
          BY <3>1, <3>6, <4>1, <5>1 DEF Steps
      <4> QED
        BY <4>2, <4>3
    <3>8. h[0] = a
      BY <3>1, <3>6 DEF Steps
    <3>9. Good(h, m + 1)
      BY <3>5, <3>7, <3>8 DEF Steps
    <3> HIDE DEF Good
    <3> QED
      BY <3>9
  <2> HIDE DEF T
  <2>3. Nat \subseteq T
    BY <2>1, <2>2, SetInduction
  <2> QED
    BY <2>3 DEF T
<1>2. \A k, l \in Nat : \A f, h : Good(f, k) /\ Good(h, l) =>
         \A m \in Nat : m <= k /\ m <= l => f[m] = h[m]
  <2>1. SUFFICES ASSUME NEW k \in Nat, NEW l \in Nat, NEW f, NEW h, Good(f, k), Good(h, l)
                 PROVE  \A m \in Nat : m <= k /\ m <= l => f[m] = h[m]
    OBVIOUS
  <2> DEFINE T == {m \in Nat : m <= k /\ m <= l => f[m] = h[m]}
  <2>2. 0 \in T
    BY <2>1 DEF Steps
  <2>3. ASSUME NEW m \in Nat, m \in T PROVE m + 1 \in T
    <3>1. SUFFICES ASSUME m + 1 <= k, m + 1 <= l PROVE f[m + 1] = h[m + 1]
      OBVIOUS
    <3>2. m \in 0..(k - 1) /\ m \in 0..(l - 1) /\ m <= k /\ m <= l
      BY <3>1
    <3>3. f[m] = h[m]
      BY <2>3, <3>2
    <3> QED
      BY <2>1, <3>2, <3>3 DEF Steps
  <2> HIDE DEF T
  <2>4. Nat \subseteq T
    BY <2>2, <2>3, SetInduction
  <2> QED
    BY <2>4 DEF T
<1> DEFINE run(m) == CHOOSE f : Good(f, m)
           F == [m \in Nat |-> run(m)[m]]
<1>3. \A m \in Nat : Good(run(m), m)
  <2> HIDE DEF Good
  <2> QED
    BY <1>1
<1> HIDE DEF run
<1>4. F \in [Nat -> S] /\ F[0] = a
  BY <1>3 DEF Steps
<1>5. ASSUME NEW n \in Nat PROVE F[n + 1] = g[n][F[n]]
  <2>1. Good(run(n), n) /\ Good(run(n + 1), n + 1) /\ n + 1 \in Nat
    BY <1>3
  <2>2. run(n + 1)[n] = run(n)[n]
    <3>1. n <= n /\ n <= n + 1
      OBVIOUS
    <3> HIDE DEF Good
    <3> QED
      BY <1>2, <2>1, <3>1
  <2>3. n \in 0..((n + 1) - 1)
    OBVIOUS
  <2>4. run(n + 1)[n + 1] = g[n][run(n + 1)[n]]
    BY <2>1, <2>3 DEF Steps
  <2> QED
    BY <2>1, <2>2, <2>4
<1> HIDE DEF F
<1> QED
  BY <1>4, <1>5 DEF Recursion

-----------------------------------------------------------------------------
(* The scheduler                                                           *)

\* Nothing is scheduled when the program starts.
LEMMA SchedInitInv == SchedInit => SchedInv
<1> SUFFICES ASSUME SchedInit PROVE SchedInv
  OBVIOUS
<1>1. mIsCancelled \in [Event -> BOOLEAN] /\ stale = FALSE /\ stale \in BOOLEAN
  BY DEF SchedInit
<1>2. mTriggerTimeMS \in [Event -> Nat] /\ earliest \in [Event -> Nat]
      /\ \A e \in Event : mTriggerTimeMS[e] = earliest[e]
  BY DEF SchedInit
<1>3. simMS \in Nat /\ currentSimTimeMS \in Nat
  BY SchedulerAssumption DEF SchedInit
<1> QED
  BY <1>1, <1>2, <1>3 DEF SchedInit, SchedInv, SchedTypeOK, RunsOnce, End

\* schedule() and cancel(), from a delegate or between updates, preserve the
\* invariant.
LEMMA CallInv == SchedInv /\ Call => SchedInv'
<1> SUFFICES ASSUME SchedInv, NEW e \in Event,
                    Cancel(e) \/ \E wait \in Wait : Schedule(e, wait)
             PROVE  SchedInv'
  BY DEF Call
<1>1. CASE Cancel(e)
  <2>1. SchedTypeOK'
    BY <1>1 DEF SchedInv, SchedTypeOK, Cancel, walk
  <2>2. mIsCancelled'[e] = TRUE /\ \A f \in Event \ {e} : mIsCancelled'[f] = mIsCancelled[f]
    BY <1>1 DEF SchedInv, SchedTypeOK, Cancel
  <2> QED
    BY <1>1, <2>1, <2>2 DEF SchedInv, SchedTypeOK, Cancel, RunsOnce, walk
<1>2. ASSUME NEW wait \in Wait, Schedule(e, wait) PROVE SchedInv'
  <2>0. wait \in Nat
    BY SchedulerAssumption
  <2>1. SchedTypeOK'
    BY <1>2, <2>0 DEF SchedInv, SchedTypeOK, Schedule, TriggerTime, walk
  <2>2. \A f \in Event : mTriggerTimeMS'[f] = earliest'[f]
    BY <1>2 DEF SchedInv, SchedTypeOK, Schedule, TriggerTime
  <2>3. \A f \in Event \ {e} : mIsCancelled'[f] = mIsCancelled[f]
    BY <1>2 DEF SchedInv, SchedTypeOK, Schedule
  <2>4. /\ mScheduledEventSet' = mScheduledEventSet \cup {e}
        /\ userCancelled' = userCancelled \ {e} /\ returned' = returned \ {e}
        /\ UNCHANGED walk /\ simMS' = simMS /\ e \notin mScheduledEventSet
        /\ CallersTurn
    BY <1>2 DEF Schedule
  <2> QED
    BY <2>1, <2>2, <2>3, <2>4
       DEF SchedInv, SchedTypeOK, RunsOnce, walk, CallersTurn
<1> QED
  BY <1>1, <1>2

\* A step of update() preserves the invariant, the increment of a stale
\* iterator included.
LEMMA UpdateInv == SchedInv /\ (BeginUpdate \/ UpdateStep) => SchedInv'
<1> SUFFICES ASSUME SchedInv, BeginUpdate \/ UpdateStep PROVE SchedInv'
  OBVIOUS
<1> USE DEF SchedInv, SchedTypeOK, RunsOnce, events, history
<1>1. CASE BeginUpdate
  <2>1. /\ control' = "visit" /\ stale' = FALSE /\ stale' \in BOOLEAN
        /\ cursor' \in mScheduledEventSet \cup {End}
        /\ currentSimTimeMS' = simMS /\ simMS' = simMS
        /\ UNCHANGED events /\ UNCHANGED history
    BY <1>1 DEF BeginUpdate
  <2> QED
    BY <2>1
<1>2. CASE Dispatch
  BY <1>2 DEF Dispatch
<1>3. CASE DispatchReturns
  BY <1>3 DEF DispatchReturns, RemoveCurrent, Without
<1>4. CASE DispatchThrows
  BY <1>4 DEF DispatchThrows
<1>5. CASE RemoveCancelled
  BY <1>5 DEF RemoveCancelled, RemoveCurrent, Without
<1>6. CASE Keep
  BY <1>6 DEF Keep
<1>7. CASE IncrementLive
  BY <1>7 DEF IncrementLive
<1>8. CASE IncrementStale
  BY <1>8 DEF IncrementStale
<1>9. CASE EndUpdate
  BY <1>9 DEF EndUpdate
<1> QED
  BY <1>1, <1>2, <1>3, <1>4, <1>5, <1>6, <1>7, <1>8, <1>9 DEF UpdateStep

\* The invariant is inductive.
LEMMA SchedNextInv == SchedInv /\ [SchedNext]_schedVars => SchedInv'
<1> SUFFICES ASSUME SchedInv, [SchedNext]_schedVars PROVE SchedInv'
  OBVIOUS
<1>1. CASE SimAdvance
  BY <1>1 DEF SimAdvance, SchedInv, SchedTypeOK, RunsOnce, events, walk, history
<1>2. CASE UNCHANGED schedVars
  BY <1>2 DEF schedVars, SchedInv, SchedTypeOK, RunsOnce, events, walk, history
<1> QED
  BY <1>1, <1>2, CallInv, UpdateInv DEF SchedNext

\* In every behaviour of the scheduler the walk is at a live event and flags
\* and times are what the callers asked for.
THEOREM SchedInvariant == SchedSpec => []SchedInv
  BY SchedInitInv, SchedNextInv, PTL DEF SchedSpec

\* An event whose delegate returned is never run again.
THEOREM ReturnedIsGone == SchedSpec => []RunsOnce
<1>1. SchedInv => RunsOnce
  BY DEF SchedInv
<1> QED
  BY <1>1, SchedInvariant, PTL

\* Only a step that dispatches goes from visiting an event to its delegate.
LEMMA OnlyDispatch ==
    ASSUME SchedInv, [SchedNext]_schedVars, control = "visit", control' = "dispatch"
    PROVE  Dispatch
<1> USE DEF events, walk, history, schedVars
<1>1. CASE Call
  BY <1>1 DEF Call, Schedule, Cancel, CallersTurn
<1>2. CASE UpdateStep
  BY <1>2 DEF UpdateStep, DispatchReturns, DispatchThrows, RemoveCancelled,
     RemoveCurrent, Keep, IncrementLive, IncrementStale, EndUpdate
<1>3. CASE BeginUpdate \/ SimAdvance \/ UNCHANGED schedVars
  BY <1>3 DEF BeginUpdate, SimAdvance
<1> QED
  BY <1>1, <1>2, <1>3 DEF SchedNext

\* No delegate is called before the wait given to schedule() is over, however
\* many events are scheduled from delegates of the same walk.
THEOREM WaitIsHonoured == SchedSpec => NeverEarly
<1> DEFINE A == control = "visit" /\ control' = "dispatch" => simMS >= earliest[cursor]
<1>1. SchedInv /\ [SchedNext]_schedVars => [A]_schedVars
  <2> SUFFICES ASSUME SchedInv, [SchedNext]_schedVars,
                      control = "visit", control' = "dispatch"
               PROVE  simMS >= earliest[cursor]
    OBVIOUS
  <2>1. Dispatch
    BY OnlyDispatch
  <2>2. /\ cursor \in Event /\ currentSimTimeMS >= mTriggerTimeMS[cursor]
        /\ mTriggerTimeMS[cursor] = earliest[cursor] /\ earliest[cursor] \in Nat
        /\ currentSimTimeMS <= simMS /\ currentSimTimeMS \in Nat /\ simMS \in Nat
    BY <2>1 DEF Dispatch, shouldDispatch, SchedInv, SchedTypeOK
  <2> QED
    BY <2>2
<1> QED
  BY <1>1, SchedInitInv, SchedNextInv, PTL DEF SchedSpec, NeverEarly

\* No delegate is called after cancel() was called on its event.
THEOREM CancelIsFinal == SchedSpec => CancelledNeverRuns
<1> DEFINE A == control = "visit" /\ control' = "dispatch" => cursor \notin userCancelled
<1>1. SchedInv /\ [SchedNext]_schedVars => [A]_schedVars
  <2> SUFFICES ASSUME SchedInv, [SchedNext]_schedVars,
                      control = "visit", control' = "dispatch"
               PROVE  cursor \notin userCancelled
    OBVIOUS
  <2>1. Dispatch
    BY OnlyDispatch
  <2> QED
    BY <2>1 DEF Dispatch, shouldDispatch, SchedInv, SchedTypeOK
<1> QED
  BY <1>1, SchedInitInv, SchedNextInv, PTL DEF SchedSpec, CancelledNeverRuns

\* What the queue of jobs sees of the scheduler.
Doomed == {e \in mScheduledEventSet : mIsCancelled[e]}

\* The jobs begin as the scheduler does.
LEMMA JobsStart == SchedInit => Jobs!JobInit
  BY DEF SchedInit, Jobs!JobInit, End

\* schedule() submits a job and cancel() withdraws one, while a job runs too.
LEMMA CallsAreJobSteps == SchedInv /\ Call => Jobs!JobNext
<1> SUFFICES ASSUME SchedInv, NEW e \in Event,
                    Cancel(e) \/ \E wait \in Wait : Schedule(e, wait)
             PROVE  Jobs!JobNext
  BY DEF Call
<1>1. CASE Cancel(e)
  <2>1. Doomed' = Doomed \cup {e}
    BY <1>1 DEF Cancel, Doomed, SchedInv, SchedTypeOK
  <2>2. Jobs!Withdraw(e)
    BY <1>1, <2>1 DEF Cancel, Jobs!Withdraw, Doomed, walk
  <2> QED
    BY <2>2 DEF Jobs!JobNext
<1>2. ASSUME NEW wait \in Wait, Schedule(e, wait) PROVE Jobs!JobNext
  <2>1. Doomed' \in {Doomed, Doomed \cup {e}}
    <3>1. PICK garbage \in BOOLEAN : mIsCancelled' = [mIsCancelled EXCEPT ![e] = garbage]
      BY <1>2 DEF Schedule
    <3>2. \A f \in Event \ {e} : mIsCancelled'[f] = mIsCancelled[f]
      BY <3>1 DEF SchedInv, SchedTypeOK
    <3>3. e \notin mScheduledEventSet /\ mScheduledEventSet' = mScheduledEventSet \cup {e}
          /\ mScheduledEventSet \subseteq Event
      BY <1>2 DEF Schedule, SchedInv, SchedTypeOK
    <3>4. Doomed' = IF mIsCancelled'[e] THEN Doomed \cup {e} ELSE Doomed
      BY <3>2, <3>3 DEF Doomed
    <3> QED
      BY <3>4
  <2>2. Jobs!Submit(e, wait)
    BY <1>2, <2>1 DEF Schedule, TriggerTime, Jobs!Submit, Doomed, walk
  <2> QED
    BY <2>2 DEF Jobs!JobNext
<1> QED
  BY <1>1, <1>2

\* A step of update() starts, finishes, fails or discards one job, or none.
LEMMA WalkIsJobSteps ==
    SchedInv /\ (BeginUpdate \/ UpdateStep \/ SimAdvance \/ UNCHANGED schedVars)
        => [Jobs!JobNext]_Jobs!jobVars
<1> SUFFICES ASSUME SchedInv, BeginUpdate \/ UpdateStep \/ SimAdvance \/ UNCHANGED schedVars
             PROVE  [Jobs!JobNext]_Jobs!jobVars
  OBVIOUS
<1> USE DEF Jobs!jobVars, events, history, End
<1>1. CASE Dispatch
  <2>1. /\ cursor \in mScheduledEventSet /\ ~mIsCancelled[cursor] /\ cursor \in Event
        /\ mTriggerTimeMS[cursor] <= simMS
    BY <1>1 DEF Dispatch, shouldDispatch, SchedInv, SchedTypeOK
  <2>2. Jobs!Start(cursor)
    BY <1>1, <2>1 DEF Dispatch, Jobs!Start
  <2> QED
    BY <2>1, <2>2 DEF Jobs!JobNext
<1>2. CASE DispatchReturns
  <2>1. Doomed' = Doomed \ {cursor} /\ cursor # End
    BY <1>2 DEF DispatchReturns, RemoveCurrent, Without, Doomed, SchedInv
  <2>2. Jobs!Finish
    BY <1>2, <2>1 DEF DispatchReturns, RemoveCurrent, Without, Doomed, Jobs!Finish
  <2> QED
    BY <2>2 DEF Jobs!JobNext
<1>3. CASE DispatchThrows
  <2>1. Jobs!Fail
    BY <1>3 DEF DispatchThrows, Jobs!Fail, SchedInv
  <2> QED
    BY <2>1 DEF Jobs!JobNext
<1>4. CASE RemoveCancelled
  <2>1. cursor \in Doomed /\ cursor \in Event /\ Doomed' = Doomed \ {cursor}
    BY <1>4 DEF RemoveCancelled, RemoveCurrent, Without, Doomed, SchedInv, SchedTypeOK
  <2>2. Jobs!Discard(cursor)
    BY <1>4, <2>1 DEF RemoveCancelled, RemoveCurrent, Without, Doomed, Jobs!Discard
  <2>3. \E j \in Event : Jobs!Discard(j)
    BY <2>1, <2>2 DEF Jobs!Discard
  <2> QED
    BY <2>3 DEF Jobs!JobNext
<1>5. CASE BeginUpdate \/ Keep \/ IncrementLive \/ IncrementStale \/ EndUpdate \/ UNCHANGED schedVars
  BY <1>5 DEF BeginUpdate, Keep, IncrementLive, IncrementStale, EndUpdate, schedVars, walk
<1>6. CASE SimAdvance
  BY <1>6 DEF SimAdvance, walk, Jobs!Pass, Jobs!JobNext
<1> QED
  BY <1>1, <1>2, <1>3, <1>4, <1>5, <1>6 DEF UpdateStep

\* Seen as a queue of jobs the scheduler keeps what it promises, wherever its
\* broken iterator goes on and however many delegates throw.
THEOREM SchedulerImplementsJobs == SchedSpec => ImplementsJobs
<1>1. SchedInv /\ [SchedNext]_schedVars => [Jobs!JobNext]_Jobs!jobVars
  BY CallsAreJobSteps, WalkIsJobSteps DEF SchedNext
<1> QED
  BY <1>1, JobsStart, SchedInvariant, PTL DEF SchedSpec, ImplementsJobs, Jobs!JobSpec

-----------------------------------------------------------------------------
(* Words of bytes                                                          *)

\* Bytes in the words that are swapped, and what may be in one of their places.
Width == {2, 4, 8}
Bytes == 1..8 \cup {Beyond}

\* The shift of each byte takes it to the place opposite to its own.
LEMMA ShiftIsOpposite ==
    ASSUME NEW n \in Width, NEW i \in 1..n
    PROVE  Shifts(n)[i] = n + 1 - 2 * i
<1>1. CASE n = 2
  <2>1. Shifts(2) = <<1, -1>> /\ (i = 1 \/ i = 2)
    BY <1>1 DEF Shifts
  <2> QED
    BY <1>1, <2>1
<1>2. CASE n = 4
  <2>1. Shifts(4) = <<3, 1, -1, -3>> /\ (i = 1 \/ i = 2 \/ i = 3 \/ i = 4)
    BY <1>2 DEF Shifts
  <2> QED
    BY <1>2, <2>1
<1>3. CASE n = 8
  <2>1. Shifts(8) = <<7, 5, 3, 1, -1, -3, -5, -7>>
        /\ (i = 1 \/ i = 2 \/ i = 3 \/ i = 4 \/ i = 5 \/ i = 6 \/ i = 7 \/ i = 8)
    BY <1>3 DEF Shifts
  <2> QED
    BY <1>3, <2>1
<1> QED
  BY <1>1, <1>2, <1>3 DEF Width

\* So the masks and shifts put into each place the byte opposite to it.
LEMMA SwapReverses ==
    ASSUME NEW w, Len(w) \in Width
    PROVE  Swapped(w) = Reversed(w)
<1> DEFINE n == Len(w)
           from(k) == CHOOSE i \in 1..n : i + Shifts(n)[i] = k
<1>1. ASSUME NEW k \in 1..n PROVE from(k) = n + 1 - k
  <2>1. n + 1 - k \in 1..n
    BY DEF Width
  <2>2. \A i \in 1..n : (i + Shifts(n)[i] = k) <=> (i = n + 1 - k)
    <3> TAKE i \in 1..n
    <3>1. Shifts(n)[i] = n + 1 - 2 * i
      BY ShiftIsOpposite
    <3>2. n \in Nat
      BY DEF Width
    <3> HIDE DEF n
    <3> QED
      BY <3>1, <3>2
  <2> HIDE DEF n
  <2> QED
    BY <2>1, <2>2
<1>2. Swapped(w) = [k \in 1..n |-> w[from(k)]] /\ Reversed(w) = [k \in 1..n |-> w[n + 1 - k]]
  BY DEF Swapped, Reversed
<1> HIDE DEF n, from
<1> QED
  BY <1>1, <1>2

\* A word that has lost no byte is what its swaps make of the first word.
EndianInv ==
    /\ swaps \in {0, 1} /\ Len(word) \in Width /\ word \in [1..Len(word) -> Bytes]
    /\ \/ \E k \in 1..Len(word) : word[k] = Beyond
       \/ \A k \in 1..Len(word) : word[k] = IF swaps = 0 THEN k ELSE Len(word) + 1 - k

\* A word made place by place has the length of its places.
LEMMA WordLength ==
    ASSUME NEW n \in Width, NEW w \in [1..n -> Bytes]
    PROVE  Len(w) = n
<1>1. n \in Nat
  BY DEF Width
<1> HIDE DEF Bytes
<1> QED
  BY <1>1, LenProperties, IsASeq

\* A swap takes each byte to the opposite place, the arbitrary one loses a byte.
LEMMA EndianNextInv == EndianInv /\ [EndianNext]_endianVars => EndianInv'
<1> SUFFICES ASSUME EndianInv, [EndianNext]_endianVars PROVE EndianInv'
  OBVIOUS
<1> DEFINE n == Len(word)
<1>1. n \in Width /\ n \in Nat /\ word \in [1..n -> Bytes] /\ swaps \in {0, 1}
  BY DEF EndianInv, Width
<1>2. CASE SwapEndian
  <2>1. word' = [k \in 1..n |-> word[n + 1 - k]] /\ swaps' = 1 - swaps
    BY <1>1, <1>2, SwapReverses DEF SwapEndian, Reversed
  <2>2. \A k \in 1..n : n + 1 - k \in 1..n /\ n + 1 - (n + 1 - k) = k
    BY <1>1
  <2>3. n' = n /\ word' \in [1..n -> Bytes] /\ swaps' \in {0, 1}
    <3> HIDE DEF n
    <3>1. word' \in [1..n -> Bytes] /\ swaps' \in {0, 1}
      BY <1>1, <2>1, <2>2
    <3> QED
      BY <1>1, <3>1, WordLength DEF n
  <2> HIDE DEF n
  <2>4. CASE \E k \in 1..n : word[k] = Beyond
    <3>1. PICK k \in 1..n : word[k] = Beyond
      BY <2>4
    <3>2. word'[n + 1 - k] = Beyond
      BY <2>1, <2>2, <3>1
    <3> QED
      BY <1>1, <2>2, <2>3, <3>2 DEF EndianInv, n
  <2>5. CASE \A k \in 1..n : word[k] = IF swaps = 0 THEN k ELSE n + 1 - k
    <3>1. ASSUME NEW k \in 1..n PROVE word'[k] = IF swaps' = 0 THEN k ELSE n + 1 - k
      <4>1. word'[k] = word[n + 1 - k] /\ word[n + 1 - k] = IF swaps = 0 THEN n + 1 - k ELSE n + 1 - (n + 1 - k)
        BY <2>1, <2>2, <2>5
      <4> QED
        BY <1>1, <2>1, <2>2, <4>1
    <3> QED
      BY <1>1, <2>3, <3>1 DEF EndianInv, n
  <2> QED
    BY <2>4, <2>5 DEF EndianInv, n
<1>3. CASE SwapEndianArbitrary
  <2>1. word' = [k \in 1..n |-> IF k = 1 THEN Beyond ELSE word[n + 2 - k]] /\ swaps' = 1 - swaps
    BY <1>3 DEF SwapEndianArbitrary
  <2>2. 1 \in 1..n /\ \A k \in 1..n : k # 1 => n + 2 - k \in 1..n
    BY <1>1 DEF Width
  <2>3. n' = n /\ word' \in [1..n -> Bytes] /\ swaps' \in {0, 1}
    <3>0. Beyond \in Bytes
      BY DEF Bytes
    <3> HIDE DEF n, Bytes
    <3>1. word' \in [1..n -> Bytes] /\ swaps' \in {0, 1}
      BY <1>1, <2>1, <2>2, <3>0
    <3> QED
      BY <1>1, <3>1, WordLength DEF n
  <2> HIDE DEF n
  <2>4. word'[1] = Beyond
    BY <2>1, <2>2
  <2> QED
    BY <1>1, <2>2, <2>3, <2>4 DEF EndianInv, n
<1>4. CASE UNCHANGED endianVars
  BY <1>4 DEF endianVars, EndianInv
<1> QED
  BY <1>2, <1>3, <1>4 DEF EndianNext

\* Words of each width are reversed, and a second time what they were
\* (EndianUtilities.hpp:20-150).
THEOREM WordsAreReversed == EndianSpec => []SwapsReverse
<1>1. EndianInit => EndianInv
  <2> SUFFICES ASSUME EndianInit PROVE EndianInv
    OBVIOUS
  <2>1. PICK n \in Width : word = [k \in 1..n |-> k]
    BY DEF EndianInit, Width
  <2>2. word \in [1..n -> Bytes] /\ swaps = 0
    BY <2>1 DEF EndianInit, Width, Bytes
  <2>3. Len(word) = n
    BY <2>2, WordLength
  <2> QED
    BY <2>1, <2>2, <2>3 DEF EndianInv
<1>2. EndianInv => SwapsReverse
  <2> DEFINE n == Len(word)
             original == [k \in 1..n |-> k]
  <2> SUFFICES ASSUME EndianInv, \A k \in 1..n : word[k] # Beyond
               PROVE  word = IF swaps = 0 THEN original ELSE Reversed(original)
    BY DEF SwapsReverse
  <2>1. n \in Width /\ n \in Nat /\ word \in [1..n -> Bytes]
        /\ \A k \in 1..n : word[k] = IF swaps = 0 THEN k ELSE n + 1 - k
    BY DEF EndianInv, Width
  <2>2. Len(original) = n
    <3>1. original \in [1..n -> Bytes]
      BY <2>1 DEF Width, Bytes
    <3> HIDE DEF original, n
    <3> QED
      BY <2>1, <3>1, WordLength
  <2>3. Reversed(original) = [k \in 1..n |-> n + 1 - k]
    <3>1. \A k \in 1..n : n + 1 - k \in 1..n
      BY <2>1
    <3>2. \A k \in 1..n : original[n + 1 - k] = n + 1 - k
      BY <3>1
    <3> HIDE DEF original, n
    <3> QED
      BY <2>2, <3>2 DEF Reversed
  <2> HIDE DEF n
  <2>4. CASE swaps = 0
    BY <2>1, <2>4
  <2>5. CASE swaps # 0
    BY <2>1, <2>3, <2>5
  <2> QED
    BY <2>4, <2>5
<1> QED
  BY <1>1, <1>2, EndianNextInv, PTL DEF EndianSpec

-----------------------------------------------------------------------------
(* Strings                                                                 *)

\* A set of natural numbers that is not empty has a smallest one.
LEMMA Smallest ==
    ASSUME NEW T, T \subseteq Nat, T # {}
    PROVE  \E x \in T : \A y \in T : x <= y
<1> DEFINE R == OpToRel(<, Nat)
<1>1. PICK x \in T : \A y \in T : ~(<<y, x>> \in R)
  <2>1. IsWellFoundedOn(R, Nat)
    BY NatLessThanWellFounded
  <2> HIDE DEF R
  <2> QED
    BY <2>1, WFMin
<1>2. \A y \in Nat : y < x => <<y, x>> \in R
  BY DEF OpToRel
<1> HIDE DEF R
<1>3. \A y \in T : ~(y < x)
  BY <1>1, <1>2
<1>4. \A y \in T : x <= y
  BY <1>3
<1> QED
  BY <1>4

\* What a cell of a buffer holds.
Cell == Char \cup {Nul, Unset}

\* Text of cells is what is in front of their first NUL.
IsTextOf(text, cells) ==
    /\ text \in Seq(Cell) /\ Len(text) < Len(cells) /\ cells[Len(text) + 1] = Nul
    /\ \A i \in 1..Len(text) : text[i] = cells[i] /\ text[i] # Nul

\* The first cells, one by one.
LEMMA FrontOfCells ==
    ASSUME NEW cells \in Seq(Cell), NEW n \in Nat, n < Len(cells)
    PROVE  /\ SubSeq(cells, 1, n) \in Seq(Cell) /\ Len(SubSeq(cells, 1, n)) = n
           /\ \A i \in 1..n : SubSeq(cells, 1, n)[i] = cells[i]
<1>1. Len(cells) \in Nat /\ \A i \in 1..n : cells[i] \in Cell
  BY LenProperties, ElementOfSeq
<1> QED
  BY <1>1, SubSeqProperties

\* A terminated buffer has a text.
LEMMA TextOfCells ==
    ASSUME NEW cells \in Seq(Cell), Terminated(cells)
    PROVE  IsTextOf(Text(cells), cells)
<1> DEFINE First(k) == cells[k] = Nul /\ \A i \in 1..(k - 1) : cells[i] # Nul
           end == CHOOSE k \in DOMAIN cells : First(k)
           T == {k \in Nat : k \in DOMAIN cells /\ cells[k] = Nul}
<1>1. Len(cells) \in Nat /\ DOMAIN cells = 1..Len(cells)
  BY LenProperties
<1>2. \E k \in DOMAIN cells : First(k)
  <2>1. T # {} /\ T \subseteq Nat
    BY <1>1 DEF Terminated
  <2>2. PICK k \in T : \A i \in T : k <= i
    <3> HIDE DEF T
    <3> QED
      BY <2>1, Smallest
  <2>3. ASSUME NEW i \in 1..(k - 1) PROVE cells[i] # Nul
    <3>1. i \in Nat /\ i \in DOMAIN cells /\ ~(k <= i)
      BY <1>1, <2>2
    <3> QED
      BY <2>2, <3>1
  <2> QED
    BY <2>2, <2>3
<1>3. end \in DOMAIN cells /\ First(end)
  <2> HIDE DEF First
  <2> QED
    BY <1>2
<1>4. Text(cells) = SubSeq(cells, 1, end - 1)
  BY DEF Text
<1> HIDE DEF end
<1>5. end - 1 \in Nat /\ end - 1 < Len(cells) /\ (end - 1) + 1 = end
  BY <1>1, <1>3
<1> QED
  BY <1>3, <1>4, <1>5, FrontOfCells DEF IsTextOf

\* And only one.
LEMMA OneText ==
    ASSUME NEW cells \in Seq(Cell), NEW text, IsTextOf(text, cells)
    PROVE  Terminated(cells) /\ Text(cells) = text
<1> DEFINE found == Text(cells)
<1>1. Len(cells) \in Nat /\ DOMAIN cells = 1..Len(cells) /\ Len(text) \in Nat
  BY LenProperties DEF IsTextOf
<1>2. Terminated(cells)
  BY <1>1 DEF IsTextOf, Terminated
<1>3. IsTextOf(found, cells)
  BY <1>2, TextOfCells
<1> HIDE DEF found
<1>4. Len(found) \in Nat
  BY <1>3, LenProperties DEF IsTextOf
<1>5. Len(found) = Len(text)
  <2>1. CASE Len(found) < Len(text)
    <3>1. Len(found) + 1 \in 1..Len(text)
      BY <1>1, <1>4, <2>1
    <3> QED
      BY <1>3, <3>1 DEF IsTextOf
  <2>2. CASE Len(text) < Len(found)
    <3>1. Len(text) + 1 \in 1..Len(found)
      BY <1>1, <1>4, <2>2
    <3> QED
      BY <1>3, <3>1 DEF IsTextOf
  <2> QED
    BY <1>1, <1>4, <2>1, <2>2
<1>6. \A i \in 1..Len(text) : found[i] = text[i]
  BY <1>3, <1>5 DEF IsTextOf
<1>7. found = text
  BY <1>3, <1>5, <1>6, SeqEqual DEF IsTextOf
<1> QED
  BY <1>2, <1>7 DEF found

\* A text without NUL that is followed by one is the text of its buffer.
LEMMA EndedText ==
    ASSUME NEW text \in Seq(Cell), \A i \in 1..Len(text) : text[i] # Nul
    PROVE  /\ Append(text, Nul) \in Seq(Cell) /\ Len(Append(text, Nul)) = Len(text) + 1
           /\ IsTextOf(text, Append(text, Nul))
<1>1. Nul \in Cell /\ Len(text) \in Nat
  BY LenProperties DEF Cell
<1>2. /\ Append(text, Nul) \in Seq(Cell) /\ Len(Append(text, Nul)) = Len(text) + 1
      /\ Append(text, Nul)[Len(text) + 1] = Nul
      /\ \A i \in 1..Len(text) : Append(text, Nul)[i] = text[i]
  BY <1>1, AppendProperties
<1> QED
  BY <1>1, <1>2 DEF IsTextOf

\* Every buffer of more than one character is terminated, and a String that is
\* not NULL counts fewer characters than its own buffer has.
StringsInv ==
    /\ freed = {} /\ buffers \in Seq(Seq(Cell))
    /\ \A b \in 1..Len(buffers) : Len(buffers[b]) > 1 => Terminated(buffers[b])
    /\ strings \in [Alive -> [stored : 0..Len(buffers), length : Nat]]
    /\ \A x \in Alive : ~IsNull(x) => strings[x].length < Len(Cells(x))

\* What the code stores in a new buffer.
Storable(cells, length) ==
    cells \in Seq(Cell) /\ length \in Nat /\ length < Len(cells) /\ (Len(cells) > 1 => Terminated(cells))

\* A new buffer is nobody else's.
LEMMA StoreInFront ==
    ASSUME StringsInv, NEW x, NEW cells, NEW length, Stores(x, cells, length), Storable(cells, length)
    PROVE  /\ Alive' = Alive \cup {x} /\ ~IsNull(x)' /\ strings'[x].length = length /\ Cells(x)' = cells
           /\ \A y \in Alive \ {x} : strings'[y] = strings[y] /\ (~IsNull(y) => Cells(y)' = Cells(y))
           /\ \A y \in Alive' : strings'[y] \in [stored : 0..Len(buffers'), length : Nat]
           /\ buffers' \in Seq(Seq(Cell)) /\ Len(buffers') = Len(buffers) + 1
           /\ buffers'[Len(buffers) + 1] = cells
           /\ \A b \in 1..Len(buffers) : buffers'[b] = buffers[b]
<1>1. /\ buffers' = Append(buffers, cells) /\ buffers \in Seq(Seq(Cell)) /\ cells \in Seq(Cell) /\ length \in Nat
      /\ Len(buffers) \in Nat
  BY LenProperties DEF StringsInv, Stores, Storable
<1>2. /\ buffers' \in Seq(Seq(Cell)) /\ Len(buffers') = Len(buffers) + 1
      /\ buffers'[Len(buffers) + 1] = cells
      /\ \A b \in 1..Len(buffers) : buffers'[b] = buffers[b]
  BY <1>1, AppendProperties
<1>3. strings' = [y \in Alive \cup {x} |->
                    IF y = x THEN [stored |-> Len(buffers) + 1, length |-> length] ELSE strings[y]]
  BY <1>2 DEF Stores, With
<1>4. Alive' = Alive \cup {x} /\ strings'[x] = [stored |-> Len(buffers) + 1, length |-> length]
      /\ \A y \in Alive \ {x} : strings'[y] = strings[y]
  BY <1>3 DEF Alive
<1>5. \A y \in Alive : strings[y].stored \in 0..Len(buffers) /\ strings[y].length \in Nat
                       /\ strings[y] \in [stored : 0..Len(buffers), length : Nat]
  BY DEF StringsInv
<1>6. ASSUME NEW y \in Alive \ {x} PROVE ~IsNull(y) => Cells(y)' = Cells(y)
  <2>1. ~IsNull(y) => strings[y].stored \in 1..Len(buffers)
    BY <1>1, <1>5 DEF IsNull
  <2> QED
    BY <1>2, <1>4, <2>1 DEF Cells
<1>7. ~IsNull(x)' /\ Cells(x)' = cells /\ strings'[x].length = length
  BY <1>1, <1>2, <1>4 DEF IsNull, Cells
<1>8. ASSUME NEW y \in Alive' PROVE strings'[y] \in [stored : 0..Len(buffers'), length : Nat]
  <2>1. 0..Len(buffers) \subseteq 0..Len(buffers') /\ Len(buffers) + 1 \in 0..Len(buffers')
    BY <1>1, <1>2
  <2> QED
    BY <1>1, <1>4, <1>5, <1>8, <2>1
<1> QED
  BY <1>2, <1>4, <1>6, <1>7, <1>8

\* So storing keeps the invariant.
LEMMA StoreInv ==
    ASSUME StringsInv, NEW x, NEW cells, NEW length, Stores(x, cells, length), Storable(cells, length),
           freed' = freed
    PROVE  StringsInv'
<1>1. /\ Alive' = Alive \cup {x} /\ ~IsNull(x)' /\ strings'[x].length = length /\ Cells(x)' = cells
      /\ \A y \in Alive \ {x} : strings'[y] = strings[y] /\ (~IsNull(y) => Cells(y)' = Cells(y))
      /\ \A y \in Alive' : strings'[y] \in [stored : 0..Len(buffers'), length : Nat]
      /\ buffers' \in Seq(Seq(Cell)) /\ Len(buffers') = Len(buffers) + 1
      /\ buffers'[Len(buffers) + 1] = cells
      /\ \A b \in 1..Len(buffers) : buffers'[b] = buffers[b]
  BY StoreInFront
<1>2. strings' \in [Alive' -> [stored : 0..Len(buffers'), length : Nat]]
  <2>1. strings' = [y \in Alive \cup {x} |-> strings'[y]]
    BY DEF Stores, With
  <2> QED
    BY <1>1, <2>1
<1>3. \A b \in 1..Len(buffers') : Len(buffers'[b]) > 1 => Terminated(buffers'[b])
  <2>1. Len(buffers) \in Nat
    BY LenProperties DEF StringsInv
  <2>2. \A b \in 1..Len(buffers') : b \in 1..Len(buffers) \/ b = Len(buffers) + 1
    BY <1>1, <2>1
  <2> QED
    BY <1>1, <2>2 DEF StringsInv, Storable
<1>4. \A y \in Alive' : ~IsNull(y)' => strings'[y].length < Len(Cells(y)')
  <2>1. ASSUME NEW y \in Alive \ {x}, ~IsNull(y)' PROVE strings'[y].length < Len(Cells(y)')
    <3>1. ~IsNull(y)
      BY <1>1, <2>1 DEF IsNull
    <3> QED
      BY <1>1, <3>1 DEF StringsInv
  <2> QED
    BY <1>1, <2>1 DEF Storable
<1> QED
  BY <1>1, <1>2, <1>3, <1>4 DEF StringsInv

\* Text without NUL can be stored with its length, and then it is exact.
LEMMA ConstructExact ==
    ASSUME StringsInv, NEW z, NEW text \in Seq(Cell), \A i \in 1..Len(text) : text[i] # Nul,
           Construct(z, text)
    PROVE  /\ StringsInv' /\ memory' = memory /\ Exact(z)' /\ Text(Cells(z))' = text
<1>1. /\ Stores(z, Append(text, Nul), Len(text)) /\ UNCHANGED <<freed, memory>> /\ Len(text) \in Nat
  BY LenProperties DEF Construct
<1>2. /\ Append(text, Nul) \in Seq(Cell) /\ Len(Append(text, Nul)) = Len(text) + 1
      /\ IsTextOf(text, Append(text, Nul))
  BY EndedText
<1> DEFINE cells == Append(text, Nul)
<1>3. cells \in Seq(Cell) /\ Len(cells) = Len(text) + 1 /\ IsTextOf(text, cells)
  BY <1>2
<1>4. Stores(z, cells, Len(text))
  BY <1>1
<1> HIDE DEF cells
<1>5. Terminated(cells) /\ Text(cells) = text
  BY <1>3, OneText
<1>6. Storable(cells, Len(text))
  BY <1>1, <1>3, <1>5 DEF Storable
<1>7. StringsInv'
  BY <1>1, <1>4, <1>6, StoreInv
<1>8. z \in Alive' /\ ~IsNull(z)' /\ strings'[z].length = Len(text) /\ Cells(z)' = cells
  BY <1>4, <1>6, StoreInFront
<1>9. Text(Cells(z))' = text /\ Terminated(Cells(z))'
  <2>1. Text(Cells(z)') = text /\ Terminated(Cells(z)')
    BY <1>5, <1>8
  <2> QED
    BY <2>1 DEF Text, Terminated
<1> QED
  BY <1>1, <1>7, <1>8, <1>9 DEF Exact, Readable

\* The text of an object that can be read.
LEMMA ReadText ==
    ASSUME StringsInv, NEW x, Readable(x)
    PROVE  /\ Text(Cells(x)) \in Seq(Cell) /\ Len(Text(Cells(x))) \in Nat
           /\ \A i \in 1..Len(Text(Cells(x))) : Text(Cells(x))[i] # Nul
<1>1. x \in Alive /\ strings[x].stored \in 1..Len(buffers) /\ Terminated(Cells(x))
  BY LenProperties DEF Readable, IsNull, StringsInv
<1>2. Cells(x) \in Seq(Cell)
  BY <1>1, ElementOfSeq DEF Cells, StringsInv
<1>3. IsTextOf(Text(Cells(x)), Cells(x))
  BY <1>1, <1>2, TextOfCells
<1> QED
  BY <1>3, LenProperties DEF IsTextOf

\* Two texts one after the other.
LEMMA BothTexts ==
    ASSUME NEW s \in Seq(Cell), NEW t \in Seq(Cell),
           \A i \in 1..Len(s) : s[i] # Nul, \A i \in 1..Len(t) : t[i] # Nul
    PROVE  /\ s \o t \in Seq(Cell) /\ Len(s \o t) = Len(s) + Len(t) /\ Len(s) \in Nat /\ Len(t) \in Nat
           /\ \A i \in 1..Len(s \o t) : (s \o t)[i] # Nul
<1> DEFINE both == s \o t
<1>1. /\ both \in Seq(Cell) /\ Len(both) = Len(s) + Len(t) /\ Len(s) \in Nat /\ Len(t) \in Nat
      /\ \A i \in 1..(Len(s) + Len(t)) : both[i] = IF i <= Len(s) THEN s[i] ELSE t[i - Len(s)]
  BY ConcatProperties, LenProperties
<1> HIDE DEF both
<1>2. ASSUME NEW i \in 1..Len(both) PROVE both[i] # Nul
  <2>1. i \in 1..Len(s) \/ (~(i <= Len(s)) /\ i - Len(s) \in 1..Len(t))
    BY <1>1
  <2>2. both[i] = IF i <= Len(s) THEN s[i] ELSE t[i - Len(s)]
    BY <1>1
  <2>3. CASE i \in 1..Len(s)
    BY <1>1, <2>2, <2>3
  <2>4. CASE ~(i <= Len(s)) /\ i - Len(s) \in 1..Len(t)
    BY <2>2, <2>4
  <2> QED
    BY <2>1, <2>3, <2>4
<1> QED
  BY <1>1, <1>2 DEF both

\* Literal texts have no NUL.
LEMMA LiteralText ==
    ASSUME NEW text \in Literal
    PROVE  text \in Seq(Cell) /\ Len(text) \in Nat /\ \A i \in 1..Len(text) : text[i] # Nul
<1>1. text \in Seq(Char) /\ Char \subseteq Cell
  BY StringsAssumption DEF Cell
<1>2. Len(text) \in Nat /\ \A i \in 1..Len(text) : text[i] \in Char
  BY <1>1, LenProperties, ElementOfSeq
<1>3. text \in Seq(Cell)
  BY <1>1, SeqMonotonic
<1> QED
  BY <1>2, <1>3, StringsAssumption

\* What StripChar has at each i: the buffer has its length and its end.
StripStates(m, whole) ==
    {w \in [length : 0..(m - 1), cells : [1..m -> Cell]] : Terminated(whole.cells) => Terminated(w.cells)}

\* Each iteration of StripChar keeps them.
LEMMA StripAtKeeps ==
    ASSUME NEW m \in Nat, NEW whole, NEW w \in StripStates(m, whole), NEW i \in Nat, NEW character \in Char
    PROVE  StripAt(w, character, i) \in StripStates(m, whole)
<1> DEFINE n == w.length  c == w.cells
<1>1. n \in 0..(m - 1) /\ c \in [1..m -> Cell] /\ DOMAIN c = 1..m /\ (Terminated(whole.cells) => Terminated(c))
      /\ w = [length |-> n, cells |-> c]
  BY DEF StripStates
<1>2. SUFFICES ASSUME i < n, c[i + 1] = character PROVE StripAt(w, character, i) \in StripStates(m, whole)
  BY DEF StripAt
<1> DEFINE d == [k \in 1..m |-> IF i < k /\ k <= n THEN c[k + 1] ELSE c[k]]
<1>3. StripAt(w, character, i) = [length |-> n - 1, cells |-> d]
  BY <1>1, <1>2 DEF StripAt
<1> HIDE DEF n, c
<1>4. d \in [1..m -> Cell]
  <2>1. \A k \in 1..m : k <= n => k + 1 \in 1..m
    BY <1>1
  <2> QED
    BY <1>1, <2>1
<1>5. n - 1 \in 0..(m - 1)
  BY <1>1, <1>2
<1>6. ASSUME Terminated(c) PROVE Terminated(d)
  <2>1. PICK k \in 1..m : c[k] = Nul
    BY <1>1, <1>6 DEF Terminated
  <2>2. k # i + 1
    BY <1>2, <2>1, StringsAssumption
  <2>3. CASE i + 1 < k /\ k <= n + 1
    <3>1. k - 1 \in 1..m /\ i < k - 1 /\ k - 1 <= n /\ (k - 1) + 1 = k
      BY <1>1, <2>3
    <3>2. d[k - 1] = Nul
      BY <2>1, <3>1
    <3> HIDE DEF d
    <3> QED
      BY <1>4, <3>1, <3>2 DEF Terminated
  <2>4. CASE k <= i \/ k > n + 1
    <3>1. ~(i < k /\ k <= n)
      BY <1>1, <2>4
    <3>2. d[k] = Nul
      BY <2>1, <3>1
    <3> HIDE DEF d
    <3> QED
      BY <1>4, <3>2 DEF Terminated
  <2>5. k <= i \/ k = i + 1 \/ (i + 1 < k /\ k <= n + 1) \/ k > n + 1
    BY <1>1
  <2> QED
    BY <2>2, <2>3, <2>4, <2>5
<1> HIDE DEF d
<1> QED
  BY <1>1, <1>3, <1>4, <1>5, <1>6 DEF StripStates

\* And so at the end of its loop.
LEMMA StripKeeps ==
    ASSUME NEW m \in Nat, NEW whole \in [length : 0..(m - 1), cells : [1..m -> Cell]], NEW character \in Char
    PROVE  Stripped(whole, character) \in StripStates(m, whole)
<1> DEFINE S == StripStates(m, whole)
           next == [i \in Nat |-> [w \in S |-> StripAt(w, character, i)]]
           n == whole.length
           Body(f) == [i \in 0..n |-> IF i = 0 THEN whole ELSE StripAt(f[i - 1], character, i - 1)]
           strip == CHOOSE f : f = Body(f)
<1>1. whole \in S /\ n \in Nat
  BY DEF StripStates
<1>2. \A w \in S, i \in Nat : StripAt(w, character, i) \in S
  BY StripAtKeeps
<1>3. next \in [Nat -> [S -> S]]
  <2> HIDE DEF S
  <2> QED
    BY <1>2
<1>4. Stripped(whole, character) = strip[n]
  BY DEF Stripped
<1> HIDE DEF S, n
<1>5. PICK f \in [Nat -> S] : f[0] = whole /\ \A i \in Nat : f[i + 1] = StripAt(f[i], character, i)
  <2>1. Recursion(S, whole, next)
    <3> HIDE DEF next
    <3> QED
      BY <1>1, <1>3, NatRecursion
  <2> QED
    BY <2>1 DEF Recursion
<1> DEFINE h == [i \in 0..n |-> f[i]]
<1>6. h = Body(h)
  <2>1. ASSUME NEW i \in 0..n PROVE h[i] = IF i = 0 THEN whole ELSE StripAt(h[i - 1], character, i - 1)
    <3>1. CASE i = 0
      BY <1>5, <3>1
    <3>2. CASE i # 0
      <4>1. i - 1 \in Nat /\ i - 1 \in 0..n /\ (i - 1) + 1 = i
        BY <1>1, <3>2
      <4>2. h[i] = f[i] /\ h[i - 1] = f[i - 1]
        BY <4>1
      <4>3. f[i] = StripAt(f[i - 1], character, i - 1)
        BY <1>5, <4>1
      <4> QED
        BY <3>2, <4>2, <4>3
    <3> QED
      BY <3>1, <3>2
  <2> QED
    BY <2>1
<1>7. strip = Body(strip)
  <2> HIDE DEF Body
  <2> QED
    BY <1>6
<1> HIDE DEF strip
<1>8. \A i \in 0..n : strip[i] = IF i = 0 THEN whole ELSE StripAt(strip[i - 1], character, i - 1)
  BY <1>7
<1> DEFINE T == {i \in Nat : i <= n => strip[i] \in S}
<1>9. 0 \in T
  BY <1>1, <1>8
<1>10. ASSUME NEW i \in Nat, i \in T PROVE i + 1 \in T
  <2>1. SUFFICES ASSUME i + 1 <= n PROVE strip[i + 1] \in S
    OBVIOUS
  <2>2. i + 1 \in 0..n /\ i + 1 # 0 /\ (i + 1) - 1 = i /\ i <= n
    BY <1>1, <2>1
  <2>3. strip[i] \in S /\ strip[i + 1] = StripAt(strip[i], character, i)
    BY <1>8, <1>10, <2>2
  <2> QED
    BY <1>2, <2>3
<1> HIDE DEF T
<1>11. Nat \subseteq T
  BY <1>9, <1>10, SetInduction
<1>12. n \in T /\ n <= n
  BY <1>1, <1>11
<1>13. strip[n] \in S
  BY <1>12 DEF T
<1> QED
  BY <1>4, <1>13 DEF S

\* An object without a buffer, or with the buffer of another one.
LEMMA NullInv == ASSUME StringsInv, NEW x, ConstructNull(x) PROVE StringsInv'
<1>1. strings' = [y \in Alive \cup {x} |-> IF y = x THEN [stored |-> 0, length |-> 0] ELSE strings[y]]
      /\ UNCHANGED <<buffers, freed>>
  BY DEF ConstructNull, With
<1>2. Alive' = Alive \cup {x} /\ strings'[x] = [stored |-> 0, length |-> 0]
      /\ \A y \in Alive \ {x} : strings'[y] = strings[y]
  BY <1>1 DEF Alive
<1>3. Len(buffers) \in Nat
  BY LenProperties DEF StringsInv
<1>4. \A y \in Alive' : strings'[y] \in [stored : 0..Len(buffers), length : Nat]
  BY <1>2, <1>3 DEF StringsInv
<1>5. strings' \in [Alive' -> [stored : 0..Len(buffers'), length : Nat]]
  BY <1>1, <1>2, <1>4
<1>6. \A y \in Alive' : ~IsNull(y)' => strings'[y].length < Len(Cells(y)')
  BY <1>1, <1>2 DEF StringsInv, IsNull, Cells
<1> QED
  BY <1>1, <1>5, <1>6 DEF StringsInv

\* A copy shares the buffer, and has the length that its source had.
LEMMA CopyInv == ASSUME StringsInv, NEW x, NEW y, CopyString(x, y) PROVE StringsInv'
<1>1. y \in Alive /\ UNCHANGED <<buffers, freed>>
      /\ strings' = [w \in Alive \cup {x} |->
                       IF w = x THEN [stored |-> strings[y].stored, length |-> strings[y].length] ELSE strings[w]]
  BY DEF CopyString, With
<1>2. strings[y] \in [stored : 0..Len(buffers), length : Nat]
  BY <1>1 DEF StringsInv
<1>3. Alive' = Alive \cup {x} /\ strings'[x].stored = strings[y].stored /\ strings'[x].length = strings[y].length
      /\ strings'[x] \in [stored : 0..Len(buffers), length : Nat]
      /\ \A w \in Alive \ {x} : strings'[w] = strings[w]
  BY <1>1, <1>2 DEF Alive
<1>4. \A w \in Alive' : strings'[w] \in [stored : 0..Len(buffers), length : Nat]
  BY <1>3 DEF StringsInv
<1>5. strings' \in [Alive' -> [stored : 0..Len(buffers'), length : Nat]]
  BY <1>1, <1>3, <1>4
<1>6. \A w \in Alive' : ~IsNull(w)' => strings'[w].length < Len(Cells(w)')
  BY <1>1, <1>3 DEF StringsInv, IsNull, Cells
<1> QED
  BY <1>1, <1>5, <1>6 DEF StringsInv

\* Concatenation of strings that may have a stale length.
LEMMA ConcatInv ==
    ASSUME StringsInv, NEW x, NEW y, NEW z, Concat(z, x, y)
    PROVE  StringsInv'
<1>1. ASSUME Corrupts PROVE StringsInv'
  BY <1>1 DEF Corrupts, StringsInv, Alive, IsNull, Cells, Terminated
<1>2. ASSUME ConstructNull(z) PROVE StringsInv'
  BY <1>2, NullInv
<1>3. ASSUME NEW one, Readable(one), Construct(z, Text(Cells(one))) PROVE StringsInv'
  <2> DEFINE text == Text(Cells(one))
  <2>1. text \in Seq(Cell) /\ \A i \in 1..Len(text) : text[i] # Nul
    BY <1>3, ReadText
  <2>2. Construct(z, text)
    BY <1>3
  <2> HIDE DEF text
  <2> QED
    BY <2>1, <2>2, ConstructExact
<1>4. ASSUME Readable(x), Readable(y), Construct(z, Text(Cells(x)) \o Text(Cells(y))) PROVE StringsInv'
  <2> DEFINE s == Text(Cells(x))  t == Text(Cells(y))  both == s \o t
  <2>1. /\ s \in Seq(Cell) /\ t \in Seq(Cell)
        /\ \A i \in 1..Len(s) : s[i] # Nul
        /\ \A i \in 1..Len(t) : t[i] # Nul
    BY <1>4, ReadText
  <2>2. Construct(z, both)
    BY <1>4
  <2> HIDE DEF s, t
  <2>3. both \in Seq(Cell) /\ \A i \in 1..Len(both) : both[i] # Nul
    BY <2>1, BothTexts
  <2> HIDE DEF both
  <2> QED
    BY <2>2, <2>3, ConstructExact
<1> QED
  BY <1>1, <1>2, <1>3, <1>4 DEF Concat

\* What += makes: both texts, the end of the string and one cell more.
LEMMA AppendedCells ==
    ASSUME NEW s \in Seq(Cell), \A i \in 1..Len(s) : s[i] # Nul, NEW rest \in Seq(Cell)
    PROVE  /\ Append(s, Nul) \o rest \in Seq(Cell)
           /\ Len(Append(s, Nul) \o rest) = Len(s) + 1 + Len(rest)
           /\ IsTextOf(s, Append(s, Nul) \o rest)
<1> DEFINE ended == Append(s, Nul)  cells == ended \o rest
<1>1. ended \in Seq(Cell) /\ Len(ended) = Len(s) + 1 /\ IsTextOf(s, ended)
  BY EndedText
<1> HIDE DEF ended
<1>2. /\ cells \in Seq(Cell) /\ Len(cells) = Len(ended) + Len(rest)
      /\ \A i \in 1..(Len(ended) + Len(rest)) : cells[i] = IF i <= Len(ended) THEN ended[i] ELSE rest[i - Len(ended)]
  BY <1>1, ConcatProperties
<1> HIDE DEF cells
<1>3. Len(s) \in Nat /\ Len(rest) \in Nat
  BY LenProperties
<1>4. \A i \in 1..(Len(s) + 1) : cells[i] = ended[i]
  BY <1>1, <1>2, <1>3
<1>5. IsTextOf(s, cells)
  BY <1>1, <1>2, <1>3, <1>4 DEF IsTextOf
<1> QED
  BY <1>1, <1>2, <1>3, <1>5 DEF cells, ended

\* The buffer that += makes, with any lengths that leave room for the texts.
LEMMA AppendStores ==
    ASSUME StringsInv, NEW x, NEW y, AppendString(x, y), Readable(x), Readable(y),
           ~(Len(Append(Text(Cells(x)) \o Text(Cells(y)), Nul)) > ConcatSize(x, y) + 1)
    PROVE  \E cells : /\ Stores(x, cells, strings[x].length) /\ Storable(cells, strings[x].length)
                      /\ Text(cells) = Text(Cells(x)) \o Text(Cells(y)) /\ Terminated(cells)
                      /\ UNCHANGED <<freed, memory>>
<1> DEFINE s == Text(Cells(x))  t == Text(Cells(y))  both == s \o t
           size == ConcatSize(x, y) + 1
           result == Append(both, Nul)
           rest == [k \in 1..(size - Len(result)) |-> Unset]
           cells == result \o rest
<1>1. /\ ~(Len(result) > size) /\ Stores(x, cells, strings[x].length)
      /\ freed' = freed \cup Released(x) /\ UNCHANGED memory
      /\ x \in Alive /\ y \in Alive
  BY DEF AppendString
<1>2. freed' = freed
  BY <1>1 DEF Released, is_const
<1>3. /\ s \in Seq(Cell) /\ t \in Seq(Cell)
      /\ \A i \in 1..Len(s) : s[i] # Nul
      /\ \A i \in 1..Len(t) : t[i] # Nul
  BY ReadText
<1> HIDE DEF s, t
<1>4. both \in Seq(Cell) /\ Len(both) \in Nat /\ \A i \in 1..Len(both) : both[i] # Nul
  BY <1>3, BothTexts
<1>5. strings[x].length \in Nat /\ strings[y].length \in Nat
  BY <1>1 DEF StringsInv
<1>6. size \in Nat /\ size = strings[x].length + strings[y].length + 2
  BY <1>5 DEF ConcatSize
<1> HIDE DEF both, size
<1>7. Len(result) = Len(both) + 1
  BY <1>4, EndedText
<1> HIDE DEF result
<1>8. rest \in Seq(Cell) /\ Len(rest) = size - Len(result)
  <2>1. size - Len(result) \in Nat /\ Unset \in Cell
    BY <1>1, <1>4, <1>6, <1>7 DEF Cell
  <2>2. rest \in [1..(size - Len(result)) -> Cell]
    BY <2>1
  <2> HIDE DEF rest
  <2> QED
    BY <2>1, <2>2, IsASeq, LenProperties
<1> HIDE DEF rest
<1>9. cells \in Seq(Cell) /\ Len(cells) = Len(both) + 1 + Len(rest) /\ IsTextOf(both, cells)
  BY <1>4, <1>8, AppendedCells DEF result
<1> HIDE DEF cells
<1>10. Terminated(cells) /\ Text(cells) = both
  BY <1>9, OneText
<1>11. Len(cells) = size
  BY <1>4, <1>6, <1>7, <1>8, <1>9
<1>12. strings[x].length < Len(cells)
  BY <1>5, <1>6, <1>11
<1>13. Storable(cells, strings[x].length)
  BY <1>5, <1>9, <1>10, <1>12 DEF Storable
<1> QED
  BY <1>1, <1>2, <1>10, <1>13 DEF both, s, t

\* StripChar changes neither the size of a buffer nor that it has an end.
LEMMA StripInv ==
    ASSUME StringsInv, NEW x, NEW character \in Char, StripChar(x, character)
    PROVE  StringsInv'
<1>1. CASE IsNull(x)
  BY <1>1 DEF StripChar, StringsInv, Alive, IsNull, Cells, Terminated
<1>2. CASE ~IsNull(x)
  <2> DEFINE b == strings[x].stored  cells == Cells(x)  n == strings[x].length  m == Len(cells)
             whole == [length |-> n, cells |-> cells]
             stripped == Stripped(whole, character)
  <2>1. /\ x \in Alive /\ freed' = freed /\ buffers' = [buffers EXCEPT ![b] = stripped.cells]
        /\ strings' = [strings EXCEPT ![x].length = stripped.length]
    BY <1>2 DEF StripChar
  <2>2. Len(buffers) \in Nat /\ buffers \in Seq(Seq(Cell))
    BY LenProperties DEF StringsInv
  <2>3. b \in 1..Len(buffers) /\ n \in Nat /\ n < m /\ strings[x] \in [stored : 0..Len(buffers), length : Nat]
    BY <1>2, <2>1, <2>2 DEF StringsInv, IsNull
  <2>4. cells \in Seq(Cell) /\ cells = buffers[b]
    BY <2>2, <2>3, ElementOfSeq DEF Cells
  <2>5. m \in Nat /\ cells \in [1..m -> Cell]
    BY <2>4, LenProperties
  <2>6. whole \in [length : 0..(m - 1), cells : [1..m -> Cell]]
    BY <2>3, <2>5
  <2>7. stripped \in StripStates(m, whole)
    <3> HIDE DEF stripped, whole, m
    <3> QED
      BY <2>5, <2>6, StripKeeps DEF stripped
  <2>8. /\ stripped.length \in 0..(m - 1) /\ stripped.cells \in [1..m -> Cell]
        /\ (Terminated(cells) => Terminated(stripped.cells))
    <3> HIDE DEF stripped
    <3> QED
      BY <2>7 DEF StripStates
  <2> HIDE DEF stripped
  <2>9. stripped.cells \in Seq(Cell) /\ Len(stripped.cells) = m
    <3> HIDE DEF m
    <3> QED
      BY <2>5, <2>8, IsASeq, LenProperties
  <2> HIDE DEF cells, b, n, m
  <2>10. buffers' \in Seq(Seq(Cell)) /\ Len(buffers') = Len(buffers) /\ DOMAIN buffers = 1..Len(buffers)
    BY <2>1, <2>2, <2>3, <2>9, LenProperties
  <2>11. \A k \in 1..Len(buffers) : buffers'[k] = IF k = b THEN stripped.cells ELSE buffers[k]
    BY <2>1, <2>10
  <2>12. \A k \in 1..Len(buffers') : Len(buffers'[k]) > 1 => Terminated(buffers'[k])
    <3> TAKE k \in 1..Len(buffers')
    <3>1. CASE k = b
      BY <2>3, <2>4, <2>8, <2>9, <2>10, <2>11, <3>1 DEF StringsInv, m
    <3>2. CASE k # b
      BY <2>10, <2>11, <3>2 DEF StringsInv
    <3> QED
      BY <3>1, <3>2
  <2>13. /\ Alive' = Alive
         /\ \A y \in Alive : strings'[y] = IF y = x THEN [strings[x] EXCEPT !.length = stripped.length] ELSE strings[y]
    BY <2>1 DEF Alive
  <2>14. strings'[x].stored = b /\ strings'[x].length = stripped.length
         /\ strings'[x] \in [stored : 0..Len(buffers), length : Nat]
    BY <2>1, <2>3, <2>5, <2>8, <2>13 DEF b
  <2>15. strings' \in [Alive' -> [stored : 0..Len(buffers'), length : Nat]]
    <3>1. \A y \in Alive : strings'[y] \in [stored : 0..Len(buffers), length : Nat]
      BY <2>13, <2>14 DEF StringsInv
    <3>2. strings' = [y \in Alive |-> strings'[y]]
      BY <2>1 DEF StringsInv
    <3> QED
      BY <2>10, <2>13, <3>1, <3>2
  <2>16. \A y \in Alive : ~IsNull(y)' => strings'[y].length < Len(Cells(y)')
    <3> TAKE y \in Alive
    <3>1. strings'[y].stored = strings[y].stored
      BY <2>13, <2>14 DEF b
    <3> HAVE ~IsNull(y)'
    <3>2. ~IsNull(y) /\ strings[y].stored \in 1..Len(buffers) /\ strings[y].length < Len(Cells(y))
      BY <2>2, <3>1 DEF IsNull, StringsInv
    <3>3. Cells(y)' = IF strings[y].stored = b THEN stripped.cells ELSE Cells(y)
      BY <2>11, <3>1, <3>2 DEF Cells
    <3>4. Len(Cells(y)') = Len(Cells(y))
      <4>1. strings[y].stored = b => Cells(y) = cells
        BY <2>4 DEF Cells
      <4> QED
        BY <2>9, <3>3, <4>1 DEF m
    <3>5. CASE y = x
      <4>1. Len(Cells(x)) = m
        BY DEF m, cells
      <4>2. stripped.length < m
        BY <2>5, <2>8
      <4> QED
        BY <2>14, <3>4, <3>5, <4>1, <4>2
    <3>6. CASE y # x
      BY <2>13, <3>2, <3>4, <3>6
    <3> QED
      BY <3>5, <3>6
  <2> QED
    BY <2>1, <2>10, <2>12, <2>13, <2>15, <2>16 DEF StringsInv
<1> QED
  BY <1>1, <1>2

\* += on any two objects: it stays in its buffer or corrupts the memory.
LEMMA AppendInv == ASSUME StringsInv, NEW x, NEW y, AppendString(x, y) PROVE StringsInv'
<1>1. CASE Corrupts
  BY <1>1 DEF Corrupts, StringsInv, Alive, IsNull, Cells, Terminated
<1>2. CASE ~Corrupts
  <2>1. /\ Readable(x) /\ Readable(y)
        /\ ~(Len(Append(Text(Cells(x)) \o Text(Cells(y)), Nul)) > ConcatSize(x, y) + 1)
    BY <1>2 DEF AppendString
  <2>2. PICK cells : /\ Stores(x, cells, strings[x].length) /\ Storable(cells, strings[x].length)
                     /\ UNCHANGED <<freed, memory>>
    BY <2>1, AppendStores
  <2> QED
    BY <2>2, StoreInv
<1> QED
  BY <1>1, <1>2

\* Text that nobody vouched for: all of it, or one character without an end.
LEMMA UntrustedInv ==
    ASSUME StringsInv, NEW x, NEW text \in Literal, ConstructUntrusted(x, text)
    PROVE  StringsInv'
<1>1. CASE Construct(x, text)
  BY <1>1, LiteralText, ConstructExact
<1>2. CASE ~Construct(x, text)
  <2>1. Stores(x, <<text[1]>>, 0) /\ UNCHANGED <<freed, memory>> /\ ~(Len(text) < MaxArbitrary)
    BY <1>2 DEF ConstructUntrusted
  <2>2. text[1] \in Cell
    <3>1. Len(text) >= 1 /\ text \in Seq(Cell)
      BY <2>1, LiteralText, StringsAssumption
    <3> QED
      BY <3>1, LenProperties, ElementOfSeq
  <2>3. Storable(<<text[1]>>, 0)
    BY <2>2 DEF Storable
  <2> QED
    BY <2>1, <2>3, StoreInv
<1> QED
  BY <1>1, <1>2

\* An object that is gone leaves its buffer to those that share it.
LEMMA DestroyStringInv == ASSUME StringsInv, NEW x, DestroyString(x) PROVE StringsInv'
<1>1. /\ strings' = [y \in Alive \ {x} |-> strings[y]] /\ buffers' = buffers /\ freed' = freed
  BY DEF DestroyString, Released, is_const
<1>2. Alive' = Alive \ {x} /\ \A y \in Alive' : strings'[y] = strings[y]
  BY <1>1 DEF Alive
<1>3. \A y \in Alive' : strings'[y] \in [stored : 0..Len(buffers), length : Nat]
  BY <1>2 DEF StringsInv
<1>4. strings' \in [Alive' -> [stored : 0..Len(buffers'), length : Nat]]
  BY <1>1, <1>2, <1>3
<1>5. \A y \in Alive' : ~IsNull(y)' => strings'[y].length < Len(Cells(y)')
  BY <1>1, <1>2 DEF StringsInv, IsNull, Cells
<1> QED
  BY <1>1, <1>4, <1>5 DEF StringsInv

\* Sub: a part of the cells up to its first NUL, or memory of nobody.
LEMMA SubInv ==
    ASSUME StringsInv, NEW z, NEW x, NEW start \in Nat, NEW offset \in Nat, Sub(z, x, start, offset)
    PROVE  StringsInv'
<1> DEFINE length == strings[x].length
           cut == IF start + offset > length THEN length - offset ELSE offset
           part == [k \in 1..cut |-> Cells(x)[start + k]]
           ended == Append(part, Nul)
           text == Text(ended)
           Outside == \/ IsNull(x) \/ (start + offset > length /\ offset > length)
                      \/ cut >= offset \/ start + cut > Len(Cells(x))
<1>1. x \in Alive /\ (Corrupts \/ (~Outside /\ Construct(z, text)))
  BY DEF Sub
<1>2. CASE Corrupts
  BY <1>2 DEF Corrupts, StringsInv, Alive, IsNull, Cells, Terminated
<1>3. CASE ~Outside /\ Construct(z, text)
  <2>1. Len(buffers) \in Nat /\ buffers \in Seq(Seq(Cell))
    BY LenProperties DEF StringsInv
  <2>2. length \in Nat /\ ~IsNull(x) /\ strings[x].stored \in 1..Len(buffers)
    BY <1>1, <1>3, <2>1 DEF StringsInv, IsNull
  <2>3. Cells(x) \in Seq(Cell) /\ Len(Cells(x)) \in Nat
    BY <2>1, <2>2, ElementOfSeq, LenProperties DEF Cells
  <2>4. cut \in Nat /\ start + cut <= Len(Cells(x))
    <3>1. ~(start + offset > length /\ offset > length) /\ ~(start + cut > Len(Cells(x)))
      BY <1>3
    <3> HIDE DEF length
    <3>2. cut \in Nat
      BY <2>2, <3>1
    <3> HIDE DEF cut
    <3> QED
      BY <2>3, <3>1, <3>2
  <2> HIDE DEF cut, length
  <2>5. part \in Seq(Cell)
    <3>1. ASSUME NEW k \in 1..cut PROVE Cells(x)[start + k] \in Cell
      <4>1. start + k \in 1..Len(Cells(x))
        BY <2>3, <2>4
      <4> QED
        BY <2>3, <4>1, ElementOfSeq
    <3>2. part \in [1..cut -> Cell]
      BY <3>1
    <3> HIDE DEF part
    <3> QED
      BY <2>4, <3>2, IsASeq
  <2> HIDE DEF part
  <2>6. ended \in Seq(Cell) /\ Terminated(ended)
    <3>1. Nul \in Cell /\ Len(part) \in Nat
      BY <2>5, LenProperties DEF Cell
    <3>2. ended \in Seq(Cell) /\ Len(ended) = Len(part) + 1 /\ ended[Len(part) + 1] = Nul
      BY <2>5, <3>1, AppendProperties
    <3> HIDE DEF ended
    <3>3. Len(part) + 1 \in DOMAIN ended
      BY <3>1, <3>2, LenProperties
    <3> QED
      BY <3>2, <3>3 DEF Terminated
  <2> HIDE DEF ended
  <2>7. text \in Seq(Cell) /\ \A i \in 1..Len(text) : text[i] # Nul
    BY <2>6, TextOfCells DEF IsTextOf
  <2>8. Construct(z, text)
    BY <1>3
  <2> HIDE DEF text
  <2> QED
    BY <2>7, <2>8, ConstructExact
<1> QED
  BY <1>1, <1>2, <1>3

\* Format: the front of a text that fits its buffer.
LEMMA FormatInv ==
    ASSUME StringsInv, NEW z, NEW template, NEW text \in Literal, Format(z, template, text)
    PROVE  StringsInv'
<1> DEFINE n == IF Len(text) < FormatSize THEN Len(text) ELSE FormatSize - 1
           front == SubSeq(text, 1, n)
<1>1. CASE Corrupts
  BY <1>1 DEF Corrupts, StringsInv, Alive, IsNull, Cells, Terminated
<1>2. CASE Construct(z, front)
  <2>1. text \in Seq(Cell) /\ Len(text) \in Nat /\ \A i \in 1..Len(text) : text[i] # Nul
    BY LiteralText
  <2>2. n \in Nat /\ n <= Len(text)
    BY <2>1, StringsAssumption
  <2> HIDE DEF n
  <2>3. \A i \in 1..n : text[i] \in Cell /\ text[i] # Nul
    BY <2>1, <2>2, ElementOfSeq
  <2>4. front \in Seq(Cell) /\ Len(front) = n /\ \A i \in 1..n : front[i] = text[i]
    BY <2>1, <2>2, <2>3, SubSeqProperties
  <2> HIDE DEF front
  <2> QED
    BY <1>2, <2>3, <2>4, ConstructExact
<1> QED
  BY <1>1, <1>2 DEF Format

\* Every operation keeps the strings within their buffers.
LEMMA StringsNextInv == StringsInv /\ [StringsNext]_stringVars => StringsInv'
<1> SUFFICES ASSUME StringsInv, [StringsNext]_stringVars PROVE StringsInv'
  OBVIOUS
<1>1. CASE UNCHANGED stringVars
  BY <1>1 DEF stringVars, StringsInv, Alive, IsNull, Cells, Terminated
<1>2. ASSUME NEW x \in Name, ConstructNull(x) PROVE StringsInv'
  BY <1>2, NullInv
<1>3. ASSUME NEW x \in Name, NEW text \in Literal, Construct(x, text) \/ ConstructUntrusted(x, text)
      PROVE  StringsInv'
  BY <1>3, UntrustedInv, LiteralText, ConstructExact
<1>4. ASSUME NEW x \in Name, NEW y \in Name, CopyString(x, y) \/ AppendString(x, y) PROVE StringsInv'
  BY <1>4, CopyInv, AppendInv
<1>5. ASSUME NEW x \in Name, NEW y \in Name, NEW z \in Name, Concat(z, x, y) PROVE StringsInv'
  BY <1>5, ConcatInv
<1>6. ASSUME NEW x \in Name, NEW y \in Name, NEW start \in 0..MaxIndex, NEW offset \in 0..MaxIndex,
             Sub(y, x, start, offset)
      PROVE  StringsInv'
  <2>1. start \in Nat /\ offset \in Nat
    BY StringsAssumption
  <2> QED
    BY <1>6, <2>1, SubInv
<1>7. ASSUME NEW x \in Name, NEW y \in Name, NEW text \in Literal, Format(y, x, text) PROVE StringsInv'
  BY <1>7, FormatInv
<1>8. ASSUME NEW x \in Name, DestroyString(x) PROVE StringsInv'
  BY <1>8, DestroyStringInv
<1>9. ASSUME NEW x \in Name, NEW c \in Char, StripChar(x, c) PROVE StringsInv'
  BY <1>9, StripInv
<1> QED
  BY <1>1, <1>2, <1>3, <1>4, <1>5, <1>6, <1>7, <1>8, <1>9 DEF StringsNext

\* So it holds always.
LEMMA StringsInductive == StringsSpec => []StringsInv
<1>1. StringsInit => StringsInv
  BY DEF StringsInit, StringsInv, Alive
<1> QED
  BY <1>1, StringsNextInv, PTL DEF StringsSpec

\* However strings are copied, stripped and put together, each stays in its
\* buffer (String.cpp:26-171).
THEOREM StringsStayInBuffers == StringsSpec => []StoredInBuffer
<1>1. StringsInv => StoredInBuffer
  <2> SUFFICES ASSUME StringsInv, NEW x \in Alive, ~IsNull(x)
               PROVE  /\ strings[x].stored \in 1..Len(buffers) \ freed
                      /\ strings[x].length < Len(Cells(x))
                      /\ Len(Cells(x)) > 1 => Terminated(Cells(x))
    BY DEF StoredInBuffer
  <2>1. Len(buffers) \in Nat
    BY LenProperties DEF StringsInv
  <2>2. strings[x].stored \in 1..Len(buffers)
    BY <2>1 DEF StringsInv, IsNull
  <2> QED
    BY <2>2 DEF StringsInv, Cells
<1> QED
  BY <1>1, StringsInductive, PTL

\* Two strings with right lengths are put together exactly, in a new buffer
\* (String.cpp:63-79).
THEOREM ConcatenationIsExact == StringsSpec => ConcatIsExact
<1>1. ASSUME StringsInv, StringsNext, NEW x \in Alive, NEW y \in Alive, Exact(x), Exact(y)
      PROVE  /\ \A z \in Name : Concat(z, x, y) =>
                    memory' = "intact" /\ Exact(z)' /\ Text(Cells(z))' = Text(Cells(x)) \o Text(Cells(y))
             /\ AppendString(x, y) =>
                    /\ memory' = "intact" /\ Text(Cells(x))' = Text(Cells(x)) \o Text(Cells(y))
                    /\ \A z \in Alive \ {x} : strings'[z] = strings[z] /\ (~IsNull(z) => Cells(z)' = Cells(z))
  <2> DEFINE s == Text(Cells(x))  t == Text(Cells(y))  both == s \o t
  <2>1. Readable(x) /\ Readable(y) /\ ~IsNull(x) /\ ~IsNull(y) /\ memory = "intact"
        /\ strings[x].length = Len(s) /\ strings[y].length = Len(t)
    BY <1>1 DEF Exact, Readable, StringsNext
  <2>2. /\ s \in Seq(Cell) /\ t \in Seq(Cell)
        /\ \A i \in 1..Len(s) : s[i] # Nul
        /\ \A i \in 1..Len(t) : t[i] # Nul
    BY <1>1, <2>1, ReadText
  <2> HIDE DEF s, t
  <2>3. /\ both \in Seq(Cell) /\ Len(both) = Len(s) + Len(t) /\ Len(s) \in Nat /\ Len(t) \in Nat
        /\ \A i \in 1..Len(both) : both[i] # Nul
    BY <2>2, BothTexts
  <2>4. ASSUME NEW z \in Name, Concat(z, x, y)
        PROVE  memory' = "intact" /\ Exact(z)' /\ Text(Cells(z))' = both
    <3>1. ~(Len(both) + 1 > ConcatSize(x, y))
      <4> HIDE DEF both
      <4> QED
        BY <2>1, <2>3 DEF ConcatSize
    <3>2. Construct(z, both)
      BY <2>1, <2>4, <3>1 DEF Concat, s, t
    <3> HIDE DEF both
    <3> QED
      BY <1>1, <2>1, <2>3, <3>2, ConstructExact
  <2>5. ASSUME AppendString(x, y)
        PROVE  /\ memory' = "intact" /\ Text(Cells(x))' = both
               /\ \A z \in Alive \ {x} : strings'[z] = strings[z] /\ (~IsNull(z) => Cells(z)' = Cells(z))
    <3>1. ~(Len(Append(both, Nul)) > ConcatSize(x, y) + 1)
      <4> HIDE DEF both
      <4>1. Len(Append(both, Nul)) = Len(both) + 1
        BY <2>3, EndedText
      <4>2. ConcatSize(x, y) + 1 = Len(both) + 2
        BY <2>1, <2>3 DEF ConcatSize
      <4> QED
        BY <2>3, <4>1, <4>2
    <3>2. PICK cells : /\ Stores(x, cells, strings[x].length) /\ Storable(cells, strings[x].length)
                       /\ Text(cells) = both /\ UNCHANGED <<freed, memory>>
      BY <1>1, <2>1, <2>5, <3>1, AppendStores DEF s, t
    <3>3. /\ Cells(x)' = cells
          /\ \A z \in Alive \ {x} : strings'[z] = strings[z] /\ (~IsNull(z) => Cells(z)' = Cells(z))
      BY <1>1, <3>2, StoreInFront
    <3>4. Text(Cells(x))' = both
      <4>1. Text(Cells(x)') = both
        BY <3>2, <3>3
      <4> QED
        BY <4>1 DEF Text
    <3> QED
      BY <2>1, <3>2, <3>3, <3>4
  <2> QED
    BY <2>4, <2>5 DEF s, t
<1>2. StringsInv /\ [StringsNext]_stringVars =>
        [\A x, y \in Alive :
          Exact(x) /\ Exact(y) =>
              /\ \A z \in Name : Concat(z, x, y) =>
                    memory' = "intact" /\ Exact(z)'
                    /\ Text(Cells(z))' = Text(Cells(x)) \o Text(Cells(y))
              /\ AppendString(x, y) =>
                    /\ memory' = "intact" /\ Text(Cells(x))' = Text(Cells(x)) \o Text(Cells(y))
                    /\ \A z \in Alive \ {x} : strings'[z] = strings[z] /\ (~IsNull(z) => Cells(z)' = Cells(z))]_stringVars
  BY <1>1
<1> QED
  BY <1>2, StringsInductive, PTL DEF StringsSpec, ConcatIsExact

-----------------------------------------------------------------------------
(* The timer of a map                                                      *)

\* While the map is built its timer is the only one.
MapTimerInv ==
    /\ TimeInv
    /\ at \in {"outside", "level", "column", "square"}
    /\ at = "outside" => timerStack = <<>>
    /\ at # "outside" => Len(timerStack) = 1 /\ timerHandle = 1

\* Starting it at rest makes it the first, and stopping it leaves none.
LEMMA MapTimerInductive == MapSpec => []MapTimerInv
<1>1. MapInit => MapTimerInv
  BY TimeInitInv DEF MapInit, TimeInit, MapTimerInv
<1>2. MapTimerInv /\ [MapNext]_vars => MapTimerInv'
  <2> SUFFICES ASSUME MapTimerInv, [MapNext]_vars PROVE MapTimerInv'
    OBVIOUS
  <2>0. timerStack \in Seq(0..(SimMod - 1))
    BY DEF MapTimerInv, TimeInv, TimeTypeOK
  <2>1. ASSUME NEW p \in Power, Get(p) PROVE MapTimerInv'
    <3>1. CASE instance
      BY <2>1, <3>1, TimeNextInv DEF Get, mapVars, sizes, timeVars, MapTimerInv
    <3>2. CASE ~instance
      <4>1. StartTimer /\ at' = "level" /\ timerHandle' = TimerId(Len(timerStack')) /\ timerStack = <<>>
        BY <2>1, <3>2 DEF Get, MapTimerInv
      <4>2. Len(timerStack') = 1
        BY <2>0, <4>1 DEF StartTimer
      <4>3. 1 % IdMod = 1
        BY SimTimeAssumption
      <4> QED
        BY <4>1, <4>2, <4>3, TimeNextInv DEF TimeNext, TimerId, MapTimerInv
    <3> QED
      BY <3>1, <3>2
  <2>2. CASE BeginLevel \/ BeginColumn \/ AddSquare \/ EndColumn \/ EndLevel
    <3>1. UNCHANGED timeVars /\ at # "outside" /\ at' \in {"level", "column", "square"}
          /\ timerHandle' = timerHandle
      BY <2>2 DEF BeginLevel, BeginColumn, AddSquare, EndColumn, EndLevel, sizes
    <3> QED
      BY <3>1, TimeNextInv DEF timeVars, MapTimerInv
  <2>3. CASE EndBuild
    <3>1. StopTimer(timerHandle) /\ at' = "outside" /\ Len(timerStack) = 1 /\ timerHandle = 1
      BY <2>3 DEF EndBuild, MapTimerInv
    <3>2. timerStack' = <<>>
      BY <2>0, <3>1 DEF StopTimer
    <3>3. 1 \in 0..(IdMod - 1)
      BY SimTimeAssumption
    <3> QED
      BY <3>1, <3>2, <3>3, TimeNextInv DEF TimeNext, MapTimerInv
  <2>4. CASE Drop \/ UNCHANGED vars
    BY <2>4, TimeNextInv DEF Drop, vars, mapVars, sizes, timeVars, MapTimerInv
  <2>5. CASE TimePasses
    BY <2>5, TimeNextInv DEF TimePasses, TimeNext, Elapse, mapVars, sizes, MapTimerInv
  <2> QED
    BY <2>1, <2>2, <2>3, <2>4, <2>5 DEF MapNext
<1> QED
  BY <1>1, <1>2, PTL DEF MapSpec

\* When the loop begins no timer is left by the map that was built before it,
\* and the simulation time has the time of the build, for a map of any size.
THEOREM MapLeavesNoTimer == MapSpec => []BuildLeavesNoTimer
<1>1. MapTimerInv => BuildLeavesNoTimer
  BY DEF MapTimerInv, TimeInv, SimTimeIsBusyTime, BuildLeavesNoTimer
<1> QED
  BY <1>1, MapTimerInductive, PTL

-----------------------------------------------------------------------------
(* The levels of a map                                                     *)

\* The powers of two exist: each is twice the one before.
LEMMA TwoToDef ==
    /\ TwoTo \in [Nat -> Nat] /\ TwoTo[0] = 1
    /\ \A n \in Nat : TwoTo[n + 1] = 2 * TwoTo[n]
<1> DEFINE twice == [n \in Nat |-> [v \in Nat |-> 2 * v]]
           Body(f) == [n \in Nat |-> IF n = 0 THEN 1 ELSE 2 * f[n - 1]]
<1>1. twice \in [Nat -> [Nat -> Nat]]
  OBVIOUS
<1>2. PICK f \in [Nat -> Nat] : f[0] = 1 /\ \A n \in Nat : f[n + 1] = twice[n][f[n]]
  <2> DEFINE numbers == Nat  one == 1
  <2>1. one \in numbers /\ twice \in [Nat -> [numbers -> numbers]]
    BY <1>1
  <2> HIDE DEF twice, numbers, one
  <2>2. Recursion(numbers, one, twice)
    BY <2>1, NatRecursion
  <2> QED
    BY <2>2 DEF Recursion, numbers, one
<1>3. \A n \in Nat : f[n + 1] = 2 * f[n]
  BY <1>2
<1>4. \A n \in Nat : f[n] = IF n = 0 THEN 1 ELSE 2 * f[n - 1]
  <2> TAKE n \in Nat
  <2>1. CASE n = 0
    BY <1>2, <2>1
  <2>2. CASE n # 0
    <3>1. n - 1 \in Nat /\ (n - 1) + 1 = n
      BY <2>2
    <3> QED
      BY <1>3, <2>2, <3>1
  <2> QED
    BY <2>1, <2>2
<1>5. f = Body(f)
  BY <1>2, <1>4
<1>6. TwoTo = CHOOSE h : h = Body(h)
  BY DEF TwoTo
<1>7. TwoTo = Body(TwoTo)
  <2> HIDE DEF Body
  <2> QED
    BY <1>5, <1>6
<1>8. \A n \in Nat : TwoTo[n] = IF n = 0 THEN 1 ELSE 2 * TwoTo[n - 1]
  BY <1>7
<1>9. \A n \in Nat : TwoTo[n + 1] = 2 * TwoTo[n]
  <2> TAKE n \in Nat
  <2>1. n + 1 \in Nat /\ n + 1 # 0 /\ (n + 1) - 1 = n
    OBVIOUS
  <2> QED
    BY <1>8, <2>1
<1>10. TwoTo[0] = 1
  BY <1>8
<1>11. \A n \in Nat : TwoTo[n] \in Nat
  <2> DEFINE T == {n \in Nat : TwoTo[n] \in Nat}
  <2>1. 0 \in T
    BY <1>10
  <2>2. ASSUME NEW n \in Nat, n \in T PROVE n + 1 \in T
    BY <1>9, <2>2
  <2> HIDE DEF T
  <2>3. Nat \subseteq T
    BY <2>1, <2>2, SetInduction
  <2> QED
    BY <2>3 DEF T
<1>12. DOMAIN TwoTo = Nat /\ TwoTo = [n \in Nat |-> TwoTo[n]]
  BY <1>7
<1> QED
  BY <1>9, <1>10, <1>11, <1>12

\* A power of two is at least one, and more than one unless it is the first.
LEMMA TwoToPositive == \A n \in Nat : TwoTo[n] \in Nat /\ TwoTo[n] >= 1 /\ (n # 0 => TwoTo[n] > 1)
<1> DEFINE T == {n \in Nat : TwoTo[n] \in Nat /\ TwoTo[n] >= 1}
<1>1. 0 \in T
  BY TwoToDef
<1>2. ASSUME NEW n \in Nat, n \in T PROVE n + 1 \in T
  BY <1>2, TwoToDef
<1>3. Nat \subseteq T
  <2> HIDE DEF T
  <2> QED
    BY <1>1, <1>2, SetInduction
<1>4. ASSUME NEW n \in Nat, n # 0 PROVE TwoTo[n] > 1
  <2>1. n - 1 \in Nat /\ (n - 1) + 1 = n
    BY <1>4
  <2>2. TwoTo[n] = 2 * TwoTo[n - 1] /\ TwoTo[n - 1] \in Nat /\ TwoTo[n - 1] >= 1
    BY <1>3, <2>1, TwoToDef
  <2> QED
    BY <2>2
<1> QED
  BY <1>3, <1>4

\* The power of a sum is the product of the powers.
LEMMA TwoToSum == \A a, b \in Nat : TwoTo[a + b] = TwoTo[a] * TwoTo[b]
<1> SUFFICES ASSUME NEW a \in Nat PROVE \A b \in Nat : TwoTo[a + b] = TwoTo[a] * TwoTo[b]
  OBVIOUS
<1> DEFINE T == {b \in Nat : TwoTo[a + b] = TwoTo[a] * TwoTo[b]}
<1>1. 0 \in T
  BY TwoToDef
<1>2. ASSUME NEW b \in Nat, b \in T PROVE b + 1 \in T
  <2>1. TwoTo[a + (b + 1)] = 2 * TwoTo[a + b]
    <3>1. a + (b + 1) = (a + b) + 1 /\ a + b \in Nat
      OBVIOUS
    <3> QED
      BY <3>1, TwoToDef
  <2>2. TwoTo[b + 1] = 2 * TwoTo[b]
    BY TwoToDef
  <2>3. TwoTo[a] \in Nat /\ TwoTo[b] \in Nat
    BY TwoToDef
  <2>4. \A u, v \in Nat : 2 * (u * v) = u * (2 * v)
    OBVIOUS
  <2>5. TwoTo[a + (b + 1)] = TwoTo[a] * TwoTo[b + 1]
    BY <1>2, <2>1, <2>2, <2>3, <2>4
  <2> QED
    BY <2>5
<1>3. Nat \subseteq T
  <2> HIDE DEF T
  <2> QED
    BY <1>1, <1>2, SetInduction
<1> QED
  BY <1>3

\* A multiple is divided without a remainder.
LEMMA ProductDivides ==
    ASSUME NEW u \in Nat, NEW v \in Nat, v >= 1
    PROVE  (u * v) \div v = u /\ (u * v) % v = 0
<1>1. u * v \in Nat
  OBVIOUS
<1> DEFINE q == (u * v) \div v  r == (u * v) % v
<1>2. q \in Int /\ r \in 0..(v - 1) /\ u * v = v * q + r
  BY <1>1
<1> HIDE DEF q, r
<1>3. (u - q) * v = r
  BY <1>2
<1>4. u - q = 0
  <2>1. CASE u - q >= 1
    <3>1. (u - q) * v >= v
      BY <1>2, <2>1
    <3> QED
      BY <1>2, <1>3, <3>1
  <2>2. CASE u - q <= -1
    <3>1. (u - q) * v <= -v
      BY <1>2, <2>2
    <3> QED
      BY <1>2, <1>3, <3>1
  <2> QED
    BY <1>2, <2>1, <2>2
<1>5. q = u
  BY <1>2, <1>4
<1>6. r = 0
  BY <1>2, <1>5
<1> QED
  BY <1>5, <1>6 DEF q, r

\* A resolution above the range of the U32s is cut to zero, one within it is kept.
LEMMA CutResolution ==
    ASSUME NEW p \in Nat
    PROVE  /\ p < SizeBits => TwoTo[p] < MaxSize /\ TwoTo[p] % MaxSize = TwoTo[p]
           /\ p >= SizeBits => TwoTo[p] >= MaxSize /\ TwoTo[p] % MaxSize = 0
<1>1. TwoTo[p] \in Nat /\ MaxSize \in Nat /\ MaxSize >= 1 /\ TwoTo[p] >= 1 /\ SizeBits \in Nat
  BY TwoToPositive, MapDivisionAssumption DEF MaxSize
<1>2. CASE p < SizeBits
  <2>1. SizeBits - p \in Nat /\ SizeBits - p # 0 /\ p + (SizeBits - p) = SizeBits
    BY <1>1, <1>2
  <2>2. MaxSize = TwoTo[p] * TwoTo[SizeBits - p]
    BY <2>1, TwoToSum DEF MaxSize
  <2>3. TwoTo[SizeBits - p] \in Nat /\ TwoTo[SizeBits - p] >= 2
    BY <2>1, TwoToPositive
  <2>4. \A u, v \in Nat : u >= 1 /\ v >= 2 => u < u * v
    OBVIOUS
  <2>5. TwoTo[p] < MaxSize
    BY <1>1, <2>2, <2>3, <2>4
  <2>6. TwoTo[p] % MaxSize = TwoTo[p]
    BY <1>1, <2>5
  <2> QED
    BY <1>1, <1>2, <2>5, <2>6
<1>3. CASE p >= SizeBits
  <2>1. p - SizeBits \in Nat /\ (p - SizeBits) + SizeBits = p
    BY <1>1, <1>3
  <2>2. TwoTo[p] = TwoTo[p - SizeBits] * MaxSize
    BY <1>1, <2>1, TwoToSum DEF MaxSize
  <2>3. TwoTo[p - SizeBits] \in Nat /\ TwoTo[p - SizeBits] >= 1
    BY <2>1, TwoToPositive
  <2>4. \A u, v \in Nat : u >= 1 => u * v >= v
    OBVIOUS
  <2>5. TwoTo[p] >= MaxSize
    BY <1>1, <2>2, <2>3, <2>4
  <2>6. TwoTo[p] % MaxSize = 0
    BY <1>1, <2>2, <2>3, ProductDivides
  <2> QED
    BY <1>1, <1>3, <2>5, <2>6
<1> QED
  BY <1>1, <1>2, <1>3

\* Halving the resolution doubles the divisions.
LEMMA HalvedResolution ==
    ASSUME NEW p \in Nat, NEW k \in Nat, k <= p
    PROVE  /\ TwoTo[p] \div TwoTo[p - k] = TwoTo[k]
           /\ k < p => TwoTo[p - k] > 1 /\ TwoTo[p - k] \div 2 = TwoTo[p - (k + 1)]
           /\ k = p => TwoTo[p - k] = 1
<1>1. p - k \in Nat /\ k + (p - k) = p
  OBVIOUS
<1>2. TwoTo[p] = TwoTo[k] * TwoTo[p - k]
  BY <1>1, TwoToSum
<1>3. TwoTo[p] \div TwoTo[p - k] = TwoTo[k]
  BY <1>1, <1>2, TwoToPositive, ProductDivides
<1>4. ASSUME k < p PROVE TwoTo[p - k] > 1 /\ TwoTo[p - k] \div 2 = TwoTo[p - (k + 1)]
  <2>1. p - (k + 1) \in Nat /\ (p - (k + 1)) + 1 = p - k /\ p - k # 0
    BY <1>4
  <2>2. TwoTo[p - k] = 2 * TwoTo[p - (k + 1)] /\ TwoTo[p - (k + 1)] \in Nat
    BY <2>1, TwoToDef
  <2>3. \A v \in Nat : (2 * v) \div 2 = v
    OBVIOUS
  <2> QED
    BY <1>1, <2>1, <2>2, <2>3, TwoToPositive
<1>5. ASSUME k = p PROVE TwoTo[p - k] = 1
  BY <1>5, TwoToDef
<1> QED
  BY <1>3, <1>4, <1>5

\* The columns of a level, each with the number of its squares.
Row == Seq(Nat)

\* Levels 1 to i of the map have the columns of their divisions and one more.
LevelsAreBuilt ==
    /\ mLODs \in Seq(Row) /\ Len(mLODs) <= power
    /\ \A i \in 1..Len(mLODs) : Len(mLODs[i]) = TwoTo[i - 1] + 1

\* What is built so far of a map within the range of the U32s: as many levels as
\* the resolution was halved, and in the level as many columns as were begun.
SmallMapInv ==
    /\ LevelsAreBuilt
    /\ instance => Len(mLODs) = power
    /\ at # "outside" => currentResolution = TwoTo[power - Len(mLODs)]
    /\ at \in {"column", "square"} =>
          /\ Len(mLODs) < power
          /\ currentLOD \in Row /\ iterationX \in 0..TwoTo[Len(mLODs)]
          /\ at = "column" => Len(currentLOD) = iterationX
          /\ at = "square" => Len(currentLOD) = iterationX + 1 /\ iterationX < TwoTo[Len(mLODs)]

\* A larger one is left without a level.
LargeMapInv ==
    /\ mLODs = <<>>
    /\ at # "outside" => at = "level" /\ currentResolution = 0

\* The map, while it is built and afterwards.
GridInv ==
    /\ at \in {"outside", "level", "column", "square"}
    /\ instance => at = "outside"
    /\ instance \/ at # "outside" =>
          /\ power \in Nat /\ mResolution = TwoTo[power]
          /\ power < SizeBits => SmallMapInv
          /\ power >= SizeBits => LargeMapInv

\* Each step of the constructor keeps what is built in shape.
LEMMA GridNextInv == GridInv /\ [MapNext]_vars => GridInv'
<1> SUFFICES ASSUME GridInv, [MapNext]_vars PROVE GridInv'
  OBVIOUS
<1>1. ASSUME NEW p \in Power, Get(p) PROVE GridInv'
  <2>1. CASE instance
    BY <1>1, <2>1 DEF Get, mapVars, sizes, GridInv, SmallMapInv, LargeMapInv, LevelsAreBuilt
  <2>2. CASE ~instance
    <3>1. /\ power' = p /\ p \in Nat /\ mResolution' = TwoTo[p] /\ currentResolution' = TwoTo[p] % MaxSize
          /\ mLODs' = <<>> /\ at' = "level" /\ instance' = FALSE
      BY <1>1, <2>2, MapDivisionAssumption DEF Get
    <3>2. ASSUME p < SizeBits PROVE SmallMapInv'
      <4>1. currentResolution' = TwoTo[p]
        BY <3>1, <3>2, CutResolution
      <4>2. mLODs' \in Seq(Row) /\ Len(mLODs') = 0 /\ 0 <= p /\ p - 0 = p
        BY <3>1
      <4> QED
        BY <3>1, <4>1, <4>2 DEF SmallMapInv, LevelsAreBuilt
    <3>3. ASSUME p >= SizeBits PROVE LargeMapInv'
      BY <3>1, <3>3, CutResolution DEF LargeMapInv
    <3> QED
      BY <3>1, <3>2, <3>3 DEF GridInv
  <2> QED
    BY <2>1, <2>2
<1>2. ASSUME at # "outside", UNCHANGED <<power, mResolution, instance>>, at' \in {"outside", "level", "column", "square"},
             power < SizeBits /\ SmallMapInv => SmallMapInv', power >= SizeBits /\ LargeMapInv => LargeMapInv',
             instance => at' = "outside"
      PROVE  GridInv'
  BY <1>2 DEF GridInv
<1>3. CASE BeginLevel
  <2>1. /\ at = "level" /\ HasLevel /\ currentLOD' = <<>> /\ iterationX' = 0 /\ at' = "column"
        /\ UNCHANGED <<power, mResolution, instance, currentResolution, mLODs>>
    BY <1>3 DEF BeginLevel, sizes
  <2>2. ASSUME power < SizeBits, SmallMapInv PROVE SmallMapInv'
    <3>1. power \in Nat /\ Len(mLODs) \in Nat /\ Len(mLODs) <= power /\ LevelsAreBuilt
      BY <2>1, <2>2 DEF GridInv, SmallMapInv, LevelsAreBuilt
    <3>2. Len(mLODs) # power
      <4>1. currentResolution > 1 /\ currentResolution = TwoTo[power - Len(mLODs)]
        BY <2>1, <2>2 DEF SmallMapInv, HasLevel
      <4>2. power - power = 0 /\ TwoTo[0] = 1
        BY <3>1, TwoToDef
      <4> QED
        BY <3>1, <4>1, <4>2
    <3>3. Len(mLODs) < power
      BY <3>1, <3>2
    <3>4. currentLOD' \in Row /\ iterationX' \in 0..TwoTo[Len(mLODs)] /\ Len(currentLOD') = iterationX'
      BY <2>1, <3>1, TwoToPositive DEF Row
    <3>5. LevelsAreBuilt'
      BY <2>1, <3>1 DEF LevelsAreBuilt
    <3> QED
      BY <2>1, <2>2, <3>3, <3>4, <3>5 DEF SmallMapInv, GridInv
  <2>3. ~(power >= SizeBits /\ LargeMapInv)
    BY <2>1 DEF LargeMapInv, HasLevel
  <2> QED
    BY <1>2, <2>1, <2>2, <2>3 DEF GridInv
<1>4. ASSUME at \in {"column", "square"} PROVE power < SizeBits /\ SmallMapInv /\ power \in Nat /\ ~instance
  BY <1>4, MapDivisionAssumption DEF GridInv, LargeMapInv
<1>5. ASSUME at \in {"column", "square"}
      PROVE  /\ currentLODDivision = TwoTo[Len(mLODs)] /\ TwoTo[Len(mLODs)] \in Nat /\ TwoTo[Len(mLODs)] >= 1
             /\ Len(mLODs) \in Nat /\ Len(mLODs) < power /\ LevelsAreBuilt
             /\ currentLOD \in Row /\ iterationX \in Nat /\ iterationX <= TwoTo[Len(mLODs)]
  <2>1. Len(mLODs) \in Nat /\ Len(mLODs) < power /\ LevelsAreBuilt /\ currentResolution = TwoTo[power - Len(mLODs)]
    BY <1>4, <1>5 DEF SmallMapInv, LevelsAreBuilt
  <2>2. currentLODDivision = TwoTo[Len(mLODs)]
    BY <1>4, <1>5, <2>1, HalvedResolution DEF currentLODDivision, GridInv
  <2>3. TwoTo[Len(mLODs)] \in Nat /\ TwoTo[Len(mLODs)] >= 1
    BY <2>1, TwoToPositive
  <2> QED
    BY <1>4, <1>5, <2>1, <2>2, <2>3 DEF SmallMapInv
<1>6. CASE BeginColumn
  <2>1. /\ at = "column" /\ iterationX < currentLODDivision /\ currentLOD' = Append(currentLOD, 0) /\ at' = "square"
        /\ UNCHANGED <<power, mResolution, instance, currentResolution, mLODs, iterationX>>
    BY <1>6 DEF BeginColumn, sizes
  <2>2. Len(currentLOD) = iterationX
    BY <1>4, <2>1 DEF SmallMapInv
  <2>3. currentLOD' \in Row /\ Len(currentLOD') = iterationX + 1
    BY <1>5, <2>1, <2>2, AppendProperties DEF Row
  <2>4. LevelsAreBuilt'
    BY <1>5, <2>1 DEF LevelsAreBuilt
  <2>5. SmallMapInv'
    BY <1>4, <1>5, <2>1, <2>3, <2>4 DEF SmallMapInv
  <2> QED
    BY <1>2, <1>4, <2>1, <2>5, MapDivisionAssumption
<1>7. CASE AddSquare
  <2>1. /\ at = "square" /\ at' = at
        /\ UNCHANGED <<power, mResolution, instance, currentResolution, mLODs, currentLOD, iterationX>>
    BY <1>7 DEF AddSquare, sizes
  <2> QED
    BY <2>1 DEF GridInv, SmallMapInv, LargeMapInv, LevelsAreBuilt
<1>8. CASE EndColumn
  <2>1. /\ at = "square" /\ at' = "column" /\ iterationX' = iterationX + 1
        /\ UNCHANGED <<power, mResolution, instance, currentResolution, mLODs, currentLOD>>
    BY <1>8 DEF EndColumn, sizes
  <2>2. Len(currentLOD) = iterationX + 1 /\ iterationX < TwoTo[Len(mLODs)]
    BY <1>4, <2>1 DEF SmallMapInv
  <2>3. iterationX' \in 0..TwoTo[Len(mLODs)]
    BY <1>5, <2>1, <2>2
  <2>4. LevelsAreBuilt'
    BY <1>5, <2>1 DEF LevelsAreBuilt
  <2>5. SmallMapInv'
    BY <1>4, <1>5, <2>1, <2>2, <2>3, <2>4 DEF SmallMapInv
  <2> QED
    BY <1>2, <1>4, <2>1, <2>5, MapDivisionAssumption
<1>9. CASE EndLevel
  <2> DEFINE last == currentLOD[Len(currentLOD)]
             row == Append(currentLOD, last)
  <2>1. /\ at = "column" /\ iterationX >= currentLODDivision /\ at' = "level"
        /\ mLODs' = Append(mLODs, row) /\ currentResolution' = currentResolution \div 2
        /\ UNCHANGED <<power, mResolution, instance>>
    BY <1>9 DEF EndLevel, sizes
  <2>2. Len(currentLOD) = TwoTo[Len(mLODs)] /\ currentLOD \in Seq(Nat)
    BY <1>4, <1>5, <2>1 DEF SmallMapInv, Row
  <2>3. last \in Nat
    BY <1>5, <2>1, <2>2
  <2> HIDE DEF last
  <2>4. row \in Row /\ Len(row) = TwoTo[Len(mLODs)] + 1
    BY <2>2, <2>3, AppendProperties DEF Row
  <2> HIDE DEF row
  <2>5. /\ mLODs \in Seq(Row) /\ mLODs' \in Seq(Row) /\ Len(mLODs') = Len(mLODs) + 1
        /\ mLODs'[Len(mLODs) + 1] = row /\ \A i \in 1..Len(mLODs) : mLODs'[i] = mLODs[i]
    BY <1>5, <2>1, <2>4, AppendProperties DEF LevelsAreBuilt
  <2>6. ASSUME NEW i \in 1..Len(mLODs') PROVE Len(mLODs'[i]) = TwoTo[i - 1] + 1
    <3>1. CASE i \in 1..Len(mLODs)
      BY <1>5, <2>1, <2>5, <3>1 DEF LevelsAreBuilt
    <3>2. CASE i = Len(mLODs) + 1
      <4>1. i - 1 = Len(mLODs)
        BY <1>5, <2>1, <3>2
      <4> QED
        BY <2>4, <2>5, <3>2, <4>1
    <3>3. i \in 1..Len(mLODs) \/ i = Len(mLODs) + 1
      BY <1>5, <2>1, <2>5
    <3> QED
      BY <3>1, <3>2, <3>3
  <2>7. LevelsAreBuilt'
    <3>1. Len(mLODs') <= power
      BY <1>4, <1>5, <2>1, <2>5
    <3> QED
      BY <2>1, <2>5, <2>6, <3>1 DEF LevelsAreBuilt
  <2>8. currentResolution' = TwoTo[power' - Len(mLODs')]
    <3>1. currentResolution = TwoTo[power - Len(mLODs)]
      BY <1>4, <2>1 DEF SmallMapInv
    <3>2. TwoTo[power - Len(mLODs)] \div 2 = TwoTo[power - (Len(mLODs) + 1)]
      <4> DEFINE k == Len(mLODs)
      <4>1. k \in Nat /\ power \in Nat /\ k < power
        BY <1>4, <1>5, <2>1
      <4> HIDE DEF k
      <4>2. k <= power
        BY <4>1
      <4>3. TwoTo[power - k] \div 2 = TwoTo[power - (k + 1)]
        BY <4>1, <4>2, HalvedResolution
      <4> QED
        BY <4>3 DEF k
    <3> QED
      BY <2>1, <2>5, <3>1, <3>2
  <2>9. SmallMapInv'
    BY <1>4, <2>1, <2>7, <2>8 DEF SmallMapInv
  <2> QED
    BY <1>2, <1>4, <2>1, <2>9, MapDivisionAssumption
<1>10. CASE EndBuild
  <2>1. /\ at = "level" /\ ~HasLevel /\ instance' = TRUE /\ at' = "outside"
        /\ UNCHANGED <<power, mResolution, currentResolution, mLODs>>
    BY <1>10 DEF EndBuild
  <2>2. power \in Nat /\ mResolution = TwoTo[power]
    BY <2>1 DEF GridInv
  <2>3. ASSUME power < SizeBits PROVE SmallMapInv'
    <3>1. SmallMapInv /\ LevelsAreBuilt /\ Len(mLODs) \in Nat /\ Len(mLODs) <= power
          /\ currentResolution = TwoTo[power - Len(mLODs)]
      BY <2>1, <2>3 DEF GridInv, SmallMapInv, LevelsAreBuilt
    <3>2. ~(currentResolution > 1)
      BY <2>1 DEF HasLevel
    <3>3. ~(Len(mLODs) < power)
      BY <2>2, <3>1, <3>2, HalvedResolution
    <3>4. Len(mLODs) = power
      BY <2>2, <3>1, <3>3
    <3>5. LevelsAreBuilt'
      BY <2>1, <3>1 DEF LevelsAreBuilt
    <3> QED
      BY <2>1, <3>4, <3>5 DEF SmallMapInv
  <2>4. ASSUME power >= SizeBits PROVE LargeMapInv'
    BY <2>1, <2>4 DEF GridInv, LargeMapInv
  <2> QED
    BY <2>1, <2>2, <2>3, <2>4 DEF GridInv
<1>11. CASE Drop
  <2>1. instance' = FALSE /\ at' = "outside"
    BY <1>11 DEF Drop
  <2> QED
    BY <2>1 DEF GridInv
<1>12. CASE TimePasses \/ UNCHANGED vars
  BY <1>12 DEF TimePasses, vars, mapVars, sizes, GridInv, SmallMapInv, LargeMapInv, LevelsAreBuilt
<1> QED
  BY <1>1, <1>3, <1>6, <1>7, <1>8, <1>9, <1>10, <1>11, <1>12 DEF MapNext

\* A map of any power has its levels, and each level its columns
\* (MapDivision.cpp:51-79).
THEOREM MapHasItsShape == MapSpec => []GridShape
<1>1. MapInit => GridInv
  BY DEF MapInit, GridInv
<1>2. GridInv => GridShape
  <2> SUFFICES ASSUME GridInv, instance PROVE GridShape
    BY DEF GridShape
  <2>1. power \in Nat /\ mResolution = TwoTo[power] /\ SizeBits \in Nat
    BY MapDivisionAssumption DEF GridInv
  <2>2. CASE power < SizeBits
    <3>1. mResolution < MaxSize
      BY <2>1, <2>2, CutResolution
    <3>2. Len(mLODs) = power /\ \A i \in 1..Len(mLODs) : Len(mLODs[i]) = TwoTo[i - 1] + 1
      BY <2>2 DEF GridInv, SmallMapInv, LevelsAreBuilt
    <3> QED
      BY <3>1, <3>2 DEF GridShape
  <2>3. CASE power >= SizeBits
    <3>1. ~(mResolution < MaxSize)
      <4>1. TwoTo[power] \in Nat /\ MaxSize \in Nat
        BY <2>1, TwoToPositive DEF MaxSize
      <4> QED
        BY <2>1, <2>3, <4>1, CutResolution
    <3>2. mLODs = <<>>
      BY <2>3 DEF GridInv, LargeMapInv
    <3> QED
      BY <3>1, <3>2 DEF GridShape
  <2> QED
    BY <2>1, <2>2, <2>3
<1> QED
  BY <1>1, <1>2, GridNextInv, PTL DEF MapSpec
=============================================================================
