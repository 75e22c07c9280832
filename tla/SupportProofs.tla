---------------------------- MODULE SupportProofs ----------------------------
(* Machine-checked facts about Delegates, EventManager and Logging, for any  *)
(* functions, objects, hooks and events, and any number of delegates and     *)
(* cells of an array.                                                        *)
EXTENDS Delegates, EventManager, Logging, SequenceTheorems, FiniteSetTheorems, TLAPS

-----------------------------------------------------------------------------
(* Sets of delegates                                                       *)

\* What erase of the vector leaves is a sequence over the same set, shorter by
\* what was asked for, and what followed has moved up.
LEMMA ErasedIsShorter ==
    ASSUME NEW T, NEW s \in Seq(T), NEW i \in Nat \ {0}, NEW n \in Nat, i + n <= Len(s) + 1
    PROVE  /\ Erased(s, i, n) \in Seq(T)
           /\ Len(Erased(s, i, n)) = Len(s) - n
           /\ \A k \in 1..(Len(s) - n) : Erased(s, i, n)[k] = IF k < i THEN s[k] ELSE s[k + n]
<1> DEFINE m == Len(s) - n
           erased == [k \in 1..m |-> IF k < i THEN s[k] ELSE s[k + n]]
<1>1. Len(s) \in Nat /\ m \in Nat
  BY LenProperties
<1>2. \A k \in 1..m : (IF k < i THEN s[k] ELSE s[k + n]) \in T
  <2>1. SUFFICES ASSUME NEW k \in 1..m PROVE (IF k < i THEN s[k] ELSE s[k + n]) \in T
    OBVIOUS
  <2>2. k \in 1..Len(s) /\ k + n \in 1..Len(s)
    BY <1>1
  <2> QED
    BY <2>2, ElementOfSeq
<1>3. erased \in [1..m -> T]
  BY <1>2
<1>4. erased \in Seq(T) /\ Len(erased) = m
  <2> HIDE DEF erased
  <2> QED
    BY <1>1, <1>3, SeqDef
<1> QED
  BY <1>4 DEF Erased

\* What an insertion makes is a sequence with the new element in its place.
LEMMA InsertedIsLonger ==
    ASSUME NEW T, NEW s \in Seq(T), NEW i \in 1..Len(s), NEW e \in T
    PROVE  /\ Inserted(s, i, e) \in Seq(T)
           /\ Len(Inserted(s, i, e)) = Len(s) + 1
           /\ \A k \in 1..(Len(s) + 1) :
                 Inserted(s, i, e)[k] = IF k < i THEN s[k] ELSE IF k = i THEN e ELSE s[k - 1]
<1> DEFINE m == Len(s) + 1
           inserted == [k \in 1..m |-> IF k < i THEN s[k] ELSE IF k = i THEN e ELSE s[k - 1]]
<1>1. Len(s) \in Nat /\ m \in Nat
  BY LenProperties
<1>2. \A k \in 1..m : (IF k < i THEN s[k] ELSE IF k = i THEN e ELSE s[k - 1]) \in T
  <2>1. SUFFICES ASSUME NEW k \in 1..m
                 PROVE  (IF k < i THEN s[k] ELSE IF k = i THEN e ELSE s[k - 1]) \in T
    OBVIOUS
  <2>2. /\ k < i => k \in 1..Len(s)
        /\ ~(k < i) /\ k # i => k - 1 \in 1..Len(s)
    BY <1>1
  <2> QED
    BY <2>2, ElementOfSeq
<1>3. inserted \in [1..m -> T]
  BY <1>2
<1>4. inserted \in Seq(T) /\ Len(inserted) = m
  <2> HIDE DEF inserted
  <2> QED
    BY <1>1, <1>3, SeqDef
<1> QED
  BY <1>4 DEF Inserted

\* The conjuncts of OneOwner about a vector, for any vector and sets.
Owned(v, others) ==
    /\ \A i, j \in 1..Len(v) : v[i] = v[j] => i = j
    /\ \A i \in 1..Len(v) : v[i] \notin others

\* Erasing elements leaves a vector that owns what is left, once each; when
\* one element goes, it is not among what is left.
LEMMA ErasedIsOwned ==
    ASSUME NEW T, NEW s \in Seq(T), NEW i \in Nat \ {0}, NEW n \in Nat, i + n <= Len(s) + 1,
           NEW others, Owned(s, others)
    PROVE  /\ Owned(Erased(s, i, n), others)
           /\ n = 1 => Owned(Erased(s, i, n), others \cup {s[i]})
<1> DEFINE from(k) == IF k < i THEN k ELSE k + n
<1>1. Len(s) \in Nat
  BY LenProperties
<1>2. Len(Erased(s, i, n)) = Len(s) - n
      /\ \A k \in 1..(Len(s) - n) : Erased(s, i, n)[k] = s[from(k)]
  BY ErasedIsShorter
<1>3. \A k \in 1..(Len(s) - n) : from(k) \in 1..Len(s) /\ (n = 1 => from(k) # i)
  BY <1>1
<1>4. \A k, l \in 1..(Len(s) - n) : from(k) = from(l) => k = l
  BY <1>1
<1>5. n = 1 => i \in 1..Len(s)
  BY <1>1
<1> DEFINE left == Erased(s, i, n)
<1> HIDE DEF from, left
<1>6. 1..Len(left) = 1..(Len(s) - n)
  BY <1>2 DEF left
<1>7. \A k \in 1..Len(left) : left[k] = s[from(k)]
  BY <1>2, <1>6 DEF left
<1>8. Owned(left, others)
  <2>1. ASSUME NEW k \in 1..Len(left), NEW l \in 1..Len(left), left[k] = left[l] PROVE k = l
    <3>1. from(k) = from(l)
      BY <1>3, <1>6, <1>7, <2>1 DEF Owned
    <3> QED
      BY <1>4, <1>6, <3>1
  <2>2. ASSUME NEW k \in 1..Len(left) PROVE left[k] \notin others
    BY <1>3, <1>6, <1>7 DEF Owned
  <2> QED
    BY <2>1, <2>2 DEF Owned
<1>9. ASSUME n = 1, NEW k \in 1..Len(left) PROVE left[k] # s[i]
  <2>1. from(k) \in 1..Len(s) /\ from(k) # i /\ i \in 1..Len(s)
    BY <1>3, <1>5, <1>6, <1>9
  <2> QED
    BY <1>7, <2>1 DEF Owned
<1> QED
  BY <1>8, <1>9 DEF Owned, left

\* A vector w is v with e at place p.
Placed(v, w, p, e) ==
    /\ p \in 1..(Len(v) + 1) /\ Len(w) = Len(v) + 1
    /\ \A k \in 1..Len(w) :
          (k < p => w[k] = v[k]) /\ (k = p => w[k] = e) /\ (k > p => w[k] = v[k - 1])

\* With an element that it did not have, a vector still owns each one once.
LEMMA PlacedIsOwned ==
    ASSUME NEW v, NEW w, NEW p, NEW e, NEW others, Len(v) \in Nat, Placed(v, w, p, e),
           Owned(v, others), e \notin others, \A k \in 1..Len(v) : v[k] # e
    PROVE  Owned(w, others)
<1>1. p \in 1..(Len(v) + 1) /\ Len(w) = Len(v) + 1 /\ 1..Len(w) \subseteq Nat
  BY DEF Placed
<1>2. ASSUME NEW k \in 1..Len(w)
      PROVE  \/ k = p /\ w[k] = e
             \/ k < p /\ k \in 1..Len(v) /\ w[k] = v[k]
             \/ k > p /\ k - 1 \in 1..Len(v) /\ w[k] = v[k - 1]
  <2>1. k \in Nat /\ p \in Nat /\ 1 <= k /\ k <= Len(v) + 1 /\ 1 <= p /\ p <= Len(v) + 1
    BY <1>1
  <2>2. (k < p => k \in 1..Len(v)) /\ (k > p => k - 1 \in 1..Len(v))
    BY <2>1
  <2>3. k = p \/ k < p \/ k > p
    BY <2>1
  <2>4. (k < p => w[k] = v[k]) /\ (k = p => w[k] = e) /\ (k > p => w[k] = v[k - 1])
    BY DEF Placed
  <2> QED
    BY <2>2, <2>3, <2>4
<1>3. ASSUME NEW k \in 1..Len(w), NEW l \in 1..Len(w), w[k] = w[l] PROVE k = l
  <2>1. \A i, j \in 1..Len(v) : v[i] = v[j] => i = j
    BY DEF Owned
  <2>2. k \in Nat /\ l \in Nat /\ p \in Nat
    BY <1>1
  <2>3. CASE k = p
    <3>1. w[k] = e
      BY <2>3 DEF Placed
    <3> QED
      BY <1>2, <1>3, <2>3, <3>1
  <2>4. CASE l = p
    <3>1. w[l] = e
      BY <2>4 DEF Placed
    <3> QED
      BY <1>2, <1>3, <2>4, <3>1
  <2>5. CASE k # p /\ l # p
    <3> DEFINE from(m) == IF m < p THEN m ELSE m - 1
    <3>1. from(k) \in 1..Len(v) /\ w[k] = v[from(k)]
      BY <1>2, <2>2, <2>5
    <3>2. from(l) \in 1..Len(v) /\ w[l] = v[from(l)]
      BY <1>2, <2>2, <2>5
    <3>3. from(k) = from(l)
      <4> HIDE DEF from
      <4> QED
        BY <1>3, <2>1, <3>1, <3>2
    <3> QED
      BY <2>2, <2>5, <3>3
  <2> QED
    BY <2>3, <2>4, <2>5
<1>4. ASSUME NEW k \in 1..Len(w) PROVE w[k] \notin others
  BY <1>2 DEF Owned
<1> QED
  BY <1>3, <1>4 DEF Owned

\* The two ways of adding put the element at a place.
LEMMA AddedIsPlaced ==
    ASSUME NEW T, NEW v \in Seq(T), NEW e \in T
    PROVE  /\ Append(v, e) \in Seq(T) /\ Placed(v, Append(v, e), Len(v) + 1, e)
           /\ \A i \in 1..Len(v) :
                 Inserted(v, i, e) \in Seq(T) /\ Placed(v, Inserted(v, i, e), i, e)
<1>1. Len(v) \in Nat
  BY LenProperties
<1>2. Append(v, e) \in Seq(T) /\ Placed(v, Append(v, e), Len(v) + 1, e)
  <2> DEFINE w == Append(v, e)
  <2>1. /\ w \in Seq(T) /\ Len(w) = Len(v) + 1
        /\ \A k \in 1..Len(v) : w[k] = v[k]
        /\ w[Len(v) + 1] = e
    BY AppendProperties
  <2> HIDE DEF w
  <2>2. \A k \in 1..Len(w) : (k < Len(v) + 1 => k \in 1..Len(v)) /\ ~(k > Len(v) + 1)
    BY <1>1, <2>1
  <2>3. Len(v) + 1 \in 1..(Len(v) + 1)
    BY <1>1
  <2>4. Placed(v, w, Len(v) + 1, e)
    BY <2>1, <2>2, <2>3 DEF Placed
  <2> QED
    BY <2>1, <2>4 DEF w
<1>3. ASSUME NEW i \in 1..Len(v)
      PROVE  Inserted(v, i, e) \in Seq(T) /\ Placed(v, Inserted(v, i, e), i, e)
  <2> DEFINE w == Inserted(v, i, e)
  <2>1. /\ w \in Seq(T) /\ Len(w) = Len(v) + 1
        /\ \A k \in 1..(Len(v) + 1) : w[k] = IF k < i THEN v[k] ELSE IF k = i THEN e ELSE v[k - 1]
    BY InsertedIsLonger
  <2> HIDE DEF w
  <2>2. /\ i \in 1..(Len(v) + 1)
        /\ \A k \in 1..(Len(v) + 1) : k > i => ~(k < i) /\ k # i
        /\ ~(i < i)
    BY <1>1
  <2>3. Placed(v, w, i, e)
    BY <2>1, <2>2 DEF Placed
  <2> QED
    BY <2>1, <2>3 DEF w
<1> QED
  BY <1>2, <1>3

-----------------------------------------------------------------------------
(* OneOwner, in the two parts that the actions disturb: the set with the    *)
(* delegates' owners, and what the set is doing.                            *)

\* Each delegate of the set is there once, and neither deleted nor cached.
Ownership ==
    /\ made \in Seq(Delegate) /\ mDelegateVector \in Seq(1..Len(made))
    /\ deleted \subseteq 1..Len(made) /\ cached \subseteq 1..Len(made)
    /\ Owned(mDelegateVector, deleted \cup cached)
    /\ cached \cap deleted = {}

\* What the set is doing, with the place and the count of its loops.
Doing ==
    /\ duty \in {"idle", "removing", "invoking", "calling", "moved", "lost", "gone"}
    /\ iteration \in Nat /\ currentDelegateCount \in Nat
    /\ duty = "removing" => currentDelegateCount = Len(mDelegateVector)

\* The two parts are the whole.
LEMMA Parts == OneOwner <=> Ownership /\ Doing
BY DEF OneOwner, DelegatesTypeOK, Ownership, Doing, Owned

\* Erasing from the set, whether or not the element is deleted, keeps every
\* delegate with one owner.
LEMMA ErasingKeepsOwners ==
    ASSUME Ownership, NEW i \in Nat \ {0}, NEW n \in Nat, i + n <= Len(mDelegateVector) + 1,
           mDelegateVector' = Erased(mDelegateVector, i, n),
           deleted' = deleted \/ (n = 1 /\ deleted' = deleted \cup {mDelegateVector[i]}),
           made' = made, cached' = cached
    PROVE  Ownership' /\ Len(mDelegateVector') = Len(mDelegateVector) - n
<1> DEFINE T == 1..Len(made)
<1>1. mDelegateVector \in Seq(T) /\ Owned(mDelegateVector, deleted \cup cached)
  BY DEF Ownership
<1>2. mDelegateVector' \in Seq(T) /\ Len(mDelegateVector') = Len(mDelegateVector) - n
  BY <1>1, ErasedIsShorter
<1>3. /\ Owned(mDelegateVector', deleted \cup cached)
      /\ n = 1 => Owned(mDelegateVector', (deleted \cup cached) \cup {mDelegateVector[i]})
  BY <1>1, ErasedIsOwned
<1>4. CASE deleted' = deleted
  BY <1>2, <1>3, <1>4 DEF Ownership
<1>5. CASE n = 1 /\ deleted' = deleted \cup {mDelegateVector[i]}
  <2>1. Len(mDelegateVector) \in Nat
    BY <1>1, LenProperties
  <2>2. i \in 1..Len(mDelegateVector)
    BY <1>5, <2>1
  <2>3. mDelegateVector[i] \in T /\ mDelegateVector[i] \notin cached
    BY <1>1, <2>2, ElementOfSeq DEF Owned
  <2>4. deleted' \cup cached' = (deleted \cup cached) \cup {mDelegateVector[i]}
    BY <1>5
  <2> QED
    BY <1>2, <1>3, <1>5, <2>3, <2>4 DEF Ownership
<1> QED
  BY <1>4, <1>5

\* remove_delegate, too.
LEMMA RemovingKeepsOwners ==
    ASSUME Ownership, NEW d, NEW deleteInstance, remove_delegate(d, deleteInstance)
    PROVE  Ownership'
<1>1. PICK i \in 1..Len(mDelegateVector) :
         /\ mDelegateVector[i] = d /\ mDelegateVector' = Erased(mDelegateVector, i, 1)
         /\ deleted' = deleted \/ deleted' = deleted \cup {d}
         /\ UNCHANGED <<made, cached>>
  BY DEF remove_delegate
<1>2. Len(mDelegateVector) \in Nat
  BY LenProperties DEF Ownership
<1>3. i \in Nat \ {0} /\ i + 1 <= Len(mDelegateVector) + 1
  BY <1>2
<1> QED
  BY <1>1, <1>3, ErasingKeepsOwners

\* Adding a delegate that nobody holds keeps every delegate with one owner.
LEMMA AddingKeepsOwners ==
    ASSUME Ownership, NEW d \in Held, UNCHANGED <<made, deleted, cached>>,
           \/ mDelegateVector' = Append(mDelegateVector, d)
           \/ \E i \in 1..Len(mDelegateVector) : mDelegateVector' = Inserted(mDelegateVector, i, d)
    PROVE  Ownership'
<1> DEFINE T == 1..Len(made)
<1>1. /\ mDelegateVector \in Seq(T) /\ Owned(mDelegateVector, deleted \cup cached)
      /\ Len(mDelegateVector) \in Nat
  BY LenProperties DEF Ownership
<1>2. /\ d \in T /\ d \notin deleted \cup cached
      /\ \A k \in 1..Len(mDelegateVector) : mDelegateVector[k] # d
  BY DEF Held, Elements
<1>3. mDelegateVector' \in Seq(T) /\ \E p : Placed(mDelegateVector, mDelegateVector', p, d)
  BY <1>1, <1>2, AddedIsPlaced
<1>4. Owned(mDelegateVector', deleted \cup cached)
  BY <1>1, <1>2, <1>3, PlacedIsOwned
<1> QED
  BY <1>3, <1>4 DEF Ownership

-----------------------------------------------------------------------------
(* The invariant                                                           *)

\* There is no delegate when the program starts.
LEMMA InitOneOwner == DelegatesInit => OneOwner
<1> SUFFICES ASSUME DelegatesInit PROVE Ownership /\ Doing
  BY Parts
<1>1. made \in Seq(Delegate) /\ mDelegateVector \in Seq(1..Len(made)) /\ Len(mDelegateVector) = 0
  BY EmptySeq DEF DelegatesInit
<1>2. Owned(mDelegateVector, deleted \cup cached)
  BY <1>1 DEF Owned
<1> QED
  BY <1>1, <1>2 DEF DelegatesInit, Ownership, Doing

\* Making delegates, and handing them to cached delegates or to the set,
\* preserves the invariant.
LEMMA OwnersInv ==
    ASSUME OneOwner,
           \/ \E d \in Delegate : NewDelegate(d)
           \/ \E d \in Held : CacheDelegate(d) \/ AddDelegate(d)
           \/ \E d \in cached, generic \in BOOLEAN : DeleteCached(d, generic)
    PROVE  OneOwner'
<1> SUFFICES Ownership' /\ Doing'
  BY Parts, PTL
<1>0. Ownership /\ Doing
  BY Parts
<1>1. ASSUME NEW d \in Delegate, NewDelegate(d) PROVE Ownership' /\ Doing'
  <2>1. made' \in Seq(Delegate) /\ Len(made') = Len(made) + 1 /\ Len(made) \in Nat
    BY <1>0, <1>1, AppendProperties, LenProperties DEF NewDelegate, Ownership
  <2>2. 1..Len(made) \subseteq 1..Len(made')
    BY <2>1
  <2>3. mDelegateVector \in Seq(1..Len(made'))
    BY <1>0, <2>2, SeqMonotonic DEF Ownership
  <2> QED
    BY <1>0, <1>1, <2>1, <2>2, <2>3 DEF NewDelegate, Ownership, Doing, loopVars
<1>2. ASSUME NEW d \in Held, CacheDelegate(d) PROVE Ownership' /\ Doing'
  <2>1. d \in 1..Len(made) /\ d \notin deleted \cup cached
        /\ \A k \in 1..Len(mDelegateVector) : mDelegateVector[k] # d
    BY DEF Held, Elements
  <2>2. Owned(mDelegateVector', deleted' \cup cached')
    BY <1>0, <1>2, <2>1 DEF CacheDelegate, Ownership, Owned
  <2> QED
    BY <1>0, <1>2, <2>1, <2>2 DEF CacheDelegate, Ownership, Doing, loopVars
<1>3. ASSUME NEW d \in Held, AddDelegate(d) PROVE Ownership' /\ Doing'
  <2>1. UNCHANGED <<made, deleted, cached>>
        /\ \/ mDelegateVector' = Append(mDelegateVector, d)
           \/ \E i \in 1..Len(mDelegateVector) : mDelegateVector' = Inserted(mDelegateVector, i, d)
    BY <1>3 DEF AddDelegate, push_back
  <2>2. Ownership'
    BY <1>0, <2>1, AddingKeepsOwners
  <2> QED
    BY <1>0, <1>3, <2>2 DEF AddDelegate, Doing, loopVars
<1>4. ASSUME NEW d \in cached, NEW generic \in BOOLEAN, DeleteCached(d, generic)
      PROVE  Ownership' /\ Doing'
  <2>1. deleted' \cup cached' \subseteq deleted \cup cached
    BY <1>4 DEF DeleteCached
  <2>2. Owned(mDelegateVector', deleted' \cup cached')
    BY <1>0, <1>4, <2>1 DEF DeleteCached, Ownership, Owned
  <2> QED
    BY <1>0, <1>4, <2>2 DEF DeleteCached, Ownership, Doing, loopVars
<1> QED
  BY <1>1, <1>2, <1>3, <1>4

\* erase and remove_delegate preserve the invariant.
LEMMA ErasureInv ==
    ASSUME OneOwner,
           \/ \E i, n \in 0..Len(mDelegateVector) : erase(i, n)
           \/ \E d \in Elements(mDelegateVector), deleteInstance \in BOOLEAN :
                 RemoveDelegate(d, deleteInstance)
    PROVE  OneOwner'
<1> SUFFICES Ownership' /\ Doing'
  BY Parts, PTL
<1>0. Ownership /\ Doing /\ Len(mDelegateVector) \in Nat
  BY Parts, LenProperties DEF Ownership
<1>1. ASSUME NEW i \in 0..Len(mDelegateVector), NEW n \in 0..Len(mDelegateVector), erase(i, n)
      PROVE  Ownership' /\ Doing'
  <2>1. i + 1 \in Nat \ {0} /\ n \in Nat /\ (i + 1) + n <= Len(mDelegateVector) + 1
        /\ mDelegateVector' = Erased(mDelegateVector, i + 1, n)
        /\ UNCHANGED <<made, deleted, cached, duty, loopVars>> /\ duty = "idle"
    BY <1>0, <1>1 DEF erase
  <2>2. Ownership'
    BY <1>0, <2>1, ErasingKeepsOwners
  <2> QED
    BY <1>0, <2>1, <2>2 DEF Doing, loopVars
<1>2. ASSUME NEW d, NEW deleteInstance, RemoveDelegate(d, deleteInstance)
      PROVE  Ownership' /\ Doing'
  <2>1. Ownership'
    BY <1>0, <1>2, RemovingKeepsOwners DEF RemoveDelegate
  <2> QED
    BY <1>0, <1>2, <2>1 DEF RemoveDelegate, Doing, loopVars
<1> QED
  BY <1>1, <1>2

\* A removal loop preserves the invariant: the count goes down with the vector.
LEMMA RemovalInv ==
    ASSUME OneOwner,
           \/ \E r \in Request : RemoveDelegates(r)
           \/ RemoveCurrent \/ KeepCurrent \/ EndRemoval
    PROVE  OneOwner'
<1> SUFFICES Ownership' /\ Doing'
  BY Parts, PTL
<1>0. Ownership /\ Doing /\ Len(mDelegateVector) \in Nat
  BY Parts, LenProperties DEF Ownership
<1>1. CASE \E r \in Request : RemoveDelegates(r)
  BY <1>0, <1>1 DEF RemoveDelegates, Ownership, Doing, setVars, loopVars
<1>2. CASE RemoveCurrent
  <2>1. /\ iteration \in Nat /\ iteration < Len(mDelegateVector)
        /\ currentDelegateCount = Len(mDelegateVector)
    BY <1>0, <1>2 DEF RemoveCurrent, Doing
  <2>2. iteration + 1 \in Nat \ {0} /\ (iteration + 1) + 1 <= Len(mDelegateVector) + 1
    BY <1>0, <2>1
  <2>3. /\ mDelegateVector' = Erased(mDelegateVector, iteration + 1, 1)
        /\ deleted' = deleted \/ deleted' = deleted \cup {mDelegateVector[iteration + 1]}
        /\ made' = made /\ cached' = cached
    BY <1>2 DEF RemoveCurrent, current
  <2>4. Ownership' /\ Len(mDelegateVector') = Len(mDelegateVector) - 1
    BY <1>0, <2>2, <2>3, ErasingKeepsOwners
  <2> QED
    BY <1>0, <1>2, <2>1, <2>4 DEF RemoveCurrent, IterationAfterRemoval, Doing
<1>3. CASE KeepCurrent
  BY <1>0, <1>3 DEF KeepCurrent, Ownership, Doing, setVars
<1>4. CASE EndRemoval
  BY <1>0, <1>4 DEF EndRemoval, Finished, Ownership, Doing, setVars
<1> QED
  BY <1>1, <1>2, <1>3, <1>4

\* An invoke preserves the invariant, whatever the functions do to the set, and
\* so does its end.
LEMMA InvokeInv ==
    ASSUME OneOwner,
           \/ BeginInvoke \/ BeginCall \/ FunctionRemoves \/ FunctionAdds \/ CallReturns
           \/ CallThrows \/ EndInvoke \/ RunsPastEnd
    PROVE  OneOwner'
<1> SUFFICES Ownership' /\ Doing'
  BY Parts, PTL
<1>0. Ownership /\ Doing
  BY Parts
<1>1. CASE BeginInvoke
  BY <1>0, <1>1 DEF BeginInvoke, Ownership, Doing, setVars, loopVars
<1>2. CASE BeginCall
  BY <1>0, <1>2 DEF BeginCall, Ownership, Doing, setVars, loopVars
<1>3. CASE FunctionRemoves
  <2>1. Ownership'
    BY <1>0, <1>3, RemovingKeepsOwners DEF FunctionRemoves
  <2> QED
    BY <1>0, <1>3, <2>1 DEF FunctionRemoves, InFunction, Doing, loopVars
<1>4. CASE FunctionAdds
  <2>1. Ownership'
    BY <1>0, <1>4, AddingKeepsOwners DEF FunctionAdds, push_back
  <2> QED
    BY <1>0, <1>4, <2>1 DEF FunctionAdds, InFunction, Doing, loopVars
<1>5. CASE CallReturns
  BY <1>0, <1>5 DEF CallReturns, NextIterator, Ownership, Doing, setVars
<1>6. CASE CallThrows \/ EndInvoke
  <2>1. Finished
    BY <1>6 DEF CallThrows, EndInvoke
  <2> QED
    BY <1>0, <2>1 DEF Finished, Ownership, Doing, setVars
<1>7. CASE RunsPastEnd
  BY <1>0, <1>7 DEF RunsPastEnd, Ownership, Doing, setVars, loopVars
<1> QED
  BY <1>1, <1>2, <1>3, <1>4, <1>5, <1>6, <1>7

\* The destructor of the set preserves the invariant.
LEMMA DestroyInv == OneOwner /\ DestroySet => OneOwner'
<1> SUFFICES ASSUME OneOwner, DestroySet PROVE Ownership' /\ Doing'
  BY Parts, PTL
<1>0. Ownership /\ Doing
  BY Parts
<1>1. mDelegateVector' \in Seq(1..Len(made)) /\ Len(mDelegateVector') = 0
  BY EmptySeq DEF DestroySet
<1>2. /\ \A k \in 1..Len(mDelegateVector) : mDelegateVector[k] \in 1..Len(made)
      /\ \A k \in 1..Len(mDelegateVector) : mDelegateVector[k] \notin cached
  BY <1>0, ElementOfSeq DEF Ownership, Owned
<1>3. Owned(mDelegateVector', deleted' \cup cached')
  BY <1>1 DEF Owned
<1> QED
  BY <1>0, <1>1, <1>2, <1>3 DEF DestroySet, Elements, Ownership, Doing, loopVars

\* No delegate is deleted twice or used after its deletion, for any number of
\* delegates and any functions that change the set while they are called.
THEOREM DelegatesHaveOneOwner == DelegatesSpec => []OneOwner
<1>1. OneOwner /\ [DelegatesNext]_delegateVars => OneOwner'
  <2> SUFFICES ASSUME OneOwner, [DelegatesNext]_delegateVars PROVE OneOwner'
    OBVIOUS
  <2>1. CASE UNCHANGED delegateVars
    BY <2>1 DEF delegateVars, setVars, loopVars, OneOwner, DelegatesTypeOK
  <2>2. CASE DelegatesNext
    BY <2>2, OwnersInv, ErasureInv, RemovalInv, InvokeInv, DestroyInv DEF DelegatesNext
  <2> QED
    BY <2>1, <2>2
<1> QED
  BY InitOneOwner, <1>1, PTL DEF DelegatesSpec

-----------------------------------------------------------------------------
(* The order of an invoke                                                  *)

\* In t, d comes before e.
BeforeIn(d, e, t) == \E k, l \in 1..Len(t) : k < l /\ t[k] = d /\ t[l] = e

\* But for those of X, what s has comes in the order of t.
InOrder(s, t, X) ==
    \A i, j \in 1..Len(s) :
        i < j /\ s[i] \notin X /\ s[j] \notin X => BeforeIn(s[i], s[j], t)

\* But for those of X, what v has behind its place n comes, in t, after all
\* that s has.
Ahead(s, v, n, t, X) ==
    \A i \in 1..Len(s), j \in 1..Len(v) :
        j > n /\ s[i] \notin X /\ v[j] \notin X => BeforeIn(s[i], v[j], t)

Distinct(v) == \A i, j \in 1..Len(v) : v[i] = v[j] => i = j

\* The elements of the vector that the invoke has called, or passed over.
Place == IF duty = "invoking" THEN iteration ELSE iteration + 1

\* But for those that functions added, the called delegates are in the order
\* that the set had, and so are those that it still has, behind the iterator.
OrderInv ==
    /\ called \in Seq(Nat) /\ before \in Seq(Nat) /\ Distinct(before)
    /\ duty = "idle" => iteration = 0
    /\ duty \notin {"invoking", "calling", "moved", "lost"} => called = <<>> /\ ~changed
    /\ InOrder(called, before, added)
    /\ duty \in {"invoking", "calling", "moved"} =>
          /\ InOrder(mDelegateVector, before, added)
          /\ Ahead(called, mDelegateVector, Place, before, added)
    /\ duty \in {"invoking", "calling"} /\ ~changed =>
          /\ mDelegateVector = before /\ Place <= Len(before)
          /\ called = SubSeq(before, 1, Place)

\* The next one that is called comes after those before it.
LEMMA CallingKeepsOrder ==
    ASSUME NEW s \in Seq(Nat), NEW v \in Seq(Nat), NEW t, NEW X, NEW n \in Nat, n < Len(v),
           InOrder(s, t, X), InOrder(v, t, X), Ahead(s, v, n, t, X)
    PROVE  /\ Append(s, v[n + 1]) \in Seq(Nat)
           /\ InOrder(Append(s, v[n + 1]), t, X) /\ Ahead(Append(s, v[n + 1]), v, n + 1, t, X)
<1> DEFINE w == Append(s, v[n + 1])
<1>1. Len(s) \in Nat /\ Len(v) \in Nat /\ n + 1 \in 1..Len(v) /\ v[n + 1] \in Nat
  BY LenProperties, ElementOfSeq
<1>2. /\ w \in Seq(Nat) /\ Len(w) = Len(s) + 1 /\ w[Len(s) + 1] = v[n + 1]
      /\ \A i \in 1..Len(s) : w[i] = s[i]
  BY <1>1, AppendProperties
<1> HIDE DEF w
<1>3. \A i \in 1..Len(w) : i \in 1..Len(s) \/ i = Len(s) + 1
  BY <1>1, <1>2
<1>4. ASSUME NEW i \in 1..Len(w), NEW j \in 1..Len(w), i < j, w[i] \notin X, w[j] \notin X
      PROVE  BeforeIn(w[i], w[j], t)
  <2>1. i \in 1..Len(s)
    BY <1>1, <1>2, <1>4
  <2>2. CASE j \in 1..Len(s)
    BY <1>2, <1>4, <2>1, <2>2 DEF InOrder
  <2>3. CASE j = Len(s) + 1
    <3>1. w[j] = v[n + 1] /\ w[i] = s[i]
      BY <1>2, <2>1, <2>3
    <3>2. n + 1 > n
      OBVIOUS
    <3> QED
      BY <1>1, <1>4, <2>1, <3>1, <3>2 DEF Ahead
  <2> QED
    BY <1>3, <2>2, <2>3
<1>5. ASSUME NEW i \in 1..Len(w), NEW j \in 1..Len(v), j > n + 1, w[i] \notin X, v[j] \notin X
      PROVE  BeforeIn(w[i], v[j], t)
  <2>1. CASE i \in 1..Len(s)
    <3>1. w[i] = s[i]
      BY <1>2, <2>1
    <3>2. j > n
      BY <1>1, <1>5
    <3> QED
      BY <1>5, <2>1, <3>1, <3>2 DEF Ahead
  <2>2. CASE i = Len(s) + 1
    <3>1. w[i] = v[n + 1] /\ n + 1 < j
      BY <1>2, <1>5, <2>2
    <3> QED
      BY <1>1, <1>5, <3>1 DEF InOrder
  <2> QED
    BY <1>3, <2>1, <2>2
<1>6. InOrder(w, t, X)
  BY <1>4 DEF InOrder
<1>7. Ahead(w, v, n + 1, t, X)
  BY <1>5 DEF Ahead
<1> QED
  BY <1>2, <1>6, <1>7 DEF w

\* What is left of a vector when one goes is still in order and still ahead.
LEMMA ErasingKeepsOrder ==
    ASSUME NEW s, NEW v \in Seq(Nat), NEW t, NEW X, NEW n \in Nat, NEW p \in 1..Len(v),
           InOrder(v, t, X), Ahead(s, v, n, t, X)
    PROVE  InOrder(Erased(v, p, 1), t, X) /\ Ahead(s, Erased(v, p, 1), n, t, X)
<1> DEFINE w == Erased(v, p, 1)
           from(k) == IF k < p THEN k ELSE k + 1
<1>1. Len(v) \in Nat /\ p \in Nat \ {0} /\ p + 1 <= Len(v) + 1 /\ 1 \in Nat
  BY LenProperties
<1>2. Len(w) = Len(v) - 1 /\ \A k \in 1..(Len(v) - 1) : w[k] = v[from(k)]
  <2>1. /\ Len(w) = Len(v) - 1
        /\ \A k \in 1..(Len(v) - 1) : w[k] = IF k < p THEN v[k] ELSE v[k + 1]
    BY <1>1, ErasedIsShorter
  <2> HIDE DEF w
  <2> QED
    BY <2>1
<1>3. \A k \in 1..(Len(v) - 1) : from(k) \in 1..Len(v) /\ from(k) >= k
  BY <1>1
<1>4. \A k, l \in 1..(Len(v) - 1) : k < l => from(k) < from(l)
  BY <1>1
<1>5. \A k \in 1..(Len(v) - 1) : k > n => from(k) > n
  BY <1>1
<1> HIDE DEF w, from
<1>6. InOrder(w, t, X)
  <2>1. SUFFICES ASSUME NEW i \in 1..Len(w), NEW j \in 1..Len(w), i < j, w[i] \notin X, w[j] \notin X
                 PROVE  BeforeIn(w[i], w[j], t)
    BY DEF InOrder
  <2>2. /\ from(i) \in 1..Len(v) /\ from(j) \in 1..Len(v) /\ from(i) < from(j)
        /\ w[i] = v[from(i)] /\ w[j] = v[from(j)]
    BY <1>2, <1>3, <1>4, <2>1
  <2> QED
    BY <2>1, <2>2 DEF InOrder
<1>7. Ahead(s, w, n, t, X)
  <2>1. SUFFICES ASSUME NEW i \in 1..Len(s), NEW j \in 1..Len(w), j > n, s[i] \notin X, w[j] \notin X
                 PROVE  BeforeIn(s[i], w[j], t)
    BY DEF Ahead
  <2>2. from(j) \in 1..Len(v) /\ from(j) > n /\ w[j] = v[from(j)]
    BY <1>2, <1>3, <1>5, <2>1
  <2> QED
    BY <2>1, <2>2 DEF Ahead
<1> QED
  BY <1>6, <1>7 DEF w

\* A delegate that a function adds is one of those the order is not about.
LEMMA AddingKeepsOrder ==
    ASSUME NEW s, NEW v \in Seq(Nat), NEW t, NEW X, NEW n \in Nat, NEW d \in Nat,
           InOrder(s, t, X), InOrder(v, t, X), Ahead(s, v, n, t, X)
    PROVE  /\ InOrder(s, t, X \cup {d}) /\ InOrder(Append(v, d), t, X \cup {d})
           /\ Ahead(s, Append(v, d), n, t, X \cup {d})
<1> DEFINE w == Append(v, d)
           Y == X \cup {d}
<1>1. /\ Len(v) \in Nat /\ Len(w) = Len(v) + 1 /\ w[Len(v) + 1] = d
      /\ \A i \in 1..Len(v) : w[i] = v[i]
  BY AppendProperties, LenProperties
<1> HIDE DEF w
<1>2. ASSUME NEW i \in 1..Len(w), w[i] \notin Y PROVE i \in 1..Len(v) /\ w[i] = v[i] /\ v[i] \notin X
  BY <1>1, <1>2
<1>3. InOrder(s, t, Y)
  BY DEF InOrder
<1>4. InOrder(w, t, Y)
  BY <1>2 DEF InOrder
<1>5. Ahead(s, w, n, t, Y)
  BY <1>2 DEF Ahead
<1> QED
  BY <1>3, <1>4, <1>5 DEF w

\* A vector that holds nothing twice is in its own order.
LEMMA OwnOrder ==
    ASSUME NEW v, NEW X
    PROVE  InOrder(v, v, X)
BY DEF InOrder, BeforeIn

\* Nothing has been called yet.
LEMMA EmptyOrder ==
    ASSUME NEW v, NEW n, NEW t, NEW X
    PROVE  InOrder(<<>>, t, X) /\ Ahead(<<>>, v, n, t, X) /\ Distinct(<<>>)
<1>1. Len(<<>>) = 0
  BY EmptySeq
<1> QED
  BY <1>1 DEF InOrder, Ahead, Distinct

\* The next element makes the prefix of a sequence one longer.
LEMMA PrefixGrows ==
    ASSUME NEW s \in Seq(Nat), NEW n \in Nat, n + 1 \in 1..Len(s)
    PROVE  Append(SubSeq(s, 1, n), s[n + 1]) = SubSeq(s, 1, n + 1)
<1>1. 1 \in 1..Len(s) /\ n + 1 \in 1..Len(s) /\ (n + 1) - 1 = n
  BY LenProperties
<1>2. SubSeq(s, 1, n + 1) = SubSeq(s, 1, n) \o <<s[n + 1]>>
  BY <1>1, SubSeqRecursiveSecond
<1>3. SubSeq(s, 1, n) \in Seq(Nat) /\ s[n + 1] \in Nat
  <2>1. \A i \in 1..n : s[i] \in Nat
    BY <1>1, ElementOfSeq, LenProperties
  <2> QED
    BY <1>1, <2>1, SubSeqProperties, ElementOfSeq
<1> QED
  BY <1>2, <1>3, AppendIsConcat

\* The set is a sequence of numbers, none of them twice.
LEMMA SetOfNumbers ==
    ASSUME OneOwner
    PROVE  /\ mDelegateVector \in Seq(Nat) /\ Len(mDelegateVector) \in Nat /\ Distinct(mDelegateVector)
           /\ iteration \in Nat /\ Len(made) \in Nat
<1>1. mDelegateVector \in Seq(1..Len(made)) /\ Len(made) \in Nat /\ iteration \in Nat
  BY LenProperties DEF OneOwner, DelegatesTypeOK
<1>2. 1..Len(made) \subseteq Nat
  BY <1>1
<1>3. Distinct(mDelegateVector)
  BY DEF OneOwner, Distinct
<1> QED
  BY <1>1, <1>2, <1>3, SeqMonotonic, LenProperties

\* There is nothing in order before the first invoke.
LEMMA InitOrder == DelegatesInit => OrderInv
<1> SUFFICES ASSUME DelegatesInit PROVE OrderInv
  OBVIOUS
<1>1. <<>> \in Seq(Nat)
  BY EmptySeq
<1>2. InOrder(<<>>, before, added) /\ Distinct(<<>>)
  BY EmptyOrder
<1> QED
  BY <1>1, <1>2 DEF DelegatesInit, OrderInv

\* An invoke begins with the order that the set has.
LEMMA BeginInvokeOrder ==
    ASSUME OneOwner, OrderInv, BeginInvoke
    PROVE  OrderInv'
<1>1. /\ duty' = "invoking" /\ before' = mDelegateVector /\ mDelegateVector' = mDelegateVector
      /\ iteration' = 0 /\ called' = <<>> /\ changed' = changed /\ added' = added
  BY DEF BeginInvoke, OrderInv, setVars, loopVars
<1>2. mDelegateVector \in Seq(Nat) /\ Len(mDelegateVector) \in Nat /\ Distinct(mDelegateVector)
  BY SetOfNumbers
<1>3. InOrder(mDelegateVector, mDelegateVector, added)
  BY OwnOrder
<1>4. InOrder(<<>>, mDelegateVector, added) /\ Ahead(<<>>, mDelegateVector, 0, mDelegateVector, added)
  BY EmptyOrder
<1>5. <<>> = SubSeq(mDelegateVector, 1, 0) /\ <<>> \in Seq(Nat)
  BY EmptySeq, SubSeqEmpty
<1>6. Place' = 0
  BY <1>1 DEF Place
<1> QED
  BY <1>1, <1>2, <1>3, <1>4, <1>5, <1>6 DEF OrderInv, Distinct, InOrder, Ahead

\* What a function has been called for is behind those called before.
LEMMA BeginCallOrder ==
    ASSUME OneOwner, OrderInv, BeginCall
    PROVE  OrderInv'
<1> DEFINE v == mDelegateVector
<1>0. /\ duty = "invoking" /\ duty' = "calling" /\ iteration < Len(v)
      /\ called' = Append(called, v[iteration + 1])
      /\ UNCHANGED <<mDelegateVector, iteration, before, changed, added>>
  BY DEF BeginCall, current, setVars, loopVars
<1>1. v \in Seq(Nat) /\ Len(v) \in Nat /\ iteration \in Nat /\ called \in Seq(Nat)
  BY SetOfNumbers DEF OrderInv
<1>2. Place = iteration /\ Place' = iteration + 1
  BY <1>0 DEF Place
<1>3. /\ InOrder(called, before, added) /\ InOrder(v, before, added)
      /\ Ahead(called, v, iteration, before, added)
  BY <1>0, <1>2 DEF OrderInv
<1>4. called' \in Seq(Nat) /\ InOrder(called', before, added) /\ Ahead(called', v, iteration + 1, before, added)
  BY <1>0, <1>1, <1>3, CallingKeepsOrder
<1>5. ASSUME ~changed
      PROVE  v = before /\ iteration + 1 <= Len(before) /\ called' = SubSeq(before, 1, iteration + 1)
  <2>1. v = before /\ called = SubSeq(before, 1, iteration)
    BY <1>0, <1>2, <1>5 DEF OrderInv
  <2>2. iteration + 1 \in 1..Len(before) /\ called' = Append(called, before[iteration + 1])
    BY <1>0, <1>1, <2>1
  <2> QED
    BY <1>1, <2>1, <2>2, PrefixGrows
<1> QED
  BY <1>0, <1>2, <1>3, <1>4, <1>5 DEF OrderInv, InOrder, Ahead

\* A function may remove any delegate: what is left is in order.
LEMMA FunctionRemovesOrder ==
    ASSUME OneOwner, OrderInv, FunctionRemoves
    PROVE  OrderInv'
<1> DEFINE v == mDelegateVector
<1>0. /\ duty \in {"calling", "moved"} /\ duty' = duty /\ changed' = TRUE
      /\ UNCHANGED <<iteration, before, called, added>>
  BY DEF FunctionRemoves, InFunction, loopVars
<1>1. PICK p \in 1..Len(v) : v' = Erased(v, p, 1)
  BY DEF FunctionRemoves, remove_delegate
<1>2. Place = iteration + 1 /\ Place' = iteration + 1
  BY <1>0 DEF Place
<1>3. v \in Seq(Nat) /\ iteration + 1 \in Nat
  BY SetOfNumbers
<1>4. InOrder(v, before, added) /\ Ahead(called, v, iteration + 1, before, added)
  BY <1>0, <1>2 DEF OrderInv
<1>5. InOrder(Erased(v, p, 1), before, added) /\ Ahead(called, Erased(v, p, 1), iteration + 1, before, added)
  BY <1>3, <1>4, ErasingKeepsOrder
<1>6. InOrder(v', before', added') /\ Ahead(called', v', Place', before', added')
  BY <1>0, <1>1, <1>2, <1>5
<1>7. InOrder(called', before', added')
  BY <1>0 DEF OrderInv
<1> QED
  BY <1>0, <1>6, <1>7 DEF OrderInv

\* A function may add any delegate that nobody holds.
LEMMA FunctionAddsOrder ==
    ASSUME OneOwner, OrderInv, FunctionAdds
    PROVE  OrderInv'
<1> DEFINE v == mDelegateVector
<1>0. /\ duty \in {"calling", "moved"} /\ duty' \in {"calling", "moved"} /\ changed' = TRUE
      /\ UNCHANGED <<iteration, before, called>>
  BY DEF FunctionAdds, InFunction, loopVars
<1>1. PICK d \in Held : v' = Append(v, d) /\ added' = added \cup {d}
  BY DEF FunctionAdds, push_back
<1>2. Place = iteration + 1 /\ Place' = iteration + 1
  BY <1>0 DEF Place
<1>3. v \in Seq(Nat) /\ iteration + 1 \in Nat /\ d \in Nat
  BY SetOfNumbers DEF Held
<1>4. /\ InOrder(called, before, added) /\ InOrder(v, before, added)
      /\ Ahead(called, v, iteration + 1, before, added)
  BY <1>0, <1>2 DEF OrderInv
<1>5. /\ InOrder(called, before, added \cup {d}) /\ InOrder(Append(v, d), before, added \cup {d})
      /\ Ahead(called, Append(v, d), iteration + 1, before, added \cup {d})
  BY <1>3, <1>4, AddingKeepsOrder
<1>6. /\ InOrder(called', before', added') /\ InOrder(v', before', added')
      /\ Ahead(called', v', Place', before', added')
  BY <1>0, <1>1, <1>2, <1>5
<1> QED
  BY <1>0, <1>6 DEF OrderInv

\* When the function returns, the iterator goes on behind what it called, or is
\* lost with the memory it points to.
LEMMA CallReturnsOrder ==
    ASSUME OneOwner, OrderInv, CallReturns
    PROVE  OrderInv'
<1>0. UNCHANGED <<mDelegateVector, before, called, changed, added>>
  BY DEF CallReturns, setVars, memoryVars
<1>1. CASE duty = "calling" /\ duty' = "invoking" /\ iteration' = iteration + 1
  <2>1. Place = iteration + 1 /\ Place' = iteration + 1
    BY <1>1 DEF Place
  <2> QED
    BY <1>0, <1>1, <2>1 DEF OrderInv, InOrder, Ahead
<1>2. CASE duty = "moved" /\ duty' = "lost"
  BY <1>0, <1>2 DEF OrderInv
<1> QED
  BY <1>1, <1>2 DEF CallReturns, NextIterator

\* When an invoke or a removal ends, however it ends, nothing is left of it.
LEMMA FinishedOrder ==
    ASSUME Finished
    PROVE  OrderInv'
<1>1. <<>> \in Seq(Nat) /\ InOrder(<<>>, <<>>, {}) /\ Distinct(<<>>)
  BY EmptySeq, EmptyOrder
<1> QED
  BY <1>1 DEF Finished, OrderInv

\* No other step of the set disturbs the order.
LEMMA OrderNextInv == OneOwner /\ OrderInv /\ [DelegatesNext]_delegateVars => OrderInv'
<1> SUFFICES ASSUME OneOwner, OrderInv, [DelegatesNext]_delegateVars PROVE OrderInv'
  OBVIOUS
<1>1. CASE \E d \in Delegate : NewDelegate(d)
  BY <1>1 DEF NewDelegate, OrderInv, loopVars, memoryVars
<1>2. CASE \E d \in Held : CacheDelegate(d) \/ AddDelegate(d)
  BY <1>2 DEF CacheDelegate, AddDelegate, OrderInv, loopVars, memoryVars
<1>3. CASE \E d \in cached, generic \in BOOLEAN : DeleteCached(d, generic)
  BY <1>3 DEF DeleteCached, OrderInv, loopVars, memoryVars
<1>4. CASE \E i, n \in 0..Len(mDelegateVector) : erase(i, n)
  BY <1>4 DEF erase, OrderInv, loopVars, memoryVars
<1>5. CASE \E d \in Elements(mDelegateVector), deleteInstance \in BOOLEAN : RemoveDelegate(d, deleteInstance)
  BY <1>5 DEF RemoveDelegate, OrderInv, loopVars, memoryVars
<1>6. CASE \E r \in Request : RemoveDelegates(r)
  <2>1. /\ called' = <<>> /\ ~changed' /\ before' = mDelegateVector /\ duty' = "removing"
    BY <1>6 DEF RemoveDelegates, OrderInv
  <2>2. mDelegateVector \in Seq(Nat) /\ Distinct(mDelegateVector)
    BY SetOfNumbers
  <2>3. <<>> \in Seq(Nat) /\ InOrder(<<>>, mDelegateVector, added')
    BY EmptySeq, EmptyOrder
  <2> QED
    BY <2>1, <2>2, <2>3 DEF OrderInv
<1>7. CASE RemoveCurrent \/ KeepCurrent
  BY <1>7 DEF RemoveCurrent, KeepCurrent, OrderInv, memoryVars
<1>8. CASE BeginInvoke \/ BeginCall \/ FunctionRemoves \/ FunctionAdds \/ CallReturns
  BY <1>8, BeginInvokeOrder, BeginCallOrder, FunctionRemovesOrder, FunctionAddsOrder, CallReturnsOrder
<1>9. CASE EndRemoval \/ CallThrows \/ EndInvoke
  BY <1>9, FinishedOrder DEF EndRemoval, CallThrows, EndInvoke
<1>10. CASE RunsPastEnd
  BY <1>10 DEF RunsPastEnd, OrderInv, loopVars, memoryVars
<1>11. CASE DestroySet
  BY <1>11 DEF DestroySet, OrderInv, loopVars, memoryVars
<1>12. CASE UNCHANGED delegateVars
  BY <1>12 DEF delegateVars, setVars, OrderInv, Place, loopVars, memoryVars
<1> QED
  BY <1>1, <1>2, <1>3, <1>4, <1>5, <1>6, <1>7, <1>8, <1>9, <1>10, <1>11, <1>12
     DEF DelegatesNext

\* A delegate that was called twice is one that a function added meanwhile.
TwiceOnlyIfAdded ==
    \A i, j \in 1..Len(called) : i < j /\ called[i] = called[j] => called[i] \in added

\* For any number of delegates, and however many of them the functions remove
\* and add in each call, the delegates that no function added are called in the
\* order that the set had, none of them twice, and all of them when no function
\* changes the set (easydelegate.hpp:437-459).
THEOREM InvokeIsInOrder == DelegatesSpec => [](CalledInOrder /\ TwiceOnlyIfAdded)
<1>1. OrderInv => CalledInOrder /\ TwiceOnlyIfAdded
  <2> SUFFICES ASSUME OrderInv PROVE CalledInOrder /\ TwiceOnlyIfAdded
    OBVIOUS
  <2>1. InOrder(called, before, added) /\ Distinct(before)
    BY DEF OrderInv
  <2>2. duty = "invoking" /\ ~changed => called = SubSeq(before, 1, iteration)
    BY DEF OrderInv, Place
  <2>3. \A i, j \in 1..Len(called) :
            i < j /\ called[i] \notin added /\ called[j] \notin added
                => Precedes(called[i], called[j])
    BY <2>1 DEF InOrder, BeforeIn, Precedes
  <2>4. \A d : ~BeforeIn(d, d, before)
    <3>1. SUFFICES ASSUME NEW d, NEW k \in 1..Len(before), NEW l \in 1..Len(before),
                          k < l, before[k] = d, before[l] = d
                   PROVE  FALSE
      BY DEF BeforeIn
    <3>2. k = l
      BY <2>1, <3>1 DEF Distinct
    <3> QED
      BY <3>1, <3>2
  <2>5. TwiceOnlyIfAdded
    BY <2>1, <2>4 DEF InOrder, TwiceOnlyIfAdded
  <2> QED
    BY <2>2, <2>3, <2>5 DEF CalledInOrder
<1>2. DelegatesSpec => []OrderInv
  BY InitOrder, OrderNextInv, DelegatesHaveOneOwner, PTL DEF DelegatesSpec
<1> QED
  BY <1>1, <1>2, PTL

-----------------------------------------------------------------------------
(* The end of a removal                                                    *)

\* A further element is the last of its set, and all others keep their places.
LEMMA Ranks ==
    ASSUME NEW k \in Nat, NEW P \in SUBSET (1..k)
    PROVE  /\ Cardinality(P) \in Nat /\ Cardinality(P \cup {k + 1}) = Cardinality(P) + 1
           /\ {j \in P \cup {k + 1} : j <= k + 1} = P \cup {k + 1}
           /\ \A i \in P : /\ {j \in P \cup {k + 1} : j <= i} = {j \in P : j <= i}
                           /\ Cardinality({j \in P : j <= i}) \in 1..Cardinality(P)
<1>1. IsFiniteSet(1..k) /\ P \subseteq Int
  BY FS_Interval
<1>2. IsFiniteSet(P) /\ Cardinality(P) \in Nat
  BY <1>1, FS_Subset, FS_CardinalityType
<1>3. k + 1 \notin P /\ \A i \in P : ~(k + 1 <= i)
  OBVIOUS
<1>4. Cardinality(P \cup {k + 1}) = Cardinality(P) + 1
  BY <1>2, <1>3, FS_AddElement
<1>5. ASSUME NEW i \in P PROVE Cardinality({j \in P : j <= i}) \in 1..Cardinality(P)
  <2> DEFINE Q == {j \in P : j <= i}
  <2>1. Q \subseteq P /\ i \in Q
    BY <1>1
  <2> HIDE DEF Q
  <2>2. IsFiniteSet(Q) /\ Cardinality(Q) <= Cardinality(P)
    BY <1>2, <2>1, FS_Subset
  <2>3. Cardinality(Q) \in Nat /\ Cardinality(Q) # 0
    BY <2>1, <2>2, FS_CardinalityType, FS_EmptySet
  <2>4. Cardinality(Q) \in 1..Cardinality(P)
    BY <1>2, <2>2, <2>3
  <2> QED
    BY <2>4 DEF Q
<1>6. {j \in P \cup {k + 1} : j <= k + 1} = P \cup {k + 1}
  <2>1. \A j \in P : j <= k + 1
    OBVIOUS
  <2>2. k + 1 <= k + 1
    OBVIOUS
  <2> QED
    BY <2>1, <2>2
<1>7. \A i \in P : {j \in P \cup {k + 1} : j <= i} = {j \in P : j <= i}
  BY <1>3
<1> QED
  BY <1>2, <1>4, <1>5, <1>6, <1>7

\* What is listed stays so when only what follows it changes,
LEMMA ListsKept ==
    ASSUME NEW k \in Nat, NEW P \in SUBSET (1..k), NEW s, NEW t, NEW n, NEW v,
           Lists(s, n, v, P), \A i \in 1..n : t[i] = s[i]
    PROVE  Lists(t, n, v, P)
BY Ranks DEF Lists

\* and the element at the next place goes to the end.
LEMMA ListsGrow ==
    ASSUME NEW k \in Nat, NEW P \in SUBSET (1..k), NEW s, NEW t, NEW n, NEW v,
           Lists(s, n, v, P), \A i \in 1..n : t[i] = s[i], t[n + 1] = v[k + 1]
    PROVE  Lists(t, n + 1, v, P \cup {k + 1})
<1> DEFINE Q == P \cup {k + 1}
           rank(i) == Cardinality({j \in Q : j <= i})
<1>1. n \in Nat /\ Cardinality(Q) = n + 1
  BY Ranks DEF Lists
<1>2. rank(k + 1) = n + 1
  BY <1>1, Ranks
<1>3. ASSUME NEW i \in P PROVE rank(i) \in 1..n /\ s[rank(i)] = v[i]
  BY Ranks DEF Lists
<1> HIDE DEF rank
<1>4. \A i \in Q : t[rank(i)] = v[i]
  BY <1>2, <1>3
<1> QED
  BY <1>1, <1>4 DEF Lists, rank

\* Of the elements that the vector had before, those the loop has passed, those
\* of them that it found to match, and those that it spared.
Passed == Len(before) - (Len(mDelegateVector) - iteration)
Found(k) == {i \in 1..k : Matches(made[before[i]], request)}
Spared(k) == {i \in 1..k : ~Matches(made[before[i]], request)}

\* The loop has the spared elements behind it and the rest of the vector, as it
\* was before, ahead; what it found is listed in out, or deleted.
LoopInv ==
    /\ duty = "idle" => iteration = 0
    /\ duty # "removing" => out = <<>>
    /\ duty = "removing" =>
        /\ before \in Seq(1..Len(made)) /\ out \in Seq(1..Len(made))
        /\ iteration <= Len(mDelegateVector) /\ Passed \in Nat /\ Passed <= Len(before)
        /\ Lists(mDelegateVector, iteration, before, Spared(Passed))
        /\ \A i \in (iteration + 1)..Len(mDelegateVector) : mDelegateVector[i] = before[i - iteration + Passed]
        /\ IF ~request.deleteInstances /\ request.hasOut
           THEN Lists(out, Len(out), before, Found(Passed)) ELSE out = <<>>
        /\ request.deleteInstances => \A i \in Found(Passed) : before[i] \in deleted
        /\ ~request.deleteInstances => \A i \in 1..Len(before) : before[i] \notin deleted

\* A loop begins with all of the vector ahead.
LEMMA BeginLoop ==
    ASSUME OneOwner, LoopInv, NEW r, RemoveDelegates(r)
    PROVE  LoopInv'
<1>1. /\ duty' = "removing" /\ iteration' = 0 /\ request' = r /\ before' = mDelegateVector /\ out' = <<>>
      /\ made' = made /\ mDelegateVector' = mDelegateVector /\ deleted' = deleted
  BY DEF RemoveDelegates, LoopInv, setVars
<1>2. /\ mDelegateVector \in Seq(1..Len(made)) /\ Len(mDelegateVector) \in Nat
      /\ \A i \in 1..Len(mDelegateVector) : mDelegateVector[i] \notin deleted
  BY LenProperties DEF OneOwner, DelegatesTypeOK
<1>3. Passed' = 0
  BY <1>1, <1>2 DEF Passed
<1>4. Found(0)' = {} /\ Spared(0)' = {}
  BY DEF Found, Spared
<1>5. Found(Passed)' = {} /\ Spared(Passed)' = {}
  BY <1>3, <1>4 DEF Found, Spared
<1>6. Cardinality({}) = 0 /\ Len(<<>>) = 0 /\ <<>> \in Seq(1..Len(made))
  BY FS_EmptySet
<1>7. Lists(mDelegateVector, 0, mDelegateVector, {}) /\ Lists(<<>>, Len(<<>>), mDelegateVector, {})
  BY <1>6 DEF Lists
<1>8. Lists(mDelegateVector, iteration, before, Spared(Passed))' /\ Lists(out, Len(out), before, Found(Passed))'
  BY <1>1, <1>5, <1>7 DEF Lists
<1>9. \A i \in (iteration' + 1)..Len(mDelegateVector') : mDelegateVector'[i] = before'[i - iteration' + Passed']
  BY <1>1, <1>2, <1>3
<1> QED
  BY <1>1, <1>2, <1>3, <1>5, <1>6, <1>8, <1>9 DEF LoopInv

\* What a step of the loop finds at its place is the next element of before.
LEMMA NextOfBefore ==
    ASSUME OneOwner, LoopInv, duty = "removing", iteration < currentDelegateCount
    PROVE  /\ iteration \in Nat /\ Len(mDelegateVector) \in Nat /\ iteration < Len(mDelegateVector)
           /\ Len(before) \in Nat /\ Passed \in Nat /\ Passed + 1 \in 1..Len(before)
           /\ mDelegateVector \in Seq(1..Len(made)) /\ before \in Seq(1..Len(made))
           /\ current = before[Passed + 1] /\ current \in 1..Len(made)
           /\ Found(Passed) \in SUBSET (1..Passed) /\ Spared(Passed) \in SUBSET (1..Passed)
           /\ Matches(made[current], request) =>
                 Found(Passed + 1) = Found(Passed) \cup {Passed + 1} /\ Spared(Passed + 1) = Spared(Passed)
           /\ ~Matches(made[current], request) =>
                 Found(Passed + 1) = Found(Passed) /\ Spared(Passed + 1) = Spared(Passed) \cup {Passed + 1}
<1>1. /\ iteration \in Nat /\ Len(mDelegateVector) \in Nat /\ iteration < Len(mDelegateVector)
      /\ mDelegateVector \in Seq(1..Len(made))
  BY LenProperties DEF OneOwner, DelegatesTypeOK
<1>2. before \in Seq(1..Len(made)) /\ Len(before) \in Nat /\ Passed \in Nat
      /\ \A i \in (iteration + 1)..Len(mDelegateVector) : mDelegateVector[i] = before[i - iteration + Passed]
  BY LenProperties DEF LoopInv
<1>3. Passed + 1 \in 1..Len(before)
  BY <1>1, <1>2 DEF Passed
<1>4. current = before[Passed + 1]
  <2>1. iteration + 1 \in (iteration + 1)..Len(mDelegateVector)
    BY <1>1
  <2>2. mDelegateVector[iteration + 1] = before[(iteration + 1) - iteration + Passed]
    BY <1>2, <2>1
  <2>3. (iteration + 1) - iteration + Passed = Passed + 1
    BY <1>1, <1>2
  <2> QED
    BY <2>2, <2>3 DEF current
<1>5. current \in 1..Len(made)
  BY <1>2, <1>3, <1>4, ElementOfSeq
<1>6. 1..(Passed + 1) = (1..Passed) \cup {Passed + 1}
  BY <1>2
<1>7. /\ Matches(made[current], request) =>
            Found(Passed + 1) = Found(Passed) \cup {Passed + 1} /\ Spared(Passed + 1) = Spared(Passed)
      /\ ~Matches(made[current], request) =>
            Found(Passed + 1) = Found(Passed) /\ Spared(Passed + 1) = Spared(Passed) \cup {Passed + 1}
  BY <1>4, <1>6 DEF Found, Spared
<1>8. Found(Passed) \in SUBSET (1..Passed) /\ Spared(Passed) \in SUBSET (1..Passed)
  BY DEF Found, Spared
<1> QED
  BY <1>1, <1>2, <1>3, <1>4, <1>5, <1>7, <1>8

\* A match leaves the vector, and the next element moves to its place.
LEMMA RemoveCurrentInv == ASSUME OneOwner, LoopInv, RemoveCurrent PROVE LoopInv'
<1> DEFINE k == Passed  listing == ~request.deleteInstances /\ request.hasOut
<1>1. /\ duty = "removing" /\ iteration < currentDelegateCount /\ Matches(made[current], request)
      /\ deleted' = IF request.deleteInstances THEN deleted \cup {current} ELSE deleted
      /\ out' = IF listing THEN Append(out, current) ELSE out
      /\ mDelegateVector' = Erased(mDelegateVector, iteration + 1, 1)
      /\ iteration' = iteration /\ duty' = duty
      /\ made' = made /\ request' = request /\ before' = before
  BY DEF RemoveCurrent, IterationAfterRemoval, memoryVars
<1>2. /\ iteration \in Nat /\ Len(mDelegateVector) \in Nat /\ iteration < Len(mDelegateVector)
      /\ Len(before) \in Nat /\ k \in Nat /\ k + 1 \in 1..Len(before)
      /\ mDelegateVector \in Seq(1..Len(made)) /\ before \in Seq(1..Len(made))
      /\ current = before[k + 1] /\ current \in 1..Len(made)
      /\ Found(k) \in SUBSET (1..k) /\ Spared(k) \in SUBSET (1..k)
      /\ Found(k + 1) = Found(k) \cup {k + 1} /\ Spared(k + 1) = Spared(k)
  BY <1>1, NextOfBefore
<1>3. /\ Len(mDelegateVector') = Len(mDelegateVector) - 1
      /\ \A i \in 1..(Len(mDelegateVector) - 1) :
            mDelegateVector'[i] = IF i < iteration + 1 THEN mDelegateVector[i] ELSE mDelegateVector[i + 1]
  <2> DEFINE T == 1..Len(made)  next == iteration + 1
  <2>1. next \in Nat \ {0} /\ next + 1 <= Len(mDelegateVector) + 1 /\ 1 \in Nat /\ mDelegateVector \in Seq(T)
    BY <1>2
  <2> HIDE DEF T, next
  <2>2. /\ Len(Erased(mDelegateVector, next, 1)) = Len(mDelegateVector) - 1
        /\ \A i \in 1..(Len(mDelegateVector) - 1) : Erased(mDelegateVector, next, 1)[i] =
              IF i < next THEN mDelegateVector[i] ELSE mDelegateVector[i + 1]
    BY <2>1, ErasedIsShorter
  <2> QED
    BY <1>1, <2>2 DEF next
<1>4. Passed' = k + 1
  <2>1. Passed' = Len(before) - ((Len(mDelegateVector) - 1) - iteration)
    BY <1>1, <1>3 DEF Passed
  <2>2. k = Len(before) - (Len(mDelegateVector) - iteration)
    BY DEF Passed
  <2> HIDE DEF k
  <2> QED
    BY <1>2, <2>1, <2>2
<1>5. Found(Passed)' = Found(k) \cup {k + 1} /\ Spared(Passed)' = Spared(k)
  <2>1. Found(Passed)' = Found(k + 1) /\ Spared(Passed)' = Spared(k + 1)
    BY <1>1, <1>4 DEF Found, Spared
  <2> QED
    BY <1>2, <2>1
<1>6. /\ out \in Seq(1..Len(made))
      /\ Lists(mDelegateVector, iteration, before, Spared(k))
      /\ IF listing THEN Lists(out, Len(out), before, Found(k)) ELSE out = <<>>
      /\ \A i \in (iteration + 1)..Len(mDelegateVector) : mDelegateVector[i] = before[i - iteration + k]
      /\ request.deleteInstances => \A i \in Found(k) : before[i] \in deleted
      /\ ~request.deleteInstances => \A i \in 1..Len(before) : before[i] \notin deleted
  BY <1>1 DEF LoopInv
<1> HIDE DEF k
<1>7. Lists(mDelegateVector', iteration, before, Spared(k))
  <2>1. \A i \in 1..iteration : mDelegateVector'[i] = mDelegateVector[i]
    <3>1. \A i \in 1..iteration : i \in 1..(Len(mDelegateVector) - 1) /\ i < iteration + 1
      BY <1>2
    <3> QED
      BY <1>3, <3>1
  <2> QED
    BY <1>2, <1>6, <2>1, ListsKept
<1>8. ASSUME NEW i \in (iteration + 1)..(Len(mDelegateVector) - 1)
      PROVE  mDelegateVector'[i] = before[i - iteration + (k + 1)]
  <2>1. /\ i \in 1..(Len(mDelegateVector) - 1) /\ ~(i < iteration + 1)
        /\ i + 1 \in (iteration + 1)..Len(mDelegateVector)
        /\ (i + 1) - iteration + k = i - iteration + (k + 1)
    BY <1>2
  <2> QED
    BY <1>3, <1>6, <2>1
<1>9. /\ out' \in Seq(1..Len(made))
      /\ IF listing THEN Lists(out', Len(out'), before, Found(k) \cup {k + 1}) ELSE out' = <<>>
  <2>1. CASE listing
    <3>1. /\ out' = Append(out, current) /\ out' \in Seq(1..Len(made)) /\ Len(out') = Len(out) + 1
          /\ out'[Len(out) + 1] = before[k + 1] /\ \A i \in 1..Len(out) : out'[i] = out[i]
      BY <1>1, <1>2, <1>6, <2>1, AppendProperties
    <3>2. Lists(out', Len(out) + 1, before, Found(k) \cup {k + 1})
      BY <1>2, <1>6, <2>1, <3>1, ListsGrow
    <3> QED
      BY <2>1, <3>1, <3>2
  <2>2. CASE ~listing
    BY <1>1, <1>6, <2>2
  <2> QED
    BY <2>1, <2>2
<1>10. /\ request.deleteInstances => \A i \in Found(k) \cup {k + 1} : before[i] \in deleted'
       /\ ~request.deleteInstances => \A i \in 1..Len(before) : before[i] \notin deleted'
  BY <1>1, <1>2, <1>6
<1>11. iteration' <= Len(mDelegateVector') /\ Passed' \in Nat /\ Passed' <= Len(before')
  BY <1>1, <1>2, <1>3, <1>4
<1>12. Lists(mDelegateVector, iteration, before, Spared(Passed))'
       /\ (Lists(out', Len(out'), before, Found(k) \cup {k + 1}) => Lists(out, Len(out), before, Found(Passed))')
  BY <1>1, <1>5, <1>7 DEF Lists
<1> QED
  BY <1>1, <1>2, <1>3, <1>4, <1>5, <1>8, <1>9, <1>10, <1>11, <1>12 DEF LoopInv

\* What does not match stays, and is behind the loop.
LEMMA KeepCurrentInv == ASSUME OneOwner, LoopInv, KeepCurrent PROVE LoopInv'
<1> DEFINE k == Passed  listing == ~request.deleteInstances /\ request.hasOut
<1>1. /\ duty = "removing" /\ iteration < currentDelegateCount /\ ~Matches(made[current], request)
      /\ iteration' = iteration + 1 /\ duty' = duty /\ out' = out
      /\ made' = made /\ request' = request /\ before' = before
      /\ mDelegateVector' = mDelegateVector /\ deleted' = deleted
  BY DEF KeepCurrent, memoryVars, setVars
<1>2. /\ iteration \in Nat /\ Len(mDelegateVector) \in Nat /\ iteration < Len(mDelegateVector)
      /\ Len(before) \in Nat /\ k \in Nat /\ k + 1 \in 1..Len(before)
      /\ before \in Seq(1..Len(made)) /\ current = before[k + 1]
      /\ Spared(k) \in SUBSET (1..k)
      /\ Found(k + 1) = Found(k) /\ Spared(k + 1) = Spared(k) \cup {k + 1}
  BY <1>1, NextOfBefore
<1>3. Passed' = k + 1
  BY <1>1, <1>2 DEF Passed
<1>4. Found(Passed)' = Found(k) /\ Spared(Passed)' = Spared(k) \cup {k + 1}
  <2>1. Found(Passed)' = Found(k + 1) /\ Spared(Passed)' = Spared(k + 1)
    BY <1>1, <1>3 DEF Found, Spared
  <2> QED
    BY <1>2, <2>1
<1>5. /\ out \in Seq(1..Len(made))
      /\ Lists(mDelegateVector, iteration, before, Spared(k))
      /\ IF listing THEN Lists(out, Len(out), before, Found(k)) ELSE out = <<>>
      /\ \A i \in (iteration + 1)..Len(mDelegateVector) : mDelegateVector[i] = before[i - iteration + k]
      /\ request.deleteInstances => \A i \in Found(k) : before[i] \in deleted
      /\ ~request.deleteInstances => \A i \in 1..Len(before) : before[i] \notin deleted
  BY <1>1 DEF LoopInv
<1> HIDE DEF k
<1>6. Lists(mDelegateVector, iteration + 1, before, Spared(k) \cup {k + 1})
  BY <1>2, <1>5, ListsGrow DEF current
<1>7. ASSUME NEW i \in ((iteration + 1) + 1)..Len(mDelegateVector)
      PROVE  mDelegateVector[i] = before[i - (iteration + 1) + (k + 1)]
  <2>1. i \in (iteration + 1)..Len(mDelegateVector) /\ i - iteration + k = i - (iteration + 1) + (k + 1)
    BY <1>2
  <2> QED
    BY <1>5, <2>1
<1>8. iteration' <= Len(mDelegateVector') /\ Passed' \in Nat /\ Passed' <= Len(before')
  BY <1>1, <1>2, <1>3
<1>9. Lists(mDelegateVector, iteration, before, Spared(Passed))'
      /\ (Lists(out, Len(out), before, Found(k)) => Lists(out, Len(out), before, Found(Passed))')
  BY <1>1, <1>4, <1>6 DEF Lists
<1> QED
  BY <1>1, <1>2, <1>3, <1>4, <1>5, <1>7, <1>8, <1>9 DEF LoopInv

\* No other step comes between those of a loop.
LEMMA LoopNextInv == OneOwner /\ LoopInv /\ [DelegatesNext]_delegateVars => LoopInv'
<1> SUFFICES ASSUME OneOwner, LoopInv, [DelegatesNext]_delegateVars PROVE LoopInv'
  OBVIOUS
<1>1. ASSUME duty # "removing", duty' # "removing", out' = out, duty' = "idle" => iteration' = 0 PROVE LoopInv'
  BY <1>1 DEF LoopInv
<1>2. CASE \/ \E d \in Delegate : NewDelegate(d)
           \/ \E d \in Held : CacheDelegate(d) \/ AddDelegate(d)
           \/ \E d \in cached, generic \in BOOLEAN : DeleteCached(d, generic)
           \/ \E i, n \in 0..Len(mDelegateVector) : erase(i, n)
           \/ \E d \in Elements(mDelegateVector), deleteInstance \in BOOLEAN : RemoveDelegate(d, deleteInstance)
  <2>1. duty = "idle" /\ UNCHANGED <<duty, loopVars>>
    BY <1>2 DEF NewDelegate, CacheDelegate, AddDelegate, DeleteCached, erase, RemoveDelegate
  <2> QED
    BY <1>1, <2>1 DEF loopVars, LoopInv
<1>3. CASE \/ BeginInvoke \/ BeginCall \/ FunctionRemoves \/ FunctionAdds \/ CallReturns
           \/ RunsPastEnd \/ DestroySet
  <2>1. /\ duty \in {"idle", "invoking", "calling", "moved"}
        /\ duty' \in {"invoking", "calling", "moved", "lost", "gone"} /\ out' = out
    BY <1>3 DEF BeginInvoke, BeginCall, FunctionRemoves, FunctionAdds, InFunction, CallReturns,
       RunsPastEnd, DestroySet, loopVars
  <2> QED
    BY <1>1, <2>1
<1>4. CASE EndRemoval \/ CallThrows \/ EndInvoke
  BY <1>4 DEF EndRemoval, CallThrows, EndInvoke, Finished, LoopInv
<1>5. CASE UNCHANGED delegateVars
  BY <1>5 DEF delegateVars, setVars, loopVars, memoryVars, LoopInv, Passed, Found, Spared, Lists
<1> QED
  BY <1>2, <1>3, <1>4, <1>5, BeginLoop, RemoveCurrentInv, KeepCurrentInv DEF DelegatesNext

\* For any set and request, a removal takes all matches and only these, and
\* keeps the order of the rest (easydelegate.hpp:318-396).
THEOREM RemovalIsComplete == DelegatesSpec => RemovesAllMatches
<1>1. DelegatesInit => LoopInv
  BY DEF DelegatesInit, LoopInv
<1>2. ASSUME OneOwner, LoopInv, [DelegatesNext]_delegateVars, duty = "removing", duty' = "idle"
      PROVE  LET places == 1..Len(before)
                 matching == {i \in places : Matches(made[before[i]], request)}
             IN  /\ Lists(mDelegateVector, Len(mDelegateVector), before, places \ matching)
                 /\ IF ~request.deleteInstances /\ request.hasOut
                    THEN Lists(out, Len(out), before, matching) ELSE out = <<>>
                 /\ \A i \in matching : before[i] \in deleted <=> request.deleteInstances
  <2>1. EndRemoval
    BY <1>2 DEF DelegatesNext, NewDelegate, CacheDelegate, AddDelegate, DeleteCached, erase, RemoveDelegate,
       RemoveDelegates, RemoveCurrent, KeepCurrent, BeginInvoke, BeginCall, FunctionRemoves, FunctionAdds,
       InFunction, CallReturns, CallThrows, EndInvoke, RunsPastEnd, DestroySet, delegateVars
  <2>2. Len(mDelegateVector) \in Nat /\ Len(before) \in Nat /\ iteration \in Nat
        /\ iteration >= Len(mDelegateVector) /\ iteration <= Len(mDelegateVector)
    BY <1>2, <2>1, LenProperties DEF EndRemoval, OneOwner, DelegatesTypeOK, LoopInv
  <2>3. iteration = Len(mDelegateVector) /\ Passed = Len(before)
    BY <2>2 DEF Passed
  <2>4. /\ Lists(mDelegateVector, Len(mDelegateVector), before, Spared(Len(before)))
        /\ IF ~request.deleteInstances /\ request.hasOut
           THEN Lists(out, Len(out), before, Found(Len(before))) ELSE out = <<>>
        /\ request.deleteInstances => \A i \in Found(Len(before)) : before[i] \in deleted
        /\ ~request.deleteInstances => \A i \in 1..Len(before) : before[i] \notin deleted
    BY <1>2, <2>3 DEF LoopInv
  <2>5. Spared(Len(before)) = (1..Len(before)) \ Found(Len(before))
        /\ Found(Len(before)) = {i \in 1..Len(before) : Matches(made[before[i]], request)}
    BY DEF Spared, Found
  <2>6. \A i \in Found(Len(before)) : before[i] \in deleted <=> request.deleteInstances
    BY <2>4, <2>5
  <2> QED
    BY <2>4, <2>5, <2>6
<1>3. OneOwner /\ LoopInv /\ [DelegatesNext]_delegateVars =>
        [duty = "removing" /\ duty' = "idle" =>
          LET places == 1..Len(before)
              matching == {i \in places : Matches(made[before[i]], request)}
          IN  /\ Lists(mDelegateVector, Len(mDelegateVector), before, places \ matching)
              /\ IF ~request.deleteInstances /\ request.hasOut
                 THEN Lists(out, Len(out), before, matching) ELSE out = <<>>
              /\ \A i \in matching : before[i] \in deleted <=> request.deleteInstances]_delegateVars
  BY <1>2
<1> QED
  BY <1>1, <1>3, LoopNextInv, DelegatesHaveOneOwner, PTL DEF DelegatesSpec, RemovesAllMatches

-----------------------------------------------------------------------------
(* Arrays and events                                                       *)

\* What a sequence with an element inserted has at each place.
LEMMA InsertAtCells ==
    ASSUME NEW T, NEW s \in Seq(T), NEW p \in 1..(Len(s) + 1), NEW e \in T
    PROVE  /\ Sequence!InsertAt(s, p, e) \in Seq(T)
           /\ Len(Sequence!InsertAt(s, p, e)) = Len(s) + 1
           /\ \A k \in 1..(Len(s) + 1) :
                 Sequence!InsertAt(s, p, e)[k]
                 = IF k < p THEN s[k] ELSE IF k = p THEN e ELSE s[k - 1]
<1> DEFINE front == SubSeq(s, 1, p - 1)
           back == SubSeq(s, p, Len(s))
           both == front \o <<e>>
<1>1. Len(s) \in Nat /\ p \in Nat \ {0} /\ p <= Len(s) + 1 /\ \A i \in 1..Len(s) : s[i] \in T
  BY LenProperties, ElementOfSeq
<1>2. front \in Seq(T) /\ Len(front) = p - 1 /\ \A i \in 1..(p - 1) : front[i] = s[i]
  <2>1. 1 \in Int /\ p - 1 \in Int /\ (p - 1) - 1 + 1 = p - 1 /\ \A i \in 1..(p - 1) : i \in 1..Len(s) /\ 1 + i - 1 = i
        /\ (IF 1 <= p - 1 THEN (p - 1) - 1 + 1 ELSE 0) = p - 1
    BY <1>1
  <2> QED
    BY <1>1, <2>1, SubSeqProperties
<1>3. /\ back \in Seq(T) /\ Len(back) = Len(s) - p + 1
      /\ \A i \in 1..(Len(s) - p + 1) : back[i] = s[p + i - 1]
  <2>1. p \in Int /\ Len(s) \in Int /\ \A i \in p..Len(s) : i \in 1..Len(s)
        /\ (IF p <= Len(s) THEN Len(s) - p + 1 ELSE 0) = Len(s) - p + 1
    BY <1>1
  <2> QED
    BY <1>1, <2>1, SubSeqProperties
<1>4. <<e>> \in Seq(T) /\ Len(<<e>>) = 1 /\ <<e>>[1] = e
  OBVIOUS
<1> HIDE DEF front, back
<1>5. /\ both \in Seq(T) /\ Len(both) = p
      /\ \A i \in 1..p : both[i] = IF i <= p - 1 THEN front[i] ELSE <<e>>[i - (p - 1)]
  <2>1. Len(front) + Len(<<e>>) = p
    BY <1>1, <1>2, <1>4
  <2> DEFINE one == <<e>>
  <2> HIDE DEF one
  <2>2. one \in Seq(T) /\ Len(one) = 1
    BY <1>4 DEF one
  <2>3. /\ front \o one \in Seq(T) /\ Len(front \o one) = Len(front) + Len(one)
        /\ \A i \in 1..Len(front) + Len(one) :
              (front \o one)[i] = IF i <= Len(front) THEN front[i] ELSE one[i - Len(front)]
    BY <1>2, <2>2, ConcatProperties
  <2> QED
    BY <1>2, <2>1, <2>3 DEF one
<1>6. \A i \in 1..p : both[i] = IF i < p THEN s[i] ELSE e
  <2>1. \A i \in 1..p : IF i < p THEN i <= p - 1 /\ i \in 1..(p - 1) ELSE ~(i <= p - 1) /\ i - (p - 1) = 1
    BY <1>1
  <2> QED
    BY <1>2, <1>4, <1>5, <2>1
<1> HIDE DEF both
<1> DEFINE all == both \o back
<1>7. /\ all \in Seq(T) /\ Len(all) = Len(s) + 1
      /\ \A i \in 1..(Len(s) + 1) : all[i] = IF i <= p THEN both[i] ELSE back[i - p]
  <2>1. Len(both) + Len(back) = Len(s) + 1
    BY <1>1, <1>3, <1>5
  <2>2. /\ both \o back \in Seq(T) /\ Len(both \o back) = Len(both) + Len(back)
        /\ \A i \in 1..Len(both) + Len(back) :
              (both \o back)[i] = IF i <= Len(both) THEN both[i] ELSE back[i - Len(both)]
    BY <1>3, <1>5, ConcatProperties
  <2> QED
    BY <1>5, <2>1, <2>2
<1>8. all = Sequence!InsertAt(s, p, e)
  BY DEF Sequence!InsertAt, both, front, back
<1> HIDE DEF all
<1>9. ASSUME NEW k \in 1..(Len(s) + 1)
      PROVE  all[k] = IF k < p THEN s[k] ELSE IF k = p THEN e ELSE s[k - 1]
  <2>1. CASE k <= p
    <3>1. k \in 1..p /\ (~(k < p) => k = p)
      BY <1>1, <2>1
    <3> QED
      BY <1>6, <1>7, <2>1, <3>1
  <2>2. CASE ~(k <= p)
    <3>1. k - p \in 1..(Len(s) - p + 1) /\ p + (k - p) - 1 = k - 1 /\ ~(k < p) /\ k # p
      BY <1>1, <2>2
    <3> QED
      BY <1>3, <1>7, <2>2, <3>1
  <2> QED
    BY <2>1, <2>2
<1> QED
  BY <1>7, <1>8, <1>9

\* Insert of the first or second place does what an insertion should.
LEMMA InsertInFront ==
    ASSUME NEW T, NEW a \in Seq(T), NEW e \in T, NEW index \in {0, 1}, index <= Len(a)
    PROVE  /\ Insert(a, e, index) = Sequence!InsertAt(a, index + 1, e)
           /\ Insert(a, e, index) \in Seq(T) /\ ~InsertOverruns(a, index)
<1> DEFINE L == Len(a)
           fresh == Fresh(L + 1)
           front == Copied(fresh, before_index(index), a, 0, index)
           both == Copied(front, after_index(a, index), a, index, L - index)
           new == [both EXCEPT ![index + 1] = e]
<1>1. L \in Nat /\ DOMAIN a = 1..L
  BY LenProperties
<1> HIDE DEF L
<1>2. DOMAIN fresh = 1..(L + 1)
  BY DEF Fresh
<1> HIDE DEF fresh
<1>3. DOMAIN front = 1..(L + 1) /\ (index = 1 => front[1] = a[1])
  <2>1. DOMAIN front = 1..(L + 1)
    BY <1>2 DEF Copied
  <2>2. ASSUME index = 1 PROVE front[1] = a[1]
    <3>1. before_index(index) = 0 /\ 0 < 1 /\ 1 <= 0 + 1 /\ 0 + 1 - 0 = 1 /\ 1 \in 1..L /\ 1 \in 1..(L + 1)
      BY <1>1, <2>2 DEF before_index, L
    <3> QED
      BY <1>1, <1>2, <2>2, <3>1 DEF Copied
  <2> QED
    BY <2>1, <2>2
<1> HIDE DEF front
<1>4. \A k \in 1..(L + 1) : both[k] = IF k > index + 1 THEN a[k - 1] ELSE front[k]
  <2> DEFINE to == after_index(a, index)
  <2>1. to = IF index >= L THEN L ELSE index + 1
    BY DEF after_index, L
  <2> HIDE DEF to
  <2>2. index = 0 \/ index = 1
    OBVIOUS
  <2>3. ASSUME NEW k \in 1..(L + 1), k > index + 1
        PROVE  to < k /\ k <= to + (L - index) /\ index + k - to = k - 1 /\ k - 1 \in 1..L
    BY <1>1, <2>1, <2>2, <2>3 DEF L
  <2>4. ASSUME NEW k \in 1..(L + 1), ~(k > index + 1)
        PROVE  ~(to < k /\ k <= to + (L - index))
    BY <1>1, <2>1, <2>2, <2>4 DEF L
  <2>5. both = [k \in 1..(L + 1) |->
                  IF to < k /\ k <= to + (L - index) /\ index + k - to \in 1..L
                  THEN a[index + k - to] ELSE front[k]]
    BY <1>1, <1>3 DEF Copied, to
  <2> HIDE DEF both
  <2> QED
    BY <2>3, <2>4, <2>5
<1>5. DOMAIN both = 1..(L + 1)
  BY <1>3 DEF Copied
<1>6. index + 1 \in 1..(L + 1)
  BY <1>1 DEF L
<1> HIDE DEF both
<1>7. /\ new = [k \in 1..(L + 1) |-> new[k]]
      /\ \A k \in 1..(L + 1) :
            new[k] = IF k < index + 1 THEN a[k] ELSE IF k = index + 1 THEN e ELSE a[k - 1]
  <2>1. DOMAIN new = 1..(L + 1) /\ new = [k \in 1..(L + 1) |-> IF k = index + 1 THEN e ELSE both[k]]
    BY <1>5
  <2> HIDE DEF new
  <2>2. ASSUME NEW k \in 1..(L + 1), k < index + 1 PROVE index = 1 /\ k = 1
    BY <1>1, <2>2
  <2>3. ASSUME NEW k \in 1..(L + 1), ~(k < index + 1), k # index + 1 PROVE k > index + 1
    BY <1>1, <2>3
  <2>4. ASSUME NEW k \in 1..(L + 1)
        PROVE  new[k] = IF k < index + 1 THEN a[k] ELSE IF k = index + 1 THEN e ELSE a[k - 1]
    <3>1. CASE k < index + 1
      <4>1. index = 1 /\ k = 1 /\ k # index + 1 /\ ~(k > index + 1)
        BY <2>2, <3>1
      <4> QED
        BY <1>3, <1>4, <2>1, <3>1, <4>1
    <3>2. CASE k = index + 1
      BY <2>1, <3>2
    <3>3. CASE ~(k < index + 1) /\ k # index + 1
      BY <1>4, <2>1, <2>3, <3>3
    <3> QED
      BY <3>1, <3>2, <3>3
  <2> QED
    BY <2>1, <2>4
<1>8. Insert(a, e, index) = new
  BY DEF Insert, new, both, front, fresh, L
<1> DEFINE wish == Sequence!InsertAt(a, index + 1, e)
<1>9. /\ wish \in Seq(T) /\ Len(wish) = L + 1
      /\ \A k \in 1..(L + 1) :
            wish[k] = IF k < index + 1 THEN a[k] ELSE IF k = index + 1 THEN e ELSE a[k - 1]
  <2> DEFINE p == index + 1
  <2>1. p \in 1..(Len(a) + 1)
    BY <1>6 DEF L
  <2> HIDE DEF p
  <2>2. /\ Sequence!InsertAt(a, p, e) \in Seq(T)
        /\ Len(Sequence!InsertAt(a, p, e)) = Len(a) + 1
        /\ \A k \in 1..(Len(a) + 1) : Sequence!InsertAt(a, p, e)[k]
                                      = IF k < p THEN a[k] ELSE IF k = p THEN e ELSE a[k - 1]
    BY <2>1, InsertAtCells
  <2> QED
    BY <2>2 DEF L, p
<1> HIDE DEF new, wish
<1>10. new = wish
  <2>1. wish = [k \in 1..(L + 1) |-> wish[k]]
    BY <1>9, LenProperties
  <2>2. \A k \in 1..(L + 1) : new[k] = wish[k]
    BY <1>7, <1>9
  <2> QED
    BY <1>7, <2>1, <2>2
<1>11. ~InsertOverruns(a, index)
  BY <1>1 DEF InsertOverruns, before_index, L
<1> QED
  BY <1>8, <1>9, <1>10, <1>11 DEF wish

\* What a resized array has is from the old one, or nothing yet.
LEMMA ResizedCells ==
    ASSUME NEW T, Junk \in T, NEW a \in Seq(T), NEW size \in Nat
    PROVE  Resize(a, size) \in Seq(T)
<1>1. DOMAIN a = 1..Len(a) /\ \A i \in 1..Len(a) : a[i] \in T
  BY LenProperties, ElementOfSeq
<1>2. Resize(a, size) = [k \in 1..size |-> IF 0 < k /\ k <= 0 + Len(a) /\ 0 + k - 0 \in DOMAIN a
                                           THEN a[0 + k - 0] ELSE Junk]
  BY DEF Resize, Copied, Fresh
<1>3. Resize(a, size) \in [1..size -> T]
  BY <1>1, <1>2
<1> QED
  BY <1>3, SeqDef

\* What the cells of an array may hold.
Stored == Handler \cup {Junk}

\* An array that was changed at its front alone is what it should be.
ArraysInv ==
    /\ DOMAIN arrays = List /\ DOMAIN intended = List /\ atFront \in [List -> BOOLEAN]
    /\ \A l \in List : atFront[l] => arrays[l] = intended[l] /\ arrays[l] \in Seq(Stored)
    /\ heap = "corrupt" => \E l \in List : ~atFront[l]
    /\ \A e \in Event : e \notin EventMapping => arrays[e] = <<>>

\* A change at the front must give what is wished; any other one may do anything.
LEMMA BecomesInv ==
    ASSUME ArraysInv, NEW l \in List, NEW cells, NEW overruns \in BOOLEAN, NEW wish,
           NEW front \in BOOLEAN, Becomes(l, cells, overruns, wish, front),
           front /\ atFront[l] => cells = wish /\ cells \in Seq(Stored) /\ ~overruns,
           EventMapping \subseteq EventMapping', l \in Event => l \in EventMapping'
    PROVE  ArraysInv'
<1>1. /\ arrays' = [arrays EXCEPT ![l] = cells] /\ intended' = [intended EXCEPT ![l] = wish]
      /\ heap' = IF overruns THEN "corrupt" ELSE "intact"
  BY DEF Becomes
<1>2. atFront' = [atFront EXCEPT ![l] = atFront[l] /\ front]
  BY DEF Becomes
<1>3. DOMAIN arrays' = List /\ DOMAIN intended' = List
  BY <1>1 DEF ArraysInv
<1>4. atFront' \in [List -> BOOLEAN]
  BY <1>2 DEF ArraysInv
<1>5. (atFront'[l] => front /\ atFront[l]) /\ \A m \in List \ {l} : atFront'[m] = atFront[m]
  BY <1>2 DEF ArraysInv
<1>6. /\ arrays'[l] = cells /\ intended'[l] = wish
      /\ \A m \in List \ {l} : arrays'[m] = arrays[m] /\ intended'[m] = intended[m]
  BY <1>1 DEF ArraysInv
<1>7. \A m \in List : atFront'[m] => arrays'[m] = intended'[m] /\ arrays'[m] \in Seq(Stored)
  BY <1>5, <1>6, Zenon DEF ArraysInv
<1>8. heap' = "corrupt" => \E m \in List : ~atFront'[m]
  BY <1>1, <1>5
<1>9. \A e \in Event : e \notin EventMapping' => arrays'[e] = <<>>
  BY <1>6 DEF ArraysInv, List
<1> QED
  BY <1>3, <1>4, <1>7, <1>8, <1>9 DEF ArraysInv

\* Insertions.
LEMMA InsertIntoInv ==
    ASSUME ArraysInv, NEW l \in List, NEW h \in Handler, NEW index, InsertInto(l, h, index),
           atFront[l] => index \in Nat /\ index <= Len(arrays[l]),
           EventMapping \subseteq EventMapping', l \in Event => l \in EventMapping'
    PROVE  ArraysInv'
<1> DEFINE cells == Insert(arrays[l], h, index)
           overruns == InsertOverruns(arrays[l], index)
           wish == Sequence!InsertAt(intended[l], index + 1, h)
           front == index < 2
<1>1. Becomes(l, cells, overruns, wish, front)
  BY DEF InsertInto
<1>2. front \in BOOLEAN /\ overruns \in BOOLEAN
  BY DEF InsertOverruns
<1>3. ASSUME front, atFront[l] PROVE cells = wish /\ cells \in Seq(Stored) /\ ~overruns
  <2>1. /\ arrays[l] = intended[l] /\ arrays[l] \in Seq(Stored) /\ h \in Stored
        /\ index \in {0, 1} /\ index <= Len(arrays[l])
    BY <1>3 DEF ArraysInv, Stored
  <2> QED
    BY <2>1, InsertInFront
<1> HIDE DEF cells, overruns, wish, front
<1> QED
  BY <1>1, <1>2, <1>3, BecomesInv

\* The changes of an array that is not an event's.
LEMMA LocalInv == ArraysInv /\ LocalChange => ArraysInv'
<1> SUFFICES ASSUME ArraysInv, LocalChange PROVE ArraysInv'
  OBVIOUS
<1>0. /\ Local \in List /\ Local \notin Event /\ EventMapping' = EventMapping
      /\ atFront[Local] \in BOOLEAN
      /\ atFront[Local] => arrays[Local] = intended[Local] /\ arrays[Local] \in Seq(Stored)
                           /\ Len(arrays[Local]) \in Nat
  BY EventManagerAssumption, LenProperties DEF LocalChange, ArraysInv, List
<1>1. ASSUME NEW h \in Handler, Append_(Local, h) PROVE ArraysInv'
  BY <1>0, <1>1, InsertIntoInv DEF Append_
<1>2. ASSUME NEW h \in Handler, Prepend(Local, h) PROVE ArraysInv'
  BY <1>0, <1>2, InsertIntoInv DEF Prepend
<1>3. ASSUME NEW h \in Handler, NEW i \in 0..Len(arrays[Local]), InsertInto(Local, h, i)
      PROVE  ArraysInv'
  <2>1. atFront[Local] => i \in Nat /\ i <= Len(arrays[Local])
    BY <1>0
  <2> QED
    BY <1>0, <1>3, <2>1, InsertIntoInv
<1>4. ASSUME NEW h \in Handler, NEW i \in 0..(Len(arrays[Local]) - 1), Assign(Local, i, h)
      PROVE  ArraysInv'
  <2> DEFINE cells == [arrays[Local] EXCEPT ![i + 1] = h]
             wish == [intended[Local] EXCEPT ![i + 1] = h]
  <2>1. Becomes(Local, cells, FALSE, wish, TRUE)
    BY <1>4 DEF Assign
  <2>2. ASSUME atFront[Local] PROVE cells = wish /\ cells \in Seq(Stored)
    <3>1. i + 1 \in 1..Len(arrays[Local]) /\ h \in Stored
      BY <1>0, <2>2 DEF Stored
    <3> QED
      BY <1>0, <2>2, <3>1, ExceptSeq
  <2> HIDE DEF cells, wish
  <2> QED
    BY <1>0, <2>1, <2>2, BecomesInv
<1>5. ASSUME NEW i, RemoveFrom(Local, i) PROVE ArraysInv'
  <2> DEFINE overruns == RemoveOverruns(arrays[Local], i)
             cells == Remove(arrays[Local], i)
             wish == Sequence!RemoveAt(intended[Local], i + 1)
  <2>1. Becomes(Local, cells, overruns, wish, FALSE) /\ overruns \in BOOLEAN
    BY <1>5 DEF RemoveFrom, RemoveOverruns
  <2> HIDE DEF cells, wish, overruns
  <2> QED
    BY <1>0, <2>1, BecomesInv
<1>6. ASSUME NEW n \in 0..(Len(arrays[Local]) + 1), ResizeTo(Local, n) PROVE ArraysInv'
  <2> DEFINE cells == Resize(arrays[Local], n)
             wish == Resize(intended[Local], n)
             overruns == n < Len(arrays[Local])
             front == n >= Len(arrays[Local])
  <2>1. Becomes(Local, cells, overruns, wish, front) /\ overruns \in BOOLEAN /\ front \in BOOLEAN
    BY <1>6 DEF ResizeTo
  <2>2. ASSUME front, atFront[Local] PROVE cells = wish /\ cells \in Seq(Stored) /\ ~overruns
    <3>1. n \in Nat /\ Junk \in Stored /\ ~overruns
      BY <1>0, <2>2 DEF Stored
    <3> QED
      BY <1>0, <2>2, <3>1, ResizedCells
  <2> HIDE DEF cells, wish, overruns, front
  <2> QED
    BY <1>0, <2>1, <2>2, BecomesInv
<1> QED
  BY <1>1, <1>2, <1>3, <1>4, <1>5, <1>6 DEF LocalChange

\* Nothing else touches an array, except that the manager's end empties its own.
LEMMA EventsNextInv == ArraysInv /\ [EventsNext]_eventVars => ArraysInv'
<1> SUFFICES ASSUME ArraysInv, [EventsNext]_eventVars PROVE ArraysInv'
  OBVIOUS
<1>1. CASE LocalChange
  BY <1>1, LocalInv
<1>2. ASSUME NEW e \in Event, NEW h \in Handler, BindEvent(e, h) PROVE ArraysInv'
  <2>1. InsertInto(e, h, Len(arrays[e])) /\ EventMapping' = EventMapping \cup {e}
    BY <1>2 DEF BindEvent, Append_
  <2>2. e \in List /\ (atFront[e] => Len(arrays[e]) \in Nat /\ Len(arrays[e]) <= Len(arrays[e]))
    BY LenProperties DEF ArraysInv, List
  <2> QED
    BY <2>1, <2>2, InsertIntoInv
<1>3. CASE heap = "intact" /\ DestroyManager
  <2>1. /\ arrays' = [l \in List |-> IF l = Local THEN arrays[l] ELSE <<>>]
        /\ intended' = [l \in List |-> IF l = Local THEN intended[l] ELSE <<>>]
        /\ atFront' = [l \in List |-> IF l = Local THEN atFront[l] ELSE TRUE]
        /\ heap' = heap
    BY <1>3 DEF DestroyManager
  <2>2. <<>> \in Seq(Stored) /\ Local \notin Event
    BY EmptySeq, EventManagerAssumption
  <2>3. atFront' \in [List -> BOOLEAN]
    BY <2>1 DEF ArraysInv
  <2>4. \A l \in List : atFront'[l] => arrays'[l] = intended'[l] /\ arrays'[l] \in Seq(Stored)
    BY <2>1, <2>2 DEF ArraysInv
  <2>5. \A e \in Event : arrays'[e] = <<>>
    BY <2>1, <2>2 DEF List
  <2> QED
    BY <1>3, <2>1, <2>3, <2>4, <2>5 DEF ArraysInv
<1>4. CASE GetManager \/ UNCHANGED eventVars
  BY <1>4 DEF GetManager, eventVars, ArraysInv
<1> QED
  BY <1>1, <1>2, <1>3, <1>4 DEF EventsNext, EmitEvent

\* Arrays of any length: an array that is enlarged, assigned and inserted into
\* at its first two places alone is what it should be, and an event without a
\* binding has no list (Array.hpp:82-104, EventManager.cpp:40-56).
THEOREM ArraysAreExactInFront == EventsSpec => []FirstTwoPlacesExact
<1>1. EventsInit => ArraysInv
  <2>1. <<>> \in Seq(Stored)
    BY EmptySeq
  <2> QED
    BY <2>1 DEF EventsInit, ArraysInv, List
<1>2. ArraysInv => FirstTwoPlacesExact
  BY DEF ArraysInv, FirstTwoPlacesExact
<1> QED
  BY <1>1, <1>2, EventsNextInv, PTL DEF EventsSpec

-----------------------------------------------------------------------------
(* Hooks of the log                                                        *)

\* What the hooks before the index were given, and nothing while no Write runs.
LogInv ==
    /\ kiaro_logging_hooks \in Seq(Hook) /\ Len(kiaro_logging_hooks) <= MaxHooks
    /\ log_level \in Level
    /\ hookIndex \in 0..Len(kiaro_logging_hooks)
    /\ reached \in Seq([hook : Hook, text : {input}, level : {log_level}])
    /\ Len(reached) = hookIndex
    /\ \A i \in 1..hookIndex : reached[i].hook = kiaro_logging_hooks[i]
    /\ logPc # "hooks" => hookIndex = 0

\* Adding a hook keeps the table within its bounds and what was there before.
LEMMA AddHookExtends ==
    ASSUME kiaro_logging_hooks \in Seq(Hook), Len(kiaro_logging_hooks) <= MaxHooks,
           NEW hook \in Hook, AddHook(hook)
    PROVE  /\ kiaro_logging_hooks' \in Seq(Hook) /\ Len(kiaro_logging_hooks') <= MaxHooks
           /\ Len(kiaro_logging_hooks) <= Len(kiaro_logging_hooks')
           /\ \A i \in 1..Len(kiaro_logging_hooks) : kiaro_logging_hooks'[i] = kiaro_logging_hooks[i]
<1>1. Len(kiaro_logging_hooks) \in Nat /\ MaxHooks \in Nat
  BY LenProperties, LoggingAssumption
<1>2. CASE TableFull
  BY <1>1, <1>2 DEF AddHook
<1>3. CASE ~TableFull
  <2>1. kiaro_logging_hooks' = Append(kiaro_logging_hooks, hook)
    BY <1>3 DEF AddHook
  <2>2. /\ kiaro_logging_hooks' \in Seq(Hook)
        /\ Len(kiaro_logging_hooks') = Len(kiaro_logging_hooks) + 1
        /\ \A i \in 1..Len(kiaro_logging_hooks) : kiaro_logging_hooks'[i] = kiaro_logging_hooks[i]
    BY <2>1, AppendProperties
  <2> QED
    BY <1>1, <1>3, <2>2 DEF TableFull
<1> QED
  BY <1>2, <1>3

\* The table is empty when the program starts.
LEMMA LogInitInv == LoggingInit => LogInv
<1> SUFFICES ASSUME LoggingInit PROVE LogInv
  OBVIOUS
<1>1. kiaro_logging_hooks \in Seq(Hook) /\ Len(kiaro_logging_hooks) = 0
      /\ reached \in Seq([hook : Hook, text : {input}, level : {log_level}]) /\ Len(reached) = 0
  BY EmptySeq DEF LoggingInit
<1> QED
  BY <1>1, LoggingAssumption DEF LoggingInit, LogInv

\* A hook that is called is the one at the index, and is given the message.
LEMMA CallHookInv == LogInv /\ CallHook => LogInv'
<1> SUFFICES ASSUME LogInv, CallHook PROVE LogInv'
  OBVIOUS
<1> DEFINE Given == [hook : Hook, text : {input}, level : {log_level}]
           given == [hook |-> kiaro_logging_hooks[hookIndex + 1], text |-> input, level |-> log_level]
<1>1. /\ Len(kiaro_logging_hooks) \in Nat /\ hookIndex \in Nat
      /\ hookIndex + 1 \in 1..Len(kiaro_logging_hooks)
  BY LenProperties DEF LogInv, CallHook, MoreHooks
<1>2. given \in Given
  BY <1>1, ElementOfSeq DEF LogInv
<1>3. /\ reached' = Append(reached, given) /\ hookIndex' = hookIndex + 1
      /\ UNCHANGED <<logPc, input, log_level>> /\ logPc = "hooks"
  BY DEF CallHook
<1>4. /\ reached' \in Seq(Given) /\ Len(reached') = hookIndex + 1
      /\ \A i \in 1..hookIndex : reached'[i] = reached[i]
      /\ reached'[hookIndex + 1] = given
  <2>1. reached \in Seq(Given) /\ Len(reached) = hookIndex
    BY DEF LogInv
  <2> HIDE DEF Given, given
  <2> QED
    BY <1>2, <1>3, <2>1, AppendProperties
<1>5. /\ kiaro_logging_hooks' \in Seq(Hook) /\ Len(kiaro_logging_hooks') <= MaxHooks
      /\ Len(kiaro_logging_hooks) <= Len(kiaro_logging_hooks')
      /\ \A i \in 1..Len(kiaro_logging_hooks) : kiaro_logging_hooks'[i] = kiaro_logging_hooks[i]
  BY <1>1, AddHookExtends DEF LogInv, CallHook
<1>6. hookIndex' \in 0..Len(kiaro_logging_hooks')
  <2>1. Len(kiaro_logging_hooks') \in Nat
    BY <1>5, LenProperties
  <2> QED
    BY <1>1, <1>3, <1>5, <2>1
<1>7. ASSUME NEW i \in 1..hookIndex' PROVE reached'[i].hook = kiaro_logging_hooks'[i]
  <2>1. CASE i = hookIndex + 1
    BY <1>1, <1>4, <1>5, <2>1
  <2>2. CASE i # hookIndex + 1
    <3>1. i \in 1..hookIndex /\ i \in 1..Len(kiaro_logging_hooks)
      BY <1>1, <1>3, <2>2
    <3> QED
      BY <1>4, <1>5, <3>1 DEF LogInv
  <2> QED
    BY <2>1, <2>2
<1> QED
  BY <1>3, <1>4, <1>5, <1>6, <1>7 DEF LogInv

\* Every other step preserves the invariant, too.
LEMMA LogNextInv == LogInv /\ [LoggingNext]_logVars => LogInv'
<1> SUFFICES ASSUME LogInv, [LoggingNext]_logVars PROVE LogInv'
  OBVIOUS
<1>1. Len(kiaro_logging_hooks) \in Nat /\ hookIndex \in Nat
  BY LenProperties DEF LogInv
<1>2. CASE Initialize
  BY <1>2 DEF Initialize, LogInv
<1>3. CASE EndWrite
  <2>1. reached' \in Seq([hook : Hook, text : {input'}, level : {log_level'}]) /\ Len(reached') = 0
    BY <1>3, EmptySeq DEF EndWrite
  <2> QED
    BY <1>1, <1>3, <2>1, LoggingAssumption DEF EndWrite, LogInv
<1>4. ASSUME NEW hook \in Hook, AddHookOutside(hook) PROVE LogInv'
  <2>1. /\ kiaro_logging_hooks' \in Seq(Hook) /\ Len(kiaro_logging_hooks') <= MaxHooks
        /\ UNCHANGED <<logPc, input, log_level, hookIndex, reached>> /\ hookIndex = 0
    BY <1>4, AddHookExtends DEF AddHookOutside, callVars, LogInv
  <2>2. Len(kiaro_logging_hooks') \in Nat
    BY <2>1, LenProperties
  <2> QED
    BY <2>1, <2>2 DEF LogInv
<1>5. ASSUME NEW message \in Message, NEW level, BeginWrite(message, level) PROVE LogInv'
  <2>1. reached = <<>>
    <3>1. reached \in Seq([hook : Hook, text : {input}, level : {log_level}]) /\ Len(reached) = 0
      BY <1>5 DEF BeginWrite, LogInv
    <3> QED
      BY <3>1, EmptySeq
  <2>2. reached' \in Seq([hook : Hook, text : {input'}, level : {log_level'}]) /\ Len(reached') = 0
    BY <1>5, <2>1, EmptySeq DEF BeginWrite
  <2>3. log_level' \in Level
    BY <1>5, LoggingAssumption DEF BeginWrite, LevelOf
  <2> QED
    BY <1>1, <1>5, <2>2, <2>3 DEF BeginWrite, LogInv
<1>6. CASE UNCHANGED logVars
  BY <1>6 DEF logVars, callVars, LogInv
<1> QED
  BY <1>2, <1>3, <1>4, <1>5, <1>6, CallHookInv DEF LoggingNext

\* A Write that returns has given its message to every hook of the table, in
\* order, and the table is within its bounds, for a table of any size and hooks
\* that add any number of hooks.
THEOREM HooksAreReached == LoggingSpec => WriteReachesEveryHook
<1>1. LogInv /\ [LoggingNext]_logVars
        => [logPc = "hooks" /\ logPc' = "idle" =>
              /\ Len(reached) = Len(kiaro_logging_hooks) /\ Len(reached) <= MaxHooks
              /\ log_level \in Level
              /\ \A i \in 1..Len(reached) :
                    reached[i] = [hook |-> kiaro_logging_hooks[i], text |-> input,
                                  level |-> log_level]]_logVars
  <2> SUFFICES ASSUME LogInv, LoggingNext, logPc = "hooks", logPc' = "idle"
               PROVE  /\ Len(reached) = Len(kiaro_logging_hooks) /\ Len(reached) <= MaxHooks
                      /\ log_level \in Level
                      /\ \A i \in 1..Len(reached) :
                            reached[i] = [hook |-> kiaro_logging_hooks[i], text |-> input,
                                          level |-> log_level]
    BY DEF LogInv
  <2>1. EndWrite
    BY DEF LoggingNext, Initialize, CallHook, AddHookOutside, BeginWrite, callVars
  <2>2. hookIndex = Len(kiaro_logging_hooks)
    BY <2>1, LenProperties DEF EndWrite, MoreHooks, LogInv
  <2>3. ASSUME NEW i \in 1..Len(reached)
        PROVE  reached[i] = [hook |-> kiaro_logging_hooks[i], text |-> input, level |-> log_level]
    <3>1. reached[i] \in [hook : Hook, text : {input}, level : {log_level}]
      BY <2>3, ElementOfSeq DEF LogInv
    <3>2. reached[i].hook = kiaro_logging_hooks[i]
      BY <2>3 DEF LogInv
    <3> QED
      BY <3>1, <3>2
  <2> QED
    BY <2>2, <2>3 DEF LogInv
<1> QED
  BY LogInitInv, LogNextInv, <1>1, PTL DEF LoggingSpec, WriteReachesEveryHook
=============================================================================
