-------------------------- MODULE SynchListProofs --------------------------
(***************************************************************************)
(* Theorems about SynchList, for any number of threads and of items: the   *)
(* lock excludes, waiters live as long as they can be reached, no signal   *)
(* is lost, and only an empty list stops all threads.                      *)
(***************************************************************************)
EXTENDS SynchList, FiniteSetTheorems, TLAPS

(***************************************************************************)
(* The inductive invariant.  The properties themselves are nearly          *)
(* inductive: what they lack is which operation can be in Condition::Wait, *)
(* and that the items still to come are within the bound.                  *)
(***************************************************************************)

WaitInv == \A t \in Threads : at[t] \in {"wait", "blocked", "woken"} => op[t] = "RemoveFront"

BoundInv == appended + Cardinality(Appending) <= MaxItems

Inductive ==
    /\ TypeOK
    /\ MutualExclusion
    /\ HolderSurvivesSignal
    /\ WaiterLifetime
    /\ NoLostSignal
    /\ WaitInv
    /\ BoundInv

USE SynchListAssumption DEF SynchListAssumption

-----------------------------------------------------------------------------
(***************************************************************************)
(* The queue of waiters, under List::Append and List::RemoveFront.         *)
(***************************************************************************)

\* Append adds one element, and none twice if it was not in the list.
LEMMA AppendFacts ==
    ASSUME NEW S, NEW q \in Seq(S), NEW e \in S
    PROVE  /\ Append(q, e) \in Seq(S)
           /\ Append(q, e) # <<>>
           /\ Range(Append(q, e)) = Range(q) \cup {e}
           /\ IsInjective(q) /\ e \notin Range(q) => IsInjective(Append(q, e))
<1> DEFINE a == Append(q, e)
<1>1. /\ a \in Seq(S)
      /\ Len(a) = Len(q) + 1
      /\ \A i \in 1..Len(q) : a[i] = q[i]
      /\ a[Len(q) + 1] = e
      /\ DOMAIN a = 1..(Len(q) + 1)
      /\ DOMAIN q = 1..Len(q)
      /\ Len(q) \in Nat
  OBVIOUS
<1>2. a # <<>>
  BY <1>1
<1>3. Range(a) = Range(q) \cup {e}
  BY <1>1 DEF Range
<1>4. IsInjective(q) /\ e \notin Range(q) => IsInjective(a)
  BY <1>1 DEF Range, IsInjective
<1> QED
  BY <1>1, <1>2, <1>3, <1>4

\* RemoveFront takes the head out and leaves the other elements.
LEMMA TailFacts ==
    ASSUME NEW S, NEW q \in Seq(S), q # <<>>, IsInjective(q)
    PROVE  /\ Tail(q) \in Seq(S)
           /\ Head(q) \in S
           /\ Head(q) \in Range(q)
           /\ Range(Tail(q)) = Range(q) \ {Head(q)}
           /\ IsInjective(Tail(q))
<1> DEFINE r == Tail(q)
<1>1. /\ r \in Seq(S)
      /\ Len(q) \in Nat /\ Len(q) > 0
      /\ Len(r) = Len(q) - 1
      /\ \A i \in 1..Len(r) : r[i] = q[i + 1]
      /\ Head(q) = q[1]
      /\ DOMAIN r = 1..Len(r)
      /\ DOMAIN q = 1..Len(q)
      /\ q[1] \in S
  OBVIOUS
<1>2. Head(q) \in Range(q)
  BY <1>1 DEF Range
<1>3. IsInjective(r)
  <2>1. SUFFICES ASSUME NEW i \in 1..Len(r), NEW j \in 1..Len(r), r[i] = r[j]
                 PROVE  i = j
    BY <1>1 DEF IsInjective
  <2>2. i + 1 \in 1..Len(q) /\ j + 1 \in 1..Len(q) /\ q[i + 1] = q[j + 1]
    BY <1>1, <2>1
  <2> QED
    BY <1>1, <2>2 DEF IsInjective
<1>4. ASSUME NEW x \in Range(r) PROVE x \in Range(q) \ {Head(q)}
  <2>1. PICK i \in 1..Len(r) : x = q[i + 1]
    BY <1>1, <1>4 DEF Range
  <2>2. i + 1 \in 1..Len(q) /\ i + 1 # 1 /\ 1 \in 1..Len(q)
    BY <1>1
  <2> QED
    BY <1>1, <2>1, <2>2 DEF Range, IsInjective
<1>5. ASSUME NEW x \in Range(q), x # Head(q) PROVE x \in Range(r)
  <2>1. PICK i \in 1..Len(q) : x = q[i]
    BY <1>1 DEF Range
  <2>2. i - 1 \in 1..Len(r) /\ r[i - 1] = q[i]
    BY <1>1, <1>5, <2>1
  <2> QED
    BY <1>1, <2>1, <2>2 DEF Range
<1> QED
  BY <1>1, <1>2, <1>3, <1>4, <1>5

-----------------------------------------------------------------------------
(***************************************************************************)
(* The sets that are counted.                                              *)
(***************************************************************************)

(* Sets of threads are finite. *)
LEMMA ThreadsAreFinite ==
    ASSUME NEW S \in SUBSET Threads
    PROVE  IsFiniteSet(S) /\ Cardinality(S) \in Nat
  BY FS_Subset, FS_CardinalityType

(* The signalled waiters are finitely many, and counted by a natural number. *)
LEMMA SignalledFinite ==
    ASSUME TypeOK
    PROVE  IsFiniteSet(Signalled) /\ Cardinality(Signalled) \in Nat
<1>1. Signalled \in SUBSET Threads
  BY DEF TypeOK, Signalled
<1> QED
  BY <1>1, ThreadsAreFinite

(* The threads that will append are finitely many. *)
LEMMA AppendingFinite ==
    IsFiniteSet(Appending) /\ Cardinality(Appending) \in Nat
<1>1. Appending \in SUBSET Threads
  BY DEF Appending
<1> QED
  BY <1>1, ThreadsAreFinite

-----------------------------------------------------------------------------
(***************************************************************************)
(* Every step keeps the invariant.                                         *)
(***************************************************************************)

(* The list starts empty, with a free lock and nobody in an operation. *)
LEMMA InitialStates ==
    Init => Inductive
<1> SUFFICES ASSUME Init PROVE Inductive
  OBVIOUS
<1> USE DEF Init, Sem!Init
<1>1. TypeOK
  <2>1. Sem!TypeOK
    BY DEF Sem!TypeOK
  <2>2. at \in [Threads -> Places] /\ op \in [Threads -> Operations \cup {"none"}]
    BY DEF Places
  <2>3. waitQueue \in Seq(Threads) /\ list \in Seq(1..MaxItems) /\ appended \in 0..MaxItems
    OBVIOUS
  <2> QED
    BY <2>1, <2>2, <2>3 DEF TypeOK
<1>2. MutualExclusion /\ HolderSurvivesSignal /\ WaitInv
  BY DEF MutualExclusion, Inside, HolderSurvivesSignal, WaitInv
<1>3. WaiterLifetime /\ NoLostSignal
  BY DEF WaiterLifetime, IsInjective, Range, NoLostSignal
<1>4. BoundInv
  <2>1. Appending = {}
    BY DEF Appending
  <2>2. Cardinality(Appending) = 0
    BY <2>1, FS_EmptySet, Zenon
  <2> QED
    BY <2>2 DEF BoundInv
<1> QED
  BY <1>1, <1>2, <1>3, <1>4 DEF Inductive

\* Only a call of Append adds to the items that are still to come.
LEMMA CallKeeps ==
    ASSUME Inductive, NEW t \in Threads, NEW operation \in Operations, Call(t, operation)
    PROVE  Inductive'
<1> USE DEF Inductive, Call, Acquire, P, GoTo, Sem!TakeAtOnce, Sem!StartWaiting
<1>1. TypeOK'
  <2>1. Sem!TypeOK'
    BY DEF TypeOK, Sem!TypeOK
  <2>2. at' \in [Threads -> Places] /\ op' \in [Threads -> Operations \cup {"none"}]
    BY DEF TypeOK, Places
  <2> QED
    BY <2>1, <2>2 DEF TypeOK
<1>2. MutualExclusion'
  BY DEF TypeOK, Sem!TypeOK, MutualExclusion, Inside
<1>3. HolderSurvivesSignal'
  BY DEF TypeOK, MutualExclusion, Inside, HolderSurvivesSignal
<1>4. WaiterLifetime'
  BY DEF TypeOK, Sem!TypeOK, WaiterLifetime
<1>5. NoLostSignal'
  BY DEF NoLostSignal, Signalled
<1>6. WaitInv'
  BY DEF TypeOK, WaitInv
<1>7. BoundInv'
  <2>1. CASE operation = "Append"
    <3>1. Appending' = Appending \cup {t} /\ t \notin Appending
      BY <2>1 DEF TypeOK, Appending
    <3>2. Cardinality(Appending') = Cardinality(Appending) + 1
      BY <3>1, AppendingFinite, FS_AddElement
    <3> QED
      BY <2>1, <3>2, AppendingFinite DEF TypeOK, BoundInv
  <2>2. CASE operation # "Append"
    <3>1. Appending' = Appending
      BY <2>2 DEF TypeOK, Appending
    <3> QED
      BY <3>1 DEF BoundInv
  <2> QED
    BY <2>1, <2>2
<1> QED
  BY <1>1, <1>2, <1>3, <1>4, <1>5, <1>6, <1>7

(* A waiter gets the free lock at the start of its operation. *)
LEMMA AcquiredKeeps ==
    ASSUME Inductive, NEW t \in Threads, Acquired(t)
    PROVE  Inductive'
<1> USE DEF Inductive, Acquired, GoTo, Sem!TakeAfterWaiting
<1>1. TypeOK'
  <2>1. Sem!TypeOK'
    BY DEF TypeOK, Sem!TypeOK
  <2>2. at' \in [Threads -> Places]
    BY DEF TypeOK, Places
  <2> QED
    BY <2>1, <2>2 DEF TypeOK
<1>2. MutualExclusion'
  BY DEF TypeOK, Sem!TypeOK, MutualExclusion, Inside
<1>3. HolderSurvivesSignal'
  BY DEF TypeOK, MutualExclusion, Inside, HolderSurvivesSignal
<1>4. WaiterLifetime'
  BY DEF TypeOK, Sem!TypeOK, WaiterLifetime
<1>5. NoLostSignal'
  BY DEF NoLostSignal, Signalled
<1>6. WaitInv'
  BY DEF TypeOK, WaitInv
<1>7. BoundInv'
  <2>1. Appending' = Appending
    BY DEF TypeOK, WaitInv, Appending
  <2> QED
    BY <2>1 DEF BoundInv
<1> QED
  BY <1>1, <1>2, <1>3, <1>4, <1>5, <1>6, <1>7

\* The signalled thread, the first of waitQueue, comes with the new item.
LEMMA AppendItemKeeps ==
    ASSUME Inductive, NEW t \in Threads, AppendItem(t)
    PROVE  Inductive'
<1> USE DEF Inductive
<1>1. /\ at[t] = "holding" /\ op[t] = "Append"
      /\ appended' = appended + 1
      /\ list' = Append(list, appended + 1)
      /\ UNCHANGED <<waiters, op>>
  BY DEF AppendItem, Holding
<1>2. BoundInv' /\ appended + 1 \in 1..MaxItems
  <2>1. Appending' = Appending \ {t} /\ t \in Appending
    BY <1>1 DEF AppendItem, Release, GoTo, TypeOK, Appending
  <2>2. Cardinality(Appending') = Cardinality(Appending) - 1
    BY <2>1, AppendingFinite, FS_RemoveElement
  <2>3. Cardinality(Appending) # 0
    BY <2>1, AppendingFinite, FS_EmptySet
  <2> QED
    BY <1>1, <2>2, <2>3, AppendingFinite DEF TypeOK, BoundInv
<1>3. list' \in Seq(1..MaxItems) /\ Len(list') = Len(list) + 1 /\ Len(list) \in Nat
  BY <1>1, <1>2 DEF TypeOK
<1>4. CASE waitQueue # <<>>
  <2> DEFINE h == Head(waitQueue)
  <2>1. /\ lockHolder' = t
        /\ waitQueue' = Tail(waitQueue)
        /\ count' = [count EXCEPT ![h] = @ + 1]
        /\ inP' = inP
        /\ at' = [at EXCEPT ![t] = "signalled"]
    BY <1>4 DEF AppendItem, GoTo, Sem!Release
  <2>2. /\ waitQueue' \in Seq(Threads)
        /\ h \in Threads /\ h \in Range(waitQueue)
        /\ Range(waitQueue') = Range(waitQueue) \ {h}
        /\ IsInjective(waitQueue')
    BY <1>4, <2>1, TailFacts DEF TypeOK, WaiterLifetime
  <2> HIDE DEF h
  <2>3. TypeOK'
    <3>1. Sem!TypeOK'
      BY <2>1, <2>2 DEF TypeOK, Sem!TypeOK
    <3>2. at' \in [Threads -> Places]
      BY <2>1 DEF TypeOK, Places
    <3> QED
      BY <1>1, <1>2, <1>3, <2>1, <2>2, <3>1, <3>2 DEF TypeOK
  <2>4. MutualExclusion' /\ HolderSurvivesSignal' /\ WaitInv'
    BY <1>1, <2>1, <2>2 DEF TypeOK, Sem!TypeOK, MutualExclusion, Inside, HolderSurvivesSignal, WaitInv
  <2>5. WaiterLifetime'
    BY <1>1, <2>1, <2>2 DEF TypeOK, Sem!TypeOK, WaiterLifetime
  <2>6. NoLostSignal'
    <3>1. Signalled' = Signalled \cup {h} /\ h \notin Signalled
      BY <1>1, <2>1, <2>2 DEF TypeOK, WaiterLifetime, Signalled
    <3>2. Cardinality(Signalled') = Cardinality(Signalled) + 1
      BY <3>1, SignalledFinite, FS_AddElement
    <3> QED
      BY <1>3, <1>4, <3>2, SignalledFinite DEF NoLostSignal
  <2> QED
    BY <1>2, <2>3, <2>4, <2>5, <2>6
<1>5. CASE waitQueue = <<>>
  <2>1. /\ lockHolder' = NULL
        /\ waitQueue' = waitQueue
        /\ count' = [count EXCEPT ![lock] = @ + 1]
        /\ inP' = inP
        /\ at' = [at EXCEPT ![t] = "out"]
    BY <1>5 DEF AppendItem, Release, GoTo, Sem!Release
  <2>2. TypeOK'
    <3>1. Sem!TypeOK'
      BY <2>1 DEF TypeOK, Sem!TypeOK
    <3>2. at' \in [Threads -> Places]
      BY <2>1 DEF TypeOK, Places
    <3> QED
      BY <1>1, <1>2, <1>3, <2>1, <3>1, <3>2 DEF TypeOK
  <2>3. MutualExclusion' /\ HolderSurvivesSignal' /\ WaitInv'
    BY <1>1, <2>1 DEF TypeOK, Sem!TypeOK, MutualExclusion, Inside, HolderSurvivesSignal, WaitInv
  <2>4. WaiterLifetime' /\ NoLostSignal'
    BY <1>1, <1>5, <2>1 DEF TypeOK, Sem!TypeOK, WaiterLifetime, NoLostSignal
  <2> QED
    BY <1>2, <2>2, <2>3, <2>4
<1> QED
  BY <1>4, <1>5

(* Append ends and gives the lock back. *)
LEMMA AppendDoneKeeps ==
    ASSUME Inductive, NEW t \in Threads, AppendDone(t)
    PROVE  Inductive'
<1> USE DEF Inductive, AppendDone, Release, GoTo, Sem!Release
<1>1. TypeOK'
  <2>1. Sem!TypeOK'
    BY DEF TypeOK, Sem!TypeOK
  <2>2. at' \in [Threads -> Places]
    BY DEF TypeOK, Places
  <2> QED
    BY <2>1, <2>2 DEF TypeOK
<1>2. MutualExclusion'
  BY DEF TypeOK, Sem!TypeOK, MutualExclusion, Inside
<1>3. HolderSurvivesSignal'
  BY DEF TypeOK, MutualExclusion, Inside, HolderSurvivesSignal
<1>4. WaiterLifetime'
  BY DEF TypeOK, Sem!TypeOK, WaiterLifetime
<1>5. NoLostSignal'
  BY DEF NoLostSignal, Signalled
<1>6. WaitInv'
  BY DEF TypeOK, WaitInv
<1>7. BoundInv'
  <2>1. Appending' = Appending
    BY DEF TypeOK, WaitInv, Appending
  <2> QED
    BY <2>1 DEF BoundInv
<1> QED
  BY <1>1, <1>2, <1>3, <1>4, <1>5, <1>6, <1>7

\* A thread that takes an item was the only signalled one to go; a thread that
\* waits has found the list empty.
LEMMA RemoveItemKeeps ==
    ASSUME Inductive, NEW t \in Threads, RemoveItem(t)
    PROVE  Inductive'
<1> USE DEF Inductive
<1>1. /\ at[t] = "holding" /\ op[t] = "RemoveFront"
      /\ lockHolder' = NULL
      /\ count' = [count EXCEPT ![lock] = @ + 1]
      /\ UNCHANGED <<inP, op, appended>>
  BY DEF RemoveItem, Holding, Release, Wait, Sem!Release
<1>2. Sem!TypeOK'
  BY <1>1 DEF TypeOK, Sem!TypeOK
<1>3. ASSUME at' = [at EXCEPT ![t] = "out"] \/ at' = [at EXCEPT ![t] = "wait"]
      PROVE  /\ at' \in [Threads -> Places]
             /\ MutualExclusion' /\ HolderSurvivesSignal' /\ WaitInv' /\ BoundInv'
  <2>1. at' \in [Threads -> Places]
    BY <1>3 DEF TypeOK, Places
  <2>2. MutualExclusion'
    <3>1. \A u \in Threads : Inside(u)' <=> Inside(u) /\ u # t
      BY <1>1, <1>3 DEF TypeOK, Inside
    <3>2. Inside(t) /\ count'[lock] = count[lock] + 1
      BY <1>1 DEF TypeOK, Sem!TypeOK, Inside
    <3>3. \A u \in Threads : ~Inside(u)'
      BY <3>1, <3>2 DEF MutualExclusion
    <3> QED
      BY <3>2, <3>3 DEF MutualExclusion
  <2>3. HolderSurvivesSignal' /\ WaitInv'
    BY <1>1, <1>3 DEF TypeOK, MutualExclusion, Inside, HolderSurvivesSignal, WaitInv
  <2>4. Appending' = Appending
    BY <1>1, <1>3 DEF TypeOK, Appending
  <2> QED
    BY <1>1, <2>1, <2>2, <2>3, <2>4 DEF BoundInv
<1>4. CASE list # <<>>
  <2>1. /\ list' = Tail(list)
        /\ waiters' = waiters \ {t}
        /\ waitQueue' = waitQueue
        /\ at' = [at EXCEPT ![t] = "out"]
    BY <1>4 DEF RemoveItem, Release, GoTo
  <2>2. list' \in Seq(1..MaxItems) /\ Len(list') = Len(list) - 1 /\ Len(list) \in Nat
    BY <1>4, <2>1 DEF TypeOK
  <2>3. TypeOK'
    BY <1>1, <1>2, <1>3, <2>1, <2>2 DEF TypeOK
  <2>4. WaiterLifetime'
    BY <1>1, <2>1 DEF TypeOK, Sem!TypeOK, WaiterLifetime
  <2>5. NoLostSignal'
    <3>1. Signalled' = Signalled \ {t}
      BY <2>1 DEF Signalled
    <3>2. /\ Cardinality(Signalled) \in Nat
          /\ Cardinality(Signalled') = IF t \in Signalled THEN Cardinality(Signalled) - 1
                                                      ELSE Cardinality(Signalled)
      BY <3>1, SignalledFinite, FS_RemoveElement
    <3> QED
      BY <2>1, <2>2, <3>2 DEF NoLostSignal
  <2> QED
    BY <1>3, <2>1, <2>3, <2>4, <2>5
<1>5. CASE list = <<>>
  <2>1. /\ waiters' = waiters \cup {t}
        /\ waitQueue' = Append(waitQueue, t)
        /\ list' = list
        /\ at' = [at EXCEPT ![t] = "wait"]
    BY <1>5 DEF RemoveItem, Wait, Release, GoTo
  <2>2. t \notin Range(waitQueue) /\ count[t] = 0
    BY <1>1 DEF WaiterLifetime
  <2>3. /\ waitQueue' \in Seq(Threads)
        /\ Range(waitQueue') = Range(waitQueue) \cup {t}
        /\ IsInjective(waitQueue')
    BY <2>1, <2>2, AppendFacts DEF TypeOK, WaiterLifetime
  <2>4. TypeOK'
    BY <1>1, <1>2, <1>3, <2>1, <2>3 DEF TypeOK
  <2>5. WaiterLifetime'
    BY <1>1, <2>1, <2>2, <2>3 DEF TypeOK, Sem!TypeOK, WaiterLifetime
  <2>6. NoLostSignal'
    <3>1. Signalled' \in SUBSET Threads
      BY <2>4 DEF TypeOK, Signalled
    <3>2. Cardinality(Signalled') \in Nat
      BY <3>1, ThreadsAreFinite
    <3>3. Len(list') = 0
      BY <1>5, <2>1
    <3> QED
      BY <3>2, <3>3 DEF NoLostSignal
  <2> QED
    BY <1>3, <2>1, <2>4, <2>5, <2>6
<1> QED
  BY <1>4, <1>5

\* P takes the unit of Signal, or waits while the thread is queued.
LEMMA WaiterPKeeps ==
    ASSUME Inductive, NEW t \in Threads, WaiterP(t)
    PROVE  Inductive'
<1> USE DEF Inductive, WaiterP, P, GoTo, Sem!TakeAtOnce, Sem!StartWaiting
<1>1. TypeOK'
  <2>1. t \in Threads \cup {lock} /\ count[t] \in Nat
    BY DEF TypeOK, Sem!TypeOK
  <2>2. Sem!TypeOK'
    <3>1. CASE Sem!TakeAtOnce(t, t)
      <4>1. count' = [count EXCEPT ![t] = @ - 1] /\ inP' = inP /\ count[t] > 0
        BY <3>1
      <4>2. count[t] - 1 \in Nat
        BY <2>1, <4>1
      <4> QED
        BY <2>1, <4>1, <4>2 DEF TypeOK, Sem!TypeOK
    <3>2. CASE Sem!StartWaiting(t, t)
      BY <2>1, <3>2 DEF TypeOK, Sem!TypeOK
    <3> QED
      BY <3>1, <3>2
  <2>3. at' \in [Threads -> Places]
    BY DEF TypeOK, Places
  <2> QED
    BY <2>2, <2>3 DEF TypeOK
<1>2. MutualExclusion'
  <2>1. \A u \in Threads : u # t => at'[u] = at[u]
    BY DEF TypeOK
  <2>2. at[t] = "wait" /\ at'[t] \in {"blocked", "woken"}
    BY DEF TypeOK
  <2>3. count'[lock] = count[lock]
    BY DEF TypeOK, Sem!TypeOK
  <2> QED
    BY <2>1, <2>2, <2>3 DEF MutualExclusion, Inside
<1>3. HolderSurvivesSignal'
  BY DEF TypeOK, MutualExclusion, Inside, HolderSurvivesSignal
<1>4. WaiterLifetime'
  <2>1. \A u \in Threads : u # t => at'[u] = at[u] /\ count'[u] = count[u]
    BY DEF TypeOK, Sem!TypeOK
  <2>2. IsInjective(waitQueue)' /\ Range(waitQueue)' = Range(waitQueue) /\ waiters' = waiters
    BY DEF WaiterLifetime
  <2>3. t \in waiters /\ (t \in Range(waitQueue) \/ count[t] = 1)
    BY DEF WaiterLifetime
  <2>4. CASE Sem!TakeAtOnce(t, t)
    <3>1. count[t] = 1 /\ t \notin Range(waitQueue)
      BY <2>3, <2>4 DEF WaiterLifetime
    <3>2. at'[t] = "woken" /\ count'[t] = 0
      <4>1. count'[t] = count[t] - 1
        BY <2>4 DEF TypeOK, Sem!TypeOK
      <4>2. at'[t] = "woken"
        BY <2>4, <3>1 DEF TypeOK
      <4> QED
        BY <3>1, <4>1, <4>2
    <3> QED
      BY <2>1, <2>2, <3>1, <3>2 DEF WaiterLifetime
  <2>5. CASE Sem!StartWaiting(t, t)
    <3>1. at'[t] = "blocked" /\ count'[t] = count[t]
      BY <2>5 DEF TypeOK
    <3> QED
      BY <2>1, <2>2, <2>3, <3>1 DEF WaiterLifetime
  <2> QED
    BY <2>4, <2>5
<1>5. NoLostSignal'
  BY DEF NoLostSignal, Signalled
<1>6. WaitInv'
  BY DEF TypeOK, WaitInv
<1>7. BoundInv'
  <2>1. Appending' = Appending
    BY DEF TypeOK, WaitInv, Appending
  <2> QED
    BY <2>1 DEF BoundInv
<1> QED
  BY <1>1, <1>2, <1>3, <1>4, <1>5, <1>6, <1>7

(* A sleeping waiter gets the unit its signal left. *)
LEMMA WaiterWokenKeeps ==
    ASSUME Inductive, NEW t \in Threads, WaiterWoken(t)
    PROVE  Inductive'
<1> USE DEF Inductive, WaiterWoken, GoTo, Sem!TakeAfterWaiting
<1>1. TypeOK'
  <2>1. Sem!TypeOK'
    BY DEF TypeOK, Sem!TypeOK
  <2>2. at' \in [Threads -> Places]
    BY DEF TypeOK, Places
  <2> QED
    BY <2>1, <2>2 DEF TypeOK
<1>2. MutualExclusion'
  BY DEF TypeOK, Sem!TypeOK, MutualExclusion, Inside
<1>3. HolderSurvivesSignal'
  BY DEF TypeOK, MutualExclusion, Inside, HolderSurvivesSignal
<1>4. WaiterLifetime'
  <2>1. \A u \in Threads : u # t => at'[u] = at[u] /\ count'[u] = count[u]
    BY DEF TypeOK, Sem!TypeOK
  <2>2. IsInjective(waitQueue)' /\ Range(waitQueue)' = Range(waitQueue) /\ waiters' = waiters
    BY DEF WaiterLifetime
  <2>3. count[t] = 1 /\ t \notin Range(waitQueue)
    BY DEF WaiterLifetime
  <2>4. at'[t] = "woken" /\ count'[t] = 0
    <3>1. count'[t] = count[t] - 1
      BY DEF TypeOK, Sem!TypeOK
    <3>2. at'[t] = "woken"
      BY DEF TypeOK
    <3> QED
      BY <2>3, <3>1, <3>2
  <2> QED
    BY <2>1, <2>2, <2>3, <2>4 DEF WaiterLifetime
<1>5. NoLostSignal'
  BY DEF NoLostSignal, Signalled
<1>6. WaitInv'
  BY DEF TypeOK, WaitInv
<1>7. BoundInv'
  <2>1. Appending' = Appending
    BY DEF TypeOK, WaitInv, Appending
  <2> QED
    BY <2>1 DEF BoundInv
<1> QED
  BY <1>1, <1>2, <1>3, <1>4, <1>5, <1>6, <1>7

(* A woken waiter gets the lock again, or queues for it. *)
LEMMA ReacquireKeeps ==
    ASSUME Inductive, NEW t \in Threads, Reacquire(t)
    PROVE  Inductive'
<1> USE DEF Inductive, Reacquire, Acquire, P, GoTo, Sem!TakeAtOnce, Sem!StartWaiting
<1>1. TypeOK'
  <2>1. Sem!TypeOK'
    BY DEF TypeOK, Sem!TypeOK
  <2>2. at' \in [Threads -> Places]
    BY DEF TypeOK, Places
  <2> QED
    BY <2>1, <2>2 DEF TypeOK
<1>2. MutualExclusion'
  BY DEF TypeOK, Sem!TypeOK, MutualExclusion, Inside
<1>3. HolderSurvivesSignal'
  BY DEF TypeOK, MutualExclusion, Inside, HolderSurvivesSignal
<1>4. WaiterLifetime'
  BY DEF TypeOK, Sem!TypeOK, WaiterLifetime
<1>5. NoLostSignal'
  BY DEF NoLostSignal, Signalled
<1>6. WaitInv'
  BY DEF TypeOK, WaitInv
<1>7. BoundInv'
  <2>1. Appending' = Appending
    BY DEF TypeOK, WaitInv, Appending
  <2> QED
    BY <2>1 DEF BoundInv
<1> QED
  BY <1>1, <1>2, <1>3, <1>4, <1>5, <1>6, <1>7

(* Apply reads the list under the lock. *)
LEMMA ApplyKeeps ==
    ASSUME Inductive, NEW t \in Threads, ApplyToList(t)
    PROVE  Inductive'
<1> USE DEF Inductive, ApplyToList, Holding, Release, GoTo, Sem!Release
<1>1. TypeOK'
  <2>1. Sem!TypeOK'
    BY DEF TypeOK, Sem!TypeOK
  <2>2. at' \in [Threads -> Places]
    BY DEF TypeOK, Places
  <2> QED
    BY <2>1, <2>2 DEF TypeOK
<1>2. MutualExclusion'
  BY DEF TypeOK, Sem!TypeOK, MutualExclusion, Inside
<1>3. HolderSurvivesSignal'
  BY DEF TypeOK, MutualExclusion, Inside, HolderSurvivesSignal
<1>4. WaiterLifetime'
  BY DEF TypeOK, Sem!TypeOK, WaiterLifetime
<1>5. NoLostSignal'
  BY DEF NoLostSignal, Signalled
<1>6. WaitInv'
  BY DEF TypeOK, WaitInv
<1>7. BoundInv'
  <2>1. Appending' = Appending
    BY DEF TypeOK, WaitInv, Appending
  <2> QED
    BY <2>1 DEF BoundInv
<1> QED
  BY <1>1, <1>2, <1>3, <1>4, <1>5, <1>6, <1>7

(* A stuttering step changes nothing Inductive speaks of. *)
LEMMA StutteringKeeps ==
    ASSUME Inductive, UNCHANGED vars
    PROVE  Inductive'
<1> USE DEF Inductive, vars
<1>1. TypeOK' /\ MutualExclusion' /\ HolderSurvivesSignal' /\ WaitInv'
  BY DEF TypeOK, Sem!TypeOK, MutualExclusion, Inside, HolderSurvivesSignal, WaitInv
<1>2. WaiterLifetime' /\ NoLostSignal'
  BY DEF WaiterLifetime, NoLostSignal, Signalled
<1>3. BoundInv'
  BY DEF BoundInv, Appending
<1> QED
  BY <1>1, <1>2, <1>3

-----------------------------------------------------------------------------
\* Types, exclusion, the waiters' lives and the signals together are an
\* inductive invariant of the synchronized list.
THEOREM InductiveInvariant ==
    SafetySpec => []Inductive
<1>1. Inductive /\ [Next]_vars => Inductive'
  BY CallKeeps, AcquiredKeeps, AppendItemKeeps, AppendDoneKeeps, RemoveItemKeeps, WaiterPKeeps,
     WaiterWokenKeeps, ReacquireKeeps, ApplyKeeps, StutteringKeeps DEF Next, Proceed
<1> QED
  BY InitialStates, <1>1, PTL DEF SafetySpec

\* The variables of the synchronized list keep their types.
THEOREM TypeCorrect ==
    SafetySpec => []TypeOK
<1>1. Inductive => TypeOK
  BY DEF Inductive
<1> QED
  BY InductiveInvariant, <1>1, PTL

\* At most one of any number of threads is inside the monitor (Lock::Acquire
\* and Release).
THEOREM LockExcludes ==
    SafetySpec => []MutualExclusion
<1>1. Inductive => MutualExclusion
  BY DEF Inductive
<1> QED
  BY InductiveInvariant, <1>1, PTL

\* Whoever signals still holds the lock when it releases it (the ASSERT in
\* Lock::Release).
THEOREM HolderIsKept ==
    SafetySpec => []HolderSurvivesSignal
<1>1. Inductive => HolderSurvivesSignal
  BY DEF Inductive
<1> QED
  BY InductiveInvariant, <1>1, PTL

\* No waiter semaphore is deleted while it is queued or may be V()ed
\* (Condition::Wait and Signal).
THEOREM WaitersAreReachable ==
    SafetySpec => []WaiterLifetime
<1>1. Inductive => WaiterLifetime
  BY DEF Inductive
<1> QED
  BY InductiveInvariant, <1>1, PTL

\* While threads wait in waitQueue, each item of the list has a thread that
\* was signalled for it (SynchList::Append and RemoveFront).
THEOREM NoSignalIsLost ==
    SafetySpec => []NoLostSignal
<1>1. Inductive => NoLostSignal
  BY DEF Inductive
<1> QED
  BY InductiveInvariant, <1>1, PTL

-----------------------------------------------------------------------------
(***************************************************************************)
(* Freedom from deadlock, with the steps that go on given by their guards. *)
(* Nobody can go on only if all threads in the list wait for an item and   *)
(* there is none.                                                          *)
(***************************************************************************)

\* A thread is inside a semaphore exactly while its place says so, the lock's
\* or its own waiter's.
InsideInv == \A t \in Threads :
    /\ t \in inP[lock] <=> at[t] = "acquire"
    /\ t \in inP[t] <=> at[t] = "blocked"
    /\ \A u \in Threads : u # t => t \notin inP[u]

\* Whoever has a waiter is in RemoveFront.
WaiterInv == \A t \in waiters : at[t] \notin {"out", "signalled"} /\ op[t] = "RemoveFront"

OutsideP(t) == \A s \in Threads \cup {lock} : t \notin inP[s]

OnlyEmptyListStops ==
    (\E t \in Threads : at[t] # "out") =>
        \/ \E t \in Threads : /\ at[t] \in {"holding", "signalled", "wait", "woken"}
                              /\ OutsideP(t)
        \/ \E t \in inP[lock] : at[t] = "acquire" /\ count[lock] > 0
        \/ \E t \in Threads : t \in inP[t] /\ at[t] = "blocked" /\ count[t] > 0
        \/ list = <<>> /\ \A t \in Threads : at[t] \in {"out", "blocked"}

(* A P that takes its unit at once, or starts to wait. *)
LEMMA EnteringP ==
    ASSUME TypeOK, InsideInv, NEW t \in Threads, at[t] \notin {"acquire", "blocked"},
           NEW s, NEW waiting, NEW done, P(t, s, waiting, done),
           \/ s = lock /\ waiting = "acquire" /\ done = "holding"
           \/ s = t /\ waiting = "blocked" /\ done = "woken"
    PROVE  InsideInv'
<1> USE DEF TypeOK, Sem!TypeOK
<1>1. t \notin inP[s] /\ s \in Threads \cup {lock} /\ lock \notin Threads
  BY DEF InsideInv
<1>2. CASE inP' = inP /\ at' = [at EXCEPT ![t] = done]
  BY <1>2 DEF InsideInv
<1>3. CASE inP' = [inP EXCEPT ![s] = @ \cup {t}] /\ at' = [at EXCEPT ![t] = waiting]
  <2>1. /\ \A r \in Threads \cup {lock} : inP'[r] = IF r = s THEN inP[r] \cup {t} ELSE inP[r]
        /\ \A u \in Threads : at'[u] = IF u = t THEN waiting ELSE at[u]
    BY <1>1, <1>3
  <2>2. ASSUME NEW u \in Threads
        PROVE  /\ u \in inP'[lock] <=> at'[u] = "acquire"
               /\ u \in inP'[u] <=> at'[u] = "blocked"
               /\ \A v \in Threads : v # u => u \notin inP'[v]
    <3>1. CASE u = t
      <4>1. \A r \in Threads \cup {lock} : u \notin inP[r]
        BY <3>1 DEF InsideInv
      <4>2. \A r \in Threads \cup {lock} : u \in inP'[r] <=> r = s
        BY <2>1, <3>1, <4>1
      <4>3. at'[u] = waiting
        BY <2>1, <3>1
      <4> QED
        BY <1>1, <3>1, <4>2, <4>3
    <3>2. CASE u # t
      <4>1. \A r \in Threads \cup {lock} : u \in inP'[r] <=> u \in inP[r]
        BY <2>1, <3>2
      <4>2. at'[u] = at[u]
        BY <2>1, <3>2
      <4>3. /\ u \in inP[lock] <=> at[u] = "acquire"
            /\ u \in inP[u] <=> at[u] = "blocked"
            /\ \A v \in Threads : v # u => u \notin inP[v]
        BY DEF InsideInv
      <4> QED
        BY <4>1, <4>2, <4>3
    <3> QED
      BY <3>1, <3>2
  <2> QED
    BY <2>2 DEF InsideInv
<1> QED
  BY <1>2, <1>3 DEF P, GoTo, Sem!TakeAtOnce, Sem!StartWaiting

(* Every P that waits is entered and left with its place. *)
LEMMA InsideKeeps ==
    ASSUME Inductive, InsideInv, [Next]_vars
    PROVE  InsideInv'
<1>1. ASSUME NEW t \in Threads, NEW operation \in Operations, Call(t, operation)
      PROVE  InsideInv'
  <2>1. at[t] = "out" /\ P(t, lock, "acquire", "holding")
    BY <1>1 DEF Call, Acquire
  <2> QED
    BY <2>1, EnteringP DEF Inductive
<1>2. ASSUME NEW t \in Threads, Reacquire(t) PROVE InsideInv'
  <2>1. at[t] = "woken" /\ P(t, lock, "acquire", "holding")
    BY <1>2 DEF Reacquire, Acquire
  <2> QED
    BY <2>1, EnteringP DEF Inductive
<1>3. ASSUME NEW t \in Threads, WaiterP(t) PROVE InsideInv'
  <2>1. at[t] = "wait" /\ P(t, t, "blocked", "woken")
    BY <1>3 DEF WaiterP
  <2> QED
    BY <2>1, EnteringP DEF Inductive
<1> USE DEF Inductive, TypeOK, Sem!TypeOK, InsideInv, GoTo
<1>4. ASSUME NEW t \in Threads, Acquired(t) PROVE InsideInv'
  BY <1>4 DEF Acquired, Sem!TakeAfterWaiting
<1>5. ASSUME NEW t \in Threads, WaiterWoken(t) PROVE InsideInv'
  BY <1>5 DEF WaiterWoken, Sem!TakeAfterWaiting
<1>6. ASSUME NEW t \in Threads, AppendItem(t) \/ AppendDone(t) \/ RemoveItem(t) \/ ApplyToList(t)
      PROVE  InsideInv'
  <2>1. inP' = inP /\ at[t] \in {"holding", "signalled"}
    BY <1>6 DEF AppendItem, AppendDone, RemoveItem, ApplyToList, Holding, Wait, Release, Sem!Release
  <2>2. \E place \in {"out", "signalled", "wait"} : at' = [at EXCEPT ![t] = place]
    BY <1>6 DEF AppendItem, AppendDone, RemoveItem, ApplyToList, Wait, Release
  <2> QED
    BY <2>1, <2>2
<1>7. CASE UNCHANGED vars
  BY <1>7 DEF vars
<1> QED
  BY <1>1, <1>2, <1>3, <1>4, <1>5, <1>6, <1>7 DEF Next, Proceed

(* A waiter is made in RemoveFront and goes before its thread returns. *)
LEMMA WaiterKeeps ==
    ASSUME Inductive, WaiterInv, [Next]_vars
    PROVE  WaiterInv'
<1> USE DEF Inductive, TypeOK, WaiterInv
<1>1. ASSUME NEW t \in Threads, NEW operation \in Operations, Call(t, operation)
      PROVE  WaiterInv'
  BY <1>1 DEF Call, Acquire, P, GoTo
<1>2. ASSUME NEW t \in Threads, Reacquire(t) \/ WaiterP(t) \/ Acquired(t) \/ WaiterWoken(t)
      PROVE  WaiterInv'
  BY <1>2 DEF Reacquire, WaiterP, Acquired, WaiterWoken, Acquire, P, GoTo
<1>3. ASSUME NEW t \in Threads, RemoveItem(t) PROVE WaiterInv'
  <2>1. op[t] = "RemoveFront" /\ op' = op
    BY <1>3 DEF RemoveItem, Holding
  <2>2. CASE waiters' = waiters \ {t} /\ at' = [at EXCEPT ![t] = "out"]
    BY <2>1, <2>2
  <2>3. CASE waiters' = waiters \cup {t} /\ at' = [at EXCEPT ![t] = "wait"]
    BY <2>1, <2>3
  <2> QED
    BY <1>3, <2>2, <2>3 DEF RemoveItem, Wait, Release, GoTo
<1>4. ASSUME NEW t \in Threads, AppendItem(t) \/ ApplyToList(t) PROVE WaiterInv'
  <2>1. op[t] # "RemoveFront" /\ op' = op /\ waiters' = waiters
    BY <1>4 DEF AppendItem, ApplyToList, Holding
  <2>2. \E place \in Places : at' = [at EXCEPT ![t] = place]
    BY <1>4 DEF AppendItem, ApplyToList, Release, GoTo, Places
  <2>3. t \notin waiters
    BY <2>1
  <2> QED
    BY <2>1, <2>2, <2>3
<1>5. ASSUME NEW t \in Threads, AppendDone(t) PROVE WaiterInv'
  <2>1. op' = op /\ waiters' = waiters /\ at[t] = "signalled" /\ at' = [at EXCEPT ![t] = "out"]
    BY <1>5 DEF AppendDone, Release, GoTo
  <2> QED
    BY <2>1
<1>6. CASE UNCHANGED vars
  BY <1>6 DEF vars
<1> QED
  BY <1>1, <1>2, <1>3, <1>4, <1>5, <1>6 DEF Next, Proceed

\* While a thread is in an operation of the list, one can go on, with a unit
\* for its P if it waits, unless all of them wait in RemoveFront for an item
\* and the list is empty (SynchList over Condition and Lock).
THEOREM NoDeadlock ==
    SafetySpec => []OnlyEmptyListStops
<1>1. Init => InsideInv /\ WaiterInv
  BY DEF Init, Sem!Init, InsideInv, WaiterInv
<1>2. Inductive /\ InsideInv /\ WaiterInv /\ [Next]_vars => InsideInv' /\ WaiterInv'
  BY InsideKeeps, WaiterKeeps
<1>3. Inductive /\ InsideInv /\ WaiterInv => OnlyEmptyListStops
  <2> SUFFICES ASSUME Inductive, InsideInv, WaiterInv, NEW t \in Threads, at[t] # "out"
               PROVE  OnlyEmptyListStops
    BY DEF OnlyEmptyListStops
  <2>1. CASE \E u \in Threads : at[u] \in {"holding", "signalled", "wait", "woken"}
    BY <2>1 DEF InsideInv, OutsideP, OnlyEmptyListStops
  <2>2. CASE \A u \in Threads : at[u] \in {"out", "acquire", "blocked"}
    <3>1. count[lock] = 1
      BY <2>2 DEF Inductive, MutualExclusion, Inside
    <3>2. CASE \E u \in Threads : at[u] = "acquire"
      BY <3>1, <3>2 DEF InsideInv, OnlyEmptyListStops
    <3>3. CASE list = <<>> /\ \A u \in Threads : at[u] # "acquire"
      BY <2>2, <3>3 DEF OnlyEmptyListStops
    <3>4. CASE list # <<>> /\ \A u \in Threads : at[u] # "acquire"
      <4>1. \E u \in Threads : at[u] = "blocked" /\ count[u] = 1
        <5>1. CASE t \notin Range(waitQueue)
          BY <2>2, <3>4, <5>1 DEF Inductive, WaiterLifetime
        <5>2. CASE t \in Range(waitQueue)
          <6>1. waitQueue # <<>> /\ Len(list) \in Nat /\ Len(list) > 0
            BY <3>4, <5>2 DEF Inductive, TypeOK, Range
          <6>2. Cardinality(Signalled) # 0
            BY <6>1, SignalledFinite DEF Inductive, NoLostSignal
          <6>3. Signalled # {}
            BY <6>2, FS_EmptySet
          <6>4. PICK u \in waiters : u \notin Range(waitQueue)
            BY <6>3 DEF Signalled
          <6>5. u \in Threads /\ at[u] = "blocked"
            BY <2>2, <3>4, <6>4 DEF WaiterInv, Inductive, TypeOK
          <6> QED
            BY <6>4, <6>5 DEF Inductive, WaiterLifetime
        <5> QED
          BY <5>1, <5>2
      <4> QED
        BY <4>1 DEF InsideInv, OnlyEmptyListStops
    <3> QED
      BY <3>2, <3>3, <3>4
  <2> QED
    BY <2>1, <2>2 DEF Inductive, TypeOK, Places
<1> QED
  BY InductiveInvariant, <1>1, <1>2, <1>3, PTL DEF SafetySpec

=============================================================================
