----------------------------- MODULE SynchList -----------------------------
(***************************************************************************)
(* The monitor of threads/synch.cc (Lock, Condition) in its one use, the   *)
(* synchronized list of threads/synchlist.cc, which the post office's      *)
(* mailboxes are made of.  Semaphores are those of CountingSemaphore,      *)
(* which NachosThreads implements: the lock has one, and Condition::Wait   *)
(* makes a private one for each waiting thread.                            *)
(*                                                                         *)
(* A thread can lose the CPU only inside a semaphore operation, after P    *)
(* has taken its unit or V has added one.  A step runs from one such point *)
(* to the next, so lockHolder is still stale after Acquire's P.            *)
(***************************************************************************)
EXTENDS Integers, Sequences, FiniteSets, Functions

CONSTANTS
    Threads,
    lock,           \* the lock's semaphore
    Operations,     \* those of SynchList's operations that get called
    MaxItems,       \* bound: items ever appended
    NULL

ASSUME SynchListAssumption ==
    /\ IsFiniteSet(Threads)
    /\ lock \notin Threads
    /\ NULL \notin Threads
    /\ MaxItems \in Nat
    /\ Operations \subseteq {"Append", "RemoveFront", "Apply"}

VARIABLES
    count, inP,     \* the semaphores; thread t's waiter is named t
    lockHolder,     \* Lock::lockHolder
    waitQueue,      \* Condition::waitQueue
    waiters,        \* the waiter semaphores that exist
    list,           \* SynchList::list
    op,             \* the operation each thread is in
    at,             \* where the thread is in it (Places)
    appended        \* items appended so far; item number n is the nth

vars == <<count, inP, lockHolder, waitQueue, waiters, list, op, at, appended>>

(***************************************************************************)
(* "out": in no operation.  "acquire": in Acquire's P.  "holding": that P  *)
(* has returned.  "signalled": in Append, Signal has woken a waiter.       *)
(* "wait": in Wait, the lock is released.  "blocked": in waiter->P().      *)
(* "woken": that P has returned and the lock must be acquired again.       *)
(***************************************************************************)
Places == {"out", "acquire", "holding", "signalled", "wait", "blocked", "woken"}

Sem == INSTANCE CountingSemaphore WITH
    Semaphores <- Threads \cup {lock},
    InitialValue <- [s \in Threads \cup {lock} |-> IF s = lock THEN 1 ELSE 0]

Init ==
    /\ Sem!Init
    /\ lockHolder = NULL
    /\ waitQueue = <<>>
    /\ waiters = {}
    /\ list = <<>>
    /\ op = [t \in Threads |-> "none"]
    /\ at = [t \in Threads |-> "out"]
    /\ appended = 0

GoTo(t, place) == at' = [at EXCEPT ![t] = place]

-----------------------------------------------------------------------------
\* P on semaphore s: at once, or by waiting first.
P(t, s, waiting, done) ==
    \/ Sem!TakeAtOnce(t, s) /\ GoTo(t, done)
    \/ Sem!StartWaiting(t, s) /\ GoTo(t, waiting)

\* Faulty: the lock is taken without its semaphore.
AcquireUnchecked(t) ==
    /\ GoTo(t, "holding")
    /\ UNCHANGED <<count, inP>>

\* Lock::Acquire as far as the end of its P.
Acquire(t) == P(t, lock, "acquire", "holding")

\* Lock::Release.
Release(t, place) ==
    /\ lockHolder' = NULL
    /\ Sem!Release(lock)
    /\ GoTo(t, place)

\* Condition::Wait as far as the release of the lock, with a new waiter.
Wait(t) ==
    /\ waiters' = waiters \cup {t}
    /\ waitQueue' = Append(waitQueue, t)
    /\ Release(t, "wait")

\* The threads whose items are still to come, for the bound MaxItems.
Appending == {u \in Threads : op[u] = "Append" /\ at[u] \in {"acquire", "holding"}}

\* A thread calls Append, RemoveFront or Apply.
Call(t, operation) ==
    /\ at[t] = "out"
    /\ operation = "Append" => appended + Cardinality(Appending) < MaxItems
    /\ op' = [op EXCEPT ![t] = operation]
    /\ Acquire(t)
    /\ UNCHANGED <<lockHolder, waitQueue, waiters, list, appended>>

\* Acquire's P gets its unit after waiting.
Acquired(t) ==
    /\ at[t] = "acquire"
    /\ Sem!TakeAfterWaiting(t, lock)
    /\ GoTo(t, "holding")
    /\ UNCHANGED <<lockHolder, waitQueue, waiters, list, op, appended>>

Holding(t, operation) == at[t] = "holding" /\ op[t] = operation

\* Faulty: only an item put into an empty list is signalled.
AppendSignalsIfEmpty(t) ==
    /\ Holding(t, "Append")
    /\ appended' = appended + 1
    /\ list' = Append(list, appended + 1)
    /\ \/ /\ waitQueue # <<>> /\ list = <<>>
          /\ lockHolder' = t
          /\ waitQueue' = Tail(waitQueue)
          /\ Sem!Release(Head(waitQueue))
          /\ GoTo(t, "signalled")
       \/ /\ waitQueue = <<>> \/ list # <<>>
          /\ Release(t, "out")
          /\ UNCHANGED waitQueue
    /\ UNCHANGED <<waiters, op>>

\* Faulty: Signal leaves the waiter in waitQueue.
AppendSignalsHead(t) ==
    /\ Holding(t, "Append")
    /\ appended' = appended + 1
    /\ list' = Append(list, appended + 1)
    /\ \/ /\ waitQueue # <<>>
          /\ lockHolder' = t
          /\ Sem!Release(Head(waitQueue))
          /\ GoTo(t, "signalled")
       \/ /\ waitQueue = <<>>
          /\ Release(t, "out")
    /\ UNCHANGED <<waitQueue, waiters, op>>

\* Append with the lock: the item goes in, and Signal wakes the first waiter
\* if there is one; its V may cost the thread the CPU before it releases.
AppendItem(t) ==
    /\ Holding(t, "Append")
    /\ appended' = appended + 1
    /\ list' = Append(list, appended + 1)
    /\ \/ /\ waitQueue # <<>>
          /\ lockHolder' = t
          /\ waitQueue' = Tail(waitQueue)
          /\ Sem!Release(Head(waitQueue))
          /\ GoTo(t, "signalled")
       \/ /\ waitQueue = <<>>
          /\ Release(t, "out")
          /\ UNCHANGED waitQueue
    /\ UNCHANGED <<waiters, op>>

\* Append releases the lock after Signal.
AppendDone(t) ==
    /\ at[t] = "signalled"
    /\ Release(t, "out")
    /\ UNCHANGED <<waitQueue, waiters, list, op, appended>>

\* RemoveFront with the lock, at first or after Wait, whose waiter goes: take
\* an item, or wait on a new one.
RemoveItem(t) ==
    /\ Holding(t, "RemoveFront")
    /\ \/ /\ list # <<>>
          /\ list' = Tail(list)
          /\ waiters' = waiters \ {t}
          /\ Release(t, "out")
          /\ UNCHANGED waitQueue
       \/ /\ list = <<>>
          /\ Wait(t)
          /\ UNCHANGED list
    /\ UNCHANGED <<op, appended>>

\* Wait's waiter->P().
WaiterP(t) ==
    /\ at[t] = "wait"
    /\ P(t, t, "blocked", "woken")
    /\ UNCHANGED <<lockHolder, waitQueue, waiters, list, op, appended>>

WaiterWoken(t) ==
    /\ at[t] = "blocked"
    /\ Sem!TakeAfterWaiting(t, t)
    /\ GoTo(t, "woken")
    /\ UNCHANGED <<lockHolder, waitQueue, waiters, list, op, appended>>

\* Wait's conditionLock->Acquire().
Reacquire(t) ==
    /\ at[t] = "woken"
    /\ Acquire(t)
    /\ UNCHANGED <<lockHolder, waitQueue, waiters, list, op, appended>>

\* Apply with the lock.
ApplyToList(t) ==
    /\ Holding(t, "Apply")
    /\ Release(t, "out")
    /\ UNCHANGED <<waitQueue, waiters, list, op, appended>>

\* What a thread does inside an operation, once it has called it.
Proceed(t) ==
    \/ AppendItem(t) \/ AppendDone(t) \/ RemoveItem(t) \/ ApplyToList(t)
    \/ WaiterP(t) \/ Reacquire(t)

Next ==
    \E t \in Threads :
        \/ \E operation \in Operations : Call(t, operation)
        \/ Proceed(t)
        \/ Acquired(t)
        \/ WaiterWoken(t)

SafetySpec == Init /\ [][Next]_vars

(***************************************************************************)
(* Every thread that can run is run (ReadyThreadRuns of NachosThreads), so *)
(* what it does inside an operation is done, and semaphores are live as    *)
(* CountingSemaphore says.  Nobody has to call an operation.               *)
(***************************************************************************)
Fairness ==
    /\ \A t \in Threads : WF_vars(Proceed(t)) /\ WF_vars(WaiterWoken(t))
    /\ WF_vars(\E t \in Threads : Acquired(t))

Spec == SafetySpec /\ Fairness

-----------------------------------------------------------------------------
(***************************************************************************)
(* Properties.                                                             *)
(***************************************************************************)

\* The variables have the types their declarations give them.
TypeOK ==
    /\ Sem!TypeOK
    /\ lockHolder \in Threads \cup {NULL}
    /\ waitQueue \in Seq(Threads)
    /\ waiters \subseteq Threads
    /\ list \in Seq(1..MaxItems)
    /\ op \in [Threads -> Operations \cup {"none"}]
    /\ at \in [Threads -> Places]
    /\ appended \in 0..MaxItems

Inside(t) == at[t] \in {"holding", "signalled"}

\* At most one thread is inside the monitor, across the stretch of Acquire
\* and Release where lockHolder does not say so, and the lock's semaphore is
\* free exactly when none is (Lock::Acquire, Lock::Release).
MutualExclusion ==
    /\ \A t, u \in Threads : Inside(t) /\ Inside(u) => t = u
    /\ count[lock] = IF \E t \in Threads : Inside(t) THEN 0 ELSE 1

\* Release's ASSERT(IsHeldByCurrentThread) holds although Signal's V let
\* other threads run since Acquire: none of them touched lockHolder.
HolderSurvivesSignal == \A t \in Threads : at[t] = "signalled" => lockHolder = t

\* A waiter semaphore is deleted only when nobody can reach it: a queued one
\* exists, is unused so far and its owner is in Wait; one that exists and is
\* not queued is V()ed exactly once; P never consumes more than that
\* (Condition::Wait's delete against Signal's V).
WaiterLifetime ==
    /\ IsInjective(waitQueue)
    /\ \A t \in Threads :
        /\ t \in Range(waitQueue) => t \in waiters /\ count[t] = 0
        /\ at[t] \in {"wait", "blocked"} =>
            t \in waiters /\ (t \in Range(waitQueue) \/ count[t] = 1)
        /\ at[t] \notin {"wait", "blocked"} => t \notin Range(waitQueue) /\ count[t] = 0

\* The threads that Signal has chosen and that have not tested the list yet.
Signalled == waiters \ Range(waitQueue)

\* No signal is lost: while threads wait in waitQueue, every item of the list
\* has a thread that was signalled and will look at the list, even though
\* other threads may take items in between (SynchList::Append, RemoveFront).
NoLostSignal == waitQueue # <<>> => Cardinality(Signalled) >= Len(list)

Front(n) == list # <<>> /\ Head(list) = n
Removing == \E t \in Threads : at[t] # "out" /\ op[t] = "RemoveFront"

\* An item does not stay at the front of the list for ever while a thread is
\* in RemoveFront: the signal, the waiter's semaphore and the lock's all get
\* through to somebody (SynchList::Append, RemoveFront, Condition).  Calls of
\* Apply without end could keep the lock from that thread.
ItemIsTaken ==
    <>[](\A t \in Threads : op[t] # "Apply") =>
        \A n \in 1..MaxItems : Front(n) /\ Removing ~> ~(Front(n) /\ Removing)

=============================================================================
