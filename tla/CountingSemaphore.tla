------------------------- MODULE CountingSemaphore -------------------------
(***************************************************************************)
(* What class Semaphore (threads/synch.h) promises its callers: a counter  *)
(* that never goes below zero, and callers of P() that stay inside P()     *)
(* until they have taken one unit of it.  There is no queue, no scheduler  *)
(* and no interrupt level here; NachosThreads is shown to implement this   *)
(* specification, and the modules of the drivers and tables are built on it. *)
(***************************************************************************)
EXTENDS Naturals

CONSTANTS
    Threads,        \* everything that may call P()
    Semaphores,
    InitialValue    \* the constructor's initialValue of every semaphore

VARIABLES
    count,          \* count[s]: the units that are free
    inP             \* inP[s]: the threads that called P() and have not returned

vars == <<count, inP>>

TypeOK ==
    /\ count \in [Semaphores -> Nat]
    /\ inP \in [Semaphores -> SUBSET Threads]

Init ==
    /\ count = InitialValue
    /\ inP = [s \in Semaphores |-> {}]

\* A thread calls P() and finds the semaphore unavailable.
StartWaiting(t, s) ==
    /\ count[s] = 0
    /\ \A r \in Semaphores : t \notin inP[r]
    /\ inP' = [inP EXCEPT ![s] = @ \cup {t}]
    /\ UNCHANGED count

\* A thread calls P() and takes a unit at once.
TakeAtOnce(t, s) ==
    /\ count[s] > 0
    /\ \A r \in Semaphores : t \notin inP[r]
    /\ count' = [count EXCEPT ![s] = @ - 1]
    /\ UNCHANGED inP

\* A thread that was waiting inside P() takes a unit and returns.
TakeAfterWaiting(t, s) ==
    /\ count[s] > 0
    /\ t \in inP[s]
    /\ count' = [count EXCEPT ![s] = @ - 1]
    /\ inP' = [inP EXCEPT ![s] = @ \ {t}]

\* Anyone, a thread or an interrupt handler, adds a unit.
Release(s) ==
    /\ count' = [count EXCEPT ![s] = @ + 1]
    /\ UNCHANGED inP

Next ==
    \E s \in Semaphores :
        \/ Release(s)
        \/ \E t \in Threads :
            StartWaiting(t, s) \/ TakeAtOnce(t, s) \/ TakeAfterWaiting(t, s)

Safety == Init /\ [][Next]_vars

(***************************************************************************)
(* P() is weakly fair to its callers as a group: a unit does not stay free *)
(* for ever beside waiting callers.  It is not fair to any one caller,     *)
(* because a thread that calls P() late may take the unit first.           *)
(***************************************************************************)
Liveness == \A s \in Semaphores :
    WF_vars(\E t \in Threads : TakeAfterWaiting(t, s))

Spec == Safety /\ Liveness

=============================================================================
