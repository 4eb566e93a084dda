--------------------------- MODULE SemaphoreTable ---------------------------
(***************************************************************************)
(* The table of the semaphores user programs create by name                *)
(* (threads/stable.cc) and the system calls CreateSemaphore, Wait and      *)
(* Signal (userprog/exception_part2.h).                                    *)
(*                                                                         *)
(* A semaphore keeps the pointer to its name, and HandleCreateSemaphore    *)
(* deletes the name before it returns: a comparison with the name of a     *)
(* semaphore in the table may come out either way.                         *)
(***************************************************************************)
EXTENDS Integers

CONSTANTS
    MAX_SEMAPHORE,
    Threads,
    Names, NoName,
    InitialValues,  \* the values programs ask for; nothing checks them
    MinValue        \* bound: how far P takes a semaphore down

Slots == 0..(MAX_SEMAPHORE - 1)

VARIABLES
    map,        \* the slots whose bit is set
    value,      \* Semaphore::value of each slot
    name,       \* history: the name each slot's semaphore was created with
    waiting,    \* the slot in whose P() each thread sleeps, or -1
    running     \* FALSE: crashed

vars == <<map, value, name, waiting, running>>

Init ==
    /\ map = {}
    /\ value = [i \in Slots |-> 0]
    /\ name = [i \in Slots |-> NoName]
    /\ waiting = [t \in Threads |-> -1]
    /\ running = TRUE

\* FindAndSet: the first clear bit.
FindFreeSlot == CHOOSE i \in Slots \ map : \A j \in Slots \ map : i <= j

\* Create finds no semaphore that seems to have the name, and a free slot.
\* (A Create that fails changes nothing.)
Create(t, n) ==
    /\ waiting[t] = -1
    /\ Slots # map
    /\ map' = map \cup {FindFreeSlot}
    /\ name' = [name EXCEPT ![FindFreeSlot] = n]
    /\ \E v \in InitialValues : value' = [value EXCEPT ![FindFreeSlot] = v]
    /\ UNCHANGED <<waiting, running>>

\* Semaphore::P on a slot that seems to have the name: it sleeps only at 0.
Wait(t) ==
    /\ waiting[t] = -1
    /\ \E i \in map :
        \/ /\ value[i] = 0
           /\ waiting' = [waiting EXCEPT ![t] = i]
           /\ UNCHANGED value
        \/ /\ value[i] # 0
           /\ value[i] > MinValue
           /\ value' = [value EXCEPT ![i] = @ - 1]
           /\ UNCHANGED waiting
    /\ UNCHANGED <<map, name, running>>

\* Signal looks at the slots that are free, whose semaphore is a null pointer:
\* with none, it finds nothing.  Its V() is never reached, and nobody who
\* sleeps in Wait is ever woken.
Signal(t, n) ==
    /\ waiting[t] = -1
    /\ running' = (map = Slots)
    /\ UNCHANGED <<map, value, name, waiting>>

Next ==
    /\ running
    /\ \E t \in Threads :
        \/ \E n \in Names : Create(t, n) \/ Signal(t, n)
        \/ Wait(t)

Spec == Init /\ [][Next]_vars

-----------------------------------------------------------------------------
\* stable.h:35 says of Signal: "Check semaphor "name" exists then call
\* this->Release() to excute or send error."  A Signal of a semaphore that has
\* been created adds a unit to it.
SignalReleases == [][\A i \in map :
    (running /\ \E t \in Threads : Signal(t, name[i])) => value'[i] = value[i] + 1]_vars

=============================================================================
