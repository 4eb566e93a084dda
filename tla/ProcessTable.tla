---------------------------- MODULE ProcessTable ----------------------------
(***************************************************************************)
(* The process table (threads/ptable.cc) with its process control blocks   *)
(* (threads/pcblock.cc) under the system calls Exec, Join and Exit.        *)
(*                                                                         *)
(* Semaphores are those of CountingSemaphore.  A step of a thread runs     *)
(* from one point where it can lose the CPU to the next: the end of a P, a *)
(* V or a Fork.                                                            *)
(*                                                                         *)
(* The table finds the calling process by Thread::pid, which no code       *)
(* initializes: a new thread has whatever the memory held.  An access to a *)
(* null or deleted block takes the kernel down, and one to uninitialized   *)
(* memory may do so.  (What it held is taken to be a slot: any other value *)
(* makes the code read beyond the table.)                                  *)
(***************************************************************************)
EXTENDS Integers, FiniteSets, Sequences

CONSTANTS
    MAX_PROCESS,
    MaxExecs,           \* bound: process control blocks ever made by Exec
    Programs,           \* names of executable files
    UninitializedPids,  \* what Thread::pid may hold in each new Thread
    NULL,
    Garbage             \* the contents of uninitialized or deleted memory

Slots == 0..(MAX_PROCESS - 1)

ASSUME ProcessTableAssumption ==
    /\ MAX_PROCESS \in Nat \ {0}
    /\ MaxExecs \in Nat
    /\ UninitializedPids \subseteq [0..MaxExecs -> Slots]
    /\ {NULL, Garbage} \cap (Programs \cup Int) = {}
    /\ NULL # Garbage

(***************************************************************************)
(* Block number n is the nth that Exec makes, thread n the nth it forks.   *)
(* Block 0 is the one PTable() makes, thread 0 the one that runs main.     *)
(***************************************************************************)
Blocks == 0..MaxExecs
Threads == 0..MaxExecs

VARIABLES
    count, inP,     \* the semaphores
    \* PTable
    reception,      \* the slots whose bit is set
    blocks,         \* the block of each slot, or NULL
    totalProcesses,
    \* PCB, by block
    made,           \* how many blocks Exec has made
    deleted,        \* the blocks that have been deleted
    file,
    parentID,
    id,             \* PCB::pid
    thread,         \* the thread forked for the block, or NULL
    exitCode,       \* the thread that called Exit for the block, or NULL
    \* Thread
    pid,
    at,             \* where each thread is (Places)
    program,        \* locals: the argument of Exec
    slot,           \* locals: Exec's slot, or the argument of Join
    block,          \* locals: the block whose member function t is in
    \* history: forked[n] is the slot that thread n was forked for; accepted are
    \* the blocks on which a Join has passed JoinWait and ExitRelease
    forked,
    accepted

tableVars == <<reception, blocks, totalProcesses>>
blockVars == <<made, deleted, file, parentID, id, thread, exitCode>>
localVars == <<program, slot, block>>
machineVars == <<pid, forked, accepted>>
vars == <<count, inP, tableVars, blockVars, at, localVars, machineVars>>

Semaphores == [name : {"joinsemaphore", "exitsemaphore", "mutex"}, of : Blocks]
                \cup {[name |-> "semaphore", of |-> 0]}
semaphore == [name |-> "semaphore", of |-> 0]
joinsemaphore(k) == [name |-> "joinsemaphore", of |-> k]
exitsemaphore(k) == [name |-> "exitsemaphore", of |-> k]
mutex(k) == [name |-> "mutex", of |-> k]

Sem == INSTANCE CountingSemaphore WITH
    InitialValue <- [s \in Semaphores |-> IF s.name \in {"semaphore", "mutex"} THEN 1 ELSE 0]

(***************************************************************************)
(* "none": no such thread yet.  "new": forked, StartProcess not begun.     *)
(* "user": runs its program.  "finished".  "stopped": the machine halted,   *)
(* or crashed.                                                             *)
(* Exec: "execWait" in semaphore->P(); "execHolding" after it;             *)
(* "execChosen" after the V; "mutexWait" in mutex->P(); "execMutex" after  *)
(* it; "execForked" after Fork.                                            *)
(* Join: "countWait" in IncNumWait's P; "counting" after it; "counted"     *)
(* after its V; "joinWait" in JoinWait; "joined" after it; "released"      *)
(* after ExitRelease.                                                      *)
(* Exit: "exiting" after JoinRelease; "exitWait" in ExitWait; "leaving"    *)
(* after it.                                                               *)
(***************************************************************************)
Places == {"none", "new", "user", "finished", "stopped",
           "execWait", "execHolding", "execChosen", "mutexWait", "execMutex", "execForked",
           "countWait", "counting", "counted", "joinWait", "joined", "released",
           "exiting", "exitWait", "leaving"}

Init ==
    /\ Sem!Init
    /\ reception = {}
    /\ blocks = [s \in Slots |-> IF s = 0 THEN 0 ELSE NULL]
    /\ totalProcesses = MAX_PROCESS
    /\ made = 0
    /\ deleted = {}
    /\ file = [k \in Blocks |-> IF k = 0 THEN Garbage ELSE NULL]
    /\ parentID = [k \in Blocks |-> -1]
    /\ id = [k \in Blocks |-> IF k = 0 THEN Garbage ELSE -1]
    /\ thread = [k \in Blocks |-> IF k = 0 THEN Garbage ELSE NULL]
    /\ exitCode = [k \in Blocks |-> NULL]
    /\ pid \in UninitializedPids
    /\ at = [t \in Threads |-> IF t = 0 THEN "user" ELSE "none"]
    /\ program = [t \in Threads |-> NULL]
    /\ slot = [t \in Threads |-> NULL]
    /\ block = [t \in Threads |-> NULL]
    /\ forked = <<>>
    /\ accepted = {}

GoTo(t, place) == at' = [at EXCEPT ![t] = place]

StopMachine == at' = [t \in Threads |-> "stopped"]

\* Back to the user program; the locals are gone.
ReturnToUser(t) ==
    /\ GoTo(t, "user")
    /\ program' = [program EXCEPT ![t] = NULL]
    /\ slot' = [slot EXCEPT ![t] = NULL]
    /\ block' = [block EXCEPT ![t] = NULL]

\* P on semaphore s: at once, or by waiting first.
P(t, s, waiting, done) ==
    \/ Sem!TakeAtOnce(t, s) /\ GoTo(t, done)
    \/ Sem!StartWaiting(t, s) /\ GoTo(t, waiting)

Usable(s) == blocks[s] # NULL
Own(t) == blocks[pid[t]]

-----------------------------------------------------------------------------
(***************************************************************************)
(* PTable::ExecuteUpdate.                                                  *)
(***************************************************************************)

CallExec(t) ==
    /\ at[t] = "user"
    /\ made + Cardinality({u \in Threads : at[u] \in {"execWait", "execHolding"}}) < MaxExecs
    /\ \E p \in Programs : program' = [program EXCEPT ![t] = p]
    /\ P(t, semaphore, "execWait", "execHolding")
    /\ UNCHANGED <<tableVars, blockVars, slot, block, machineVars>>

FreeSlots == Slots \ reception

\* FindAndSet: the first clear bit.
FindAndSet == CHOOSE s \in FreeSlots : \A r \in FreeSlots : s <= r

\* Faulty: an early return keeps the semaphore.
ExecRefusedKeepingLock(t) ==
    /\ at[t] = "execHolding"
    /\ Usable(pid[t])
    /\ file[Own(t)] # NULL
    /\ file[Own(t)] \in {program[t], Garbage} \/ FreeSlots = {}
    /\ ReturnToUser(t)
    /\ UNCHANGED <<count, inP, tableVars, blockVars, machineVars>>

\* The program executes itself, or the table is full.
ExecRefused(t) ==
    /\ at[t] = "execHolding"
    /\ Usable(pid[t])
    /\ file[Own(t)] # NULL
    /\ file[Own(t)] \in {program[t], Garbage} \/ FreeSlots = {}
    /\ Sem!Release(semaphore)
    /\ ReturnToUser(t)
    /\ UNCHANGED <<tableVars, blockVars, machineVars>>

\* A slot and a block for the new process, and the V.
ExecChooses(t) ==
    /\ at[t] = "execHolding"
    /\ Usable(pid[t])
    /\ file[Own(t)] \notin {program[t], NULL}
    /\ FreeSlots # {}
    /\ made' = made + 1
    /\ reception' = reception \cup {FindAndSet}
    /\ blocks' = [blocks EXCEPT ![FindAndSet] = made + 1]
    /\ parentID' = [parentID EXCEPT ![made + 1] = pid[t]]
    /\ totalProcesses' = totalProcesses + 1
    /\ slot' = [slot EXCEPT ![t] = FindAndSet]
    /\ Sem!Release(semaphore)
    /\ GoTo(t, "execChosen")
    /\ UNCHANGED <<deleted, file, id, thread, exitCode, program, block, machineVars>>

\* blocks[slot]->Exec(), up to mutex->P().
ExecEnters(t) ==
    /\ at[t] = "execChosen"
    /\ Usable(slot[t])
    /\ block' = [block EXCEPT ![t] = blocks[slot[t]]]
    /\ P(t, mutex(blocks[slot[t]]), "mutexWait", "execMutex")
    /\ UNCHANGED <<tableVars, blockVars, program, slot, machineVars>>

\* The name is copied and the thread forked.
ExecForks(t) ==
    LET k == block[t]
        new == Len(forked) + 1
    IN
    /\ at[t] = "execMutex"
    /\ k \notin deleted
    /\ id' = [id EXCEPT ![k] = slot[t]]
    /\ file' = [file EXCEPT ![k] = program[t]]
    /\ thread' = [thread EXCEPT ![k] = new]
    /\ forked' = Append(forked, slot[t])
    /\ at' = [at EXCEPT ![t] = "execForked", ![new] = "new"]
    /\ UNCHANGED <<count, inP, tableVars, made, deleted, parentID, exitCode, localVars, pid, accepted>>

ExecReturns(t) ==
    /\ at[t] = "execForked"
    /\ block[t] \notin deleted
    /\ Sem!Release(mutex(block[t]))
    /\ ReturnToUser(t)
    /\ UNCHANGED <<tableVars, blockVars, machineVars>>

\* StartProcess, if none of the uninitialized pointers it uses is fatal.
StartProcess(t) ==
    /\ at[t] = "new"
    /\ GoTo(t, "user")
    /\ UNCHANGED <<count, inP, tableVars, blockVars, localVars, machineVars>>

-----------------------------------------------------------------------------
(***************************************************************************)
(* PTable::JoinUpdate.  A Join of no process, of itself or of another's    *)
(* child returns at once and changes nothing.                              *)
(***************************************************************************)

CallJoin(t) ==
    /\ at[t] = "user"
    /\ \E s \in Slots \ {pid[t]} :
        /\ blocks[s] # NULL
        /\ parentID[blocks[s]] = pid[t]
        /\ slot' = [slot EXCEPT ![t] = s]
    /\ Usable(pid[t])
    /\ block' = [block EXCEPT ![t] = Own(t)]
    /\ P(t, mutex(Own(t)), "countWait", "counting")
    /\ UNCHANGED <<tableVars, blockVars, program, machineVars>>

\* numwait, which nobody reads, and mutex->V().
JoinCounts(t) ==
    /\ at[t] = "counting"
    /\ block[t] \notin deleted
    /\ Sem!Release(mutex(block[t]))
    /\ GoTo(t, "counted")
    /\ block' = [block EXCEPT ![t] = NULL]
    /\ UNCHANGED <<tableVars, blockVars, program, slot, machineVars>>

\* Faulty: the child is released before it has exited.
JoinWaitsNot(t) ==
    /\ at[t] = "counted"
    /\ Usable(slot[t])
    /\ block' = [block EXCEPT ![t] = blocks[slot[t]]]
    /\ GoTo(t, "joined")
    /\ UNCHANGED <<count, inP, tableVars, blockVars, program, slot, machineVars>>

JoinWait(t) ==
    /\ at[t] = "counted"
    /\ Usable(slot[t])
    /\ block' = [block EXCEPT ![t] = blocks[slot[t]]]
    /\ P(t, joinsemaphore(blocks[slot[t]]), "joinWait", "joined")
    /\ UNCHANGED <<tableVars, blockVars, program, slot, machineVars>>

\* Faulty: the child is not released.
ExitReleaseForgotten(t) ==
    /\ at[t] = "joined"
    /\ Usable(slot[t])
    /\ GoTo(t, "released")
    /\ UNCHANGED <<count, inP, tableVars, blockVars, localVars, machineVars>>

ExitRelease(t) ==
    /\ at[t] = "joined"
    /\ Usable(slot[t])
    /\ Sem!Release(exitsemaphore(blocks[slot[t]]))
    /\ accepted' = accepted \cup {block[t]}
    /\ GoTo(t, "released")
    /\ UNCHANGED <<tableVars, blockVars, localVars, pid, forked>>

\* The exit code is read from whatever block the slot has now.
JoinReturns(t) ==
    /\ at[t] = "released"
    /\ Usable(slot[t])
    /\ ReturnToUser(t)
    /\ UNCHANGED <<count, inP, tableVars, blockVars, machineVars>>

-----------------------------------------------------------------------------
(***************************************************************************)
(* PTable::ExitUpdate.  With no block in its slot the process goes on.     *)
(***************************************************************************)

\* pid 0: the address space is freed and the machine halts.
ExitHalts(t) ==
    /\ at[t] = "user"
    /\ pid[t] = 0
    /\ StopMachine
    /\ UNCHANGED <<count, inP, tableVars, blockVars, localVars, machineVars>>

\* The exit code is set and JoinRelease called.
CallExit(t) ==
    /\ at[t] = "user"
    /\ pid[t] # 0
    /\ Usable(pid[t])
    /\ exitCode' = [exitCode EXCEPT ![Own(t)] = t]
    /\ Sem!Release(joinsemaphore(Own(t)))
    /\ GoTo(t, "exiting")
    /\ UNCHANGED <<tableVars, made, deleted, file, parentID, id, thread, localVars, machineVars>>

ExitWait(t) ==
    /\ at[t] = "exiting"
    /\ Usable(pid[t])
    /\ block' = [block EXCEPT ![t] = Own(t)]
    /\ P(t, exitsemaphore(Own(t)), "exitWait", "leaving")
    /\ UNCHANGED <<tableVars, blockVars, program, slot, machineVars>>

\* Remove() and ~PCB(), whose call of Finish() does not return: the block
\* stays in its slot, with the name deleted.
Finish(t) ==
    /\ at[t] = "leaving"
    /\ Usable(pid[t])
    /\ thread[Own(t)] = t
    /\ totalProcesses' = totalProcesses - 1
    /\ reception' = reception \ {pid[t]}
    /\ file' = [file EXCEPT ![Own(t)] = Garbage]
    /\ GoTo(t, "finished")
    /\ UNCHANGED <<count, inP, blocks, made, deleted, parentID, id, thread, exitCode, localVars, machineVars>>

\* Remove() of a block whose process has no thread yet, which is deleted.
RemoveUnstarted(t) ==
    /\ at[t] = "leaving"
    /\ Usable(pid[t])
    /\ thread[Own(t)] = NULL
    /\ totalProcesses' = totalProcesses - 1
    /\ reception' = reception \ {pid[t]}
    /\ deleted' = deleted \cup {Own(t)}
    /\ blocks' = [blocks EXCEPT ![pid[t]] = NULL]
    /\ ReturnToUser(t)
    /\ UNCHANGED <<count, inP, made, file, parentID, id, thread, exitCode, machineVars>>

\* Remove() finds that somebody has emptied the slot meanwhile.
RemoveNothing(t) ==
    /\ at[t] = "leaving"
    /\ ~Usable(pid[t])
    /\ ReturnToUser(t)
    /\ UNCHANGED <<count, inP, tableVars, blockVars, machineVars>>

-----------------------------------------------------------------------------
(***************************************************************************)
(* The accesses that take, or may take, the kernel down.                   *)
(***************************************************************************)
Fatal(t) ==
    \/ at[t] = "new"        \* StartProcess
    \/ /\ at[t] = "execHolding"
       /\ Usable(pid[t]) => file[Own(t)] \in {NULL, Garbage}
    \/ /\ at[t] \in {"execChosen", "counted", "joined", "released"}
       /\ ~Usable(slot[t])
    \/ /\ at[t] \in {"mutexWait", "execMutex", "execForked", "countWait",
                     "counting", "joinWait", "exitWait"}
       /\ block[t] \in deleted
    \/ /\ at[t] = "user"    \* Join by a process that is not in the table
       /\ ~Usable(pid[t])
       /\ \E s \in Slots \ {pid[t]} : blocks[s] # NULL /\ parentID[blocks[s]] = pid[t]
    \/ at[t] = "exiting" /\ ~Usable(pid[t])
    \/ /\ at[t] = "leaving" \* Finish()'s ASSERT(this == kernel->currentThread)
       /\ Usable(pid[t])
       /\ thread[Own(t)] \notin {t, NULL}

Crash(t) ==
    /\ Fatal(t)
    /\ StopMachine
    /\ UNCHANGED <<count, inP, tableVars, blockVars, localVars, machineVars>>

\* Where P goes when it has waited.
AfterP == [execWait |-> "execHolding", mutexWait |-> "execMutex", countWait |-> "counting",
           joinWait |-> "joined", exitWait |-> "leaving"]

\* P on s returns from waiting.
Woken(t, s) ==
    /\ at[t] \in DOMAIN AfterP
    /\ block[t] \notin deleted
    /\ Sem!TakeAfterWaiting(t, s)
    /\ GoTo(t, AfterP[at[t]])
    /\ UNCHANGED <<tableVars, blockVars, localVars, machineVars>>

Call(t) == CallExec(t) \/ CallJoin(t) \/ ExitHalts(t) \/ CallExit(t)

\* What a thread does inside the kernel.
Proceed(t) ==
    \/ ExecRefused(t) \/ ExecChooses(t) \/ ExecEnters(t) \/ ExecForks(t) \/ ExecReturns(t)
    \/ JoinCounts(t) \/ JoinWait(t) \/ ExitRelease(t) \/ JoinReturns(t)
    \/ ExitWait(t) \/ Finish(t) \/ RemoveUnstarted(t) \/ RemoveNothing(t)

Next == \E t \in Threads :
    \/ Call(t) \/ StartProcess(t) \/ Proceed(t) \/ Crash(t)
    \/ \E s \in Semaphores : Woken(t, s)

Spec == Init /\ [][Next]_vars

-----------------------------------------------------------------------------
(***************************************************************************)
(* Properties.                                                             *)
(***************************************************************************)

\* The variables have the types their declarations give them.
TypeOK ==
    /\ Sem!TypeOK
    /\ reception \subseteq Slots
    /\ blocks \in [Slots -> Blocks \cup {NULL}]
    /\ totalProcesses \in Int
    /\ made \in Blocks
    /\ deleted \subseteq Blocks
    /\ file \in [Blocks -> Programs \cup {NULL, Garbage}]
    /\ parentID \in [Blocks -> Slots \cup {-1}]
    /\ id \in [Blocks -> Slots \cup {-1, Garbage}]
    /\ thread \in [Blocks -> Threads \cup {NULL, Garbage}]
    /\ exitCode \in [Blocks -> Threads \cup {NULL}]
    /\ pid \in UninitializedPids
    /\ at \in [Threads -> Places]
    /\ program \in [Threads -> Programs \cup {NULL}]
    /\ slot \in [Threads -> Slots \cup {NULL}]
    /\ block \in [Threads -> Blocks \cup {NULL}]
    /\ forked \in Seq(Slots)
    /\ accepted \subseteq Blocks

\* Uninitialized memory happens to give every thread the pid it needs.
PidsAreSlots ==
    /\ pid[0] = 0
    /\ \A t \in DOMAIN forked : pid[t] = forked[t]

\* Whatever Thread::pid holds, the table's semaphore is given back on every
\* path through ExecuteUpdate, and every marked slot has a block.  With the
\* right pids totalProcesses has counted one for each marked slot, although
\* Remove works without the semaphore.  (With others, two Execs may find the
\* same block in their slot and fork it twice, and it may be removed twice.)
TableConsistent ==
    /\ at[0] # "stopped" =>
           count[semaphore] + Cardinality({t \in Threads : at[t] = "execHolding"}) = 1
    /\ \A s \in reception : blocks[s] # NULL
    /\ PidsAreSlots => totalProcesses = MAX_PROCESS + Cardinality(reception)

\* Nobody returns from Join, and no exiting process gives up its slot, before
\* the other has come: a Join that has passed JoinWait has an exit code to
\* read, and a process that has passed ExitWait has been joined by a parent
\* that is about to read it or has done so (pcblock.h: "The child process
\* notice the parent process", "The parent process accept to exit").
HandshakeOrder == \A t \in Threads :
    /\ at[t] \in {"joined", "released"} => exitCode[block[t]] # NULL
    /\ PidsAreSlots /\ at[t] \in {"leaving", "finished"} => block[t] \in accepted

\* A parent in JoinWait and its child in ExitWait never wait for each other,
\* also when the parent joins the same child again before it has left, or when
\* the first two threads, both with pid 0, join it: one of the semaphores has
\* the unit that lets one of them go on, or a thread that has passed JoinWait
\* is about to release the child.
NoMutualWait == \A k \in Blocks :
    /\ PidsAreSlots
    /\ \E t \in Threads : at[t] = "exitWait" /\ block[t] = k
    /\ \E t \in Threads : at[t] = "joinWait" /\ block[t] = k
    => \/ count[joinsemaphore(k)] > 0
       \/ count[exitsemaphore(k)] > 0
       \/ \E t \in Threads : at[t] = "joined" /\ block[t] = k

\* exception_part2.h:31 says that Join's output is the "exit code of the
\* thread" joined: the code is still there when Join reads it.
JoinReturnsExitCode == \A t \in Threads :
    PidsAreSlots /\ at[t] = "released" =>
        blocks[slot[t]] # NULL /\ exitCode[blocks[slot[t]]] = exitCode[block[t]]

=============================================================================
