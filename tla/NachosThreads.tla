--------------------------- MODULE NachosThreads ---------------------------
(***************************************************************************)
(* The thread system of the Nachos kernel: Thread and Scheduler            *)
(* (threads/thread.cc, threads/scheduler.cc), Semaphore (threads/synch.cc) *)
(* and the simulated CPU's interrupts (machine/interrupt.cc) with the      *)
(* timer's handler (threads/alarm.cc).                                     *)
(*                                                                         *)
(* There is one CPU, and kernel code is never preempted except where it    *)
(* turns interrupts back on: SetLevel(IntOn) calls OneTick, which runs the *)
(* handlers that are due and then yields if the timer asked for it.  A     *)
(* user instruction ends in OneTick too.  A step is therefore what the CPU *)
(* does between two such points; OneTick and Sleep's idle loop are broken  *)
(* into one step per interrupt handler.                                    *)
(***************************************************************************)
EXTENDS Integers, Sequences, FiniteSets, Functions

CONSTANTS
    Threads,            \* identities of Thread objects, reused after delete
    Main,               \* the thread Kernel::Initialize makes for itself
    Semaphores,
    DeviceSemaphores,   \* those that interrupt handlers V()
    InitialValue,       \* initialValue of each semaphore
    MaxValue,           \* bound: no V() takes a semaphore above it
    NULL

ASSUME ThreadsAssumption ==
    /\ Main \in Threads
    /\ IsFiniteSet(Threads)
    /\ NULL \notin Threads \cup Semaphores

ASSUME SemaphoresAssumption ==
    /\ DeviceSemaphores \subseteq Semaphores
    /\ MaxValue \in Nat
    /\ InitialValue \in [Semaphores -> 0..MaxValue]

VARIABLES
    \* Kernel and Scheduler
    currentThread,
    readyList,
    toBeDestroyed,
    \* Thread objects
    allocated,          \* the Thread objects that exist
    status,             \* Thread::status
    at,                 \* where the thread's kernel code is (Places)
    sem,                \* the semaphore whose P() the thread is in, or NULL
    oldStatus,          \* OneTick's local: the mode to restore after a yield
    \* Semaphore objects
    value,
    queue,
    \* Interrupt
    level,
    inHandler,
    yieldOnReturn,
    machineStatus,      \* Interrupt::status
    \* user programs
    user,               \* the thread is executing user instructions
    space,              \* the thread has an address space
    cpu,                \* whose user context the machine's registers hold
    userRegisters       \* whose user context Thread::userRegisters holds

schedVars == <<currentThread, readyList, toBeDestroyed>>
threadVars == <<allocated, status, at, sem, oldStatus>>
semVars == <<value, queue>>
intVars == <<level, inHandler, yieldOnReturn, machineStatus>>
userVars == <<user, space, cpu, userRegisters>>
vars == <<schedVars, threadVars, semVars, intVars, userVars>>

(***************************************************************************)
(* The places a thread can be in.  "begin": forked, Begin not yet run.     *)
(* "code": outside this module's code.  "tick": inside OneTick, handlers   *)
(* being checked.  "P": inside P's loop.  "yield": switched out by Yield.  *)
(* "finish": inside the Sleep(TRUE) of Finish.                             *)
(***************************************************************************)
Places == {"begin", "code", "tick", "P", "yield", "finish"}

ThreadStatus == {"JUST_CREATED", "RUNNING", "READY", "BLOCKED"}

Init ==
    /\ currentThread = Main
    /\ readyList = <<>>
    /\ toBeDestroyed = NULL
    /\ allocated = {Main}
    /\ status = [t \in Threads |-> IF t = Main THEN "RUNNING" ELSE "JUST_CREATED"]
    /\ at = [t \in Threads |-> IF t = Main THEN "code" ELSE "begin"]
    /\ sem = [t \in Threads |-> NULL]
    /\ oldStatus = [t \in Threads |-> "none"]
    /\ value = InitialValue
    /\ queue = [s \in Semaphores |-> <<>>]
    /\ level = "IntOff"
    /\ inHandler = FALSE
    /\ yieldOnReturn = FALSE
    /\ machineStatus = "SystemMode"
    /\ user = [t \in Threads |-> FALSE]
    /\ space = [t \in Threads |-> FALSE]
    /\ cpu = NULL
    /\ userRegisters = [t \in Threads |-> NULL]

-----------------------------------------------------------------------------
(***************************************************************************)
(* Pieces of code shared by the operations.                                *)
(***************************************************************************)

\* SetLevel(IntOn) when interrupts were off: OneTick has turned them off
\* again and is about to look for due interrupts.
OneTick(t) ==
    /\ at' = [at EXCEPT ![t] = "tick"]
    /\ level' = "IntOff"

\* Faulty: Prepend instead of Append.
ReadyToRunAtFront(t) ==
    /\ status' = [status EXCEPT ![t] = "READY"]
    /\ readyList' = <<t>> \o readyList

ReadyToRun(t) ==
    /\ status' = [status EXCEPT ![t] = "READY"]
    /\ readyList' = Append(readyList, t)

\* Faulty: the user's registers are not saved.
RunUnsaved(next, finishing) ==
    /\ toBeDestroyed' = IF finishing THEN currentThread ELSE toBeDestroyed
    /\ UNCHANGED userRegisters
    /\ currentThread' = next

\* Scheduler::Run up to SWITCH.
Run(next, finishing) ==
    /\ toBeDestroyed' = IF finishing THEN currentThread ELSE toBeDestroyed
    /\ userRegisters' = IF space[currentThread]
                          THEN [userRegisters EXCEPT ![currentThread] = cpu]
                          ELSE userRegisters
    /\ currentThread' = next

\* Faulty: toBeDestroyed is not reset.
CheckToBeDestroyedAgain ==
    /\ allocated' = allocated \ {toBeDestroyed}
    /\ UNCHANGED toBeDestroyed

\* The thread object Run left behind, if any, is deleted by its successor.
CheckToBeDestroyed ==
    /\ allocated' = allocated \ {toBeDestroyed}
    /\ toBeDestroyed' = NULL

\* Sleep(finishing) up to its loop.
Sleep(t, place) ==
    /\ status' = [status EXCEPT ![t] = "BLOCKED"]
    /\ at' = [at EXCEPT ![t] = place]
    /\ level' = "IntOff"

\* Yield after it has turned interrupts off.
YieldCPU(t) ==
    \/ /\ readyList = <<>>
       /\ OneTick(t)
       /\ UNCHANGED <<schedVars, status, userRegisters>>
    \/ /\ readyList # <<>>
       /\ LET next == Head(readyList) IN
            /\ readyList' = Append(Tail(readyList), t)
            /\ status' = [status EXCEPT ![t] = "READY", ![next] = "RUNNING"]
            /\ Run(next, FALSE)
       /\ at' = [at EXCEPT ![t] = "yield"]
       /\ level' = "IntOff"

\* Faulty: the value is not looked at.
TakeUnchecked(t, s) ==
    /\ value' = [value EXCEPT ![s] = @ - 1]
    /\ sem' = [sem EXCEPT ![t] = NULL]
    /\ OneTick(t)
    /\ UNCHANGED <<queue, status>>

\* One pass through P's loop: take a unit, or queue up and sleep.
TryP(t, s) ==
    \/ /\ value[s] = 0
       /\ queue' = [queue EXCEPT ![s] = Append(@, t)]
       /\ sem' = [sem EXCEPT ![t] = s]
       /\ Sleep(t, "P")
       /\ UNCHANGED value
    \/ /\ value[s] # 0
       /\ value' = [value EXCEPT ![s] = @ - 1]
       /\ sem' = [sem EXCEPT ![t] = NULL]
       /\ OneTick(t)
       /\ UNCHANGED <<queue, status>>

\* Faulty: the thread made ready stays on the queue.
VWithoutRemove(s) ==
    /\ value[s] < MaxValue
    /\ \/ /\ queue[s] # <<>>
          /\ ReadyToRun(Head(queue[s]))
       \/ /\ queue[s] = <<>>
          /\ UNCHANGED <<readyList, status>>
    /\ value' = [value EXCEPT ![s] = @ + 1]
    /\ UNCHANGED queue

\* Faulty: a waiter is woken only when the value leaves zero.
VWakeAtZero(s) ==
    /\ value[s] < MaxValue
    /\ \/ /\ queue[s] # <<>> /\ value[s] = 0
          /\ queue' = [queue EXCEPT ![s] = Tail(@)]
          /\ ReadyToRun(Head(queue[s]))
       \/ /\ queue[s] = <<>> \/ value[s] > 0
          /\ UNCHANGED <<queue, readyList, status>>
    /\ value' = [value EXCEPT ![s] = @ + 1]

\* V between its two SetLevel calls.
VBody(s) ==
    /\ value[s] < MaxValue
    /\ \/ /\ queue[s] # <<>>
          /\ queue' = [queue EXCEPT ![s] = Tail(@)]
          /\ ReadyToRun(Head(queue[s]))
       \/ /\ queue[s] = <<>>
          /\ UNCHANGED <<queue, readyList, status>>
    /\ value' = [value EXCEPT ![s] = @ + 1]

-----------------------------------------------------------------------------
(***************************************************************************)
(* What the running thread can do.                                         *)
(***************************************************************************)

\* t is executing the kernel's or a user program's own code.
InCode(t) == t = currentThread /\ at[t] = "code"

\* t is executing kernel code with interrupts on, from where it may call
\* the thread system.
InKernel(t) == InCode(t) /\ level = "IntOn" /\ ~user[t]

\* The end of Kernel::Initialize.
Enable(t) ==
    /\ InCode(t)
    /\ level = "IntOff"
    /\ OneTick(t)
    /\ UNCHANGED <<schedVars, allocated, status, sem, oldStatus, semVars,
                   inHandler, yieldOnReturn, machineStatus, userVars>>

\* new Thread and Fork: with interrupts off during Initialize (the postal
\* worker), with interrupts on afterwards, and then Fork ends in OneTick.
Fork(t, child) ==
    /\ InCode(t)
    /\ ~user[t]
    /\ child \in Threads \ allocated
    /\ allocated' = allocated \cup {child}
    /\ ReadyToRun(child)
    /\ at' = [at EXCEPT ![child] = "begin",
                        ![t] = IF level = "IntOn" THEN "tick" ELSE "code"]
    /\ level' = "IntOff"
    /\ user' = [user EXCEPT ![child] = FALSE]
    /\ space' = [space EXCEPT ![child] = FALSE]
    /\ userRegisters' = [userRegisters EXCEPT ![child] = NULL]
    /\ UNCHANGED <<currentThread, toBeDestroyed, sem, oldStatus, semVars,
                   inHandler, yieldOnReturn, machineStatus, cpu>>

P(t, s) ==
    /\ InKernel(t)
    /\ TryP(t, s)
    /\ UNCHANGED <<schedVars, allocated, oldStatus, inHandler, yieldOnReturn,
                   machineStatus, userVars>>

V(t, s) ==
    /\ InKernel(t)
    /\ VBody(s)
    /\ OneTick(t)
    /\ UNCHANGED <<currentThread, toBeDestroyed, allocated, sem, oldStatus,
                   inHandler, yieldOnReturn, machineStatus, userVars>>

Yield(t) ==
    /\ InKernel(t)
    /\ YieldCPU(t)
    /\ UNCHANGED <<allocated, sem, oldStatus, semVars, inHandler,
                   yieldOnReturn, machineStatus, user, space, cpu>>

Finish(t) ==
    /\ InKernel(t)
    /\ Sleep(t, "finish")
    /\ UNCHANGED <<schedVars, allocated, sem, oldStatus, semVars, inHandler,
                   yieldOnReturn, machineStatus, userVars>>

(***************************************************************************)
(* User programs.                                                          *)
(***************************************************************************)

\* AddrSpace::Execute: fresh registers, then Machine::Run, for ever.
Execute(t) ==
    /\ InKernel(t)
    /\ ~space[t]
    /\ space' = [space EXCEPT ![t] = TRUE]
    /\ user' = [user EXCEPT ![t] = TRUE]
    /\ cpu' = t
    /\ machineStatus' = "UserMode"
    /\ UNCHANGED <<schedVars, threadVars, semVars, level, inHandler,
                   yieldOnReturn, userRegisters>>

\* An instruction of the user program that raises no exception.
UserInstruction(t) ==
    /\ InCode(t)
    /\ user[t]
    /\ OneTick(t)
    /\ UNCHANGED <<schedVars, allocated, status, sem, oldStatus, semVars,
                   inHandler, yieldOnReturn, machineStatus, userVars>>

\* RaiseException up to and after the call of ExceptionHandler.  The
\* instruction that raised it ends, like any other, in OneTick.
EnterKernel(t) ==
    /\ InCode(t)
    /\ user[t]
    /\ user' = [user EXCEPT ![t] = FALSE]
    /\ machineStatus' = "SystemMode"
    /\ UNCHANGED <<schedVars, threadVars, semVars, level, inHandler,
                   yieldOnReturn, space, cpu, userRegisters>>

LeaveKernel(t) ==
    /\ InKernel(t)
    /\ space[t]
    /\ user' = [user EXCEPT ![t] = TRUE]
    /\ machineStatus' = "UserMode"
    /\ OneTick(t)
    /\ UNCHANGED <<schedVars, allocated, status, sem, oldStatus, semVars,
                   inHandler, yieldOnReturn, space, cpu, userRegisters>>

-----------------------------------------------------------------------------
(***************************************************************************)
(* Interrupt handlers, called by CheckIfDue from OneTick or from Idle.     *)
(* Which device is due when is left open; the timer is always pending.     *)
(***************************************************************************)

CheckingInterrupts == at[currentThread] = "tick" \/ machineStatus = "IdleMode"

\* Faulty: the alarm asks for a switch while the machine idles, too.
TimerAlwaysYields ==
    /\ CheckingInterrupts
    /\ inHandler' = TRUE
    /\ yieldOnReturn' = TRUE
    /\ UNCHANGED <<schedVars, threadVars, semVars, level, machineStatus, userVars>>

\* Faulty: the alarm never asks for a switch.
TimerNeverYields ==
    /\ CheckingInterrupts
    /\ inHandler' = TRUE
    /\ UNCHANGED <<schedVars, threadVars, semVars, level, yieldOnReturn,
                   machineStatus, userVars>>

\* Timer::CallBack and Alarm::CallBack.
TimerInterrupt ==
    /\ CheckingInterrupts
    /\ inHandler' = TRUE
    /\ yieldOnReturn' = (yieldOnReturn \/ machineStatus # "IdleMode")
    /\ UNCHANGED <<schedVars, threadVars, semVars, level, machineStatus, userVars>>

\* A device's CallBack, which V()s the device's semaphore.  Interrupts are
\* off before and after, so the V() ends without a tick.
DeviceInterrupt(s) ==
    /\ CheckingInterrupts
    /\ VBody(s)
    /\ inHandler' = TRUE
    /\ UNCHANGED <<currentThread, toBeDestroyed, allocated, at, sem, oldStatus,
                   level, yieldOnReturn, machineStatus, userVars>>

\* Faulty: OneTick does not restore the mode it found.
TickReturnInSystemMode(t) ==
    /\ t = currentThread
    /\ at[t] = "tick"
    /\ ~yieldOnReturn
    /\ inHandler' = FALSE
    /\ at' = [at EXCEPT ![t] = "code"]
    /\ level' = "IntOn"
    /\ oldStatus' = [oldStatus EXCEPT ![t] = "none"]
    /\ UNCHANGED <<schedVars, allocated, status, sem, semVars, yieldOnReturn,
                   machineStatus, userVars>>

\* No (more) interrupts are due and none asked for a switch: OneTick returns,
\* and with it any outer OneTick whose Yield was waiting for this one.
TickReturn(t) ==
    /\ t = currentThread
    /\ at[t] = "tick"
    /\ ~yieldOnReturn
    /\ inHandler' = FALSE
    /\ at' = [at EXCEPT ![t] = "code"]
    /\ level' = "IntOn"
    /\ machineStatus' = IF oldStatus[t] = "none" THEN machineStatus ELSE oldStatus[t]
    /\ oldStatus' = [oldStatus EXCEPT ![t] = "none"]
    /\ UNCHANGED <<schedVars, allocated, status, sem, semVars, yieldOnReturn,
                   userVars>>

\* The timer asked for a switch: OneTick yields.
TickYield(t) ==
    /\ t = currentThread
    /\ at[t] = "tick"
    /\ yieldOnReturn
    /\ inHandler' = FALSE
    /\ yieldOnReturn' = FALSE
    /\ oldStatus' = [oldStatus EXCEPT ![t] = IF @ = "none" THEN machineStatus ELSE @]
    /\ machineStatus' = "SystemMode"
    /\ YieldCPU(t)
    /\ UNCHANGED <<allocated, sem, semVars, user, space, cpu>>

-----------------------------------------------------------------------------
(***************************************************************************)
(* Sleep's loop, run by a thread that is blocked or finished and still has *)
(* the CPU.  Interrupt::Idle runs handlers until somebody is ready; the    *)
(* pending timer keeps it from halting the machine.                        *)
(***************************************************************************)

InSleep(t) == t = currentThread /\ at[t] \in {"P", "finish"} /\ status[t] # "RUNNING"

Idle(t) ==
    /\ InSleep(t)
    /\ readyList = <<>>
    /\ machineStatus # "IdleMode"
    /\ machineStatus' = "IdleMode"
    /\ UNCHANGED <<schedVars, threadVars, semVars, level, inHandler,
                   yieldOnReturn, userVars>>

\* CheckIfDue(TRUE) has fired at least one handler.
IdleReturn(t) ==
    /\ InSleep(t)
    /\ machineStatus = "IdleMode"
    /\ inHandler
    /\ inHandler' = FALSE
    /\ machineStatus' = "SystemMode"
    /\ UNCHANGED <<schedVars, threadVars, semVars, level, yieldOnReturn, userVars>>

\* There is a thread to run; it may be t itself, woken by a handler.
Dispatch(t) ==
    /\ InSleep(t)
    /\ machineStatus # "IdleMode"
    /\ readyList # <<>>
    /\ readyList' = Tail(readyList)
    /\ status' = [status EXCEPT ![Head(readyList)] = "RUNNING"]
    /\ Run(Head(readyList), at[t] = "finish")
    /\ UNCHANGED <<allocated, at, sem, oldStatus, semVars, intVars, user, space, cpu>>

(***************************************************************************)
(* The thread that SWITCH returns to, or starts.                           *)
(***************************************************************************)

SwitchedIn(t, place) == t = currentThread /\ at[t] = place /\ status[t] = "RUNNING"

\* The rest of Scheduler::Run.
Restore(t) ==
    /\ CheckToBeDestroyed
    /\ cpu' = IF space[t] THEN userRegisters[t] ELSE cpu

\* Thread::Begin.
Begin(t) ==
    /\ SwitchedIn(t, "begin")
    /\ CheckToBeDestroyed
    /\ OneTick(t)
    /\ UNCHANGED <<currentThread, readyList, status, sem, oldStatus, semVars,
                   inHandler, yieldOnReturn, machineStatus, userVars>>

\* Yield comes back from Run and turns interrupts on again.
ResumeYield(t) ==
    /\ SwitchedIn(t, "yield")
    /\ Restore(t)
    /\ OneTick(t)
    /\ UNCHANGED <<currentThread, readyList, status, sem, oldStatus, semVars,
                   inHandler, yieldOnReturn, machineStatus, user, space,
                   userRegisters>>

\* Faulty: P sleeps at most once ("if" for "while").
ResumePUnchecked(t) ==
    /\ SwitchedIn(t, "P")
    /\ Restore(t)
    /\ TakeUnchecked(t, sem[t])
    /\ UNCHANGED <<currentThread, readyList, oldStatus, inHandler,
                   yieldOnReturn, machineStatus, user, space, userRegisters>>

\* P comes back from Sleep and looks at the value again.
ResumeP(t) ==
    /\ SwitchedIn(t, "P")
    /\ Restore(t)
    /\ TryP(t, sem[t])
    /\ UNCHANGED <<currentThread, readyList, oldStatus, inHandler,
                   yieldOnReturn, machineStatus, user, space, userRegisters>>

-----------------------------------------------------------------------------
ThreadStep(t) ==
    \/ Enable(t)
    \/ \E child \in Threads : Fork(t, child)
    \/ \E s \in Semaphores : P(t, s) \/ V(t, s)
    \/ Yield(t)
    \/ Finish(t)
    \/ Execute(t)
    \/ UserInstruction(t)
    \/ EnterKernel(t)
    \/ LeaveKernel(t)
    \/ TickReturn(t)
    \/ TickYield(t)
    \/ Idle(t)
    \/ IdleReturn(t)
    \/ Dispatch(t)
    \/ Begin(t)
    \/ ResumeYield(t)
    \/ ResumeP(t)

Next ==
    \/ \E t \in Threads : ThreadStep(t)
    \/ TimerInterrupt
    \/ \E s \in DeviceSemaphores : DeviceInterrupt(s)

SafetySpec == Init /\ [][Next]_vars

(***************************************************************************)
(* The CPU never stops, and OneTick advances the clock past any pending    *)
(* timer interrupt, so ticks without end bring timer interrupts without    *)
(* end.                                                                    *)
(***************************************************************************)
TimerInTick == at[currentThread] = "tick" /\ TimerInterrupt

Fairness == WF_vars(Next) /\ SF_vars(TimerInTick)

Spec == SafetySpec /\ Fairness

-----------------------------------------------------------------------------
(***************************************************************************)
(* Properties.                                                             *)
(***************************************************************************)

\* The variables have the types their declarations give them.
TypeOK ==
    /\ currentThread \in Threads
    /\ readyList \in Seq(Threads)
    /\ toBeDestroyed \in Threads \cup {NULL}
    /\ allocated \subseteq Threads
    /\ status \in [Threads -> ThreadStatus]
    /\ at \in [Threads -> Places]
    /\ sem \in [Threads -> Semaphores \cup {NULL}]
    /\ oldStatus \in [Threads -> {"none", "UserMode", "SystemMode"}]
    /\ value \in [Semaphores -> 0..MaxValue]
    /\ queue \in [Semaphores -> Seq(Threads)]
    /\ level \in {"IntOn", "IntOff"}
    /\ inHandler \in BOOLEAN
    /\ yieldOnReturn \in BOOLEAN
    /\ machineStatus \in {"IdleMode", "SystemMode", "UserMode"}
    /\ user \in [Threads -> BOOLEAN]
    /\ space \in [Threads -> BOOLEAN]
    /\ cpu \in Threads \cup {NULL}
    /\ userRegisters \in [Threads -> Threads \cup {NULL}]

\* Threads inside P(s), and those of them that V has taken off the queue
\* and that have not looked at the value again yet.
InP(s) == {t \in Threads : sem[t] = s}
Woken(s) == {t \in InP(s) : t \notin Range(queue[s])}

\* No thread is forgotten and none is in two places: a thread is ready iff it
\* is on the ready list, once; it is blocked in P iff it is on that
\* semaphore's queue, once; only the current thread runs; and whatever else
\* exists is finishing with the CPU or waiting for its successor to delete
\* it.  A deleted thread is nowhere (ReadyToRun, FindNextToRun, P, V, Run).
ThreadPlacement ==
    /\ IsInjective(readyList)
    /\ \A s \in Semaphores : IsInjective(queue[s])
    /\ \A t \in Threads :
        /\ t \in Range(readyList) <=> t \in allocated /\ status[t] = "READY"
        /\ \A s \in Semaphores :
            t \in Range(queue[s]) <=>
                t \in allocated /\ at[t] = "P" /\ sem[t] = s /\ status[t] = "BLOCKED"
        /\ t \in allocated =>
            \/ status[t] = "READY"
            \/ status[t] = "RUNNING" /\ t = currentThread
            \/ status[t] = "BLOCKED" /\ at[t] = "P" /\ sem[t] \in Semaphores
            \/ status[t] = "BLOCKED" /\ at[t] = "finish" /\ t \in {currentThread, toBeDestroyed}

\* What a thread's place says about the rest of its state; with TypeOK and
\* ThreadPlacement this is inductive.  A finished thread waits for deletion
\* only until the thread that got the CPU from it runs (Run, Begin).
ControlState ==
    /\ currentThread \in allocated
    /\ at[currentThread] \in {"code", "tick", "begin", "yield"} => status[currentThread] = "RUNNING"
    /\ \A t \in Threads :
        /\ t \notin allocated => at[t] \in {"begin", "finish"}
        /\ sem[t] # NULL <=> at[t] = "P"
        /\ t \in allocated /\ status[t] = "READY" => at[t] \in {"begin", "yield", "P"}
        /\ t \in allocated /\ at[t] = "finish" => status[t] = "BLOCKED"
    /\ toBeDestroyed # NULL =>
        /\ toBeDestroyed \in allocated \ {currentThread}
        /\ at[toBeDestroyed] = "finish"
        /\ status[currentThread] = "RUNNING"
        /\ at[currentThread] \in {"begin", "yield", "P"}
    /\ machineStatus = "IdleMode" => InSleep(currentThread)
    /\ level = "IntOn" => at[currentThread] = "code"
    /\ inHandler => at[currentThread] = "tick" \/ machineStatus = "IdleMode"

\* The ASSERTs that several threads' actions could break: ~Thread never
\* deletes the current thread (thread.cc:66), Run never finds another corpse
\* when a thread finishes (scheduler.cc:111), handlers and the scheduler run
\* with interrupts off (interrupt.cc:129 and 286, scheduler.cc:59 and 108).
KernelAssertions ==
    /\ currentThread \in allocated
    /\ toBeDestroyed # NULL => /\ toBeDestroyed \in allocated \ {currentThread}
                               /\ at[currentThread] # "finish"
    /\ inHandler \/ at[currentThread] # "code" \/ status[currentThread] # "RUNNING"
         => level = "IntOff"

\* A request for a context switch is pending only while OneTick is checking
\* interrupts: it never survives into other code, never reaches another
\* thread, and is never made while the machine idles (Alarm::CallBack).
YieldOnlyInTick ==
    yieldOnReturn => inHandler /\ at[currentThread] = "tick" /\ machineStatus # "IdleMode"

\* Ticks are charged to the right account however ticks, yields and
\* switches interleave: user mode exactly while a user program executes,
\* idle mode only in Sleep's loop (OneTick's oldStatus, RaiseException, Idle).
ModeFollowsThread ==
    /\ at[currentThread] = "code" =>
        machineStatus = IF user[currentThread] THEN "UserMode" ELSE "SystemMode"
    /\ machineStatus = "IdleMode" => InSleep(currentThread)

\* The machine's registers hold the context of the user program that runs,
\* and those of every other one are saved in its thread (Run).
RegistersFollowThread ==
    \A t \in allocated : space[t] /\ at[t] # "finish" =>
        IF t = currentThread /\ (status[t] # "RUNNING" \/ at[t] \in {"code", "tick"})
        THEN cpu = t
        ELSE userRegisters[t] = t

\* No wakeup is lost.  While threads queue for s, every free unit of s has a
\* thread of its own that V woke and that will look at the value again, even
\* though others may take units in between (P, V).
NoLostWakeup ==
    \A s \in Semaphores : queue[s] # <<>> => Cardinality(Woken(s)) >= value[s]

Ahead(q, t, u) == \E i, j \in DOMAIN q : i < j /\ q[i] = t /\ q[j] = u

\* Nobody gets in front of a ready thread, and it leaves the ready list only
\* as its head and to run (List::Append and RemoveFront as Yield, Sleep, Fork
\* and V use them together).
ReadyListIsFIFO ==
    [][\A t \in Range(readyList) :
        \/ /\ t \in Range(readyList')
           /\ \A u \in Threads : Ahead(readyList', u, t) => Ahead(readyList, u, t)
        \/ /\ t = Head(readyList)
           /\ t = currentThread']_vars

\* P and V implement the counting semaphore of synch.h.
Abstract == INSTANCE CountingSemaphore WITH
    count <- value, inP <- [s \in Semaphores |-> InP(s)]

ImplementsCountingSemaphore == Abstract!Safety

\* Free units do not stay beside waiting threads for ever (P, V, OneTick).
SemaphoreIsLive == Abstract!Liveness

\* Every ready thread gets the CPU, even against threads that never block
\* (Alarm::CallBack, OneTick, Yield).
ReadyThreadRuns ==
    \A t \in Threads : status[t] = "READY" ~> (currentThread = t /\ status[t] = "RUNNING")

=============================================================================
