# Nachos 4.0 with multiprogramming: a TLA+ model

This directory keeps a TLA+ development of the Nachos teaching kernel in
`src/nachos/NachOS-4.0/code` (below, file names are relative to it). Nachos is
one host process that simulates a uniprocessor with its devices and runs the
kernel on it; the kernel runs user programs on a MIPS simulator. The modules
model the kernel and the machine under it; first of all the part whose correctness
depends on interleavings: threads, interrupts, semaphores, monitors. The runs
check them on small instances with TLC, the theorems hold for every value of
the constants and are checked by TLAPS. On top of that core stand models of the
drivers, the network, the tables user programs reach by system calls, the
address spaces, and the simulated processor.

## 1. The system

### Components, their state and operations

| Component | State | Operations | What makes it correct |
|---|---|---|---|
| Threads and scheduler (`threads/thread.cc`, `scheduler.cc`) | `currentThread`, `readyList`, `toBeDestroyed`; per thread `status`, saved user registers | Fork, Begin, Yield, Sleep, Finish; ReadyToRun, FindNextToRun, Run, CheckToBeDestroyed | no thread lost, duplicated or run after deletion; FIFO; every ready thread runs |
| Interrupt (`machine/interrupt.cc`) | `level`, `inHandler`, `yieldOnReturn`, `status` (the machine's mode), pending list | SetLevel, Enable, OneTick, YieldOnReturn, Idle, Schedule, CheckIfDue, Halt | handlers run with interrupts off; a switch is made only on return from a handler; mode restored |
| Timer, Alarm (`machine/timer.cc`, `threads/alarm.cc`) | the next timer interrupt | CallBack | time slices reach every thread; none while idle |
| Semaphore (`threads/synch.cc`) | `value`, `queue` | P, V | counts; no lost wakeup |
| Lock, Condition (`threads/synch.cc`) | `semaphore`, `lockHolder`; `waitQueue` of semaphores | Acquire, Release; Wait, Signal, Broadcast | mutual exclusion; no lost signal; waiter semaphores not used after delete |
| SynchList (`threads/synchlist.cc`) | a list, a lock, a condition | Append, RemoveFront, Apply | an item reaches one consumer, in order |
| SynchConsole, console device (`userprog/synchconsole.cc`, `machine/console.cc`) | per direction a lock and a semaphore; `incoming`, `putBusy`, the pending interrupt | GetChar, PutChar (GetString, PutString), CallBack of both layers | no byte lost or overtaken; the display is never sent a character while busy; both come back |
| Machine (`machine/mipssim.cc`, `machine.cc`, `translate.cc`) | `registers`, `mainMemory`, the page table in use | OneInstruction, Mult, DelayedLoad, Translate, RaiseException | an instruction computes what it says; loads land one instruction late, whatever comes between |
| AddrSpace (`userprog/addrspace.cc`, `lib/bitmap.cc`) | `pageTable`, `physPageBitMap`, `addrLock` | Load, Execute, RestoreState, destructor | a program has its own frames, all of them, with its file in them |
| Semaphore table (`threads/stable.cc`, `userprog/exception_part2.h`) | ten named semaphores, a bitmap | Create, Wait, Signal | a name means one semaphore; Signal wakes what Wait blocked |
| Process table (`threads/ptable.cc`, `pcblock.cc`) | ten PCBs with two semaphores each, a bitmap | ExecuteUpdate, JoinUpdate, ExitUpdate, Remove | Join returns the exit code of the child; slots are reused when free |
| Open files (`userprog/FileManager.h`, `ksyscall.h`, `exception_part1.h`) | twenty slots, `currentSize` | open, closeFile, read, write, seek; sockets | an identifier means one open file; the count is right |
| SynchDisk, Disk (`filesys/synchdisk.cc`, `machine/disk.cc`) | lock, semaphore, `active`, `lastSector`, `bufferInit` | ReadSector, WriteSector, ComputeLatency, CallBack | one request at a time; the latency is what the rotation takes |
| PostOffice, Network (`network/post.cc`, `machine/network.cc`) | mailboxes (SynchLists), `sendBusy`, `packetAvail` | Send, Receive, PostalDelivery, CallBack | a packet is taken before the next; mail in order |

They interact by calls and by callbacks. A system call raises an exception in
`Machine::Run`, whose handler calls kernel operations; these block in
`Semaphore::P`, which sleeps through the scheduler. Devices answer later: each
schedules an interrupt, and `Interrupt::CheckIfDue`, called from `OneTick` or
`Idle`, calls the device's `CallBack`, which V()s a semaphore. The timer's
callback asks for a context switch, which `OneTick` makes when the handlers are
done.

### What is hard about it

The kernel never runs on two CPUs, and is preempted only where it turns
interrupts back on, which ends in `OneTick`; a user instruction ends there too.
But `OneTick` is called at the end of *every* P, V, Fork and Yield, it yields
from inside, and that yield ends in another `OneTick`. So almost every kernel
operation may be suspended at its end, other threads may run any amount of code,
and a thread may resume in the middle of three operations at once. A thread
that sleeps goes on executing `Idle` with the CPU, where a handler may make that
very thread ready. A thread that finishes cannot delete itself, and its
successor must do it on whatever path it resumes. The list of hazards in
`PROJECT.json` names the line each of these bites at; no self test of the
repository (`ThreadSelfTest`, `SemaphoreSelfTest`, `SynchListSelfTest`) reaches
them, since without random time slices those tests always switch at the same
points.

## 2. The modules

| Module | Models | Role |
|---|---|---|
| `CountingSemaphore` | `synch.h`'s promise about P and V | abstract specification; the semaphores of every module but the core |
| `NachosThreads` | threads, scheduler, semaphores, interrupts, timer, user/kernel mode | the core; implements `CountingSemaphore` |
| `SynchList` | Lock, Condition and SynchList | composed with `CountingSemaphore` |
| `SynchronousDevice` | what the drivers of slow devices promise their callers | abstract specification |
| `SynchConsole` | synchronized console and the console device | composed with `CountingSemaphore`; its output implements `SynchronousDevice` |
| `SynchDisk` | synchronized disk and the disk device with its clock | composed with `CountingSemaphore`; implements `SynchronousDevice` |
| `LossyMail` | what the post offices promise together | abstract specification |
| `PostOffice` | post offices and network devices of several machines | composed with `CountingSemaphore`; implements `LossyMail` and, per machine, `SynchronousDevice` |
| `ProcessTable` | process table, PCBs, Exec, Join, Exit | composed with `CountingSemaphore` |
| `SemaphoreTable` | user semaphores and their system calls | |
| `AddressSpace` | Load, page frames, page table switching | composed with `CountingSemaphore` |
| `FileTable` | open file table and the file and socket calls | |
| `MipsMachine` | instructions, delayed loads, traps, system call dispatch, user switches | |
| `MC...` | | one instance for TLC of each of the above that is run |
| `NachosThreadsProofs` | | proofs about `NachosThreads`: placement, switches, order, semaphores, the refinement |
| `SynchListProofs`, `SynchConsoleProofs`, `SynchDiskProofs` | | proofs about the monitor and the two drivers, with the refinements of `SynchronousDevice` |
| `PostOfficeProofs` | | proofs about `PostOffice`, with both refinements |
| `AddressSpaceProofs`, `ProcessTableProofs`, `FileTableProofs` | | proofs about the frames and the tables of processes and files |

The composition is in two layers. `NachosThreads` has the real `P` and `V`, with
queue, scheduler and preemption, and is shown to implement `CountingSemaphore`.
The modules above it use `CountingSemaphore`'s actions for every
semaphore they contain (`Sem == INSTANCE CountingSemaphore`), so they need not
carry the scheduler along, and stay small enough to check. In them a step of a thread
runs from one point where it can lose the CPU to the next, and those points, by
`NachosThreads`, are the ends of `P`, `V`, `Fork` and `Yield`. `SemaphoreTable` and
`FileTable` have calls that nothing interrupts, so a step is a call.

A definition whose comment says "Faulty" is not part of a specification: it is
a mistake one could make in the operation above or below it, and serves to
show that a property notices that mistake.

### CountingSemaphore

`count[s]` is the value of semaphore `s`, `inP[s]` the set of threads inside its
`P`. A thread enters `P` (`StartWaiting`), leaves it with a unit
(`TakeAfterWaiting`), or does both at once (`TakeAtOnce`); `Release` is `V`. Which waiting
thread gets a unit is left open, since in the code a newcomer may overtake a
woken one. `Safety` is the specification, `Liveness` says that a free
unit does not stay beside waiting threads: *some* waiter gets it. The code promises a
particular waiter nothing, and the specification does not either.

### NachosThreads

The state is that of the C++ objects, under their names: `currentThread`,
`readyList`, `toBeDestroyed`, per thread `status`, per semaphore `value` and
`queue`, and `level`, `inHandler`, `yieldOnReturn`, `machineStatus` (the field
`Interrupt::status`). `allocated` is the set of Thread objects that have not
been deleted. The stack of a thread is abstracted to `at`, the place where it
can be while others run, with two locals: `sem`, the semaphore it is in `P` of,
and `oldStatus`, the mode that the outermost `OneTick` of the thread will restore. A
nested `OneTick` saves only `SystemMode`, so the outermost one's mode is the one
that is left when all have returned. `cpu` says whose user context the simulated
registers hold, `userRegisters[t]` whose context thread `t` has saved.

One action is what the CPU does from one point where something else can happen
to the next:

* `Fork`, `P`, `V`, `Yield`, `Finish`, `Execute`, `EnterKernel` (an exception),
  `LeaveKernel`, `UserInstruction`, `Enable`: what a running thread can do. Those that turn
  interrupts on end with the thread `at` `"tick"`.
* `TimerInterrupt`, `DeviceInterrupt`: `CheckIfDue` calls a handler.
  `TickReturn`, `TickYield`: the rest of `OneTick`.
* `Idle`, `IdleReturn`, `Dispatch`: the loop of `Sleep` and the switch.
* `Begin`, `ResumeYield`, `ResumeP`: what the thread that has been switched to
  does first, including the deletion of a finished one.

Abstracted: when an interrupt is due (any device may be, any number of times),
what user programs compute, stacks, priorities of code that only prints.

### SynchList

A lock is a `CountingSemaphore` with one unit plus `holder`. A condition is the
queue `waitQueue` of semaphores, one for each waiting thread (`Wait` allocates
it, and `live` is the set of those not deleted yet). Each thread goes through
the operation of its choice; `at` says which lock, wait or list operation is
next.

### SynchronousDevice

The disk, the display and the network are driven in the same way: take a lock, hand a request to the device,
wait for its interrupt, give the lock back. `SynchronousDevice` is what callers get: each of `Callers` goes
through the `Stages` of a call, `Grant` gives the device to one of them at a time, `Request` needs an idle device, and `Return`
comes after the `Answer` to the caller's own request. It has several `Devices`, so that one instance stands
for the networks of all machines; the disk and the display are one device each. In each driver `Stage(t)` maps
a thread's place to its stage. The interrupt is the answer, also to a thread that has not returned from the semaphore yet:
while it is in `wait`, whether the semaphore has a unit tells `"served"` from `"answered"`. That works because only the holder of the
lock waits for the semaphore, which the refinement thereby checks.

### SynchConsole

For each direction the lock (here only its semaphore, the holder check being
the subject of `SynchList`) and the semaphore `waitFor`. `readPending` and
`writePending` are the scheduled interrupts. The input is a file of
`InputLength` bytes; byte *n* is represented by *n*. Which of them have the value
0xFF, which as a `char` equals `EOF`, is the file: `inputFile`, one of `InputFiles`. `incoming`, `putBusy` as in the device.
`received` is the history of what `GetChar` returned and `display` that of what
the display was sent. `ReadByte` and `ReadEnd` are the two outcomes of the
keyboard's `CallBack`; when it finds nothing to read it schedules itself again,
which changes nothing.
`InputEndsAtEOF` says when the keyboard can be heard of again: exactly as long as no `GetChar` has returned
`EOF`. That makes the finding of `console_eof` precise, for every input.

### SynchDisk

Lock and semaphore as in the console. The device has `active`, the pending
interrupts `due` with their times, the head (`lastSector`) and `bufferInit`, when the track
buffer started to be loaded; `totalTicks` is the simulated clock, which `Tick` advances.
`ComputeLatency` is the code's: seek, rotation, `ModuloDiff`, the answer from
the track buffer for a read, with `UpdateLast` moving the head. An interrupt may be served a
tick late. `issued` and `settled` are history: when the last request was made, and
when the head came to rest on its track. Contents of sectors are one bit that each write flips,
enough to see whether a read still shows what is on the disk.

### PostOffice and LossyMail

A machine has `sendLock`, `messageSent` and `messageAvailable`, an output device
(`sendPending`), an input device that buffers one packet (`inbox`), a postal worker
(a thread named by the machine) and mailboxes. `NetworkSend` puts the packet into
the socket of its destination or loses it; either way the interrupt is scheduled.
`PacketArrives` is the poll of the socket; it does nothing while a packet is
buffered. Mailboxes are `SynchList`s, and since that module shows that they deliver in
order and lose nothing, they are sequences here. The host's datagram sockets are external: they
keep order and do not lose on one host. `LossyMail` has one queue for each mailbox of each
machine; the refinement maps it to the mailbox, the worker's hand, the
buffer and what the socket holds for that mailbox (`ForBox`), one after the other.
`SelectIn` takes the messages of one mailbox out of a socket; it is a recursive function, so
that the proofs can use it.

### ProcessTable

Block *n* is the PCB the *n*th Exec makes and thread *n* the *n*th that is forked; block and thread 0 are
the first process. The two numbers differ when Execs overtake each other between
choosing a slot and forking. `reception` is the bitmap, `blocks` the array, `thread` is `PCB::thread`.
The places name the points between the semaphore operations of `ExecuteUpdate`, `JoinUpdate` and
`ExitUpdate` and of the PCB's functions they call. The calling process is found by `Thread::pid`,
which nothing initializes: `pid` starts with any function of
`UninitializedPids`, whose values are slots (any other value indexes memory beyond the table, and
the model does not follow it there). `forked[n]` is history: the slot that thread *n* was forked for. `PidsAreSlots`
says that every thread happens to have the pid it needs; without that two Execs may
fork the same block, and a block may be removed twice. `Fatal` collects the states in which the code follows a null, deleted or
uninitialized pointer or fails an ASSERT; `Crash` stops the machine there, and where
the memory is merely uninitialized the alternative, that all goes well, is there too.
`Finish` is `Remove` with the destructor that does not return, so that the bit is
clear and the block still in its slot.

### SemaphoreTable

`value` and the sleepers (`waiting`) of each slot. A name that is compared has been
deleted (`exception_part2.h`), so `Wait` may find any slot in use. `P` tests `value == 0`, so a
negative value goes down further. `Signal` searches the free slots: it crashes
on the null pointer, or finds nothing if none is free.

### AddressSpace

Memory and files are counted in pages, a page's content is `<<t, i>>`, "page *i* of
process *t*", or `Blank`. `LoadProgram` takes the frames `FindAndSet` gives,
clears them, and copies the segments as the code does: for every frame of the program, a
page of the file to that frame plus the segment's virtual page. `Switch` changes
the machine's page table only for a thread with a space, as `RestoreState` does. A
thread's end frees nothing; only the exit of pid 0 runs the destructor, and halts.
The size of a program, `numPages`, leaves out the read-only data, as the code does, so a file may be
longer than the program's frames. `CopySegment` then writes where the code does: to the frames
after the program's own, which belong to nobody yet and are cleared when they are taken. Past the end of
`mainMemory` is memory of the host: there the copy may be fatal (`Stop`, with `CopiesBeyondMemory`) or not.
A program without code gets no read-only data at all, since they come with the code (`IsCopied`).

### FileTable

An entry has `id` (type times 100 plus descriptor), `type`, `fd`, and the
`OpenFile`'s `offset`; the host (external) has `open`, `directory` and `length`. Each system
call is an action with the code's searches: by id (`getFile`), and, in `closeFile`, by *index*,
although an id is passed. A file is its length. `WriteFile` writes at the end
whatever the offset, `OpenFile::Length` is one less than the length, and a failed
read adds its -1 to the offset: all as in the code. A Connect that fails closes the descriptor it finds
in the entry that has the id, and nothing asks whether that entry has a socket: in a file, or
a free entry (id -1), the number was never set, and `socketIDs` makes it any descriptor or none. Without an entry the
call goes through a null pointer (`SysConnectMissing`). A Connect that succeeds changes nothing here.
`FileTableAssumption` asks for as many descriptors below a hundred as the table has entries: the host hands out the
lowest free one, so an id, which adds the descriptor to a hundred times the type, is never ambiguous.

### MipsMachine

One action for each kind of instruction. The registers are those of `machine.h`, the
pending load (`LoadReg`, `LoadValueReg`) and the three PCs among them. Every instruction
ends in `Retire`, which lands the pending load, advances the PCs and leaves a new
load pending; a trap lands it by itself (`RaiseException`), and the system
call handlers call `IncPC`, or do not. Between any two instructions an interrupt may be due: `CheckIfDue` lands
the pending load before the handlers run, so that the instruction in the delay slot finds it landed, and may overwrite it.
`Switch` is such an interrupt whose handler asks for a switch, or a call that waits; it saves and restores the registers,
with nothing pending in those it saves. `Translate` goes through the page table of the running thread.
A word has four bytes of `ByteBits` bits, and all masks and shifts are by multiples of
that, so that words of 8 bits show what 32 bits do; `Mult` is the loop of the code,
with its two accumulators and carries. Instructions are decoded already; a program's text is
not data for it, and a program that leaves its text is followed no further.
`note` is history: what a load or a store of a word should bring about, and the exact
product.

## 3. The runs

| Run | Instance | Properties | Distinct states |
|---|---|---|---|
| `threads` | 3 threads, a device semaphore, values up to 2 | `TypeOK`, `ThreadPlacement`, `KernelAssertions`, `YieldOnlyInTick`, `ModeFollowsThread`, `RegistersFollowThread`, `NoLostWakeup`, `ReadyListIsFIFO`, `ImplementsCountingSemaphore`, `ReadyThreadRuns`, `SemaphoreIsLive` | 89,348 |
| `synchlist` | 4 threads, 3 items, all operations | `MutualExclusion`, `HolderSurvivesSignal`, `WaiterLifetime`, `NoLostSignal`, `ItemIsTaken` | 311,615 |
| `console` | 3 threads, 3 output characters, two inputs of 3 bytes: one with 0xFF at the end, one without | `DeviceAssertions`, `InputInOrder`, `InputEndsAtEOF`, `ImplementsSynchronousDevice`, `CharIsTaken`, `DisplayIsFreed` | 66,181 |
| `disk` | 2 threads, 2 tracks of 3 sectors, requests up to tick 11 | `OneRequestAtATime`, `LatencyCoversSector`, `ImplementsSynchronousDevice`, `RequestCompletes` | 441,617 |
| `post` | 2 machines, 2 mailboxes, 2 senders and 1 receiver, 3 messages | `ImplementsLossyMail`, `ImplementsSynchronousDevice`, `MailArrives`, `SendReturns` | 55,132 |
| `processes` | 3 slots, 4 Execs of 2 programs, two ways `Thread::pid` may turn out | `TableConsistent`, `HandshakeOrder`, `NoMutualWait` | 1,458,972 |
| `page_frames` | 8 frames, 3 processes, programs of 3, 4 and 10 pages, and one of 3 with a file of 5 | `ImageIntact`, `LoadAllOrNothing` | 19,688 |
| `files` | 3 entries, 3 descriptors, 1 name, 2 files, lengths up to 1 | `FilesOwnDescriptors`, `CountNotAhead` | 1,011,608 |
| `machine` | 8-bit words; every instruction, on boundary values, in delay slots, against two other programs | `UnalignedAccess`, `MultIsExact`, `Isolation` | 606,192 |
| `console_eof` | 2 threads, 1 input byte, 1 output character | `GetCharSeesEOF`, **violated** | |
| `join_code` | as `processes` | `JoinReturnsExitCode`, **violated** | |
| `semaphore_signal` | 2 threads, 2 slots, 2 names, initial values -1 to 1 | `SignalReleases`, **violated** | |

What they show:

* `threads`: under every interleaving the lists of the scheduler and of the
  semaphores partition the threads (`ThreadPlacement`); the ASSERTs that need several actors
  to break hold (`KernelAssertions`); time slices are requested and taken in
  the same `OneTick` (`YieldOnlyInTick`); user and system time, and the
  registers, belong to the thread that runs; no wakeup is lost (`NoLostWakeup`: while threads
  queue, each free unit has a woken thread of its own, which is why waking
  *one* thread per V is enough although newcomers may take units); the ready
  list is FIFO as a whole; `P` and `V` implement `CountingSemaphore`; nobody
  starves on the ready list, and semaphores are live.
* `synchlist`: the monitor is sound under Mesa semantics, a signal is never
  lost between the release of the lock and the wait, a waiter's semaphore is never
  used after its deletion, and an item leaves the front as long as somebody
  wants one.
* `console`: readers and writers keep the devices' ASSERTs and the order of
  the input, also past a 0xFF byte and the end of the file; what has arrived is
  taken, and the display is freed. Until `GetChar` has returned `EOF` another character is
  announced, and never after. `PutChar` returns after the display's answer to its own character.
* `disk`: the semaphore outlives a request only inside the lock, so no request finds the
  disk busy and no thread takes another's interrupt; the latency, which mixes seek,
  rotation, remainders and the track buffer, is never shorter than the passage of the sector
  under the head, nor longer than a seek and a revolution; every request completes, and its caller comes back after the answer to it and no other.
* `post`: mail is carried at most once and kept in order through four buffers and two
  kinds of thread, packets carried arrive, and a sender comes back also when its packet
  is lost. `sendBusy`, which `Send` asserts and `CallBack` clears, is set by nobody
  (`network.cc`, `NetworkOutput::Send`): only `sendLock` keeps two sends apart, and
  the refinement of `SynchronousDevice` shows that it does.
* `processes`: the table's semaphore comes back on every path and every marked slot has a
  block, whatever the pids are; with the right pids the count agrees with the bitmap, although
  `Remove` works without the semaphore, nobody passes `JoinWait` or `ExitWait` before the other side has
  come, and a parent and a child that wait always have a unit for one of them: also when a
  child is joined twice. It is a statement about the behaviours up to a crash, of which the
  code has many (below).
* `page_frames`: the copy is right *because* frames are never given back one by one: the frames of
  a program are always next to each other, and those after them are free, so that also the copies of a
  program whose file is longer than its frames hit nobody's. `addrLock` makes checking and
  taking one step, and is given back on every path.
* `files`: while no socket has been closed and no Connect has failed, ids and descriptors stay unique and open,
  although `closeFile` closes the wrong entry; the count errs only to the side that lets Open go on.
* `machine`: loads land in time whatever is in the delay slot, and before it when an interrupt comes, `LWL`/`LWR` and `SWL`/`SWR` move a word
  at every alignment and in either order, across a page boundary, products are
  exact for both signs, and neither an instruction nor a switch touches another
  program's registers or memory.

The three violated properties are disagreements between the code and what it says of itself:

* `console_eof`. `synchconsole.cc:50` says that `GetChar`
  waits "for EOF or a char to be available". After the end of the input has been reported
  once, no interrupt is scheduled (`console.cc:106` schedules the next one only for a
  character), so the next `GetChar` waits for ever, holding the lock of the input.
  A byte 0xFF in the input has the same effect, with input left unread.
* `join_code`. `exception_part2.h:31` gives Join's output as "exit code of the thread".
  `JoinUpdate` lets the child go (`ptable.cc:147`) and reads the code from the
  slot afterwards (`ptable.cc:149`); in between the child may leave and an Exec
  of a third process put a new block there.
* `semaphore_signal`. `stable.h:35` says that Signal releases a semaphore that
  exists; `stable.cc:84` searches the slots whose bit is *not* set.

Met while modelling, and part of the models without a property of their own:
`PTable` leaves the bit of slot 0 clear, so the first Exec takes the place of its
parent's block; `StartProcess` loads through pointers nobody initialized and ignores
what Load returns; Load checks and takes memory for a size that leaves out the read-only data
(`addrspace.cc:120`, although the build defines `RDATA` and `draft_addrspace.cc:125` counts them), so that the initialized data of a program with
more of them than uninitialized data and stack go to frames that are not taken, or past the memory, where
the program itself cannot address them; `connectSocket` closes the descriptor of an entry that never was a socket; `openFile` uses a null `OpenFile` for a missing file;
`SRL` and `SRLV` shift arithmetically (`registers` are ints); `DIV` of the least int by -1
traps on the host and ends the simulation; `SC_Add` runs into
`ASSERTNOTREACHED` after its `IncPC`; `SC_Receive` advances the PC twice when it succeeds; a system
call without a case, and every exception other than a system call, returns without advancing
the PC, and the instruction starts over for ever.

**Bounds.** `MaxValue` bounds a semaphore's value (the code does not), `Threads` the
Thread objects alive at once, `MaxItems` the items ever appended,
`InputLength` and `MaxOutput` the console traffic. Three threads are what the hard cases need: one that
sleeps, one that V()s, one that comes in between, or one that is finishing, its successor
and a third that is woken. Thread objects are reused, so there is no bound on how many threads are
ever created. Value 2 is the first at which two free units and two woken
threads coexist. Four threads make two consumers and a producer contend with
another operation in `SynchList`. Three bytes give order, loss and repetition something to
show in, 0xFF as the last one shows the stopped input with bytes taken before it, and
the file without it the end of the input.
`MaxTicks` bounds when a request may be made: eleven ticks are more than a seek and a
revolution (3 + 6), so that a second request meets a track buffer that is empty, partly or fully
loaded; two tracks are enough to seek, and three sectors are the least that wrap around unevenly.
Three messages fill the worker's hand, the buffer and the socket at once (`MaxMessages`).
Four Execs in three slots (`MaxExecs`) have a slot used again while its former child and a parent are still there;
`PidsOfTwo` has the lucky case, in which every thread gets the pid of its slot, and
one in which all get the same. Eight frames hold two programs of three or four pages and not
a third, and the program of ten never fits; the one of three pages with a file of five writes to a frame after its own, and past the memory if it is loaded after the one of four. Three entries (`MaxSize`)
let `closeFile` hit a file, a socket, and nothing, since descriptor 2 makes an id inside the table
and the others make ids beyond it; `MinSize` bounds how far the count sinks, and
`MaxLength` a file. In `machine` a word has
8 bits, the least at which the four bytes of a word are still distinguishable;
programs have at most four instructions, one more than what a load, its delay slot and a
use need, and `Inputs` enumerates them over boundary values (0, 1, the largest and least int,
their neighbours). The theorems of section 4 hold for every value of these constants, so they do not depend on
the bounds; `SemaphoreTable` and `MipsMachine` are checked within them only.

**Types.** Each module has a `TypeOK`. The run `threads` checks it; that of the other
modules holds in their instances too, and is not part of the runs, which spend their time on the other
properties. In the modules with proofs it is a conjunct of the inductive invariant and proved.
Three more invariants hold in the instances and are proved, without being part of a run: `ControlState`, the bookkeeping
of the thread system's places, and `OneInterruptPerChar` and `OneSendAtATime`, about which the refinements of
`SynchronousDevice` say more.

**Deadlock** is checked for the thread system, which never stops: the timer
always has an interrupt pending. The other instances stop when their
bounded work is done, when all threads wait for an item, a key or a message, or when the machine halts
or crashes, which are states the code has. That nothing else stops the list, the drivers or the post offices is proved instead
(`NoDeadlock`, `WritersGoOn`, `ReadersGoOnBeforeEOF`, `SendersGoOn`, `PacketsGoOn` of section 4).

**Fairness.**
* Thread system: `WF(Next)`, the CPU does not stop; and strong fairness of the timer's
  interrupt within `OneTick`: `OneTick` advances the clock on every call and
  the timer always has an interrupt pending at a fixed distance (or a random, bounded one),
  so ticks without end bring timer interrupts without end. No fairness is
  assumed for any thread's own actions, nor for devices: that ready threads run is a result
  (`ReadyThreadRuns`), not an assumption.
* `SynchList`, `SynchConsole`, `SynchDisk`, `PostOffice`: weak fairness of what a thread does inside an
  operation, and of "some waiter of this semaphore is served", which
  are `ReadyThreadRuns` and `SemaphoreIsLive` of the thread system. No
  particular waiter is promised service. Pending console, disk and send interrupts become
  due, and so does a read interrupt at the end of the input; a byte may never be typed. The disk's
  clock goes on. The network's input device polls its socket for ever, as its handler
  schedules itself again, and the postal worker never stops.
  Calling an operation is never fair: a program may stop calling.
* The other modules state safety only: their operations may crash, and `ExitUpdate` waits
  for a Join that a program need not make.

Every property of a passing run has been shown able to fail: `mutants` in
`PROJECT.json` names, for each, a faulty definition with which TLC finds it violated.

## 4. The theorems

A theorem holds for every value of the constants that satisfies the module's assumption; TLC
evaluates the assumptions in the runs. They say:

* `ThreadsAssumption`, `SemaphoresAssumption`: `Main` is a thread, threads are finite, `NULL` is none
  of them and no semaphore, initial values are natural numbers within `MaxValue`.
* `SynchListAssumption`: threads are finite, and the lock's semaphore is none of the waiters'.
* `SynchConsoleAssumption`: `EOF` is no byte of the input; an input file is any choice of the bytes that
  look like it.
* `SynchDiskAssumption`: the geometry and the times are positive.
* `PostOfficeAssumption`: every client runs on a machine, and addresses are machines and mailboxes.
* `AddressSpaceAssumption`: the sizes of the memory, the stack and the segments are natural numbers, and `NULL` is no process.
* `ProcessTableAssumption`: there is a slot, and uninitialized pids are slots.
* `FileTableAssumption`: the host has a descriptor below a hundred for every entry of the table (20 in the code).

Each proof module defines `Inductive`, proves that `Init` implies it with one lemma (`InitialStates` or `InitInductive`) and that
every step keeps it with one lemma per action, most with a step for each conjunct; the theorem
`InductiveInvariant` combines them, and each property is read off from it. TLC has checked `Inductive` on the
instances of the runs first.

* `NachosThreadsProofs`. `ThreadPlacement` is not inductive by itself: that V
  may put the head of the queue on the ready list needs to know that the head is not
  current, or that it is in `Sleep`'s loop, and that a deleted thread is on no
  queue. `ControlState` says, for each place a thread can be in,
  what status it has and who may be waiting for deletion. `Inductive == TypeOK /\
  ThreadPlacement /\ ControlState` is inductive; lemmas on `Append`, `Tail` and their
  combination as operations on lists without repetitions carry the rest: `ThreadsKeepTheirPlace`,
  `PlacesDetermineState`, `AssertionsHold`.
  - What a switch carries along: `ModeInv` strengthens `ModeFollowsThread` with what
    `oldStatus` holds in threads that were switched out inside `OneTick`;
    `RegistersInv` adds to `RegistersFollowThread` what new threads hold. With `Inductive` they are
    `SwitchInv`: `SwitchInvariant`, `RequestsStayInTick`, `ModeIsRight`, `RegistersAreRight`.
  - Every step is, for the semaphores, a pass through P's loop, a V or nothing (`SemaphoreSteps`). From
    this: `NoWakeupIsLost`, by counting woken threads, and `SemaphoresRefineCounters`, the refinement
    `SafetySpec => ImplementsCountingSemaphore`, with `count <- value` and `inP`
    mapped to the threads whose `sem` it is.
  - Every step leaves the ready list alone, appends to it, takes its head out to run it, or both
    (`ListSteps`); that it has no repetitions, from `Inductive`, gives `ReadyListOrder`, the action property
    `ReadyListIsFIFO`.
* `SynchListProofs`. The properties together are nearly inductive. They lack that only a `RemoveFront` is
  ever in `Condition::Wait` (`WaitInv`), and that the items still to be appended are within `MaxItems` (`BoundInv`).
  `NoLostSignal` compares the number of threads that were signalled with the length of the list; its lemmas
  follow both through an `AppendItem` that signals a waiter and a `RemoveItem` that finds one item or none.
  `NoDeadlock` adds that a thread is in a semaphore exactly while its place says so (`InsideInv`) and that
  waiters belong to threads in `RemoveFront` (`WaiterInv`): if no thread inside can go on and the list has an item,
  `NoLostSignal` has a signalled one, whose waiter has its unit by `WaiterLifetime`.
* `SynchConsoleProofs`. `LockInv`: one thread at a time in each direction. `InputInv`: a read interrupt is pending, or
  its unit is free, or a reader has it, never two of these. `OutputInv`: the display is `Shown`, `Showing` or
  `Signalled`, the last two only while a thread waits. `InputInOrder` is inductive with these.
  `InputEnds` is inductive relative to them: `TakeChar` asks for the next interrupt exactly if it did not take
  an `EOF`. `WritersGoOn` and `ReadersGoOnBeforeEOF` use `WaitInv`, which ties places to semaphores; the second also uses
  `InputEnds`, and says that the end of the input is the only way to be stuck in `GetChar`.
* `SynchDiskProofs`. `LockInv` and `DeviceInv` as in the console give `OneRequestAtATime`. `HeadInv` says that the track
  buffer starts to be loaded at the edge of a sector and after the head has settled, which is what `LatencyCoversSector`
  needs; the rest is arithmetic of quotients and remainders, in lemmas of their own. `NoDeadlock` as in the console.
* The refinements of `SynchronousDevice` (`DriverRefinesDevice`, `PutCharRefinesDevice`, `PostOfficesRefineDevice`) have a
  lemma per action that names the abstract action it is, or shows that the mapped variables stay. `Stage` depends on the semaphore's count, so a
  step that changes the count could move every caller of the device; `OthersStay` (or `OneCallMoves`) shows that it moves one, since by
  `LockInv` only one is past the lock. That an interrupt answers somebody is `DeviceInv`.
* `PostOfficeProofs`. `LockInv` and `DeviceInv`, per machine, as in the drivers; `WaitInv` is needed
  because "some waiter gets the unit" ranges over all threads, and says that those in P of a machine's
  semaphores run on it; `WorkerInv` ties the worker's unit to the full buffer; `SenderInv` and `ArrivingInv`
  say whose message is where. `OneSend` follows. For the refinement each step is matched with one of `LossyMail`
  or with a stutter: a packet that moves from socket to buffer to worker to mailbox leaves the abstract queue as it is, which needs
  that `SelectIn` of a sequence is that of its head followed by that of its tail, proved by induction on the length
  (`SetInduction`). `SendersGoOn` and `PacketsGoOn` are from `LockInv`, `DeviceInv` and `WorkerInv` with
  `InsideInv`, proved for any step that enters a P, leaves one, or does neither.
* `AddressSpaceProofs`. While the machine runs, the frames in use are the first ones (`BitMapInv`), so `FindAndSet` gives a program
  frames that are next to each other, and copying to the frame plus the virtual page hits its own, or one after them, which is free: a file that is longer than its frames harms nobody, whatever its sizes. `FramesInv`: a frame
  belongs to one page of one process; `TableInv`: the machine translates for the program that runs. From these
  `ImagesStay` and `LoadsAreWhole`.
* `ProcessTableProofs`. One part of `Inductive` holds whatever the pids are (`RunInv`): who waits for which semaphore, which
  locals are set where, the table's unit (`LockInv`), that a unit of `joinsemaphore` comes with an exit code (`CodeInv`). The
  other (`TotalInv`, `RightInv`) supposes `PidsAreSlots`. `StartInv` and `ProcessInv`: a slot is
  chosen by one Exec at a time, and a process that has not finished is alone in its slot, with its own block.
  `UnitInv`: the single unit that an exit gives is in `joinsemaphore`, or with the one thread that has passed `JoinWait`, or has
  been used to accept; `AcceptInv`: whoever was accepted has a unit of `exitsemaphore` or has passed it. The
  handshake and the absence of mutual waiting follow from these two.
* `FileTableProofs`. `EntryInv`: an entry in use has the id `type * 100 + fd` with a descriptor below a hundred, on which the
  uniqueness of ids rests. That Open gets such a descriptor is not assumed: `OpenInv` says that every open descriptor belongs to an
  entry in use, so with a free entry fewer than `MaxSize` are open, and the host gives the lowest free one (`LowDescriptor`,
  `OpenFacts`). `closeFile` is one lemma for whatever it hits: a file, a socket, a free entry, or memory beyond the table. A Connect closes
  some descriptor, and `FilesOwnDescriptors` promises nothing after that; what has to be kept is `OpenInv`, on which the ids rest.
  Theorems: `DescriptorsAreOwned`, `CountIsNotAhead`.

Only model-checked:

* All liveness (`ReadyThreadRuns`, `SemaphoreIsLive`, `ItemIsTaken`, `CharIsTaken`, `DisplayIsFreed`,
  `RequestCompletes`, `MailArrives`, `SendReturns`): the prover cannot handle fairness.
  Their safety half is proved for the list, the drivers and the post offices: at every moment some step towards the goal has its guard true. ENABLED
  being out of reach too, the theorems spell the guards out.
* `MipsMachine` (`UnalignedAccess`, `MultIsExact`, `Isolation`): bitwise operations, and the loop of `Mult` for every
  word size, are beyond the prover.
* `SemaphoreTable` has a violated property only.

## 5. What is not modelled

* `Interrupt::Halt` in the thread system, which runs for ever (the process table, the address spaces
  and the processor do halt). The self tests, command line and debugging output.
* The order of the pending interrupts and the exact ticks, except the disk's: any device may be
  due at any time, a superset of the code's behaviours.
* `Condition::Broadcast`, `Alarm::WaitUntil`, `Timer::Disable`, `AddrSpace::Translate`,
  `PCB::GetNumWait`: nobody calls them.
* Instruction decoding and binary words, the TLB (not compiled in), page faults and read-only
  pages, which `Load` never makes; the copying of strings between kernel and user memory.
* The Nachos file system (`filesys/filehdr.cc`, `directory.cc`, ...): built with `FILESYS_STUB`,
  this code is not compiled in and the calls go to the host, which `FileTable` has.
* `GetString` and `PutString`, which repeat `GetChar` and `PutChar`; what a socket sends and receives.
* `lib/hash.cc`, used by its own self test only; lists, which appear as sequences.
* `lib/sysdep.cc`, statistics, debugging, the assembly of the context switch (modelled by what it does).
* User programs, the tool chain (`coff2noff`, the object file headers in `usr/local`), the socket
  server, and `NACHOS_P1`, a snapshot of the same kernel before multiprogramming: most of
  the repository's lines.

## 6. The plan

All components with states worth exploring are modelled, and all their safety properties but those of
`MipsMachine` are proved. What is left is
`MipsMachine`: `Isolation` does not depend on the bitwise operations, and could be proved in a module split
off from them.
