---------------------------- MODULE AddressSpace ----------------------------
(***************************************************************************)
(* Address spaces (userprog/addrspace.cc), the bitmap of physical pages    *)
(* (lib/bitmap.cc), and the way a process reaches main memory through the  *)
(* page table that RestoreState gives the machine.                         *)
(*                                                                         *)
(* Memory and files are counted in pages.  A NOFF file holds the code, the *)
(* read-only data and the initialized data in the order, and with the      *)
(* distances, they have in virtual memory (coff2noff.c, test/script), so   *)
(* its block i belongs in virtual page i.  What a page contains is reduced *)
(* to whose page it is: Load and the process itself leave <<t, i>> in the  *)
(* frame they take for page i of process t.                                *)
(*                                                                         *)
(* Process Main is the one that main() loads.  Every other is loaded by    *)
(* StartProcess into an AddrSpace nobody has made: when that does not take *)
(* the kernel down at once, the memory it uses belongs to nobody else.     *)
(***************************************************************************)
EXTENDS Naturals, FiniteSets, Sequences

CONSTANTS
    NumPhysPages,
    Processes,
    Main,
    Programs,   \* [code, readonlyData, initData, uninitData : sizes in pages]
    StackPages, \* UserStackSize / PageSize
    Blank,      \* the contents of a frame after bzero
    NULL

ASSUME AddressSpaceAssumption ==
    /\ NumPhysPages \in Nat /\ StackPages \in Nat
    /\ Main \in Processes
    /\ NULL \notin Processes
    /\ \A p \in Programs :
        {p.code, p.readonlyData, p.initData, p.uninitData} \subseteq Nat

Frames == 0..(NumPhysPages - 1)

VARIABLES
    count, inP,     \* addrLock
    physPageBitMap, \* the frames in use
    mainMemory,
    program,        \* the program of each process
    frames,         \* pageTable[i].physicalPage for i < numPages
    at,
    currentThread,
    pageTable       \* whose page table the machine uses, or NULL

spaceVars == <<physPageBitMap, mainMemory, program, frames>>
vars == <<count, inP, spaceVars, at, currentThread, pageTable>>

addrLock == "addrLock"
Sem == INSTANCE CountingSemaphore WITH
    Threads <- Processes, Semaphores <- {addrLock}, InitialValue <- [s \in {addrLock} |-> 1]

\* "new"; in Load: "lockWait" in addrLock->P(), "loading" after it; Load has
\* returned: "loaded", "failed"; "user" after Execute; "finished".
\* "stopped": the machine halted, or crashed.
Places == {"new", "lockWait", "loading", "loaded", "failed", "user", "finished", "stopped"}

Init ==
    /\ Sem!Init
    /\ physPageBitMap = {}
    /\ mainMemory = [f \in Frames |-> Blank]
    /\ program \in [Processes -> Programs]
    /\ frames = [t \in Processes |-> <<>>]
    /\ at = [t \in Processes |-> "new"]
    /\ currentThread = Main
    /\ pageTable = NULL

\* Process t, which has the CPU, goes on.
Step(t, from, to) ==
    /\ currentThread = t
    /\ at[t] = from
    /\ at' = [at EXCEPT ![t] = to]

StopMachine == at' = [t \in Processes |-> "stopped"]

\* The read-only data are left out: a file may be longer than its pages.
numPages(p) == p.code + p.initData + p.uninitData + StackPages
FileLength(p) == p.code + p.readonlyData + p.initData
initDataAddr(p) == p.code + p.readonlyData

NumClear == NumPhysPages - Cardinality(physPageBitMap)

-----------------------------------------------------------------------------
(***************************************************************************)
(* Load.                                                                   *)
(***************************************************************************)

\* Open and the header, up to addrLock->P().
CallLoad(t) ==
    /\ \/ Step(t, "new", "loading") /\ Sem!TakeAtOnce(t, addrLock)
       \/ Step(t, "new", "lockWait") /\ Sem!StartWaiting(t, addrLock)
    /\ UNCHANGED <<spaceVars, currentThread, pageTable>>

\* P returns from waiting.
Locked(t) ==
    /\ Step(t, "lockWait", "loading")
    /\ Sem!TakeAfterWaiting(t, addrLock)
    /\ UNCHANGED <<spaceVars, currentThread, pageTable>>

\* Faulty: returns without the V.
NotEnoughSpaceKeepingLock(t) ==
    /\ Step(t, "loading", "failed")
    /\ numPages(program[t]) \in (NumClear + 1)..NumPhysPages
    /\ UNCHANGED <<count, inP, spaceVars, currentThread, pageTable>>

NotEnoughSpace(t) ==
    /\ Step(t, "loading", "failed")
    /\ numPages(program[t]) \in (NumClear + 1)..NumPhysPages
    /\ Sem!Release(addrLock)
    /\ UNCHANGED <<spaceVars, currentThread, pageTable>>

\* Faulty: FindAndSet looks for a clear bit from the other end.
FramesFromTheEnd(n) == [i \in 1..n |-> CHOOSE f \in Frames \ physPageBitMap :
    Cardinality({e \in Frames \ physPageBitMap : e > f}) = i - 1]

\* n calls of FindAndSet: the first clear bits, in order.
FindAndSet(n) == [i \in 1..n |-> CHOOSE f \in Frames \ physPageBitMap :
    Cardinality({e \in Frames \ physPageBitMap : e < f}) = i - 1]

\* mainMemory once blocks first.. of t's file have been read, block
\* (first + i) to the place that is `offset' pages after frame number i of g.
CopySegment(memory, t, g, first, offset) ==
    [f \in Frames |->
        LET written == {i \in 1..Len(g) : /\ g[i] + offset = f
                                          /\ first + i <= FileLength(program[t])}
        IN  IF written = {} THEN memory[f]
            ELSE <<t, first + (CHOOSE i \in written : \A j \in written : j <= i) - 1>>]

\* The initialized data are copied past the end of mainMemory.
CopiesBeyondMemory(t) ==
    LET p == program[t]
        g == FindAndSet(numPages(p))
    IN \E i \in DOMAIN g : /\ initDataAddr(p) + i <= FileLength(p)
                           /\ g[i] + initDataAddr(p) >= NumPhysPages

\* Frames are taken and cleared, and the code and the initialized data copied:
\* a page for each page of the address space, as far as the file goes, whatever
\* the size of the segment, and whoever has the place.  Then the V.
LoadProgram(t) ==
    LET p == program[t]
        g == FindAndSet(numPages(p))
        cleared == [f \in Frames |-> IF \E i \in DOMAIN g : g[i] = f THEN Blank ELSE mainMemory[f]]
        withCode == IF p.code = 0 THEN cleared ELSE CopySegment(cleared, t, g, 0, 0)
    IN
    /\ Step(t, "loading", "loaded")
    /\ numPages(p) <= NumClear
    /\ frames' = [frames EXCEPT ![t] = g]
    /\ physPageBitMap' = physPageBitMap \cup {g[i] : i \in DOMAIN g}
    /\ mainMemory' = IF p.initData = 0 THEN withCode
                     ELSE CopySegment(withCode, t, g, initDataAddr(p), initDataAddr(p))
    /\ Sem!Release(addrLock)
    /\ UNCHANGED <<program, currentThread, pageTable>>

-----------------------------------------------------------------------------

\* Execute, with RestoreState.
Execute(t) ==
    /\ Step(t, "loaded", "user")
    /\ pageTable' = t
    /\ UNCHANGED <<count, inP, spaceVars, currentThread>>

\* The program writes to one of its pages, or reads it for writing back.
WriteMem(t, page) ==
    /\ currentThread = t
    /\ at[t] = "user"
    /\ page \in 1..Len(frames[pageTable])
    /\ mainMemory' = [mainMemory EXCEPT ![frames[pageTable][page]] = <<t, page - 1>>]
    /\ UNCHANGED <<count, inP, physPageBitMap, program, frames, at, currentThread, pageTable>>

\* Finish: the space is not deleted with the thread, and its frames stay taken.
Exit(t) ==
    /\ Step(t, "user", "finished")
    /\ UNCHANGED <<count, inP, spaceVars, currentThread, pageTable>>

\* The exit of pid 0: ~AddrSpace, and the machine halts.
ExitHalts(t) ==
    /\ currentThread = t
    /\ at[t] = "user"
    /\ StopMachine
    /\ physPageBitMap' = physPageBitMap \ {frames[t][i] : i \in DOMAIN frames[t]}
    /\ frames' = [frames EXCEPT ![t] = <<>>]
    /\ UNCHANGED <<count, inP, mainMemory, program, currentThread, pageTable>>

\* A thread without a program: main() halts; StartProcess, which does not look
\* at what Load returns, executes a space with no page table, which fails an
\* assertion of Machine::Translate.  A program bigger than the memory fails the
\* assertion in Load; a copy into the host's own memory may be fatal, and so may
\* an AddrSpace nobody has made.
Stop(t) ==
    /\ currentThread = t
    /\ \/ at[t] = "failed"
       \/ at[t] = "loading" /\ numPages(program[t]) > NumPhysPages
       \/ at[t] = "loading" /\ numPages(program[t]) <= NumClear /\ CopiesBeyondMemory(t)
       \/ at[t] = "new" /\ t # Main
    /\ StopMachine
    /\ UNCHANGED <<count, inP, spaceVars, currentThread, pageTable>>

\* Scheduler::Run gives the CPU to t, which can go on, and restores its space
\* if it has one.  Processes other than Main are made by programs.
Switch(t) ==
    /\ at[t] \notin {"finished", "stopped"}
    /\ at[t] = "new" => at[Main] \in {"user", "finished"}
    /\ at[t] = "lockWait" => count[addrLock] > 0
    /\ currentThread' = t
    /\ pageTable' = IF at[t] = "user" THEN t ELSE pageTable
    /\ UNCHANGED <<count, inP, spaceVars, at>>

Next == \E t \in Processes :
    \/ CallLoad(t) \/ Locked(t) \/ NotEnoughSpace(t) \/ LoadProgram(t)
    \/ Execute(t) \/ Exit(t) \/ ExitHalts(t) \/ Stop(t) \/ Switch(t)
    \/ \E page \in 1..NumPhysPages : WriteMem(t, page)

Spec == Init /\ [][Next]_vars

-----------------------------------------------------------------------------
(***************************************************************************)
(* Properties.                                                             *)
(***************************************************************************)

\* The variables have the types their declarations give them.
TypeOK ==
    /\ Sem!TypeOK
    /\ physPageBitMap \subseteq Frames
    /\ mainMemory \in [Frames -> {Blank} \cup (Processes \X Nat)]
    /\ program \in [Processes -> Programs]
    /\ frames \in [Processes -> Seq(Frames)]
    /\ at \in [Processes -> Places]
    /\ currentThread \in Processes
    /\ pageTable \in Processes \cup {NULL}

\* Load has a segment that page i of the file is in, or comes along with: the
\* read-only data come with the code.
IsCopied(p, i) == i <= FileLength(p) /\ (p.code = 0 => i > initDataAddr(p))

\* Every page of every loaded process holds that page of its file or what the
\* process wrote to it, and is clear if it is neither: a Load, which copies
\* whole pages to places it computes from the virtual address of the segment,
\* and past the end of the program's frames if its file is longer, writes to no
\* frame of another process and leaves none of its own undone; and a process
\* that runs after another has its own page table.
ImageIntact == \A t \in Processes : \A i \in DOMAIN frames[t] :
    \/ mainMemory[frames[t][i]] = <<t, i - 1>>
    \/ mainMemory[frames[t][i]] = Blank /\ ~IsCopied(program[t], i)

\* A Load takes all its frames or none, nobody's frame is anybody else's, and
\* addrLock is given back whichever way Load returns.
LoadAllOrNothing ==
    /\ physPageBitMap = {f \in Frames : \E t \in Processes : \E i \in DOMAIN frames[t] : frames[t][i] = f}
    /\ \A t, u \in Processes : \A i \in DOMAIN frames[t], j \in DOMAIN frames[u] :
           frames[t][i] = frames[u][j] => t = u /\ i = j
    /\ \A t \in Processes : Len(frames[t]) \in {0, numPages(program[t])}
    /\ at[Main] # "stopped" =>
           count[addrLock] + Cardinality({t \in Processes : at[t] = "loading"}) = 1

=============================================================================
