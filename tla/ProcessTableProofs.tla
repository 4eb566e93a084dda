------------------------- MODULE ProcessTableProofs -------------------------
(***************************************************************************)
(* Theorems about ProcessTable, for every size of the table, any number of *)
(* Execs and whatever the memory holds: the table's lock is given back and *)
(* every marked slot has a block; and, when the memory gives every thread  *)
(* the pid it needs, the count of processes is right, nobody passes the    *)
(* handshake of Join and Exit before the other has come, and parent and    *)
(* child never wait for each other.                                        *)
(***************************************************************************)
EXTENDS ProcessTable, FiniteSetTheorems, WellFoundedInduction, TLAPS

(***************************************************************************)
(* The inductive invariant: first what holds whatever pid the threads get. *)
(***************************************************************************)

Running == at[0] # "stopped"

\* The machine stops with all its threads.
StopInv == \A t \in Threads : at[t] = "stopped" <=> ~Running

\* The threads that have been forked are the first ones.
ForkInv == \A t \in Threads : at[t] = "none" <=> t > Len(forked)

Waits(t, s) ==
    \/ at[t] = "execWait" /\ s = semaphore
    \/ at[t] \in {"mutexWait", "countWait"} /\ s = mutex(block[t])
    \/ at[t] = "joinWait" /\ s = joinsemaphore(block[t])
    \/ at[t] = "exitWait" /\ s = exitsemaphore(block[t])

\* A thread inside P is at the place that waits for that semaphore.
WaitInv == \A s \in Semaphores : \A t \in inP[s] : Waits(t, s)

ExecPlaces == {"execWait", "execHolding", "execChosen", "mutexWait", "execMutex"}
JoinPlaces == {"countWait", "counting", "counted", "joinWait", "joined", "released"}
StartPlaces == {"execChosen", "mutexWait", "execMutex"}
ExitPlaces == {"exiting", "exitWait", "leaving"}
BlockPlaces == {"mutexWait", "execMutex", "execForked", "countWait", "counting",
                "joinWait", "joined", "released", "exitWait", "leaving", "finished"}

\* The locals are set where they are used, and no process of pid 0 exits.
PlaceInv == \A t \in Threads :
    /\ at[t] \in ExecPlaces => program[t] # NULL
    /\ at[t] \in StartPlaces \cup JoinPlaces => slot[t] # NULL
    /\ at[t] \in BlockPlaces => block[t] # NULL
    /\ at[t] \in ExitPlaces \cup {"finished"} => pid[t] # 0

\* How many threads are at one of the places A, when f says where they are.
CountAt(f, A) == Cardinality({u \in Threads : f[u] \in A})

One(place, A) == IF place \in A THEN 1 ELSE 0

Choosing(f) == CountAt(f, {"execWait", "execHolding"})
Starting(f) == CountAt(f, StartPlaces)
Holding(f) == CountAt(f, {"execHolding"})

\* The blocks still to be made and the threads still to be forked fit.
BoundInv ==
    /\ made + Choosing(at) <= MaxExecs
    /\ Len(forked) + Starting(at) <= made

LockInv == count[semaphore] + Holding(at) = 1

\* Who can pass, or has passed, JoinWait has an exit code to read.
CodeInv ==
    /\ \A k \in Blocks : count[joinsemaphore(k)] > 0 => exitCode[k] # NULL
    /\ \A t \in Threads : at[t] \in {"joined", "released"} => exitCode[block[t]] # NULL

MarkedInv == \A s \in reception : blocks[s] # NULL

RunInv == ForkInv /\ WaitInv /\ PlaceInv /\ BoundInv /\ LockInv /\ CodeInv

(***************************************************************************)
(* And what holds besides when the pids are the slots.                     *)
(***************************************************************************)

TotalInv == totalProcesses = MAX_PROCESS + Cardinality(reception)

\* Every slot has a block of its own, and a free slot none that is in use.
SlotsInv ==
    /\ deleted = {}
    /\ parentID[0] = -1
    /\ \A s \in Slots : blocks[s] # NULL => blocks[s] <= made
    /\ \A s, r \in Slots : blocks[s] = blocks[r] /\ blocks[s] # NULL => s = r
    /\ \A s \in Slots \ reception : blocks[s] \in {NULL, 0} \cup accepted

\* A block that has no thread has no exit code.
FreshInv == \A k \in Blocks :
    /\ k > made => thread[k] = NULL
    /\ thread[k] = NULL => exitCode[k] = NULL

\* Two Execs never start the same block.
StartInv == \A t \in Threads : at[t] \in StartPlaces =>
    /\ slot[t] \in reception
    /\ thread[blocks[slot[t]]] = NULL
    /\ at[t] # "execChosen" => block[t] = blocks[slot[t]]
    /\ \A u \in Threads : at[u] \in StartPlaces /\ slot[u] = slot[t] => u = t

\* A process that has not finished has its slot, with its own block.
ProcessInv == \A t \in Threads :
    t \in DOMAIN forked /\ pid[t] # 0 /\ at[t] # "finished" =>
        /\ pid[t] \in reception
        /\ thread[Own(t)] = t
        /\ exitCode[Own(t)] = IF at[t] \in ExitPlaces THEN t ELSE NULL

\* The block of a child stays in its slot until the parent has accepted.
JoinInv == \A t \in Threads :
    /\ at[t] \in {"countWait", "counting", "counted"} => blocks[slot[t]] \notin {NULL, 0}
    /\ at[t] \in {"joinWait", "joined"} =>
        block[t] # 0 /\ (block[t] \in accepted \/ blocks[slot[t]] = block[t])

\* The one unit that an exit gives is in joinsemaphore, with the thread that
\* has passed JoinWait, or has been used for the ExitRelease.
UnitInv == \A k \in Blocks :
    IF exitCode[k] = NULL
    THEN /\ count[joinsemaphore(k)] = 0
         /\ k \notin accepted
         /\ \A t \in Threads : ~(at[t] = "joined" /\ block[t] = k)
    ELSE /\ count[joinsemaphore(k)] <= 1
         /\ count[joinsemaphore(k)] > 0 => k \notin accepted
         /\ \A t \in Threads : at[t] = "joined" /\ block[t] = k =>
                /\ count[joinsemaphore(k)] = 0
                /\ k \notin accepted
                /\ \A u \in Threads : at[u] = "joined" /\ block[u] = k => u = t
         /\ \/ count[joinsemaphore(k)] > 0
            \/ k \in accepted
            \/ \E t \in Threads : at[t] = "joined" /\ block[t] = k

\* An exit is let through by the parent that has accepted, and by nobody else.
AcceptInv ==
    /\ \A k \in Blocks : count[exitsemaphore(k)] > 0 => k \in accepted
    /\ \A k \in accepted :
        count[exitsemaphore(k)] > 0 \/ at[exitCode[k]] \in {"leaving", "finished"}

\* A process in ExitWait is in its own block, and beyond it accepted.
LeaveInv ==
    /\ \A t \in Threads : at[t] \in {"exitWait", "leaving"} => block[t] = Own(t)
    /\ \A t \in Threads : at[t] \in {"leaving", "finished"} => block[t] \in accepted

RightInv ==
    /\ SlotsInv /\ FreshInv /\ StartInv /\ ProcessInv /\ JoinInv /\ UnitInv
    /\ AcceptInv /\ LeaveInv

Inductive ==
    /\ TypeOK
    /\ StopInv
    /\ MarkedInv
    /\ Running => RunInv
    /\ PidsAreSlots => TotalInv
    /\ Running /\ PidsAreSlots => RightInv

-----------------------------------------------------------------------------
(***************************************************************************)
(* Facts about the constants, the semaphores and the sets that are counted. *)
(***************************************************************************)

\* The constants are what they are taken for, and NULL and Garbage are no
\* numbers and no names.
LEMMA ConstantFacts ==
    /\ MAX_PROCESS \in Nat /\ MaxExecs \in Nat
    /\ 0 \in Slots /\ 0 \in Blocks /\ 0 \in Threads
    /\ Slots \subseteq Int /\ Blocks \subseteq Int /\ Threads \subseteq Int
    /\ NULL \notin Int /\ Garbage \notin Int /\ NULL # Garbage
    /\ NULL \notin Programs /\ Garbage \notin Programs
    /\ UninitializedPids \subseteq [Threads -> Slots]
  BY ProcessTableAssumption DEF ProcessTableAssumption, Slots, Blocks, Threads

\* Each block has three semaphores of its own, and the table one.
LEMMA SemaphoreFacts ==
    /\ semaphore \in Semaphores
    /\ \A k \in Blocks :
        /\ joinsemaphore(k) \in Semaphores
        /\ exitsemaphore(k) \in Semaphores
        /\ mutex(k) \in Semaphores
        /\ semaphore \notin {joinsemaphore(k), exitsemaphore(k), mutex(k)}
    /\ \A j, k \in Blocks :
        /\ joinsemaphore(j) # exitsemaphore(k)
        /\ joinsemaphore(j) # mutex(k)
        /\ exitsemaphore(j) # mutex(k)
        /\ joinsemaphore(j) = joinsemaphore(k) => j = k
        /\ exitsemaphore(j) = exitsemaphore(k) => j = k
  BY DEF Semaphores, semaphore, joinsemaphore, exitsemaphore, mutex

\* Sets of threads are finite.
LEMMA ThreadsAreFinite ==
    ASSUME NEW S \in SUBSET Threads
    PROVE  IsFiniteSet(S) /\ Cardinality(S) \in Nat
<1>1. IsFiniteSet(Threads)
  BY ConstantFacts, FS_Interval DEF Threads
<1> QED
  BY <1>1, FS_Subset, FS_CardinalityType

\* Sets of slots are finite.
LEMMA SlotsAreFinite ==
    ASSUME NEW S \in SUBSET Slots
    PROVE  IsFiniteSet(S) /\ Cardinality(S) \in Nat
<1>1. MAX_PROCESS - 1 \in Int
  BY ConstantFacts
<1>2. IsFiniteSet(Slots)
  BY <1>1, FS_Interval DEF Slots
<1> QED
  BY <1>2, FS_Subset, FS_CardinalityType

\* One thread goes from one place to another.
LEMMA MoveCounts ==
    ASSUME NEW f \in [Threads -> Places], NEW t \in Threads, NEW place \in Places, NEW A,
           NEW g, g = [f EXCEPT ![t] = place]
    PROVE  /\ CountAt(f, A) \in Nat
           /\ CountAt(g, A) \in Nat
           /\ CountAt(g, A) = (CountAt(f, A) + One(place, A))
                                - One(f[t], A)
<1> USE DEF One
<1> DEFINE S == {u \in Threads : f[u] \in A}
           T == {u \in Threads : g[u] \in A}
<1>1. CountAt(f, A) = Cardinality(S) /\ CountAt(g, A) = Cardinality(T)
  BY DEF CountAt
<1>2. IsFiniteSet(S) /\ Cardinality(S) \in Nat /\ Cardinality(T) \in Nat
  BY ThreadsAreFinite
<1>3. CASE (f[t] \in A) <=> (place \in A)
  <2>1. T = S
    BY <1>3
  <2> HIDE DEF S, T
  <2> QED
    BY <1>1, <1>2, <1>3, <2>1
<1>4. CASE f[t] \notin A /\ place \in A
  <2>1. T = S \cup {t} /\ t \notin S
    BY <1>4
  <2> HIDE DEF S, T
  <2>2. Cardinality(T) = Cardinality(S) + 1
    BY <1>2, <2>1, FS_AddElement
  <2> QED
    BY <1>1, <1>2, <1>4, <2>2
<1>5. CASE f[t] \in A /\ place \notin A
  <2>1. T = S \ {t} /\ t \in S
    BY <1>5
  <2> HIDE DEF S, T
  <2>2. Cardinality(T) = Cardinality(S) - 1
    BY <1>2, <2>1, FS_RemoveElement
  <2> QED
    BY <1>1, <1>2, <1>5, <2>2
<1> QED
  BY <1>3, <1>4, <1>5

\* How the three counts of the invariant change as a thread goes from one
\* place to another, which makes f into g.
Counted(f, g, from, to) ==
    /\ Choosing(f) \in Nat /\ Starting(f) \in Nat /\ Holding(f) \in Nat
    /\ Choosing(g) \in Nat /\ Starting(g) \in Nat /\ Holding(g) \in Nat
    /\ Choosing(g) = (Choosing(f) + One(to, {"execWait", "execHolding"}))
                         - One(from, {"execWait", "execHolding"})
    /\ Starting(g) = (Starting(f) + One(to, StartPlaces)) - One(from, StartPlaces)
    /\ Holding(g) = (Holding(f) + One(to, {"execHolding"})) - One(from, {"execHolding"})

\* They change as the two places say.
LEMMA PlaceCounts ==
    ASSUME NEW f \in [Threads -> Places], NEW t \in Threads, NEW place \in Places,
           NEW g, g = [f EXCEPT ![t] = place]
    PROVE  Counted(f, g, f[t], place)
<1>1. ASSUME NEW A
      PROVE  /\ CountAt(f, A) \in Nat
             /\ CountAt(g, A) \in Nat
             /\ CountAt(g, A) = (CountAt(f, A) + One(place, A)) - One(f[t], A)
  BY MoveCounts
<1> QED
  BY <1>1, Zenon DEF Counted, Choosing, Starting, Holding

\* Outside Exec nothing is counted.
LEMMA SameCounts ==
    ASSUME at \in [Threads -> Places], NEW t \in Threads, NEW place \in Places,
           at' = [at EXCEPT ![t] = place],
           at[t] \notin ExecPlaces, place \notin ExecPlaces
    PROVE  Choosing(at') = Choosing(at) /\ Starting(at') = Starting(at) /\ Holding(at') = Holding(at)
<1>1. /\ One(place, {"execWait", "execHolding"}) = 0 /\ One(at[t], {"execWait", "execHolding"}) = 0
      /\ One(place, StartPlaces) = 0 /\ One(at[t], StartPlaces) = 0
      /\ One(place, {"execHolding"}) = 0 /\ One(at[t], {"execHolding"}) = 0
  BY DEF One, StartPlaces, ExecPlaces
<1>2. Counted(at, at', at[t], place)
  BY PlaceCounts, Zenon
<1> QED
  BY <1>1, <1>2 DEF Counted

\* FindAndSet is the smallest of the free slots.
LEMMA FindAndSetFacts ==
    ASSUME FreeSlots # {}
    PROVE  FindAndSet \in Slots /\ FindAndSet \notin reception
<1>1. FreeSlots \subseteq Nat
  BY ConstantFacts DEF FreeSlots, Slots
<1>2. \E s \in FreeSlots : \A r \in FreeSlots : s <= r
  <2>1. PICK s \in FreeSlots : \A r \in FreeSlots : ~(<<r, s>> \in OpToRel(<, Nat))
    BY <1>1, NatLessThanWellFounded, WFMin
  <2>2. \A r \in FreeSlots : ~(r < s)
    BY <1>1, <2>1 DEF OpToRel
  <2> QED
    BY <1>1, <2>2
<1> QED
  BY <1>2 DEF FindAndSet, FreeSlots

-----------------------------------------------------------------------------
(***************************************************************************)
(* Every step keeps the invariant.                                         *)
(***************************************************************************)

\* A step that leaves the table, the blocks and the history as they are.
LEMMA TablesStay ==
    ASSUME Inductive, Running, UNCHANGED <<tableVars, blockVars, machineVars>>
    PROVE  /\ MarkedInv'
           /\ PidsAreSlots' => PidsAreSlots /\ TotalInv' /\ SlotsInv' /\ FreshInv'
<1> USE DEF Inductive, tableVars, blockVars, machineVars
<1>1. MarkedInv'
  BY DEF MarkedInv
<1>2. ASSUME PidsAreSlots' PROVE PidsAreSlots
  BY <1>2 DEF PidsAreSlots
<1>3. ASSUME PidsAreSlots PROVE TotalInv' /\ SlotsInv' /\ FreshInv'
  BY <1>3 DEF TotalInv, SlotsInv, FreshInv, RightInv
<1> QED
  BY <1>1, <1>2, <1>3

\* A process inside ExitUpdate, when the pids are right.
LEMMA ExitingFacts ==
    ASSUME Inductive, PidsAreSlots, Running, NEW t \in Threads, at[t] \in ExitPlaces
    PROVE  /\ t \in DOMAIN forked /\ pid[t] # 0
           /\ pid[t] \in Slots /\ pid[t] \in reception
           /\ Own(t) \in Blocks /\ Usable(pid[t])
           /\ thread[Own(t)] = t /\ exitCode[Own(t)] = t
<1>1. at[t] # "none" /\ at[t] # "finished" /\ pid[t] # 0
  BY DEF Inductive, RunInv, PlaceInv, ExitPlaces
<1>2. t \in DOMAIN forked
  BY <1>1, ConstantFacts DEF Inductive, RunInv, ForkInv, PidsAreSlots, TypeOK, Threads
<1>3. pid[t] \in reception /\ thread[Own(t)] = t /\ exitCode[Own(t)] = t
  BY <1>1, <1>2 DEF Inductive, RightInv, ProcessInv
<1>4. pid[t] \in Slots /\ blocks[pid[t]] # NULL /\ blocks[pid[t]] \in Blocks
  BY <1>3 DEF Inductive, TypeOK, MarkedInv
<1> QED
  BY <1>1, <1>2, <1>3, <1>4 DEF Own, Usable

\* StartProcess only moves the new thread.
LEMMA StartProcessKeeps ==
    ASSUME Inductive, NEW t \in Threads, StartProcess(t)
    PROVE  Inductive'
<1> USE DEF Inductive, StartProcess, GoTo, localVars
<1>1. UNCHANGED <<tableVars, blockVars, machineVars>>
  OBVIOUS
<1>2. /\ at \in [Threads -> Places] /\ at[t] \in {"new"}
      /\ at' = [at EXCEPT ![t] = "user"] /\ "user" \in Places
  BY DEF TypeOK, Places
<1>3. Running /\ Running'
  BY ConstantFacts, <1>2 DEF StopInv, Running
<1>4. MarkedInv' /\ (PidsAreSlots' => PidsAreSlots /\ TotalInv' /\ SlotsInv' /\ FreshInv')
  BY <1>1, <1>3, TablesStay
<1>5. RunInv
  BY <1>3
<1>6. count' = count /\ inP' = inP
  OBVIOUS
<1>7. \A k \in Blocks : /\ count'[joinsemaphore(k)] = count[joinsemaphore(k)]
                        /\ count'[exitsemaphore(k)] = count[exitsemaphore(k)]
  BY <1>6
<1>8. TypeOK'
  <2>1. Sem!TypeOK'
    BY <1>6 DEF TypeOK, Sem!TypeOK
  <2>2. at' \in [Threads -> Places]
    BY <1>2
  <2>3. /\ program' \in [Threads -> Programs \cup {NULL}]
        /\ slot' \in [Threads -> Slots \cup {NULL}]
        /\ block' \in [Threads -> Blocks \cup {NULL}]
    BY DEF TypeOK
  <2> QED
    BY <1>1, <2>1, <2>2, <2>3 DEF TypeOK, tableVars, blockVars, machineVars
<1>9. StopInv'
  BY <1>2, <1>3 DEF StopInv
<1>10. ForkInv'
  BY <1>1, <1>2, <1>5 DEF ForkInv, RunInv, machineVars
<1>11. WaitInv'
  BY <1>2, <1>5, <1>6 DEF WaitInv, RunInv, Waits, TypeOK, Sem!TypeOK
<1>12. PlaceInv'
  BY <1>1, <1>2, <1>5
     DEF PlaceInv, RunInv, ExecPlaces, JoinPlaces, StartPlaces, ExitPlaces, BlockPlaces, TypeOK, machineVars
<1>13. BoundInv' /\ LockInv'
  <2>1. Choosing(at') = Choosing(at) /\ Starting(at') = Starting(at) /\ Holding(at') = Holding(at)
    BY <1>2, SameCounts DEF ExecPlaces
  <2>2. count'[semaphore] = count[semaphore]
    BY <1>6, SemaphoreFacts DEF TypeOK, Sem!TypeOK
  <2> QED
    BY <1>1, <1>5, <2>1, <2>2 DEF BoundInv, LockInv, RunInv, blockVars, machineVars
<1>14. CodeInv'
  BY <1>1, <1>2, <1>5, <1>7 DEF CodeInv, RunInv, TypeOK, blockVars
<1>15. ASSUME PidsAreSlots' PROVE RightInv'
  <2>1. RightInv
    BY <1>3, <1>4, <1>15
  <2>2. StartInv'
    BY <1>1, <1>2, <2>1 DEF RightInv, StartInv, StartPlaces, TypeOK, tableVars, blockVars
  <2>3. ProcessInv'
    BY <1>1, <1>2, <2>1 DEF RightInv, ProcessInv, ExitPlaces, Own, tableVars, blockVars, machineVars
  <2>4. JoinInv'
    BY <1>1, <1>2, <2>1 DEF RightInv, JoinInv, TypeOK, tableVars, machineVars
  <2>5. UnitInv'
    BY <1>1, <1>2, <1>7, <2>1 DEF RightInv, UnitInv, TypeOK, blockVars, machineVars
  <2>6. AcceptInv'
    BY <1>1, <1>2, <1>7, <2>1 DEF RightInv, AcceptInv, TypeOK, blockVars, machineVars
  <2>7. LeaveInv'
    BY <1>1, <1>2, <2>1 DEF RightInv, LeaveInv, Own, TypeOK, tableVars, machineVars
  <2> QED
    BY <1>4, <1>15, <2>2, <2>3, <2>4, <2>5, <2>6, <2>7 DEF RightInv
<1> QED
  BY <1>3, <1>4, <1>8, <1>9, <1>10, <1>11, <1>12, <1>13, <1>14, <1>15 DEF RunInv

\* Remove does nothing when the slot is empty.
LEMMA RemoveNothingKeeps ==
    ASSUME Inductive, NEW t \in Threads, RemoveNothing(t)
    PROVE  Inductive'
<1> USE DEF Inductive, RemoveNothing, ReturnToUser, GoTo, localVars
<1>1. UNCHANGED <<tableVars, blockVars, machineVars>>
  OBVIOUS
<1>2. /\ at \in [Threads -> Places] /\ at[t] \in {"leaving"}
      /\ at' = [at EXCEPT ![t] = "user"] /\ "user" \in Places
  BY DEF TypeOK, Places
<1>3. Running /\ Running'
  BY ConstantFacts, <1>2 DEF StopInv, Running
<1>4. MarkedInv' /\ (PidsAreSlots' => PidsAreSlots /\ TotalInv' /\ SlotsInv' /\ FreshInv')
  BY <1>1, <1>3, TablesStay
<1>5. RunInv
  BY <1>3
<1>6. count' = count /\ inP' = inP
  OBVIOUS
<1>7. \A k \in Blocks : /\ count'[joinsemaphore(k)] = count[joinsemaphore(k)]
                        /\ count'[exitsemaphore(k)] = count[exitsemaphore(k)]
  BY <1>6
<1>8. TypeOK'
  <2>1. Sem!TypeOK'
    BY <1>6 DEF TypeOK, Sem!TypeOK
  <2>2. at' \in [Threads -> Places]
    BY <1>2
  <2>3. /\ program' \in [Threads -> Programs \cup {NULL}]
        /\ slot' \in [Threads -> Slots \cup {NULL}]
        /\ block' \in [Threads -> Blocks \cup {NULL}]
    BY DEF TypeOK
  <2> QED
    BY <1>1, <2>1, <2>2, <2>3 DEF TypeOK, tableVars, blockVars, machineVars
<1>9. StopInv'
  BY <1>2, <1>3 DEF StopInv
<1>10. ForkInv'
  BY <1>1, <1>2, <1>5 DEF ForkInv, RunInv, machineVars
<1>11. WaitInv'
  BY <1>2, <1>5, <1>6 DEF WaitInv, RunInv, Waits, TypeOK, Sem!TypeOK
<1>12. PlaceInv'
  BY <1>1, <1>2, <1>5
     DEF PlaceInv, RunInv, ExecPlaces, JoinPlaces, StartPlaces, ExitPlaces, BlockPlaces, TypeOK, machineVars
<1>13. BoundInv' /\ LockInv'
  <2>1. Choosing(at') = Choosing(at) /\ Starting(at') = Starting(at) /\ Holding(at') = Holding(at)
    BY <1>2, SameCounts DEF ExecPlaces
  <2>2. count'[semaphore] = count[semaphore]
    BY <1>6, SemaphoreFacts DEF TypeOK, Sem!TypeOK
  <2> QED
    BY <1>1, <1>5, <2>1, <2>2 DEF BoundInv, LockInv, RunInv, blockVars, machineVars
<1>14. CodeInv'
  BY <1>1, <1>2, <1>5, <1>7 DEF CodeInv, RunInv, TypeOK, blockVars
<1>15. ASSUME PidsAreSlots' PROVE RightInv'
  BY <1>2, <1>3, <1>4, <1>15, ExitingFacts DEF ExitPlaces
<1> QED
  BY <1>3, <1>4, <1>8, <1>9, <1>10, <1>11, <1>12, <1>13, <1>14, <1>15 DEF RunInv

\* Join returns with whatever code it finds.
LEMMA JoinReturnsKeeps ==
    ASSUME Inductive, NEW t \in Threads, JoinReturns(t)
    PROVE  Inductive'
<1> USE DEF Inductive, JoinReturns, ReturnToUser, GoTo, localVars
<1>1. UNCHANGED <<tableVars, blockVars, machineVars>>
  OBVIOUS
<1>2. /\ at \in [Threads -> Places] /\ at[t] \in {"released"}
      /\ at' = [at EXCEPT ![t] = "user"] /\ "user" \in Places
  BY DEF TypeOK, Places
<1>3. Running /\ Running'
  BY ConstantFacts, <1>2 DEF StopInv, Running
<1>4. MarkedInv' /\ (PidsAreSlots' => PidsAreSlots /\ TotalInv' /\ SlotsInv' /\ FreshInv')
  BY <1>1, <1>3, TablesStay
<1>5. RunInv
  BY <1>3
<1>6. count' = count /\ inP' = inP
  OBVIOUS
<1>7. \A k \in Blocks : /\ count'[joinsemaphore(k)] = count[joinsemaphore(k)]
                        /\ count'[exitsemaphore(k)] = count[exitsemaphore(k)]
  BY <1>6
<1>8. TypeOK'
  <2>1. Sem!TypeOK'
    BY <1>6 DEF TypeOK, Sem!TypeOK
  <2>2. at' \in [Threads -> Places]
    BY <1>2
  <2>3. /\ program' \in [Threads -> Programs \cup {NULL}]
        /\ slot' \in [Threads -> Slots \cup {NULL}]
        /\ block' \in [Threads -> Blocks \cup {NULL}]
    BY DEF TypeOK
  <2> QED
    BY <1>1, <2>1, <2>2, <2>3 DEF TypeOK, tableVars, blockVars, machineVars
<1>9. StopInv'
  BY <1>2, <1>3 DEF StopInv
<1>10. ForkInv'
  BY <1>1, <1>2, <1>5 DEF ForkInv, RunInv, machineVars
<1>11. WaitInv'
  BY <1>2, <1>5, <1>6 DEF WaitInv, RunInv, Waits, TypeOK, Sem!TypeOK
<1>12. PlaceInv'
  BY <1>1, <1>2, <1>5
     DEF PlaceInv, RunInv, ExecPlaces, JoinPlaces, StartPlaces, ExitPlaces, BlockPlaces, TypeOK, machineVars
<1>13. BoundInv' /\ LockInv'
  <2>1. Choosing(at') = Choosing(at) /\ Starting(at') = Starting(at) /\ Holding(at') = Holding(at)
    BY <1>2, SameCounts DEF ExecPlaces
  <2>2. count'[semaphore] = count[semaphore]
    BY <1>6, SemaphoreFacts DEF TypeOK, Sem!TypeOK
  <2> QED
    BY <1>1, <1>5, <2>1, <2>2 DEF BoundInv, LockInv, RunInv, blockVars, machineVars
<1>14. CodeInv'
  BY <1>1, <1>2, <1>5, <1>7 DEF CodeInv, RunInv, TypeOK, blockVars
<1>15. ASSUME PidsAreSlots' PROVE RightInv'
  <2>1. RightInv
    BY <1>3, <1>4, <1>15
  <2>2. StartInv'
    BY <1>1, <1>2, <2>1 DEF RightInv, StartInv, StartPlaces, TypeOK, tableVars, blockVars
  <2>3. ProcessInv'
    BY <1>1, <1>2, <2>1 DEF RightInv, ProcessInv, ExitPlaces, Own, tableVars, blockVars, machineVars
  <2>4. JoinInv'
    BY <1>1, <1>2, <2>1 DEF RightInv, JoinInv, TypeOK, tableVars, machineVars
  <2>5. UnitInv'
    BY <1>1, <1>2, <1>7, <2>1 DEF RightInv, UnitInv, TypeOK, blockVars, machineVars
  <2>6. AcceptInv'
    BY <1>1, <1>2, <1>7, <2>1 DEF RightInv, AcceptInv, TypeOK, blockVars, machineVars
  <2>7. LeaveInv'
    BY <1>1, <1>2, <2>1 DEF RightInv, LeaveInv, Own, TypeOK, tableVars, machineVars
  <2> QED
    BY <1>4, <1>15, <2>2, <2>3, <2>4, <2>5, <2>6, <2>7 DEF RightInv
<1> QED
  BY <1>3, <1>4, <1>8, <1>9, <1>10, <1>11, <1>12, <1>13, <1>14, <1>15 DEF RunInv

\* IncNumWait gives its mutex back.
LEMMA JoinCountsKeeps ==
    ASSUME Inductive, NEW t \in Threads, JoinCounts(t)
    PROVE  Inductive'
<1> USE DEF Inductive, JoinCounts, GoTo, localVars
<1>1. UNCHANGED <<tableVars, blockVars, machineVars>>
  OBVIOUS
<1>2. /\ at \in [Threads -> Places] /\ at[t] \in {"counting"}
      /\ at' = [at EXCEPT ![t] = "counted"] /\ "counted" \in Places
  BY DEF TypeOK, Places
<1>3. Running /\ Running'
  BY ConstantFacts, <1>2 DEF StopInv, Running
<1>4. MarkedInv' /\ (PidsAreSlots' => PidsAreSlots /\ TotalInv' /\ SlotsInv' /\ FreshInv')
  BY <1>1, <1>3, TablesStay
<1>5. RunInv
  BY <1>3
<1>6. /\ block[t] \in Blocks /\ mutex(block[t]) \in Semaphores
      /\ count' = [count EXCEPT ![mutex(block[t])] = count[mutex(block[t])] + 1] /\ inP' = inP
  <2>1. block[t] \in Blocks
    BY <1>2, <1>5 DEF TypeOK, RunInv, PlaceInv, BlockPlaces
  <2> QED
    BY <2>1, SemaphoreFacts DEF Sem!Release
<1>7. \A k \in Blocks : /\ count'[joinsemaphore(k)] = count[joinsemaphore(k)]
                        /\ count'[exitsemaphore(k)] = count[exitsemaphore(k)]
  BY <1>6, SemaphoreFacts DEF TypeOK, Sem!TypeOK
<1>8. TypeOK'
  <2>1. Sem!TypeOK'
    BY <1>6 DEF TypeOK, Sem!TypeOK
  <2>2. at' \in [Threads -> Places]
    BY <1>2
  <2>3. /\ program' \in [Threads -> Programs \cup {NULL}]
        /\ slot' \in [Threads -> Slots \cup {NULL}]
        /\ block' \in [Threads -> Blocks \cup {NULL}]
    BY DEF TypeOK
  <2> QED
    BY <1>1, <2>1, <2>2, <2>3 DEF TypeOK, tableVars, blockVars, machineVars
<1>9. StopInv'
  BY <1>2, <1>3 DEF StopInv
<1>10. ForkInv'
  BY <1>1, <1>2, <1>5 DEF ForkInv, RunInv, machineVars
<1>11. WaitInv'
  BY <1>2, <1>5, <1>6 DEF WaitInv, RunInv, Waits, TypeOK, Sem!TypeOK
<1>12. PlaceInv'
  BY <1>1, <1>2, <1>5
     DEF PlaceInv, RunInv, ExecPlaces, JoinPlaces, StartPlaces, ExitPlaces, BlockPlaces, TypeOK, machineVars
<1>13. BoundInv' /\ LockInv'
  <2>1. Choosing(at') = Choosing(at) /\ Starting(at') = Starting(at) /\ Holding(at') = Holding(at)
    BY <1>2, SameCounts DEF ExecPlaces
  <2>2. count'[semaphore] = count[semaphore]
    BY <1>6, SemaphoreFacts DEF TypeOK, Sem!TypeOK
  <2> QED
    BY <1>1, <1>5, <2>1, <2>2 DEF BoundInv, LockInv, RunInv, blockVars, machineVars
<1>14. CodeInv'
  BY <1>1, <1>2, <1>5, <1>7 DEF CodeInv, RunInv, TypeOK, blockVars
<1>15. ASSUME PidsAreSlots' PROVE RightInv'
  <2>1. RightInv
    BY <1>3, <1>4, <1>15
  <2>2. StartInv'
    BY <1>1, <1>2, <2>1 DEF RightInv, StartInv, StartPlaces, TypeOK, tableVars, blockVars
  <2>3. ProcessInv'
    BY <1>1, <1>2, <2>1 DEF RightInv, ProcessInv, ExitPlaces, Own, tableVars, blockVars, machineVars
  <2>4. JoinInv'
    BY <1>1, <1>2, <2>1 DEF RightInv, JoinInv, TypeOK, tableVars, machineVars
  <2>5. UnitInv'
    BY <1>1, <1>2, <1>7, <2>1 DEF RightInv, UnitInv, TypeOK, blockVars, machineVars
  <2>6. AcceptInv'
    BY <1>1, <1>2, <1>7, <2>1 DEF RightInv, AcceptInv, TypeOK, blockVars, machineVars
  <2>7. LeaveInv'
    BY <1>1, <1>2, <2>1 DEF RightInv, LeaveInv, Own, TypeOK, tableVars, machineVars
  <2> QED
    BY <1>4, <1>15, <2>2, <2>3, <2>4, <2>5, <2>6, <2>7 DEF RightInv
<1> QED
  BY <1>3, <1>4, <1>8, <1>9, <1>10, <1>11, <1>12, <1>13, <1>14, <1>15 DEF RunInv

\* PCB::Exec gives its mutex back.
LEMMA ExecReturnsKeeps ==
    ASSUME Inductive, NEW t \in Threads, ExecReturns(t)
    PROVE  Inductive'
<1> USE DEF Inductive, ExecReturns, ReturnToUser, GoTo, localVars
<1>1. UNCHANGED <<tableVars, blockVars, machineVars>>
  OBVIOUS
<1>2. /\ at \in [Threads -> Places] /\ at[t] \in {"execForked"}
      /\ at' = [at EXCEPT ![t] = "user"] /\ "user" \in Places
  BY DEF TypeOK, Places
<1>3. Running /\ Running'
  BY ConstantFacts, <1>2 DEF StopInv, Running
<1>4. MarkedInv' /\ (PidsAreSlots' => PidsAreSlots /\ TotalInv' /\ SlotsInv' /\ FreshInv')
  BY <1>1, <1>3, TablesStay
<1>5. RunInv
  BY <1>3
<1>6. /\ block[t] \in Blocks /\ mutex(block[t]) \in Semaphores
      /\ count' = [count EXCEPT ![mutex(block[t])] = count[mutex(block[t])] + 1] /\ inP' = inP
  <2>1. block[t] \in Blocks
    BY <1>2, <1>5 DEF TypeOK, RunInv, PlaceInv, BlockPlaces
  <2> QED
    BY <2>1, SemaphoreFacts DEF Sem!Release
<1>7. \A k \in Blocks : /\ count'[joinsemaphore(k)] = count[joinsemaphore(k)]
                        /\ count'[exitsemaphore(k)] = count[exitsemaphore(k)]
  BY <1>6, SemaphoreFacts DEF TypeOK, Sem!TypeOK
<1>8. TypeOK'
  <2>1. Sem!TypeOK'
    BY <1>6 DEF TypeOK, Sem!TypeOK
  <2>2. at' \in [Threads -> Places]
    BY <1>2
  <2>3. /\ program' \in [Threads -> Programs \cup {NULL}]
        /\ slot' \in [Threads -> Slots \cup {NULL}]
        /\ block' \in [Threads -> Blocks \cup {NULL}]
    BY DEF TypeOK
  <2> QED
    BY <1>1, <2>1, <2>2, <2>3 DEF TypeOK, tableVars, blockVars, machineVars
<1>9. StopInv'
  BY <1>2, <1>3 DEF StopInv
<1>10. ForkInv'
  BY <1>1, <1>2, <1>5 DEF ForkInv, RunInv, machineVars
<1>11. WaitInv'
  BY <1>2, <1>5, <1>6 DEF WaitInv, RunInv, Waits, TypeOK, Sem!TypeOK
<1>12. PlaceInv'
  BY <1>1, <1>2, <1>5
     DEF PlaceInv, RunInv, ExecPlaces, JoinPlaces, StartPlaces, ExitPlaces, BlockPlaces, TypeOK, machineVars
<1>13. BoundInv' /\ LockInv'
  <2>1. Choosing(at') = Choosing(at) /\ Starting(at') = Starting(at) /\ Holding(at') = Holding(at)
    BY <1>2, SameCounts DEF ExecPlaces
  <2>2. count'[semaphore] = count[semaphore]
    BY <1>6, SemaphoreFacts DEF TypeOK, Sem!TypeOK
  <2> QED
    BY <1>1, <1>5, <2>1, <2>2 DEF BoundInv, LockInv, RunInv, blockVars, machineVars
<1>14. CodeInv'
  BY <1>1, <1>2, <1>5, <1>7 DEF CodeInv, RunInv, TypeOK, blockVars
<1>15. ASSUME PidsAreSlots' PROVE RightInv'
  <2>1. RightInv
    BY <1>3, <1>4, <1>15
  <2>2. StartInv'
    BY <1>1, <1>2, <2>1 DEF RightInv, StartInv, StartPlaces, TypeOK, tableVars, blockVars
  <2>3. ProcessInv'
    BY <1>1, <1>2, <2>1 DEF RightInv, ProcessInv, ExitPlaces, Own, tableVars, blockVars, machineVars
  <2>4. JoinInv'
    BY <1>1, <1>2, <2>1 DEF RightInv, JoinInv, TypeOK, tableVars, machineVars
  <2>5. UnitInv'
    BY <1>1, <1>2, <1>7, <2>1 DEF RightInv, UnitInv, TypeOK, blockVars, machineVars
  <2>6. AcceptInv'
    BY <1>1, <1>2, <1>7, <2>1 DEF RightInv, AcceptInv, TypeOK, blockVars, machineVars
  <2>7. LeaveInv'
    BY <1>1, <1>2, <2>1 DEF RightInv, LeaveInv, Own, TypeOK, tableVars, machineVars
  <2> QED
    BY <1>4, <1>15, <2>2, <2>3, <2>4, <2>5, <2>6, <2>7 DEF RightInv
<1> QED
  BY <1>3, <1>4, <1>8, <1>9, <1>10, <1>11, <1>12, <1>13, <1>14, <1>15 DEF RunInv

\* The semaphores keep their types.
LEMMA SemaphoreTypes ==
    ASSUME Sem!TypeOK, NEW t \in Threads, NEW s \in Semaphores,
           \/ Sem!TakeAtOnce(t, s) \/ Sem!StartWaiting(t, s)
           \/ Sem!TakeAfterWaiting(t, s) \/ Sem!Release(s)
    PROVE  Sem!TypeOK'
<1>1. CASE Sem!TakeAtOnce(t, s)
  BY <1>1 DEF Sem!TypeOK, Sem!TakeAtOnce
<1>2. CASE Sem!StartWaiting(t, s)
  BY <1>2 DEF Sem!TypeOK, Sem!StartWaiting
<1>3. CASE Sem!TakeAfterWaiting(t, s)
  BY <1>3 DEF Sem!TypeOK, Sem!TakeAfterWaiting
<1>4. CASE Sem!Release(s)
  BY <1>4 DEF Sem!TypeOK, Sem!Release
<1> QED
  BY <1>1, <1>2, <1>3, <1>4

\* ExecuteUpdate begins with semaphore->P().
LEMMA CallExecKeeps ==
    ASSUME Inductive, NEW t \in Threads, CallExec(t)
    PROVE  Inductive'
<1> USE DEF Inductive, CallExec
<1>1. UNCHANGED <<tableVars, blockVars, machineVars>>
  OBVIOUS
<1>2. at \in [Threads -> Places] /\ at[t] = "user"
  BY DEF TypeOK
<1>running. Running /\ RunInv
  BY ConstantFacts, <1>2 DEF StopInv, Running
<1>3. block' = block
  OBVIOUS
<1>4. semaphore \in Semaphores /\ P(t, semaphore, "execWait", "execHolding")
  BY SemaphoreFacts
<1> HIDE DEF CallExec
<1>5. PICK place \in {"execWait", "execHolding"} :
        /\ place \in Places /\ at' = [at EXCEPT ![t] = place]
        /\ \/ place = "execHolding" /\ Sem!TakeAtOnce(t, semaphore)
           \/ place = "execWait" /\ Sem!StartWaiting(t, semaphore)
  BY <1>4 DEF P, GoTo, Places
<1>6. Running /\ Running' /\ RunInv
  BY <1>2, <1>5, <1>running DEF Running
<1>7. MarkedInv' /\ (PidsAreSlots' => PidsAreSlots /\ TotalInv' /\ SlotsInv' /\ FreshInv')
  BY <1>1, <1>6, TablesStay
<1>8. TypeOK'
  <2>1. Sem!TypeOK'
    BY <1>4, <1>5, SemaphoreTypes DEF TypeOK
  <2>2. at' \in [Threads -> Places]
    BY <1>2, <1>5
  <2>3. /\ program' \in [Threads -> Programs \cup {NULL}]
        /\ slot' \in [Threads -> Slots \cup {NULL}]
        /\ block' \in [Threads -> Blocks \cup {NULL}]
    BY <1>3 DEF TypeOK, CallExec
  <2> QED
    BY <1>1, <2>1, <2>2, <2>3 DEF TypeOK, tableVars, blockVars, machineVars
<1>9. StopInv' /\ ForkInv'
  BY <1>1, <1>2, <1>5, <1>6 DEF StopInv, ForkInv, RunInv, machineVars
<1>10. WaitInv'
  <2>1. \A r \in Semaphores : t \notin inP[r]
    BY <1>5 DEF Sem!TakeAtOnce, Sem!StartWaiting
  <2>2. \A r \in Semaphores : \A u \in inP'[r] :
            u \in inP[r] \/ (u = t /\ r = semaphore /\ place = "execWait")
    BY <1>4, <1>5 DEF TypeOK, Sem!TypeOK, Sem!TakeAtOnce, Sem!StartWaiting
  <2> QED
    BY <1>2, <1>3, <1>5, <1>6, <2>1, <2>2 DEF WaitInv, RunInv, Waits, TypeOK, Sem!TypeOK
<1>11. PlaceInv'
  BY ConstantFacts, <1>1, <1>2, <1>3, <1>5, <1>6
     DEF CallExec, PlaceInv, RunInv, ExecPlaces, JoinPlaces, StartPlaces, ExitPlaces, BlockPlaces, TypeOK, machineVars
<1>12. BoundInv' /\ LockInv'
  <2>1. Counted(at, at', at[t], place)
    BY <1>2, <1>5, PlaceCounts, Zenon
  <2>2. /\ Choosing(at) \in Nat /\ Choosing(at') = Choosing(at) + 1
        /\ Starting(at') = Starting(at)
        /\ Holding(at) \in Nat
        /\ Holding(at') = IF place = "execHolding" THEN Holding(at) + 1 ELSE Holding(at)
    BY <1>2, <1>5, <2>1 DEF Counted, One, StartPlaces
  <2>3. made + Choosing(at) < MaxExecs
    BY DEF CallExec, Choosing, CountAt
  <2>4. count'[semaphore] = IF place = "execHolding" THEN count[semaphore] - 1 ELSE count[semaphore]
    BY <1>4, <1>5 DEF TypeOK, Sem!TypeOK, Sem!TakeAtOnce, Sem!StartWaiting
  <2>5. made \in Int /\ MaxExecs \in Int /\ count[semaphore] \in Int
    BY <1>4, ConstantFacts DEF TypeOK, Sem!TypeOK
  <2> QED
    BY <1>1, <1>6, <2>2, <2>3, <2>4, <2>5 DEF BoundInv, LockInv, RunInv, blockVars, machineVars
<1>13. \A j \in Blocks : /\ count'[joinsemaphore(j)] = count[joinsemaphore(j)]
                         /\ count'[exitsemaphore(j)] = count[exitsemaphore(j)]
  BY <1>3, <1>4, <1>5, SemaphoreFacts DEF TypeOK, Sem!TypeOK, Sem!TakeAtOnce, Sem!StartWaiting
<1>14. CodeInv'
  BY <1>1, <1>2, <1>3, <1>5, <1>6, <1>13 DEF CodeInv, RunInv, TypeOK, blockVars
<1>15. ASSUME PidsAreSlots' PROVE RightInv'
  <2>1. RightInv
    BY <1>6, <1>7, <1>15
  <2>2. StartInv'
    BY <1>1, <1>2, <1>3, <1>5, <2>1 DEF CallExec, RightInv, StartInv, StartPlaces, TypeOK, tableVars, blockVars
  <2>3. ProcessInv'
    BY <1>1, <1>2, <1>5, <2>1 DEF RightInv, ProcessInv, ExitPlaces, Own, tableVars, blockVars, machineVars
  <2>4. JoinInv'
    BY <1>1, <1>2, <1>3, <1>5, <2>1 DEF CallExec, RightInv, JoinInv, TypeOK, tableVars, machineVars
  <2>5. UnitInv'
    BY <1>1, <1>2, <1>3, <1>5, <1>13, <2>1 DEF RightInv, UnitInv, TypeOK, blockVars, machineVars
  <2>6. AcceptInv'
    BY <1>1, <1>2, <1>5, <1>13, <2>1 DEF RightInv, AcceptInv, TypeOK, blockVars, machineVars
  <2>7. LeaveInv'
    BY <1>1, <1>2, <1>3, <1>5, <2>1 DEF RightInv, LeaveInv, Own, TypeOK, tableVars, machineVars
  <2> QED
    BY <1>7, <1>15, <2>2, <2>3, <2>4, <2>5, <2>6, <2>7 DEF RightInv
<1> QED
  BY <1>6, <1>7, <1>8, <1>9, <1>10, <1>11, <1>12, <1>14, <1>15 DEF RunInv

\* PCB::Exec of the block in the slot begins with mutex->P().
LEMMA ExecEntersKeeps ==
    ASSUME Inductive, NEW t \in Threads, ExecEnters(t)
    PROVE  Inductive'
<1> USE DEF Inductive, ExecEnters
<1>1. UNCHANGED <<tableVars, blockVars, machineVars>>
  OBVIOUS
<1>2. at \in [Threads -> Places] /\ at[t] = "execChosen"
  BY DEF TypeOK
<1>running. Running /\ RunInv
  BY ConstantFacts, <1>2 DEF StopInv, Running
<1> DEFINE k == blocks[slot[t]]
<1>3. k \in Blocks /\ block' = [block EXCEPT ![t] = k]
  <2>1. pid[t] \in Slots /\ (at[t] \in StartPlaces \cup JoinPlaces => slot[t] \in Slots)
    BY ConstantFacts, <1>running DEF TypeOK, RunInv, PlaceInv
  <2>2. k \in Blocks
    BY <1>2, <2>1 DEF TypeOK, Usable, Own, StartPlaces, JoinPlaces
  <2> QED
    BY <2>2 DEF Own
<1>4. mutex(k) \in Semaphores /\ P(t, mutex(k), "mutexWait", "execMutex")
  BY <1>3, SemaphoreFacts DEF Own
<1> HIDE DEF ExecEnters, k
<1>5. PICK place \in {"mutexWait", "execMutex"} :
        /\ place \in Places /\ at' = [at EXCEPT ![t] = place]
        /\ \/ place = "execMutex" /\ Sem!TakeAtOnce(t, mutex(k))
           \/ place = "mutexWait" /\ Sem!StartWaiting(t, mutex(k))
  BY <1>4 DEF P, GoTo, Places
<1>6. Running /\ Running' /\ RunInv
  BY <1>2, <1>5, <1>running DEF Running
<1>7. MarkedInv' /\ (PidsAreSlots' => PidsAreSlots /\ TotalInv' /\ SlotsInv' /\ FreshInv')
  BY <1>1, <1>6, TablesStay
<1>8. TypeOK'
  <2>1. Sem!TypeOK'
    BY <1>4, <1>5, SemaphoreTypes DEF TypeOK
  <2>2. at' \in [Threads -> Places]
    BY <1>2, <1>5
  <2>3. /\ program' \in [Threads -> Programs \cup {NULL}]
        /\ slot' \in [Threads -> Slots \cup {NULL}]
        /\ block' \in [Threads -> Blocks \cup {NULL}]
    BY <1>3 DEF TypeOK, ExecEnters
  <2> QED
    BY <1>1, <2>1, <2>2, <2>3 DEF TypeOK, tableVars, blockVars, machineVars
<1>9. StopInv' /\ ForkInv'
  BY <1>1, <1>2, <1>5, <1>6 DEF StopInv, ForkInv, RunInv, machineVars
<1>10. WaitInv'
  <2>1. \A r \in Semaphores : t \notin inP[r]
    BY <1>5 DEF Sem!TakeAtOnce, Sem!StartWaiting
  <2>2. \A r \in Semaphores : \A u \in inP'[r] :
            u \in inP[r] \/ (u = t /\ r = mutex(k) /\ place = "mutexWait")
    BY <1>4, <1>5 DEF TypeOK, Sem!TypeOK, Sem!TakeAtOnce, Sem!StartWaiting
  <2> QED
    BY <1>2, <1>3, <1>5, <1>6, <2>1, <2>2 DEF WaitInv, RunInv, Waits, TypeOK, Sem!TypeOK
<1>11. PlaceInv'
  BY ConstantFacts, <1>1, <1>2, <1>3, <1>5, <1>6
     DEF ExecEnters, PlaceInv, RunInv, ExecPlaces, JoinPlaces, StartPlaces, ExitPlaces, BlockPlaces, TypeOK, machineVars, Usable
<1>12. BoundInv' /\ LockInv'
  <2>1. Counted(at, at', at[t], place)
    BY <1>2, <1>5, PlaceCounts, Zenon
  <2>2. Choosing(at') = Choosing(at) /\ Starting(at') = Starting(at) /\ Holding(at') = Holding(at)
    BY <1>2, <1>5, <2>1 DEF Counted, One, StartPlaces
  <2>3. count'[semaphore] = count[semaphore]
    BY <1>3, <1>4, <1>5, SemaphoreFacts DEF TypeOK, Sem!TypeOK, Sem!TakeAtOnce, Sem!StartWaiting
  <2> QED
    BY <1>1, <1>6, <2>2, <2>3 DEF BoundInv, LockInv, RunInv, blockVars, machineVars
<1>13. \A j \in Blocks : /\ count'[joinsemaphore(j)] = count[joinsemaphore(j)]
                         /\ count'[exitsemaphore(j)] = count[exitsemaphore(j)]
  BY <1>3, <1>4, <1>5, SemaphoreFacts DEF TypeOK, Sem!TypeOK, Sem!TakeAtOnce, Sem!StartWaiting
<1>14. CodeInv'
  BY <1>1, <1>2, <1>3, <1>5, <1>6, <1>13 DEF CodeInv, RunInv, TypeOK, blockVars
<1>15. ASSUME PidsAreSlots' PROVE RightInv'
  <2>1. RightInv
    BY <1>6, <1>7, <1>15
  <2>2. StartInv'
    BY <1>1, <1>2, <1>3, <1>5, <2>1 DEF ExecEnters, RightInv, StartInv, StartPlaces, TypeOK, tableVars, blockVars
  <2>3. ProcessInv'
    BY <1>1, <1>2, <1>5, <2>1 DEF RightInv, ProcessInv, ExitPlaces, Own, tableVars, blockVars, machineVars
  <2>4. JoinInv'
    BY <1>1, <1>2, <1>3, <1>5, <2>1 DEF ExecEnters, RightInv, JoinInv, TypeOK, tableVars, machineVars
  <2>5. UnitInv'
    BY <1>1, <1>2, <1>3, <1>5, <1>13, <2>1 DEF RightInv, UnitInv, TypeOK, blockVars, machineVars
  <2>6. AcceptInv'
    BY <1>1, <1>2, <1>5, <1>13, <2>1 DEF RightInv, AcceptInv, TypeOK, blockVars, machineVars
  <2>7. LeaveInv'
    BY <1>1, <1>2, <1>3, <1>5, <2>1 DEF RightInv, LeaveInv, Own, TypeOK, tableVars, machineVars
  <2> QED
    BY <1>7, <1>15, <2>2, <2>3, <2>4, <2>5, <2>6, <2>7 DEF RightInv
<1> QED
  BY <1>6, <1>7, <1>8, <1>9, <1>10, <1>11, <1>12, <1>14, <1>15 DEF RunInv

\* JoinUpdate begins with IncNumWait of the caller's own block.
LEMMA CallJoinKeeps ==
    ASSUME Inductive, NEW t \in Threads, CallJoin(t)
    PROVE  Inductive'
<1> USE DEF Inductive, CallJoin
<1>1. UNCHANGED <<tableVars, blockVars, machineVars>>
  OBVIOUS
<1>2. at \in [Threads -> Places] /\ at[t] = "user"
  BY DEF TypeOK
<1>running. Running /\ RunInv
  BY ConstantFacts, <1>2 DEF StopInv, Running
<1> DEFINE k == Own(t)
<1>3. k \in Blocks /\ block' = [block EXCEPT ![t] = k]
  <2>1. pid[t] \in Slots /\ (at[t] \in StartPlaces \cup JoinPlaces => slot[t] \in Slots)
    BY ConstantFacts, <1>running DEF TypeOK, RunInv, PlaceInv
  <2>2. k \in Blocks
    BY <1>2, <2>1 DEF TypeOK, Usable, Own, StartPlaces, JoinPlaces
  <2> QED
    BY <2>2 DEF Own
<1>4. mutex(k) \in Semaphores /\ P(t, mutex(k), "countWait", "counting")
  BY <1>3, SemaphoreFacts DEF Own
<1> HIDE DEF CallJoin, k
<1>5. PICK place \in {"countWait", "counting"} :
        /\ place \in Places /\ at' = [at EXCEPT ![t] = place]
        /\ \/ place = "counting" /\ Sem!TakeAtOnce(t, mutex(k))
           \/ place = "countWait" /\ Sem!StartWaiting(t, mutex(k))
  BY <1>4 DEF P, GoTo, Places
<1>6. Running /\ Running' /\ RunInv
  BY <1>2, <1>5, <1>running DEF Running
<1>7. MarkedInv' /\ (PidsAreSlots' => PidsAreSlots /\ TotalInv' /\ SlotsInv' /\ FreshInv')
  BY <1>1, <1>6, TablesStay
<1>8. TypeOK'
  <2>1. Sem!TypeOK'
    BY <1>4, <1>5, SemaphoreTypes DEF TypeOK
  <2>2. at' \in [Threads -> Places]
    BY <1>2, <1>5
  <2>3. /\ program' \in [Threads -> Programs \cup {NULL}]
        /\ slot' \in [Threads -> Slots \cup {NULL}]
        /\ block' \in [Threads -> Blocks \cup {NULL}]
    BY <1>3 DEF TypeOK, CallJoin
  <2> QED
    BY <1>1, <2>1, <2>2, <2>3 DEF TypeOK, tableVars, blockVars, machineVars
<1>9. StopInv' /\ ForkInv'
  BY <1>1, <1>2, <1>5, <1>6 DEF StopInv, ForkInv, RunInv, machineVars
<1>10. WaitInv'
  <2>1. \A r \in Semaphores : t \notin inP[r]
    BY <1>5 DEF Sem!TakeAtOnce, Sem!StartWaiting
  <2>2. \A r \in Semaphores : \A u \in inP'[r] :
            u \in inP[r] \/ (u = t /\ r = mutex(k) /\ place = "countWait")
    BY <1>4, <1>5 DEF TypeOK, Sem!TypeOK, Sem!TakeAtOnce, Sem!StartWaiting
  <2> QED
    BY <1>2, <1>3, <1>5, <1>6, <2>1, <2>2 DEF WaitInv, RunInv, Waits, TypeOK, Sem!TypeOK
<1>11. PlaceInv'
  BY ConstantFacts, <1>1, <1>2, <1>3, <1>5, <1>6
     DEF CallJoin, PlaceInv, RunInv, ExecPlaces, JoinPlaces, StartPlaces, ExitPlaces, BlockPlaces, TypeOK, machineVars, Usable
<1>12. BoundInv' /\ LockInv'
  <2>1. Choosing(at') = Choosing(at) /\ Starting(at') = Starting(at) /\ Holding(at') = Holding(at)
    BY <1>2, <1>5, SameCounts DEF ExecPlaces
  <2>2. count'[semaphore] = count[semaphore]
    BY <1>3, <1>4, <1>5, SemaphoreFacts DEF TypeOK, Sem!TypeOK, Sem!TakeAtOnce, Sem!StartWaiting
  <2> QED
    BY <1>1, <1>6, <2>1, <2>2 DEF BoundInv, LockInv, RunInv, blockVars, machineVars
<1>13. \A j \in Blocks : /\ count'[joinsemaphore(j)] = count[joinsemaphore(j)]
                         /\ count'[exitsemaphore(j)] = count[exitsemaphore(j)]
  BY <1>3, <1>4, <1>5, SemaphoreFacts DEF TypeOK, Sem!TypeOK, Sem!TakeAtOnce, Sem!StartWaiting
<1>14. CodeInv'
  BY <1>1, <1>2, <1>3, <1>5, <1>6, <1>13 DEF CodeInv, RunInv, TypeOK, blockVars
<1>15. ASSUME PidsAreSlots' PROVE RightInv'
  <2>1. RightInv
    BY <1>6, <1>7, <1>15
  <2>2. StartInv'
    BY <1>1, <1>2, <1>3, <1>5, <2>1 DEF CallJoin, RightInv, StartInv, StartPlaces, TypeOK, tableVars, blockVars
  <2>3. ProcessInv'
    BY <1>1, <1>2, <1>5, <2>1 DEF RightInv, ProcessInv, ExitPlaces, Own, tableVars, blockVars, machineVars
  <2>4. JoinInv'
    <3>1. slot'[t] \in Slots /\ blocks[slot'[t]] # NULL /\ parentID[blocks[slot'[t]]] = pid[t]
      BY DEF CallJoin, TypeOK
    <3>2. pid[t] \in Slots /\ pid[t] # -1
      BY ConstantFacts DEF TypeOK, Slots
    <3>3. blocks'[slot'[t]] \notin {NULL, 0}
      BY <1>1, <2>1, <3>1, <3>2 DEF RightInv, SlotsInv, tableVars
    <3>4. \A u \in Threads \ {t} : slot'[u] = slot[u]
      BY DEF CallJoin, TypeOK
    <3> QED
      BY <1>1, <1>2, <1>3, <1>5, <2>1, <3>3, <3>4 DEF RightInv, JoinInv, TypeOK, tableVars, machineVars
  <2>5. UnitInv'
    BY <1>1, <1>2, <1>3, <1>5, <1>13, <2>1 DEF RightInv, UnitInv, TypeOK, blockVars, machineVars
  <2>6. AcceptInv'
    BY <1>1, <1>2, <1>5, <1>13, <2>1 DEF RightInv, AcceptInv, TypeOK, blockVars, machineVars
  <2>7. LeaveInv'
    BY <1>1, <1>2, <1>3, <1>5, <2>1 DEF RightInv, LeaveInv, Own, TypeOK, tableVars, machineVars
  <2> QED
    BY <1>7, <1>15, <2>2, <2>3, <2>4, <2>5, <2>6, <2>7 DEF RightInv
<1> QED
  BY <1>6, <1>7, <1>8, <1>9, <1>10, <1>11, <1>12, <1>14, <1>15 DEF RunInv

\* Who takes the unit of joinsemaphore is the only one that has passed JoinWait.
LEMMA UnitTaken ==
    ASSUME TypeOK, UnitInv, NEW t \in Threads, NEW k \in Blocks, at[t] # "joined",
           UNCHANGED <<exitCode, accepted>>,
           at' = [at EXCEPT ![t] = "joined"],
           block'[t] = k, \A u \in Threads \ {t} : block'[u] = block[u],
           count[joinsemaphore(k)] > 0,
           count'[joinsemaphore(k)] = count[joinsemaphore(k)] - 1,
           \A j \in Blocks \ {k} : count'[joinsemaphore(j)] = count[joinsemaphore(j)]
    PROVE  UnitInv'
<1>1. /\ exitCode[k] # NULL /\ k \notin accepted
      /\ count'[joinsemaphore(k)] = 0
      /\ \A u \in Threads : ~(at[u] = "joined" /\ block[u] = k)
  <2>1. count[joinsemaphore(k)] \in Nat
    BY SemaphoreFacts DEF TypeOK, Sem!TypeOK
  <2> QED
    BY <2>1 DEF UnitInv
<1>2. \A u \in Threads : at'[u] = "joined" /\ block'[u] = k <=> u = t
  BY <1>1 DEF TypeOK
<1>3. ASSUME NEW j \in Blocks, j # k
      PROVE  \A u \in Threads : at'[u] = "joined" /\ block'[u] = j <=> at[u] = "joined" /\ block[u] = j
  BY <1>3 DEF TypeOK
<1>4. SUFFICES ASSUME NEW j \in Blocks
      PROVE  IF exitCode[j] = NULL
             THEN /\ count'[joinsemaphore(j)] = 0
                  /\ j \notin accepted
                  /\ \A u \in Threads : ~(at'[u] = "joined" /\ block'[u] = j)
             ELSE /\ count'[joinsemaphore(j)] <= 1
                  /\ count'[joinsemaphore(j)] > 0 => j \notin accepted
                  /\ \A v \in Threads : at'[v] = "joined" /\ block'[v] = j =>
                         /\ count'[joinsemaphore(j)] = 0
                         /\ j \notin accepted
                         /\ \A u \in Threads : at'[u] = "joined" /\ block'[u] = j => u = v
                  /\ \/ count'[joinsemaphore(j)] > 0
                     \/ j \in accepted
                     \/ \E v \in Threads : at'[v] = "joined" /\ block'[v] = j
  BY DEF UnitInv
<1>5. CASE j = k
  BY <1>1, <1>2, <1>5
<1>6. CASE j # k
  <2>1. count'[joinsemaphore(j)] = count[joinsemaphore(j)]
    BY <1>6
  <2> QED
    BY <1>3, <1>6, <2>1 DEF UnitInv
<1> QED
  BY <1>5, <1>6

\* Who takes a unit of its exitsemaphore has been accepted.
LEMMA ExitTaken ==
    ASSUME TypeOK, AcceptInv, LeaveInv, NEW t \in Threads, NEW k \in Blocks,
           at[t] \in {"exiting", "exitWait"}, k = Own(t), exitCode[k] = t,
           UNCHANGED <<exitCode, accepted, pid, blocks>>,
           at' = [at EXCEPT ![t] = "leaving"],
           block'[t] = k, \A u \in Threads \ {t} : block'[u] = block[u],
           count[exitsemaphore(k)] > 0,
           count'[exitsemaphore(k)] = count[exitsemaphore(k)] - 1,
           \A j \in Blocks \ {k} : count'[exitsemaphore(j)] = count[exitsemaphore(j)]
    PROVE  AcceptInv' /\ LeaveInv'
<1>1. k \in accepted /\ count[exitsemaphore(k)] \in Nat
  BY SemaphoreFacts DEF AcceptInv, TypeOK, Sem!TypeOK
<1>2. AcceptInv'
  <2>1. ASSUME NEW j \in Blocks, count'[exitsemaphore(j)] > 0 PROVE j \in accepted
    <3>1. CASE j = k
      BY <1>1, <3>1
    <3>2. CASE j # k
      BY <2>1, <3>2 DEF AcceptInv
    <3> QED
      BY <3>1, <3>2
  <2>2. ASSUME NEW j \in accepted
        PROVE  count'[exitsemaphore(j)] > 0 \/ at'[exitCode[j]] \in {"leaving", "finished"}
    <3>1. CASE j = k
      BY <3>1 DEF TypeOK
    <3>2. CASE j # k
      <4>1. j \in Blocks /\ count'[exitsemaphore(j)] = count[exitsemaphore(j)]
        BY <3>2 DEF TypeOK
      <4>2. count[exitsemaphore(j)] > 0 \/ at[exitCode[j]] \in {"leaving", "finished"}
        BY DEF AcceptInv
      <4> QED
        BY <4>1, <4>2 DEF TypeOK
    <3> QED
      BY <3>1, <3>2
  <2> QED
    BY <2>1, <2>2 DEF AcceptInv
<1>3. LeaveInv'
  BY <1>1 DEF LeaveInv, TypeOK, Own
<1> QED
  BY <1>2, <1>3

\* JoinWait of the block in the slot is P on its joinsemaphore.
LEMMA JoinWaitKeeps ==
    ASSUME Inductive, NEW t \in Threads, JoinWait(t)
    PROVE  Inductive'
<1> USE DEF Inductive, JoinWait
<1>1. UNCHANGED <<tableVars, blockVars, machineVars>>
  OBVIOUS
<1>2. at \in [Threads -> Places] /\ at[t] = "counted"
  BY DEF TypeOK
<1>running. Running /\ RunInv
  BY ConstantFacts, <1>2 DEF StopInv, Running
<1> DEFINE k == blocks[slot[t]]
<1>3. k \in Blocks /\ block' = [block EXCEPT ![t] = k]
  <2>1. pid[t] \in Slots /\ (at[t] \in StartPlaces \cup JoinPlaces => slot[t] \in Slots)
    BY ConstantFacts, <1>running DEF TypeOK, RunInv, PlaceInv
  <2>2. k \in Blocks
    BY <1>2, <2>1 DEF TypeOK, Usable, Own, StartPlaces, JoinPlaces
  <2> QED
    BY <2>2 DEF Own
<1>4. joinsemaphore(k) \in Semaphores /\ P(t, joinsemaphore(k), "joinWait", "joined")
  BY <1>3, SemaphoreFacts DEF Own
<1> HIDE DEF JoinWait, k
<1>5. PICK place \in {"joinWait", "joined"} :
        /\ place \in Places /\ at' = [at EXCEPT ![t] = place]
        /\ \/ place = "joined" /\ Sem!TakeAtOnce(t, joinsemaphore(k))
           \/ place = "joinWait" /\ Sem!StartWaiting(t, joinsemaphore(k))
  BY <1>4 DEF P, GoTo, Places
<1>6. Running /\ Running' /\ RunInv
  BY <1>2, <1>5, <1>running DEF Running
<1>7. MarkedInv' /\ (PidsAreSlots' => PidsAreSlots /\ TotalInv' /\ SlotsInv' /\ FreshInv')
  BY <1>1, <1>6, TablesStay
<1>8. TypeOK'
  <2>1. Sem!TypeOK'
    BY <1>4, <1>5, SemaphoreTypes DEF TypeOK
  <2>2. at' \in [Threads -> Places]
    BY <1>2, <1>5
  <2>3. /\ program' \in [Threads -> Programs \cup {NULL}]
        /\ slot' \in [Threads -> Slots \cup {NULL}]
        /\ block' \in [Threads -> Blocks \cup {NULL}]
    BY <1>3 DEF TypeOK, JoinWait
  <2> QED
    BY <1>1, <2>1, <2>2, <2>3 DEF TypeOK, tableVars, blockVars, machineVars
<1>9. StopInv' /\ ForkInv'
  BY <1>1, <1>2, <1>5, <1>6 DEF StopInv, ForkInv, RunInv, machineVars
<1>10. WaitInv'
  <2>1. \A r \in Semaphores : t \notin inP[r]
    BY <1>5 DEF Sem!TakeAtOnce, Sem!StartWaiting
  <2>2. \A r \in Semaphores : \A u \in inP'[r] :
            u \in inP[r] \/ (u = t /\ r = joinsemaphore(k) /\ place = "joinWait")
    BY <1>4, <1>5 DEF TypeOK, Sem!TypeOK, Sem!TakeAtOnce, Sem!StartWaiting
  <2> QED
    BY <1>2, <1>3, <1>5, <1>6, <2>1, <2>2 DEF WaitInv, RunInv, Waits, TypeOK, Sem!TypeOK
<1>11. PlaceInv'
  BY ConstantFacts, <1>1, <1>2, <1>3, <1>5, <1>6
     DEF JoinWait, PlaceInv, RunInv, ExecPlaces, JoinPlaces, StartPlaces, ExitPlaces, BlockPlaces, TypeOK, machineVars, Usable
<1>12. BoundInv' /\ LockInv'
  <2>1. Choosing(at') = Choosing(at) /\ Starting(at') = Starting(at) /\ Holding(at') = Holding(at)
    BY <1>2, <1>5, SameCounts DEF ExecPlaces
  <2>2. count'[semaphore] = count[semaphore]
    BY <1>3, <1>4, <1>5, SemaphoreFacts DEF TypeOK, Sem!TypeOK, Sem!TakeAtOnce, Sem!StartWaiting
  <2> QED
    BY <1>1, <1>6, <2>1, <2>2 DEF BoundInv, LockInv, RunInv, blockVars, machineVars
<1>13. \A j \in Blocks : /\ count'[exitsemaphore(j)] = count[exitsemaphore(j)]
                         /\ j # k => count'[joinsemaphore(j)] = count[joinsemaphore(j)]
  BY <1>3, <1>4, <1>5, SemaphoreFacts DEF TypeOK, Sem!TypeOK, Sem!TakeAtOnce, Sem!StartWaiting
<1>14. IF place = "joined"
       THEN count[joinsemaphore(k)] > 0 /\ count'[joinsemaphore(k)] = count[joinsemaphore(k)] - 1
       ELSE count' = count
  BY <1>3, <1>4, <1>5, SemaphoreFacts DEF TypeOK, Sem!TypeOK, Sem!TakeAtOnce, Sem!StartWaiting
<1>15. CodeInv'
  <2>1. \A j \in Blocks : count'[joinsemaphore(j)] > 0 => count[joinsemaphore(j)] > 0
    <3>1. count[joinsemaphore(k)] \in Nat
      BY <1>3, SemaphoreFacts DEF TypeOK, Sem!TypeOK
    <3> QED
      BY <1>13, <1>14, <3>1
  <2> QED
    BY <1>1, <1>2, <1>3, <1>5, <1>6, <1>14, <2>1 DEF CodeInv, RunInv, TypeOK, blockVars
<1>16. ASSUME PidsAreSlots' PROVE RightInv'
  <2>1. RightInv
    BY <1>6, <1>7, <1>16
  <2>2. StartInv'
    BY <1>1, <1>2, <1>3, <1>5, <2>1 DEF JoinWait, RightInv, StartInv, StartPlaces, TypeOK, tableVars, blockVars
  <2>3. ProcessInv'
    BY <1>1, <1>2, <1>5, <2>1 DEF RightInv, ProcessInv, ExitPlaces, Own, tableVars, blockVars, machineVars
  <2>4. JoinInv'
    <3>1. k \notin {NULL, 0} /\ k = blocks[slot[t]]
      BY <1>2, <2>1 DEF k, RightInv, JoinInv
    <3> QED
      BY <1>1, <1>2, <1>3, <1>5, <2>1, <3>1 DEF JoinWait, RightInv, JoinInv, TypeOK, tableVars, machineVars
  <2>5. UnitInv'
    <3>1. CASE place = "joined"
      <4>1. \A u \in Threads \ {t} : block'[u] = block[u]
        BY <1>3
      <4>2. block'[t] = k
        BY <1>3 DEF TypeOK
      <4> QED
        BY <1>1, <1>2, <1>3, <1>5, <1>13, <1>14, <2>1, <3>1, <4>1, <4>2, UnitTaken
           DEF RightInv, blockVars, machineVars
    <3>2. CASE place = "joinWait"
      BY <1>1, <1>2, <1>3, <1>5, <1>14, <2>1, <3>2 DEF RightInv, UnitInv, TypeOK, blockVars, machineVars
    <3> QED
      BY <1>5, <3>1, <3>2
  <2>6. AcceptInv'
    BY <1>1, <1>2, <1>5, <1>13, <2>1 DEF RightInv, AcceptInv, TypeOK, blockVars, machineVars
  <2>7. LeaveInv'
    BY <1>1, <1>2, <1>3, <1>5, <2>1 DEF RightInv, LeaveInv, Own, TypeOK, tableVars, machineVars
  <2> QED
    BY <1>7, <1>16, <2>2, <2>3, <2>4, <2>5, <2>6, <2>7 DEF RightInv
<1> QED
  BY <1>6, <1>7, <1>8, <1>9, <1>10, <1>11, <1>12, <1>15, <1>16 DEF RunInv

\* ExitWait of the caller's own block is P on its exitsemaphore.
LEMMA ExitWaitKeeps ==
    ASSUME Inductive, NEW t \in Threads, ExitWait(t)
    PROVE  Inductive'
<1> USE DEF Inductive, ExitWait
<1>1. UNCHANGED <<tableVars, blockVars, machineVars>>
  OBVIOUS
<1>2. at \in [Threads -> Places] /\ at[t] = "exiting"
  BY DEF TypeOK
<1>running. Running /\ RunInv
  BY ConstantFacts, <1>2 DEF StopInv, Running
<1> DEFINE k == Own(t)
<1>3. k \in Blocks /\ block' = [block EXCEPT ![t] = k]
  <2>1. pid[t] \in Slots /\ (at[t] \in StartPlaces \cup JoinPlaces => slot[t] \in Slots)
    BY ConstantFacts, <1>running DEF TypeOK, RunInv, PlaceInv
  <2>2. k \in Blocks
    BY <1>2, <2>1 DEF TypeOK, Usable, Own, StartPlaces, JoinPlaces
  <2> QED
    BY <2>2 DEF Own
<1>4. exitsemaphore(k) \in Semaphores /\ P(t, exitsemaphore(k), "exitWait", "leaving")
  BY <1>3, SemaphoreFacts DEF Own
<1> HIDE DEF ExitWait, k
<1>5. PICK place \in {"exitWait", "leaving"} :
        /\ place \in Places /\ at' = [at EXCEPT ![t] = place]
        /\ \/ place = "leaving" /\ Sem!TakeAtOnce(t, exitsemaphore(k))
           \/ place = "exitWait" /\ Sem!StartWaiting(t, exitsemaphore(k))
  BY <1>4 DEF P, GoTo, Places
<1>6. Running /\ Running' /\ RunInv
  BY <1>2, <1>5, <1>running DEF Running
<1>7. MarkedInv' /\ (PidsAreSlots' => PidsAreSlots /\ TotalInv' /\ SlotsInv' /\ FreshInv')
  BY <1>1, <1>6, TablesStay
<1>8. TypeOK'
  <2>1. Sem!TypeOK'
    BY <1>4, <1>5, SemaphoreTypes DEF TypeOK
  <2>2. at' \in [Threads -> Places]
    BY <1>2, <1>5
  <2>3. /\ program' \in [Threads -> Programs \cup {NULL}]
        /\ slot' \in [Threads -> Slots \cup {NULL}]
        /\ block' \in [Threads -> Blocks \cup {NULL}]
    BY <1>3 DEF TypeOK, ExitWait
  <2> QED
    BY <1>1, <2>1, <2>2, <2>3 DEF TypeOK, tableVars, blockVars, machineVars
<1>9. StopInv' /\ ForkInv'
  BY <1>1, <1>2, <1>5, <1>6 DEF StopInv, ForkInv, RunInv, machineVars
<1>10. WaitInv'
  <2>1. \A r \in Semaphores : t \notin inP[r]
    BY <1>5 DEF Sem!TakeAtOnce, Sem!StartWaiting
  <2>2. \A r \in Semaphores : \A u \in inP'[r] :
            u \in inP[r] \/ (u = t /\ r = exitsemaphore(k) /\ place = "exitWait")
    BY <1>4, <1>5 DEF TypeOK, Sem!TypeOK, Sem!TakeAtOnce, Sem!StartWaiting
  <2> QED
    BY <1>2, <1>3, <1>5, <1>6, <2>1, <2>2 DEF WaitInv, RunInv, Waits, TypeOK, Sem!TypeOK
<1>11. PlaceInv'
  BY ConstantFacts, <1>1, <1>2, <1>3, <1>5, <1>6
     DEF ExitWait, PlaceInv, RunInv, ExecPlaces, JoinPlaces, StartPlaces, ExitPlaces, BlockPlaces, TypeOK, machineVars, Usable
<1>12. BoundInv' /\ LockInv'
  <2>1. Choosing(at') = Choosing(at) /\ Starting(at') = Starting(at) /\ Holding(at') = Holding(at)
    BY <1>2, <1>5, SameCounts DEF ExecPlaces
  <2>2. count'[semaphore] = count[semaphore]
    BY <1>3, <1>4, <1>5, SemaphoreFacts DEF TypeOK, Sem!TypeOK, Sem!TakeAtOnce, Sem!StartWaiting
  <2> QED
    BY <1>1, <1>6, <2>1, <2>2 DEF BoundInv, LockInv, RunInv, blockVars, machineVars
<1>13. \A j \in Blocks : /\ count'[joinsemaphore(j)] = count[joinsemaphore(j)]
                         /\ j # k => count'[exitsemaphore(j)] = count[exitsemaphore(j)]
  BY <1>3, <1>4, <1>5, SemaphoreFacts DEF TypeOK, Sem!TypeOK, Sem!TakeAtOnce, Sem!StartWaiting
<1>14. IF place = "leaving"
       THEN count[exitsemaphore(k)] > 0 /\ count'[exitsemaphore(k)] = count[exitsemaphore(k)] - 1
       ELSE count' = count
  BY <1>3, <1>4, <1>5, SemaphoreFacts DEF TypeOK, Sem!TypeOK, Sem!TakeAtOnce, Sem!StartWaiting
<1>15. CodeInv'
  BY <1>1, <1>2, <1>3, <1>5, <1>6, <1>13 DEF CodeInv, RunInv, TypeOK, blockVars
<1>16. ASSUME PidsAreSlots' PROVE RightInv'
  <2>1. RightInv
    BY <1>6, <1>7, <1>16
  <2>2. StartInv'
    BY <1>1, <1>2, <1>3, <1>5, <2>1 DEF ExitWait, RightInv, StartInv, StartPlaces, TypeOK, tableVars, blockVars
  <2>3. ProcessInv'
    BY <1>1, <1>2, <1>5, <2>1 DEF RightInv, ProcessInv, ExitPlaces, Own, tableVars, blockVars, machineVars
  <2>4. JoinInv'
    BY <1>1, <1>2, <1>3, <1>5, <2>1 DEF ExitWait, RightInv, JoinInv, TypeOK, tableVars, machineVars
  <2>5. UnitInv'
    BY <1>1, <1>2, <1>3, <1>5, <1>13, <2>1 DEF RightInv, UnitInv, TypeOK, blockVars, machineVars
  <2>6. AcceptInv' /\ LeaveInv'
    <3>1. CASE place = "leaving"
      <4>1. block'[t] = k /\ \A u \in Threads \ {t} : block'[u] = block[u]
        BY <1>3 DEF TypeOK
      <4>2. k = Own(t) /\ exitCode[k] = t
        BY <1>2, <1>6, <1>7, <1>16, ExitingFacts DEF k, ExitPlaces
      <4>3. UNCHANGED <<exitCode, accepted, pid, blocks>>
        BY <1>1 DEF blockVars, machineVars, tableVars
      <4> QED
        BY <1>2, <1>3, <1>5, <1>13, <1>14, <2>1, <3>1, <4>1, <4>2, <4>3, ExitTaken DEF RightInv
    <3>2. CASE place = "exitWait"
      <4>1. AcceptInv'
        BY <1>1, <1>2, <1>5, <1>14, <2>1, <3>2 DEF RightInv, AcceptInv, TypeOK, blockVars, machineVars
      <4>2. LeaveInv'
        BY <1>1, <1>2, <1>3, <1>5, <2>1, <3>2 DEF k, RightInv, LeaveInv, Own, TypeOK, tableVars, machineVars
      <4> QED
        BY <4>1, <4>2
    <3> QED
      BY <1>5, <3>1, <3>2
  <2> QED
    BY <1>7, <1>16, <2>2, <2>3, <2>4, <2>5, <2>6 DEF RightInv
<1> QED
  BY <1>6, <1>7, <1>8, <1>9, <1>10, <1>11, <1>12, <1>15, <1>16 DEF RunInv

\* A P that has waited returns to the place that waited for its semaphore.
LEMMA WokenKeeps ==
    ASSUME Inductive, NEW t \in Threads, NEW s \in Semaphores, Woken(t, s)
    PROVE  Inductive'
<1> USE DEF Inductive
<1>1. UNCHANGED <<tableVars, blockVars, machineVars>> /\ UNCHANGED localVars
  BY DEF Woken
<1>2. /\ count[s] > 0 /\ count' = [count EXCEPT ![s] = count[s] - 1]
      /\ t \in inP[s] /\ inP' = [inP EXCEPT ![s] = inP[s] \ {t}]
  BY DEF Woken, Sem!TakeAfterWaiting
<1>3. at \in [Threads -> Places] /\ at[t] \in {"execWait", "mutexWait", "countWait", "joinWait", "exitWait"}
  BY DEF Woken, AfterP, TypeOK
<1>4. Running /\ RunInv
  BY ConstantFacts, <1>3 DEF StopInv, Running
<1>5. Waits(t, s)
  BY <1>2, <1>4 DEF RunInv, WaitInv
<1>6. PICK place \in Places :
        /\ at' = [at EXCEPT ![t] = place]
        /\ \/ at[t] = "execWait" /\ place = "execHolding"
           \/ at[t] = "mutexWait" /\ place = "execMutex"
           \/ at[t] = "countWait" /\ place = "counting"
           \/ at[t] = "joinWait" /\ place = "joined"
           \/ at[t] = "exitWait" /\ place = "leaving"
  <2>1. AfterP[at[t]] \in Places /\ at' = [at EXCEPT ![t] = AfterP[at[t]]]
    BY <1>3 DEF Woken, GoTo, AfterP, Places
  <2>2. /\ AfterP["execWait"] = "execHolding" /\ AfterP["mutexWait"] = "execMutex"
        /\ AfterP["countWait"] = "counting" /\ AfterP["joinWait"] = "joined"
        /\ AfterP["exitWait"] = "leaving"
    BY DEF AfterP
  <2> QED
    BY <1>3, <2>1, <2>2
<1>7. Running'
  BY <1>3, <1>4, <1>6 DEF Running
<1>8. MarkedInv' /\ (PidsAreSlots' => PidsAreSlots /\ TotalInv' /\ SlotsInv' /\ FreshInv')
  BY <1>1, <1>4, TablesStay
<1>9. TypeOK'
  <2>1. Sem!TypeOK'
    BY SemaphoreTypes DEF TypeOK, Woken
  <2>2. at' \in [Threads -> Places]
    BY <1>3, <1>6
  <2> QED
    BY <1>1, <2>1, <2>2 DEF TypeOK, tableVars, blockVars, machineVars, localVars
<1>10. StopInv' /\ ForkInv'
  BY <1>1, <1>3, <1>4, <1>6, <1>7 DEF StopInv, ForkInv, RunInv, machineVars
<1>11. PlaceInv'
  BY <1>1, <1>3, <1>4, <1>6
     DEF PlaceInv, RunInv, ExecPlaces, JoinPlaces, StartPlaces, ExitPlaces, BlockPlaces, machineVars, localVars
<1>12. WaitInv'
  <2>1. SUFFICES ASSUME NEW r \in Semaphores, NEW u \in inP'[r] PROVE Waits(u, r)'
    BY DEF WaitInv
  <2>2. u \in inP[r] /\ (r = s => u # t) /\ u \in Threads
    BY <1>2 DEF TypeOK, Sem!TypeOK
  <2>3. Waits(u, r)
    BY <1>4, <2>2 DEF RunInv, WaitInv
  <2>4. u # t
    BY <1>5, <2>2, <2>3 DEF Waits
  <2> QED
    BY <1>1, <1>3, <1>6, <2>2, <2>3, <2>4 DEF Waits, localVars
<1>13. at[t] # "execWait" => block[t] \in Blocks
  BY <1>3, <1>4 DEF TypeOK, RunInv, PlaceInv, BlockPlaces
<1>14. BoundInv' /\ LockInv'
  <2>1. Counted(at, at', at[t], place)
    BY <1>3, <1>6, PlaceCounts, Zenon
  <2>2. /\ Choosing(at') = Choosing(at) /\ Starting(at') = Starting(at)
        /\ Holding(at) \in Nat
        /\ Holding(at') = IF place = "execHolding" THEN Holding(at) + 1 ELSE Holding(at)
    BY <1>6, <2>1 DEF Counted, One, StartPlaces
  <2>3. (place = "execHolding") <=> (s = semaphore)
    BY <1>5, <1>6, <1>13, SemaphoreFacts DEF Waits
  <2>4. /\ count[semaphore] \in Int
        /\ count'[semaphore] = IF place = "execHolding" THEN count[semaphore] - 1 ELSE count[semaphore]
    BY <1>2, <2>3, SemaphoreFacts DEF TypeOK, Sem!TypeOK
  <2> QED
    BY <1>1, <1>4, <2>2, <2>4 DEF BoundInv, LockInv, RunInv, blockVars, machineVars
<1>15. CodeInv'
  <2>1. \A k \in Blocks : count'[joinsemaphore(k)] > 0 => count[joinsemaphore(k)] > 0
    <3>1. \A r \in Semaphores : count[r] \in Nat /\ count'[r] \in {count[r], count[r] - 1}
      BY <1>2 DEF TypeOK, Sem!TypeOK
    <3> QED
      BY <3>1, SemaphoreFacts
  <2>2. place = "joined" => exitCode[block[t]] # NULL
    BY <1>2, <1>4, <1>5, <1>6, <1>13 DEF Waits, CodeInv, RunInv
  <2>3. \A u \in Threads \ {t} : at'[u] = at[u]
    BY <1>3, <1>6
  <2>4. at'[t] = place
    BY <1>3, <1>6
  <2> QED
    BY <1>1, <1>4, <1>6, <2>1, <2>2, <2>3, <2>4 DEF CodeInv, RunInv, blockVars, localVars
<1>16. ASSUME PidsAreSlots' PROVE RightInv'
  <2>1. RightInv
    BY <1>4, <1>8, <1>16
  <2>2. StartInv'
    BY <1>1, <1>3, <1>6, <2>1 DEF RightInv, StartInv, StartPlaces, tableVars, blockVars, localVars
  <2>3. ProcessInv'
    BY <1>1, <1>3, <1>6, <2>1 DEF RightInv, ProcessInv, ExitPlaces, Own, tableVars, blockVars, machineVars
  <2>4. JoinInv'
    BY <1>1, <1>3, <1>6, <2>1 DEF RightInv, JoinInv, tableVars, machineVars, localVars
  <2>5. UnitInv'
    <3>1. CASE place = "joined"
      <4>1. s = joinsemaphore(block[t]) /\ block[t] \in Blocks
        BY <1>5, <1>6, <1>13, <3>1 DEF Waits
      <4>2. /\ count[joinsemaphore(block[t])] > 0
            /\ count'[joinsemaphore(block[t])] = count[joinsemaphore(block[t])] - 1
            /\ \A j \in Blocks \ {block[t]} : count'[joinsemaphore(j)] = count[joinsemaphore(j)]
        BY <1>2, <4>1, SemaphoreFacts DEF TypeOK, Sem!TypeOK
      <4>3. at[t] # "joined" /\ at' = [at EXCEPT ![t] = "joined"]
        BY <1>6, <3>1
      <4>4. UnitInv /\ UNCHANGED <<exitCode, accepted, block>>
        BY <1>1, <2>1 DEF RightInv, blockVars, machineVars, localVars
      <4> QED
        BY <4>1, <4>2, <4>3, <4>4, UnitTaken
    <3>2. CASE place # "joined"
      <4>1. \A j \in Blocks : s # joinsemaphore(j)
        BY <1>5, <1>6, <1>13, <3>2, SemaphoreFacts DEF Waits
      <4>2. \A j \in Blocks : count'[joinsemaphore(j)] = count[joinsemaphore(j)]
        BY <1>2, <4>1, SemaphoreFacts DEF TypeOK, Sem!TypeOK
      <4>3. \A u \in Threads : at'[u] = "joined" <=> at[u] = "joined"
        BY <1>3, <1>6, <3>2
      <4> QED
        BY <1>1, <2>1, <4>2, <4>3 DEF RightInv, UnitInv, blockVars, machineVars, localVars
    <3> QED
      BY <3>1, <3>2
  <2>6. AcceptInv' /\ LeaveInv'
    <3>1. CASE place = "leaving"
      <4>1. s = exitsemaphore(block[t]) /\ block[t] \in Blocks /\ at[t] = "exitWait"
        BY <1>5, <1>6, <1>13, <3>1 DEF Waits
      <4>2. /\ count[exitsemaphore(block[t])] > 0
            /\ count'[exitsemaphore(block[t])] = count[exitsemaphore(block[t])] - 1
            /\ \A j \in Blocks \ {block[t]} : count'[exitsemaphore(j)] = count[exitsemaphore(j)]
        BY <1>2, <4>1, SemaphoreFacts DEF TypeOK, Sem!TypeOK
      <4>3. block[t] = Own(t) /\ exitCode[block[t]] = t
        BY <1>4, <1>8, <1>16, <2>1, <4>1, ExitingFacts DEF RightInv, LeaveInv, ExitPlaces
      <4>4. AcceptInv /\ LeaveInv /\ UNCHANGED <<exitCode, accepted, pid, blocks, block>>
        BY <1>1, <2>1 DEF RightInv, tableVars, blockVars, machineVars, localVars
      <4>5. at' = [at EXCEPT ![t] = "leaving"]
        BY <1>6, <3>1
      <4> QED
        BY <4>1, <4>2, <4>3, <4>4, <4>5, ExitTaken
    <3>2. CASE place # "leaving"
      <4>1. \A j \in Blocks : s # exitsemaphore(j)
        BY <1>5, <1>6, <1>13, <3>2, SemaphoreFacts DEF Waits
      <4>2. \A j \in Blocks : count'[exitsemaphore(j)] = count[exitsemaphore(j)]
        BY <1>2, <4>1, SemaphoreFacts DEF TypeOK, Sem!TypeOK
      <4>3. \A u \in Threads : /\ at'[u] \in {"leaving", "finished"} <=> at[u] \in {"leaving", "finished"}
                               /\ at'[u] \in {"exitWait", "leaving"} => at[u] \in {"exitWait", "leaving"}
        BY <1>3, <1>6, <3>2
      <4>4. AcceptInv'
        <5>1. \A j \in accepted : exitCode[j] \in Threads
          BY ConstantFacts, <2>1 DEF RightInv, UnitInv, TypeOK
        <5> QED
          BY <1>1, <2>1, <4>2, <4>3, <5>1 DEF RightInv, AcceptInv, TypeOK, blockVars, machineVars
      <4>5. LeaveInv'
        BY <1>1, <2>1, <4>3 DEF RightInv, LeaveInv, Own, tableVars, machineVars, localVars
      <4> QED
        BY <4>4, <4>5
    <3> QED
      BY <3>1, <3>2
  <2> QED
    BY <1>8, <1>16, <2>2, <2>3, <2>4, <2>5, <2>6 DEF RightInv
<1> QED
  BY <1>7, <1>8, <1>9, <1>10, <1>11, <1>12, <1>14, <1>15, <1>16 DEF RunInv

\* ExecuteUpdate gives the semaphore back when it refuses.
LEMMA ExecRefusedKeeps ==
    ASSUME Inductive, NEW t \in Threads, ExecRefused(t)
    PROVE  Inductive'
<1> USE DEF Inductive, ExecRefused, ReturnToUser, GoTo, localVars
<1>1. UNCHANGED <<tableVars, blockVars, machineVars>>
  OBVIOUS
<1>2. /\ at \in [Threads -> Places] /\ at[t] \in {"execHolding"}
      /\ at' = [at EXCEPT ![t] = "user"] /\ "user" \in Places
  BY DEF TypeOK, Places
<1>3. Running /\ Running'
  BY ConstantFacts, <1>2 DEF StopInv, Running
<1>4. MarkedInv' /\ (PidsAreSlots' => PidsAreSlots /\ TotalInv' /\ SlotsInv' /\ FreshInv')
  BY <1>1, <1>3, TablesStay
<1>5. RunInv
  BY <1>3
<1>6. /\ semaphore \in Semaphores
      /\ count' = [count EXCEPT ![semaphore] = count[semaphore] + 1] /\ inP' = inP
  BY SemaphoreFacts DEF Sem!Release
<1>7. \A k \in Blocks : /\ count'[joinsemaphore(k)] = count[joinsemaphore(k)]
                        /\ count'[exitsemaphore(k)] = count[exitsemaphore(k)]
  BY <1>6, SemaphoreFacts DEF TypeOK, Sem!TypeOK
<1>8. TypeOK'
  <2>1. Sem!TypeOK'
    BY <1>6 DEF TypeOK, Sem!TypeOK
  <2>2. at' \in [Threads -> Places]
    BY <1>2
  <2>3. /\ program' \in [Threads -> Programs \cup {NULL}]
        /\ slot' \in [Threads -> Slots \cup {NULL}]
        /\ block' \in [Threads -> Blocks \cup {NULL}]
    BY DEF TypeOK
  <2> QED
    BY <1>1, <2>1, <2>2, <2>3 DEF TypeOK, tableVars, blockVars, machineVars
<1>9. StopInv'
  BY <1>2, <1>3 DEF StopInv
<1>10. ForkInv'
  BY <1>1, <1>2, <1>5 DEF ForkInv, RunInv, machineVars
<1>11. WaitInv'
  BY <1>2, <1>5, <1>6 DEF WaitInv, RunInv, Waits, TypeOK, Sem!TypeOK
<1>12. PlaceInv'
  BY <1>1, <1>2, <1>5
     DEF PlaceInv, RunInv, ExecPlaces, JoinPlaces, StartPlaces, ExitPlaces, BlockPlaces, TypeOK, machineVars
<1>13. BoundInv' /\ LockInv'
  <2>1. Counted(at, at', at[t], "user")
    BY <1>2, PlaceCounts, Zenon
  <2>2. /\ Choosing(at) \in Nat /\ Choosing(at') = Choosing(at) - 1 /\ Starting(at') = Starting(at)
        /\ Holding(at) \in Nat /\ Holding(at') = Holding(at) - 1
    BY <1>2, <2>1 DEF Counted, One, StartPlaces
  <2>3. count[semaphore] \in Nat /\ count'[semaphore] = count[semaphore] + 1
    BY <1>6 DEF TypeOK, Sem!TypeOK
  <2>4. made \in Int /\ MaxExecs \in Int
    BY ConstantFacts DEF TypeOK
  <2>5. BoundInv'
    BY <1>1, <1>5, <2>2, <2>4 DEF BoundInv, RunInv, blockVars, machineVars
  <2>6. count'[semaphore] + Holding(at') = 1
    BY <1>5, <2>2, <2>3 DEF LockInv, RunInv
  <2> QED
    BY <2>5, <2>6 DEF LockInv
<1>14. CodeInv'
  BY <1>1, <1>2, <1>5, <1>7 DEF CodeInv, RunInv, TypeOK, blockVars
<1>15. ASSUME PidsAreSlots' PROVE RightInv'
  <2>1. RightInv
    BY <1>3, <1>4, <1>15
  <2>2. StartInv'
    BY <1>1, <1>2, <2>1 DEF RightInv, StartInv, StartPlaces, TypeOK, tableVars, blockVars
  <2>3. ProcessInv'
    BY <1>1, <1>2, <2>1 DEF RightInv, ProcessInv, ExitPlaces, Own, tableVars, blockVars, machineVars
  <2>4. JoinInv'
    BY <1>1, <1>2, <2>1 DEF RightInv, JoinInv, TypeOK, tableVars, machineVars
  <2>5. UnitInv'
    BY <1>1, <1>2, <1>7, <2>1 DEF RightInv, UnitInv, TypeOK, blockVars, machineVars
  <2>6. AcceptInv'
    BY <1>1, <1>2, <1>7, <2>1 DEF RightInv, AcceptInv, TypeOK, blockVars, machineVars
  <2>7. LeaveInv'
    BY <1>1, <1>2, <2>1 DEF RightInv, LeaveInv, Own, TypeOK, tableVars, machineVars
  <2> QED
    BY <1>4, <1>15, <2>2, <2>3, <2>4, <2>5, <2>6, <2>7 DEF RightInv
<1> QED
  BY <1>3, <1>4, <1>8, <1>9, <1>10, <1>11, <1>12, <1>13, <1>14, <1>15 DEF RunInv

\* The parent accepts: a unit for the child that it has joined.
LEMMA ExitReleaseKeeps ==
    ASSUME Inductive, NEW t \in Threads, ExitRelease(t)
    PROVE  Inductive'
<1> USE DEF Inductive
<1>1. UNCHANGED <<tableVars, blockVars, localVars, pid, forked>>
  BY DEF ExitRelease
<1>2. /\ at \in [Threads -> Places] /\ at[t] = "joined"
      /\ at' = [at EXCEPT ![t] = "released"] /\ "released" \in Places
  BY DEF TypeOK, ExitRelease, GoTo, Places
<1>3. Running /\ Running' /\ RunInv
  BY ConstantFacts, <1>2 DEF StopInv, Running
<1>4. block[t] \in Blocks /\ accepted' = accepted \cup {block[t]}
  BY <1>2, <1>3 DEF TypeOK, RunInv, PlaceInv, BlockPlaces, ExitRelease
<1> DEFINE m == blocks[slot[t]]
<1>5. m \in Blocks /\ Sem!Release(exitsemaphore(m))
  <2>1. slot[t] \in Slots
    BY <1>2, <1>3 DEF TypeOK, RunInv, PlaceInv, JoinPlaces
  <2> QED
    BY <2>1 DEF TypeOK, ExitRelease, Usable
<1> HIDE DEF m
<1>6. /\ exitsemaphore(m) \in Semaphores /\ inP' = inP
      /\ count' = [count EXCEPT ![exitsemaphore(m)] = count[exitsemaphore(m)] + 1]
  BY <1>5, SemaphoreFacts DEF Sem!Release
<1>7. /\ \A k \in Blocks : count'[joinsemaphore(k)] = count[joinsemaphore(k)]
      /\ \A k \in Blocks \ {m} : count'[exitsemaphore(k)] = count[exitsemaphore(k)]
      /\ count'[exitsemaphore(m)] > 0
      /\ count'[semaphore] = count[semaphore]
  <2>1. count[exitsemaphore(m)] \in Nat
    BY <1>6 DEF TypeOK, Sem!TypeOK
  <2> QED
    BY <1>5, <1>6, <2>1, SemaphoreFacts DEF TypeOK, Sem!TypeOK
<1>8. TypeOK'
  <2>1. Sem!TypeOK'
    BY <1>5, <1>6, SemaphoreTypes DEF TypeOK
  <2>2. at' \in [Threads -> Places] /\ accepted' \subseteq Blocks
    BY <1>2, <1>4 DEF TypeOK
  <2> QED
    BY <1>1, <2>1, <2>2 DEF TypeOK, tableVars, blockVars, localVars
<1>9. StopInv' /\ ForkInv' /\ MarkedInv'
  BY <1>1, <1>2, <1>3 DEF StopInv, ForkInv, MarkedInv, RunInv, tableVars
<1>10. WaitInv'
  BY <1>1, <1>2, <1>3, <1>6 DEF WaitInv, RunInv, Waits, TypeOK, Sem!TypeOK, localVars
<1>11. PlaceInv'
  BY <1>1, <1>2, <1>3
     DEF PlaceInv, RunInv, ExecPlaces, JoinPlaces, StartPlaces, ExitPlaces, BlockPlaces, localVars
<1>12. BoundInv' /\ LockInv'
  <2>1. Choosing(at') = Choosing(at) /\ Starting(at') = Starting(at) /\ Holding(at') = Holding(at)
    BY <1>2, SameCounts DEF ExecPlaces
  <2> QED
    BY <1>1, <1>3, <1>7, <2>1 DEF BoundInv, LockInv, RunInv, blockVars
<1>13. CodeInv'
  BY <1>1, <1>2, <1>3, <1>7 DEF CodeInv, RunInv, TypeOK, blockVars, localVars
<1>14. ASSUME PidsAreSlots' PROVE TotalInv' /\ RightInv'
  <2>1. PidsAreSlots /\ RightInv /\ TotalInv' /\ FreshInv'
    BY <1>1, <1>3, <1>14 DEF PidsAreSlots, TotalInv, RightInv, FreshInv, tableVars, blockVars
  <2>2. SlotsInv'
    BY <1>1, <1>4, <2>1 DEF RightInv, SlotsInv, tableVars, blockVars
  <2>3. StartInv'
    BY <1>1, <1>2, <2>1 DEF RightInv, StartInv, StartPlaces, tableVars, blockVars, localVars
  <2>4. ProcessInv'
    BY <1>1, <1>2, <2>1 DEF RightInv, ProcessInv, ExitPlaces, Own, tableVars, blockVars
  <2>5. JoinInv'
    BY <1>1, <1>2, <1>4, <2>1 DEF RightInv, JoinInv, tableVars, localVars
  <2>6. /\ exitCode[block[t]] # NULL
        /\ count[joinsemaphore(block[t])] = 0
        /\ block[t] \notin accepted
        /\ \A u \in Threads : at[u] = "joined" /\ block[u] = block[t] => u = t
    BY <1>2, <1>4, <2>1 DEF RightInv, UnitInv
  <2>7. m = block[t]
    BY <1>2, <2>1, <2>6 DEF m, RightInv, JoinInv
  <2>8. UnitInv'
    <3>1. \A k \in Blocks : k # block[t] => (k \in accepted' <=> k \in accepted)
      BY <1>4
    <3>2. \A u \in Threads : at'[u] = "joined" <=> at[u] = "joined" /\ u # t
      BY <1>2
    <3>3. block[t] \in accepted' /\ \A u \in Threads : ~(at'[u] = "joined" /\ block[u] = block[t])
      BY <1>4, <2>6, <3>2
    <3>4. \A k \in Blocks, u \in Threads : k # block[t] =>
            (at'[u] = "joined" /\ block[u] = k <=> at[u] = "joined" /\ block[u] = k)
      BY <3>2
    <3> QED
      BY <1>1, <1>4, <1>7, <2>1, <2>6, <3>1, <3>3, <3>4 DEF RightInv, UnitInv, blockVars, localVars
  <2>9. AcceptInv'
    <3>1. \A k \in accepted : exitCode[k] \in Threads /\ k \in Blocks
      BY ConstantFacts, <2>1 DEF RightInv, UnitInv, TypeOK
    <3>2. \A u \in Threads : at[u] \in {"leaving", "finished"} => at'[u] \in {"leaving", "finished"}
      BY <1>2
    <3> QED
      BY <1>1, <1>4, <1>7, <2>1, <2>7, <3>1, <3>2 DEF RightInv, AcceptInv, blockVars
  <2>10. LeaveInv'
    BY <1>1, <1>2, <1>4, <2>1 DEF RightInv, LeaveInv, Own, tableVars, localVars
  <2> QED
    BY <2>1, <2>2, <2>3, <2>4, <2>5, <2>8, <2>9, <2>10 DEF RightInv
<1> QED
  BY <1>3, <1>8, <1>9, <1>10, <1>11, <1>12, <1>13, <1>14 DEF RunInv

\* An exit sets the code and gives the one unit to joinsemaphore.
LEMMA CallExitKeeps ==
    ASSUME Inductive, NEW t \in Threads, CallExit(t)
    PROVE  Inductive'
<1> USE DEF Inductive
<1>1. UNCHANGED <<tableVars, made, deleted, file, parentID, id, thread, localVars, machineVars>>
  BY DEF CallExit
<1>2. /\ at \in [Threads -> Places] /\ at[t] = "user" /\ pid[t] # 0
      /\ at' = [at EXCEPT ![t] = "exiting"] /\ "exiting" \in Places
  BY DEF TypeOK, CallExit, GoTo, Places
<1>3. Running /\ Running' /\ RunInv
  BY ConstantFacts, <1>2 DEF StopInv, Running
<1> DEFINE m == Own(t)
<1>4. m \in Blocks /\ exitCode' = [exitCode EXCEPT ![m] = t] /\ Sem!Release(joinsemaphore(m))
  <2>1. pid[t] \in Slots
    BY ConstantFacts DEF TypeOK
  <2> QED
    BY <2>1 DEF TypeOK, CallExit, Usable, Own
<1> HIDE DEF m
<1>5. /\ joinsemaphore(m) \in Semaphores /\ inP' = inP
      /\ count' = [count EXCEPT ![joinsemaphore(m)] = count[joinsemaphore(m)] + 1]
  BY <1>4, SemaphoreFacts DEF Sem!Release
<1>6. /\ \A k \in Blocks : count'[exitsemaphore(k)] = count[exitsemaphore(k)]
      /\ \A k \in Blocks \ {m} : count'[joinsemaphore(k)] = count[joinsemaphore(k)]
      /\ count[joinsemaphore(m)] \in Nat
      /\ count'[joinsemaphore(m)] = count[joinsemaphore(m)] + 1
      /\ count'[semaphore] = count[semaphore]
  BY <1>4, <1>5, SemaphoreFacts DEF TypeOK, Sem!TypeOK
<1>7. /\ exitCode' \in [Blocks -> Threads \cup {NULL}] /\ exitCode'[m] = t /\ t # NULL
      /\ \A k \in Blocks \ {m} : exitCode'[k] = exitCode[k]
  BY <1>4, ConstantFacts DEF TypeOK
<1>8. TypeOK'
  <2>1. Sem!TypeOK'
    BY <1>4, <1>5, SemaphoreTypes DEF TypeOK
  <2>2. at' \in [Threads -> Places]
    BY <1>2
  <2> QED
    BY <1>1, <1>7, <2>1, <2>2 DEF TypeOK, tableVars, localVars, machineVars
<1>9. StopInv' /\ ForkInv' /\ MarkedInv'
  BY <1>1, <1>2, <1>3 DEF StopInv, ForkInv, MarkedInv, RunInv, tableVars, machineVars
<1>10. WaitInv'
  BY <1>1, <1>2, <1>3, <1>5 DEF WaitInv, RunInv, Waits, TypeOK, Sem!TypeOK, localVars
<1>11. PlaceInv'
  BY <1>1, <1>2, <1>3
     DEF PlaceInv, RunInv, ExecPlaces, JoinPlaces, StartPlaces, ExitPlaces, BlockPlaces, localVars, machineVars
<1>12. BoundInv' /\ LockInv'
  <2>1. Choosing(at') = Choosing(at) /\ Starting(at') = Starting(at) /\ Holding(at') = Holding(at)
    BY <1>2, SameCounts DEF ExecPlaces
  <2> QED
    BY <1>1, <1>3, <1>6, <2>1 DEF BoundInv, LockInv, RunInv, machineVars
<1>13. CodeInv'
  <2>1. \A k \in Blocks : count'[joinsemaphore(k)] > 0 => exitCode'[k] # NULL
    BY <1>3, <1>6, <1>7 DEF CodeInv, RunInv
  <2>2. \A u \in Threads : at'[u] \in {"joined", "released"} =>
            u # t /\ block[u] \in Blocks /\ exitCode[block[u]] # NULL
    BY <1>2, <1>3 DEF CodeInv, RunInv, PlaceInv, BlockPlaces, TypeOK
  <2> QED
    BY <1>1, <1>7, <2>1, <2>2 DEF CodeInv, localVars
<1>14. ASSUME PidsAreSlots' PROVE TotalInv' /\ RightInv'
  <2>1. PidsAreSlots /\ RightInv /\ TotalInv' /\ SlotsInv'
    BY <1>1, <1>3, <1>14 DEF PidsAreSlots, TotalInv, RightInv, SlotsInv, tableVars, machineVars
  <2>2. thread[m] = t /\ exitCode[m] = NULL
    <3>1. t \in DOMAIN forked
      BY <1>2, <1>3, <2>1, ConstantFacts DEF RunInv, ForkInv, PidsAreSlots, TypeOK, Threads
    <3> QED
      BY <1>2, <2>1, <3>1 DEF RightInv, ProcessInv, ExitPlaces, m
  <2>3. FreshInv'
    BY <1>1, <1>7, <2>1, <2>2 DEF RightInv, FreshInv
  <2>4. StartInv'
    BY <1>1, <1>2, <2>1 DEF RightInv, StartInv, StartPlaces, tableVars, localVars
  <2>5. ProcessInv'
    <3>1. SUFFICES ASSUME NEW u \in Threads, u \in DOMAIN forked, pid[u] # 0, at'[u] # "finished"
                   PROVE  /\ pid[u] \in reception
                          /\ thread[Own(u)] = u
                          /\ exitCode'[Own(u)] = IF at'[u] \in ExitPlaces THEN u ELSE NULL
      BY <1>1 DEF ProcessInv, Own, tableVars, machineVars
    <3>2. /\ pid[u] \in reception /\ thread[Own(u)] = u
          /\ exitCode[Own(u)] = IF at[u] \in ExitPlaces THEN u ELSE NULL
      BY <1>2, <2>1, <3>1 DEF RightInv, ProcessInv
    <3>3. CASE u = t
      BY <1>2, <1>7, <3>2, <3>3 DEF m, ExitPlaces
    <3>4. CASE u # t
      <4>1. Own(u) # m /\ Own(u) \in Blocks
        BY <2>2, <3>2, <3>4 DEF Own, MarkedInv, TypeOK
      <4> QED
        BY <1>2, <1>7, <3>2, <3>4, <4>1
    <3> QED
      BY <3>3, <3>4
  <2>6. JoinInv'
    BY <1>1, <1>2, <2>1 DEF RightInv, JoinInv, tableVars, localVars, machineVars
  <2>7. /\ count[joinsemaphore(m)] = 0 /\ m \notin accepted
        /\ \A u \in Threads : ~(at[u] = "joined" /\ block[u] = m)
    BY <1>4, <2>1, <2>2 DEF RightInv, UnitInv
  <2>8. UnitInv'
    <3>1. \A u \in Threads : at'[u] = "joined" <=> at[u] = "joined"
      BY <1>2
    <3>2. count'[joinsemaphore(m)] = 1
      BY <1>6, <2>7
    <3> QED
      BY <1>1, <1>6, <1>7, <2>1, <2>7, <3>1, <3>2 DEF RightInv, UnitInv, localVars, machineVars
  <2>9. AcceptInv'
    <3>1. \A k \in accepted : k \in Blocks /\ k # m /\ exitCode[k] \in Threads
      BY ConstantFacts, <2>1, <2>7 DEF RightInv, UnitInv, TypeOK
    <3>2. \A u \in Threads : at[u] \in {"leaving", "finished"} => at'[u] \in {"leaving", "finished"}
      BY <1>2
    <3> QED
      BY <1>1, <1>6, <1>7, <2>1, <3>1, <3>2 DEF RightInv, AcceptInv, machineVars
  <2>10. LeaveInv'
    BY <1>1, <1>2, <2>1 DEF RightInv, LeaveInv, Own, tableVars, localVars, machineVars
  <2> QED
    BY <2>1, <2>3, <2>4, <2>5, <2>6, <2>8, <2>9, <2>10 DEF RightInv
<1> QED
  BY <1>3, <1>8, <1>9, <1>10, <1>11, <1>12, <1>13, <1>14 DEF RunInv

\* The machine stops.
LEMMA StopKeeps ==
    ASSUME Inductive, StopMachine,
           UNCHANGED <<count, inP, tableVars, blockVars, localVars, machineVars>>
    PROVE  Inductive'
<1> USE DEF Inductive, StopMachine, tableVars, blockVars, localVars, machineVars
<1>1. \A t \in Threads : at'[t] = "stopped"
  OBVIOUS
<1>2. ~Running'
  BY ConstantFacts, <1>1 DEF Running
<1>3. TypeOK'
  <2>1. Sem!TypeOK'
    BY DEF TypeOK, Sem!TypeOK
  <2>2. at' \in [Threads -> Places]
    BY DEF Places
  <2> QED
    BY <2>1, <2>2 DEF TypeOK
<1>4. StopInv' /\ MarkedInv' /\ (PidsAreSlots' => TotalInv')
  BY <1>1, <1>2 DEF StopInv, MarkedInv, PidsAreSlots, TotalInv
<1> QED
  BY <1>2, <1>3, <1>4

\* Exec marks a free slot and puts a new block into it.
LEMMA ExecChoosesKeeps ==
    ASSUME Inductive, NEW t \in Threads, ExecChooses(t)
    PROVE  Inductive'
<1> USE DEF Inductive
<1> DEFINE f == FindAndSet
           new == made + 1
<1>1. /\ UNCHANGED <<deleted, file, id, thread, exitCode, program, block, machineVars>>
      /\ made' = new /\ reception' = reception \cup {f}
      /\ blocks' = [blocks EXCEPT ![f] = new]
      /\ parentID' = [parentID EXCEPT ![new] = pid[t]]
      /\ totalProcesses' = totalProcesses + 1
      /\ slot' = [slot EXCEPT ![t] = f]
  BY DEF ExecChooses
<1>2. f \in Slots /\ f \notin reception
  BY FindAndSetFacts DEF ExecChooses
<1> HIDE DEF f
<1>3. /\ at \in [Threads -> Places] /\ at[t] = "execHolding"
      /\ at' = [at EXCEPT ![t] = "execChosen"] /\ "execChosen" \in Places
  BY DEF TypeOK, ExecChooses, GoTo, Places
<1>4. Running /\ Running' /\ RunInv
  BY ConstantFacts, <1>3 DEF StopInv, Running
<1>5. /\ Choosing(at) \in Nat /\ Choosing(at) >= 1 /\ Choosing(at') = Choosing(at) - 1
      /\ Starting(at) \in Nat /\ Starting(at') = Starting(at) + 1
      /\ Holding(at) \in Nat /\ Holding(at') = Holding(at) - 1
  <2>1. Counted(at, at', at[t], "execChosen")
    BY <1>3, PlaceCounts, Zenon
  <2> QED
    BY <1>3, <2>1 DEF Counted, One, StartPlaces
<1>6. made \in Nat /\ new \in Blocks /\ new # 0 /\ new \in Int /\ Len(forked) \in Nat
  <2>1. made \in Nat /\ MaxExecs \in Nat /\ Len(forked) \in Nat
    BY ConstantFacts DEF TypeOK, Blocks
  <2>2. made + Choosing(at) <= MaxExecs
    BY <1>4 DEF RunInv, BoundInv
  <2> QED
    BY <1>5, <2>1, <2>2 DEF Blocks
<1>7. /\ semaphore \in Semaphores /\ inP' = inP /\ Sem!Release(semaphore)
      /\ count' = [count EXCEPT ![semaphore] = count[semaphore] + 1]
  BY SemaphoreFacts DEF ExecChooses, Sem!Release
<1>8. /\ \A k \in Blocks : count'[joinsemaphore(k)] = count[joinsemaphore(k)]
      /\ \A k \in Blocks : count'[exitsemaphore(k)] = count[exitsemaphore(k)]
      /\ count[semaphore] \in Nat
      /\ count'[semaphore] = count[semaphore] + 1
  BY <1>7, SemaphoreFacts DEF TypeOK, Sem!TypeOK
<1>9. TypeOK'
  <2>1. Sem!TypeOK'
    BY <1>7, SemaphoreTypes DEF TypeOK
  <2>2. /\ at' \in [Threads -> Places] /\ slot' \in [Threads -> Slots \cup {NULL}]
        /\ reception' \subseteq Slots /\ totalProcesses' \in Int
    BY <1>1, <1>2, <1>3 DEF TypeOK
  <2>3. pid[t] \in Slots
    BY ConstantFacts DEF TypeOK
  <2>4. /\ blocks' \in [Slots -> Blocks \cup {NULL}] /\ made' \in Blocks
        /\ parentID' \in [Blocks -> Slots \cup {-1}]
    BY <1>1, <1>2, <1>6, <2>3 DEF TypeOK
  <2> QED
    BY <1>1, <2>1, <2>2, <2>4 DEF TypeOK, machineVars
<1>10. StopInv' /\ ForkInv'
  BY <1>1, <1>3, <1>4 DEF StopInv, ForkInv, RunInv, machineVars
<1>11. MarkedInv'
  <2>1. new # NULL
    BY <1>6, ConstantFacts
  <2> QED
    BY <1>1, <1>2, <2>1 DEF MarkedInv, TypeOK
<1>12. WaitInv'
  BY <1>1, <1>3, <1>4, <1>7 DEF WaitInv, RunInv, Waits, TypeOK, Sem!TypeOK
<1>13. PlaceInv'
  <2>1. f # NULL
    BY <1>2, ConstantFacts
  <2> QED
    BY <1>1, <1>3, <1>4, <2>1
       DEF TypeOK, PlaceInv, RunInv, ExecPlaces, JoinPlaces, StartPlaces, ExitPlaces, BlockPlaces, machineVars
<1>14. BoundInv' /\ LockInv'
  <2>1. MaxExecs \in Int /\ forked' = forked
    BY <1>1, ConstantFacts DEF machineVars
  <2>2. BoundInv'
    BY <1>1, <1>4, <1>5, <1>6, <2>1 DEF BoundInv, RunInv
  <2>3. count'[semaphore] + Holding(at') = 1
    BY <1>4, <1>5, <1>8 DEF LockInv, RunInv
  <2> QED
    BY <2>2, <2>3 DEF LockInv
<1>15. CodeInv'
  BY <1>1, <1>3, <1>4, <1>8 DEF CodeInv, RunInv, TypeOK
<1>16. ASSUME PidsAreSlots' PROVE TotalInv' /\ RightInv'
  <2>1. PidsAreSlots /\ RightInv /\ TotalInv
    BY <1>1, <1>4, <1>16 DEF PidsAreSlots, machineVars
  <2>2. TotalInv'
    <3>1. IsFiniteSet(reception) /\ Cardinality(reception) \in Nat
      BY SlotsAreFinite DEF TypeOK
    <3>2. Cardinality(reception \cup {f}) = Cardinality(reception) + 1
      BY <1>2, <3>1, FS_AddElement
    <3>3. MAX_PROCESS \in Int
      BY ConstantFacts
    <3> QED
      BY <1>1, <2>1, <3>1, <3>2, <3>3 DEF TotalInv
  <2>3. \A s \in Slots : blocks'[s] = IF s = f THEN new ELSE blocks[s]
    BY <1>1, <1>2 DEF TypeOK
  <2>4. \A s \in Slots : blocks[s] # new
    BY <1>6, <2>1, ConstantFacts DEF RightInv, SlotsInv, TypeOK
  <2>5. SlotsInv'
    <3>1. deleted' = {} /\ parentID'[0] = -1
      BY <1>1, <1>6, <2>1, ConstantFacts DEF RightInv, SlotsInv, TypeOK
    <3>2. \A s \in Slots : blocks'[s] # NULL => blocks'[s] <= made'
      <4>1. \A s \in Slots : blocks[s] # NULL => blocks[s] \in Int /\ blocks[s] <= made
        BY <2>1, ConstantFacts DEF RightInv, SlotsInv, TypeOK
      <4> QED
        BY <1>1, <1>6, <2>3, <4>1
    <3>3. \A s, r \in Slots : blocks'[s] = blocks'[r] /\ blocks'[s] # NULL => s = r
      BY <2>1, <2>3, <2>4 DEF RightInv, SlotsInv
    <3>4. \A s \in Slots \ reception' : blocks'[s] \in {NULL, 0} \cup accepted'
      BY <1>1, <2>1, <2>3 DEF RightInv, SlotsInv, machineVars
    <3> QED
      BY <3>1, <3>2, <3>3, <3>4 DEF SlotsInv
  <2>6. FreshInv'
    BY <1>1, <1>6, <2>1, ConstantFacts DEF RightInv, FreshInv
  <2>7. thread[new] = NULL
    BY <1>6, <2>1 DEF RightInv, FreshInv
  <2>8. \A s \in reception : s # f /\ blocks'[s] = blocks[s] /\ s \in Slots
    BY <1>2, <2>3 DEF TypeOK
  <2>9. StartInv'
    <3>1. slot'[t] = f /\ at'[t] = "execChosen" /\ blocks'[f] = new
      BY <1>1, <1>2, <1>3, <2>3 DEF TypeOK
    <3>2. \A u \in Threads : u # t => slot'[u] = slot[u] /\ at'[u] = at[u]
      BY <1>1, <1>3 DEF TypeOK
    <3>3. \A u \in Threads : u # t /\ at[u] \in StartPlaces => slot[u] \in reception /\ slot[u] # f
      BY <2>1, <2>8 DEF RightInv, StartInv
    <3>4. SUFFICES ASSUME NEW u \in Threads, at'[u] \in StartPlaces
                   PROVE  /\ slot'[u] \in reception'
                          /\ thread[blocks'[slot'[u]]] = NULL
                          /\ at'[u] # "execChosen" => block[u] = blocks'[slot'[u]]
                          /\ \A v \in Threads : at'[v] \in StartPlaces /\ slot'[v] = slot'[u] => v = u
      BY <1>1 DEF StartInv
    <3>5. CASE u = t
      BY <1>1, <2>7, <3>1, <3>2, <3>3, <3>5
    <3>6. CASE u # t
      <4>1. /\ slot[u] \in reception /\ slot[u] # f /\ thread[blocks[slot[u]]] = NULL
            /\ at[u] # "execChosen" => block[u] = blocks[slot[u]]
            /\ \A v \in Threads : at[v] \in StartPlaces /\ slot[v] = slot[u] => v = u
        BY <2>1, <3>2, <3>3, <3>4, <3>6 DEF RightInv, StartInv
      <4> QED
        BY <1>1, <2>8, <3>1, <3>2, <3>6, <4>1
    <3> QED
      BY <3>5, <3>6
  <2>10. ProcessInv'
    BY <1>1, <1>3, <2>1, <2>8 DEF RightInv, ProcessInv, ExitPlaces, Own, machineVars
  <2>11. JoinInv'
    <3>1. \A u \in Threads : at'[u] \in JoinPlaces =>
            at'[u] = at[u] /\ slot'[u] = slot[u] /\ slot[u] \in Slots
      BY <1>1, <1>3, <1>4 DEF TypeOK, JoinPlaces, RunInv, PlaceInv
    <3>2. ASSUME NEW u \in Threads, at'[u] \in {"countWait", "counting", "counted"}
          PROVE  blocks'[slot'[u]] \notin {NULL, 0}
      BY <1>6, <2>1, <2>3, <3>1, <3>2, ConstantFacts DEF RightInv, JoinInv, JoinPlaces
    <3>3. ASSUME NEW u \in Threads, at'[u] \in {"joinWait", "joined"}
          PROVE  block[u] # 0 /\ (block[u] \in accepted \/ blocks'[slot'[u]] = block[u])
      <4>1. /\ at[u] \in {"joinWait", "joined"} /\ slot'[u] = slot[u] /\ slot[u] \in Slots
            /\ block[u] # NULL
        BY <1>4, <3>1, <3>3 DEF JoinPlaces, BlockPlaces, RunInv, PlaceInv
      <4>2. block[u] # 0 /\ (block[u] \in accepted \/ blocks[slot[u]] = block[u])
        BY <2>1, <4>1 DEF RightInv, JoinInv
      <4>3. CASE slot[u] = f
        BY <1>2, <2>1, <4>1, <4>2, <4>3 DEF RightInv, SlotsInv
      <4>4. CASE slot[u] # f
        BY <2>3, <4>1, <4>2, <4>4
      <4> QED
        BY <4>3, <4>4
    <3> QED
      BY <1>1, <3>2, <3>3 DEF JoinInv, machineVars
  <2>12. UnitInv'
    BY <1>1, <1>3, <1>8, <2>1 DEF RightInv, UnitInv, machineVars
  <2>13. AcceptInv'
    <3>1. \A k \in accepted : exitCode[k] \in Threads /\ k \in Blocks
      BY ConstantFacts, <2>1 DEF RightInv, UnitInv, TypeOK
    <3>2. \A u \in Threads : at[u] \in {"leaving", "finished"} => at'[u] \in {"leaving", "finished"}
      BY <1>3
    <3> QED
      BY <1>1, <1>8, <2>1, <3>1, <3>2 DEF RightInv, AcceptInv, machineVars
  <2>14. LeaveInv'
    <3>1. \A u \in Threads : at'[u] \in {"exitWait", "leaving", "finished"} => at'[u] = at[u]
      BY <1>3
    <3>2. \A u \in Threads : at[u] \in {"exitWait", "leaving"} => pid[u] \in reception
      BY <1>4, <2>1, ExitingFacts DEF ExitPlaces
    <3> QED
      BY <1>1, <2>1, <2>8, <3>1, <3>2 DEF RightInv, LeaveInv, Own, machineVars
  <2> QED
    BY <2>2, <2>5, <2>6, <2>9, <2>10, <2>11, <2>12, <2>13, <2>14 DEF RightInv
<1> QED
  BY <1>4, <1>9, <1>10, <1>11, <1>12, <1>13, <1>14, <1>15, <1>16 DEF RunInv

\* What the fork of thread new by thread t does to the counts.
LEMMA ForkCounts ==
    ASSUME at \in [Threads -> Places], NEW t \in Threads, NEW new \in Threads,
           at[t] = "execMutex", at[new] = "none",
           at' = [at EXCEPT ![t] = "execForked", ![new] = "new"]
    PROVE  /\ Choosing(at') = Choosing(at) /\ Holding(at') = Holding(at)
           /\ Starting(at) \in Nat /\ Starting(at) >= 1 /\ Starting(at') = Starting(at) - 1
<1> PICK g : g = [at EXCEPT ![t] = "execForked"]
  OBVIOUS
<1>1. /\ g \in [Threads -> Places] /\ at' = [g EXCEPT ![new] = "new"] /\ g[new] = "none"
      /\ "execForked" \in Places /\ "new" \in Places
  BY DEF Places
<1>2. Counted(at, g, at[t], "execForked")
  BY <1>1, PlaceCounts, Zenon
<1>3. Counted(g, at', g[new], "new")
  BY <1>1, PlaceCounts, Zenon
<1> QED
  BY <1>1, <1>2, <1>3 DEF Counted, One, StartPlaces

\* Exec forks the thread of its block, which nobody else has started.
LEMMA ExecForksKeeps ==
    ASSUME Inductive, NEW t \in Threads, ExecForks(t)
    PROVE  Inductive'
<1> USE DEF Inductive
<1> DEFINE k == block[t]
           new == Len(forked) + 1
<1>1. /\ UNCHANGED <<count, inP, tableVars, made, deleted, parentID, exitCode, localVars, pid, accepted>>
      /\ id' = [id EXCEPT ![k] = slot[t]]
      /\ file' = [file EXCEPT ![k] = program[t]]
      /\ thread' = [thread EXCEPT ![k] = new]
      /\ forked' = Append(forked, slot[t])
  BY DEF ExecForks
<1>2. /\ at \in [Threads -> Places] /\ at[t] = "execMutex"
      /\ at' = [at EXCEPT ![t] = "execForked", ![new] = "new"]
  BY DEF TypeOK, ExecForks
<1>3. Running /\ RunInv
  BY ConstantFacts, <1>2 DEF StopInv, Running
<1>4. k \in Blocks /\ slot[t] \in Slots /\ program[t] \in Programs
  BY <1>2, <1>3 DEF TypeOK, RunInv, PlaceInv, BlockPlaces, StartPlaces, ExecPlaces
<1>5. Len(forked) \in Nat /\ new \in Threads
  <2>2. Starting(at) \in Nat /\ Starting(at) >= 1
    <3>1. {u \in Threads : at[u] \in StartPlaces} \in SUBSET Threads
      OBVIOUS
    <3>2. t \in {u \in Threads : at[u] \in StartPlaces}
      BY <1>2 DEF StartPlaces
    <3>3. Starting(at) \in Nat /\ Starting(at) # 0
      BY <3>1, <3>2, ThreadsAreFinite, FS_EmptySet DEF Starting, CountAt
    <3> QED
      BY <3>3
  <2>3. Len(forked) \in Nat /\ made \in Nat /\ made <= MaxExecs /\ MaxExecs \in Nat
    BY ConstantFacts DEF TypeOK, Blocks
  <2>4. Len(forked) + Starting(at) <= made
    BY <1>3 DEF RunInv, BoundInv
  <2> QED
    BY <2>2, <2>3, <2>4 DEF Threads
<1>6. /\ at[new] = "none" /\ new # t
      /\ Len(forked') = new /\ DOMAIN forked' = 1..new /\ DOMAIN forked = 1..Len(forked)
      /\ forked'[new] = slot[t] /\ \A u \in DOMAIN forked : forked'[u] = forked[u]
      /\ forked' \in Seq(Slots) /\ new \in Int
  <2>1. at[new] = "none"
    BY <1>3, <1>5 DEF RunInv, ForkInv
  <2>2. forked \in Seq(Slots)
    BY DEF TypeOK
  <2> QED
    BY <1>1, <1>2, <1>4, <1>5, <2>1, <2>2
<1>7. /\ at'[t] = "execForked" /\ at'[new] = "new"
      /\ \A u \in Threads \ {t, new} : at'[u] = at[u]
  BY <1>2, <1>5, <1>6
<1> HIDE DEF new, k
<1>8. Running'
  BY <1>3, <1>7, ConstantFacts DEF Running
<1>9. TypeOK'
  <2>1. Sem!TypeOK'
    BY <1>1 DEF TypeOK, Sem!TypeOK
  <2>2. at' \in [Threads -> Places]
    <3>1. "execForked" \in Places /\ "new" \in Places
      BY DEF Places
    <3> QED
      BY <1>2, <3>1
  <2>3. /\ id' \in [Blocks -> Slots \cup {-1, Garbage}]
        /\ file' \in [Blocks -> Programs \cup {NULL, Garbage}]
        /\ thread' \in [Blocks -> Threads \cup {NULL, Garbage}]
    BY <1>1, <1>4, <1>5 DEF TypeOK
  <2> QED
    BY <1>1, <1>6, <2>1, <2>2, <2>3 DEF TypeOK, tableVars, localVars
<1>10. StopInv' /\ MarkedInv'
  BY <1>1, <1>3, <1>6, <1>7, <1>8 DEF StopInv, MarkedInv, tableVars
<1>11. ForkInv'
  <2>1. SUFFICES ASSUME NEW u \in Threads PROVE at'[u] = "none" <=> u > Len(forked')
    BY DEF ForkInv
  <2>2. u \in Int /\ (at[u] = "none" <=> u > Len(forked))
    BY <1>3, ConstantFacts DEF RunInv, ForkInv
  <2>3. t <= Len(forked) /\ t \in Int
    BY <1>2, <1>3, <1>5, ConstantFacts DEF RunInv, ForkInv
  <2> QED
    BY <1>5, <1>6, <1>7, <2>2, <2>3 DEF new
<1>12. WaitInv'
  <2>1. \A u \in Threads : at[u] \in {"execWait", "mutexWait", "countWait", "joinWait", "exitWait"} => at'[u] = at[u]
    BY <1>2, <1>6, <1>7
  <2> QED
    BY <1>1, <1>3, <2>1 DEF WaitInv, RunInv, Waits, TypeOK, Sem!TypeOK, localVars
<1>13. PlaceInv'
  <2>1. \A u \in Threads : /\ at'[u] \in ExecPlaces \cup StartPlaces \cup JoinPlaces \cup ExitPlaces \cup {"finished"}
                               => at'[u] = at[u]
                           /\ at'[u] \in BlockPlaces => at'[u] = at[u] \/ u = t
    BY <1>2, <1>6, <1>7 DEF ExecPlaces, JoinPlaces, StartPlaces, ExitPlaces, BlockPlaces
  <2>2. block[t] # NULL
    BY <1>4, ConstantFacts DEF k
  <2> QED
    BY <1>1, <1>3, <2>1, <2>2 DEF PlaceInv, RunInv, localVars
<1>14. BoundInv' /\ LockInv'
  <2>1. /\ Choosing(at') = Choosing(at) /\ Holding(at') = Holding(at)
        /\ Starting(at) \in Nat /\ Starting(at) >= 1 /\ Starting(at') = Starting(at) - 1
    BY <1>2, <1>5, <1>6, ForkCounts
  <2>2. made' = made /\ count' = count /\ made \in Int
    BY <1>1, ConstantFacts DEF TypeOK
  <2>3. Len(forked') + Starting(at') = Len(forked) + Starting(at)
    BY <1>5, <1>6, <2>1 DEF new
  <2> QED
    BY <1>3, <2>1, <2>2, <2>3 DEF BoundInv, LockInv, RunInv
<1>15. CodeInv'
  <2>1. \A u \in Threads : at'[u] \in {"joined", "released"} => at'[u] = at[u]
    BY <1>2, <1>7
  <2> QED
    BY <1>1, <1>3, <2>1 DEF CodeInv, RunInv, localVars
<1>16. ASSUME PidsAreSlots' PROVE TotalInv' /\ RightInv'
  <2>1. PidsAreSlots /\ pid[new] = slot[t]
    <3>1. pid[0] = 0 /\ \A u \in 1..new : pid[u] = forked'[u]
      BY <1>1, <1>6, <1>16 DEF PidsAreSlots
    <3> QED
      BY <1>5, <1>6, <3>1 DEF PidsAreSlots, new
  <2>2. RightInv /\ TotalInv /\ TotalInv'
    BY <1>1, <1>3, <2>1 DEF TotalInv, tableVars
  <2>3. /\ slot[t] \in reception /\ k = blocks[slot[t]] /\ thread[k] = NULL
        /\ \A u \in Threads : at[u] \in StartPlaces /\ slot[u] = slot[t] => u = t
    BY <1>2, <2>2 DEF RightInv, StartInv, StartPlaces, k
  <2>4. /\ thread'[k] = new /\ new # NULL
        /\ \A j \in Blocks \ {k} : thread'[j] = thread[j]
    BY <1>1, <1>4, <1>6, ConstantFacts DEF TypeOK
  <2>5. SlotsInv'
    BY <1>1, <2>2 DEF RightInv, SlotsInv, tableVars
  <2>6. FreshInv'
    <3>1. k <= made /\ exitCode[k] = NULL /\ k \in Int /\ made \in Int
      BY <1>4, <2>2, <2>3, ConstantFacts DEF RightInv, SlotsInv, FreshInv, TypeOK
    <3>2. \A j \in Blocks : j > made => j # k
      BY <3>1
    <3> QED
      BY <1>1, <2>2, <2>4, <3>2 DEF RightInv, FreshInv
  <2>7. StartInv'
    <3>1. SUFFICES ASSUME NEW u \in Threads, at'[u] \in StartPlaces
                   PROVE  /\ slot[u] \in reception
                          /\ thread'[blocks[slot[u]]] = NULL
                          /\ at'[u] # "execChosen" => block[u] = blocks[slot[u]]
                          /\ \A v \in Threads : at'[v] \in StartPlaces /\ slot[v] = slot[u] => v = u
      BY <1>1 DEF StartInv, tableVars, localVars
    <3>2. \A v \in Threads : at'[v] \in StartPlaces => v # t /\ at'[v] = at[v]
      BY <1>7 DEF StartPlaces
    <3>3. /\ slot[u] \in reception /\ slot[u] # slot[t] /\ thread[blocks[slot[u]]] = NULL
          /\ at[u] # "execChosen" => block[u] = blocks[slot[u]]
          /\ \A v \in Threads : at[v] \in StartPlaces /\ slot[v] = slot[u] => v = u
      BY <2>2, <2>3, <3>1, <3>2 DEF RightInv, StartInv
    <3>4. blocks[slot[u]] \in Blocks /\ blocks[slot[u]] # k
      BY <1>4, <2>2, <2>3, <3>3 DEF RightInv, SlotsInv, MarkedInv, TypeOK
    <3> QED
      BY <2>4, <3>1, <3>2, <3>3, <3>4
  <2>8. ProcessInv'
    <3>1. SUFFICES ASSUME NEW u \in Threads, u \in 1..new, pid[u] # 0, at'[u] # "finished"
                   PROVE  /\ pid[u] \in reception
                          /\ thread'[Own(u)] = u
                          /\ exitCode[Own(u)] = IF at'[u] \in ExitPlaces THEN u ELSE NULL
      BY <1>1, <1>6 DEF ProcessInv, Own, tableVars
    <3>2. CASE u = new
      <4>1. Own(u) = k /\ pid[u] \in reception
        BY <2>1, <2>3, <3>2 DEF Own
      <4>2. exitCode[k] = NULL
        BY <1>4, <2>2, <2>3 DEF RightInv, FreshInv
      <4> QED
        BY <1>7, <2>4, <3>2, <4>1, <4>2 DEF ExitPlaces
    <3>3. CASE u # new
      <4>1. u \in DOMAIN forked /\ (at'[u] = at[u] \/ u = t)
        BY <1>5, <1>6, <1>7, <3>1, <3>3 DEF new
      <4>2. at[u] # "finished" /\ (at'[u] \in ExitPlaces <=> at[u] \in ExitPlaces)
        BY <1>2, <1>7, <3>1, <4>1 DEF ExitPlaces
      <4>3. /\ pid[u] \in reception /\ thread[Own(u)] = u
            /\ exitCode[Own(u)] = IF at[u] \in ExitPlaces THEN u ELSE NULL
        BY <2>2, <3>1, <4>1, <4>2 DEF RightInv, ProcessInv
      <4>4. Own(u) \in Blocks /\ Own(u) # k
        <5>1. u # NULL
          BY ConstantFacts
        <5> QED
          BY <2>3, <4>3, <5>1 DEF Own, MarkedInv, TypeOK
      <4> QED
        BY <2>4, <4>2, <4>3, <4>4
    <3> QED
      BY <3>2, <3>3
  <2>9. JoinInv'
    <3>1. \A u \in Threads : at'[u] \in {"countWait", "counting", "counted", "joinWait", "joined"} => at'[u] = at[u]
      BY <1>2, <1>7
    <3> QED
      BY <1>1, <2>2, <3>1 DEF RightInv, JoinInv, tableVars, localVars
  <2>10. UnitInv'
    <3>1. \A u \in Threads : at'[u] = "joined" <=> at[u] = "joined"
      BY <1>2, <1>6, <1>7
    <3> QED
      BY <1>1, <2>2, <3>1 DEF RightInv, UnitInv, localVars
  <2>11. AcceptInv'
    <3>1. \A j \in accepted : exitCode[j] \in Threads
      BY ConstantFacts, <2>2 DEF RightInv, UnitInv, TypeOK
    <3>2. \A u \in Threads : at[u] \in {"leaving", "finished"} => at'[u] \in {"leaving", "finished"}
      BY <1>2, <1>6, <1>7
    <3> QED
      BY <1>1, <2>2, <3>1, <3>2 DEF RightInv, AcceptInv
  <2>12. LeaveInv'
    <3>1. \A u \in Threads : at'[u] \in {"exitWait", "leaving", "finished"} => at'[u] = at[u]
      BY <1>2, <1>7
    <3> QED
      BY <1>1, <2>2, <3>1 DEF RightInv, LeaveInv, Own, tableVars, localVars
  <2> QED
    BY <2>2, <2>5, <2>6, <2>7, <2>8, <2>9, <2>10, <2>11, <2>12 DEF RightInv
<1> QED
  BY <1>8, <1>9, <1>10, <1>11, <1>12, <1>13, <1>14, <1>15, <1>16 DEF RunInv

\* A process that finishes gives up its slot, but its block stays there.
LEMMA FinishKeeps ==
    ASSUME Inductive, NEW t \in Threads, Finish(t)
    PROVE  Inductive'
<1> USE DEF Inductive
<1>1. /\ UNCHANGED <<count, inP, blocks, made, deleted, parentID, id, thread, exitCode, localVars, machineVars>>
      /\ totalProcesses' = totalProcesses - 1
      /\ reception' = reception \ {pid[t]}
      /\ file' = [file EXCEPT ![Own(t)] = Garbage]
  BY DEF Finish
<1>2. /\ at \in [Threads -> Places] /\ at[t] = "leaving"
      /\ at' = [at EXCEPT ![t] = "finished"] /\ "finished" \in Places
  BY DEF TypeOK, Finish, GoTo, Places
<1>3. Running /\ Running' /\ RunInv
  BY ConstantFacts, <1>2 DEF StopInv, Running
<1>4. TypeOK'
  <2>1. Sem!TypeOK'
    BY <1>1 DEF TypeOK, Sem!TypeOK
  <2>2. at' \in [Threads -> Places] /\ reception' \subseteq Slots /\ totalProcesses' \in Int
    BY <1>1, <1>2 DEF TypeOK
  <2>3. file' \in [Blocks -> Programs \cup {NULL, Garbage}]
    BY <1>1 DEF TypeOK
  <2> QED
    BY <1>1, <2>1, <2>2, <2>3 DEF TypeOK, localVars, machineVars
<1>5. StopInv' /\ MarkedInv' /\ ForkInv'
  BY <1>1, <1>2, <1>3 DEF StopInv, MarkedInv, ForkInv, RunInv, machineVars
<1>6. WaitInv' /\ CodeInv'
  <2>1. WaitInv'
    BY <1>1, <1>2, <1>3 DEF WaitInv, RunInv, Waits, TypeOK, Sem!TypeOK, localVars
  <2>2. CodeInv'
    BY <1>1, <1>2, <1>3 DEF CodeInv, RunInv, localVars
  <2> QED
    BY <2>1, <2>2
<1>7. PlaceInv'
  BY <1>1, <1>2, <1>3
     DEF PlaceInv, RunInv, ExecPlaces, JoinPlaces, StartPlaces, ExitPlaces, BlockPlaces, localVars, machineVars
<1>8. BoundInv' /\ LockInv'
  <2>1. Choosing(at') = Choosing(at) /\ Starting(at') = Starting(at) /\ Holding(at') = Holding(at)
    BY <1>2, SameCounts DEF ExecPlaces
  <2> QED
    BY <1>1, <1>3, <2>1 DEF BoundInv, LockInv, RunInv, machineVars
<1>9. ASSUME PidsAreSlots' PROVE TotalInv' /\ RightInv'
  <2>1. PidsAreSlots /\ RightInv /\ TotalInv
    BY <1>1, <1>3, <1>9 DEF PidsAreSlots, machineVars
  <2>2. /\ pid[t] \in reception /\ pid[t] \in Slots /\ Own(t) = blocks[pid[t]]
        /\ Own(t) \in Blocks /\ thread[Own(t)] = t /\ t # NULL
    BY <1>2, <1>3, <2>1, ExitingFacts, ConstantFacts DEF ExitPlaces, Own
  <2>3. TotalInv'
    <3>1. IsFiniteSet(reception) /\ Cardinality(reception) \in Nat
      BY SlotsAreFinite DEF TypeOK
    <3>2. Cardinality(reception \ {pid[t]}) = Cardinality(reception) - 1
      BY <2>2, <3>1, FS_RemoveElement
    <3>3. MAX_PROCESS \in Int
      BY ConstantFacts
    <3> QED
      BY <1>1, <2>1, <3>1, <3>2, <3>3 DEF TotalInv
  <2>4. SlotsInv'
    <3>1. blocks[pid[t]] \in accepted
      BY <1>2, <2>1, <2>2 DEF RightInv, LeaveInv
    <3>2. \A s \in Slots \ reception' : blocks[s] \in {NULL, 0} \cup accepted
      BY <1>1, <2>1, <3>1 DEF RightInv, SlotsInv
    <3> QED
      BY <1>1, <2>1, <3>2 DEF RightInv, SlotsInv, machineVars
  <2>5. FreshInv'
    BY <1>1, <2>1 DEF RightInv, FreshInv
  <2>6. StartInv'
    <3>1. \A u \in Threads : at'[u] \in StartPlaces => at'[u] = at[u]
      BY <1>2 DEF StartPlaces
    <3>2. \A u \in Threads : at[u] \in StartPlaces => slot[u] \in reception /\ slot[u] # pid[t]
      BY <2>1, <2>2 DEF RightInv, StartInv
    <3> QED
      BY <1>1, <2>1, <3>1, <3>2 DEF RightInv, StartInv, localVars
  <2>7. ProcessInv'
    <3>1. SUFFICES ASSUME NEW u \in Threads, u \in DOMAIN forked, pid[u] # 0, at'[u] # "finished"
                   PROVE  /\ pid[u] \in reception'
                          /\ thread[Own(u)] = u
                          /\ exitCode[Own(u)] = IF at'[u] \in ExitPlaces THEN u ELSE NULL
      BY <1>1 DEF ProcessInv, Own, machineVars
    <3>2. u # t /\ at'[u] = at[u]
      BY <1>2, <3>1
    <3>3. /\ pid[u] \in reception /\ thread[Own(u)] = u
          /\ exitCode[Own(u)] = IF at[u] \in ExitPlaces THEN u ELSE NULL
      BY <2>1, <3>1, <3>2 DEF RightInv, ProcessInv
    <3>4. pid[u] # pid[t]
      BY <2>2, <3>2, <3>3 DEF Own
    <3> QED
      BY <1>1, <3>2, <3>3, <3>4
  <2>8. JoinInv'
    BY <1>1, <1>2, <2>1 DEF RightInv, JoinInv, localVars, machineVars
  <2>9. UnitInv'
    BY <1>1, <1>2, <2>1 DEF RightInv, UnitInv, localVars, machineVars
  <2>10. AcceptInv'
    <3>1. \A j \in accepted : exitCode[j] \in Threads
      BY ConstantFacts, <2>1 DEF RightInv, UnitInv, TypeOK
    <3>2. \A u \in Threads : at[u] \in {"leaving", "finished"} => at'[u] \in {"leaving", "finished"}
      BY <1>2
    <3> QED
      BY <1>1, <2>1, <3>1, <3>2 DEF RightInv, AcceptInv, machineVars
  <2>11. LeaveInv'
    BY <1>1, <1>2, <2>1 DEF RightInv, LeaveInv, Own, localVars, machineVars
  <2> QED
    BY <2>3, <2>4, <2>5, <2>6, <2>7, <2>8, <2>9, <2>10, <2>11 DEF RightInv
<1> QED
  BY <1>3, <1>4, <1>5, <1>6, <1>7, <1>8, <1>9 DEF RunInv

\* A block without a thread is removed only by a process with a wrong pid.
LEMMA RemoveUnstartedKeeps ==
    ASSUME Inductive, NEW t \in Threads, RemoveUnstarted(t)
    PROVE  Inductive'
<1> USE DEF Inductive
<1>1. /\ UNCHANGED <<count, inP, made, file, parentID, id, thread, exitCode, machineVars>>
      /\ totalProcesses' = totalProcesses - 1
      /\ reception' = reception \ {pid[t]}
      /\ deleted' = deleted \cup {Own(t)}
      /\ blocks' = [blocks EXCEPT ![pid[t]] = NULL]
      /\ program' = [program EXCEPT ![t] = NULL]
      /\ slot' = [slot EXCEPT ![t] = NULL]
      /\ block' = [block EXCEPT ![t] = NULL]
  BY DEF RemoveUnstarted, ReturnToUser
<1>2. /\ at \in [Threads -> Places] /\ at[t] = "leaving"
      /\ at' = [at EXCEPT ![t] = "user"] /\ "user" \in Places
  BY DEF TypeOK, RemoveUnstarted, ReturnToUser, GoTo, Places
<1>3. Running /\ Running' /\ RunInv
  BY ConstantFacts, <1>2 DEF StopInv, Running
<1>4. TypeOK'
  <2>1. Sem!TypeOK'
    BY <1>1 DEF TypeOK, Sem!TypeOK
  <2>2. pid[t] \in Slots /\ Own(t) \in Blocks
    <3>1. pid[t] \in Slots
      BY ConstantFacts DEF TypeOK
    <3> QED
      BY <3>1 DEF TypeOK, Own, Usable, RemoveUnstarted
  <2>3. /\ at' \in [Threads -> Places] /\ reception' \subseteq Slots /\ totalProcesses' \in Int
        /\ deleted' \subseteq Blocks /\ blocks' \in [Slots -> Blocks \cup {NULL}]
    BY <1>1, <1>2, <2>2 DEF TypeOK
  <2>4. /\ program' \in [Threads -> Programs \cup {NULL}]
        /\ slot' \in [Threads -> Slots \cup {NULL}]
        /\ block' \in [Threads -> Blocks \cup {NULL}]
    BY <1>1 DEF TypeOK
  <2> QED
    BY <1>1, <2>1, <2>3, <2>4 DEF TypeOK, machineVars
<1>5. StopInv' /\ ForkInv'
  BY <1>1, <1>2, <1>3 DEF StopInv, ForkInv, RunInv, machineVars
<1>6. MarkedInv'
  BY <1>1 DEF MarkedInv, TypeOK
<1>7. WaitInv'
  BY <1>1, <1>2, <1>3 DEF WaitInv, RunInv, Waits, TypeOK, Sem!TypeOK
<1>8. CodeInv'
  BY <1>1, <1>2, <1>3 DEF CodeInv, RunInv, TypeOK
<1>9. PlaceInv'
  BY <1>1, <1>2, <1>3
     DEF TypeOK, PlaceInv, RunInv, ExecPlaces, JoinPlaces, StartPlaces, ExitPlaces, BlockPlaces, machineVars
<1>10. BoundInv' /\ LockInv'
  <2>1. Choosing(at') = Choosing(at) /\ Starting(at') = Starting(at) /\ Holding(at') = Holding(at)
    BY <1>2, SameCounts DEF ExecPlaces
  <2> QED
    BY <1>1, <1>3, <2>1 DEF BoundInv, LockInv, RunInv, machineVars
<1>11. ~PidsAreSlots'
  <2>1. SUFFICES ASSUME PidsAreSlots PROVE FALSE
    BY <1>1 DEF PidsAreSlots, machineVars
  <2>2. thread[Own(t)] = t
    BY <1>2, <1>3, <2>1, ExitingFacts DEF ExitPlaces
  <2> QED
    BY <2>2, ConstantFacts DEF RemoveUnstarted
<1> QED
  BY <1>3, <1>4, <1>5, <1>6, <1>7, <1>8, <1>9, <1>10, <1>11 DEF RunInv

\* The first thread runs, and the table is empty but for the first block.
LEMMA InitialStates ==
    Init => Inductive
<1> SUFFICES ASSUME Init PROVE Inductive
  OBVIOUS
<1> USE DEF Init
<1>1. TypeOK
  <2>1. Sem!TypeOK
    BY DEF Sem!Init, Sem!TypeOK
  <2>2. at \in [Threads -> Places]
    BY DEF Places
  <2>3. /\ blocks \in [Slots -> Blocks \cup {NULL}] /\ totalProcesses \in Int /\ made \in Blocks
        /\ file \in [Blocks -> Programs \cup {NULL, Garbage}]
        /\ parentID \in [Blocks -> Slots \cup {-1}]
        /\ id \in [Blocks -> Slots \cup {-1, Garbage}]
        /\ thread \in [Blocks -> Threads \cup {NULL, Garbage}]
        /\ exitCode \in [Blocks -> Threads \cup {NULL}]
    BY ConstantFacts
  <2> QED
    BY <2>1, <2>2, <2>3 DEF TypeOK
<1>2. Running /\ StopInv /\ MarkedInv
  BY ConstantFacts DEF Running, StopInv, MarkedInv
<1>3. ForkInv
  BY ConstantFacts DEF ForkInv, Threads
<1>4. WaitInv
  BY DEF WaitInv, Sem!Init
<1>5. PlaceInv
  BY DEF PlaceInv, ExecPlaces, JoinPlaces, StartPlaces, ExitPlaces, BlockPlaces
<1>6. BoundInv /\ LockInv
  <2>1. /\ {u \in Threads : at[u] \in {"execWait", "execHolding"}} = {}
        /\ {u \in Threads : at[u] \in StartPlaces} = {}
        /\ {u \in Threads : at[u] \in {"execHolding"}} = {}
    BY DEF StartPlaces
  <2>2. Choosing(at) = 0 /\ Starting(at) = 0 /\ Holding(at) = 0
    BY <2>1, FS_EmptySet, Zenon DEF Choosing, Starting, Holding, CountAt
  <2>3. count[semaphore] = 1 /\ Len(forked) = 0
    BY SemaphoreFacts DEF Sem!Init, semaphore
  <2> QED
    BY <2>2, <2>3, ConstantFacts DEF BoundInv, LockInv
<1>7. \A k \in Blocks : count[joinsemaphore(k)] = 0 /\ count[exitsemaphore(k)] = 0
  BY SemaphoreFacts DEF Sem!Init, joinsemaphore, exitsemaphore
<1>8. CodeInv
  BY <1>7 DEF CodeInv
<1>9. TotalInv
  <2>1. Cardinality(reception) = 0
    BY FS_EmptySet
  <2> QED
    BY <2>1, ConstantFacts DEF TotalInv
<1>10. ASSUME PidsAreSlots PROVE RightInv
  <2>1. SlotsInv /\ FreshInv
    BY ConstantFacts DEF SlotsInv, FreshInv
  <2>2. StartInv /\ JoinInv /\ LeaveInv
    BY DEF StartInv, StartPlaces, JoinInv, LeaveInv
  <2>3. ProcessInv
    BY DEF ProcessInv
  <2>4. UnitInv /\ AcceptInv
    BY <1>7 DEF UnitInv, AcceptInv
  <2> QED
    BY <2>1, <2>2, <2>3, <2>4 DEF RightInv
<1> QED
  BY <1>1, <1>2, <1>3, <1>4, <1>5, <1>6, <1>8, <1>9, <1>10 DEF Inductive, RunInv

\* Nothing else happens.
LEMMA Steps ==
    Inductive /\ [Next]_vars => Inductive'
<1> SUFFICES ASSUME Inductive, [Next]_vars PROVE Inductive'
  OBVIOUS
<1>1. CASE UNCHANGED vars
  <2> USE <1>1 DEF vars, tableVars, blockVars, localVars, machineVars
  <2>1. TypeOK' /\ StopInv' /\ MarkedInv' /\ (Running' => Running) /\ (PidsAreSlots' => PidsAreSlots /\ TotalInv')
    BY DEF Inductive, TypeOK, Sem!TypeOK, StopInv, Running, MarkedInv, PidsAreSlots, TotalInv
  <2>2. ASSUME Running PROVE RunInv'
    <3>1. ForkInv' /\ WaitInv' /\ PlaceInv'
      BY <2>2 DEF Inductive, RunInv, ForkInv, WaitInv, Waits, PlaceInv
    <3>2. BoundInv' /\ LockInv' /\ CodeInv'
      BY <2>2 DEF Inductive, RunInv, BoundInv, LockInv, CodeInv
    <3> QED
      BY <3>1, <3>2 DEF RunInv
  <2>3. ASSUME Running, PidsAreSlots PROVE RightInv'
    <3>1. SlotsInv' /\ FreshInv' /\ StartInv' /\ JoinInv'
      BY <2>3 DEF Inductive, RightInv, SlotsInv, FreshInv, StartInv, JoinInv
    <3>2. ProcessInv' /\ UnitInv' /\ AcceptInv' /\ LeaveInv'
      BY <2>3 DEF Inductive, RightInv, ProcessInv, UnitInv, AcceptInv, LeaveInv, Own
    <3> QED
      BY <3>1, <3>2 DEF RightInv
  <2> QED
    BY <2>1, <2>2, <2>3 DEF Inductive
<1>2. CASE Next
  <2>1. PICK t \in Threads :
            \/ Call(t) \/ StartProcess(t) \/ Proceed(t) \/ Crash(t)
            \/ \E s \in Semaphores : Woken(t, s)
    BY <1>2 DEF Next
  <2>2. CASE Call(t)
    BY <2>2, CallExecKeeps, CallJoinKeeps, CallExitKeeps, StopKeeps DEF Call, ExitHalts
  <2>3. CASE StartProcess(t)
    BY <2>3, StartProcessKeeps
  <2>4. CASE Proceed(t)
    BY <2>4, ExecRefusedKeeps, ExecChoosesKeeps, ExecEntersKeeps, ExecForksKeeps,
       ExecReturnsKeeps, JoinCountsKeeps, JoinWaitKeeps, ExitReleaseKeeps, JoinReturnsKeeps,
       ExitWaitKeeps, FinishKeeps, RemoveUnstartedKeeps, RemoveNothingKeeps DEF Proceed
  <2>5. CASE Crash(t)
    BY <2>5, StopKeeps DEF Crash
  <2>6. CASE \E s \in Semaphores : Woken(t, s)
    BY <2>6, WokenKeeps
  <2> QED
    BY <2>1, <2>2, <2>3, <2>4, <2>5, <2>6
<1> QED
  BY <1>1, <1>2

-----------------------------------------------------------------------------
(***************************************************************************)
(* The theorems.                                                           *)
(***************************************************************************)

\* The lock of the table, its blocks and its count.
LEMMA InvariantGivesTable ==
    ASSUME Inductive
    PROVE  TableConsistent
<1> USE DEF Inductive
<1>1. ASSUME at[0] # "stopped"
      PROVE  count[semaphore] + Cardinality({t \in Threads : at[t] = "execHolding"}) = 1
  <2>1. {u \in Threads : at[u] \in {"execHolding"}} = {t \in Threads : at[t] = "execHolding"}
    OBVIOUS
  <2>2. Holding(at) = Cardinality({t \in Threads : at[t] = "execHolding"})
    BY <2>1, Zenon DEF Holding, CountAt
  <2>3. count[semaphore] + Holding(at) = 1
    BY <1>1 DEF Running, RunInv, LockInv
  <2> QED
    BY <2>2, <2>3
<1> QED
  BY <1>1 DEF TableConsistent, MarkedInv, TotalInv

\* The two sides of the handshake.
LEMMA InvariantGivesHandshake ==
    ASSUME Inductive
    PROVE  HandshakeOrder /\ NoMutualWait
<1> USE DEF Inductive
<1>1. ASSUME NEW t \in Threads, at[t] \in {"joined", "released"}
      PROVE  exitCode[block[t]] # NULL
  BY <1>1 DEF StopInv, RunInv, CodeInv
<1>2. ASSUME NEW t \in Threads, PidsAreSlots, at[t] \in {"leaving", "finished"}
      PROVE  block[t] \in accepted
  BY <1>2 DEF StopInv, RightInv, LeaveInv
<1>3. ASSUME NEW k \in Blocks, PidsAreSlots, NEW t \in Threads, at[t] = "exitWait", block[t] = k
      PROVE  \/ count[joinsemaphore(k)] > 0
             \/ count[exitsemaphore(k)] > 0
             \/ \E u \in Threads : at[u] = "joined" /\ block[u] = k
  <2>1. Running /\ RightInv
    BY <1>3 DEF StopInv
  <2>2. exitCode[k] = t
    BY <1>3, <2>1, ExitingFacts DEF ExitPlaces, RightInv, LeaveInv
  <2>3. exitCode[k] # NULL
    BY <2>2, ConstantFacts
  <2>4. CASE k \in accepted
    BY <1>3, <2>1, <2>2, <2>4 DEF RightInv, AcceptInv
  <2>5. CASE k \notin accepted
    BY <1>3, <2>1, <2>3, <2>5 DEF RightInv, UnitInv
  <2> QED
    BY <2>4, <2>5
<1> QED
  BY <1>1, <1>2, <1>3 DEF HandshakeOrder, NoMutualWait

\* The invariant holds in every reachable state (ptable.cc, pcblock.cc).
THEOREM InductiveInvariant == Spec => []Inductive
  BY InitialStates, Steps, PTL DEF Spec

\* The variables of the process table have the types of their declarations.
THEOREM TypeCorrect == Spec => []TypeOK
<1>1. Inductive => TypeOK
  BY DEF Inductive
<1> QED
  BY <1>1, InductiveInvariant, PTL

\* ExecuteUpdate gives the semaphore back on every path, every marked slot has
\* a block, and with the right pids totalProcesses counts the marked slots.
THEOREM TableIsConsistent == Spec => []TableConsistent
  BY InductiveInvariant, InvariantGivesTable, PTL

\* Nobody passes JoinWait or ExitWait before the other side has come.
THEOREM HandshakeInOrder == Spec => []HandshakeOrder
  BY InductiveInvariant, InvariantGivesHandshake, PTL

\* Parent and child never wait for each other without a unit for either.
THEOREM NobodyWaitsForEver == Spec => []NoMutualWait
  BY InductiveInvariant, InvariantGivesHandshake, PTL

=============================================================================
