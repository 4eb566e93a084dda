------------------------ MODULE AddressSpaceProofs -------------------------
(***************************************************************************)
(* Theorems about AddressSpace, for any number of processes, any programs  *)
(* and any size of the memory: a Load takes all its frames or none, and    *)
(* every page of every process keeps its contents.                         *)
(***************************************************************************)
EXTENDS AddressSpace, FiniteSetTheorems, TLAPS

-----------------------------------------------------------------------------
(***************************************************************************)
(* The inductive invariant.  While the machine runs no frame is given      *)
(* back, so that the frames in use are the first ones and FindAndSet gives *)
(* a program frames that are next to each other: this is what Load's       *)
(* copying to frame + virtual page relies on.  It is also why the copy of  *)
(* a file that is longer than its pages harms nobody: the frames after     *)
(* those of the program are free, and are cleared when they are taken.     *)
(***************************************************************************)

Stopped == \A t \in Processes : at[t] = "stopped"
Running == \A t \in Processes : at[t] # "stopped"

StopInv == Stopped \/ Running

LockInv == Running =>
    /\ \A t, u \in Processes : at[t] = "loading" /\ at[u] = "loading" => t = u
    /\ count[addrLock] = IF \E t \in Processes : at[t] = "loading" THEN 0 ELSE 1

BitMapInv == Running => \E k \in 0..NumPhysPages : physPageBitMap = 0..(k - 1)

FramesInv ==
    /\ physPageBitMap = {f \in Frames : \E t \in Processes : \E i \in DOMAIN frames[t] : frames[t][i] = f}
    /\ \A t, u \in Processes : \A i \in DOMAIN frames[t], j \in DOMAIN frames[u] :
           frames[t][i] = frames[u][j] => t = u /\ i = j
    /\ \A t \in Processes : Len(frames[t]) \in {0, numPages(program[t])}

\* A process that is not loaded has no frames.
PlaceInv == Running =>
    \A t \in Processes : at[t] \in {"new", "lockWait", "loading", "failed"} => frames[t] = <<>>

\* The machine translates for the program that runs.
TableInv == at[currentThread] = "user" => pageTable = currentThread

Inductive ==
    /\ TypeOK /\ StopInv /\ LockInv /\ BitMapInv /\ FramesInv /\ PlaceInv /\ TableInv
    /\ ImageIntact

USE AddressSpaceAssumption DEF AddressSpaceAssumption

-----------------------------------------------------------------------------
(***************************************************************************)
(* What Load computes.                                                     *)
(***************************************************************************)

\* The sizes of a program.  Its file need not fit into its pages.
LEMMA ProgramSizes ==
    ASSUME NEW p \in Programs
    PROVE  /\ numPages(p) \in Nat /\ FileLength(p) \in Nat /\ initDataAddr(p) \in Nat
           /\ initDataAddr(p) <= FileLength(p)
           /\ p.initData = 0 => FileLength(p) = initDataAddr(p)
  BY DEF numPages, FileLength, initDataAddr

\* If the first k frames are in use, NumPhysPages - k are free ...
LEMMA FramesLeft ==
    ASSUME NEW k \in 0..NumPhysPages, physPageBitMap = 0..(k - 1)
    PROVE  NumClear = NumPhysPages - k
<1>1. 0 \in Int /\ k - 1 \in Int
  OBVIOUS
<1>2. Cardinality(0..(k - 1)) = IF 0 > k - 1 THEN 0 ELSE (k - 1) - 0 + 1
  BY <1>1, FS_Interval
<1> QED
  BY <1>2 DEF NumClear

\* ... and FindAndSet takes the next ones.
LEMMA FindAndSetFacts ==
    ASSUME NEW k \in 0..NumPhysPages, physPageBitMap = 0..(k - 1),
           NEW n \in Nat, n <= NumPhysPages - k
    PROVE  FindAndSet(n) = [i \in 1..n |-> k + i - 1]
<1>1. Frames \ physPageBitMap = k..(NumPhysPages - 1)
  BY DEF Frames
<1>2. ASSUME NEW f \in k..(NumPhysPages - 1)
      PROVE  Cardinality({e \in Frames \ physPageBitMap : e < f}) = f - k
  <2>1. {e \in Frames \ physPageBitMap : e < f} = k..(f - 1)
    BY <1>1
  <2>2. k \in Int /\ f - 1 \in Int /\ f \in Int
    OBVIOUS
  <2>3. Cardinality(k..(f - 1)) = IF k > f - 1 THEN 0 ELSE (f - 1) - k + 1
    BY <2>2, FS_Interval
  <2>4. Cardinality(k..(f - 1)) = f - k
    BY <2>2, <2>3
  <2> QED
    BY <2>1, <2>4, Zenon
<1>3. ASSUME NEW i \in 1..n
      PROVE  (CHOOSE f \in Frames \ physPageBitMap :
                 Cardinality({e \in Frames \ physPageBitMap : e < f}) = i - 1) = k + i - 1
  <2> DEFINE Before(f) == Cardinality({e \in Frames \ physPageBitMap : e < f})
             Free == Frames \ physPageBitMap
  <2>1. k + i - 1 \in Free /\ \A f \in Free : Before(f) = f - k /\ f \in Int
    BY <1>1, <1>2
  <2> HIDE DEF Before, Free
  <2>2. Before(k + i - 1) = i - 1
    BY <2>1
  <2>3. (CHOOSE f \in Free : Before(f) = i - 1) \in Free
        /\ Before(CHOOSE f \in Free : Before(f) = i - 1) = i - 1
    BY <2>1, <2>2
  <2>4. (CHOOSE f \in Free : Before(f) = i - 1) = k + i - 1
    BY <2>1, <2>3
  <2> QED
    BY <2>4 DEF Before, Free
<1> QED
  BY <1>3 DEF FindAndSet

\* What a frame may contain.
Contents == {Blank} \cup (Processes \X Nat)

\* New is what is in memory after pages first + 1 and on of t's file have gone
\* to their places in the n frames from k.  Those after them it may change too.
Copied(new, memory, t, k, n, first) ==
    /\ new \in [Frames -> Contents]
    /\ \A f \in Frames : f < k => new[f] = memory[f]
    /\ \A j \in 1..n : new[k + j - 1] = IF j > first /\ j <= FileLength(program[t])
                                        THEN <<t, j - 1>> ELSE memory[k + j - 1]

\* Copying a segment into frames k, k + 1, ... at an offset: frame k + j - 1
\* gets page j of the file if the offset is not beyond it.
LEMMA CopyFacts ==
    ASSUME TypeOK, NEW t \in Processes,
           NEW k \in 0..NumPhysPages, NEW n \in Nat, n <= NumPhysPages - k,
           NEW g, g = [i \in 1..n |-> k + i - 1],
           NEW memory \in [Frames -> Contents], NEW first \in Nat
    PROVE  Copied(CopySegment(memory, t, g, first, first), memory, t, k, n, first)
<1> DEFINE copied == CopySegment(memory, t, g, first, first)
           length == FileLength(program[t])
           Written(f) == {i \in 1..n : k + i - 1 + first = f /\ first + i <= length}
           Last(f) == CHOOSE i \in Written(f) : \A j \in Written(f) : j <= i
<1>1. length \in Nat
  BY ProgramSizes DEF TypeOK
<1>2. Len(g) = n /\ \A i \in 1..n : g[i] = k + i - 1
  OBVIOUS
<1>3. \A f \in Frames : copied[f] = IF Written(f) = {} THEN memory[f] ELSE <<t, first + Last(f) - 1>>
  <2> DEFINE InSegment(f) == {i \in 1..Len(g) : g[i] + first = f /\ first + i <= length}
  <2>1. ASSUME NEW f \in Frames
        PROVE  InSegment(f) = Written(f)
    BY <1>2
  <2>2. ASSUME NEW f \in Frames
        PROVE  copied[f] = IF InSegment(f) = {} THEN memory[f]
                           ELSE <<t, first + (CHOOSE i \in InSegment(f) :
                                                \A j \in InSegment(f) : j <= i) - 1>>
    BY Zenon DEF CopySegment
  <2> HIDE DEF InSegment, Written
  <2> QED
    BY <2>1, <2>2, Zenon
<1> HIDE DEF length, copied
<1>4. ASSUME NEW f \in Frames, NEW i \in Written(f)
      PROVE  f = k + i - 1 + first /\ first + i <= length /\ i \in 1..n /\ Last(f) = i
  <2>1. f = k + i - 1 + first /\ first + i <= length /\ i \in 1..n
    OBVIOUS
  <2>2. \A j \in Written(f) : j = i
    BY DEF Frames
  <2>3. \A j \in Written(f) : j <= i
    BY <2>1, <2>2
  <2>4. Last(f) \in Written(f)
    BY <2>3, Zenon
  <2> QED
    BY <2>1, <2>2, <2>4, Zenon
<1> HIDE DEF Last
<1>5. ASSUME NEW f \in Frames, f < k PROVE copied[f] = memory[f]
  <2>1. Written(f) = {}
    BY <1>4, <1>5 DEF Frames
  <2> QED
    BY <1>3, <2>1, Zenon
<1>6. ASSUME NEW j \in 1..n
      PROVE  copied[k + j - 1] = IF j > first /\ j <= length THEN <<t, j - 1>> ELSE memory[k + j - 1]
  <2>1. k + j - 1 \in Frames
    BY DEF Frames
  <2>2. CASE j > first /\ j <= length
    <3>1. j - first \in Written(k + j - 1)
      BY <1>1, <2>2
    <3>2. Last(k + j - 1) = j - first
      BY <1>4, <2>1, <3>1
    <3>3. copied[k + j - 1] = <<t, first + (j - first) - 1>>
      BY <1>3, <2>1, <3>1, <3>2
    <3> QED
      BY <2>2, <3>3
  <2>3. CASE ~(j > first /\ j <= length)
    <3>1. Written(k + j - 1) = {}
      BY <1>1, <2>3
    <3> QED
      BY <1>3, <2>1, <2>3, <3>1
  <2> QED
    BY <2>2, <2>3
<1>7. copied \in [Frames -> Contents]
  <2>1. ASSUME NEW f \in Frames
        PROVE  copied[f] \in Contents
    <3>1. CASE Written(f) = {}
      BY <1>3, <3>1
    <3>2. CASE Written(f) # {}
      <4>1. PICK i \in Written(f) : TRUE
        BY <3>2
      <4>2. copied[f] = <<t, first + i - 1>> /\ i \in 1..n
        BY <1>3, <1>4, <3>2, <4>1
      <4> QED
        BY <4>2 DEF Contents
    <3> QED
      BY <3>1, <3>2
  <2>2. copied = [f \in Frames |-> copied[f]]
    BY DEF CopySegment, copied
  <2> QED
    BY <2>1, <2>2
<1> QED
  BY <1>5, <1>6, <1>7 DEF length, copied, Copied

-----------------------------------------------------------------------------
(***************************************************************************)
(* Each action keeps the inductive invariant.                              *)
(***************************************************************************)

\* Nothing is loaded at first.
LEMMA InitialStates == Init => Inductive
<1> SUFFICES ASSUME Init PROVE Inductive
  OBVIOUS
<1> USE DEF Init
<1>1. TypeOK
  <2>1. Sem!TypeOK
    BY DEF Sem!Init, Sem!TypeOK
  <2>2. frames \in [Processes -> Seq(Frames)]
    OBVIOUS
  <2> QED
    BY <2>1, <2>2 DEF TypeOK, Places
<1>2. StopInv
  BY DEF StopInv, Running
<1>3. LockInv
  BY DEF LockInv, Sem!Init
<1>4. BitMapInv
  <2>1. physPageBitMap = 0..(0 - 1) /\ 0 \in 0..NumPhysPages
    OBVIOUS
  <2> QED
    BY <2>1 DEF BitMapInv
<1>5. FramesInv
  BY DEF FramesInv
<1>6. PlaceInv /\ TableInv /\ ImageIntact
  BY DEF PlaceInv, TableInv, ImageIntact
<1> QED
  BY <1>1, <1>2, <1>3, <1>4, <1>5, <1>6 DEF Inductive

\* A process that goes on is the one that has the CPU of a running machine.
LEMMA StepFacts ==
    ASSUME TypeOK, StopInv, NEW t \in Processes, NEW from \in Places \ {"stopped"},
           NEW to \in Places \ {"stopped"}, Step(t, from, to)
    PROVE  /\ Running /\ Running' /\ StopInv'
           /\ at' \in [Processes -> Places]
           /\ at[t] = from /\ at'[t] = to /\ \A u \in Processes \ {t} : at'[u] = at[u]
           /\ currentThread = t
<1>1. at' \in [Processes -> Places]
  BY DEF TypeOK, Step
<1> QED
  BY <1>1 DEF TypeOK, StopInv, Running, Stopped, Step

\* What a step that leaves memory and frames alone need not look at.
LEMMA SpacesStay ==
    ASSUME Inductive, UNCHANGED spaceVars
    PROVE  FramesInv' /\ ImageIntact'
  BY DEF Inductive, spaceVars, FramesInv, ImageIntact, IsCopied

(* Load opens the file and takes addrLock, or starts to wait for it. *)
LEMMA CallLoadKeeps ==
    ASSUME Inductive, NEW t \in Processes, CallLoad(t)
    PROVE  Inductive'
<1> USE DEF Inductive
<1>1. \E to \in {"loading", "lockWait"} : Step(t, "new", to)
  BY DEF CallLoad
<1>2. PICK to \in {"loading", "lockWait"} : Step(t, "new", to)
  BY <1>1
<1>3. /\ Running /\ Running' /\ StopInv'
      /\ at' \in [Processes -> Places]
      /\ at[t] = "new" /\ at'[t] = to /\ \A u \in Processes \ {t} : at'[u] = at[u]
      /\ currentThread = t
  BY <1>2, StepFacts DEF Places
<1>4. FramesInv' /\ ImageIntact'
  BY SpacesStay DEF CallLoad
<1>5. Sem!TypeOK'
  BY DEF CallLoad, TypeOK, Sem!TypeOK, Sem!TakeAtOnce, Sem!StartWaiting
<1>6. TypeOK'
  BY <1>3, <1>5 DEF TypeOK, CallLoad, spaceVars
<1>7. LockInv'
  <2>1. CASE Step(t, "new", "loading") /\ Sem!TakeAtOnce(t, addrLock)
    <3>1. at'[t] = "loading" /\ count'[addrLock] = count[addrLock] - 1 /\ count[addrLock] > 0
      BY <2>1 DEF TypeOK, Sem!TypeOK, Step, Sem!TakeAtOnce
    <3>2. count[addrLock] = 1 /\ \A u \in Processes : at[u] # "loading"
      BY <1>3, <3>1 DEF LockInv
    <3>3. count'[addrLock] = 0
      BY <3>1, <3>2
    <3> QED
      BY <1>3, <3>1, <3>2, <3>3 DEF LockInv
  <2>2. CASE Step(t, "new", "lockWait") /\ Sem!StartWaiting(t, addrLock)
    <3>1. at'[t] = "lockWait" /\ count' = count
      BY <2>2 DEF TypeOK, Step, Sem!StartWaiting
    <3>2. \A u \in Processes : at'[u] = "loading" <=> at[u] = "loading"
      BY <1>3, <3>1
    <3> QED
      BY <1>3, <3>1, <3>2 DEF LockInv
  <2> QED
    BY <2>1, <2>2 DEF CallLoad
<1>8. BitMapInv' /\ PlaceInv' /\ TableInv'
  BY <1>3 DEF CallLoad, spaceVars, BitMapInv, PlaceInv, TableInv
<1> QED
  BY <1>3, <1>4, <1>6, <1>7, <1>8

(* P returns from waiting. *)
LEMMA LockedKeeps ==
    ASSUME Inductive, NEW t \in Processes, Locked(t)
    PROVE  Inductive'
<1> USE DEF Inductive
<1>1. /\ Running /\ Running' /\ StopInv'
      /\ at' \in [Processes -> Places]
      /\ at[t] = "lockWait" /\ at'[t] = "loading" /\ \A u \in Processes \ {t} : at'[u] = at[u]
      /\ currentThread = t
  BY StepFacts DEF Places, Locked
<1>2. FramesInv' /\ ImageIntact'
  BY SpacesStay DEF Locked
<1>3. Sem!TypeOK'
  BY DEF Locked, TypeOK, Sem!TypeOK, Sem!TakeAfterWaiting
<1>4. TypeOK'
  BY <1>1, <1>3 DEF TypeOK, Locked, spaceVars
<1>5. LockInv'
  <2>1. count'[addrLock] = count[addrLock] - 1 /\ count[addrLock] > 0
    BY DEF TypeOK, Sem!TypeOK, Locked, Sem!TakeAfterWaiting
  <2>2. count[addrLock] = 1 /\ \A u \in Processes : at[u] # "loading"
    BY <1>1, <2>1 DEF LockInv
  <2>3. count'[addrLock] = 0
    BY <2>1, <2>2
  <2> QED
    BY <1>1, <2>2, <2>3 DEF LockInv
<1>6. BitMapInv' /\ PlaceInv' /\ TableInv'
  BY <1>1 DEF Locked, spaceVars, BitMapInv, PlaceInv, TableInv
<1> QED
  BY <1>1, <1>2, <1>4, <1>5, <1>6

\* A process that was loading gives the lock back.
LEMMA LockIsFree ==
    ASSUME Inductive, NEW t \in Processes, at[t] = "loading", Running,
           at'[t] # "loading", \A u \in Processes \ {t} : at'[u] = at[u],
           Sem!Release(addrLock)
    PROVE  Sem!TypeOK' /\ LockInv'
<1> USE DEF Inductive
<1>1. Sem!TypeOK'
  BY DEF TypeOK, Sem!TypeOK, Sem!Release
<1>2. count'[addrLock] = count[addrLock] + 1
  BY DEF TypeOK, Sem!TypeOK, Sem!Release
<1>3. count[addrLock] = 0 /\ \A u \in Processes \ {t} : at[u] # "loading"
  BY DEF LockInv
<1>4. count'[addrLock] = 1 /\ \A u \in Processes : at'[u] # "loading"
  BY <1>2, <1>3
<1> QED
  BY <1>1, <1>4 DEF LockInv

(* Too few frames are free: nothing is taken, and the lock given back. *)
LEMMA NotEnoughSpaceKeeps ==
    ASSUME Inductive, NEW t \in Processes, NotEnoughSpace(t)
    PROVE  Inductive'
<1> USE DEF Inductive
<1>1. /\ Running /\ Running' /\ StopInv'
      /\ at' \in [Processes -> Places]
      /\ at[t] = "loading" /\ at'[t] = "failed" /\ \A u \in Processes \ {t} : at'[u] = at[u]
      /\ currentThread = t
  BY StepFacts DEF Places, NotEnoughSpace
<1>2. FramesInv' /\ ImageIntact'
  BY SpacesStay DEF NotEnoughSpace
<1>3. Sem!TypeOK' /\ LockInv'
  BY <1>1, LockIsFree DEF NotEnoughSpace
<1>4. TypeOK'
  BY <1>1, <1>3 DEF TypeOK, NotEnoughSpace, spaceVars
<1>5. BitMapInv' /\ PlaceInv' /\ TableInv'
  BY <1>1 DEF NotEnoughSpace, spaceVars, BitMapInv, PlaceInv, TableInv
<1> QED
  BY <1>1, <1>2, <1>3, <1>4, <1>5

\* What Load leaves in memory: the file in the frames taken, as far as they go,
\* the rest of them clear, and the frames before them as they were.
LEMMA LoadedMemory ==
    ASSUME TypeOK, NEW t \in Processes, LoadProgram(t),
           NEW k \in 0..NumPhysPages, physPageBitMap = 0..(k - 1),
           NEW n \in Nat, n = numPages(program[t]), n <= NumPhysPages - k
    PROVE  /\ mainMemory' \in [Frames -> Contents]
           /\ \A f \in Frames : f < k => mainMemory'[f] = mainMemory[f]
           /\ \A j \in 1..n : mainMemory'[k + j - 1] =
                 IF IsCopied(program[t], j) THEN <<t, j - 1>> ELSE Blank
<1> DEFINE p == program[t]
           g == FindAndSet(n)
           cleared == [f \in Frames |-> IF \E i \in DOMAIN g : g[i] = f THEN Blank ELSE mainMemory[f]]
           coded == CopySegment(cleared, t, g, 0, 0)
           withCode == IF p.code = 0 THEN cleared ELSE coded
           a == initDataAddr(p)
           length == FileLength(p)
           complete == CopySegment(withCode, t, g, a, a)
<1>1. /\ length \in Nat /\ a \in Nat /\ a <= length
      /\ p.initData = 0 => length = a
  BY ProgramSizes DEF TypeOK
<1>2. g = [i \in 1..n |-> k + i - 1]
  BY FindAndSetFacts
<1>3. mainMemory' = IF p.initData = 0 THEN withCode ELSE complete
  BY DEF LoadProgram
<1> HIDE DEF g
<1>4. /\ cleared \in [Frames -> Contents]
      /\ \A f \in Frames : f < k => cleared[f] = mainMemory[f]
      /\ \A j \in 1..n : cleared[k + j - 1] = Blank
  <2>1. DOMAIN g = 1..n /\ \A i \in 1..n : g[i] = k + i - 1
    BY <1>2
  <2>2. \A j \in 1..n : k + j - 1 \in Frames
    BY DEF Frames
  <2>3. ASSUME NEW f \in Frames, f < k
        PROVE  cleared[f] = mainMemory[f]
    <3>1. ~\E i \in DOMAIN g : g[i] = f
      BY <2>1, <2>3 DEF Frames
    <3> QED
      BY <3>1
  <2>4. ASSUME NEW j \in 1..n
        PROVE  cleared[k + j - 1] = Blank
    <3>1. \E i \in DOMAIN g : g[i] = k + j - 1
      BY <2>1
    <3> QED
      BY <2>2, <3>1
  <2>5. cleared \in [Frames -> Contents]
    BY DEF TypeOK, Contents
  <2> QED
    BY <2>3, <2>4, <2>5
<1> HIDE DEF cleared
<1>5. 0 \in Nat
  OBVIOUS
<1>6. /\ coded \in [Frames -> Contents]
      /\ \A f \in Frames : f < k => coded[f] = cleared[f]
      /\ \A j \in 1..n : coded[k + j - 1] = IF j > 0 /\ j <= FileLength(program[t])
                                            THEN <<t, j - 1>> ELSE cleared[k + j - 1]
  <2>1. Copied(coded, cleared, t, k, n, 0)
    BY <1>2, <1>4, <1>5, CopyFacts, Zenon
  <2> HIDE DEF coded
  <2> QED
    BY <2>1, Zenon DEF Copied
<1> HIDE DEF coded
<1>7. /\ withCode \in [Frames -> Contents]
      /\ \A f \in Frames : f < k => withCode[f] = mainMemory[f]
      /\ \A j \in 1..n : withCode[k + j - 1] =
            IF p.code # 0 /\ j <= length THEN <<t, j - 1>> ELSE Blank
  <2>1. CASE p.code = 0
    BY <1>4, <2>1
  <2>2. CASE p.code # 0
    <3>1. withCode = coded
      BY <2>2
    <3>2. \A j \in 1..n : j > 0
      OBVIOUS
    <3> HIDE DEF withCode
    <3> QED
      BY <1>4, <1>6, <2>2, <3>1, <3>2
  <2> QED
    BY <2>1, <2>2
<1> HIDE DEF withCode
<1>8. /\ complete \in [Frames -> Contents]
      /\ \A f \in Frames : f < k => complete[f] = withCode[f]
      /\ \A j \in 1..n : complete[k + j - 1] = IF j > a /\ j <= FileLength(program[t])
                                               THEN <<t, j - 1>> ELSE withCode[k + j - 1]
  <2>1. a \in Nat
    BY <1>1
  <2>2. Copied(complete, withCode, t, k, n, a)
    BY <1>2, <1>7, <2>1, CopyFacts, Zenon
  <2> HIDE DEF a, complete
  <2> QED
    BY <2>2, Zenon DEF Copied
<1> HIDE DEF complete
<1>9. ASSUME NEW j \in 1..n
      PROVE  IsCopied(p, j) <=> j <= length /\ (p.code # 0 \/ j > a)
  BY DEF IsCopied, length, a
<1> HIDE DEF length, a
<1>10. ASSUME NEW j \in 1..n
       PROVE  complete[k + j - 1] = IF IsCopied(p, j) THEN <<t, j - 1>> ELSE Blank
  <2>1. CASE j > a
    <3>1. complete[k + j - 1] = IF j <= length THEN <<t, j - 1>> ELSE withCode[k + j - 1]
      BY <1>8, <2>1 DEF length
    <3>2. ~(j <= length) => withCode[k + j - 1] = Blank
      BY <1>7
    <3> QED
      BY <1>9, <2>1, <3>1, <3>2
  <2>2. CASE ~(j > a)
    <3>1. complete[k + j - 1] = withCode[k + j - 1]
      BY <1>8, <2>2
    <3>2. j <= length
      BY <1>1, <2>2
    <3> QED
      BY <1>7, <1>9, <2>2, <3>1, <3>2
  <2> QED
    BY <2>1, <2>2
<1>11. CASE p.initData = 0
  <2>1. mainMemory' = withCode
    BY <1>3, <1>11
  <2>2. ASSUME NEW j \in 1..n
        PROVE  withCode[k + j - 1] = IF IsCopied(p, j) THEN <<t, j - 1>> ELSE Blank
    <3>1. IsCopied(p, j) <=> p.code # 0 /\ j <= length
      BY <1>1, <1>9, <1>11
    <3> QED
      BY <1>7, <3>1
  <2> QED
    BY <1>7, <2>1, <2>2
<1>12. CASE p.initData # 0
  <2>1. mainMemory' = complete
    BY <1>3, <1>12
  <2>2. \A f \in Frames : f < k => complete[f] = mainMemory[f]
    BY <1>7, <1>8
  <2> QED
    BY <1>8, <1>10, <2>1, <2>2
<1> QED
  BY <1>11, <1>12

(* The program is loaded into the first free frames. *)
LEMMA LoadProgramKeeps ==
    ASSUME Inductive, NEW t \in Processes, LoadProgram(t)
    PROVE  Inductive'
<1> DEFINE n == numPages(program[t])
<1>1. /\ Running /\ Running' /\ StopInv'
      /\ at' \in [Processes -> Places]
      /\ at[t] = "loading" /\ at'[t] = "loaded" /\ \A u \in Processes \ {t} : at'[u] = at[u]
      /\ currentThread = t
  BY StepFacts DEF Places, LoadProgram, Inductive
<1>2. Sem!TypeOK' /\ LockInv'
  BY <1>1, LockIsFree DEF LoadProgram
<1>3. PICK k \in 0..NumPhysPages : physPageBitMap = 0..(k - 1)
  BY <1>1 DEF Inductive, BitMapInv
<1>4. n \in Nat
  BY ProgramSizes DEF TypeOK, Inductive
<1>5. n <= NumPhysPages - k
  BY <1>3, FramesLeft DEF LoadProgram
<1>6. FindAndSet(n) = [i \in 1..n |-> k + i - 1]
  BY <1>3, <1>4, <1>5, FindAndSetFacts
<1>7. /\ mainMemory' \in [Frames -> Contents]
      /\ \A f \in Frames : f < k => mainMemory'[f] = mainMemory[f]
      /\ \A j \in 1..n : mainMemory'[k + j - 1] =
            IF IsCopied(program[t], j) THEN <<t, j - 1>> ELSE Blank
  BY <1>3, <1>4, <1>5, LoadedMemory DEF Inductive
<1>8. /\ frames' = [frames EXCEPT ![t] = FindAndSet(n)]
      /\ physPageBitMap' = physPageBitMap \cup {FindAndSet(n)[i] : i \in DOMAIN FindAndSet(n)}
      /\ program' = program /\ currentThread' = currentThread /\ pageTable' = pageTable
  BY DEF LoadProgram
<1> HIDE DEF n
<1>9. /\ frames' \in [Processes -> Seq(Frames)]
      /\ Len(frames'[t]) = n /\ DOMAIN frames'[t] = 1..n
      /\ \A i \in 1..n : frames'[t][i] = k + i - 1
      /\ \A u \in Processes \ {t} : frames'[u] = frames[u]
  <2>1. FindAndSet(n) \in Seq(Frames) /\ Len(FindAndSet(n)) = n
    BY <1>4, <1>5, <1>6 DEF Frames
  <2>2. frames \in [Processes -> Seq(Frames)]
    BY DEF Inductive, TypeOK
  <2> QED
    BY <1>4, <1>6, <1>8, <2>1, <2>2
<1>10. physPageBitMap' = 0..((k + n) - 1)
  <2> DEFINE g == FindAndSet(n)
  <2>1. DOMAIN g = 1..n /\ \A i \in 1..n : g[i] = k + i - 1
    BY <1>6
  <2> HIDE DEF g
  <2>2. \A f \in k..((k + n) - 1) : f - k + 1 \in 1..n /\ g[f - k + 1] = f
    BY <1>4, <2>1
  <2>3. {g[i] : i \in DOMAIN g} = k..((k + n) - 1)
    <3>1. ASSUME NEW f \in k..((k + n) - 1)
          PROVE  \E i \in DOMAIN g : g[i] = f
      BY <2>1, <2>2
    <3>2. ASSUME NEW i \in DOMAIN g
          PROVE  g[i] \in k..((k + n) - 1)
      <4>1. i \in 1..n /\ g[i] = k + i - 1
        BY <2>1
      <4> QED
        BY <1>4, <4>1
    <3> QED
      BY <3>1, <3>2
  <2>4. 0..(k - 1) \cup k..((k + n) - 1) = 0..((k + n) - 1)
    BY <1>4
  <2> QED
    BY <1>3, <1>8, <2>3, <2>4, Zenon DEF g
<1>11. frames[t] = <<>>
  BY <1>1 DEF Inductive, PlaceInv
<1>12. \A u \in Processes : \A i \in DOMAIN frames[u] : frames[u][i] \in Frames /\ frames[u][i] < k
  <2>1. ASSUME NEW u \in Processes, NEW i \in DOMAIN frames[u]
        PROVE  frames[u][i] \in Frames
    BY DEF Inductive, TypeOK
  <2>2. ASSUME NEW u \in Processes, NEW i \in DOMAIN frames[u]
        PROVE  frames[u][i] \in 0..(k - 1)
    BY <1>3, <2>1 DEF Inductive, FramesInv
  <2> QED
    BY <2>1, <2>2
<1>13. TypeOK'
  <2>1. mainMemory' \in [Frames -> {Blank} \cup (Processes \X Nat)]
    BY <1>7 DEF Contents
  <2>2. physPageBitMap' \subseteq Frames
    BY <1>4, <1>5, <1>10 DEF Frames
  <2> QED
    BY <1>1, <1>2, <1>8, <1>9, <2>1, <2>2 DEF Inductive, TypeOK
<1>14. BitMapInv'
  <2>1. k + n \in 0..NumPhysPages
    BY <1>4, <1>5
  <2> QED
    BY <1>10, <2>1 DEF BitMapInv
<1>15. FramesInv'
  <2>1. ASSUME NEW u \in Processes \ {t}, NEW v \in Processes,
               NEW i \in DOMAIN frames'[u], NEW j \in DOMAIN frames'[v], frames'[u][i] = frames'[v][j]
        PROVE  u = v /\ i = j
    <3>1. frames'[u] = frames[u] /\ frames[u][i] \in Frames /\ frames[u][i] < k
      BY <1>9, <1>12
    <3>2. CASE v = t
      BY <1>4, <1>9, <2>1, <3>1, <3>2 DEF Frames
    <3>3. CASE v # t
      BY <1>9, <2>1, <3>1, <3>3 DEF Inductive, FramesInv
    <3> QED
      BY <3>2, <3>3
  <2>2. ASSUME NEW i \in DOMAIN frames'[t], NEW j \in DOMAIN frames'[t], frames'[t][i] = frames'[t][j]
        PROVE  i = j
    BY <1>4, <1>9, <2>2
  <2>3. \A u, v \in Processes : \A i \in DOMAIN frames'[u], j \in DOMAIN frames'[v] :
           frames'[u][i] = frames'[v][j] => u = v /\ i = j
    BY <2>1, <2>2
  <2>4. ASSUME NEW f \in Frames
        PROVE  f \in physPageBitMap'
                 <=> \E u \in Processes : \E i \in DOMAIN frames'[u] : frames'[u][i] = f
    <3>1. CASE f < k
      <4>1. f \in physPageBitMap' /\ f \in physPageBitMap
        BY <1>3, <1>4, <1>10, <3>1 DEF Frames
      <4>2. PICK u \in Processes : \E i \in DOMAIN frames[u] : frames[u][i] = f
        BY <4>1 DEF Inductive, FramesInv
      <4>3. u # t
        BY <1>11, <4>2
      <4> QED
        BY <1>9, <4>1, <4>2, <4>3
    <3>2. CASE f >= k + n
      <4>1. f \notin physPageBitMap'
        BY <1>4, <1>10, <3>2 DEF Frames
      <4>2. ASSUME NEW u \in Processes, NEW i \in DOMAIN frames'[u]
            PROVE  frames'[u][i] # f
        <5>1. CASE u = t
          BY <1>4, <1>9, <3>2, <5>1 DEF Frames
        <5>2. CASE u # t
          <6>1. i \in DOMAIN frames[u] /\ frames'[u][i] = frames[u][i]
            BY <1>9, <5>2
          <6>2. frames[u][i] \in Nat /\ frames[u][i] < k
            BY <1>12, <6>1 DEF Frames
          <6>3. f >= k
            BY <1>4, <3>2 DEF Frames
          <6> QED
            BY <6>1, <6>2, <6>3 DEF Frames
        <5> QED
          BY <5>1, <5>2
      <4> QED
        BY <4>1, <4>2
    <3>3. CASE ~(f < k \/ f >= k + n)
      <4>1. f \in physPageBitMap' /\ f - k + 1 \in 1..n /\ k + (f - k + 1) - 1 = f
        BY <1>4, <1>10, <3>3 DEF Frames
      <4>2. f - k + 1 \in DOMAIN frames'[t] /\ frames'[t][f - k + 1] = f
        BY <1>9, <4>1
      <4> QED
        BY <4>1, <4>2
    <3> QED
      BY <3>1, <3>2, <3>3
  <2>5. physPageBitMap' = {f \in Frames : \E u \in Processes : \E i \in DOMAIN frames'[u] : frames'[u][i] = f}
    BY <1>13, <2>4 DEF TypeOK
  <2>6. \A u \in Processes : Len(frames'[u]) \in {0, numPages(program'[u])}
    BY <1>8, <1>9 DEF Inductive, FramesInv, n
  <2> QED
    BY <2>3, <2>5, <2>6 DEF FramesInv
<1>16. PlaceInv' /\ TableInv'
  <2>1. at'[t] = "loaded" /\ currentThread' = t
    BY <1>1, <1>8
  <2> QED
    BY <1>1, <1>9, <2>1 DEF Inductive, PlaceInv, TableInv
<1>17. ImageIntact'
  <2>1. ASSUME NEW u \in Processes \ {t}, NEW i \in DOMAIN frames[u]
        PROVE  mainMemory'[frames[u][i]] = mainMemory[frames[u][i]]
    BY <1>7, <1>12
  <2>2. ASSUME NEW i \in 1..n
        PROVE  \/ mainMemory'[frames'[t][i]] = <<t, i - 1>>
               \/ mainMemory'[frames'[t][i]] = Blank /\ ~IsCopied(program[t], i)
    <3>1. frames'[t][i] = k + i - 1
      BY <1>9
    <3>2. mainMemory'[k + i - 1] = IF IsCopied(program[t], i) THEN <<t, i - 1>> ELSE Blank
      BY <1>7
    <3> QED
      BY <3>1, <3>2
  <2> QED
    BY <1>8, <1>9, <2>1, <2>2 DEF Inductive, ImageIntact
<1> QED
  BY <1>1, <1>2, <1>13, <1>14, <1>15, <1>16, <1>17 DEF Inductive

\* A process goes on without the lock, and no frame changes hands.
LEMMA GoesOn ==
    ASSUME Inductive, NEW t \in Processes, NEW from, NEW to,
           Step(t, from, to),
           \/ from = "loaded" /\ to = "user" /\ pageTable' = t
           \/ from = "user" /\ to = "finished" /\ pageTable' = pageTable,
           UNCHANGED <<count, inP, spaceVars, currentThread>>
    PROVE  Inductive'
<1> USE DEF Inductive
<1>1. /\ Running /\ Running' /\ StopInv'
      /\ at' \in [Processes -> Places]
      /\ at[t] = from /\ at'[t] = to /\ \A u \in Processes \ {t} : at'[u] = at[u]
      /\ currentThread = t
  BY StepFacts DEF Places
<1>2. FramesInv' /\ ImageIntact'
  BY SpacesStay
<1>3. TypeOK'
  BY <1>1 DEF TypeOK, spaceVars, Sem!TypeOK
<1>4. LockInv'
  <2>1. \A u \in Processes : at'[u] = "loading" <=> at[u] = "loading"
    BY <1>1
  <2> QED
    BY <1>1, <2>1 DEF LockInv
<1>5. BitMapInv' /\ PlaceInv' /\ TableInv'
  BY <1>1 DEF spaceVars, BitMapInv, PlaceInv, TableInv
<1> QED
  BY <1>1, <1>2, <1>3, <1>4, <1>5

\* In a machine that has stopped nothing is left to show but the frames.
LEMMA StoppedMachine ==
    ASSUME Inductive, StopMachine,
           UNCHANGED <<count, inP, currentThread, pageTable, program>>
    PROVE  /\ at' \in [Processes -> Places]
           /\ StopInv' /\ LockInv' /\ BitMapInv' /\ PlaceInv' /\ TableInv'
<1>1. \A t \in Processes : at'[t] = "stopped"
  BY DEF StopMachine
<1>2. Stopped' /\ ~Running'
  BY <1>1 DEF Stopped, Running
<1>3. at' \in [Processes -> Places]
  BY DEF StopMachine, Places
<1>4. currentThread' \in Processes
  BY DEF Inductive, TypeOK
<1> QED
  BY <1>1, <1>2, <1>3, <1>4 DEF StopInv, LockInv, BitMapInv, PlaceInv, TableInv

(* The machine stops with all processes as they are. *)
LEMMA StopKeeps ==
    ASSUME Inductive, NEW t \in Processes, Stop(t)
    PROVE  Inductive'
<1>1. /\ at' \in [Processes -> Places]
      /\ StopInv' /\ LockInv' /\ BitMapInv' /\ PlaceInv' /\ TableInv'
  BY StoppedMachine DEF Stop, spaceVars
<1>2. FramesInv' /\ ImageIntact'
  BY SpacesStay DEF Stop
<1>3. TypeOK'
  BY <1>1 DEF Inductive, TypeOK, Stop, spaceVars, Sem!TypeOK
<1> QED
  BY <1>1, <1>2, <1>3 DEF Inductive

(* The first process's exit frees its frames, and only those. *)
LEMMA ExitHaltsKeeps ==
    ASSUME Inductive, NEW t \in Processes, ExitHalts(t)
    PROVE  Inductive'
<1>1. /\ at' \in [Processes -> Places]
      /\ StopInv' /\ LockInv' /\ BitMapInv' /\ PlaceInv' /\ TableInv'
  BY StoppedMachine DEF ExitHalts
<1>2. /\ frames' \in [Processes -> Seq(Frames)]
      /\ frames'[t] = <<>> /\ \A u \in Processes \ {t} : frames'[u] = frames[u]
      /\ physPageBitMap' = physPageBitMap \ {frames[t][i] : i \in DOMAIN frames[t]}
      /\ mainMemory' = mainMemory /\ program' = program
  BY DEF ExitHalts, Inductive, TypeOK
<1>3. \A i : i \notin DOMAIN frames'[t]
  BY <1>2
<1>4. TypeOK'
  BY <1>1, <1>2 DEF Inductive, TypeOK, ExitHalts, Sem!TypeOK
<1>5. FramesInv'
  <2>1. ASSUME NEW f \in Frames
        PROVE  f \in physPageBitMap'
                 <=> \E u \in Processes : \E i \in DOMAIN frames'[u] : frames'[u][i] = f
    <3>1. CASE \E i \in DOMAIN frames[t] : frames[t][i] = f
      <4>1. f \notin physPageBitMap'
        BY <1>2, <3>1
      <4>2. ASSUME NEW u \in Processes, NEW i \in DOMAIN frames'[u]
            PROVE  frames'[u][i] # f
        <5>1. u # t
          BY <1>3
        <5>2. frames'[u] = frames[u]
          BY <1>2, <5>1
        <5> QED
          BY <3>1, <5>1, <5>2 DEF Inductive, FramesInv
      <4> QED
        BY <4>1, <4>2
    <3>2. CASE ~\E i \in DOMAIN frames[t] : frames[t][i] = f
      <4>1. f \in physPageBitMap' <=> f \in physPageBitMap
        BY <1>2, <3>2
      <4>2. f \in physPageBitMap
              <=> \E u \in Processes : \E i \in DOMAIN frames[u] : frames[u][i] = f
        BY DEF Inductive, FramesInv
      <4> QED
        BY <1>2, <1>3, <3>2, <4>1, <4>2
    <3> QED
      BY <3>1, <3>2
  <2>2. physPageBitMap' = {f \in Frames : \E u \in Processes : \E i \in DOMAIN frames'[u] : frames'[u][i] = f}
    BY <1>4, <2>1 DEF TypeOK
  <2>3. \A u, v \in Processes : \A i \in DOMAIN frames'[u], j \in DOMAIN frames'[v] :
           frames'[u][i] = frames'[v][j] => u = v /\ i = j
    <3>1. ASSUME NEW u \in Processes, NEW i \in DOMAIN frames'[u]
          PROVE  frames'[u] = frames[u]
      BY <1>2, <1>3
    <3> QED
      BY <3>1 DEF Inductive, FramesInv
  <2>4. \A u \in Processes : Len(frames'[u]) \in {0, numPages(program'[u])}
    BY <1>2 DEF Inductive, FramesInv
  <2> QED
    BY <2>2, <2>3, <2>4 DEF FramesInv
<1>6. ImageIntact'
  <2>1. ASSUME NEW u \in Processes, NEW i \in DOMAIN frames'[u]
        PROVE  frames'[u] = frames[u]
    BY <1>2, <1>3
  <2>2. ASSUME NEW u \in Processes, NEW i \in DOMAIN frames[u]
        PROVE  \/ mainMemory[frames[u][i]] = <<u, i - 1>>
               \/ mainMemory[frames[u][i]] = Blank /\ ~IsCopied(program[u], i)
    BY DEF Inductive, ImageIntact
  <2>3. ASSUME NEW u \in Processes, NEW i \in DOMAIN frames'[u]
        PROVE  \/ mainMemory'[frames'[u][i]] = <<u, i - 1>>
               \/ mainMemory'[frames'[u][i]] = Blank /\ ~IsCopied(program'[u], i)
    BY <1>2, <2>1, <2>2
  <2> QED
    BY <2>3 DEF ImageIntact
<1> QED
  BY <1>1, <1>4, <1>5, <1>6 DEF Inductive

(* A process writes to its own frame: the machine uses its page table. *)
LEMMA WriteMemKeeps ==
    ASSUME Inductive, NEW t \in Processes, NEW page \in 1..NumPhysPages, WriteMem(t, page)
    PROVE  Inductive'
<1> USE DEF Inductive, WriteMem
<1>1. pageTable = t /\ page \in DOMAIN frames[t]
  BY DEF TableInv, TypeOK
<1>2. mainMemory' = [mainMemory EXCEPT ![frames[t][page]] = <<t, page - 1>>]
      /\ frames[t][page] \in Frames
  BY <1>1 DEF TypeOK
<1>3. TypeOK'
  <2>1. <<t, page - 1>> \in Processes \X Nat
    OBVIOUS
  <2>2. mainMemory \in [Frames -> {Blank} \cup (Processes \X Nat)]
    BY DEF TypeOK
  <2>3. mainMemory' \in [Frames -> {Blank} \cup (Processes \X Nat)]
    BY <1>2, <2>1, <2>2, Zenon
  <2> QED
    BY <2>3 DEF TypeOK, Sem!TypeOK
<1>4. FramesInv' /\ StopInv' /\ LockInv' /\ BitMapInv' /\ PlaceInv' /\ TableInv'
  BY DEF FramesInv, StopInv, Stopped, Running, LockInv, BitMapInv, PlaceInv, TableInv
<1>5. ImageIntact'
  <2>1. ASSUME NEW u \in Processes, NEW i \in DOMAIN frames[u]
        PROVE  \/ mainMemory'[frames[u][i]] = <<u, i - 1>>
               \/ mainMemory'[frames[u][i]] = Blank /\ ~IsCopied(program[u], i)
    <3>1. frames[u][i] \in Frames
      BY DEF TypeOK
    <3>2. CASE frames[u][i] = frames[t][page]
      <4>1. u = t /\ i = page
        BY <1>1, <3>2 DEF FramesInv
      <4> QED
        BY <1>2, <4>1 DEF TypeOK
    <3>3. CASE frames[u][i] # frames[t][page]
      <4>1. mainMemory'[frames[u][i]] = mainMemory[frames[u][i]]
        BY <1>2, <3>1, <3>3 DEF TypeOK
      <4> QED
        BY <4>1 DEF ImageIntact
    <3> QED
      BY <3>2, <3>3
  <2>2. frames' = frames /\ program' = program
    OBVIOUS
  <2> QED
    BY <2>1, <2>2, Zenon DEF ImageIntact
<1> QED
  BY <1>3, <1>4, <1>5

(* The CPU goes to another process, and the page table with it. *)
LEMMA SwitchKeeps ==
    ASSUME Inductive, NEW t \in Processes, Switch(t)
    PROVE  Inductive'
<1> USE DEF Inductive, Switch
<1>1. FramesInv' /\ ImageIntact'
  BY SpacesStay
<1>2. TypeOK'
  BY DEF TypeOK, spaceVars, Sem!TypeOK
<1>3. StopInv' /\ LockInv' /\ BitMapInv' /\ PlaceInv' /\ TableInv'
  BY DEF spaceVars, StopInv, Stopped, Running, LockInv, BitMapInv, PlaceInv, TableInv
<1> QED
  BY <1>1, <1>2, <1>3

(* A stuttering step changes nothing Inductive speaks of. *)
LEMMA StutteringKeeps ==
    ASSUME Inductive, UNCHANGED vars
    PROVE  Inductive'
  BY DEF Inductive, vars, spaceVars, TypeOK, Sem!TypeOK, StopInv, Stopped, Running, LockInv,
         BitMapInv, FramesInv, PlaceInv, TableInv, ImageIntact

-----------------------------------------------------------------------------
(***************************************************************************)
(* The theorems.                                                           *)
(***************************************************************************)

\* The inductive invariant holds in every reachable state.
THEOREM InductiveInvariant == Spec => []Inductive
<1>1. Init => Inductive
  BY InitialStates
<1>2. Inductive /\ [Next]_vars => Inductive'
  <2> SUFFICES ASSUME Inductive, [Next]_vars PROVE Inductive'
    OBVIOUS
  <2>1. ASSUME NEW t \in Processes, Execute(t) \/ Exit(t) PROVE Inductive'
    BY <2>1, GoesOn DEF Execute, Exit
  <2> QED
    BY <2>1, CallLoadKeeps, LockedKeeps, NotEnoughSpaceKeeps, LoadProgramKeeps, StopKeeps,
       ExitHaltsKeeps, WriteMemKeeps, SwitchKeeps, StutteringKeeps DEF Next
<1> QED
  BY <1>1, <1>2, PTL DEF Spec

\* The variables of AddressSpace keep their types.
THEOREM TypeCorrect == Spec => []TypeOK
<1>1. Inductive => TypeOK
  BY DEF Inductive
<1> QED
  BY <1>1, InductiveInvariant, PTL

\* Whatever is loaded, written and switched, every page of every process holds
\* what its file or the process itself put there, also when the files of some are
\* longer than their pages (addrspace.cc, Load and RestoreState).
THEOREM ImagesStay == Spec => []ImageIntact
<1>1. Inductive => ImageIntact
  BY DEF Inductive
<1> QED
  BY <1>1, InductiveInvariant, PTL

\* Load takes all frames of a program or none, nobody's twice, and gives
\* addrLock back on every return (addrspace.cc, Load).
THEOREM LoadsAreWhole == Spec => []LoadAllOrNothing
<1>1. Inductive => LoadAllOrNothing
  <2> SUFFICES ASSUME Inductive PROVE LoadAllOrNothing
    OBVIOUS
  <2> DEFINE Loading == {t \in Processes : at[t] = "loading"}
  <2>1. ASSUME at[Main] # "stopped"
        PROVE  count[addrLock] + Cardinality(Loading) = 1
    <3>1. Running
      BY <2>1 DEF Inductive, StopInv, Stopped
    <3>2. CASE \E t \in Processes : at[t] = "loading"
      <4>1. PICK t \in Processes : at[t] = "loading"
        BY <3>2
      <4>2. Loading = {t}
        BY <3>1, <4>1 DEF Inductive, LockInv
      <4>3. Cardinality(Loading) = 1
        BY <4>2, FS_Singleton, Zenon
      <4>4. count[addrLock] = 0
        BY <3>1, <3>2 DEF Inductive, LockInv
      <4> HIDE DEF Loading
      <4> QED
        BY <4>3, <4>4
    <3>3. CASE ~\E t \in Processes : at[t] = "loading"
      <4>1. Loading = {}
        BY <3>3
      <4>2. Cardinality(Loading) = 0
        BY <4>1, FS_EmptySet, Zenon
      <4>3. count[addrLock] = 1
        BY <3>1, <3>3 DEF Inductive, LockInv
      <4> HIDE DEF Loading
      <4> QED
        BY <4>2, <4>3
    <3> QED
      BY <3>2, <3>3
  <2> QED
    BY <2>1 DEF Inductive, FramesInv, LoadAllOrNothing
<1> QED
  BY <1>1, InductiveInvariant, PTL

=============================================================================
