----------------------------- MODULE SynchDisk -----------------------------
(***************************************************************************)
(* The synchronized disk (filesys/synchdisk.cc) with the simulated disk it *)
(* drives (machine/disk.cc): a lock, a semaphore the disk's interrupt      *)
(* handler V()s, and a device that takes one request at a time and works   *)
(* out from the position of the head when the interrupt is due.            *)
(* Semaphores are those of CountingSemaphore; as in SynchList, a step of a *)
(* thread runs from one point where it can lose the CPU to the next.       *)
(***************************************************************************)
EXTENDS Integers, FiniteSets

CONSTANTS
    Threads,
    NumTracks, SectorsPerTrack,
    SeekTime,           \* ticks from a track to the next
    RotationTime,       \* ticks from a sector to the next
    MaxTicks,           \* bound: no request is made after that many ticks
    NULL

ASSUME SynchDiskAssumption ==
    /\ {NumTracks, SectorsPerTrack, SeekTime, RotationTime} \subseteq Nat \ {0}
    /\ MaxTicks \in Nat
    /\ NULL \notin {0, 1}

NumSectors == SectorsPerTrack * NumTracks
Sectors == 0..(NumSectors - 1)

VARIABLES
    count, inP,     \* the semaphores "lock" and "semaphore"
    at,             \* where each thread is (Places)
    request,        \* request[t]: what t has asked the disk for, or NULL
    data,           \* data[t]: the caller's buffer
    \* Disk
    sector,         \* the file that represents the disk; every write changes
                    \* what is there, and two contents are enough to tell
    active,
    lastSector,
    bufferInit,     \* when the track buffer started being loaded
    due,            \* the pending DiskInts: when each is due
    totalTicks,     \* kernel->stats->totalTicks
    \* history: when the last request was made, and when the head came to
    \* rest on the track it is on
    issued, settled

headVars == <<lastSector, bufferInit, issued, settled>>
diskVars == <<sector, active, due, headVars>>
vars == <<count, inP, at, request, data, diskVars, totalTicks>>

Sem == INSTANCE CountingSemaphore WITH
    Semaphores <- {"lock", "semaphore"},
    InitialValue <- [s \in {"lock", "semaphore"} |-> IF s = "lock" THEN 1 ELSE 0]

(***************************************************************************)
(* "out": in neither operation.  "acquire": in lock->Acquire().            *)
(* "holding": it has returned.  "wait": in semaphore->P().  "ready": that  *)
(* has returned.                                                           *)
(***************************************************************************)
Places == {"out", "acquire", "holding", "wait", "ready"}

Requests == [sector : Sectors, writing : BOOLEAN]

Init ==
    /\ Sem!Init
    /\ at = [t \in Threads |-> "out"]
    /\ request = [t \in Threads |-> NULL]
    /\ data = [t \in Threads |-> NULL]
    /\ sector = [n \in Sectors |-> 0]
    /\ active = FALSE
    /\ lastSector = 0
    /\ bufferInit = 0
    /\ due = {}
    /\ totalTicks = 0
    /\ issued = 0
    /\ settled = 0

GoTo(t, place) == at' = [at EXCEPT ![t] = place]

\* P on semaphore s: at once, or by waiting first.
P(t, s, waiting, done) ==
    \/ Sem!TakeAtOnce(t, s) /\ GoTo(t, done)
    \/ Sem!StartWaiting(t, s) /\ GoTo(t, waiting)

-----------------------------------------------------------------------------
(***************************************************************************)
(* How long a request takes.                                               *)
(***************************************************************************)

Track(n) == n \div SectorsPerTrack

Distance(a, b) == IF a > b THEN a - b ELSE b - a

\* TimeToSeek's two results.
Seek(n) == Distance(Track(n), Track(lastSector)) * SeekTime

Rotation(n) ==
    LET over == (totalTicks + Seek(n)) % RotationTime
    IN  IF over > 0 THEN RotationTime - over ELSE 0

ModuloDiff(to, from) ==
    (((to % SectorsPerTrack) - (from % SectorsPerTrack)) + SectorsPerTrack) % SectorsPerTrack

\* The head has been over the whole of sector n since the buffer was started.
InTrackBuffer(n) ==
    /\ Seek(n) = 0
    /\ (totalTicks + Seek(n) + Rotation(n) - bufferInit) \div RotationTime
         > ModuloDiff(n, bufferInit \div RotationTime)

ComputeLatency(r) ==
    LET n == r.sector
        timeAfter == totalTicks + Seek(n) + Rotation(n)
        rotation == Rotation(n) + ModuloDiff(n, timeAfter \div RotationTime) * RotationTime
    IN  IF ~r.writing /\ InTrackBuffer(n)
        THEN RotationTime
        ELSE Seek(n) + rotation + RotationTime

\* Faulty: the track buffer is kept when the head moves to another track.
UpdateLastKeepsBuffer(n) ==
    /\ settled' = IF Seek(n) # 0 THEN totalTicks + Seek(n) ELSE settled
    /\ lastSector' = n
    /\ UNCHANGED bufferInit

UpdateLast(n) ==
    /\ settled' = IF Seek(n) # 0 THEN totalTicks + Seek(n) ELSE settled
    /\ bufferInit' = IF Seek(n) # 0 THEN totalTicks + Seek(n) + Rotation(n) ELSE bufferInit
    /\ lastSector' = n

-----------------------------------------------------------------------------
(***************************************************************************)
(* SynchDisk::ReadSector and WriteSector.                                  *)
(***************************************************************************)

Call(t) ==
    /\ at[t] = "out"
    /\ totalTicks <= MaxTicks
    /\ P(t, "lock", "acquire", "holding")
    /\ UNCHANGED <<request, data, diskVars, totalTicks>>

\* Faulty: the lock is free again before the request is done.
AcquireAndRelease(t) ==
    /\ at[t] = "acquire"
    /\ count["lock"] > 0
    /\ inP' = [inP EXCEPT !["lock"] = @ \ {t}]
    /\ GoTo(t, "holding")
    /\ UNCHANGED <<count, request, data, diskVars, totalTicks>>

Acquired(t) ==
    /\ at[t] = "acquire"
    /\ Sem!TakeAfterWaiting(t, "lock")
    /\ GoTo(t, "holding")
    /\ UNCHANGED <<request, data, diskVars, totalTicks>>

\* disk->ReadRequest() or WriteRequest(), which reads or writes the file at
\* once and schedules the interrupt, and semaphore->P().  The caller's
\* arguments matter from here on.
DiskRequest(t) == \E r \in Requests :
    /\ at[t] = "holding"
    /\ request' = [request EXCEPT ![t] = r]
    /\ IF r.writing
       THEN /\ sector' = [sector EXCEPT ![r.sector] = 1 - @]
            /\ UNCHANGED data
       ELSE /\ data' = [data EXCEPT ![t] = sector[r.sector]]
            /\ UNCHANGED sector
    /\ active' = TRUE
    /\ due' = due \cup {totalTicks + ComputeLatency(r)}
    /\ issued' = totalTicks
    /\ UpdateLast(r.sector)
    /\ P(t, "semaphore", "wait", "ready")
    /\ UNCHANGED totalTicks

Woken(t) ==
    /\ at[t] = "wait"
    /\ Sem!TakeAfterWaiting(t, "semaphore")
    /\ GoTo(t, "ready")
    /\ UNCHANGED <<request, data, diskVars, totalTicks>>

\* lock->Release() and the return; the caller is done with its buffer.
Return(t) ==
    /\ at[t] = "ready"
    /\ Sem!Release("lock")
    /\ GoTo(t, "out")
    /\ request' = [request EXCEPT ![t] = NULL]
    /\ data' = [data EXCEPT ![t] = NULL]
    /\ UNCHANGED <<diskVars, totalTicks>>

\* Faulty: the interrupt is not passed on.
CallBackSilent ==
    \E d \in due :
        /\ d <= totalTicks
        /\ due' = due \ {d}
        /\ active' = FALSE
        /\ UNCHANGED <<count, inP, at, request, data, sector, headVars, totalTicks>>

\* Disk::CallBack and SynchDisk::CallBack.
CallBack ==
    \E d \in due :
        /\ d <= totalTicks
        /\ due' = due \ {d}
        /\ active' = FALSE
        /\ Sem!Release("semaphore")
        /\ UNCHANGED <<at, request, data, sector, headVars, totalTicks>>

\* The clock advances; an interrupt may be served some ticks after it is due.
Tick ==
    /\ \A d \in due : totalTicks <= d
    /\ due # {} \/ totalTicks <= MaxTicks
    /\ totalTicks' = totalTicks + 1
    /\ UNCHANGED <<count, inP, at, request, data, diskVars>>

Next ==
    \/ \E t \in Threads :
        Call(t) \/ Acquired(t) \/ DiskRequest(t) \/ Woken(t) \/ Return(t)
    \/ CallBack
    \/ Tick

SafetySpec == Init /\ [][Next]_vars

(***************************************************************************)
(* Ready threads are run and semaphores are live (NachosThreads), and time *)
(* goes on until the interrupt is due, when it is served.                  *)
(***************************************************************************)
Fairness ==
    /\ \A t \in Threads : WF_vars(DiskRequest(t)) /\ WF_vars(Return(t))
    /\ WF_vars(\E t \in Threads : Acquired(t))
    /\ WF_vars(\E t \in Threads : Woken(t))
    /\ WF_vars(CallBack)
    /\ WF_vars(Tick)

Spec == SafetySpec /\ Fairness

-----------------------------------------------------------------------------
(***************************************************************************)
(* Properties.                                                             *)
(***************************************************************************)

\* The variables have the types their declarations give them.
TypeOK ==
    /\ Sem!TypeOK
    /\ at \in [Threads -> Places]
    /\ request \in [Threads -> Requests \cup {NULL}]
    /\ data \in [Threads -> {0, 1, NULL}]
    /\ sector \in [Sectors -> {0, 1}]
    /\ active \in BOOLEAN
    /\ lastSector \in Sectors
    /\ due \subseteq Nat
    /\ {bufferInit, totalTicks, issued, settled} \subseteq Nat

\* The device's ASSERT (disk.cc:118 and 138) holds for every thread about to
\* make a request, each interrupt finds exactly one thread to wake, and what
\* a read has put in the caller's buffer is still what the disk holds when
\* the caller gets the CPU back: the semaphore outlives a request only
\* inside the lock.
OneRequestAtATime ==
    /\ \A t \in Threads : at[t] = "holding" => ~active
    /\ Cardinality(due) + count["semaphore"] = Cardinality({t \in Threads : at[t] = "wait"})
    /\ \A t \in Threads :
        at[t] \in {"wait", "ready"} /\ ~request[t].writing
            => data[t] = sector[request[t].sector]

\* The head was over the whole of sector n between two moments.
Passed(n, from, to) ==
    \E k \in from..to :
        /\ k % RotationTime = 0
        /\ k + RotationTime <= to
        /\ (k \div RotationTime) % SectorsPerTrack = n % SectorsPerTrack

\* The disk interrupts when the head has passed over the whole of the sector:
\* for a write, after the request and its seek; for a read, since the head
\* has been on the track, for then the sector is in the track buffer.  It
\* does not take more than a seek and a revolution (disk.cc, ComputeLatency:
\* "how long it will take to rotate completely past newSector").
LatencyCoversSector ==
    \A t \in Threads, d \in due :
        at[t] = "wait" =>
            LET r == request[t]
                arrival == IF settled > issued THEN settled ELSE issued
            IN  /\ Passed(r.sector, IF r.writing THEN arrival ELSE settled, d)
                /\ d <= arrival + (SectorsPerTrack + 1) * RotationTime

\* How far a thread's call has come, as its caller sees it.
Stage(t) ==
    CASE at[t] = "out" -> "out"
      [] at[t] = "acquire" -> "calling"
      [] at[t] = "holding" -> "granted"
      [] at[t] = "wait" /\ count["semaphore"] = 0 -> "served"
      [] OTHER -> "answered"

\* Lock, semaphore, device and interrupt are together one SynchronousDevice:
\* who calls while another is served waits, a request never meets a busy disk,
\* and each caller returns after the interrupt for its own request, not for an
\* earlier one's (SynchDisk::ReadSector and WriteSector, against synchdisk.h).
Device == INSTANCE SynchronousDevice WITH
    Devices <- {"disk"},
    Callers <- Threads,
    DeviceOf <- [t \in Threads |-> "disk"],
    stage <- [t \in Threads |-> Stage(t)],
    busy <- [d \in {"disk"} |-> active]

ImplementsSynchronousDevice == Device!Spec

\* A request that has been made is completed and the lock is given back
\* (SynchDisk::ReadSector, WriteSector and both CallBacks).
RequestCompletes == \A t \in Threads : at[t] \in {"holding", "wait", "ready"} ~> at[t] = "out"

=============================================================================
