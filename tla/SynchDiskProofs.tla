-------------------------- MODULE SynchDiskProofs ---------------------------
(***************************************************************************)
(* Theorems about SynchDisk, for any number of threads and any geometry of *)
(* the disk: one request is at the disk at a time, the latency that        *)
(* ComputeLatency works out covers the sector, and driver and disk         *)
(* implement SynchronousDevice without deadlock.                           *)
(***************************************************************************)
EXTENDS SynchDisk, FiniteSetTheorems, TLAPS

(***************************************************************************)
(* Arithmetic.                                                             *)
(***************************************************************************)

(* Products of natural numbers are natural numbers. *)
LEMMA ProductIsNat ==
    ASSUME NEW a \in Nat, NEW b \in Nat
    PROVE  a * b \in Nat
  OBVIOUS

(* A multiple divided by its factor. *)
LEMMA MultipleProperties ==
    ASSUME NEW q \in Int, NEW m \in Nat \ {0}
    PROVE  (q * m) \div m = q /\ (q * m) % m = 0
  OBVIOUS

(* Quotient and remainder. *)
LEMMA DivisionProperties ==
    ASSUME NEW a \in Int, NEW m \in Nat \ {0}
    PROVE  /\ a = (a \div m) * m + (a % m)
           /\ a % m \in 0..(m - 1)
           /\ a \div m \in Int
           /\ a \in Nat => a \div m \in Nat
  OBVIOUS

(* The forward distance between two places on a circle of m sectors. *)
LEMMA GoingRound ==
    ASSUME NEW to \in Int, NEW from \in Int, NEW m \in Nat \ {0}
    PROVE  (from + ((((to % m) - (from % m)) + m) % m)) % m = to % m
  OBVIOUS

-----------------------------------------------------------------------------
\* The type of each constant.
LEMMA Geometry ==
    /\ NumTracks \in Nat \ {0} /\ SectorsPerTrack \in Nat \ {0}
    /\ SeekTime \in Nat \ {0} /\ RotationTime \in Nat \ {0}
    /\ MaxTicks \in Nat
    /\ NULL \notin {0, 1}
  BY SynchDiskAssumption DEF SynchDiskAssumption

USE Geometry

-----------------------------------------------------------------------------
(***************************************************************************)
(* The inductive invariant.  Whoever is between Acquire and Release of the *)
(* lock is alone there, and its place says what the disk is doing: nothing *)
(* before the request and after the semaphore's P, and in between a        *)
(* pending interrupt or the unit it left.                                  *)
(***************************************************************************)

InRequest(t) == at[t] \in {"holding", "wait", "ready"}

Idle == ~active /\ due = {} /\ count["semaphore"] = 0
Pending == active /\ (\E d \in due : due = {d}) /\ count["semaphore"] = 0
Interrupted == ~active /\ due = {} /\ count["semaphore"] = 1

LockInv ==
    /\ \A t, u \in Threads : InRequest(t) /\ InRequest(u) => t = u
    /\ count["lock"] = IF \E t \in Threads : InRequest(t) THEN 0 ELSE 1

DeviceInv ==
    /\ (\E t \in Threads : at[t] = "wait") => Pending \/ Interrupted
    /\ (\A t \in Threads : at[t] # "wait") => Idle

BufferInv ==
    \A t \in Threads : at[t] \in {"wait", "ready"} =>
        /\ request[t] \in Requests
        /\ ~request[t].writing => data[t] = sector[request[t].sector]

\* The track buffer starts at a sector's edge, after the head has come to
\* rest, and the head has come to rest when the disk is idle.
HeadInv ==
    /\ bufferInit % RotationTime = 0
    /\ settled <= bufferInit
    /\ issued <= totalTicks
    /\ due = {} => settled <= totalTicks
    /\ \A d \in due : settled <= d

Inductive == TypeOK /\ LockInv /\ DeviceInv /\ BufferInv /\ HeadInv /\ LatencyCoversSector

-----------------------------------------------------------------------------
(***************************************************************************)
(* The terms of the latency.                                               *)
(***************************************************************************)

(* A seek takes a natural number of ticks. *)
LEMMA SeekIsTime ==
    ASSUME TypeOK, NEW n \in Sectors
    PROVE  Seek(n) \in Nat
<1>1. n \in Nat /\ lastSector \in Nat
  BY ProductIsNat DEF TypeOK, Sectors, NumSectors
<1>2. Track(n) \in Nat /\ Track(lastSector) \in Nat
  BY <1>1 DEF Track
<1>3. Distance(Track(n), Track(lastSector)) \in Nat
  BY <1>2 DEF Distance
<1> QED
  BY <1>3, ProductIsNat DEF Seek

\* When the head has come to the track it waits for the next sector's edge.
LEMMA RotationEndsAtEdge ==
    ASSUME TypeOK, NEW n \in Sectors
    PROVE  /\ Rotation(n) \in 0..(RotationTime - 1)
           /\ (totalTicks + Seek(n) + Rotation(n)) % RotationTime = 0
<1> DEFINE arrival == totalTicks + Seek(n)
           over == arrival % RotationTime
           turns == arrival \div RotationTime
<1>1. arrival \in Nat
  BY SeekIsTime DEF TypeOK
<1> HIDE DEF arrival
<1>2. arrival = turns * RotationTime + over /\ over \in 0..(RotationTime - 1) /\ turns \in Int
  BY <1>1
<1>3. ASSUME NEW k \in Int
      PROVE  (k * RotationTime) % RotationTime = 0
  BY <1>3, MultipleProperties, Zenon
<1>4. Rotation(n) = IF over > 0 THEN RotationTime - over ELSE 0
  BY DEF Rotation, arrival
<1> HIDE DEF over, turns
<1>5. CASE over = 0
  BY <1>2, <1>3, <1>4, <1>5 DEF arrival
<1>6. CASE over > 0
  <2>1. arrival + Rotation(n) = (turns + 1) * RotationTime
    BY <1>2, <1>4, <1>6
  <2> QED
    BY <1>2, <1>3, <1>4, <1>6, <2>1 DEF arrival
<1> QED
  BY <1>2, <1>5, <1>6

\* The number of sectors from one position to another, going round.
LEMMA ModuloDiffGoesRound ==
    ASSUME NEW to \in Int, NEW from \in Int
    PROVE  /\ ModuloDiff(to, from) \in 0..(SectorsPerTrack - 1)
           /\ (from + ModuloDiff(to, from)) % SectorsPerTrack = to % SectorsPerTrack
<1>1. ModuloDiff(to, from) \in 0..(SectorsPerTrack - 1)
  BY DEF ModuloDiff
<1>2. (from + ((((to % SectorsPerTrack) - (from % SectorsPerTrack)) + SectorsPerTrack) % SectorsPerTrack))
        % SectorsPerTrack = to % SectorsPerTrack
  BY GoingRound, Zenon
<1> QED
  BY <1>1, <1>2 DEF ModuloDiff

\* The head passes a sector between two moments if it does so from an edge on.
LEMMA PassedFromEdge ==
    ASSUME NEW n \in Int, NEW k \in Int, NEW from \in Int, NEW to \in Int,
           k % SectorsPerTrack = n % SectorsPerTrack,
           from <= k * RotationTime, k * RotationTime + RotationTime <= to
    PROVE  Passed(n, from, to)
<1>1. (k * RotationTime) % RotationTime = 0 /\ (k * RotationTime) \div RotationTime = k
  BY MultipleProperties, Zenon
<1>2. k * RotationTime \in from..to
  OBVIOUS
<1> QED
  BY <1>1, <1>2, Zenon DEF Passed

\* The latency of a request is long enough for the head to pass over the
\* sector, and not longer than a revolution and a sector after the seek.
LEMMA LatencyIsRight ==
    ASSUME TypeOK, HeadInv, due = {}, NEW r \in Requests
    PROVE  LET n == r.sector
               d == totalTicks + ComputeLatency(r)
               arrival == totalTicks + Seek(n)
               rest == IF Seek(n) # 0 THEN arrival ELSE settled
           IN  /\ ComputeLatency(r) \in Nat
               /\ Passed(n, IF r.writing THEN arrival ELSE rest, d)
               /\ d <= arrival + (SectorsPerTrack + 1) * RotationTime
               /\ rest <= d
<1> DEFINE n == r.sector
           d == totalTicks + ComputeLatency(r)
           arrival == totalTicks + Seek(n)
           rest == IF Seek(n) # 0 THEN arrival ELSE settled
           edge == arrival + Rotation(n)
           q == edge \div RotationTime
           ahead == ModuloDiff(n, q)
<1>1. n \in Sectors /\ n \in Int
  BY ProductIsNat DEF Requests, Sectors, NumSectors
<1>2. /\ totalTicks \in Nat /\ Seek(n) \in Nat /\ settled \in Nat /\ bufferInit \in Nat
      /\ settled <= totalTicks /\ settled <= bufferInit
  BY <1>1, SeekIsTime DEF TypeOK, HeadInv
<1>3. Rotation(n) \in 0..(RotationTime - 1) /\ edge % RotationTime = 0
  BY <1>1, RotationEndsAtEdge
<1>4. q \in Int /\ edge = q * RotationTime
  <2>1. edge \in Int
    BY <1>2, <1>3
  <2>2. q \in Int /\ edge = q * RotationTime + (edge % RotationTime)
    BY <2>1, DivisionProperties, Zenon
  <2> QED
    BY <1>3, <2>1, <2>2
<1>5. ahead \in 0..(SectorsPerTrack - 1) /\ (q + ahead) % SectorsPerTrack = n % SectorsPerTrack
  BY <1>1, <1>4, ModuloDiffGoesRound
<1> HIDE DEF ahead, q
<1>6. CASE ~r.writing /\ InTrackBuffer(n)
  <2> DEFINE p == bufferInit \div RotationTime
             behind == ModuloDiff(n, p)
  <2>1. d = totalTicks + RotationTime /\ ComputeLatency(r) = RotationTime
    BY <1>6 DEF ComputeLatency
  <2>2. Seek(n) = 0 /\ (edge - bufferInit) \div RotationTime > behind
    <3>1. InTrackBuffer(n)
      BY <1>6
    <3>2. Seek(n) = 0
      BY <3>1 DEF InTrackBuffer
    <3>3. (totalTicks + Seek(n) + Rotation(n) - bufferInit) \div RotationTime > ModuloDiff(n, bufferInit \div RotationTime)
      BY <3>1 DEF InTrackBuffer
    <3>4. edge - bufferInit = totalTicks + Seek(n) + Rotation(n) - bufferInit
      BY <1>2, <1>3
    <3>5. (edge - bufferInit) \div RotationTime > behind
      BY <3>3, <3>4, Zenon
    <3> QED
      BY <3>2, <3>5, Zenon
  <2>3. p \in Int /\ bufferInit = p * RotationTime
    <3>1. p \in Int /\ bufferInit = p * RotationTime + (bufferInit % RotationTime)
      BY <1>2, DivisionProperties
    <3> QED
      BY <1>2, <3>1 DEF HeadInv
  <2>4. behind \in 0..(SectorsPerTrack - 1) /\ (p + behind) % SectorsPerTrack = n % SectorsPerTrack
    BY <1>1, <2>3, ModuloDiffGoesRound
  <2> HIDE DEF behind, p
  <2>5. (edge - bufferInit) \div RotationTime = q - p
    <3>1. edge - bufferInit = (q - p) * RotationTime
      BY <1>4, <2>3
    <3>2. q - p \in Int
      BY <1>4, <2>3
    <3>3. ((q - p) * RotationTime) \div RotationTime = q - p
      BY <3>2, MultipleProperties, Zenon
    <3> QED
      BY <3>1, <3>3
  <2>6. p + behind + 1 <= q
    BY <1>4, <2>2, <2>3, <2>4, <2>5
  <2>7. (p + behind) * RotationTime + RotationTime <= edge
    BY <1>4, <2>3, <2>4, <2>6
  <2>8. (p + behind) * RotationTime >= bufferInit
    BY <2>3, <2>4
  <2>9. edge <= d /\ rest = settled
    BY <1>2, <1>3, <2>1, <2>2
  <2>10. d <= arrival + (SectorsPerTrack + 1) * RotationTime
    BY <1>2, <2>1, <2>2
  <2>11. Passed(n, rest, d)
    <3>1. p + behind \in Int /\ rest \in Int /\ d \in Int
      BY <1>2, <2>1, <2>3, <2>4
    <3>2. rest <= (p + behind) * RotationTime /\ (p + behind) * RotationTime + RotationTime <= d
      BY <1>2, <1>4, <2>1, <2>3, <2>4, <2>7, <2>8, <2>9
    <3> QED
      BY <1>1, <2>4, <3>1, <3>2, PassedFromEdge, Zenon
  <2> QED
    BY <1>2, <1>6, <2>1, <2>9, <2>10, <2>11
<1>7. CASE r.writing \/ ~InTrackBuffer(n)
  <2>1. ComputeLatency(r) = Seek(n) + (Rotation(n) + ahead * RotationTime) + RotationTime
    BY <1>7 DEF ComputeLatency, ahead, q
  <2>2. d = (q + ahead) * RotationTime + RotationTime /\ ComputeLatency(r) \in Nat
    <3>1. ahead * RotationTime \in Nat
      BY <1>5, ProductIsNat
    <3>2. (q + ahead) * RotationTime = edge + ahead * RotationTime
      BY <1>4, <1>5
    <3> QED
      BY <1>2, <1>3, <2>1, <3>1, <3>2
  <2>3. arrival <= (q + ahead) * RotationTime /\ rest <= arrival
    BY <1>2, <1>3, <1>4, <1>5
  <2>4. d <= arrival + (SectorsPerTrack + 1) * RotationTime
    <3>1. ahead * RotationTime <= (SectorsPerTrack - 1) * RotationTime
      BY <1>5
    <3> QED
      BY <1>2, <1>3, <1>4, <1>5, <2>2, <3>1
  <2>5. Passed(n, IF r.writing THEN arrival ELSE rest, d)
    <3> DEFINE from == IF r.writing THEN arrival ELSE rest
    <3>1. from \in Int /\ q + ahead \in Int /\ d \in Int
      BY <1>2, <1>4, <1>5, <2>2
    <3>2. from <= (q + ahead) * RotationTime /\ (q + ahead) * RotationTime + RotationTime <= d
      BY <1>2, <1>4, <1>5, <2>2, <2>3
    <3> QED
      BY <1>1, <1>5, <3>1, <3>2, PassedFromEdge, Zenon
  <2>6. rest <= d
    BY <1>2, <1>4, <1>5, <2>2, <2>3
  <2> QED
    BY <2>2, <2>4, <2>5, <2>6, Zenon
<1> QED
  BY <1>6, <1>7


-----------------------------------------------------------------------------
(***************************************************************************)
(* Every step keeps the invariant.                                         *)
(***************************************************************************)

(* The disk starts idle, its head on sector 0. *)
LEMMA InitialStates ==
    Init => Inductive
<1> SUFFICES ASSUME Init PROVE Inductive
  OBVIOUS
<1> USE DEF Init, Sem!Init
<1>1. TypeOK
  <2>1. 0 \in Sectors
    <3>1. SectorsPerTrack * NumTracks > 0
      OBVIOUS
    <3> QED
      BY <3>1, ProductIsNat DEF Sectors, NumSectors
  <2>2. Sem!TypeOK
    BY DEF Sem!TypeOK
  <2>3. at \in [Threads -> Places] /\ request \in [Threads -> Requests \cup {NULL}]
    BY DEF Places
  <2>4. sector \in [Sectors -> {0, 1}] /\ data \in [Threads -> {0, 1, NULL}]
    OBVIOUS
  <2>5. active \in BOOLEAN /\ lastSector \in Sectors /\ due \subseteq Nat
    BY <2>1
  <2>6. {bufferInit, totalTicks, issued, settled} \subseteq Nat
    OBVIOUS
  <2> HIDE DEF Init
  <2> QED
    BY <2>2, <2>3, <2>4, <2>5, <2>6 DEF TypeOK
<1>2. LockInv
  BY DEF LockInv, InRequest
<1>3. DeviceInv /\ BufferInv /\ LatencyCoversSector
  BY DEF DeviceInv, Idle, BufferInv, LatencyCoversSector
<1>4. HeadInv
  BY MultipleProperties DEF HeadInv
<1> QED
  BY <1>1, <1>2, <1>3, <1>4 DEF Inductive

(* A request takes the lock, or starts to wait for it. *)
LEMMA CallKeeps ==
    ASSUME Inductive, NEW t \in Threads, Call(t)
    PROVE  Inductive'
<1> USE DEF Inductive, Call, P, GoTo, diskVars, headVars, Sem!TakeAtOnce, Sem!StartWaiting
<1>1. TypeOK'
  BY DEF TypeOK, Sem!TypeOK, Places
<1>2. LockInv'
  BY DEF TypeOK, Sem!TypeOK, LockInv, InRequest
<1>3. DeviceInv'
  BY DEF TypeOK, Sem!TypeOK, DeviceInv, Idle, Pending, Interrupted
<1>4. BufferInv'
  BY DEF TypeOK, BufferInv
<1>5. HeadInv'
  BY DEF HeadInv
<1>6. LatencyCoversSector'
  BY DEF TypeOK, LatencyCoversSector
<1> QED
  BY <1>1, <1>2, <1>3, <1>4, <1>5, <1>6

(* A waiter gets the free lock. *)
LEMMA AcquiredKeeps ==
    ASSUME Inductive, NEW t \in Threads, Acquired(t)
    PROVE  Inductive'
<1> USE DEF Inductive, Acquired, GoTo, diskVars, headVars, Sem!TakeAfterWaiting
<1>1. TypeOK'
  BY DEF TypeOK, Sem!TypeOK, Places
<1>2. LockInv'
  BY DEF TypeOK, Sem!TypeOK, LockInv, InRequest
<1>3. DeviceInv'
  BY DEF TypeOK, Sem!TypeOK, DeviceInv, Idle, Pending, Interrupted
<1>4. BufferInv'
  BY DEF TypeOK, BufferInv
<1>5. HeadInv'
  BY DEF HeadInv
<1>6. LatencyCoversSector'
  BY DEF TypeOK, LatencyCoversSector
<1> QED
  BY <1>1, <1>2, <1>3, <1>4, <1>5, <1>6

\* The request finds the disk idle, so the semaphore has no unit and the
\* thread waits, alone, for the one interrupt that is then pending.
LEMMA DiskRequestKeeps ==
    ASSUME Inductive, NEW t \in Threads, DiskRequest(t)
    PROVE  Inductive'
<1> USE DEF Inductive
<1>1. PICK r \in Requests :
        /\ at[t] = "holding"
        /\ request' = [request EXCEPT ![t] = r]
        /\ IF r.writing
           THEN sector' = [sector EXCEPT ![r.sector] = 1 - @] /\ data' = data
           ELSE data' = [data EXCEPT ![t] = sector[r.sector]] /\ sector' = sector
        /\ active' = TRUE
        /\ due' = due \cup {totalTicks + ComputeLatency(r)}
        /\ issued' = totalTicks
        /\ UpdateLast(r.sector)
        /\ P(t, "semaphore", "wait", "ready")
        /\ totalTicks' = totalTicks
  BY DEF DiskRequest
<1> DEFINE n == r.sector
           d == totalTicks + ComputeLatency(r)
           arrival == totalTicks + Seek(n)
           rest == IF Seek(n) # 0 THEN arrival ELSE settled
<1>2. n \in Sectors /\ r.writing \in BOOLEAN
  BY DEF Requests
<1>3. Idle /\ \A u \in Threads : u # t => ~InRequest(u)
  BY <1>1 DEF LockInv, DeviceInv, InRequest
<1>4. /\ at' = [at EXCEPT ![t] = "wait"]
      /\ count' = count
      /\ inP' = [inP EXCEPT !["semaphore"] = @ \cup {t}]
  BY <1>1, <1>3 DEF P, GoTo, Sem!TakeAtOnce, Sem!StartWaiting, Idle
<1>5. /\ ComputeLatency(r) \in Nat
      /\ Passed(n, IF r.writing THEN arrival ELSE rest, d)
      /\ d <= arrival + (SectorsPerTrack + 1) * RotationTime
      /\ rest <= d
  BY <1>3, LatencyIsRight DEF Idle
<1>6. /\ Seek(n) \in Nat
      /\ Rotation(n) \in 0..(RotationTime - 1)
      /\ (totalTicks + Seek(n) + Rotation(n)) % RotationTime = 0
  BY <1>2, SeekIsTime, RotationEndsAtEdge
<1>7. /\ totalTicks \in Nat /\ settled \in Nat /\ bufferInit \in Nat /\ d \in Nat
      /\ settled <= totalTicks
  BY <1>3, <1>5 DEF TypeOK, HeadInv, Idle
<1>8. /\ settled' = rest
      /\ bufferInit' = IF Seek(n) # 0 THEN totalTicks + Seek(n) + Rotation(n) ELSE bufferInit
      /\ lastSector' = n
  BY <1>1 DEF UpdateLast
<1>9. due' = {d}
  BY <1>1, <1>3 DEF Idle
<1> HIDE DEF d
<1>10. TypeOK'
  <2>1. Sem!TypeOK'
    BY <1>4 DEF TypeOK, Sem!TypeOK
  <2>2. at' \in [Threads -> Places] /\ request' \in [Threads -> Requests \cup {NULL}]
    BY <1>1, <1>4 DEF TypeOK, Places
  <2>3. sector' \in [Sectors -> {0, 1}] /\ data' \in [Threads -> {0, 1, NULL}]
    BY <1>1, <1>2 DEF TypeOK
  <2>4. lastSector' \in Sectors /\ active' \in BOOLEAN /\ due' \subseteq Nat
    BY <1>1, <1>2, <1>7, <1>8, <1>9
  <2>5. {bufferInit', totalTicks', issued', settled'} \subseteq Nat
    BY <1>1, <1>6, <1>7, <1>8
  <2> QED
    BY <2>1, <2>2, <2>3, <2>4, <2>5 DEF TypeOK
<1>11. LockInv'
  BY <1>1, <1>4 DEF TypeOK, LockInv, InRequest
<1>12. DeviceInv'
  <2>1. Pending'
    BY <1>1, <1>3, <1>4, <1>9 DEF Pending, Idle
  <2>2. at'[t] = "wait"
    BY <1>4 DEF TypeOK
  <2> QED
    BY <2>1, <2>2 DEF DeviceInv
<1>13. BufferInv'
  BY <1>1, <1>2, <1>3, <1>4 DEF TypeOK, BufferInv, InRequest
<1>14. HeadInv'
  BY <1>1, <1>5, <1>6, <1>7, <1>8, <1>9 DEF HeadInv
<1>15. LatencyCoversSector'
  <2>1. (IF settled' > issued' THEN settled' ELSE issued') = arrival
    BY <1>1, <1>6, <1>7, <1>8
  <2>2. ASSUME NEW u \in Threads, at'[u] = "wait"
        PROVE  u = t /\ request'[u] = r
    BY <1>1, <1>3, <1>4, <2>2 DEF TypeOK, InRequest
  <2> HIDE DEF arrival, rest
  <2> QED
    BY <1>5, <1>8, <1>9, <2>1, <2>2, Zenon DEF LatencyCoversSector
<1> QED
  BY <1>10, <1>11, <1>12, <1>13, <1>14, <1>15

(* The holder of the lock is woken by the unit of its interrupt. *)
LEMMA WokenKeeps ==
    ASSUME Inductive, NEW t \in Threads, Woken(t)
    PROVE  Inductive'
<1> USE DEF Inductive, Woken, GoTo, diskVars, headVars, Sem!TakeAfterWaiting
<1>1. TypeOK'
  BY DEF TypeOK, Sem!TypeOK, Places
<1>2. LockInv'
  BY DEF TypeOK, Sem!TypeOK, LockInv, InRequest
<1>3. DeviceInv'
  <2>1. Interrupted
    BY DEF DeviceInv, Pending
  <2>2. Idle'
    BY <2>1 DEF TypeOK, Sem!TypeOK, Interrupted, Idle
  <2>3. \A u \in Threads : at'[u] # "wait"
    BY DEF TypeOK, LockInv, InRequest
  <2> QED
    BY <2>2, <2>3 DEF DeviceInv
<1>4. BufferInv'
  BY DEF TypeOK, BufferInv
<1>5. HeadInv'
  BY DEF HeadInv
<1>6. LatencyCoversSector'
  BY DEF TypeOK, LatencyCoversSector
<1> QED
  BY <1>1, <1>2, <1>3, <1>4, <1>5, <1>6

(* The request is over and the lock given back: no unit is left behind. *)
LEMMA ReturnKeeps ==
    ASSUME Inductive, NEW t \in Threads, Return(t)
    PROVE  Inductive'
<1> USE DEF Inductive, Return, GoTo, diskVars, headVars, Sem!Release
<1>1. TypeOK'
  BY DEF TypeOK, Sem!TypeOK, Places
<1>2. LockInv'
  BY DEF TypeOK, Sem!TypeOK, LockInv, InRequest
<1>3. DeviceInv'
  BY DEF TypeOK, Sem!TypeOK, DeviceInv, Idle, Pending, Interrupted
<1>4. BufferInv'
  BY DEF TypeOK, BufferInv
<1>5. HeadInv'
  BY DEF HeadInv
<1>6. LatencyCoversSector'
  BY DEF TypeOK, LatencyCoversSector
<1> QED
  BY <1>1, <1>2, <1>3, <1>4, <1>5, <1>6

\* An interrupt is pending only while its requester waits.
LEMMA CallBackKeeps ==
    ASSUME Inductive, CallBack
    PROVE  Inductive'
<1> USE DEF Inductive, headVars, Sem!Release
<1>1. PICK d \in due :
        /\ d <= totalTicks
        /\ due' = due \ {d}
        /\ active' = FALSE
        /\ Sem!Release("semaphore")
        /\ UNCHANGED <<at, request, data, sector, headVars, totalTicks>>
  BY DEF CallBack
<1>2. d \in Nat
  BY DEF TypeOK
<1>3. Pending /\ \E t \in Threads : at[t] = "wait"
  BY DEF DeviceInv, Idle, Interrupted
<1>4. TypeOK'
  <2>1. Sem!TypeOK'
    BY <1>1 DEF TypeOK, Sem!TypeOK
  <2> QED
    BY <1>1, <2>1 DEF TypeOK
<1>5. LockInv'
  BY <1>1 DEF TypeOK, Sem!TypeOK, LockInv, InRequest
<1>6. DeviceInv'
  <2>1. Interrupted'
    BY <1>1, <1>3 DEF TypeOK, Sem!TypeOK, Pending, Interrupted
  <2> QED
    BY <1>1, <1>3, <2>1 DEF DeviceInv
<1>7. BufferInv'
  BY <1>1 DEF BufferInv
<1>8. HeadInv'
  BY <1>1, <1>2 DEF TypeOK, HeadInv
<1>9. LatencyCoversSector'
  BY <1>1 DEF LatencyCoversSector
<1> QED
  BY <1>4, <1>5, <1>6, <1>7, <1>8, <1>9

(* Time goes on, while no interrupt is overdue. *)
LEMMA TickKeeps ==
    ASSUME Inductive, Tick
    PROVE  Inductive'
<1> USE DEF Inductive, Tick, diskVars, headVars
<1>1. TypeOK' /\ HeadInv'
  BY DEF TypeOK, Sem!TypeOK, HeadInv
<1>2. LockInv' /\ DeviceInv' /\ BufferInv'
  BY DEF LockInv, InRequest, DeviceInv, Idle, Pending, Interrupted, BufferInv
<1>3. LatencyCoversSector'
  BY DEF LatencyCoversSector
<1> QED
  BY <1>1, <1>2, <1>3

(* A stuttering step changes nothing Inductive speaks of. *)
LEMMA StutteringKeeps ==
    ASSUME Inductive, UNCHANGED vars
    PROVE  Inductive'
<1> USE DEF Inductive, vars, diskVars, headVars
<1>1. TypeOK' /\ HeadInv'
  BY DEF TypeOK, Sem!TypeOK, HeadInv
<1>2. LockInv' /\ DeviceInv' /\ BufferInv'
  BY DEF LockInv, InRequest, DeviceInv, Idle, Pending, Interrupted, BufferInv
<1>3. LatencyCoversSector'
  BY DEF LatencyCoversSector
<1> QED
  BY <1>1, <1>2, <1>3

-----------------------------------------------------------------------------
\* Types, the lock's holder, the state of the device and its head, and the
\* latency of the pending request together are an inductive invariant.
THEOREM InductiveInvariant ==
    SafetySpec => []Inductive
<1>1. Inductive /\ [Next]_vars => Inductive'
  BY CallKeeps, AcquiredKeeps, DiskRequestKeeps, WokenKeeps, ReturnKeeps,
     CallBackKeeps, TickKeeps, StutteringKeeps DEF Next
<1> QED
  BY InitialStates, <1>1, PTL DEF SafetySpec

\* The variables of the disk keep their types.
THEOREM TypeCorrect ==
    SafetySpec => []TypeOK
<1>1. Inductive => TypeOK
  BY DEF Inductive
<1> QED
  BY InductiveInvariant, <1>1, PTL

\* The threads that wait number the pending interrupts and the units of the
\* semaphore together.
LEMMA WaitersAreServed ==
    ASSUME Inductive
    PROVE  Cardinality(due) + count["semaphore"] = Cardinality({t \in Threads : at[t] = "wait"})
<1> USE DEF Inductive
<1>1. CASE \E t \in Threads : at[t] = "wait"
  <2>1. PICK t \in Threads : at[t] = "wait"
    BY <1>1
  <2>2. {u \in Threads : at[u] = "wait"} = {t}
    BY <2>1 DEF LockInv, InRequest
  <2>3. Cardinality({u \in Threads : at[u] = "wait"}) = 1
    BY <2>2, FS_Singleton, Zenon
  <2>4. Pending \/ Interrupted
    BY <2>1 DEF DeviceInv
  <2>5. CASE Pending
    <3>1. Cardinality(due) = 1
      BY <2>5, FS_Singleton, Zenon DEF Pending
    <3> QED
      BY <2>3, <2>5, <3>1 DEF Pending
  <2>6. CASE Interrupted
    BY <2>3, <2>6, FS_EmptySet DEF Interrupted
  <2> QED
    BY <2>4, <2>5, <2>6
<1>2. CASE \A t \in Threads : at[t] # "wait"
  <2>1. {t \in Threads : at[t] = "wait"} = {}
    BY <1>2
  <2>2. due = {} /\ count["semaphore"] = 0
    BY <1>2 DEF DeviceInv, Idle
  <2> QED
    BY <2>1, <2>2, FS_EmptySet
<1> QED
  BY <1>1, <1>2

\* One request is at the disk at a time: the device's ASSERTs hold, every
\* interrupt has one thread to wake, and what was read is still on the disk
\* when the reader gets the CPU (synchdisk.cc, ReadSector and WriteSector).
THEOREM OneRequest ==
    SafetySpec => []OneRequestAtATime
<1>1. Inductive => OneRequestAtATime
  <2> SUFFICES ASSUME Inductive PROVE OneRequestAtATime
    OBVIOUS
  <2>1. \A t \in Threads : at[t] = "holding" => ~active
    BY DEF Inductive, LockInv, DeviceInv, InRequest, Idle
  <2>2. \A t \in Threads : at[t] \in {"wait", "ready"} /\ ~request[t].writing
            => data[t] = sector[request[t].sector]
    BY DEF Inductive, BufferInv
  <2> QED
    BY <2>1, <2>2, WaitersAreServed DEF OneRequestAtATime
<1> QED
  BY InductiveInvariant, <1>1, PTL

\* For every geometry of the disk, a request's latency lets the head pass
\* over the whole of its sector and is not longer than a seek and a
\* revolution (disk.cc, ComputeLatency).
THEOREM LatencyIsCovered ==
    SafetySpec => []LatencyCoversSector
<1>1. Inductive => LatencyCoversSector
  BY DEF Inductive
<1> QED
  BY InductiveInvariant, <1>1, PTL

-----------------------------------------------------------------------------
(***************************************************************************)
(* Each step of the disk and its driver is one of SynchronousDevice, or    *)
(* changes nothing that the callers see.                                   *)
(***************************************************************************)

USE DEF Device!Advance, Device!SetBusy

(* What a place says about a call, and the semaphore for one that waits. *)
LEMMA StageFacts ==
    ASSUME NEW t \in Threads
    PROVE  /\ at[t] = "out" => Stage(t) = "out"
           /\ at[t] = "acquire" => Stage(t) = "calling"
           /\ at[t] = "holding" => Stage(t) = "granted"
           /\ at[t] = "wait" /\ count["semaphore"] = 0 => Stage(t) = "served"
           /\ at[t] = "wait" /\ count["semaphore"] # 0 => Stage(t) = "answered"
           /\ at[t] = "ready" => Stage(t) = "answered"
  BY DEF Stage

(* The same of the next state. *)
LEMMA NextStageFacts ==
    ASSUME NEW t \in Threads
    PROVE  /\ at'[t] = "out" => Stage(t)' = "out"
           /\ at'[t] = "acquire" => Stage(t)' = "calling"
           /\ at'[t] = "holding" => Stage(t)' = "granted"
           /\ at'[t] = "wait" /\ count'["semaphore"] = 0 => Stage(t)' = "served"
           /\ at'[t] = "wait" /\ count'["semaphore"] # 0 => Stage(t)' = "answered"
           /\ at'[t] = "ready" => Stage(t)' = "answered"
  BY DEF Stage

\* A step that moves one thread, and leaves the semaphore alone if another
\* waits for it, moves the call of that thread only.
LEMMA OthersStay ==
    ASSUME TypeOK, NEW t \in Threads, NEW place, GoTo(t, place),
           count'["semaphore"] = count["semaphore"] \/ \A u \in Threads : u # t => ~InRequest(u),
           NEW s, Stage(t)' = s
    PROVE  [u \in Threads |-> Stage(u)]' = [[u \in Threads |-> Stage(u)] EXCEPT ![t] = s]
<1>1. ASSUME NEW u \in Threads, u # t PROVE Stage(u)' = Stage(u)
  <2>1. at'[u] = at[u] /\ at[u] \in Places
    BY <1>1 DEF TypeOK, GoTo
  <2>2. CASE count'["semaphore"] = count["semaphore"]
    BY <2>1, <2>2 DEF Stage
  <2>3. CASE ~InRequest(u)
    BY <2>1, <2>3, StageFacts, NextStageFacts DEF InRequest, Places
  <2> QED
    BY <1>1, <2>2, <2>3
<1> QED
  BY <1>1

(* A request that calls waits for the disk, or has it if nobody else does. *)
LEMMA CallRefines ==
    ASSUME Inductive, NEW t \in Threads, Call(t)
    PROVE  Device!Next
<1> USE DEF Inductive
<1>1. at[t] = "out" /\ active' = active
  BY DEF Call, diskVars
<1>2. Stage(t) = "out"
  BY <1>1, StageFacts
<1>3. CASE Sem!TakeAtOnce(t, "lock") /\ GoTo(t, "holding")
  <2>1. \A u \in Threads : ~InRequest(u)
    BY <1>3 DEF LockInv, Sem!TakeAtOnce
  <2>2. at'[t] = "holding"
    BY <1>3 DEF TypeOK, GoTo
  <2>3. [u \in Threads |-> Stage(u)]' = [[u \in Threads |-> Stage(u)] EXCEPT ![t] = "granted"]
    BY <1>3, <2>1, <2>2, NextStageFacts, OthersStay
  <2>4. \A u \in Threads : Stage(u) \in {"out", "calling"}
    BY <2>1, StageFacts DEF TypeOK, InRequest, Places
  <2>5. Device!Grant(t)
    BY <1>1, <1>2, <2>3, <2>4 DEF Device!Grant
  <2> QED
    BY <2>5 DEF Device!Next
<1>4. CASE Sem!StartWaiting(t, "lock") /\ GoTo(t, "acquire")
  <2>1. at'[t] = "acquire"
    BY <1>4 DEF TypeOK, GoTo
  <2>2. [u \in Threads |-> Stage(u)]' = [[u \in Threads |-> Stage(u)] EXCEPT ![t] = "calling"]
    BY <1>4, <2>1, NextStageFacts, OthersStay DEF Sem!StartWaiting
  <2>3. Device!Call(t)
    BY <1>1, <1>2, <2>2 DEF Device!Call
  <2> QED
    BY <2>3 DEF Device!Next
<1> QED
  BY <1>3, <1>4 DEF Call, P

(* A waiter for the lock has the disk when it gets the lock. *)
LEMMA AcquiredRefines ==
    ASSUME Inductive, NEW t \in Threads, Acquired(t)
    PROVE  Device!Next
<1> USE DEF Inductive
<1>1. at[t] = "acquire" /\ active' = active /\ GoTo(t, "holding") /\ at'[t] = "holding"
  BY DEF Acquired, diskVars, TypeOK, GoTo
<1>2. \A u \in Threads : ~InRequest(u)
  BY DEF Acquired, Sem!TakeAfterWaiting, LockInv
<1>3. [u \in Threads |-> Stage(u)]' = [[u \in Threads |-> Stage(u)] EXCEPT ![t] = "granted"]
  BY <1>1, <1>2, NextStageFacts, OthersStay
<1>4. \A u \in Threads : Stage(u) \in {"out", "calling"}
  BY <1>2, StageFacts DEF TypeOK, InRequest, Places
<1>5. Device!Grant(t)
  BY <1>1, <1>3, <1>4, StageFacts DEF Device!Grant
<1> QED
  BY <1>5 DEF Device!Next

\* The disk is idle and the semaphore has no unit of an earlier request, so
\* the thread that makes one waits.
LEMMA DiskRequestRefines ==
    ASSUME Inductive, NEW t \in Threads, DiskRequest(t)
    PROVE  Device!Next
<1> USE DEF Inductive
<1>1. at[t] = "holding" /\ active' = TRUE /\ P(t, "semaphore", "wait", "ready")
  BY DEF DiskRequest
<1>2. Idle
  BY <1>1 DEF LockInv, DeviceInv, InRequest
<1>3. GoTo(t, "wait") /\ count' = count
  BY <1>1, <1>2 DEF P, Sem!TakeAtOnce, Sem!StartWaiting, Idle
<1>4. at'[t] = "wait" /\ count'["semaphore"] = 0
  BY <1>2, <1>3 DEF TypeOK, GoTo, Idle
<1>5. [u \in Threads |-> Stage(u)]' = [[u \in Threads |-> Stage(u)] EXCEPT ![t] = "served"]
  BY <1>3, <1>4, NextStageFacts, OthersStay
<1>6. Device!Request(t)
  BY <1>1, <1>2, <1>5, StageFacts DEF Device!Request, Idle
<1> QED
  BY <1>6 DEF Device!Next

(* That the semaphore's P returns is not seen by the callers. *)
LEMMA WokenRefines ==
    ASSUME Inductive, NEW t \in Threads, Woken(t)
    PROVE  UNCHANGED Device!vars
<1> USE DEF Inductive
<1>1. /\ at[t] = "wait" /\ count["semaphore"] # 0 /\ active' = active
      /\ GoTo(t, "ready") /\ at'[t] = "ready"
  BY DEF Woken, Sem!TakeAfterWaiting, diskVars, TypeOK, GoTo
<1>2. \A u \in Threads : u # t => ~InRequest(u)
  BY <1>1 DEF LockInv, InRequest
<1>3. Stage(t) = "answered" /\ Stage(t)' = "answered"
  BY <1>1, StageFacts, NextStageFacts
<1>4. [u \in Threads |-> Stage(u)]' = [[u \in Threads |-> Stage(u)] EXCEPT ![t] = "answered"]
  BY <1>1, <1>2, <1>3, OthersStay
<1>5. [u \in Threads |-> Stage(u)]' = [u \in Threads |-> Stage(u)]
  BY <1>3, <1>4
<1> QED
  BY <1>1, <1>5 DEF Device!vars

(* The thread that has been woken returns. *)
LEMMA ReturnRefines ==
    ASSUME Inductive, NEW t \in Threads, Return(t)
    PROVE  Device!Next
<1> USE DEF Inductive
<1>1. /\ at[t] = "ready" /\ active' = active /\ count'["semaphore"] = count["semaphore"]
      /\ GoTo(t, "out") /\ at'[t] = "out"
  BY DEF Return, Sem!Release, diskVars, TypeOK, Sem!TypeOK, GoTo
<1>2. [u \in Threads |-> Stage(u)]' = [[u \in Threads |-> Stage(u)] EXCEPT ![t] = "out"]
  BY <1>1, NextStageFacts, OthersStay
<1>3. Device!Return(t)
  BY <1>1, <1>2, StageFacts DEF Device!Return
<1> QED
  BY <1>3 DEF Device!Next

(* The interrupt answers the one thread whose request is at the disk. *)
LEMMA CallBackRefines ==
    ASSUME Inductive, CallBack
    PROVE  Device!Next
<1> USE DEF Inductive
<1>1. due # {} /\ active' = FALSE /\ Sem!Release("semaphore") /\ at' = at
  BY DEF CallBack
<1>2. PICK t \in Threads : at[t] = "wait"
  BY <1>1 DEF DeviceInv, Idle
<1>3. Pending
  BY <1>1, <1>2 DEF DeviceInv, Interrupted
<1>4. Stage(t) = "served" /\ active
  BY <1>2, <1>3, StageFacts DEF Pending
<1>5. at'[t] = "wait" /\ count'["semaphore"] = 1
  BY <1>1, <1>2, <1>3 DEF Pending, TypeOK, Sem!TypeOK, Sem!Release
<1>6. GoTo(t, "wait") /\ \A u \in Threads : u # t => ~InRequest(u)
  BY <1>1, <1>2 DEF GoTo, TypeOK, LockInv, InRequest
<1>7. [u \in Threads |-> Stage(u)]' = [[u \in Threads |-> Stage(u)] EXCEPT ![t] = "answered"]
  BY <1>5, <1>6, NextStageFacts, OthersStay
<1>8. Device!Answer(t)
  BY <1>1, <1>4, <1>7 DEF Device!Answer
<1> QED
  BY <1>8 DEF Device!Next

\* The driver and the disk implement SynchronousDevice: each caller of
\* ReadSector and WriteSector has the disk to itself and returns after the
\* interrupt for its own request.
THEOREM DriverRefinesDevice ==
    SafetySpec => ImplementsSynchronousDevice
<1>1. Init => Device!Init
  BY StageFacts DEF Init, Device!Init
<1>2. Inductive /\ [Next]_vars => [Device!Next]_(Device!vars)
  <2> SUFFICES ASSUME Inductive, [Next]_vars PROVE Device!Next \/ UNCHANGED Device!vars
    OBVIOUS
  <2>1. CASE Tick \/ UNCHANGED vars
    BY <2>1 DEF Tick, vars, diskVars, Device!vars, Stage
  <2> QED
    BY <2>1, CallRefines, AcquiredRefines, DiskRequestRefines, WokenRefines, ReturnRefines,
       CallBackRefines DEF Next
<1> QED
  BY InductiveInvariant, <1>1, <1>2, PTL DEF SafetySpec, ImplementsSynchronousDevice, Device!Spec

-----------------------------------------------------------------------------
(***************************************************************************)
(* Freedom from deadlock, which RequestCompletes needs at every moment.    *)
(* ENABLED is out of the prover's reach, so the steps that go on are given *)
(* by their guards.                                                        *)
(***************************************************************************)

\* A thread is inside a semaphore exactly while its place says so.
WaitInv == \A t \in Threads :
    /\ t \in inP["lock"] <=> at[t] = "acquire"
    /\ t \in inP["semaphore"] <=> at[t] = "wait"

NobodyIsStuck ==
    (\E t \in Threads : at[t] # "out") =>
        \/ \E t \in Threads : at[t] \in {"holding", "ready"} /\ t \notin inP["lock"] \cup inP["semaphore"]
        \/ \E t \in inP["lock"] : at[t] = "acquire" /\ count["lock"] > 0
        \/ \E t \in inP["semaphore"] : at[t] = "wait" /\ count["semaphore"] > 0
        \/ due # {}

(* Every P that waits is entered and left with its place. *)
LEMMA WaitingKeeps ==
    ASSUME Inductive, WaitInv, [Next]_vars
    PROVE  WaitInv'
<1> USE DEF Inductive, TypeOK, Sem!TypeOK, WaitInv, P, GoTo, diskVars, headVars,
            Sem!TakeAtOnce, Sem!StartWaiting, Sem!TakeAfterWaiting, Sem!Release
<1>1. ASSUME NEW t \in Threads, Call(t) PROVE WaitInv'
  BY <1>1 DEF Call
<1>2. ASSUME NEW t \in Threads, Acquired(t) PROVE WaitInv'
  BY <1>2 DEF Acquired
<1>3. ASSUME NEW t \in Threads, DiskRequest(t) PROVE WaitInv'
  BY <1>3 DEF DiskRequest
<1>4. ASSUME NEW t \in Threads, Woken(t) PROVE WaitInv'
  BY <1>4 DEF Woken
<1>5. ASSUME NEW t \in Threads, Return(t) PROVE WaitInv'
  BY <1>5 DEF Return
<1>6. CASE CallBack
  BY <1>6 DEF CallBack
<1>7. CASE Tick \/ UNCHANGED vars
  BY <1>7 DEF Tick, vars
<1> QED
  BY <1>1, <1>2, <1>3, <1>4, <1>5, <1>6, <1>7 DEF Next

\* While a thread is in a request, a thread can go on, with a unit for its P
\* if it waits, or an interrupt is pending (SynchDisk::ReadSector and
\* WriteSector with CallBack).
THEOREM NoDeadlock ==
    SafetySpec => []NobodyIsStuck
<1>1. Init => WaitInv
  BY DEF Init, Sem!Init, WaitInv
<1>2. Inductive /\ WaitInv /\ [Next]_vars => WaitInv'
  BY WaitingKeeps
<1>3. Inductive /\ WaitInv => NobodyIsStuck
  <2> SUFFICES ASSUME Inductive, WaitInv, NEW t \in Threads, at[t] # "out"
               PROVE  NobodyIsStuck
    BY DEF NobodyIsStuck
  <2>1. CASE \E u \in Threads : at[u] = "wait"
    <3>1. PICK u \in Threads : at[u] = "wait"
      BY <2>1
    <3>2. u \in inP["semaphore"] /\ (due # {} \/ count["semaphore"] > 0)
      BY <3>1 DEF WaitInv, Inductive, DeviceInv, Pending, Interrupted
    <3> QED
      BY <3>1, <3>2 DEF NobodyIsStuck
  <2>2. CASE \E u \in Threads : at[u] \in {"holding", "ready"}
    BY <2>2 DEF WaitInv, NobodyIsStuck
  <2>3. CASE \A u \in Threads : ~InRequest(u)
    <3>1. count["lock"] > 0 /\ at[t] = "acquire"
      BY <2>3 DEF Inductive, TypeOK, Places, LockInv, InRequest
    <3> QED
      BY <3>1 DEF WaitInv, NobodyIsStuck
  <2> QED
    BY <2>1, <2>2, <2>3 DEF InRequest
<1> QED
  BY InductiveInvariant, <1>1, <1>2, <1>3, PTL DEF SafetySpec

=============================================================================
