------------------------ MODULE NachosThreadsProofs ------------------------
(***************************************************************************)
(* Theorems about NachosThreads, for any number of threads and semaphores: *)
(* where threads are, and the ASSERTs that follow; what a context switch   *)
(* carries along, and its order; P and V.                                  *)
(***************************************************************************)
EXTENDS NachosThreads, SequenceTheorems, FiniteSetTheorems, TLAPS

-----------------------------------------------------------------------------
(***************************************************************************)
(* The inductive invariant: where every thread is, and what the place of   *)
(* the current one allows.                                                 *)
(***************************************************************************)
Inductive == TypeOK /\ ThreadPlacement /\ ControlState

USE ThreadsAssumption, SemaphoresAssumption

-----------------------------------------------------------------------------
(***************************************************************************)
(* Queues without repetitions, under List::Append and List::RemoveFront.   *)
(***************************************************************************)

\* Append adds one element, and none twice if it was not in the list.
LEMMA AppendFacts ==
    ASSUME NEW S, NEW q \in Seq(S), NEW e \in S
    PROVE  /\ Append(q, e) \in Seq(S)
           /\ Append(q, e) # <<>>
           /\ Range(Append(q, e)) = Range(q) \cup {e}
           /\ IsInjective(q) /\ e \notin Range(q) => IsInjective(Append(q, e))
<1> DEFINE a == Append(q, e)
<1>1. /\ a \in Seq(S)
      /\ Len(a) = Len(q) + 1
      /\ \A i \in 1..Len(q) : a[i] = q[i]
      /\ a[Len(q) + 1] = e
      /\ DOMAIN a = 1..(Len(q) + 1)
      /\ DOMAIN q = 1..Len(q)
      /\ Len(q) \in Nat
  OBVIOUS
<1>2. a # <<>>
  BY <1>1
<1>3. Range(a) = Range(q) \cup {e}
  BY <1>1 DEF Range
<1>4. IsInjective(q) /\ e \notin Range(q) => IsInjective(a)
  BY <1>1 DEF Range, IsInjective
<1> QED
  BY <1>1, <1>2, <1>3, <1>4

\* RemoveFront takes the head out and leaves the other elements.
LEMMA TailFacts ==
    ASSUME NEW S, NEW q \in Seq(S), q # <<>>, IsInjective(q)
    PROVE  /\ Tail(q) \in Seq(S)
           /\ Head(q) \in S
           /\ Head(q) \in Range(q)
           /\ Range(Tail(q)) = Range(q) \ {Head(q)}
           /\ IsInjective(Tail(q))
<1> DEFINE r == Tail(q)
<1>1. /\ r \in Seq(S)
      /\ Len(q) \in Nat /\ Len(q) > 0
      /\ Len(r) = Len(q) - 1
      /\ \A i \in 1..Len(r) : r[i] = q[i + 1]
      /\ Head(q) = q[1]
      /\ DOMAIN r = 1..Len(r)
      /\ DOMAIN q = 1..Len(q)
      /\ q[1] \in S
  OBVIOUS
<1>2. Head(q) \in Range(q)
  BY <1>1 DEF Range
<1>3. IsInjective(r)
  <2>1. SUFFICES ASSUME NEW i \in 1..Len(r), NEW j \in 1..Len(r), r[i] = r[j]
                 PROVE  i = j
    BY <1>1 DEF IsInjective
  <2>2. i + 1 \in 1..Len(q) /\ j + 1 \in 1..Len(q) /\ q[i + 1] = q[j + 1]
    BY <1>1, <2>1
  <2> QED
    BY <1>1, <2>2 DEF IsInjective
<1>4. ASSUME NEW x \in Range(r) PROVE x \in Range(q) \ {Head(q)}
  <2>1. PICK i \in 1..Len(r) : x = q[i + 1]
    BY <1>1, <1>4 DEF Range
  <2>2. i + 1 \in 1..Len(q) /\ i + 1 # 1 /\ 1 \in 1..Len(q)
    BY <1>1
  <2> QED
    BY <1>1, <2>1, <2>2 DEF Range, IsInjective
<1>5. ASSUME NEW x \in Range(q), x # Head(q) PROVE x \in Range(r)
  <2>1. PICK i \in 1..Len(q) : x = q[i]
    BY <1>1 DEF Range
  <2>2. i - 1 \in 1..Len(r) /\ r[i - 1] = q[i]
    BY <1>1, <1>5, <2>1
  <2> QED
    BY <1>1, <2>1, <2>2 DEF Range
<1> QED
  BY <1>1, <1>2, <1>3, <1>4, <1>5

\* Yield takes the head out and appends the yielding thread.
LEMMA RotateFacts ==
    ASSUME NEW S, NEW q \in Seq(S), q # <<>>, IsInjective(q), NEW e \in S, e \notin Range(q)
    PROVE  /\ Append(Tail(q), e) \in Seq(S)
           /\ Range(Append(Tail(q), e)) = (Range(q) \ {Head(q)}) \cup {e}
           /\ IsInjective(Append(Tail(q), e))
<1> DEFINE r == Tail(q)
<1>1. /\ r \in Seq(S)
      /\ Range(r) = Range(q) \ {Head(q)}
      /\ IsInjective(r)
  BY TailFacts
<1>2. e \notin Range(r)
  BY <1>1
<1> HIDE DEF r
<1>3. /\ Append(r, e) \in Seq(S)
      /\ Range(Append(r, e)) = Range(r) \cup {e}
      /\ IsInjective(Append(r, e))
  BY <1>1, <1>2, AppendFacts
<1> QED
  BY <1>1, <1>3 DEF r

-----------------------------------------------------------------------------
(***************************************************************************)
(* Every step keeps the invariant.                                         *)
(***************************************************************************)

\* The kernel as Initialize leaves it: one thread, which runs.
LEMMA InitInductive == Init => Inductive
<1> SUFFICES ASSUME Init PROVE Inductive
  OBVIOUS
<1>1. TypeOK
  <2>1. user \in [Threads -> BOOLEAN] /\ space \in [Threads -> BOOLEAN]
    BY Zenon DEF Init
  <2>2. inHandler \in BOOLEAN /\ yieldOnReturn \in BOOLEAN
    BY Zenon DEF Init
  <2>3. value \in [Semaphores -> 0..MaxValue] /\ queue \in [Semaphores -> Seq(Threads)]
    BY DEF Init
  <2>4. /\ status \in [Threads -> ThreadStatus]
        /\ at \in [Threads -> Places]
        /\ oldStatus \in [Threads -> {"none", "UserMode", "SystemMode"}]
    BY DEF Init, ThreadStatus, Places
  <2>5. /\ sem \in [Threads -> Semaphores \cup {NULL}]
        /\ userRegisters \in [Threads -> Threads \cup {NULL}]
    BY DEF Init
  <2> QED
    BY <2>1, <2>2, <2>3, <2>4, <2>5 DEF Init, TypeOK
<1>2. Range(<<>>) = {} /\ IsInjective(<<>>)
  BY DEF Range, IsInjective
<1>3. ThreadPlacement
  BY <1>2 DEF Init, ThreadPlacement
<1>4. ControlState
  BY DEF Init, ControlState, InSleep
<1> QED
  BY <1>1, <1>3, <1>4 DEF Inductive

\* A thread that is not just switched in has no corpse to delete.
LEMMA NothingToDestroy ==
    ASSUME Inductive, at[currentThread] \in {"code", "tick"} \/ InSleep(currentThread)
    PROVE  /\ toBeDestroyed = NULL
           /\ allocated \ {toBeDestroyed} = allocated
  BY DEF Inductive, TypeOK, ControlState, InSleep

\* Fork puts a new thread on the ready list and nowhere else.
LEMMA ForkInductive ==
    ASSUME Inductive, NEW t \in Threads, NEW child \in Threads, Fork(t, child)
    PROVE  Inductive'
<1> USE DEF Inductive, Fork, InCode, ReadyToRun, schedVars, threadVars, semVars, intVars, userVars
<1>1. TypeOK'
  BY AppendFacts DEF TypeOK, Places, ThreadStatus
<1>2. ThreadPlacement'
  BY AppendFacts DEF TypeOK, ThreadPlacement, ControlState
<1>3. ControlState'
  BY DEF TypeOK, ThreadPlacement, ControlState, InSleep
<1> QED
  BY <1>1, <1>2, <1>3

\* One pass through P's loop, on entry or after Sleep.
LEMMA TryPInductive ==
    ASSUME Inductive, NEW t \in Threads, NEW s \in Semaphores,
           t = currentThread, status[t] = "RUNNING", at[t] \in {"code", "P"},
           machineStatus # "IdleMode", inHandler = FALSE,
           TryP(t, s), CheckToBeDestroyed,
           UNCHANGED <<currentThread, readyList, oldStatus>>,
           UNCHANGED <<inHandler, yieldOnReturn, machineStatus>>,
           UNCHANGED <<user, space, userRegisters>>,
           cpu' \in Threads \cup {NULL}
    PROVE  Inductive'
<1>0. /\ level' = "IntOff"
      /\ allocated' = allocated \ {toBeDestroyed}
      /\ toBeDestroyed' = NULL
      /\ \A u \in allocated \ allocated' : at[u] = "finish" /\ status[u] = "BLOCKED" /\ sem[u] = NULL
  BY DEF TryP, Sleep, OneTick, CheckToBeDestroyed, Inductive, TypeOK, ControlState
<1>1. CASE value[s] = 0
  <2>1. /\ queue' = [queue EXCEPT ![s] = Append(queue[s], t)]
        /\ sem' = [sem EXCEPT ![t] = s]
        /\ status' = [status EXCEPT ![t] = "BLOCKED"]
        /\ at' = [at EXCEPT ![t] = "P"]
        /\ UNCHANGED value
    BY <1>1 DEF TryP, Sleep
  <2>2. TypeOK'
    BY <1>0, <2>1, AppendFacts DEF Inductive, TypeOK, Places, ThreadStatus
  <2>3. ThreadPlacement'
    <3>1. queue[s] \in Seq(Threads) /\ t \notin Range(queue[s]) /\ IsInjective(queue[s])
      BY <1>0 DEF Inductive, TypeOK, ThreadPlacement
    <3>2. /\ Range(queue'[s]) = Range(queue[s]) \cup {t}
          /\ IsInjective(queue'[s])
          /\ \A r \in Semaphores \ {s} : queue'[r] = queue[r]
      BY <2>1, <3>1, AppendFacts DEF Inductive, TypeOK
    <3> QED
      BY <1>0, <2>1, <3>2 DEF Inductive, TypeOK, ThreadPlacement, ControlState
  <2>4. ControlState'
    BY <1>0, <2>1 DEF Inductive, TypeOK, ThreadPlacement, ControlState, InSleep
  <2> QED
    BY <2>2, <2>3, <2>4 DEF Inductive
<1>2. CASE value[s] # 0
  <2>1. /\ value' = [value EXCEPT ![s] = value[s] - 1]
        /\ sem' = [sem EXCEPT ![t] = NULL]
        /\ at' = [at EXCEPT ![t] = "tick"]
        /\ UNCHANGED <<queue, status>>
    BY <1>2 DEF TryP, OneTick
  <2>2. TypeOK'
    BY <1>0, <1>2, <2>1 DEF Inductive, TypeOK, Places
  <2>3. ThreadPlacement'
    BY <1>0, <2>1 DEF Inductive, TypeOK, ThreadPlacement, ControlState
  <2>4. ControlState'
    BY <1>0, <2>1 DEF Inductive, TypeOK, ThreadPlacement, ControlState, InSleep
  <2> QED
    BY <2>2, <2>3, <2>4 DEF Inductive
<1> QED
  BY <1>1, <1>2

\* P, called by a thread.
LEMMA PInductive ==
    ASSUME Inductive, NEW t \in Threads, NEW s \in Semaphores, P(t, s)
    PROVE  Inductive'
<1>1. /\ t = currentThread
      /\ at[t] = "code"
      /\ level = "IntOn"
      /\ TryP(t, s)
      /\ UNCHANGED <<currentThread, readyList, toBeDestroyed, allocated, oldStatus>>
      /\ UNCHANGED <<inHandler, yieldOnReturn, machineStatus>>
      /\ UNCHANGED <<user, space, cpu, userRegisters>>
  BY DEF P, InKernel, InCode, schedVars, userVars
<1>2. CheckToBeDestroyed
  BY <1>1, NothingToDestroy DEF CheckToBeDestroyed
<1>3. machineStatus # "IdleMode" /\ inHandler = FALSE /\ status[t] = "RUNNING"
  BY <1>1 DEF Inductive, TypeOK, ControlState, InSleep
<1> QED
  BY <1>1, <1>2, <1>3, TryPInductive DEF Inductive, TypeOK

\* P, back from Sleep.
LEMMA ResumePInductive ==
    ASSUME Inductive, NEW t \in Threads, ResumeP(t)
    PROVE  Inductive'
<1>1. /\ t = currentThread
      /\ at[t] = "P"
      /\ status[t] = "RUNNING"
      /\ TryP(t, sem[t])
      /\ CheckToBeDestroyed
      /\ cpu' = IF space[t] THEN userRegisters[t] ELSE cpu
      /\ UNCHANGED <<currentThread, readyList, oldStatus>>
      /\ UNCHANGED <<inHandler, yieldOnReturn, machineStatus>>
      /\ UNCHANGED <<user, space, userRegisters>>
  BY DEF ResumeP, SwitchedIn, Restore
<1>2. /\ machineStatus # "IdleMode" /\ inHandler = FALSE
      /\ sem[t] \in Semaphores
      /\ cpu' \in Threads \cup {NULL}
  BY <1>1 DEF Inductive, TypeOK, ControlState, InSleep
<1> QED
  BY <1>1, <1>2, TryPInductive

\* V between its SetLevel calls, with the caller's code going on at `at''.
LEMMA VBodyInductive ==
    ASSUME Inductive, NEW s \in Semaphores, VBody(s),
           at[currentThread] \in {"code", "tick"} \/ machineStatus = "IdleMode",
           at' = at \/ (at[currentThread] = "code" /\ at' = [at EXCEPT ![currentThread] = "tick"]),
           level' = "IntOff" \/ level' = level,
           inHandler' \in BOOLEAN,
           inHandler' => at'[currentThread] = "tick" \/ machineStatus = "IdleMode",
           level' = "IntOn" => at'[currentThread] = "code",
           UNCHANGED <<currentThread, toBeDestroyed, allocated, sem, oldStatus>>,
           UNCHANGED <<yieldOnReturn, machineStatus>>,
           UNCHANGED <<user, space, cpu, userRegisters>>
    PROVE  Inductive'
<1> DEFINE w == Head(queue[s])
<1>0. /\ toBeDestroyed = NULL
      /\ currentThread \in Threads
      /\ at[currentThread] \in {"code", "tick"} \/ InSleep(currentThread)
      /\ at' \in [Threads -> Places]
      /\ level' \in {"IntOn", "IntOff"}
      /\ \A t \in Threads : at'[t] = "P" <=> at[t] = "P"
  <2>1. /\ currentThread \in Threads
        /\ at[currentThread] \in {"code", "tick"} \/ InSleep(currentThread)
        /\ at \in [Threads -> Places]
        /\ level \in {"IntOn", "IntOff"}
    BY DEF Inductive, TypeOK, ControlState
  <2>2. at' \in [Threads -> Places]
    BY <2>1 DEF Places
  <2>3. \A t \in Threads : at'[t] = "P" <=> at[t] = "P"
    BY <2>1
  <2> QED
    BY <2>1, <2>2, <2>3, NothingToDestroy
<1>1. CASE queue[s] # <<>>
  <2>1. /\ queue' = [queue EXCEPT ![s] = Tail(queue[s])]
        /\ status' = [status EXCEPT ![w] = "READY"]
        /\ readyList' = Append(readyList, w)
        /\ value[s] < MaxValue
        /\ value' = [value EXCEPT ![s] = value[s] + 1]
    BY <1>1 DEF VBody, ReadyToRun
  <2>2. /\ queue[s] \in Seq(Threads) /\ IsInjective(queue[s])
        /\ readyList \in Seq(Threads) /\ IsInjective(readyList)
    BY DEF Inductive, TypeOK, ThreadPlacement
  <2>3. /\ Tail(queue[s]) \in Seq(Threads)
        /\ w \in Threads
        /\ w \in Range(queue[s])
        /\ Range(Tail(queue[s])) = Range(queue[s]) \ {w}
        /\ IsInjective(Tail(queue[s]))
    BY <1>1, <2>2, TailFacts
  <2>4. w \in allocated /\ at[w] = "P" /\ sem[w] = s /\ status[w] = "BLOCKED"
    BY <2>3 DEF Inductive, ThreadPlacement
  <2>5. w \notin Range(readyList)
    BY <2>3, <2>4 DEF Inductive, ThreadPlacement
  <2>6. /\ readyList' \in Seq(Threads)
        /\ Range(readyList') = Range(readyList) \cup {w}
        /\ IsInjective(readyList')
    BY <2>1, <2>2, <2>3, <2>5, AppendFacts
  <2>7. at'[w] = "P" /\ status'[w] = "READY" /\ \A t \in Threads \ {w} : status'[t] = status[t]
    BY <1>0, <2>1, <2>3, <2>4 DEF Inductive, TypeOK
  <2>8. TypeOK'
    BY <1>0, <2>1, <2>3, <2>6 DEF Inductive, TypeOK, ThreadStatus
  <2>9. /\ queue'[s] = Tail(queue[s])
        /\ \A r \in Semaphores \ {s} : queue'[r] = queue[r]
    BY <2>1 DEF Inductive, TypeOK
  <2>10. ThreadPlacement'
    <3>1. IsInjective(readyList') /\ \A r \in Semaphores : IsInjective(queue'[r])
      BY <2>3, <2>6, <2>9 DEF Inductive, ThreadPlacement
    <3>2. ASSUME NEW t \in Threads
          PROVE  t \in Range(readyList') <=> t \in allocated /\ status'[t] = "READY"
      BY <2>4, <2>6, <2>7 DEF Inductive, ThreadPlacement
    <3>3. ASSUME NEW t \in Threads, NEW r \in Semaphores
          PROVE  t \in Range(queue'[r]) <=>
                   t \in allocated /\ at'[t] = "P" /\ sem[t] = r /\ status'[t] = "BLOCKED"
      BY <1>0, <2>3, <2>4, <2>7, <2>9 DEF Inductive, ThreadPlacement
    <3>4. ASSUME NEW t \in allocated
          PROVE  \/ status'[t] = "READY"
                 \/ status'[t] = "RUNNING" /\ t = currentThread
                 \/ status'[t] = "BLOCKED" /\ at'[t] = "P" /\ sem[t] \in Semaphores
                 \/ status'[t] = "BLOCKED" /\ at'[t] = "finish" /\ t \in {currentThread, toBeDestroyed}
      BY <1>0, <2>7 DEF Inductive, TypeOK, ThreadPlacement
    <3> QED
      BY <3>1, <3>2, <3>3, <3>4 DEF ThreadPlacement, Inductive, TypeOK
  <2>11. ControlState'
    BY <1>0, <2>4, <2>7 DEF Inductive, TypeOK, ThreadPlacement, ControlState, InSleep
  <2> QED
    BY <2>8, <2>10, <2>11 DEF Inductive
<1>2. CASE queue[s] = <<>>
  <2>1. /\ UNCHANGED <<queue, status, readyList>>
        /\ value[s] < MaxValue
        /\ value' = [value EXCEPT ![s] = value[s] + 1]
    BY <1>2 DEF VBody
  <2>2. TypeOK'
    BY <1>0, <2>1 DEF Inductive, TypeOK
  <2>3. ThreadPlacement'
    BY <1>0, <2>1 DEF Inductive, TypeOK, ThreadPlacement, ControlState
  <2>4. ControlState'
    BY <1>0, <2>1 DEF Inductive, TypeOK, ThreadPlacement, ControlState, InSleep
  <2> QED
    BY <2>2, <2>3, <2>4 DEF Inductive
<1> QED
  BY <1>1, <1>2

\* V, called by a thread.
LEMMA VInductive ==
    ASSUME Inductive, NEW t \in Threads, NEW s \in Semaphores, V(t, s)
    PROVE  Inductive'
<1>1. /\ t = currentThread
      /\ at[t] = "code"
      /\ level = "IntOn"
      /\ at' = [at EXCEPT ![t] = "tick"]
      /\ level' = "IntOff"
      /\ VBody(s)
      /\ UNCHANGED <<currentThread, toBeDestroyed, allocated, sem, oldStatus>>
      /\ UNCHANGED <<inHandler, yieldOnReturn, machineStatus>>
      /\ UNCHANGED <<user, space, cpu, userRegisters>>
  BY DEF V, InKernel, InCode, OneTick, userVars
<1>2. inHandler' \in BOOLEAN
  BY <1>1, Zenon DEF Inductive, TypeOK
<1>3. at'[currentThread] = "tick"
  BY <1>1 DEF Inductive, TypeOK
<1> QED
  BY <1>1, <1>2, <1>3, VBodyInductive

\* V, called by an interrupt handler.
LEMMA DeviceInterruptInductive ==
    ASSUME Inductive, NEW s \in DeviceSemaphores, DeviceInterrupt(s)
    PROVE  Inductive'
<1>1. /\ s \in Semaphores
      /\ VBody(s)
      /\ UNCHANGED <<currentThread, toBeDestroyed, allocated, sem, oldStatus>>
      /\ UNCHANGED <<yieldOnReturn, machineStatus>>
      /\ UNCHANGED <<user, space, cpu, userRegisters>>
  BY DEF DeviceInterrupt, userVars
<1>2. /\ at' = at
      /\ level' = level
      /\ at[currentThread] = "tick" \/ machineStatus = "IdleMode"
  BY DEF DeviceInterrupt, CheckingInterrupts
<1>3. level = "IntOn" => at[currentThread] = "code"
  BY DEF Inductive, ControlState
<1>4. inHandler' \in BOOLEAN
  BY Zenon DEF DeviceInterrupt
<1> QED
  BY <1>1, <1>2, <1>3, <1>4, VBodyInductive

\* Yield with interrupts off, called by a thread or by OneTick.
LEMMA YieldCPUInductive ==
    ASSUME Inductive, NEW t \in Threads, t = currentThread,
           at[t] \in {"code", "tick"}, YieldCPU(t),
           inHandler' = FALSE,
           oldStatus' \in [Threads -> {"none", "UserMode", "SystemMode"}],
           yieldOnReturn' \in BOOLEAN,
           machineStatus' \in {"SystemMode", "UserMode"},
           UNCHANGED <<allocated, sem, value, queue, user, space, cpu>>
    PROVE  Inductive'
<1>0. /\ status[t] = "RUNNING"
      /\ t \in allocated
      /\ toBeDestroyed = NULL
      /\ t \notin Range(readyList)
      /\ \A s \in Semaphores : t \notin Range(queue[s])
  BY NothingToDestroy DEF Inductive, TypeOK, ThreadPlacement, ControlState
<1>1. CASE readyList = <<>>
  <2>1. /\ at' = [at EXCEPT ![t] = "tick"]
        /\ level' = "IntOff"
        /\ UNCHANGED <<currentThread, readyList, toBeDestroyed, status, userRegisters>>
    BY <1>1 DEF YieldCPU, OneTick, schedVars
  <2>2. TypeOK'
    BY <2>1 DEF Inductive, TypeOK, Places
  <2>3. ThreadPlacement'
    BY <1>0, <2>1 DEF Inductive, TypeOK, ThreadPlacement, ControlState
  <2>4. ControlState'
    BY <1>0, <2>1 DEF Inductive, TypeOK, ControlState, InSleep
  <2> QED
    BY <2>2, <2>3, <2>4 DEF Inductive
<1>2. CASE readyList # <<>>
  <2> DEFINE next == Head(readyList)
  <2>1. /\ readyList' = Append(Tail(readyList), t)
        /\ status' = [status EXCEPT ![t] = "READY", ![next] = "RUNNING"]
        /\ at' = [at EXCEPT ![t] = "yield"]
        /\ level' = "IntOff"
        /\ currentThread' = next
        /\ toBeDestroyed' = toBeDestroyed
        /\ userRegisters' = IF space[t] THEN [userRegisters EXCEPT ![t] = cpu] ELSE userRegisters
    BY <1>2 DEF YieldCPU, Run
  <2>2. /\ readyList \in Seq(Threads) /\ IsInjective(readyList)
    BY DEF Inductive, TypeOK, ThreadPlacement
  <2>3. /\ Tail(readyList) \in Seq(Threads)
        /\ next \in Threads
        /\ next \in Range(readyList)
        /\ Range(Tail(readyList)) = Range(readyList) \ {next}
        /\ IsInjective(Tail(readyList))
    BY <1>2, <2>2, TailFacts
  <2>4. /\ readyList' \in Seq(Threads)
        /\ Range(readyList') = (Range(readyList) \ {next}) \cup {t}
        /\ IsInjective(readyList')
    BY <1>0, <1>2, <2>1, <2>2, RotateFacts
  <2>5. /\ next # t
        /\ next \in allocated
        /\ status[next] = "READY"
        /\ at[next] \in {"begin", "yield", "P"}
    BY <1>0, <2>3 DEF Inductive, ThreadPlacement, ControlState
  <2>6. /\ status'[t] = "READY" /\ at'[t] = "yield"
        /\ status'[next] = "RUNNING" /\ at'[next] = at[next]
        /\ \A u \in Threads \ {t, next} : status'[u] = status[u] /\ at'[u] = at[u]
    BY <2>1, <2>3, <2>5 DEF Inductive, TypeOK
  <2>7. TypeOK'
    BY <2>1, <2>3, <2>4 DEF Inductive, TypeOK, Places, ThreadStatus
  <2>8. ThreadPlacement'
    <3>1. IsInjective(readyList') /\ \A r \in Semaphores : IsInjective(queue'[r])
      BY <2>4 DEF Inductive, ThreadPlacement
    <3>2. ASSUME NEW u \in Threads
          PROVE  u \in Range(readyList') <=> u \in allocated /\ status'[u] = "READY"
      BY <1>0, <2>4, <2>5, <2>6 DEF Inductive, ThreadPlacement
    <3>3. ASSUME NEW u \in Threads, NEW r \in Semaphores
          PROVE  u \in Range(queue'[r]) <=>
                   u \in allocated /\ at'[u] = "P" /\ sem[u] = r /\ status'[u] = "BLOCKED"
      BY <1>0, <2>5, <2>6 DEF Inductive, ThreadPlacement
    <3>4. ASSUME NEW u \in allocated
          PROVE  \/ status'[u] = "READY"
                 \/ status'[u] = "RUNNING" /\ u = currentThread'
                 \/ status'[u] = "BLOCKED" /\ at'[u] = "P" /\ sem[u] \in Semaphores
                 \/ status'[u] = "BLOCKED" /\ at'[u] = "finish" /\ u \in {currentThread', toBeDestroyed}
      BY <1>0, <2>1, <2>5, <2>6 DEF Inductive, TypeOK, ThreadPlacement
    <3> QED
      BY <2>1, <3>1, <3>2, <3>3, <3>4 DEF ThreadPlacement, Inductive, TypeOK
  <2>9. ControlState'
    BY <1>0, <2>1, <2>5, <2>6 DEF Inductive, TypeOK, ThreadPlacement, ControlState, InSleep
  <2> QED
    BY <2>7, <2>8, <2>9 DEF Inductive
<1> QED
  BY <1>1, <1>2

\* Yield, called by a thread.
LEMMA YieldInductive ==
    ASSUME Inductive, NEW t \in Threads, Yield(t)
    PROVE  Inductive'
<1>1. /\ t = currentThread
      /\ at[t] = "code"
      /\ YieldCPU(t)
      /\ UNCHANGED <<allocated, sem, value, queue, user, space, cpu>>
      /\ UNCHANGED <<oldStatus, inHandler, yieldOnReturn, machineStatus>>
  BY DEF Yield, InKernel, InCode, semVars
<1>2. machineStatus # "IdleMode" /\ inHandler = FALSE
  BY <1>1 DEF Inductive, TypeOK, ControlState, InSleep
<1>3. yieldOnReturn' \in BOOLEAN
  BY <1>1, Zenon DEF Inductive, TypeOK
<1>4. /\ oldStatus' \in [Threads -> {"none", "UserMode", "SystemMode"}]
      /\ machineStatus' \in {"SystemMode", "UserMode"}
      /\ inHandler' = FALSE
  BY <1>1, <1>2 DEF Inductive, TypeOK
<1> QED
  BY <1>1, <1>3, <1>4, YieldCPUInductive

\* Yield, called by OneTick for the timer.
LEMMA TickYieldInductive ==
    ASSUME Inductive, NEW t \in Threads, TickYield(t)
    PROVE  Inductive'
<1>1. /\ t = currentThread
      /\ at[t] = "tick"
      /\ YieldCPU(t)
      /\ inHandler' = FALSE
      /\ yieldOnReturn' = FALSE
      /\ oldStatus' = [oldStatus EXCEPT ![t] = IF oldStatus[t] = "none" THEN machineStatus ELSE oldStatus[t]]
      /\ machineStatus' = "SystemMode"
      /\ UNCHANGED <<allocated, sem, value, queue, user, space, cpu>>
  BY DEF TickYield, semVars
<1>2. machineStatus \in {"SystemMode", "UserMode"}
  BY <1>1 DEF Inductive, TypeOK, ControlState, InSleep
<1>3. oldStatus' \in [Threads -> {"none", "UserMode", "SystemMode"}]
  BY <1>1, <1>2 DEF Inductive, TypeOK
<1>4. /\ machineStatus' \in {"SystemMode", "UserMode"}
      /\ yieldOnReturn' \in BOOLEAN
      /\ at[t] \in {"code", "tick"}
  BY <1>1
<1> QED
  BY <1>1, <1>3, <1>4, YieldCPUInductive

\* The head of the ready list gets the CPU from a sleeping thread, which may
\* be that head itself.
LEMMA DispatchInductive ==
    ASSUME Inductive, NEW t \in Threads, Dispatch(t)
    PROVE  Inductive'
<1> DEFINE next == Head(readyList)
<1>1. /\ InSleep(t)
      /\ machineStatus # "IdleMode"
      /\ readyList # <<>>
      /\ readyList' = Tail(readyList)
      /\ status' = [status EXCEPT ![next] = "RUNNING"]
      /\ toBeDestroyed' = IF at[t] = "finish" THEN t ELSE toBeDestroyed
      /\ userRegisters' = IF space[t] THEN [userRegisters EXCEPT ![t] = cpu] ELSE userRegisters
      /\ currentThread' = next
      /\ UNCHANGED <<allocated, at, sem, oldStatus, value, queue>>
      /\ UNCHANGED <<level, inHandler, yieldOnReturn, machineStatus>>
      /\ UNCHANGED <<user, space, cpu>>
  BY DEF Dispatch, Run, InSleep, semVars, intVars
<1>2. /\ t = currentThread
      /\ at[t] \in {"P", "finish"}
      /\ status[t] # "RUNNING"
      /\ toBeDestroyed = NULL
      /\ t \in allocated
      /\ level = "IntOff"
      /\ inHandler = FALSE
  BY <1>1, NothingToDestroy DEF InSleep, Inductive, TypeOK, ControlState
<1>3. readyList \in Seq(Threads) /\ IsInjective(readyList)
  BY DEF Inductive, TypeOK, ThreadPlacement
<1>4. /\ readyList' \in Seq(Threads)
      /\ next \in Threads
      /\ next \in Range(readyList)
      /\ Range(readyList') = Range(readyList) \ {next}
      /\ IsInjective(readyList')
  BY <1>1, <1>3, TailFacts
<1>5. /\ next \in allocated
      /\ status[next] = "READY"
      /\ at[next] \in {"begin", "yield", "P"}
  BY <1>4 DEF Inductive, ThreadPlacement, ControlState
<1>6. status'[next] = "RUNNING" /\ \A u \in Threads \ {next} : status'[u] = status[u]
  BY <1>1, <1>4 DEF Inductive, TypeOK
<1>7. TypeOK'
  BY <1>1, <1>2, <1>4 DEF Inductive, TypeOK, ThreadStatus
<1>8. ThreadPlacement'
  <2>1. ASSUME NEW u \in Threads
        PROVE  u \in Range(readyList') <=> u \in allocated /\ status'[u] = "READY"
    BY <1>4, <1>5, <1>6 DEF Inductive, ThreadPlacement
  <2>2. ASSUME NEW u \in Threads, NEW r \in Semaphores
        PROVE  u \in Range(queue[r]) <=>
                 u \in allocated /\ at[u] = "P" /\ sem[u] = r /\ status'[u] = "BLOCKED"
    BY <1>4, <1>5, <1>6 DEF Inductive, ThreadPlacement
  <2>3. ASSUME NEW u \in allocated
        PROVE  \/ status'[u] = "READY"
               \/ status'[u] = "RUNNING" /\ u = currentThread'
               \/ status'[u] = "BLOCKED" /\ at[u] = "P" /\ sem[u] \in Semaphores
               \/ status'[u] = "BLOCKED" /\ at[u] = "finish" /\ u \in {currentThread', toBeDestroyed'}
    <3>1. CASE u = next
      BY <1>1, <1>6, <3>1
    <3>2. CASE u # next
      <4>1. u \in Threads /\ status'[u] = status[u]
        BY <1>6, <3>2 DEF Inductive, TypeOK
      <4> QED
        BY <1>1, <1>2, <4>1 DEF Inductive, ThreadPlacement
    <3> QED
      BY <3>1, <3>2
  <2>4. \A r \in Semaphores : IsInjective(queue[r])
    BY DEF Inductive, ThreadPlacement
  <2> QED
    BY <1>1, <1>4, <2>1, <2>2, <2>3, <2>4 DEF ThreadPlacement, Inductive, TypeOK
<1>9. ControlState'
  BY <1>1, <1>2, <1>4, <1>5, <1>6 DEF Inductive, TypeOK, ThreadPlacement, ControlState, InSleep
<1> QED
  BY <1>7, <1>8, <1>9 DEF Inductive

\* A thread that SWITCH starts or resumes, and that goes on into OneTick.
LEMMA SwitchedInInductive ==
    ASSUME Inductive, NEW t \in Threads, t = currentThread,
           at[t] \in {"begin", "yield"}, CheckToBeDestroyed, OneTick(t),
           cpu' \in Threads \cup {NULL},
           UNCHANGED <<currentThread, readyList, status, sem, oldStatus>>,
           UNCHANGED <<value, queue, inHandler, yieldOnReturn, machineStatus>>,
           UNCHANGED <<user, space, userRegisters>>
    PROVE  Inductive'
<1>1. /\ at' = [at EXCEPT ![t] = "tick"]
      /\ level' = "IntOff"
      /\ allocated' = allocated \ {toBeDestroyed}
      /\ toBeDestroyed' = NULL
      /\ status[t] = "RUNNING"
      /\ \A u \in allocated \ allocated' : at[u] = "finish" /\ status[u] = "BLOCKED" /\ u # t
  BY DEF OneTick, CheckToBeDestroyed, Inductive, TypeOK, ControlState
<1>2. TypeOK'
  BY <1>1 DEF Inductive, TypeOK, Places
<1>3. ThreadPlacement'
  BY <1>1 DEF Inductive, TypeOK, ThreadPlacement, ControlState
<1>4. ControlState'
  BY <1>1 DEF Inductive, TypeOK, ControlState, InSleep
<1> QED
  BY <1>2, <1>3, <1>4 DEF Inductive

\* Begin, the first thing a new thread does.
LEMMA BeginInductive ==
    ASSUME Inductive, NEW t \in Threads, Begin(t)
    PROVE  Inductive'
<1>1. /\ t = currentThread
      /\ at[t] = "begin"
      /\ CheckToBeDestroyed
      /\ OneTick(t)
      /\ UNCHANGED <<currentThread, readyList, status, sem, oldStatus>>
      /\ UNCHANGED <<value, queue, inHandler, yieldOnReturn, machineStatus>>
      /\ UNCHANGED <<user, space, cpu, userRegisters>>
  BY DEF Begin, SwitchedIn, semVars, userVars
<1>2. cpu' \in Threads \cup {NULL}
  BY <1>1 DEF Inductive, TypeOK
<1> QED
  BY <1>1, <1>2, SwitchedInInductive

\* Yield, back from Run.
LEMMA ResumeYieldInductive ==
    ASSUME Inductive, NEW t \in Threads, ResumeYield(t)
    PROVE  Inductive'
<1>1. /\ t = currentThread
      /\ at[t] = "yield"
      /\ CheckToBeDestroyed
      /\ OneTick(t)
      /\ cpu' = IF space[t] THEN userRegisters[t] ELSE cpu
      /\ UNCHANGED <<currentThread, readyList, status, sem, oldStatus>>
      /\ UNCHANGED <<value, queue, inHandler, yieldOnReturn, machineStatus>>
      /\ UNCHANGED <<user, space, userRegisters>>
  BY DEF ResumeYield, SwitchedIn, Restore, semVars
<1>2. cpu' \in Threads \cup {NULL}
  BY <1>1 DEF Inductive, TypeOK
<1> QED
  BY <1>1, <1>2, SwitchedInInductive

\* Finish takes the thread off the CPU for good; nobody holds it elsewhere.
LEMMA FinishInductive ==
    ASSUME Inductive, NEW t \in Threads, Finish(t)
    PROVE  Inductive'
<1>1. /\ t = currentThread
      /\ at[t] = "code"
      /\ level = "IntOn"
      /\ status' = [status EXCEPT ![t] = "BLOCKED"]
      /\ at' = [at EXCEPT ![t] = "finish"]
      /\ level' = "IntOff"
      /\ UNCHANGED <<currentThread, readyList, toBeDestroyed, allocated, sem, oldStatus>>
      /\ UNCHANGED <<value, queue, inHandler, yieldOnReturn, machineStatus>>
      /\ UNCHANGED <<user, space, cpu, userRegisters>>
  BY DEF Finish, InKernel, InCode, Sleep, schedVars, semVars, userVars
<1>2. TypeOK'
  BY <1>1 DEF Inductive, TypeOK, Places, ThreadStatus
<1>3. ThreadPlacement'
  BY <1>1 DEF Inductive, TypeOK, ThreadPlacement, ControlState
<1>4. ControlState'
  BY <1>1, NothingToDestroy DEF Inductive, TypeOK, ControlState, InSleep
<1> QED
  BY <1>2, <1>3, <1>4 DEF Inductive

\* A step of the current thread that leaves every queue alone and ends in
\* its own code or in OneTick.
LEMMA LocalStepInductive ==
    ASSUME Inductive, NEW t \in Threads, t = currentThread, at[t] \in {"code", "tick"},
           at' = [at EXCEPT ![t] = "code"] \/ (at' = [at EXCEPT ![t] = "tick"] /\ level' = "IntOff"),
           level' \in {"IntOn", "IntOff"},
           machineStatus' \in {"SystemMode", "UserMode"},
           inHandler' \in BOOLEAN, inHandler' => at'[t] = "tick",
           yieldOnReturn' \in BOOLEAN,
           oldStatus' \in [Threads -> {"none", "UserMode", "SystemMode"}],
           user' \in [Threads -> BOOLEAN],
           space' \in [Threads -> BOOLEAN],
           cpu' \in Threads \cup {NULL},
           UNCHANGED <<currentThread, readyList, toBeDestroyed, allocated>>,
           UNCHANGED <<status, sem, value, queue, userRegisters>>
    PROVE  Inductive'
<1>1. at' \in [Threads -> Places] /\ at'[t] \in {"code", "tick"} /\ \A u \in Threads \ {t} : at'[u] = at[u]
  BY DEF Inductive, TypeOK, Places
<1>2. TypeOK'
  BY <1>1 DEF Inductive, TypeOK
<1>3. ThreadPlacement'
  BY <1>1 DEF Inductive, TypeOK, ThreadPlacement, ControlState
<1>4. ControlState'
  BY <1>1, NothingToDestroy DEF Inductive, TypeOK, ControlState, InSleep
<1> QED
  BY <1>2, <1>3, <1>4 DEF Inductive

\* In its code or in OneTick a thread is not idling, and in its code no
\* handler runs.
LEMMA NotIdle ==
    ASSUME Inductive, at[currentThread] \in {"code", "tick"}
    PROVE  /\ machineStatus \in {"SystemMode", "UserMode"}
           /\ at[currentThread] = "code" => inHandler = FALSE
           /\ at = [at EXCEPT ![currentThread] = at[currentThread]]
           /\ at[currentThread] = "tick" => level = "IntOff"
  BY DEF Inductive, TypeOK, ControlState, InSleep

\* The parts of the type invariant that are about Booleans, step by step.
LEMMA UserTypes ==
    ASSUME Inductive, NEW t \in Threads, NEW b \in BOOLEAN
    PROVE  /\ [user EXCEPT ![t] = b] \in [Threads -> BOOLEAN]
           /\ [space EXCEPT ![t] = b] \in [Threads -> BOOLEAN]
           /\ user \in [Threads -> BOOLEAN]
           /\ space \in [Threads -> BOOLEAN]
           /\ inHandler \in BOOLEAN
           /\ yieldOnReturn \in BOOLEAN
  BY DEF Inductive, TypeOK

\* The end of Initialize turns interrupts on.
LEMMA EnableInductive ==
    ASSUME Inductive, NEW t \in Threads, Enable(t)
    PROVE  Inductive'
<1>1. /\ t = currentThread
      /\ at[t] = "code"
      /\ at' = [at EXCEPT ![t] = "tick"]
      /\ level' = "IntOff"
      /\ UNCHANGED <<currentThread, readyList, toBeDestroyed, allocated>>
      /\ UNCHANGED <<status, sem, oldStatus, value, queue, userRegisters>>
      /\ UNCHANGED <<inHandler, yieldOnReturn, machineStatus, user, space, cpu>>
  BY DEF Enable, InCode, OneTick, schedVars, semVars, userVars
<1> QED
  BY <1>1, NotIdle, UserTypes, LocalStepInductive DEF Inductive, TypeOK

\* A user instruction ends in OneTick.
LEMMA UserInstructionInductive ==
    ASSUME Inductive, NEW t \in Threads, UserInstruction(t)
    PROVE  Inductive'
<1>1. /\ t = currentThread
      /\ at[t] = "code"
      /\ at' = [at EXCEPT ![t] = "tick"]
      /\ level' = "IntOff"
      /\ UNCHANGED <<currentThread, readyList, toBeDestroyed, allocated>>
      /\ UNCHANGED <<status, sem, oldStatus, value, queue, userRegisters>>
      /\ UNCHANGED <<inHandler, yieldOnReturn, machineStatus, user, space, cpu>>
  BY DEF UserInstruction, InCode, OneTick, schedVars, semVars, userVars
<1> QED
  BY <1>1, NotIdle, UserTypes, LocalStepInductive DEF Inductive, TypeOK

\* Execute starts a user program.
LEMMA ExecuteInductive ==
    ASSUME Inductive, NEW t \in Threads, Execute(t)
    PROVE  Inductive'
<1>1. /\ t = currentThread
      /\ at[t] = "code"
      /\ space' = [space EXCEPT ![t] = TRUE]
      /\ user' = [user EXCEPT ![t] = TRUE]
      /\ cpu' = t
      /\ machineStatus' = "UserMode"
      /\ UNCHANGED <<currentThread, readyList, toBeDestroyed, allocated>>
      /\ UNCHANGED <<status, at, sem, oldStatus, value, queue, userRegisters>>
      /\ UNCHANGED <<level, inHandler, yieldOnReturn>>
  BY DEF Execute, InKernel, InCode, schedVars, threadVars, semVars
<1> QED
  BY <1>1, NotIdle, UserTypes, LocalStepInductive DEF Inductive, TypeOK

\* An exception enters the kernel.
LEMMA EnterKernelInductive ==
    ASSUME Inductive, NEW t \in Threads, EnterKernel(t)
    PROVE  Inductive'
<1>1. /\ t = currentThread
      /\ at[t] = "code"
      /\ user' = [user EXCEPT ![t] = FALSE]
      /\ machineStatus' = "SystemMode"
      /\ UNCHANGED <<currentThread, readyList, toBeDestroyed, allocated>>
      /\ UNCHANGED <<status, at, sem, oldStatus, value, queue, userRegisters>>
      /\ UNCHANGED <<level, inHandler, yieldOnReturn, space, cpu>>
  BY DEF EnterKernel, InCode, schedVars, threadVars, semVars
<1> QED
  BY <1>1, NotIdle, UserTypes, LocalStepInductive DEF Inductive, TypeOK

\* ExceptionHandler returns to the user program.
LEMMA LeaveKernelInductive ==
    ASSUME Inductive, NEW t \in Threads, LeaveKernel(t)
    PROVE  Inductive'
<1>1. /\ t = currentThread
      /\ at[t] = "code"
      /\ at' = [at EXCEPT ![t] = "tick"]
      /\ level' = "IntOff"
      /\ user' = [user EXCEPT ![t] = TRUE]
      /\ machineStatus' = "UserMode"
      /\ UNCHANGED <<currentThread, readyList, toBeDestroyed, allocated>>
      /\ UNCHANGED <<status, sem, oldStatus, value, queue, userRegisters>>
      /\ UNCHANGED <<inHandler, yieldOnReturn, space, cpu>>
  BY DEF LeaveKernel, InKernel, InCode, OneTick, schedVars, semVars
<1> QED
  BY <1>1, NotIdle, UserTypes, LocalStepInductive DEF Inductive, TypeOK

\* OneTick returns without a switch.
LEMMA TickReturnInductive ==
    ASSUME Inductive, NEW t \in Threads, TickReturn(t)
    PROVE  Inductive'
<1>1. /\ t = currentThread
      /\ at[t] = "tick"
      /\ inHandler' = FALSE
      /\ at' = [at EXCEPT ![t] = "code"]
      /\ level' = "IntOn"
      /\ machineStatus' = IF oldStatus[t] = "none" THEN machineStatus ELSE oldStatus[t]
      /\ oldStatus' = [oldStatus EXCEPT ![t] = "none"]
      /\ UNCHANGED <<currentThread, readyList, toBeDestroyed, allocated>>
      /\ UNCHANGED <<status, sem, value, queue, userRegisters>>
      /\ UNCHANGED <<yieldOnReturn, user, space, cpu>>
  BY DEF TickReturn, schedVars, semVars, userVars
<1>2. /\ machineStatus' \in {"SystemMode", "UserMode"}
      /\ oldStatus' \in [Threads -> {"none", "UserMode", "SystemMode"}]
  BY <1>1, NotIdle DEF Inductive, TypeOK
<1> QED
  BY <1>1, <1>2, UserTypes, LocalStepInductive DEF Inductive, TypeOK

\* A step of the interrupt machinery that touches no thread and no queue.
LEMMA MachineStepInductive ==
    ASSUME Inductive,
           machineStatus' \in {"IdleMode", "SystemMode", "UserMode"},
           machineStatus' = "IdleMode" => InSleep(currentThread),
           inHandler' \in BOOLEAN,
           inHandler' => at[currentThread] = "tick" \/ machineStatus' = "IdleMode",
           yieldOnReturn' \in BOOLEAN,
           UNCHANGED <<currentThread, readyList, toBeDestroyed, allocated>>,
           UNCHANGED <<status, at, sem, oldStatus, value, queue, level>>,
           UNCHANGED <<user, space, cpu, userRegisters>>
    PROVE  Inductive'
<1>1. TypeOK'
  BY DEF Inductive, TypeOK
<1>2. ThreadPlacement'
  BY DEF Inductive, TypeOK, ThreadPlacement
<1>3. ControlState'
  BY DEF Inductive, TypeOK, ControlState, InSleep
<1> QED
  BY <1>1, <1>2, <1>3 DEF Inductive

\* The timer's handler moves no thread.
LEMMA TimerInterruptInductive ==
    ASSUME Inductive, TimerInterrupt
    PROVE  Inductive'
<1>1. /\ at[currentThread] = "tick" \/ machineStatus = "IdleMode"
      /\ UNCHANGED <<currentThread, readyList, toBeDestroyed, allocated>>
      /\ UNCHANGED <<status, at, sem, oldStatus, value, queue, level, machineStatus>>
      /\ UNCHANGED <<user, space, cpu, userRegisters>>
  BY DEF TimerInterrupt, CheckingInterrupts, schedVars, threadVars, semVars, userVars
<1>2. inHandler' \in BOOLEAN /\ yieldOnReturn' \in BOOLEAN
  BY Zenon DEF TimerInterrupt
<1>3. /\ machineStatus \in {"IdleMode", "SystemMode", "UserMode"}
      /\ machineStatus = "IdleMode" => InSleep(currentThread)
  BY DEF Inductive, TypeOK, ControlState
<1> QED
  BY <1>1, <1>2, <1>3, MachineStepInductive

\* Sleep finds nobody ready and idles.
LEMMA IdleInductive ==
    ASSUME Inductive, NEW t \in Threads, Idle(t)
    PROVE  Inductive'
<1>1. /\ InSleep(currentThread)
      /\ machineStatus' = "IdleMode"
      /\ UNCHANGED <<currentThread, readyList, toBeDestroyed, allocated>>
      /\ UNCHANGED <<status, at, sem, oldStatus, value, queue, level>>
      /\ UNCHANGED <<user, space, cpu, userRegisters>>
      /\ UNCHANGED <<inHandler, yieldOnReturn>>
  BY DEF Idle, InSleep, schedVars, threadVars, semVars, userVars
<1> QED
  BY <1>1, UserTypes, MachineStepInductive

\* Idle has run a handler and returns.
LEMMA IdleReturnInductive ==
    ASSUME Inductive, NEW t \in Threads, IdleReturn(t)
    PROVE  Inductive'
<1>1. /\ machineStatus' = "SystemMode"
      /\ inHandler' = FALSE
      /\ UNCHANGED <<currentThread, readyList, toBeDestroyed, allocated>>
      /\ UNCHANGED <<status, at, sem, oldStatus, value, queue, level>>
      /\ UNCHANGED <<user, space, cpu, userRegisters, yieldOnReturn>>
  BY DEF IdleReturn, InSleep, schedVars, threadVars, semVars, userVars
<1> QED
  BY <1>1, UserTypes, MachineStepInductive

\* Nothing changes.
LEMMA StutterInductive == Inductive /\ UNCHANGED vars => Inductive'
  BY DEF Inductive, TypeOK, ThreadPlacement, ControlState, InSleep,
         vars, schedVars, threadVars, semVars, intVars, userVars

\* Every step keeps the invariant, one case for each operation.
LEMMA NextInductive == Inductive /\ [Next]_vars => Inductive'
<1> SUFFICES ASSUME Inductive, [Next]_vars PROVE Inductive'
  OBVIOUS
<1>1. ASSUME NEW t \in Threads, ThreadStep(t)
      PROVE  Inductive'
  <2>1. CASE Enable(t)                                BY <2>1, EnableInductive
  <2>2. CASE \E child \in Threads : Fork(t, child)    BY <2>2, ForkInductive
  <2>3. CASE \E s \in Semaphores : P(t, s)            BY <2>3, PInductive
  <2>4. CASE \E s \in Semaphores : V(t, s)            BY <2>4, VInductive
  <2>5. CASE Yield(t)                                 BY <2>5, YieldInductive
  <2>6. CASE Finish(t)                                BY <2>6, FinishInductive
  <2>7. CASE Execute(t)                               BY <2>7, ExecuteInductive
  <2>8. CASE UserInstruction(t)                       BY <2>8, UserInstructionInductive
  <2>9. CASE EnterKernel(t)                           BY <2>9, EnterKernelInductive
  <2>10. CASE LeaveKernel(t)                          BY <2>10, LeaveKernelInductive
  <2>11. CASE TickReturn(t)                           BY <2>11, TickReturnInductive
  <2>12. CASE TickYield(t)                            BY <2>12, TickYieldInductive
  <2>13. CASE Idle(t)                                 BY <2>13, IdleInductive
  <2>14. CASE IdleReturn(t)                           BY <2>14, IdleReturnInductive
  <2>15. CASE Dispatch(t)                             BY <2>15, DispatchInductive
  <2>16. CASE Begin(t)                                BY <2>16, BeginInductive
  <2>17. CASE ResumeYield(t)                          BY <2>17, ResumeYieldInductive
  <2>18. CASE ResumeP(t)                              BY <2>18, ResumePInductive
  <2> QED
    BY <1>1, <2>1, <2>2, <2>3, <2>4, <2>5, <2>6, <2>7, <2>8, <2>9, <2>10, <2>11,
       <2>12, <2>13, <2>14, <2>15, <2>16, <2>17, <2>18 DEF ThreadStep
<1>2. CASE TimerInterrupt
  BY <1>2, TimerInterruptInductive
<1>3. CASE \E s \in DeviceSemaphores : DeviceInterrupt(s)
  BY <1>3, DeviceInterruptInductive
<1>4. CASE UNCHANGED vars
  BY <1>4, StutterInductive
<1> QED
  BY <1>1, <1>2, <1>3, <1>4 DEF Next

\* The types, the placement of threads and what their places say of the
\* rest of the state hold together, whatever the threads and handlers do.
THEOREM InductiveInvariant == SafetySpec => []Inductive
<1>1. Init => Inductive
  BY InitInductive
<1>2. Inductive /\ [Next]_vars => Inductive'
  BY NextInductive
<1> QED
  BY <1>1, <1>2, PTL DEF SafetySpec

-----------------------------------------------------------------------------
(***************************************************************************)
(* What follows from it.                                                   *)
(***************************************************************************)

\* Every variable keeps its type, for any number of threads and semaphores.
THEOREM TypeCorrect == SafetySpec => []TypeOK
<1>1. Inductive => TypeOK
  BY DEF Inductive
<1> QED
  BY <1>1, InductiveInvariant, PTL

\* The scheduler's lists never lose, duplicate or misplace a thread.
THEOREM ThreadsKeepTheirPlace == SafetySpec => []ThreadPlacement
<1>1. Inductive => ThreadPlacement
  BY DEF Inductive
<1> QED
  BY <1>1, InductiveInvariant, PTL

\* What a thread's place in the code says of the rest of its state; a
\* finished thread waits for deletion only until its successor runs.
THEOREM PlacesDetermineState == SafetySpec => []ControlState
<1>1. Inductive => ControlState
  BY DEF Inductive
<1> QED
  BY <1>1, InductiveInvariant, PTL

\* The ASSERTs of ~Thread, Run, ReadyToRun, SetLevel and CheckIfDue hold.
THEOREM AssertionsHold == SafetySpec => []KernelAssertions
<1>1. Inductive => KernelAssertions
  BY DEF Inductive, TypeOK, ControlState, KernelAssertions, InSleep
<1> QED
  BY <1>1, InductiveInvariant, PTL

-----------------------------------------------------------------------------
(***************************************************************************)
(* What a context switch has to carry along: the request for it, the       *)
(* machine's mode and the user program's registers; and the order in which *)
(* the ready threads are switched to.                                      *)
(***************************************************************************)

Mode(t) == IF user[t] THEN "UserMode" ELSE "SystemMode"

\* The mode that OneTick will put back is the one its thread had, only a
\* user program that OneTick interrupted is switched out, and a thread that
\* has just got the CPU finds the machine in system mode.
ModeInv ==
    /\ \A t \in Threads :
        /\ user[t] => at[t] \in {"code", "tick", "yield"}
        /\ user[t] /\ at[t] = "yield" => oldStatus[t] # "none"
        /\ oldStatus[t] # "none" => at[t] \in {"tick", "yield"} /\ oldStatus[t] = Mode(t)
    /\ at[currentThread] = "code" => machineStatus = Mode(currentThread)
    /\ at[currentThread] = "tick" /\ oldStatus[currentThread] = "none"
         => machineStatus = Mode(currentThread)
    /\ at[currentThread] \notin {"code", "tick"} => machineStatus # "UserMode"

\* A thread that has not begun has no address space to restore.
RegistersInv ==
    /\ RegistersFollowThread
    /\ \A t \in allocated : at[t] = "begin" => ~space[t]

SwitchInv == Inductive /\ YieldOnlyInTick /\ ModeInv /\ RegistersInv

-----------------------------------------------------------------------------
(***************************************************************************)
(* What the scheduler's pieces do to the two threads they are about.       *)
(***************************************************************************)

\* Yield stays with its thread or gives the CPU to another.
LEMMA YieldCPUFacts ==
    ASSUME Inductive, NEW t \in Threads, t = currentThread,
           at[t] \in {"code", "tick"}, YieldCPU(t)
    PROVE  /\ toBeDestroyed' = toBeDestroyed
           /\ \/ /\ at' = [at EXCEPT ![t] = "tick"]
                 /\ UNCHANGED <<currentThread, status, userRegisters>>
              \/ \E next \in allocated \ {t} :
                 /\ currentThread' = next
                 /\ at[next] \in {"begin", "yield", "P"}
                 /\ at' = [at EXCEPT ![t] = "yield"]
                 /\ status' = [status EXCEPT ![t] = "READY", ![next] = "RUNNING"]
                 /\ userRegisters' = IF space[t] THEN [userRegisters EXCEPT ![t] = cpu]
                                                 ELSE userRegisters
<1>1. CASE readyList = <<>>
  BY <1>1 DEF YieldCPU, OneTick, schedVars
<1>2. CASE readyList # <<>>
  <2> DEFINE next == Head(readyList)
  <2>1. /\ next \in Range(readyList)
        /\ next \in Threads
    BY <1>2, TailFacts DEF Inductive, TypeOK, ThreadPlacement
  <2>2. /\ next \in allocated \ {t}
        /\ at[next] \in {"begin", "yield", "P"}
    BY <2>1 DEF Inductive, TypeOK, ThreadPlacement, ControlState
  <2>3. /\ currentThread' = next
        /\ toBeDestroyed' = toBeDestroyed
        /\ at' = [at EXCEPT ![t] = "yield"]
        /\ status' = [status EXCEPT ![t] = "READY", ![next] = "RUNNING"]
        /\ userRegisters' = IF space[t] THEN [userRegisters EXCEPT ![t] = cpu]
                                        ELSE userRegisters
    BY <1>2 DEF YieldCPU, Run
  <2> HIDE DEF next
  <2> QED
    BY <2>2, <2>3
<1> QED
  BY <1>1, <1>2

\* Sleep gives the CPU to a thread that was switched out or is new.
LEMMA DispatchFacts ==
    ASSUME Inductive, NEW t \in Threads, Dispatch(t)
    PROVE  \E next \in allocated :
             /\ currentThread' = next
             /\ at[next] \in {"begin", "yield", "P"}
             /\ status' = [status EXCEPT ![next] = "RUNNING"]
             /\ userRegisters' = IF space[t] THEN [userRegisters EXCEPT ![t] = cpu]
                                             ELSE userRegisters
             /\ toBeDestroyed' = IF at[t] = "finish" THEN t ELSE toBeDestroyed
<1> DEFINE next == Head(readyList)
<1>1. /\ readyList # <<>>
      /\ t = currentThread
      /\ currentThread' = next
      /\ status' = [status EXCEPT ![next] = "RUNNING"]
      /\ userRegisters' = IF space[t] THEN [userRegisters EXCEPT ![t] = cpu]
                                      ELSE userRegisters
      /\ toBeDestroyed' = IF at[t] = "finish" THEN t ELSE toBeDestroyed
  BY DEF Dispatch, Run, InSleep
<1>2. /\ next \in Range(readyList)
      /\ next \in Threads
  BY <1>1, TailFacts DEF Inductive, TypeOK, ThreadPlacement
<1>3. /\ next \in allocated
      /\ at[next] \in {"begin", "yield", "P"}
  BY <1>2 DEF Inductive, ThreadPlacement, ControlState
<1> HIDE DEF next
<1> QED
  BY <1>1, <1>3

\* V changes the status of a blocked thread or of none.
LEMMA VBodyFacts ==
    ASSUME Inductive, NEW s \in Semaphores, VBody(s)
    PROVE  \/ status' = status
           \/ \E w \in allocated :
              at[w] = "P" /\ status[w] = "BLOCKED" /\ status' = [status EXCEPT ![w] = "READY"]
<1>1. CASE queue[s] # <<>>
  <2> DEFINE w == Head(queue[s])
  <2>1. w \in Range(queue[s]) /\ w \in Threads
    BY <1>1, TailFacts DEF Inductive, TypeOK, ThreadPlacement
  <2>2. w \in allocated /\ at[w] = "P" /\ status[w] = "BLOCKED"
    BY <2>1 DEF Inductive, ThreadPlacement
  <2>3. status' = [status EXCEPT ![w] = "READY"]
    BY <1>1 DEF VBody, ReadyToRun
  <2> HIDE DEF w
  <2> QED
    BY <2>2, <2>3
<1>2. CASE queue[s] = <<>>
  BY <1>2 DEF VBody
<1> QED
  BY <1>1, <1>2

-----------------------------------------------------------------------------
\* A request is made by the timer's handler only, and OneTick takes it back.
LEMMA YieldOnlyInTickNext == Inductive /\ YieldOnlyInTick /\ [Next]_vars => YieldOnlyInTick'
<1> SUFFICES ASSUME Inductive, YieldOnlyInTick, [Next]_vars PROVE YieldOnlyInTick'
  OBVIOUS
<1> USE DEF schedVars, threadVars, semVars, intVars, userVars,
            YieldOnlyInTick, Inductive, TypeOK, ControlState
<1>1. ASSUME NEW t \in Threads, ThreadStep(t)
      PROVE  YieldOnlyInTick'
  <2>1. CASE Enable(t)
    BY <2>1 DEF Enable, InCode, OneTick
  <2>2. CASE \E child \in Threads : Fork(t, child)
    BY <2>2 DEF Fork, InCode, ReadyToRun
  <2>3. CASE \E s \in Semaphores : P(t, s)
    BY <2>3 DEF P, InKernel, InCode, TryP, Sleep, OneTick
  <2>4. CASE \E s \in Semaphores : V(t, s)
    BY <2>4 DEF V, InKernel, InCode, VBody, ReadyToRun, OneTick
  <2>5. CASE Yield(t)
    BY <2>5 DEF Yield, InKernel, InCode, YieldCPU, Run, OneTick
  <2>6. CASE Finish(t)
    BY <2>6 DEF Finish, InKernel, InCode, Sleep
  <2>7. CASE Execute(t)
    BY <2>7 DEF Execute, InKernel, InCode
  <2>8. CASE UserInstruction(t)
    BY <2>8 DEF UserInstruction, InCode, OneTick
  <2>9. CASE EnterKernel(t)
    BY <2>9 DEF EnterKernel, InCode
  <2>10. CASE LeaveKernel(t)
    BY <2>10 DEF LeaveKernel, InKernel, InCode, OneTick
  <2>11. CASE TickReturn(t)
    BY <2>11 DEF TickReturn
  <2>12. CASE TickYield(t)
    BY <2>12 DEF TickYield, YieldCPU, Run, OneTick
  <2>13. CASE Idle(t)
    BY <2>13 DEF Idle, InSleep
  <2>14. CASE IdleReturn(t)
    BY <2>14 DEF IdleReturn, InSleep
  <2>15. CASE Dispatch(t)
    BY <2>15 DEF Dispatch, Run, InSleep
  <2>16. CASE Begin(t)
    BY <2>16 DEF Begin, SwitchedIn, CheckToBeDestroyed, OneTick
  <2>17. CASE ResumeYield(t)
    BY <2>17 DEF ResumeYield, SwitchedIn, Restore, CheckToBeDestroyed, OneTick
  <2>18. CASE ResumeP(t)
    BY <2>18 DEF ResumeP, SwitchedIn, Restore, CheckToBeDestroyed, TryP, Sleep, OneTick
  <2> QED
    BY <1>1, <2>1, <2>2, <2>3, <2>4, <2>5, <2>6, <2>7, <2>8, <2>9, <2>10,
       <2>11, <2>12, <2>13, <2>14, <2>15, <2>16, <2>17, <2>18 DEF ThreadStep
<1>2. CASE TimerInterrupt
  BY <1>2 DEF TimerInterrupt, CheckingInterrupts
<1>3. CASE \E s \in DeviceSemaphores : DeviceInterrupt(s)
  BY <1>3 DEF DeviceInterrupt, CheckingInterrupts, VBody, ReadyToRun
<1>4. CASE UNCHANGED vars
  BY <1>4 DEF vars
<1> QED
  BY <1>1, <1>2, <1>3, <1>4 DEF Next

\* Every operation keeps the mode right.
LEMMA ModeNext == Inductive /\ ModeInv /\ [Next]_vars => ModeInv'
<1> SUFFICES ASSUME Inductive, ModeInv, [Next]_vars PROVE ModeInv'
  OBVIOUS
<1> USE DEF schedVars, threadVars, semVars, intVars, userVars,
            ModeInv, Mode, Inductive, TypeOK, ThreadPlacement, ControlState, InSleep
<1>1. ASSUME NEW t \in Threads, ThreadStep(t)
      PROVE  ModeInv'
  <2>1. CASE Enable(t)
    BY <2>1 DEF Enable, InCode, OneTick
  <2>2. CASE \E child \in Threads : Fork(t, child)
    <3>1. PICK child \in Threads : Fork(t, child)
      BY <2>2
    <3>2. /\ t = currentThread /\ at[t] = "code" /\ ~user[t]
          /\ child \in Threads \ allocated
          /\ at' = [at EXCEPT ![child] = "begin", ![t] = IF level = "IntOn" THEN "tick" ELSE "code"]
          /\ user' = [user EXCEPT ![child] = FALSE]
          /\ UNCHANGED <<currentThread, oldStatus, machineStatus>>
      BY <3>1 DEF Fork, InCode
    <3>3. t # child /\ oldStatus[child] = "none" /\ oldStatus[t] = "none"
      BY <3>2
    <3> QED
      BY <3>2, <3>3
  <2>3. CASE \E s \in Semaphores : P(t, s)
    <3>1. /\ t = currentThread /\ at[t] = "code" /\ ~user[t]
          /\ at' = [at EXCEPT ![t] = "P"] \/ at' = [at EXCEPT ![t] = "tick"]
          /\ UNCHANGED <<currentThread, user, oldStatus, machineStatus>>
      BY <2>3 DEF P, InKernel, InCode, TryP, Sleep, OneTick
    <3> QED
      BY <3>1
  <2>4. CASE \E s \in Semaphores : V(t, s)
    BY <2>4 DEF V, InKernel, InCode, VBody, ReadyToRun, OneTick
  <2>5. CASE Yield(t)
    <3>1. /\ t = currentThread /\ at[t] = "code" /\ ~user[t]
          /\ YieldCPU(t)
          /\ UNCHANGED <<user, oldStatus, machineStatus>>
      BY <2>5 DEF Yield, InKernel, InCode
    <3>2. CASE at' = [at EXCEPT ![t] = "tick"] /\ UNCHANGED <<currentThread, status, userRegisters>>
      BY <3>1, <3>2
    <3>3. ASSUME NEW next \in allocated \ {t},
                 currentThread' = next,
                 at[next] \in {"begin", "yield", "P"},
                 at' = [at EXCEPT ![t] = "yield"],
                 status' = [status EXCEPT ![t] = "READY", ![next] = "RUNNING"],
                 userRegisters' = IF space[t] THEN [userRegisters EXCEPT ![t] = cpu]
                                              ELSE userRegisters
          PROVE  ModeInv'
      BY <3>1, <3>3
    <3> QED
      BY <3>1, <3>2, <3>3, YieldCPUFacts
  <2>6. CASE Finish(t)
    BY <2>6 DEF Finish, InKernel, InCode, Sleep
  <2>7. CASE Execute(t)
    BY <2>7 DEF Execute, InKernel, InCode
  <2>8. CASE UserInstruction(t)
    BY <2>8 DEF UserInstruction, InCode, OneTick
  <2>9. CASE EnterKernel(t)
    BY <2>9 DEF EnterKernel, InCode
  <2>10. CASE LeaveKernel(t)
    BY <2>10 DEF LeaveKernel, InKernel, InCode, OneTick
  <2>11. CASE TickReturn(t)
    BY <2>11 DEF TickReturn
  <2>12. CASE TickYield(t)
    <3>1. /\ t = currentThread /\ at[t] = "tick"
          /\ YieldCPU(t)
          /\ user' = user
          /\ machineStatus' = "SystemMode"
          /\ oldStatus' = [oldStatus EXCEPT ![t] = IF oldStatus[t] = "none" THEN machineStatus ELSE oldStatus[t]]
      BY <2>12 DEF TickYield
    <3>2. oldStatus'[t] = Mode(t)
      BY <3>1, NotIdle
    <3> QED
      BY <3>1, <3>2, YieldCPUFacts
  <2>13. CASE Idle(t)
    BY <2>13 DEF Idle, InSleep
  <2>14. CASE IdleReturn(t)
    BY <2>14 DEF IdleReturn, InSleep
  <2>15. CASE Dispatch(t)
    <3>1. /\ t = currentThread /\ at[t] \in {"P", "finish"}
          /\ UNCHANGED <<at, user, oldStatus, machineStatus>>
      BY <2>15 DEF Dispatch, InSleep, intVars
    <3> QED
      BY <2>15, <3>1, DispatchFacts
  <2>16. CASE Begin(t)
    BY <2>16 DEF Begin, SwitchedIn, CheckToBeDestroyed, OneTick
  <2>17. CASE ResumeYield(t)
    BY <2>17 DEF ResumeYield, SwitchedIn, Restore, CheckToBeDestroyed, OneTick
  <2>18. CASE ResumeP(t)
    BY <2>18 DEF ResumeP, SwitchedIn, Restore, CheckToBeDestroyed, TryP, Sleep, OneTick
  <2> QED
    BY <1>1, <2>1, <2>2, <2>3, <2>4, <2>5, <2>6, <2>7, <2>8, <2>9, <2>10,
       <2>11, <2>12, <2>13, <2>14, <2>15, <2>16, <2>17, <2>18 DEF ThreadStep
<1>2. CASE TimerInterrupt
  BY <1>2 DEF TimerInterrupt, CheckingInterrupts
<1>3. CASE \E s \in DeviceSemaphores : DeviceInterrupt(s)
  BY <1>3 DEF DeviceInterrupt, CheckingInterrupts, VBody, ReadyToRun
<1>4. CASE UNCHANGED vars
  BY <1>4 DEF vars
<1> QED
  BY <1>1, <1>2, <1>3, <1>4 DEF Next

\* Every operation keeps the registers right.
LEMMA RegistersNext == Inductive /\ RegistersInv /\ [Next]_vars => RegistersInv'
<1> SUFFICES ASSUME Inductive, RegistersInv, [Next]_vars PROVE RegistersInv'
  OBVIOUS
<1> USE DEF schedVars, threadVars, semVars, intVars, userVars,
            RegistersInv, RegistersFollowThread, Inductive, TypeOK, ThreadPlacement, ControlState
<1>1. ASSUME NEW t \in Threads, ThreadStep(t)
      PROVE  RegistersInv'
  <2>1. CASE Enable(t)
    BY <2>1 DEF Enable, InCode, OneTick
  <2>2. CASE \E child \in Threads : Fork(t, child)
    BY <2>2 DEF Fork, InCode, ReadyToRun
  <2>3. CASE \E s \in Semaphores : P(t, s)
    BY <2>3 DEF P, InKernel, InCode, TryP, Sleep, OneTick
  <2>4. CASE \E s \in Semaphores : V(t, s)
    BY <2>4 DEF V, InKernel, InCode, VBody, ReadyToRun, OneTick
  <2>5. CASE Yield(t)
    <3>1. /\ t = currentThread /\ at[t] = "code"
          /\ YieldCPU(t)
          /\ UNCHANGED <<allocated, space, cpu>>
      BY <2>5 DEF Yield, InKernel, InCode
    <3>2. CASE at' = [at EXCEPT ![t] = "tick"] /\ UNCHANGED <<currentThread, status, userRegisters>>
      BY <3>1, <3>2
    <3>3. ASSUME NEW next \in allocated \ {t},
                 currentThread' = next,
                 at[next] \in {"begin", "yield", "P"},
                 at' = [at EXCEPT ![t] = "yield"],
                 status' = [status EXCEPT ![t] = "READY", ![next] = "RUNNING"],
                 userRegisters' = IF space[t] THEN [userRegisters EXCEPT ![t] = cpu]
                                              ELSE userRegisters
          PROVE  RegistersInv'
      BY <3>1, <3>3
    <3> QED
      BY <3>1, <3>2, <3>3, YieldCPUFacts
  <2>6. CASE Finish(t)
    BY <2>6 DEF Finish, InKernel, InCode, Sleep
  <2>7. CASE Execute(t)
    BY <2>7 DEF Execute, InKernel, InCode
  <2>8. CASE UserInstruction(t)
    BY <2>8 DEF UserInstruction, InCode, OneTick
  <2>9. CASE EnterKernel(t)
    BY <2>9 DEF EnterKernel, InCode
  <2>10. CASE LeaveKernel(t)
    BY <2>10 DEF LeaveKernel, InKernel, InCode, OneTick
  <2>11. CASE TickReturn(t)
    BY <2>11 DEF TickReturn
  <2>12. CASE TickYield(t)
    <3>1. /\ t = currentThread /\ at[t] = "tick"
          /\ YieldCPU(t)
          /\ UNCHANGED <<allocated, space, cpu>>
      BY <2>12 DEF TickYield
    <3> QED
      BY <3>1, YieldCPUFacts
  <2>13. CASE Idle(t)
    BY <2>13 DEF Idle, InSleep
  <2>14. CASE IdleReturn(t)
    BY <2>14 DEF IdleReturn, InSleep
  <2>15. CASE Dispatch(t)
    BY <2>15 DEF Dispatch, Run, InSleep
  <2>16. CASE Begin(t)
    BY <2>16 DEF Begin, SwitchedIn, CheckToBeDestroyed, OneTick
  <2>17. CASE ResumeYield(t)
    BY <2>17 DEF ResumeYield, SwitchedIn, Restore, CheckToBeDestroyed, OneTick
  <2>18. CASE ResumeP(t)
    <3>1. /\ t = currentThread /\ at[t] = "P" /\ status[t] = "RUNNING"
          /\ cpu' = IF space[t] THEN userRegisters[t] ELSE cpu
          /\ allocated' \subseteq allocated
          /\ UNCHANGED <<currentThread, space, userRegisters>>
          /\ TryP(t, sem[t])
      BY <2>18 DEF ResumeP, SwitchedIn, Restore, CheckToBeDestroyed
    <3>2. /\ at' = [at EXCEPT ![t] = "tick"] \/ at' = [at EXCEPT ![t] = "P"]
          /\ status' = [status EXCEPT ![t] = "BLOCKED"] \/ status' = status
      BY <3>1 DEF TryP, Sleep, OneTick
    <3>3. /\ \A u \in Threads \ {t} : at'[u] = at[u] /\ status'[u] = status[u]
          /\ at'[t] = "tick" \/ status'[t] = "BLOCKED"
      BY <3>1, <3>2 DEF TryP, Sleep, OneTick
    <3>4. space[t] /\ t \in allocated => cpu' = t
      BY <3>1
    <3> QED
      BY <3>1, <3>2, <3>3, <3>4
  <2> QED
    BY <1>1, <2>1, <2>2, <2>3, <2>4, <2>5, <2>6, <2>7, <2>8, <2>9, <2>10,
       <2>11, <2>12, <2>13, <2>14, <2>15, <2>16, <2>17, <2>18 DEF ThreadStep
<1>2. CASE TimerInterrupt
  BY <1>2 DEF TimerInterrupt, CheckingInterrupts
<1>3. CASE \E s \in DeviceSemaphores : DeviceInterrupt(s)
  <2>1. PICK s \in DeviceSemaphores : DeviceInterrupt(s)
    BY <1>3
  <2>2. /\ s \in Semaphores
        /\ VBody(s)
        /\ currentThread' = currentThread
        /\ allocated' = allocated
        /\ at' = at
        /\ UNCHANGED <<space, cpu, userRegisters>>
    BY <2>1 DEF DeviceInterrupt
  <2>3. at[currentThread] = "tick" \/ status[currentThread] # "RUNNING"
    BY <2>1 DEF DeviceInterrupt, CheckingInterrupts, Inductive, ControlState, InSleep
  <2> QED
    <3>1. CASE status' = status
      BY <2>2, <3>1
    <3>2. ASSUME NEW w \in allocated, at[w] = "P",
                 status[w] = "BLOCKED", status' = [status EXCEPT ![w] = "READY"]
          PROVE  RegistersInv'
      BY <2>2, <2>3, <3>2
    <3> QED
      BY <2>2, <3>1, <3>2, VBodyFacts
<1>4. CASE UNCHANGED vars
  BY <1>4 DEF vars
<1> QED
  BY <1>1, <1>2, <1>3, <1>4 DEF Next

\* Nothing is requested and no user program exists at first.
LEMMA InitSwitch == Init => YieldOnlyInTick /\ ModeInv /\ RegistersInv
<1> SUFFICES ASSUME Init PROVE YieldOnlyInTick /\ ModeInv /\ RegistersInv
  OBVIOUS
<1>1. YieldOnlyInTick
  BY DEF Init, YieldOnlyInTick
<1>2. \A t \in Threads : ~user[t] /\ ~space[t] /\ oldStatus[t] = "none"
  BY DEF Init
<1>3. ModeInv
  BY <1>2 DEF Init, ModeInv, Mode
<1>4. RegistersInv
  BY <1>2 DEF Init, RegistersInv, RegistersFollowThread
<1> QED
  BY <1>1, <1>3, <1>4

\* Requests for a switch, modes and registers, with the placement of threads.
THEOREM SwitchInvariant == SafetySpec => []SwitchInv
<1>1. Init => SwitchInv
  BY InitInductive, InitSwitch DEF SwitchInv
<1>2. SwitchInv /\ [Next]_vars => SwitchInv'
  BY NextInductive, YieldOnlyInTickNext, ModeNext, RegistersNext DEF SwitchInv
<1> QED
  BY <1>1, <1>2, PTL DEF SafetySpec

\* The timer's request for a context switch is honoured by the OneTick in
\* which it was made, and by no other code.
THEOREM RequestsStayInTick == SafetySpec => []YieldOnlyInTick
<1>1. SwitchInv => YieldOnlyInTick
  BY DEF SwitchInv
<1> QED
  BY <1>1, SwitchInvariant, PTL

\* The machine's mode is that of the running thread, whatever switches
\* happen inside OneTick.
THEOREM ModeIsRight == SafetySpec => []ModeFollowsThread
<1>1. SwitchInv => ModeFollowsThread
  BY DEF SwitchInv, ModeInv, Mode, Inductive, ControlState, ModeFollowsThread
<1> QED
  BY <1>1, SwitchInvariant, PTL

\* No user program ever runs with another one's registers.
THEOREM RegistersAreRight == SafetySpec => []RegistersFollowThread
<1>1. SwitchInv => RegistersFollowThread
  BY DEF SwitchInv, RegistersInv
<1> QED
  BY <1>1, SwitchInvariant, PTL

-----------------------------------------------------------------------------
(***************************************************************************)
(* What a step may do to the ready list: nothing, append a thread, take    *)
(* the head out and run it, or both.                                       *)
(***************************************************************************)

Takes(q) ==
    /\ readyList # <<>>
    /\ currentThread' = Head(readyList)
    /\ q = Tail(readyList)

ListStep ==
    \/ readyList' = readyList
    \/ \E x \in Threads : readyList' = Append(readyList, x)
    \/ Takes(readyList')
    \/ \E x \in Threads : Takes(Tail(readyList)) /\ readyList' = Append(Tail(readyList), x)

\* V appends the head of the queue, if there is one.
LEMMA VBodyListStep ==
    ASSUME Inductive, NEW s \in Semaphores, VBody(s)
    PROVE  ListStep
<1>1. CASE queue[s] = <<>>
  BY <1>1 DEF VBody, ListStep
<1>2. CASE queue[s] # <<>>
  <2>1. Head(queue[s]) \in Threads
    BY <1>2 DEF Inductive, TypeOK
  <2> QED
    BY <1>2, <2>1 DEF VBody, ReadyToRun, ListStep
<1> QED
  BY <1>1, <1>2

\* Yield takes the head out and appends the thread that yields.
LEMMA YieldCPUListStep ==
    ASSUME Inductive, NEW t \in Threads, YieldCPU(t)
    PROVE  ListStep
  BY DEF YieldCPU, Run, schedVars, ListStep, Takes

\* Every step of the thread system treats the list in one of these ways.
LEMMA ListSteps ==
    ASSUME Inductive, [Next]_vars
    PROVE  ListStep
<1>1. ASSUME NEW t \in Threads, ThreadStep(t)
      PROVE  ListStep
  <2> USE DEF schedVars
  <2>1. CASE Enable(t)            BY <2>1 DEF Enable, ListStep
  <2>2. ASSUME NEW child \in Threads, Fork(t, child)
        PROVE  ListStep
    BY <2>2 DEF Fork, ReadyToRun, ListStep
  <2>3. CASE \E s \in Semaphores : P(t, s)  BY <2>3 DEF P, ListStep
  <2>4. ASSUME NEW s \in Semaphores, V(t, s)
        PROVE  ListStep
    BY <2>4, VBodyListStep DEF V
  <2>5. CASE Yield(t)             BY <2>5, YieldCPUListStep DEF Yield
  <2>6. CASE Finish(t)            BY <2>6 DEF Finish, ListStep
  <2>7. CASE Execute(t)           BY <2>7 DEF Execute, ListStep
  <2>8. CASE UserInstruction(t)   BY <2>8 DEF UserInstruction, ListStep
  <2>9. CASE EnterKernel(t)       BY <2>9 DEF EnterKernel, ListStep
  <2>10. CASE LeaveKernel(t)      BY <2>10 DEF LeaveKernel, ListStep
  <2>11. CASE TickReturn(t)       BY <2>11 DEF TickReturn, ListStep
  <2>12. CASE TickYield(t)        BY <2>12, YieldCPUListStep DEF TickYield
  <2>13. CASE Idle(t)             BY <2>13 DEF Idle, ListStep
  <2>14. CASE IdleReturn(t)       BY <2>14 DEF IdleReturn, ListStep
  <2>15. CASE Dispatch(t)         BY <2>15 DEF Dispatch, Run, ListStep, Takes
  <2>16. CASE Begin(t)            BY <2>16 DEF Begin, ListStep
  <2>17. CASE ResumeYield(t)      BY <2>17 DEF ResumeYield, ListStep
  <2>18. CASE ResumeP(t)          BY <2>18 DEF ResumeP, ListStep
  <2> QED
    BY <1>1, <2>1, <2>2, <2>3, <2>4, <2>5, <2>6, <2>7, <2>8, <2>9, <2>10, <2>11,
       <2>12, <2>13, <2>14, <2>15, <2>16, <2>17, <2>18 DEF ThreadStep
<1>2. CASE TimerInterrupt
  BY <1>2 DEF TimerInterrupt, schedVars, ListStep
<1>3. ASSUME NEW s \in DeviceSemaphores, DeviceInterrupt(s)
      PROVE  ListStep
  <2>1. s \in Semaphores /\ VBody(s)
    BY <1>3 DEF DeviceInterrupt
  <2> QED
    BY <2>1, VBodyListStep
<1>4. CASE UNCHANGED vars
  BY <1>4 DEF vars, schedVars, ListStep
<1> QED
  BY <1>1, <1>2, <1>3, <1>4 DEF Next

-----------------------------------------------------------------------------
(***************************************************************************)
(* What Append and Tail do to the order of a list without repetitions.     *)
(***************************************************************************)

\* r keeps q's elements other than those in `gone', and their order.
KeepsOrder(q, r, gone) ==
    \A t \in Range(q) \ gone :
        /\ t \in Range(r)
        /\ \A u : Ahead(r, u, t) => Ahead(q, u, t)

\* What can be appended without repetition was not in the list.
LEMMA NoRepetition ==
    ASSUME NEW S, NEW q \in Seq(S), NEW x \in S, IsInjective(Append(q, x))
    PROVE  x \notin Range(q)
<1> DEFINE r == Append(q, x)
<1>1. /\ Len(q) \in Nat
      /\ DOMAIN q = 1..Len(q)
      /\ DOMAIN r = 1..(Len(q) + 1)
      /\ \A i \in 1..Len(q) : r[i] = q[i]
      /\ r[Len(q) + 1] = x
  OBVIOUS
<1> HIDE DEF r
<1>2. \A i \in 1..Len(q) : i \in DOMAIN r /\ Len(q) + 1 \in DOMAIN r /\ i # Len(q) + 1
  BY <1>1
<1>3. IsInjective(r)
  BY DEF r
<1> QED
  BY <1>1, <1>2, <1>3 DEF Range, IsInjective

\* An appended element is ahead of nobody.
LEMMA AppendKeepsOrder ==
    ASSUME NEW S, NEW q \in Seq(S), NEW x \in S, x \notin Range(q)
    PROVE  KeepsOrder(q, Append(q, x), {})
<1> DEFINE r == Append(q, x)
<1>1. /\ Len(q) \in Nat
      /\ DOMAIN q = 1..Len(q)
      /\ DOMAIN r = 1..(Len(q) + 1)
      /\ \A i \in 1..Len(q) : r[i] = q[i]
      /\ r[Len(q) + 1] = x
  OBVIOUS
<1> HIDE DEF r
<1>2. ASSUME NEW t \in Range(q)
      PROVE  t \in Range(r)
  BY <1>1, <1>2 DEF Range
<1>3. ASSUME NEW t \in Range(q), NEW u, Ahead(r, u, t)
      PROVE  Ahead(q, u, t)
  <2>1. PICK i \in DOMAIN r, j \in DOMAIN r : i < j /\ r[i] = u /\ r[j] = t
    BY <1>3 DEF Ahead
  <2>2. t # x
    BY <1>3
  <2>3. j \in 1..Len(q) /\ i \in 1..Len(q)
    BY <1>1, <2>1, <2>2
  <2> QED
    BY <1>1, <2>1, <2>3 DEF Ahead
<1> QED
  BY <1>2, <1>3 DEF KeepsOrder, r

\* The other elements keep their order when the head is taken out.
LEMMA TailKeepsOrder ==
    ASSUME NEW S, NEW q \in Seq(S), q # <<>>
    PROVE  KeepsOrder(q, Tail(q), {Head(q)})
<1> DEFINE r == Tail(q)
<1>1. /\ Len(q) \in Nat
      /\ DOMAIN q = 1..Len(q)
      /\ DOMAIN r = 1..(Len(q) - 1)
      /\ \A i \in 1..(Len(q) - 1) : r[i] = q[i + 1]
      /\ Head(q) = q[1]
  OBVIOUS
<1> HIDE DEF r
<1>2. ASSUME NEW t \in Range(q), t # Head(q)
      PROVE  t \in Range(r)
  <2>1. PICK j \in 1..Len(q) : q[j] = t
    BY <1>1, <1>2 DEF Range
  <2>2. j - 1 \in 1..(Len(q) - 1) /\ r[j - 1] = t
    BY <1>1, <1>2, <2>1
  <2> QED
    BY <1>1, <2>2 DEF Range
<1>3. ASSUME NEW t, NEW u, Ahead(r, u, t)
      PROVE  Ahead(q, u, t)
  <2>1. PICK i \in DOMAIN r, j \in DOMAIN r : i < j /\ r[i] = u /\ r[j] = t
    BY <1>3 DEF Ahead
  <2>2. i + 1 \in DOMAIN q /\ j + 1 \in DOMAIN q /\ i + 1 < j + 1
    BY <1>1, <2>1
  <2> QED
    BY <1>1, <2>1, <2>2 DEF Ahead
<1> QED
  BY <1>2, <1>3 DEF KeepsOrder, r

-----------------------------------------------------------------------------
\* No step lets a thread overtake a ready one.
LEMMA OrderNext ==
    ASSUME Inductive, Inductive', ListStep, NEW t \in Range(readyList)
    PROVE  \/ /\ t \in Range(readyList')
              /\ \A u \in Threads : Ahead(readyList', u, t) => Ahead(readyList, u, t)
           \/ /\ t = Head(readyList)
              /\ t = currentThread'
<1>1. /\ readyList \in Seq(Threads) /\ IsInjective(readyList)
      /\ readyList' \in Seq(Threads) /\ IsInjective(readyList')
  BY DEF Inductive, TypeOK, ThreadPlacement
<1>2. CASE readyList' = readyList
  BY <1>2
<1>3. CASE \E x \in Threads : readyList' = Append(readyList, x)
  <2>1. PICK x \in Threads : readyList' = Append(readyList, x)
    BY <1>3
  <2>2. x \notin Range(readyList)
    BY <1>1, <2>1, NoRepetition
  <2> QED
    BY <1>1, <2>1, <2>2, AppendKeepsOrder DEF KeepsOrder
<1>4. CASE Takes(readyList')
  BY <1>1, <1>4, TailKeepsOrder DEF KeepsOrder, Takes
<1>5. CASE \E x \in Threads : Takes(Tail(readyList)) /\ readyList' = Append(Tail(readyList), x)
  <2> DEFINE r == Tail(readyList)
  <2>1. PICK x \in Threads : Takes(r) /\ readyList' = Append(r, x)
    BY <1>5
  <2>2. readyList # <<>> /\ currentThread' = Head(readyList) /\ r \in Seq(Threads)
    BY <1>1, <2>1 DEF Takes
  <2>3. KeepsOrder(readyList, r, {Head(readyList)})
    BY <1>1, <2>2, TailKeepsOrder
  <2> HIDE DEF r
  <2>4. x \notin Range(r)
    BY <1>1, <2>1, <2>2, NoRepetition
  <2>5. KeepsOrder(r, readyList', {})
    BY <2>1, <2>2, <2>4, AppendKeepsOrder
  <2> QED
    BY <2>2, <2>3, <2>5 DEF KeepsOrder
<1> QED
  BY <1>2, <1>3, <1>4, <1>5 DEF ListStep

\* The ready list is a queue, for any number of threads: nobody overtakes,
\* and whoever leaves it was first and runs.
THEOREM ReadyListOrder == SafetySpec => ReadyListIsFIFO
<1>1. Inductive /\ Inductive' /\ [Next]_vars =>
        [\A t \in Range(readyList) :
           \/ /\ t \in Range(readyList')
              /\ \A u \in Threads : Ahead(readyList', u, t) => Ahead(readyList, u, t)
           \/ /\ t = Head(readyList)
              /\ t = currentThread']_vars
  BY ListSteps, OrderNext
<1> QED
  BY <1>1, InductiveInvariant, PTL DEF SafetySpec, ReadyListIsFIFO

-----------------------------------------------------------------------------
(***************************************************************************)
(* P and V: no wakeup is lost, and with the scheduler they implement the   *)
(* counting semaphore of CountingSemaphore.                                *)
(***************************************************************************)

(***************************************************************************)
(* What a step does to the semaphores: a pass through P's loop by a thread *)
(* outside every P or waiting in this one, a V, or nothing.                *)
(***************************************************************************)

PStep(t, s) ==
    /\ sem[t] \in {NULL, s}
    /\ \A r \in Semaphores : t \notin Range(queue[r])
    /\ \/ /\ value[s] = 0
          /\ queue' = [queue EXCEPT ![s] = Append(queue[s], t)]
          /\ sem' = [sem EXCEPT ![t] = s]
          /\ value' = value
       \/ /\ value[s] # 0
          /\ value' = [value EXCEPT ![s] = value[s] - 1]
          /\ sem' = [sem EXCEPT ![t] = NULL]
          /\ queue' = queue

VStep(s) ==
    /\ value' = [value EXCEPT ![s] = value[s] + 1]
    /\ queue' = IF queue[s] = <<>> THEN queue ELSE [queue EXCEPT ![s] = Tail(queue[s])]
    /\ sem' = sem

SemaphoreStep ==
    \/ \E t \in Threads, s \in Semaphores : PStep(t, s)
    \/ \E s \in Semaphores : VStep(s)
    \/ UNCHANGED <<value, queue, sem>>

\* A pass through P's loop by the running thread.
LEMMA TryPIsPStep ==
    ASSUME Inductive, NEW t \in Threads, NEW s \in Semaphores, TryP(t, s),
           status[t] = "RUNNING", sem[t] \in {NULL, s}
    PROVE  PStep(t, s)
<1>1. \A r \in Semaphores : t \notin Range(queue[r])
  BY DEF Inductive, ThreadPlacement
<1> QED
  BY <1>1 DEF TryP, Sleep, OneTick, PStep

\* V, from a thread or from a handler.
LEMMA VBodyIsVStep ==
    ASSUME NEW s \in Semaphores, VBody(s), sem' = sem
    PROVE  VStep(s)
  BY DEF VBody, VStep

\* Every step of the thread system is one of the three.
LEMMA SemaphoreSteps ==
    ASSUME Inductive, [Next]_vars
    PROVE  SemaphoreStep
<1>1. ASSUME NEW t \in Threads, ThreadStep(t)
      PROVE  SemaphoreStep
  <2> USE DEF threadVars, semVars
  <2>1. CASE Enable(t)                              BY <2>1 DEF Enable, SemaphoreStep
  <2>2. CASE \E child \in Threads : Fork(t, child)  BY <2>2 DEF Fork, SemaphoreStep
  <2>3. ASSUME NEW s \in Semaphores, P(t, s)
        PROVE  SemaphoreStep
    <3>1. TryP(t, s) /\ t = currentThread /\ at[t] = "code"
      BY <2>3 DEF P, InKernel, InCode
    <3>2. status[t] = "RUNNING" /\ sem[t] = NULL
      BY <3>1 DEF Inductive, ControlState
    <3> QED
      BY <3>1, <3>2, TryPIsPStep DEF SemaphoreStep
  <2>4. ASSUME NEW s \in Semaphores, V(t, s)
        PROVE  SemaphoreStep
    BY <2>4, VBodyIsVStep DEF V, SemaphoreStep
  <2>5. CASE Yield(t)                               BY <2>5 DEF Yield, SemaphoreStep
  <2>6. CASE Finish(t)                              BY <2>6 DEF Finish, SemaphoreStep
  <2>7. CASE Execute(t)                             BY <2>7 DEF Execute, SemaphoreStep
  <2>8. CASE UserInstruction(t)                     BY <2>8 DEF UserInstruction, SemaphoreStep
  <2>9. CASE EnterKernel(t)                         BY <2>9 DEF EnterKernel, SemaphoreStep
  <2>10. CASE LeaveKernel(t)                        BY <2>10 DEF LeaveKernel, SemaphoreStep
  <2>11. CASE TickReturn(t)                         BY <2>11 DEF TickReturn, SemaphoreStep
  <2>12. CASE TickYield(t)                          BY <2>12 DEF TickYield, SemaphoreStep
  <2>13. CASE Idle(t)                               BY <2>13 DEF Idle, SemaphoreStep
  <2>14. CASE IdleReturn(t)                         BY <2>14 DEF IdleReturn, SemaphoreStep
  <2>15. CASE Dispatch(t)                           BY <2>15 DEF Dispatch, SemaphoreStep
  <2>16. CASE Begin(t)                              BY <2>16 DEF Begin, SemaphoreStep
  <2>17. CASE ResumeYield(t)                        BY <2>17 DEF ResumeYield, SemaphoreStep
  <2>18. CASE ResumeP(t)
    <3>1. TryP(t, sem[t]) /\ at[t] = "P" /\ status[t] = "RUNNING"
      BY <2>18 DEF ResumeP, SwitchedIn
    <3>2. sem[t] \in Semaphores
      BY <3>1 DEF Inductive, TypeOK, ControlState
    <3> QED
      BY <3>1, <3>2, TryPIsPStep DEF SemaphoreStep
  <2> QED
    BY <1>1, <2>1, <2>2, <2>3, <2>4, <2>5, <2>6, <2>7, <2>8, <2>9, <2>10, <2>11,
       <2>12, <2>13, <2>14, <2>15, <2>16, <2>17, <2>18 DEF ThreadStep
<1>2. CASE TimerInterrupt
  BY <1>2 DEF TimerInterrupt, threadVars, semVars, SemaphoreStep
<1>3. ASSUME NEW s \in DeviceSemaphores, DeviceInterrupt(s)
      PROVE  SemaphoreStep
  <2>1. s \in Semaphores /\ VBody(s) /\ sem' = sem
    BY <1>3 DEF DeviceInterrupt
  <2> QED
    BY <2>1, VBodyIsVStep DEF SemaphoreStep
<1>4. CASE UNCHANGED vars
  BY <1>4 DEF vars, threadVars, semVars, SemaphoreStep
<1> QED
  BY <1>1, <1>2, <1>3, <1>4 DEF Next

-----------------------------------------------------------------------------
(***************************************************************************)
(* NoLostWakeup is inductive: a P that finds nothing leaves no unit free,  *)
(* one that finds a unit takes it and at most one woken thread away, and a *)
(* V adds one unit and one woken thread if there was one to wake.          *)
(***************************************************************************)

\* Threads are finitely many, and so are the woken ones.
LEMMA WokenFinite == \A s : IsFiniteSet(Woken(s)) /\ Cardinality(Woken(s)) \in Nat
<1> SUFFICES ASSUME NEW s PROVE IsFiniteSet(Woken(s)) /\ Cardinality(Woken(s)) \in Nat
  OBVIOUS
<1>1. Woken(s) \in SUBSET Threads
  BY DEF Woken, InP
<1>2. IsFiniteSet(Woken(s))
  BY <1>1, FS_Subset
<1> QED
  BY <1>2, FS_CardinalityType

\* P takes one unit and one woken thread away, or adds to the queue.
LEMMA PStepKeepsWakeups ==
    ASSUME Inductive, Inductive', NoLostWakeup,
           NEW t \in Threads, NEW s \in Semaphores, PStep(t, s)
    PROVE  NoLostWakeup'
<1> SUFFICES ASSUME NEW r \in Semaphores, queue'[r] # <<>>
             PROVE  Cardinality(Woken(r)') >= value'[r]
  BY DEF NoLostWakeup
<1>0. Cardinality(Woken(r)') \in Nat /\ value[r] \in Nat /\ value'[r] \in Nat
  <2>1. Woken(r)' \in SUBSET Threads
    BY DEF Woken, InP
  <2>2. IsFiniteSet(Woken(r)')
    BY <2>1, FS_Subset
  <2> QED
    BY <2>2, FS_CardinalityType DEF Inductive, TypeOK
<1>1. CASE r # s
  <2>1. queue'[r] = queue[r] /\ value'[r] = value[r]
    BY <1>1 DEF PStep, Inductive, TypeOK
  <2>2. \A u \in Threads : sem'[u] = r <=> sem[u] = r
    BY <1>1 DEF PStep, Inductive, TypeOK
  <2>3. Woken(r)' = Woken(r)
    BY <2>1, <2>2 DEF Woken, InP
  <2> QED
    BY <2>1, <2>3 DEF NoLostWakeup
<1>2. CASE r = s /\ value[s] = 0
  <2>1. value'[r] = 0
    BY <1>2 DEF PStep
  <2> QED
    BY <1>0, <2>1
<1>3. CASE r = s /\ value[s] # 0
  <2>1. /\ queue'[r] = queue[r]
        /\ value'[r] = value[r] - 1
        /\ \A u \in Threads : sem'[u] = r <=> sem[u] = r /\ u # t
    BY <1>3 DEF PStep, Inductive, TypeOK
  <2>2. Woken(r)' = Woken(r) \ {t}
    BY <2>1 DEF Woken, InP
  <2>3. /\ IsFiniteSet(Woken(r))
        /\ Cardinality(Woken(r)) \in Nat
        /\ Cardinality(Woken(r)) >= value[r]
    BY <2>1, WokenFinite DEF NoLostWakeup
  <2>4. Cardinality(Woken(r) \ {t}) \in {Cardinality(Woken(r)), Cardinality(Woken(r)) - 1}
    BY <2>3, FS_RemoveElement
  <2> QED
    BY <1>0, <2>1, <2>2, <2>3, <2>4
<1> QED
  BY <1>1, <1>2, <1>3

\* V adds one unit and wakes one thread if there is any.
LEMMA VStepKeepsWakeups ==
    ASSUME Inductive, Inductive', NoLostWakeup, NEW s \in Semaphores, VStep(s)
    PROVE  NoLostWakeup'
<1> SUFFICES ASSUME NEW r \in Semaphores, queue'[r] # <<>>
             PROVE  Cardinality(Woken(r)') >= value'[r]
  BY DEF NoLostWakeup
<1>1. CASE r # s
  <2>1. queue'[r] = queue[r] /\ value'[r] = value[r] /\ sem' = sem
    BY <1>1 DEF VStep, Inductive, TypeOK
  <2>2. Woken(r)' = Woken(r)
    BY <2>1 DEF Woken, InP
  <2> QED
    BY <2>1, <2>2 DEF NoLostWakeup
<1>2. CASE r = s
  <2>1. queue[s] # <<>>
    BY <1>2 DEF VStep
  <2> DEFINE w == Head(queue[s])
  <2>2. /\ queue'[s] = Tail(queue[s])
        /\ value'[s] = value[s] + 1
        /\ value[s] \in Nat
        /\ sem' = sem
    BY <2>1 DEF VStep, Inductive, TypeOK
  <2>3. /\ queue[s] \in Seq(Threads) /\ IsInjective(queue[s])
    BY DEF Inductive, TypeOK, ThreadPlacement
  <2>4. /\ w \in Threads
        /\ w \in Range(queue[s])
        /\ Range(queue'[s]) = Range(queue[s]) \ {w}
    BY <2>1, <2>2, <2>3, TailFacts
  <2>5. sem[w] = s
    BY <2>4 DEF Inductive, ThreadPlacement
  <2> HIDE DEF w
  <2>6. Woken(s)' = Woken(s) \cup {w}
    BY <2>2, <2>4, <2>5 DEF Woken, InP
  <2>7. w \notin Woken(s)
    BY <2>4 DEF Woken
  <2>8. /\ IsFiniteSet(Woken(s))
        /\ Cardinality(Woken(s)) \in Nat
        /\ Cardinality(Woken(s)) >= value[s]
    BY <2>1, WokenFinite DEF NoLostWakeup
  <2>9. Cardinality(Woken(s) \cup {w}) = Cardinality(Woken(s)) + 1
    BY <2>7, <2>8, FS_AddElement
  <2> QED
    BY <1>2, <2>2, <2>6, <2>8, <2>9
<1> QED
  BY <1>1, <1>2

\* No step loses a wakeup.
LEMMA WakeupsNext == Inductive /\ NoLostWakeup /\ [Next]_vars => NoLostWakeup'
<1> SUFFICES ASSUME Inductive, NoLostWakeup, [Next]_vars PROVE NoLostWakeup'
  OBVIOUS
<1>1. Inductive'
  BY NextInductive
<1>2. CASE UNCHANGED <<value, queue, sem>>
  BY <1>2 DEF NoLostWakeup, Woken, InP
<1> QED
  BY <1>1, <1>2, SemaphoreSteps, PStepKeepsWakeups, VStepKeepsWakeups
  DEF SemaphoreStep

\* While threads queue for a semaphore, each of its free units has a thread
\* of its own that V has woken (P, V), for any number of threads.
THEOREM NoWakeupIsLost == SafetySpec => []NoLostWakeup
<1>1. Init => Inductive /\ NoLostWakeup
  BY InitInductive DEF Init, NoLostWakeup
<1>2. Inductive /\ NoLostWakeup /\ [Next]_vars => (Inductive /\ NoLostWakeup)'
  BY NextInductive, WakeupsNext
<1> QED
  BY <1>1, <1>2, PTL DEF SafetySpec

-----------------------------------------------------------------------------
(***************************************************************************)
(* The refinement.  A thread is in the abstract P(s) while its sem is s.   *)
(***************************************************************************)

inP == [s \in Semaphores |-> InP(s)]

\* A pass through P's loop waits, takes a unit, or waits on unseen.
LEMMA PStepRefines ==
    ASSUME Inductive, NEW t \in Threads, NEW s \in Semaphores, PStep(t, s)
    PROVE  [Abstract!Next]_(Abstract!vars)
<1>1. value[s] \in Nat
  BY DEF Inductive, TypeOK
<1>2. CASE value[s] = 0 /\ sem[t] = NULL
  <2>1. value' = value /\ sem' = [sem EXCEPT ![t] = s]
    BY <1>2 DEF PStep
  <2>2. \A r \in Semaphores : t \notin InP(r)
    BY <1>2 DEF InP
  <2>3. \A r \in Semaphores : InP(r)' = IF r = s THEN InP(r) \cup {t} ELSE InP(r)
    BY <1>2, <2>1 DEF InP, Inductive, TypeOK
  <2>4. inP' = [inP EXCEPT ![s] = InP(s) \cup {t}]
    BY <2>3 DEF inP
  <2>5. Abstract!StartWaiting(t, s)
    BY <1>2, <2>1, <2>2, <2>4 DEF Abstract!StartWaiting, inP
  <2> QED
    BY <2>5 DEF Abstract!Next
<1>3. CASE value[s] = 0 /\ sem[t] = s
  <2>1. value' = value /\ sem' = sem
    BY <1>3 DEF PStep, Inductive, TypeOK
  <2>2. inP' = inP
    BY <2>1 DEF inP, InP
  <2> QED
    BY <2>1, <2>2 DEF Abstract!vars, inP
<1>4. CASE value[s] # 0 /\ sem[t] = NULL
  <2>1. value' = [value EXCEPT ![s] = value[s] - 1] /\ sem' = sem
    BY <1>4 DEF PStep, Inductive, TypeOK
  <2>2. \A r \in Semaphores : t \notin InP(r)
    BY <1>4 DEF InP
  <2>3. inP' = inP
    BY <2>1 DEF inP, InP
  <2>4. Abstract!TakeAtOnce(t, s)
    BY <1>1, <1>4, <2>1, <2>2, <2>3 DEF Abstract!TakeAtOnce, inP
  <2> QED
    BY <2>4 DEF Abstract!Next
<1>5. CASE value[s] # 0 /\ sem[t] = s
  <2>1. value' = [value EXCEPT ![s] = value[s] - 1] /\ sem' = [sem EXCEPT ![t] = NULL]
    BY <1>5 DEF PStep
  <2>2. t \in InP(s)
    BY <1>5 DEF InP
  <2>3. \A r \in Semaphores : InP(r)' = IF r = s THEN InP(r) \ {t} ELSE InP(r)
    BY <1>5, <2>1 DEF InP, Inductive, TypeOK
  <2>4. inP' = [inP EXCEPT ![s] = InP(s) \ {t}]
    BY <2>3 DEF inP
  <2>5. Abstract!TakeAfterWaiting(t, s)
    BY <1>1, <1>5, <2>1, <2>2, <2>4 DEF Abstract!TakeAfterWaiting, inP
  <2> QED
    BY <2>5 DEF Abstract!Next
<1> QED
  BY <1>2, <1>3, <1>4, <1>5 DEF PStep

\* V releases a unit.
LEMMA VStepRefines ==
    ASSUME NEW s \in Semaphores, VStep(s)
    PROVE  Abstract!Next
<1>1. value' = [value EXCEPT ![s] = value[s] + 1] /\ inP' = inP
  BY DEF VStep, inP, InP
<1>2. Abstract!Release(s)
  BY <1>1 DEF Abstract!Release, inP
<1> QED
  BY <1>2 DEF Abstract!Next

\* What leaves values and waiters alone is unseen.
LEMMA StutterRefines ==
    ASSUME UNCHANGED <<value, sem>>
    PROVE  UNCHANGED Abstract!vars
  BY DEF Abstract!vars, InP

\* Semaphores with their scheduler, interrupts and context switches are the
\* counting semaphores that synch.h describes.
THEOREM SemaphoresRefineCounters == SafetySpec => ImplementsCountingSemaphore
<1>1. Init => Abstract!Init
  BY DEF Init, Abstract!Init, InP
<1>2. Inductive /\ [Next]_vars => [Abstract!Next]_(Abstract!vars)
  BY SemaphoreSteps, PStepRefines, VStepRefines, StutterRefines
  DEF SemaphoreStep
<1> QED
  BY <1>1, <1>2, InductiveInvariant, PTL
  DEF SafetySpec, ImplementsCountingSemaphore, Abstract!Safety

=============================================================================
