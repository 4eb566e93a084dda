------------------------- MODULE SynchConsoleProofs -------------------------
(***************************************************************************)
(* Theorems about SynchConsole, for any number of threads and any input:   *)
(* the devices' ASSERTs hold, no byte is lost or overtaken, there is one   *)
(* interrupt for each character that is waited for, PutChar implements     *)
(* SynchronousDevice, and only the end of the input stops the readers.     *)
(***************************************************************************)
EXTENDS SynchConsole, FiniteSetTheorems, TLAPS

(***************************************************************************)
(* The inductive invariant.  Each lock has one holder at most.  An input   *)
(* interrupt is pending, or its unit is free, or a thread has that unit,   *)
(* and never two of these; a character that is being shown has either its  *)
(* interrupt pending or the unit the interrupt left, and its thread waits. *)
(***************************************************************************)

InGet(t) == at[t] \in {"getHolding", "getWait", "getReady"}
InPut(t) == at[t] \in {"putHolding", "putWait", "putReady"}

LockInv ==
    /\ \A t, u \in Threads : InGet(t) /\ InGet(u) => t = u
    /\ \A t, u \in Threads : InPut(t) /\ InPut(u) => t = u
    /\ count["inLock"] = IF \E t \in Threads : InGet(t) THEN 0 ELSE 1
    /\ count["outLock"] = IF \E t \in Threads : InPut(t) THEN 0 ELSE 1

InputInv ==
    /\ readPending => incoming = EOF
    /\ readPending => count["inWaitFor"] = 0
    /\ count["inWaitFor"] \in {0, 1}
    /\ \A t \in Threads : at[t] = "getReady" => count["inWaitFor"] = 0 /\ ~readPending

Shown == ~putBusy /\ writePending = 0 /\ count["outWaitFor"] = 0
Showing == putBusy /\ writePending = 1 /\ count["outWaitFor"] = 0
Signalled == ~putBusy /\ writePending = 0 /\ count["outWaitFor"] = 1

OutputInv ==
    /\ (\E t \in Threads : at[t] = "putWait") => Showing \/ Signalled
    /\ (\A t \in Threads : at[t] # "putWait") => Shown

Inductive == TypeOK /\ LockInv /\ InputInv /\ OutputInv /\ InputInOrder

-----------------------------------------------------------------------------
(***************************************************************************)
(* Every step keeps the invariant.                                         *)
(***************************************************************************)

(* The console starts idle, with the keyboard polled for its first byte. *)
LEMMA InitialStates ==
    Init => Inductive
<1> SUFFICES ASSUME Init PROVE Inductive
  OBVIOUS
<1> USE SynchConsoleAssumption DEF SynchConsoleAssumption, Init, Sem!Init, Semaphores
<1>1. TypeOK
  <2>1. Sem!TypeOK
    BY DEF Sem!TypeOK
  <2>2. at \in [Threads -> Places]
    BY DEF Places
  <2>3. nextByte \in 1..(InputLength + 1) /\ incoming \in (1..InputLength) \cup {EOF}
    OBVIOUS
  <2>4. display \in Seq(Threads) /\ received \in Seq((1..InputLength) \cup {EOF})
    OBVIOUS
  <2>5. readPending \in BOOLEAN /\ inputFile \in InputFiles /\ putBusy \in BOOLEAN /\ writePending \in Nat
    OBVIOUS
  <2> HIDE DEF Init
  <2> QED
    BY <2>1, <2>2, <2>3, <2>4, <2>5 DEF TypeOK
<1>2. LockInv
  BY DEF LockInv, InGet, InPut
<1>3. InputInv /\ OutputInv
  BY DEF InputInv, OutputInv, Shown
<1>4. InputInOrder
  BY DEF InputInOrder
<1> QED
  BY <1>1, <1>2, <1>3, <1>4 DEF Inductive

USE SynchConsoleAssumption DEF SynchConsoleAssumption, Semaphores

(* GetChar takes the lock of the input, or starts to wait for it. *)
LEMMA CallGetCharKeeps ==
    ASSUME Inductive, NEW t \in Threads, CallGetChar(t)
    PROVE  Inductive'
<1> USE DEF Inductive, CallGetChar, P, GoTo, inputVars, outputVars, Sem!TakeAtOnce, Sem!StartWaiting
<1>1. TypeOK'
  <2>1. Sem!TypeOK'
    BY DEF TypeOK, Sem!TypeOK
  <2>2. at' \in [Threads -> Places]
    BY DEF TypeOK, Places, GetPlaces, PutPlaces
  <2> QED
    BY <2>1, <2>2 DEF TypeOK
<1>2. LockInv'
  BY DEF TypeOK, Sem!TypeOK, LockInv, InGet, InPut
<1>3. InputInv'
  BY DEF TypeOK, Sem!TypeOK, LockInv, InGet, InputInv
<1>4. OutputInv'
  BY DEF TypeOK, Sem!TypeOK, LockInv, InPut, OutputInv, Shown, Showing, Signalled
<1>5. InputInOrder'
  BY DEF InputInOrder
<1> QED
  BY <1>1, <1>2, <1>3, <1>4, <1>5

(* The holder of the lock passes the P on waitFor, or sleeps in it. *)
LEMMA GetCharWaitsKeeps ==
    ASSUME Inductive, NEW t \in Threads, GetCharWaits(t)
    PROVE  Inductive'
<1> USE DEF Inductive, GetCharWaits, P, GoTo, inputVars, outputVars, Sem!TakeAtOnce, Sem!StartWaiting
<1>1. TypeOK'
  <2>1. Sem!TypeOK'
    BY DEF TypeOK, Sem!TypeOK
  <2>2. at' \in [Threads -> Places]
    BY DEF TypeOK, Places, GetPlaces, PutPlaces
  <2> QED
    BY <2>1, <2>2 DEF TypeOK
<1>2. LockInv'
  BY DEF TypeOK, Sem!TypeOK, LockInv, InGet, InPut
<1>3. InputInv'
  BY DEF TypeOK, Sem!TypeOK, LockInv, InGet, InputInv
<1>4. OutputInv'
  BY DEF TypeOK, Sem!TypeOK, LockInv, InPut, OutputInv, Shown, Showing, Signalled
<1>5. InputInOrder'
  BY DEF InputInOrder
<1> QED
  BY <1>1, <1>2, <1>3, <1>4, <1>5

\* The character moves from incoming to the end of what was received.
LEMMA TakeCharKeeps ==
    ASSUME Inductive, NEW t \in Threads, TakeChar(t)
    PROVE  Inductive'
<1> USE DEF Inductive, TakeChar, GoTo, inputVars, outputVars, Sem!Release
<1>1. TypeOK'
  <2>1. Sem!TypeOK'
    BY DEF TypeOK, Sem!TypeOK
  <2>2. at' \in [Threads -> Places]
    BY DEF TypeOK, Places, GetPlaces, PutPlaces
  <2> QED
    BY <2>1, <2>2 DEF TypeOK
<1>2. LockInv'
  BY DEF TypeOK, Sem!TypeOK, LockInv, InGet, InPut
<1>3. InputInv'
  BY DEF TypeOK, Sem!TypeOK, LockInv, InGet, InputInv
<1>4. OutputInv'
  BY DEF TypeOK, Sem!TypeOK, LockInv, InPut, OutputInv, Shown, Showing, Signalled
<1>5. InputInOrder'
  <2> DEFINE chars == Append(received, incoming)
             charsNext == Append(received', incoming')
  <2>1. received \in Seq((1..InputLength) \cup {EOF}) /\ incoming \in (1..InputLength) \cup {EOF}
    BY DEF TypeOK
  <2>2. /\ DOMAIN charsNext = (DOMAIN chars) \cup {Len(received) + 2}
        /\ charsNext[Len(received) + 2] = EOF
        /\ \A i \in DOMAIN chars : charsNext[i] = chars[i]
    BY <2>1
  <2> HIDE DEF chars, charsNext
  <2>3. {i \in DOMAIN charsNext : charsNext[i] # EOF} = {i \in DOMAIN chars : chars[i] # EOF}
    BY <2>2
  <2>4. /\ {chars[i] : i \in {j \in DOMAIN chars : chars[j] # EOF}} = (1..(nextByte - 1)) \ inputFile
        /\ \A i, j \in {k \in DOMAIN chars : chars[k] # EOF} : i < j => chars[i] < chars[j]
    BY DEF InputInOrder, chars
  <2>5. /\ {charsNext[i] : i \in {j \in DOMAIN charsNext : charsNext[j] # EOF}} = (1..(nextByte' - 1)) \ inputFile'
        /\ \A i, j \in {k \in DOMAIN charsNext : charsNext[k] # EOF} : i < j => charsNext[i] < charsNext[j]
    BY <2>2, <2>3, <2>4
  <2> QED
    BY <2>5 DEF InputInOrder, charsNext
<1> QED
  BY <1>1, <1>2, <1>3, <1>4, <1>5

\* The byte is greater than all before it, and it comes last.
LEMMA ReadByteKeeps ==
    ASSUME Inductive, ReadByte
    PROVE  Inductive'
<1> USE DEF Inductive, ReadByte, inputVars, outputVars, Sem!Release
<1>1. TypeOK'
  <2>1. Sem!TypeOK'
    BY DEF TypeOK, Sem!TypeOK
  <2>2. at' \in [Threads -> Places]
    BY DEF TypeOK, Places, GetPlaces, PutPlaces
  <2>3. nextByte' \in 1..(InputLength + 1) /\ incoming' \in (1..InputLength) \cup {EOF}
    BY DEF TypeOK
  <2> QED
    BY <2>1, <2>2, <2>3 DEF TypeOK
<1>2. LockInv'
  BY DEF TypeOK, Sem!TypeOK, LockInv, InGet, InPut
<1>3. InputInv'
  BY DEF TypeOK, Sem!TypeOK, LockInv, InGet, InputInv
<1>4. OutputInv'
  BY DEF TypeOK, Sem!TypeOK, LockInv, InPut, OutputInv, Shown, Showing, Signalled
<1>5. InputInOrder'
  <2> DEFINE chars == Append(received, incoming)
             charsNext == Append(received', incoming')
             last == Len(received) + 1
  <2>1. received \in Seq((1..InputLength) \cup {EOF}) /\ incoming = EOF /\ nextByte \in 1..InputLength
    BY DEF TypeOK, InputInv
  <2>2. /\ DOMAIN charsNext = DOMAIN chars /\ DOMAIN chars = 1..last /\ last \in Nat \ {0}
        /\ charsNext[last] = incoming' /\ chars[last] = EOF
        /\ \A i \in DOMAIN chars : i # last => charsNext[i] = chars[i]
    BY <2>1
  <2> HIDE DEF chars, charsNext, last
  <2>3. /\ {chars[i] : i \in {j \in DOMAIN chars : chars[j] # EOF}} = (1..(nextByte - 1)) \ inputFile
        /\ \A i, j \in {k \in DOMAIN chars : chars[k] # EOF} : i < j => chars[i] < chars[j]
    BY DEF InputInOrder, chars
  <2>4. /\ {charsNext[i] : i \in {j \in DOMAIN charsNext : charsNext[j] # EOF}} = (1..(nextByte' - 1)) \ inputFile'
        /\ \A i, j \in {k \in DOMAIN charsNext : charsNext[k] # EOF} : i < j => charsNext[i] < charsNext[j]
    <3>1. \A i \in DOMAIN chars : chars[i] # EOF => chars[i] \in 1..(nextByte - 1)
      BY <2>3
    <3>2. CASE nextByte \in inputFile
      <4>1. \A i \in DOMAIN chars : charsNext[i] = chars[i]
        BY <2>2, <3>2
      <4>2. (1..(nextByte' - 1)) \ inputFile' = (1..(nextByte - 1)) \ inputFile
        BY <2>1, <3>2
      <4> QED
        BY <2>2, <2>3, <4>1, <4>2
    <3>3. CASE nextByte \notin inputFile
      <4>1. charsNext[last] = nextByte /\ nextByte # EOF
        BY <2>1, <2>2, <3>3
      <4>2. (1..(nextByte' - 1)) \ inputFile' = ((1..(nextByte - 1)) \ inputFile) \cup {nextByte}
        <5>1. 1..(nextByte' - 1) = (1..(nextByte - 1)) \cup {nextByte}
          BY <2>1
        <5> QED
          BY <3>3, <5>1
      <4>3. {j \in DOMAIN charsNext : charsNext[j] # EOF} = {j \in DOMAIN chars : chars[j] # EOF} \cup {last}
        <5>1. \A j \in DOMAIN chars : charsNext[j] # EOF <=> chars[j] # EOF \/ j = last
          BY <2>2, <4>1
        <5>2. last \in DOMAIN chars /\ DOMAIN charsNext = DOMAIN chars
          BY <2>2
        <5> QED
          BY <5>1, <5>2
      <4>4. \A i \in {j \in DOMAIN chars : chars[j] # EOF} : charsNext[i] = chars[i] /\ i < last
        BY <2>2
      <4>5. {charsNext[i] : i \in {j \in DOMAIN charsNext : charsNext[j] # EOF}} = (1..(nextByte' - 1)) \ inputFile'
        BY <2>3, <4>1, <4>2, <4>3, <4>4
      <4>6. \A i, j \in {k \in DOMAIN charsNext : charsNext[k] # EOF} : i < j => charsNext[i] < charsNext[j]
        BY <2>1, <2>2, <2>3, <3>1, <4>1, <4>3, <4>4
      <4> QED
        BY <4>5, <4>6
    <3> QED
      BY <3>2, <3>3
  <2> QED
    BY <2>4 DEF InputInOrder, charsNext
<1> QED
  BY <1>1, <1>2, <1>3, <1>4, <1>5

(* The end of the input is reported once and schedules no further interrupt. *)
LEMMA ReadEndKeeps ==
    ASSUME Inductive, ReadEnd
    PROVE  Inductive'
<1> USE DEF Inductive, ReadEnd, inputVars, outputVars, Sem!Release
<1>1. TypeOK'
  <2>1. Sem!TypeOK'
    BY DEF TypeOK, Sem!TypeOK
  <2>2. at' \in [Threads -> Places]
    BY DEF TypeOK, Places, GetPlaces, PutPlaces
  <2> QED
    BY <2>1, <2>2 DEF TypeOK
<1>2. LockInv'
  BY DEF TypeOK, Sem!TypeOK, LockInv, InGet, InPut
<1>3. InputInv'
  BY DEF TypeOK, Sem!TypeOK, LockInv, InGet, InputInv
<1>4. OutputInv'
  BY DEF TypeOK, Sem!TypeOK, LockInv, InPut, OutputInv, Shown, Showing, Signalled
<1>5. InputInOrder'
  BY DEF InputInOrder
<1> QED
  BY <1>1, <1>2, <1>3, <1>4, <1>5

(* PutChar takes the lock of the output, or starts to wait for it. *)
LEMMA CallPutCharKeeps ==
    ASSUME Inductive, NEW t \in Threads, CallPutChar(t)
    PROVE  Inductive'
<1> USE DEF Inductive, CallPutChar, P, GoTo, inputVars, outputVars, Sem!TakeAtOnce, Sem!StartWaiting
<1>1. TypeOK'
  <2>1. Sem!TypeOK'
    BY DEF TypeOK, Sem!TypeOK
  <2>2. at' \in [Threads -> Places]
    BY DEF TypeOK, Places, GetPlaces, PutPlaces
  <2> QED
    BY <2>1, <2>2 DEF TypeOK
<1>2. LockInv'
  <2>1. /\ \A u \in Threads : u # t => at'[u] = at[u]
        /\ \A s \in Semaphores \ {"outLock"} : count'[s] = count[s]
    BY DEF TypeOK, Sem!TypeOK
  <2>2. CASE count["outLock"] > 0 /\ at'[t] = "putHolding" /\ count'["outLock"] = count["outLock"] - 1
    BY <2>1, <2>2 DEF LockInv, InGet, InPut
  <2>3. CASE at'[t] = "putLock" /\ count' = count
    BY <2>1, <2>3 DEF LockInv, InGet, InPut
  <2> QED
    BY <2>2, <2>3 DEF TypeOK, Sem!TypeOK
<1>3. InputInv'
  BY DEF TypeOK, Sem!TypeOK, LockInv, InGet, InputInv
<1>4. OutputInv'
  BY DEF TypeOK, Sem!TypeOK, LockInv, InPut, OutputInv, Shown, Showing, Signalled
<1>5. InputInOrder'
  BY DEF InputInOrder
<1> QED
  BY <1>1, <1>2, <1>3, <1>4, <1>5

\* The display is ready and its semaphore has no unit, so the thread waits.
LEMMA WriteCharKeeps ==
    ASSUME Inductive, NEW t \in Threads, WriteChar(t)
    PROVE  Inductive'
<1> USE DEF Inductive
<1>1. Shown /\ \A u \in Threads : u # t => ~InPut(u)
  BY DEF WriteChar, LockInv, OutputInv, InPut
<1>2. /\ at[t] = "putHolding"
      /\ putBusy' = TRUE
      /\ writePending' = writePending + 1
      /\ display' = Append(display, t)
      /\ at' = [at EXCEPT ![t] = "putWait"]
      /\ count' = count
      /\ inP' = [inP EXCEPT !["outWaitFor"] = @ \cup {t}]
      /\ UNCHANGED inputVars
  BY <1>1 DEF WriteChar, P, GoTo, Shown, Sem!TakeAtOnce, Sem!StartWaiting
<1> USE DEF inputVars
<1>3. TypeOK'
  <2>1. Sem!TypeOK'
    BY <1>2 DEF TypeOK, Sem!TypeOK
  <2>2. at' \in [Threads -> Places]
    BY <1>2 DEF TypeOK, Places, PutPlaces
  <2> QED
    BY <1>2, <2>1, <2>2 DEF TypeOK
<1>4. LockInv'
  BY <1>2 DEF TypeOK, LockInv, InGet, InPut
<1>5. InputInv'
  BY <1>2 DEF TypeOK, InputInv
<1>6. OutputInv'
  <2>1. Showing'
    BY <1>1, <1>2 DEF TypeOK, Shown, Showing
  <2>2. at'[t] = "putWait"
    BY <1>2 DEF TypeOK
  <2> QED
    BY <2>1, <2>2 DEF OutputInv
<1>7. InputInOrder'
  BY <1>2 DEF InputInOrder
<1> QED
  BY <1>3, <1>4, <1>5, <1>6, <1>7

(* The writer, its character shown, gives the lock back. *)
LEMMA PutDoneKeeps ==
    ASSUME Inductive, NEW t \in Threads, PutDone(t)
    PROVE  Inductive'
<1> USE DEF Inductive, PutDone, GoTo, inputVars, outputVars, Sem!Release
<1>1. TypeOK'
  <2>1. Sem!TypeOK'
    BY DEF TypeOK, Sem!TypeOK
  <2>2. at' \in [Threads -> Places]
    BY DEF TypeOK, Places, GetPlaces, PutPlaces
  <2> QED
    BY <2>1, <2>2 DEF TypeOK
<1>2. LockInv'
  BY DEF TypeOK, Sem!TypeOK, LockInv, InGet, InPut
<1>3. InputInv'
  BY DEF TypeOK, Sem!TypeOK, LockInv, InGet, InputInv
<1>4. OutputInv'
  BY DEF TypeOK, Sem!TypeOK, LockInv, InPut, OutputInv, Shown, Showing, Signalled
<1>5. InputInOrder'
  BY DEF InputInOrder
<1> QED
  BY <1>1, <1>2, <1>3, <1>4, <1>5

(* The display's interrupt frees it and V()s waitFor. *)
LEMMA WriteInterruptKeeps ==
    ASSUME Inductive, WriteInterrupt
    PROVE  Inductive'
<1> USE DEF Inductive, WriteInterrupt, inputVars, outputVars, Sem!Release
<1>1. TypeOK'
  <2>1. Sem!TypeOK'
    BY DEF TypeOK, Sem!TypeOK
  <2>2. at' \in [Threads -> Places]
    BY DEF TypeOK, Places, GetPlaces, PutPlaces
  <2>3. writePending' \in Nat
    <3>1. writePending \in Nat /\ writePending > 0
      BY DEF TypeOK
    <3> QED
      BY <3>1
  <2>4. putBusy' \in BOOLEAN
    OBVIOUS
  <2> QED
    BY <2>1, <2>2, <2>3, <2>4 DEF TypeOK
<1>2. LockInv'
  BY DEF TypeOK, Sem!TypeOK, LockInv, InGet, InPut
<1>3. InputInv'
  BY DEF TypeOK, Sem!TypeOK, LockInv, InGet, InputInv
<1>4. OutputInv'
  BY DEF TypeOK, Sem!TypeOK, LockInv, InPut, OutputInv, Shown, Showing, Signalled
<1>5. InputInOrder'
  BY DEF InputInOrder
<1> QED
  BY <1>1, <1>2, <1>3, <1>4, <1>5

(* A thread is woken with a unit of the semaphore it waits for. *)
LEMMA GrantedKeeps ==
    ASSUME Inductive, NEW t \in Threads, NEW s \in Semaphores, Granted(t, s)
    PROVE  Inductive'
<1> USE DEF Inductive, Granted, Woken, GoTo, inputVars, outputVars, Sem!TakeAfterWaiting
<1>1. TypeOK'
  <2>1. Sem!TypeOK'
    BY DEF TypeOK, Sem!TypeOK
  <2>2. at' \in [Threads -> Places]
    BY DEF TypeOK, Places, GetPlaces, PutPlaces
  <2> QED
    BY <2>1, <2>2 DEF TypeOK
<1>2. LockInv'
  BY DEF TypeOK, Sem!TypeOK, LockInv, InGet, InPut
<1>3. InputInv'
  BY DEF TypeOK, Sem!TypeOK, LockInv, InGet, InputInv
<1>4. OutputInv'
  BY DEF TypeOK, Sem!TypeOK, LockInv, InPut, OutputInv, Shown, Showing, Signalled
<1>5. InputInOrder'
  BY DEF InputInOrder
<1> QED
  BY <1>1, <1>2, <1>3, <1>4, <1>5

(* A stuttering step changes nothing Inductive speaks of. *)
LEMMA StutteringKeeps ==
    ASSUME Inductive, UNCHANGED vars
    PROVE  Inductive'
<1> USE DEF Inductive, vars, inputVars, outputVars
<1>1. TypeOK'
  <2>1. Sem!TypeOK'
    BY DEF TypeOK, Sem!TypeOK
  <2>2. at' \in [Threads -> Places]
    BY DEF TypeOK, Places, GetPlaces, PutPlaces
  <2> QED
    BY <2>1, <2>2 DEF TypeOK
<1>2. LockInv'
  BY DEF TypeOK, Sem!TypeOK, LockInv, InGet, InPut
<1>3. InputInv'
  BY DEF TypeOK, Sem!TypeOK, LockInv, InGet, InputInv
<1>4. OutputInv'
  BY DEF TypeOK, Sem!TypeOK, LockInv, InPut, OutputInv, Shown, Showing, Signalled
<1>5. InputInOrder'
  BY DEF InputInOrder
<1> QED
  BY <1>1, <1>2, <1>3, <1>4, <1>5

-----------------------------------------------------------------------------
\* Types, the locks' holders, the state of both devices and the order of the
\* input together are an inductive invariant.
THEOREM InductiveInvariant ==
    SafetySpec => []Inductive
<1>1. Inductive /\ [Next]_vars => Inductive'
  BY CallGetCharKeeps, GetCharWaitsKeeps, TakeCharKeeps, ReadByteKeeps, ReadEndKeeps,
     CallPutCharKeeps, WriteCharKeeps, PutDoneKeeps, WriteInterruptKeeps, GrantedKeeps,
     StutteringKeeps DEF Next, Proceed
<1> QED
  BY InitialStates, <1>1, PTL DEF SafetySpec

\* The variables of both consoles keep their types.
THEOREM TypeCorrect ==
    SafetySpec => []TypeOK
<1>1. Inductive => TypeOK
  BY DEF Inductive
<1> QED
  BY InductiveInvariant, <1>1, PTL

\* However many threads read and write, no keystroke overwrites another and
\* no character is sent to a busy display (console.cc:70 and 169).
THEOREM AssertionsHold ==
    SafetySpec => []DeviceAssertions
<1>1. Inductive => DeviceAssertions
  BY DEF Inductive, LockInv, InPut, InputInv, OutputInv, Shown, DeviceAssertions
<1> QED
  BY InductiveInvariant, <1>1, PTL

\* The bytes of the input reach the threads once each and in their order
\* (SynchConsoleInput::GetChar and ConsoleInput::CallBack).
THEOREM InputIsInOrder ==
    SafetySpec => []InputInOrder
<1>1. Inductive => InputInOrder
  BY DEF Inductive
<1> QED
  BY InductiveInvariant, <1>1, PTL

\* A thread that waits for the display has one interrupt to wait for, and
\* an interrupt has one thread (SynchConsoleOutput::PutChar and CallBack).
THEOREM InterruptsMatchChars ==
    SafetySpec => []OneInterruptPerChar
<1>1. Inductive => OneInterruptPerChar
  <2> SUFFICES ASSUME Inductive PROVE OneInterruptPerChar
    OBVIOUS
  <2> USE DEF Inductive
  <2>1. CASE \E t \in Threads : at[t] = "putWait"
    <3>1. PICK t \in Threads : at[t] = "putWait"
      BY <2>1
    <3>2. {u \in Threads : at[u] = "putWait"} = {t}
      BY <3>1 DEF LockInv, InPut
    <3>3. Cardinality({u \in Threads : at[u] = "putWait"}) = 1
      BY <3>2, FS_Singleton, Zenon
    <3> QED
      BY <3>1, <3>3 DEF OutputInv, Showing, Signalled, OneInterruptPerChar
  <2>2. CASE \A t \in Threads : at[t] # "putWait"
    <3>1. {t \in Threads : at[t] = "putWait"} = {}
      BY <2>2
    <3>2. Cardinality({t \in Threads : at[t] = "putWait"}) = 0
      BY <3>1, FS_EmptySet, Zenon
    <3> QED
      BY <2>2, <3>2 DEF OutputInv, Shown, OneInterruptPerChar
  <2> QED
    BY <2>1, <2>2
<1> QED
  BY InductiveInvariant, <1>1, PTL

-----------------------------------------------------------------------------
(***************************************************************************)
(* The input ends with the first EOF.                                      *)
(***************************************************************************)

(* What has been received gains the character that was taken. *)
LEMMA RangeOfAppend ==
    ASSUME NEW S, NEW q \in Seq(S), NEW e \in S
    PROVE  Range(Append(q, e)) = Range(q) \cup {e}
<1> DEFINE a == Append(q, e)
<1>1. /\ DOMAIN a = 1..(Len(q) + 1) /\ DOMAIN q = 1..Len(q) /\ Len(q) \in Nat
      /\ \A i \in 1..Len(q) : a[i] = q[i]
      /\ a[Len(q) + 1] = e
  OBVIOUS
<1> QED
  BY <1>1 DEF Range

Announced == \E t \in Threads : at[t] = "getReady"

(* An interrupt leaves a unit, and a unit goes to a reader. *)
LEMMA AnnouncementStays ==
    ASSUME Inductive, InputEndsAtEOF, received' = received,
           (readPending \/ count["inWaitFor"] > 0 \/ Announced)'
             <=> (readPending \/ count["inWaitFor"] > 0 \/ Announced)
    PROVE  InputEndsAtEOF'
  BY DEF InputEndsAtEOF, Announced

(* The reader that takes a character has announced it to no other. *)
LEMMA TakeCharEndsAtEOF ==
    ASSUME Inductive, InputEndsAtEOF, NEW t \in Threads, TakeChar(t)
    PROVE  InputEndsAtEOF'
<1> USE DEF Inductive
<1>1. /\ at[t] = "getReady"
      /\ received' = Append(received, incoming)
      /\ readPending' = (readPending \/ incoming # EOF)
      /\ at' = [at EXCEPT ![t] = "out"]
      /\ count' = [count EXCEPT !["inLock"] = @ + 1]
  BY DEF TakeChar, Sem!Release, GoTo
<1>2. EOF \notin Range(received) /\ ~readPending /\ count["inWaitFor"] = 0
  BY <1>1 DEF InputEndsAtEOF, InputInv
<1>3. Range(received') = Range(received) \cup {incoming}
  BY <1>1, RangeOfAppend DEF TypeOK
<1>4. \A u \in Threads : at'[u] # "getReady"
  BY <1>1 DEF TypeOK, LockInv, InGet
<1>5. count'["inWaitFor"] = 0
  BY <1>1, <1>2 DEF TypeOK, Sem!TypeOK
<1>6. CASE incoming = EOF
  <2>1. ~readPending' /\ EOF \in Range(received')
    BY <1>1, <1>2, <1>3, <1>6
  <2> QED
    BY <1>4, <1>5, <2>1 DEF InputEndsAtEOF
<1>7. CASE incoming # EOF
  <2>1. readPending' /\ EOF \notin Range(received')
    BY <1>1, <1>2, <1>3, <1>7
  <2> QED
    BY <2>1 DEF InputEndsAtEOF
<1> QED
  BY <1>6, <1>7

(* The other steps of GetChar keep the announcement. *)
LEMMA GetCharEndsAtEOF ==
    ASSUME Inductive, InputEndsAtEOF, NEW t \in Threads, CallGetChar(t) \/ GetCharWaits(t)
    PROVE  InputEndsAtEOF'
<1> USE DEF Inductive, Announced
<1>1. CASE CallGetChar(t)
  BY <1>1, AnnouncementStays
     DEF TypeOK, Sem!TypeOK, Semaphores, CallGetChar, P, GoTo, inputVars, Sem!TakeAtOnce, Sem!StartWaiting
<1>2. CASE GetCharWaits(t)
  BY <1>2, AnnouncementStays
     DEF TypeOK, Sem!TypeOK, Semaphores, GetCharWaits, P, GoTo, inputVars, Sem!TakeAtOnce, Sem!StartWaiting
<1> QED
  BY <1>1, <1>2

(* The keyboard's interrupt becomes a unit. *)
LEMMA KeyboardEndsAtEOF ==
    ASSUME Inductive, InputEndsAtEOF, ReadByte \/ ReadEnd
    PROVE  InputEndsAtEOF'
<1> USE DEF Inductive
<1>1. readPending /\ received' = received /\ count' = [count EXCEPT !["inWaitFor"] = @ + 1]
  BY DEF ReadByte, ReadEnd, Sem!Release
<1>2. count'["inWaitFor"] > 0
  BY <1>1 DEF TypeOK, Sem!TypeOK, Semaphores
<1> QED
  BY <1>1, <1>2, AnnouncementStays

(* Output does not touch the input. *)
LEMMA PutCharEndsAtEOF ==
    ASSUME Inductive, InputEndsAtEOF, NEW t \in Threads, CallPutChar(t) \/ WriteChar(t) \/ PutDone(t)
    PROVE  InputEndsAtEOF'
<1> USE DEF Inductive
<1>1. readPending' = readPending /\ received' = received
  BY DEF CallPutChar, WriteChar, PutDone, inputVars
<1>2. count'["inWaitFor"] = count["inWaitFor"]
  BY DEF CallPutChar, WriteChar, PutDone, P, Sem!TakeAtOnce, Sem!StartWaiting, Sem!Release,
         TypeOK, Sem!TypeOK, Semaphores
<1>3. \A u \in Threads : at'[u] = "getReady" <=> at[u] = "getReady"
  BY DEF CallPutChar, WriteChar, PutDone, P, GoTo, TypeOK
<1> QED
  BY <1>1, <1>2, <1>3 DEF InputEndsAtEOF

(* Nor does the display. *)
LEMMA DisplayEndsAtEOF ==
    ASSUME Inductive, InputEndsAtEOF, WriteInterrupt
    PROVE  InputEndsAtEOF'
<1>1. readPending' = readPending /\ received' = received /\ at' = at
  BY DEF WriteInterrupt, inputVars
<1>2. count'["inWaitFor"] = count["inWaitFor"]
  BY DEF Inductive, WriteInterrupt, Sem!Release, TypeOK, Sem!TypeOK, Semaphores
<1> QED
  BY <1>1, <1>2 DEF InputEndsAtEOF

(* A reader that is woken has the announcement that its unit was. *)
LEMMA GrantedEndsAtEOF ==
    ASSUME Inductive, InputEndsAtEOF, NEW t \in Threads, NEW s \in Semaphores, Granted(t, s)
    PROVE  InputEndsAtEOF'
  BY AnnouncementStays
     DEF Inductive, Announced, TypeOK, Sem!TypeOK, Semaphores, Granted, Woken, GoTo, inputVars, Sem!TakeAfterWaiting

\* GetChar has something to wait for exactly until it has returned EOF once,
\* whatever the input is and however many threads read (GetChar and CallBack).
THEOREM InputEnds ==
    SafetySpec => []InputEndsAtEOF
<1>1. Init => InputEndsAtEOF
  BY DEF Init, InputEndsAtEOF, Range
<1>2. Inductive /\ InputEndsAtEOF /\ [Next]_vars => InputEndsAtEOF'
  <2> SUFFICES ASSUME Inductive, InputEndsAtEOF, [Next]_vars PROVE InputEndsAtEOF'
    OBVIOUS
  <2>1. CASE UNCHANGED vars
    <3>1. readPending' = readPending /\ received' = received /\ at' = at /\ count' = count
      BY <2>1 DEF vars, inputVars
    <3> QED
      BY <3>1 DEF InputEndsAtEOF
  <2> QED
    BY <2>1, TakeCharEndsAtEOF, GetCharEndsAtEOF, KeyboardEndsAtEOF, PutCharEndsAtEOF,
       DisplayEndsAtEOF, GrantedEndsAtEOF DEF Next, Proceed
<1> QED
  BY InductiveInvariant, <1>1, <1>2, PTL DEF SafetySpec

-----------------------------------------------------------------------------
(***************************************************************************)
(* Each step is one of SynchronousDevice, or changes nothing that the      *)
(* callers of PutChar see.                                                 *)
(***************************************************************************)

USE DEF Display!Advance, Display!SetBusy

(* What a place says about a PutChar, and the semaphore for one that waits. *)
LEMMA StageFacts ==
    ASSUME NEW t \in Threads
    PROVE  /\ at[t] \notin PutPlaces => Stage(t) = "out"
           /\ at[t] = "putLock" => Stage(t) = "calling"
           /\ at[t] = "putHolding" => Stage(t) = "granted"
           /\ at[t] = "putWait" /\ count["outWaitFor"] = 0 => Stage(t) = "served"
           /\ at[t] = "putWait" /\ count["outWaitFor"] # 0 => Stage(t) = "answered"
           /\ at[t] = "putReady" => Stage(t) = "answered"
  BY DEF Stage, PutPlaces

(* The same of the next state. *)
LEMMA NextStageFacts ==
    ASSUME NEW t \in Threads
    PROVE  /\ at'[t] \notin PutPlaces => Stage(t)' = "out"
           /\ at'[t] = "putLock" => Stage(t)' = "calling"
           /\ at'[t] = "putHolding" => Stage(t)' = "granted"
           /\ at'[t] = "putWait" /\ count'["outWaitFor"] = 0 => Stage(t)' = "served"
           /\ at'[t] = "putWait" /\ count'["outWaitFor"] # 0 => Stage(t)' = "answered"
           /\ at'[t] = "putReady" => Stage(t)' = "answered"
  BY DEF Stage, PutPlaces

\* A step that moves one thread, and leaves the semaphore alone if another
\* waits for it, moves the call of that thread only.
LEMMA OthersStay ==
    ASSUME TypeOK, NEW t \in Threads, NEW place, GoTo(t, place),
           count'["outWaitFor"] = count["outWaitFor"] \/ \A u \in Threads : u # t => ~InPut(u),
           NEW s, Stage(t)' = s
    PROVE  [u \in Threads |-> Stage(u)]' = [[u \in Threads |-> Stage(u)] EXCEPT ![t] = s]
<1>1. ASSUME NEW u \in Threads, u # t PROVE Stage(u)' = Stage(u)
  <2>1. at'[u] = at[u]
    BY <1>1 DEF TypeOK, GoTo
  <2>2. CASE count'["outWaitFor"] = count["outWaitFor"]
    BY <2>1, <2>2 DEF Stage
  <2>3. CASE ~InPut(u)
    BY <2>1, <2>3, StageFacts, NextStageFacts DEF InPut, PutPlaces
  <2> QED
    BY <1>1, <2>2, <2>3
<1> QED
  BY <1>1

(* A thread that is in no PutChar before and after a step has no new stage. *)
LEMMA ReadersStay ==
    ASSUME TypeOK, NEW t \in Threads, NEW place, GoTo(t, place),
           place \notin PutPlaces, at[t] \notin PutPlaces,
           count'["outWaitFor"] = count["outWaitFor"], putBusy' = putBusy
    PROVE  UNCHANGED Display!vars
<1>1. at'[t] \notin PutPlaces
  BY DEF TypeOK, GoTo
<1>2. Stage(t) = "out" /\ Stage(t)' = "out"
  BY <1>1, StageFacts, NextStageFacts
<1>3. [u \in Threads |-> Stage(u)]' = [[u \in Threads |-> Stage(u)] EXCEPT ![t] = "out"]
  BY <1>2, OthersStay
<1>4. [u \in Threads |-> Stage(u)]' = [u \in Threads |-> Stage(u)]
  BY <1>2, <1>3
<1> QED
  BY <1>4 DEF Display!vars

(* GetChar is not seen by the callers of PutChar. *)
LEMMA GetCharRefines ==
    ASSUME Inductive, NEW t \in Threads, CallGetChar(t) \/ GetCharWaits(t) \/ TakeChar(t)
    PROVE  UNCHANGED Display!vars
<1> USE DEF Inductive
<1>1. putBusy' = putBusy
  BY DEF CallGetChar, GetCharWaits, TakeChar, outputVars
<1>2. count'["outWaitFor"] = count["outWaitFor"]
  BY DEF CallGetChar, GetCharWaits, TakeChar, P, Sem!TakeAtOnce, Sem!StartWaiting, Sem!Release,
         TypeOK, Sem!TypeOK, Semaphores
<1>3. at[t] \notin PutPlaces
  BY DEF CallGetChar, GetCharWaits, TakeChar, PutPlaces
<1>4. \E place \in Places \ PutPlaces : GoTo(t, place)
  BY DEF CallGetChar, GetCharWaits, TakeChar, P, Places, GetPlaces, PutPlaces
<1> QED
  BY <1>1, <1>2, <1>3, <1>4, ReadersStay

(* Nor are the keyboard's interrupts. *)
LEMMA ReadInterruptRefines ==
    ASSUME Inductive, ReadByte \/ ReadEnd
    PROVE  UNCHANGED Display!vars
<1>1. putBusy' = putBusy /\ at' = at
  BY DEF ReadByte, ReadEnd, outputVars
<1>2. count'["outWaitFor"] = count["outWaitFor"]
  BY DEF Inductive, ReadByte, ReadEnd, Sem!Release, TypeOK, Sem!TypeOK, Semaphores
<1> QED
  BY <1>1, <1>2 DEF Stage, Display!vars

(* PutChar waits for the display, or has it if nobody else does. *)
LEMMA CallPutCharRefines ==
    ASSUME Inductive, NEW t \in Threads, CallPutChar(t)
    PROVE  Display!Next
<1> USE DEF Inductive
<1>1. at[t] = "out" /\ putBusy' = putBusy
  BY DEF CallPutChar, outputVars
<1>2. Stage(t) = "out"
  BY <1>1, StageFacts DEF PutPlaces
<1>3. CASE Sem!TakeAtOnce(t, "outLock") /\ GoTo(t, "putHolding")
  <2>1. \A u \in Threads : ~InPut(u)
    BY <1>3 DEF LockInv, Sem!TakeAtOnce
  <2>2. at'[t] = "putHolding"
    BY <1>3 DEF TypeOK, GoTo
  <2>3. [u \in Threads |-> Stage(u)]' = [[u \in Threads |-> Stage(u)] EXCEPT ![t] = "granted"]
    BY <1>3, <2>1, <2>2, NextStageFacts, OthersStay
  <2>4. \A u \in Threads : Stage(u) \in {"out", "calling"}
    BY <2>1, StageFacts DEF TypeOK, InPut, PutPlaces
  <2>5. Display!Grant(t)
    BY <1>1, <1>2, <2>3, <2>4 DEF Display!Grant
  <2> QED
    BY <2>5 DEF Display!Next
<1>4. CASE Sem!StartWaiting(t, "outLock") /\ GoTo(t, "putLock")
  <2>1. at'[t] = "putLock"
    BY <1>4 DEF TypeOK, GoTo
  <2>2. [u \in Threads |-> Stage(u)]' = [[u \in Threads |-> Stage(u)] EXCEPT ![t] = "calling"]
    BY <1>4, <2>1, NextStageFacts, OthersStay DEF Sem!StartWaiting
  <2>3. Display!Call(t)
    BY <1>1, <1>2, <2>2 DEF Display!Call
  <2> QED
    BY <2>3 DEF Display!Next
<1> QED
  BY <1>3, <1>4 DEF CallPutChar, P

\* The display is ready and its semaphore has no unit of an earlier character,
\* so the thread that puts one waits.
LEMMA WriteCharRefines ==
    ASSUME Inductive, NEW t \in Threads, WriteChar(t)
    PROVE  Display!Next
<1> USE DEF Inductive
<1>1. at[t] = "putHolding" /\ putBusy' = TRUE /\ P(t, "outWaitFor", "putWait", "putReady")
  BY DEF WriteChar
<1>2. Shown
  BY <1>1 DEF LockInv, OutputInv, InPut
<1>3. GoTo(t, "putWait") /\ count' = count
  BY <1>1, <1>2 DEF P, Sem!TakeAtOnce, Sem!StartWaiting, Shown
<1>4. at'[t] = "putWait" /\ count'["outWaitFor"] = 0
  BY <1>2, <1>3 DEF TypeOK, GoTo, Shown
<1>5. [u \in Threads |-> Stage(u)]' = [[u \in Threads |-> Stage(u)] EXCEPT ![t] = "served"]
  BY <1>3, <1>4, NextStageFacts, OthersStay
<1>6. Display!Request(t)
  BY <1>1, <1>2, <1>5, StageFacts DEF Display!Request, Shown
<1> QED
  BY <1>6 DEF Display!Next

(* The thread that has been woken returns. *)
LEMMA PutDoneRefines ==
    ASSUME Inductive, NEW t \in Threads, PutDone(t)
    PROVE  Display!Next
<1> USE DEF Inductive
<1>1. /\ at[t] = "putReady" /\ putBusy' = putBusy /\ count'["outWaitFor"] = count["outWaitFor"]
      /\ GoTo(t, "out") /\ at'[t] \notin PutPlaces
  BY DEF PutDone, Sem!Release, outputVars, TypeOK, Sem!TypeOK, Semaphores, GoTo, PutPlaces
<1>2. [u \in Threads |-> Stage(u)]' = [[u \in Threads |-> Stage(u)] EXCEPT ![t] = "out"]
  BY <1>1, NextStageFacts, OthersStay
<1>3. Display!Return(t)
  BY <1>1, <1>2, StageFacts DEF Display!Return
<1> QED
  BY <1>3 DEF Display!Next

(* The interrupt answers the one thread whose character is being shown. *)
LEMMA WriteInterruptRefines ==
    ASSUME Inductive, WriteInterrupt
    PROVE  Display!Next
<1> USE DEF Inductive
<1>1. writePending > 0 /\ putBusy' = FALSE /\ Sem!Release("outWaitFor") /\ at' = at
  BY DEF WriteInterrupt
<1>2. PICK t \in Threads : at[t] = "putWait"
  BY <1>1 DEF OutputInv, Shown
<1>3. Showing
  BY <1>1, <1>2 DEF OutputInv, Signalled
<1>4. Stage(t) = "served" /\ putBusy
  BY <1>2, <1>3, StageFacts DEF Showing
<1>5. at'[t] = "putWait" /\ count'["outWaitFor"] = 1
  BY <1>1, <1>2, <1>3 DEF Showing, TypeOK, Sem!TypeOK, Semaphores, Sem!Release
<1>6. GoTo(t, "putWait") /\ \A u \in Threads : u # t => ~InPut(u)
  BY <1>1, <1>2 DEF GoTo, TypeOK, LockInv, InPut
<1>7. [u \in Threads |-> Stage(u)]' = [[u \in Threads |-> Stage(u)] EXCEPT ![t] = "answered"]
  BY <1>5, <1>6, NextStageFacts, OthersStay
<1>8. Display!Answer(t)
  BY <1>1, <1>4, <1>7 DEF Display!Answer
<1> QED
  BY <1>8 DEF Display!Next

\* The lock comes to a writer that has waited for it; the other semaphores'
\* units are not seen by the callers.
LEMMA GrantedRefines ==
    ASSUME Inductive, NEW t \in Threads, NEW s \in Semaphores, Granted(t, s)
    PROVE  Display!Next \/ UNCHANGED Display!vars
<1> USE DEF Inductive
<1>1. putBusy' = putBusy
  BY DEF Granted, outputVars
<1>2. CASE s \in {"inLock", "inWaitFor"}
  <2>1. count'["outWaitFor"] = count["outWaitFor"] /\ at[t] \notin PutPlaces
    BY <1>2 DEF Granted, Woken, Sem!TakeAfterWaiting, TypeOK, Sem!TypeOK, Semaphores, PutPlaces
  <2>2. \E place \in Places \ PutPlaces : GoTo(t, place)
    BY <1>2 DEF Granted, Woken, Places, GetPlaces, PutPlaces
  <2> QED
    BY <1>1, <2>1, <2>2, ReadersStay
<1>3. CASE s = "outLock"
  <2>1. at[t] = "putLock" /\ GoTo(t, "putHolding") /\ at'[t] = "putHolding"
    BY <1>3 DEF Granted, Woken, TypeOK, GoTo
  <2>2. \A u \in Threads : ~InPut(u)
    BY <1>3 DEF Granted, Woken, Sem!TakeAfterWaiting, LockInv
  <2>3. [u \in Threads |-> Stage(u)]' = [[u \in Threads |-> Stage(u)] EXCEPT ![t] = "granted"]
    BY <2>1, <2>2, NextStageFacts, OthersStay
  <2>4. \A u \in Threads : Stage(u) \in {"out", "calling"}
    BY <2>2, StageFacts DEF TypeOK, InPut, PutPlaces
  <2>5. Display!Grant(t)
    BY <1>1, <2>1, <2>3, <2>4, StageFacts DEF Display!Grant
  <2> QED
    BY <2>5 DEF Display!Next
<1>4. CASE s = "outWaitFor"
  <2>1. /\ at[t] = "putWait" /\ count["outWaitFor"] # 0
        /\ GoTo(t, "putReady") /\ at'[t] = "putReady"
    BY <1>4 DEF Granted, Woken, Sem!TakeAfterWaiting, TypeOK, GoTo
  <2>2. \A u \in Threads : u # t => ~InPut(u)
    BY <2>1 DEF LockInv, InPut
  <2>3. Stage(t) = "answered" /\ Stage(t)' = "answered"
    BY <2>1, StageFacts, NextStageFacts
  <2>4. [u \in Threads |-> Stage(u)]' = [[u \in Threads |-> Stage(u)] EXCEPT ![t] = "answered"]
    BY <2>1, <2>2, <2>3, OthersStay
  <2>5. [u \in Threads |-> Stage(u)]' = [u \in Threads |-> Stage(u)]
    BY <2>3, <2>4
  <2> QED
    BY <1>1, <2>5 DEF Display!vars
<1> QED
  BY <1>2, <1>3, <1>4 DEF Semaphores

\* PutChar and the display implement SynchronousDevice: each caller has the
\* display to itself and returns after the interrupt for its own character.
THEOREM PutCharRefinesDevice ==
    SafetySpec => ImplementsSynchronousDevice
<1>1. Init => Display!Init
  BY StageFacts DEF Init, Display!Init, PutPlaces
<1>2. Inductive /\ [Next]_vars => [Display!Next]_(Display!vars)
  <2> SUFFICES ASSUME Inductive, [Next]_vars PROVE Display!Next \/ UNCHANGED Display!vars
    OBVIOUS
  <2>1. CASE UNCHANGED vars
    BY <2>1 DEF vars, outputVars, Display!vars, Stage
  <2> QED
    BY <2>1, GetCharRefines, ReadInterruptRefines, CallPutCharRefines, WriteCharRefines,
       PutDoneRefines, WriteInterruptRefines, GrantedRefines DEF Next, Proceed
<1> QED
  BY InductiveInvariant, <1>1, <1>2, PTL DEF SafetySpec, ImplementsSynchronousDevice, Display!Spec

-----------------------------------------------------------------------------
(***************************************************************************)
(* Freedom from deadlock, for each of the two devices, with the steps that *)
(* go on given by their guards.  The end of the input is the one way to be *)
(* stuck in GetChar (the run console_eof).                                 *)
(***************************************************************************)

\* A thread is inside a semaphore exactly while its place says so.
WaitInv == \A t \in Threads :
    /\ t \in inP["inLock"] <=> at[t] = "getLock"
    /\ t \in inP["inWaitFor"] <=> at[t] = "getWait"
    /\ t \in inP["outLock"] <=> at[t] = "putLock"
    /\ t \in inP["outWaitFor"] <=> at[t] = "putWait"

OutsideP(t) == \A s \in Semaphores : t \notin inP[s]

OnlyEOFStopsReaders ==
    (\E t \in Threads : at[t] \in GetPlaces) =>
        \/ \E t \in Threads : at[t] \in {"getHolding", "getReady"} /\ OutsideP(t)
        \/ \E t \in inP["inLock"] : at[t] = "getLock" /\ count["inLock"] > 0
        \/ \E t \in inP["inWaitFor"] : at[t] = "getWait" /\ count["inWaitFor"] > 0
        \/ readPending
        \/ EOF \in Range(received)

NoWriterIsStuck ==
    (\E t \in Threads : at[t] \in PutPlaces) =>
        \/ \E t \in Threads : at[t] \in {"putHolding", "putReady"} /\ OutsideP(t)
        \/ \E t \in inP["outLock"] : at[t] = "putLock" /\ count["outLock"] > 0
        \/ \E t \in inP["outWaitFor"] : at[t] = "putWait" /\ count["outWaitFor"] > 0
        \/ writePending > 0

(* A P that does not wait, or starts to, and a P that returns. *)
LEMMA WaitingInP ==
    ASSUME Inductive, WaitInv, NEW t \in Threads,
           \/ at[t] = "out" /\ P(t, "inLock", "getLock", "getHolding")
           \/ at[t] = "getHolding" /\ P(t, "inWaitFor", "getWait", "getReady")
           \/ at[t] = "out" /\ P(t, "outLock", "putLock", "putHolding")
           \/ at[t] = "putHolding" /\ P(t, "outWaitFor", "putWait", "putReady")
    PROVE  WaitInv'
<1> USE DEF Inductive, TypeOK, Sem!TypeOK, Semaphores, WaitInv, P, GoTo,
            Sem!TakeAtOnce, Sem!StartWaiting
<1>1. CASE at[t] = "out" /\ P(t, "inLock", "getLock", "getHolding")
  BY <1>1
<1>2. CASE at[t] = "getHolding" /\ P(t, "inWaitFor", "getWait", "getReady")
  BY <1>2
<1>3. CASE at[t] = "out" /\ P(t, "outLock", "putLock", "putHolding")
  BY <1>3
<1>4. CASE at[t] = "putHolding" /\ P(t, "outWaitFor", "putWait", "putReady")
  BY <1>4
<1> QED
  BY <1>1, <1>2, <1>3, <1>4

(* Every P that waits is entered and left with its place. *)
LEMMA WaitingKeeps ==
    ASSUME Inductive, WaitInv, [Next]_vars
    PROVE  WaitInv'
<1>1. ASSUME NEW t \in Threads, CallGetChar(t) \/ GetCharWaits(t) \/ CallPutChar(t) \/ WriteChar(t)
      PROVE  WaitInv'
  BY <1>1, WaitingInP DEF CallGetChar, GetCharWaits, CallPutChar, WriteChar
<1> USE DEF Inductive, TypeOK, Sem!TypeOK, Semaphores, WaitInv, GoTo, Sem!Release
<1>2. ASSUME NEW t \in Threads, TakeChar(t) \/ PutDone(t) PROVE WaitInv'
  BY <1>2 DEF TakeChar, PutDone
<1>3. ASSUME NEW t \in Threads, NEW s \in Semaphores, Granted(t, s) PROVE WaitInv'
  BY <1>3 DEF Granted, Woken, Sem!TakeAfterWaiting
<1>4. CASE ReadByte \/ ReadEnd \/ WriteInterrupt
  BY <1>4 DEF ReadByte, ReadEnd, WriteInterrupt
<1>5. CASE UNCHANGED vars
  BY <1>5 DEF vars
<1> QED
  BY <1>1, <1>2, <1>3, <1>4, <1>5 DEF Next, Proceed

LEMMA WaitingInvariant ==
    SafetySpec => []WaitInv
<1>1. Init => WaitInv
  BY DEF Init, Sem!Init, WaitInv, Semaphores
<1>2. Inductive /\ WaitInv /\ [Next]_vars => WaitInv'
  BY WaitingKeeps
<1> QED
  BY InductiveInvariant, <1>1, <1>2, PTL DEF SafetySpec

\* While a thread is in PutChar, a writer can go on, with a unit for its P if
\* it waits, or the display's interrupt is pending (SynchConsoleOutput).
THEOREM WritersGoOn ==
    SafetySpec => []NoWriterIsStuck
<1>1. Inductive /\ WaitInv => NoWriterIsStuck
  <2> SUFFICES ASSUME Inductive, WaitInv, NEW t \in Threads, at[t] \in PutPlaces
               PROVE  NoWriterIsStuck
    BY DEF NoWriterIsStuck
  <2>1. CASE \E u \in Threads : at[u] = "putWait"
    <3>1. PICK u \in Threads : at[u] = "putWait"
      BY <2>1
    <3>2. u \in inP["outWaitFor"] /\ (writePending > 0 \/ count["outWaitFor"] > 0)
      BY <3>1 DEF WaitInv, Inductive, OutputInv, Showing, Signalled
    <3> QED
      BY <3>1, <3>2 DEF NoWriterIsStuck
  <2>2. CASE \E u \in Threads : at[u] \in {"putHolding", "putReady"}
    BY <2>2 DEF WaitInv, NoWriterIsStuck, OutsideP, Semaphores
  <2>3. CASE \A u \in Threads : ~InPut(u)
    <3>1. count["outLock"] > 0 /\ at[t] = "putLock"
      BY <2>3 DEF Inductive, LockInv, InPut, PutPlaces
    <3> QED
      BY <3>1 DEF WaitInv, NoWriterIsStuck
  <2> QED
    BY <2>1, <2>2, <2>3 DEF InPut
<1> QED
  BY InductiveInvariant, WaitingInvariant, <1>1, PTL

\* While a thread is in GetChar, a reader can go on, or the keyboard is
\* polled, or some thread has been told of the end of the input before
\* (SynchConsoleInput).
THEOREM ReadersGoOnBeforeEOF ==
    SafetySpec => []OnlyEOFStopsReaders
<1>1. Inductive /\ WaitInv /\ InputEndsAtEOF => OnlyEOFStopsReaders
  <2> SUFFICES ASSUME Inductive, WaitInv, InputEndsAtEOF, NEW t \in Threads, at[t] \in GetPlaces,
                      ~readPending, EOF \notin Range(received)
               PROVE  OnlyEOFStopsReaders
    BY DEF OnlyEOFStopsReaders
  <2>1. CASE \E u \in Threads : at[u] \in {"getHolding", "getReady"}
    BY <2>1 DEF WaitInv, OnlyEOFStopsReaders, OutsideP, Semaphores
  <2>2. CASE \A u \in Threads : ~InGet(u)
    <3>1. count["inLock"] > 0 /\ at[t] = "getLock"
      BY <2>2 DEF Inductive, LockInv, InGet, GetPlaces
    <3> QED
      BY <3>1 DEF WaitInv, OnlyEOFStopsReaders
  <2>3. CASE (\E u \in Threads : at[u] = "getWait") /\ \A u \in Threads : at[u] # "getReady"
    <3>1. count["inWaitFor"] > 0
      BY <2>3 DEF InputEndsAtEOF
    <3> QED
      BY <2>3, <3>1 DEF WaitInv, OnlyEOFStopsReaders
  <2> QED
    BY <2>1, <2>2, <2>3 DEF InGet
<1> QED
  BY InductiveInvariant, WaitingInvariant, InputEnds, <1>1, PTL

=============================================================================
