---------------------------- MODULE SynchConsole ----------------------------
(***************************************************************************)
(* The synchronized console (userprog/synchconsole.cc) with the simulated  *)
(* keyboard and display it drives (machine/console.cc).  Each direction    *)
(* has a lock, a semaphore its interrupt handler V()s, and a device with   *)
(* at most one interrupt pending.  Semaphores are those of                 *)
(* CountingSemaphore; as in SynchList, a step runs from one point where    *)
(* the thread can lose the CPU to the next.                                *)
(***************************************************************************)
EXTENDS Integers, Sequences, FiniteSets, Functions

CONSTANTS
    Threads,
    InputLength,    \* bound: bytes in the input file; byte number n is the nth
    InputFiles,     \* what the input may be: the bytes of each file whose value,
                    \* as a char, equals EOF
    MaxOutput,      \* bound: characters ever put
    EOF

ASSUME SynchConsoleAssumption ==
    /\ InputLength \in Nat
    /\ MaxOutput \in Nat
    /\ InputFiles \subseteq SUBSET (1..InputLength)
    /\ EOF \notin 1..InputLength

VARIABLES
    count, inP,     \* the semaphores, Semaphores below
    at,             \* where each thread is (Places)
    \* ConsoleInput
    incoming,
    readPending,    \* a ConsoleReadInt is scheduled
    inputFile,      \* the member of InputFiles it reads
    nextByte,       \* number of the next byte in it
    \* ConsoleOutput
    putBusy,
    writePending,   \* how many ConsoleWriteInts are scheduled
    display,        \* the threads that put the characters shown so far
    \* history: what GetChar has returned, in order
    received

inputVars == <<incoming, readPending, inputFile, nextByte, received>>
outputVars == <<putBusy, writePending, display>>
vars == <<count, inP, at, inputVars, outputVars>>

Semaphores == {"inLock", "inWaitFor", "outLock", "outWaitFor"}

Sem == INSTANCE CountingSemaphore WITH
    InitialValue <- [s \in Semaphores |-> IF s \in {"inLock", "outLock"} THEN 1 ELSE 0]

(***************************************************************************)
(* "out": in neither operation.  In GetChar, "getLock": in Acquire;        *)
(* "getHolding": it has returned; "getWait": in waitFor->P(); "getReady":  *)
(* that has returned.  The same in PutChar.                                *)
(***************************************************************************)
GetPlaces == {"getLock", "getHolding", "getWait", "getReady"}
PutPlaces == {"putLock", "putHolding", "putWait", "putReady"}
Places == {"out"} \cup GetPlaces \cup PutPlaces

Init ==
    /\ Sem!Init
    /\ at = [t \in Threads |-> "out"]
    /\ incoming = EOF
    /\ readPending = TRUE
    /\ inputFile \in InputFiles
    /\ nextByte = 1
    /\ putBusy = FALSE
    /\ writePending = 0
    /\ display = <<>>
    /\ received = <<>>

GoTo(t, place) == at' = [at EXCEPT ![t] = place]

\* P on semaphore s: at once, or by waiting first.
P(t, s, waiting, done) ==
    \/ Sem!TakeAtOnce(t, s) /\ GoTo(t, done)
    \/ Sem!StartWaiting(t, s) /\ GoTo(t, waiting)

\* P comes back from waiting.
Woken(t, s, waiting, done) ==
    /\ at[t] = waiting
    /\ Sem!TakeAfterWaiting(t, s)
    /\ GoTo(t, done)

-----------------------------------------------------------------------------
(***************************************************************************)
(* SynchConsoleInput::GetChar.                                             *)
(***************************************************************************)

CallGetChar(t) ==
    /\ at[t] = "out"
    /\ P(t, "inLock", "getLock", "getHolding")
    /\ UNCHANGED <<inputVars, outputVars>>

GetCharWaits(t) ==
    /\ at[t] = "getHolding"
    /\ P(t, "inWaitFor", "getWait", "getReady")
    /\ UNCHANGED <<inputVars, outputVars>>

\* Faulty: the character stays in incoming.
TakeCharAndKeep(t) ==
    /\ at[t] = "getReady"
    /\ received' = Append(received, incoming)
    /\ readPending' = (readPending \/ incoming # EOF)
    /\ Sem!Release("inLock")
    /\ GoTo(t, "out")
    /\ UNCHANGED <<incoming, inputFile, nextByte, outputVars>>

\* consoleInput->GetChar(), which asks for the next interrupt only if there
\* was a character, and the release of the lock.
TakeChar(t) ==
    /\ at[t] = "getReady"
    /\ received' = Append(received, incoming)
    /\ readPending' = (readPending \/ incoming # EOF)
    /\ incoming' = EOF
    /\ Sem!Release("inLock")
    /\ GoTo(t, "out")
    /\ UNCHANGED <<inputFile, nextByte, outputVars>>

\* Faulty: waitFor is not V()ed.
ReadByteSilent ==
    /\ readPending
    /\ nextByte <= InputLength
    /\ incoming' = IF nextByte \in inputFile THEN EOF ELSE nextByte
    /\ nextByte' = nextByte + 1
    /\ readPending' = FALSE
    /\ UNCHANGED <<count, inP, at, inputFile, received, outputVars>>

\* ConsoleInput::CallBack finds a byte.  (When PollFile finds nothing, it
\* schedules itself again and nothing changes.)
ReadByte ==
    /\ readPending
    /\ nextByte <= InputLength
    /\ incoming' = IF nextByte \in inputFile THEN EOF ELSE nextByte
    /\ nextByte' = nextByte + 1
    /\ readPending' = FALSE
    /\ Sem!Release("inWaitFor")
    /\ UNCHANGED <<at, inputFile, received, outputVars>>

\* ConsoleInput::CallBack finds the end of the file.
ReadEnd ==
    /\ readPending
    /\ nextByte > InputLength
    /\ readPending' = FALSE
    /\ Sem!Release("inWaitFor")
    /\ UNCHANGED <<at, incoming, inputFile, nextByte, received, outputVars>>

-----------------------------------------------------------------------------
(***************************************************************************)
(* SynchConsoleOutput::PutChar.                                            *)
(***************************************************************************)

\* The threads whose character is still to come, for the bound MaxOutput.
Putting == {t \in Threads : at[t] \in {"putLock", "putHolding"}}

CallPutChar(t) ==
    /\ at[t] = "out"
    /\ Len(display) + Cardinality(Putting) < MaxOutput
    /\ P(t, "outLock", "putLock", "putHolding")
    /\ UNCHANGED <<inputVars, outputVars>>

\* Faulty: the lock is released without waiting for the display.
WriteCharNoWait(t) ==
    /\ at[t] = "putHolding"
    /\ putBusy' = TRUE
    /\ writePending' = writePending + 1
    /\ display' = Append(display, t)
    /\ GoTo(t, "putReady")
    /\ UNCHANGED <<count, inP, inputVars>>

\* consoleOutput->PutChar() and waitFor->P().
WriteChar(t) ==
    /\ at[t] = "putHolding"
    /\ putBusy' = TRUE
    /\ writePending' = writePending + 1
    /\ display' = Append(display, t)
    /\ P(t, "outWaitFor", "putWait", "putReady")
    /\ UNCHANGED inputVars

PutDone(t) ==
    /\ at[t] = "putReady"
    /\ Sem!Release("outLock")
    /\ GoTo(t, "out")
    /\ UNCHANGED <<inputVars, outputVars>>

\* Faulty: waitFor is not V()ed.
WriteInterruptSilent ==
    /\ writePending > 0
    /\ writePending' = writePending - 1
    /\ putBusy' = FALSE
    /\ UNCHANGED <<count, inP, at, display, inputVars>>

\* ConsoleOutput::CallBack: the display is ready again.
WriteInterrupt ==
    /\ writePending > 0
    /\ writePending' = writePending - 1
    /\ putBusy' = FALSE
    /\ Sem!Release("outWaitFor")
    /\ UNCHANGED <<at, display, inputVars>>

-----------------------------------------------------------------------------
\* P returns from waiting, for each of the four semaphores.
Granted(t, s) ==
    /\ \/ s = "inLock" /\ Woken(t, s, "getLock", "getHolding")
       \/ s = "inWaitFor" /\ Woken(t, s, "getWait", "getReady")
       \/ s = "outLock" /\ Woken(t, s, "putLock", "putHolding")
       \/ s = "outWaitFor" /\ Woken(t, s, "putWait", "putReady")
    /\ UNCHANGED <<inputVars, outputVars>>

\* What a thread does inside GetChar and PutChar.
Proceed(t) == GetCharWaits(t) \/ TakeChar(t) \/ WriteChar(t) \/ PutDone(t)

Next ==
    \/ \E t \in Threads : CallGetChar(t) \/ CallPutChar(t) \/ Proceed(t)
    \/ \E s \in Semaphores : \E t \in Threads : Granted(t, s)
    \/ ReadByte
    \/ ReadEnd
    \/ WriteInterrupt

SafetySpec == Init /\ [][Next]_vars

(***************************************************************************)
(* Ready threads are run and semaphores are live (NachosThreads).  A       *)
(* pending write interrupt becomes due, and so does a read interrupt at    *)
(* the end of the file, where PollFile always finds something; a byte may  *)
(* never be typed.                                                         *)
(***************************************************************************)
Fairness ==
    /\ \A t \in Threads : WF_vars(Proceed(t))
    /\ \A s \in Semaphores : WF_vars(\E t \in Threads : Granted(t, s))
    /\ WF_vars(ReadEnd)
    /\ WF_vars(WriteInterrupt)

Spec == SafetySpec /\ Fairness

-----------------------------------------------------------------------------
(***************************************************************************)
(* Properties.                                                             *)
(***************************************************************************)

\* The variables have the types their declarations give them.
TypeOK ==
    /\ Sem!TypeOK
    /\ at \in [Threads -> Places]
    /\ incoming \in (1..InputLength) \cup {EOF}
    /\ readPending \in BOOLEAN
    /\ inputFile \in InputFiles
    /\ nextByte \in 1..(InputLength + 1)
    /\ putBusy \in BOOLEAN
    /\ writePending \in Nat
    /\ display \in Seq(Threads)
    /\ received \in Seq((1..InputLength) \cup {EOF})

\* The devices' ASSERTs hold: a keystroke never overwrites one that nobody
\* has taken (console.cc:70), and a character is never sent to a busy
\* display (console.cc:169), whichever threads read and write.
DeviceAssertions ==
    /\ readPending => incoming = EOF
    /\ \A t \in Threads : at[t] = "putHolding" => ~putBusy

\* No byte is lost, repeated or taken out of order by the threads that read:
\* what they have taken, and then incoming, are the bytes of the file so far,
\* in ascending order (GetChar against ConsoleInput::CallBack).
InputInOrder ==
    LET chars == Append(received, incoming)
        bytes == {i \in DOMAIN chars : chars[i] # EOF}
    IN  /\ {chars[i] : i \in bytes} = (1..(nextByte - 1)) \ inputFile
        /\ \A i, j \in bytes : i < j => chars[i] < chars[j]

\* Who may wait for an interrupt will get one, and nobody else will: one is
\* pending or has been signalled iff a thread is between sending its
\* character and hearing that the display is ready (PutChar, CallBack).
OneInterruptPerChar ==
    writePending + count["outWaitFor"] = Cardinality({t \in Threads : at[t] = "putWait"})

\* How far a thread's PutChar has come, as its caller sees it.
Stage(t) ==
    CASE at[t] \notin PutPlaces -> "out"
      [] at[t] = "putLock" -> "calling"
      [] at[t] = "putHolding" -> "granted"
      [] at[t] = "putWait" /\ count["outWaitFor"] = 0 -> "served"
      [] OTHER -> "answered"

\* Lock, semaphore, display and interrupt are together one SynchronousDevice:
\* a character is never sent to a busy display, and each PutChar returns after
\* the interrupt for its own character (PutChar and both CallBacks).
Display == INSTANCE SynchronousDevice WITH
    Devices <- {"display"},
    Callers <- Threads,
    DeviceOf <- [t \in Threads |-> "display"],
    stage <- [t \in Threads |-> Stage(t)],
    busy <- [d \in {"display"} |-> putBusy]

ImplementsSynchronousDevice == Display!Spec

\* Another character or the end of the input will be announced to whoever is in
\* GetChar, or has been, iff GetChar has not yet returned EOF: a byte of the
\* input that equals EOF ends it as its end does (GetChar, which asks for the
\* next interrupt only if there was a character, against CallBack).
InputEndsAtEOF ==
    LET announced == \E t \in Threads : at[t] = "getReady"
    IN  (readPending \/ count["inWaitFor"] > 0 \/ announced) <=> EOF \notin Range(received)

\* A character that was read does not stay in incoming while threads are in
\* GetChar: lock, semaphore and interrupt get it through to one of them.
CharIsTaken ==
    \A n \in 1..InputLength :
        incoming = n /\ (\E t \in Threads : at[t] \in GetPlaces) ~> incoming # n

\* The display's lock is not held for ever (PutChar, CallBack).
DisplayIsFreed == \A t \in Threads : at[t] \in PutPlaces \ {"putLock"} ~> at[t] = "out"

\* synchconsole.cc:50 has GetChar wait for "EOF or a char to be available":
\* at the end of the input it returns.
GetCharSeesEOF ==
    \A t \in Threads :
        at[t] \in {"getHolding", "getWait"} /\ nextByte > InputLength ~> at[t] = "out"

=============================================================================
