------------------------- MODULE SynchronousDevice -------------------------
(***************************************************************************)
(* What the drivers of the slow devices promise their callers: the disk's  *)
(* (filesys/synchdisk.h: a thread that makes a request "waits around until *)
(* the operation finishes before returning"), the display's (PutChar of    *)
(* userprog/synchconsole.h) and the network's (Send of network/post.h).    *)
(* One caller at a time has a device, a request is made of it only when it *)
(* is not busy, and the caller returns after the answer to its own         *)
(* request.  There is no lock, semaphore or interrupt here; SynchDisk,     *)
(* SynchConsole and PostOffice are shown to implement this specification.  *)
(***************************************************************************)

CONSTANTS
    Devices,
    Callers,
    DeviceOf    \* the device each caller makes its requests of

VARIABLES
    stage,      \* how far each caller has come (Stages)
    busy        \* busy[d]: device d works on a request

vars == <<stage, busy>>

Stages == {"out", "calling", "granted", "served", "answered"}

Init ==
    /\ stage = [c \in Callers |-> "out"]
    /\ busy = [d \in Devices |-> FALSE]

Advance(c, from, to) ==
    /\ stage[c] \in from
    /\ stage' = [stage EXCEPT ![c] = to]

SetBusy(c, b) == busy' = [busy EXCEPT ![DeviceOf[c]] = b]

Call(c) ==
    /\ Advance(c, {"out"}, "calling")
    /\ UNCHANGED busy

\* The caller has the device to itself, at once or after others have had it.
Grant(c) ==
    /\ \A b \in Callers : DeviceOf[b] = DeviceOf[c] => stage[b] \in {"out", "calling"}
    /\ Advance(c, {"out", "calling"}, "granted")
    /\ UNCHANGED busy

Request(c) ==
    /\ ~busy[DeviceOf[c]]
    /\ Advance(c, {"granted"}, "served")
    /\ SetBusy(c, TRUE)

Answer(c) ==
    /\ busy[DeviceOf[c]]
    /\ Advance(c, {"served"}, "answered")
    /\ SetBusy(c, FALSE)

Return(c) ==
    /\ Advance(c, {"answered"}, "out")
    /\ UNCHANGED busy

Next == \E c \in Callers : Call(c) \/ Grant(c) \/ Request(c) \/ Answer(c) \/ Return(c)

Spec == Init /\ [][Next]_vars

=============================================================================
