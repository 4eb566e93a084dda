----------------------------- MODULE PostOffice -----------------------------
(***************************************************************************)
(* The post offices (network/post.cc) of several machines with the         *)
(* simulated network between them (machine/network.cc).  A machine's       *)
(* output has a lock, a semaphore and a device that takes one packet at a  *)
(* time and may lose it.  Its input device buffers one packet; the postal  *)
(* worker takes it from there to a mailbox, and threads take it from the   *)
(* mailbox.                                                                *)
(*                                                                         *)
(* Semaphores are those of CountingSemaphore; a step of a thread runs from *)
(* one point where it can lose the CPU to the next.  A mailbox is a        *)
(* SynchList, here a sequence.  The host's datagram sockets keep order and *)
(* lose nothing; machines are host processes and their steps interleave.   *)
(***************************************************************************)
EXTENDS Integers, Sequences, FiniteSets, Functions

CONSTANTS
    Machines,
    Boxes,          \* 0..numBoxes - 1
    Clients,        \* the threads that send and receive
    Senders,        \* those that do send
    Routes,         \* the machines and boxes they send to
    MachineOf,      \* the machine each runs on
    MaxMessages,    \* bound: messages ever sent; number n is the nth
    NULL

ASSUME PostOfficeAssumption ==
    /\ MachineOf \in [Clients -> Machines]
    /\ Clients \cap Machines = {}
    /\ Senders \subseteq Clients
    /\ Routes \subseteq [to : Machines, box : Boxes]
    /\ MaxMessages \in Nat
    /\ NULL \notin 1..MaxMessages

Messages == 1..MaxMessages

VARIABLES
    count, inP,     \* the semaphores
    at,             \* where each thread is (Places)
    mail,           \* the message a client sends, or the worker has in hand
    \* the messages composed so far: the machine and box each goes to
    header,
    \* NetworkOutput, by machine
    sendPending,    \* how many NetworkSendInts are scheduled
    \* the host's sockets, by machine
    socket,
    \* NetworkInput, by machine
    inbox,          \* the buffered packet; NULL if inHdr.length is 0
    \* PostOfficeInput, by machine
    boxes,
    \* history: the messages that the network took and did not lose
    carried

outputVars == <<header, sendPending, socket, carried>>
inputVars == <<inbox, boxes>>
vars == <<count, inP, at, mail, outputVars, inputVars>>

\* A machine names its postal worker.
Threads == Clients \cup Machines
Semaphores == [of : Machines, name : {"sendLock", "messageSent", "messageAvailable"}]
sendLock(m) == [of |-> m, name |-> "sendLock"]
messageSent(m) == [of |-> m, name |-> "messageSent"]
messageAvailable(m) == [of |-> m, name |-> "messageAvailable"]

Sem == INSTANCE CountingSemaphore WITH
    InitialValue <- [s \in Semaphores |-> IF s.name = "sendLock" THEN 1 ELSE 0]

(***************************************************************************)
(* "out": a client in no operation.  In Send, "acquire": in Acquire;       *)
(* "holding": it has returned; "sending": in messageSent->P(); "sent":     *)
(* that has returned.  For the worker, "idle": before                      *)
(* messageAvailable->P(); "waiting": in it; "available": it has returned;  *)
(* "put": the worker is about to put its mail into a box.                  *)
(***************************************************************************)
Places == {"out", "acquire", "holding", "sending", "sent",
           "idle", "waiting", "available", "put"}

Init ==
    /\ Sem!Init
    /\ at = [t \in Threads |-> IF t \in Machines THEN "idle" ELSE "out"]
    /\ mail = [t \in Threads |-> NULL]
    /\ header = <<>>
    /\ sendPending = [m \in Machines |-> 0]
    /\ socket = [m \in Machines |-> <<>>]
    /\ inbox = [m \in Machines |-> NULL]
    /\ boxes = [m \in Machines |-> [b \in Boxes |-> <<>>]]
    /\ carried = {}

GoTo(t, place) == at' = [at EXCEPT ![t] = place]
Hold(t, n) == mail' = [mail EXCEPT ![t] = n]

\* P on semaphore s: at once, or by waiting first.
P(t, s, waiting, done) ==
    \/ Sem!TakeAtOnce(t, s) /\ GoTo(t, done)
    \/ Sem!StartWaiting(t, s) /\ GoTo(t, waiting)

\* P comes back from waiting.
Woken(t, s, waiting, done) ==
    /\ at[t] = waiting
    /\ Sem!TakeAfterWaiting(t, s)
    /\ GoTo(t, done)
    /\ UNCHANGED <<mail, outputVars, inputVars>>

-----------------------------------------------------------------------------
(***************************************************************************)
(* PostOfficeOutput::Send.                                                 *)
(***************************************************************************)

\* Faulty: the lock is not taken.
CallSendUnlocked(t) ==
    /\ at[t] = "out"
    /\ Len(header) < MaxMessages
    /\ \E r \in Routes : header' = Append(header, r)
    /\ Hold(t, Len(header) + 1)
    /\ GoTo(t, "holding")
    /\ UNCHANGED <<count, inP, sendPending, socket, carried, inputVars>>

\* The packet is put together, and the lock is taken.
CallSend(t) ==
    /\ at[t] = "out"
    /\ Len(header) < MaxMessages
    /\ \E r \in Routes : header' = Append(header, r)
    /\ Hold(t, Len(header) + 1)
    /\ P(t, sendLock(MachineOf[t]), "acquire", "holding")
    /\ UNCHANGED <<sendPending, socket, carried, inputVars>>

\* network->Send(), which may lose the packet but schedules the interrupt
\* first, and messageSent->P().
NetworkSend(t) ==
    LET m == MachineOf[t]
        to == header[mail[t]].to
    IN  /\ at[t] = "holding"
        /\ sendPending' = [sendPending EXCEPT ![m] = @ + 1]
        /\ \/ UNCHANGED <<socket, carried>>
           \/ /\ socket' = [socket EXCEPT ![to] = Append(@, mail[t])]
              /\ carried' = carried \cup {mail[t]}
        /\ P(t, messageSent(m), "sending", "sent")
        /\ UNCHANGED <<mail, header, inputVars>>

SendDone(t) ==
    /\ at[t] = "sent"
    /\ Sem!Release(sendLock(MachineOf[t]))
    /\ Hold(t, NULL)
    /\ GoTo(t, "out")
    /\ UNCHANGED <<outputVars, inputVars>>

\* Faulty: messageSent is not V()ed.
SendInterruptSilent(m) ==
    /\ sendPending[m] > 0
    /\ sendPending' = [sendPending EXCEPT ![m] = @ - 1]
    /\ UNCHANGED <<count, inP, at, mail, header, socket, carried, inputVars>>

\* NetworkOutput::CallBack and PostOfficeOutput::CallBack.
SendInterrupt(m) ==
    /\ sendPending[m] > 0
    /\ sendPending' = [sendPending EXCEPT ![m] = @ - 1]
    /\ Sem!Release(messageSent(m))
    /\ UNCHANGED <<at, mail, header, socket, carried, inputVars>>

-----------------------------------------------------------------------------
(***************************************************************************)
(* NetworkInput::CallBack with PostOfficeInput::CallBack, and the worker.  *)
(***************************************************************************)

\* The interrupt that polls the socket.  (If a packet is buffered, or there
\* is none to be read, it schedules itself again and nothing changes.)
PacketArrives(m) ==
    /\ inbox[m] = NULL
    /\ socket[m] # <<>>
    /\ inbox' = [inbox EXCEPT ![m] = Head(socket[m])]
    /\ socket' = [socket EXCEPT ![m] = Tail(@)]
    /\ Sem!Release(messageAvailable(m))
    /\ UNCHANGED <<at, mail, header, sendPending, carried, boxes>>

\* PostalDelivery waits for a message.
WorkerWaits(m) ==
    /\ at[m] = "idle"
    /\ P(m, messageAvailable(m), "waiting", "available")
    /\ UNCHANGED <<mail, outputVars, inputVars>>

\* Faulty: the buffered packet stays.
WorkerReceivesAndKeeps(m) ==
    /\ at[m] = "available"
    /\ Hold(m, inbox[m])
    /\ GoTo(m, "put")
    /\ UNCHANGED <<count, inP, outputVars, inputVars>>

\* network->Receive(), up to Append's lock.
WorkerReceives(m) ==
    /\ at[m] = "available"
    /\ Hold(m, inbox[m])
    /\ inbox' = [inbox EXCEPT ![m] = NULL]
    /\ GoTo(m, "put")
    /\ UNCHANGED <<count, inP, outputVars, boxes>>

\* MailBox::Put.
WorkerPuts(m) ==
    /\ at[m] = "put"
    /\ boxes' = [boxes EXCEPT ![m][header[mail[m]].box] = Append(@, mail[m])]
    /\ Hold(m, NULL)
    /\ GoTo(m, "idle")
    /\ UNCHANGED <<count, inP, outputVars, inbox>>

\* PostOfficeInput::Receive with MailBox::Get, for a box that has mail;
\* otherwise the thread waits in RemoveFront, which changes nothing here.
Receive(t, b) ==
    LET m == MachineOf[t] IN
    /\ at[t] = "out"
    /\ boxes[m][b] # <<>>
    /\ boxes' = [boxes EXCEPT ![m][b] = Tail(@)]
    /\ UNCHANGED <<count, inP, at, mail, outputVars, inbox>>

-----------------------------------------------------------------------------
\* P returns from waiting, for the three semaphores of a machine.
LockGranted(m) == \E t \in Clients : Woken(t, sendLock(m), "acquire", "holding")
SentGranted(m) == \E t \in Clients : Woken(t, messageSent(m), "sending", "sent")
WorkerWoken(m) == Woken(m, messageAvailable(m), "waiting", "available")

Next ==
    \/ \E t \in Senders : CallSend(t) \/ NetworkSend(t) \/ SendDone(t)
    \/ \E t \in Clients, b \in Boxes : Receive(t, b)
    \/ \E m \in Machines :
        \/ LockGranted(m) \/ SentGranted(m) \/ WorkerWoken(m)
        \/ SendInterrupt(m) \/ PacketArrives(m)
        \/ WorkerWaits(m) \/ WorkerReceives(m) \/ WorkerPuts(m)

SafetySpec == Init /\ [][Next]_vars

(***************************************************************************)
(* Ready threads are run and semaphores are live (NachosThreads).  A       *)
(* pending send interrupt becomes due, and the input device polls its      *)
(* socket for ever.  Nobody has to send or receive.                        *)
(***************************************************************************)
Fairness ==
    /\ \A t \in Clients : WF_vars(NetworkSend(t)) /\ WF_vars(SendDone(t))
    /\ \A m \in Machines :
        /\ WF_vars(LockGranted(m))
        /\ WF_vars(SentGranted(m))
        /\ WF_vars(SendInterrupt(m))
        /\ WF_vars(PacketArrives(m))
        /\ WF_vars(WorkerWoken(m) \/ WorkerWaits(m) \/ WorkerReceives(m) \/ WorkerPuts(m))

Spec == SafetySpec /\ Fairness

-----------------------------------------------------------------------------
(***************************************************************************)
(* Properties.                                                             *)
(***************************************************************************)

\* The variables have the types their declarations give them.
TypeOK ==
    /\ Sem!TypeOK
    /\ at \in [Threads -> Places]
    /\ mail \in [Threads -> Messages \cup {NULL}]
    /\ header \in Seq(Routes)
    /\ sendPending \in [Machines -> Nat]
    /\ socket \in [Machines -> Seq(Messages)]
    /\ inbox \in [Machines -> Messages \cup {NULL}]
    /\ boxes \in [Machines -> [Boxes -> Seq(Messages)]]
    /\ carried \subseteq Messages

\* A machine's send lock, semaphore and interrupt keep in step: one packet at
\* a time is with the network, its interrupt finds the thread that sent it,
\* and no other thread is about to send (PostOfficeOutput::Send, whose
\* comment says "only one message can be sent to the network at any one
\* time").
OneSendAtATime == \A m \in Machines :
    LET here == {t \in Clients : MachineOf[t] = m}
        sending == {t \in here : at[t] = "sending"}
    IN  /\ sendPending[m] + count[messageSent(m)] = Cardinality(sending)
        /\ Cardinality({t \in here : at[t] \in {"holding", "sending", "sent"}})
             + count[sendLock(m)] = 1

\* How far a client's Send has come, as its caller sees it.
Stage(t) ==
    CASE at[t] = "out" -> "out"
      [] at[t] = "acquire" -> "calling"
      [] at[t] = "holding" -> "granted"
      [] at[t] = "sending" /\ count[messageSent(MachineOf[t])] = 0 -> "served"
      [] OTHER -> "answered"

\* Each machine's lock, semaphore, device and interrupt are together one
\* SynchronousDevice: a packet is handed to the network only when the last one
\* has gone, and each Send returns after the interrupt for its own packet, lost
\* or not (PostOfficeOutput::Send and both CallBacks).
Network == INSTANCE SynchronousDevice WITH
    Devices <- Machines,
    Callers <- Clients,
    DeviceOf <- MachineOf,
    stage <- [t \in Clients |-> Stage(t)],
    busy <- [m \in Machines |-> sendPending[m] # 0]

ImplementsSynchronousDevice == Network!Spec

SomeMessage(n) == IF n = NULL THEN <<>> ELSE <<n>>

\* What is in a machine after the network has carried it there, oldest first.
Arriving(m) == SomeMessage(mail[m]) \o SomeMessage(inbox[m]) \o socket[m]

ForBox(b) == {n \in DOMAIN header : header[n].box = b}

\* The elements of s that are in kept, in their order.  (This is SelectSeq,
\* as a recursive function that proofs can expand.)
SelectIn(s, kept) ==
    LET selected[i \in 0..Len(s)] ==
            IF i = 0 THEN <<>>
            ELSE IF s[i] \in kept THEN Append(selected[i - 1], s[i]) ELSE selected[i - 1]
    IN  selected[Len(s)]

\* Device, one-packet buffer, worker and mailboxes are together the queues of
\* LossyMail: whatever the network does not lose is received from its mailbox
\* once and in the order of sending (network.cc and post.cc, against post.h).
Mail == INSTANCE LossyMail WITH
    Mailboxes <- Machines \X Boxes,
    queue <- [a \in Machines \X Boxes |->
                boxes[a[1]][a[2]] \o SelectIn(Arriving(a[1]), ForBox(a[2]))]

ImplementsLossyMail == Mail!Spec

\* A packet that the network carried gets to its mailbox, whoever else sends.
MailArrives == \A n \in Messages :
    n \in carried ~> ~\E m \in Machines : n \in Range(Arriving(m))

\* Every Send returns, also when its packet is lost (post.cc: "Called even if
\* the previous packet was dropped").
SendReturns == \A t \in Senders : at[t] \in {"holding", "sending", "sent"} ~> at[t] = "out"

=============================================================================
