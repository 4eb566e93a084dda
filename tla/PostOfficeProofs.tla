-------------------------- MODULE PostOfficeProofs --------------------------
(***************************************************************************)
(* Theorems about PostOffice, for any number of machines, mailboxes,       *)
(* threads and messages: a machine sends one packet at a time, as          *)
(* SynchronousDevice says, what the network does not lose reaches its      *)
(* mailbox once and in order, and neither senders nor packets get stuck.   *)
(***************************************************************************)
EXTENDS PostOffice, SequenceTheorems, FiniteSetTheorems, WellFoundedInduction, TLAPS

(***************************************************************************)
(* A queue that is made up of two, one behind the other.                   *)
(***************************************************************************)

\* What is first in the queue behind can go to the end of the one in front.
LEMMA MovesForward ==
    ASSUME NEW S, NEW q \in Seq(S), NEW r \in Seq(S), NEW e \in S
    PROVE  q \o (<<e>> \o r) = Append(q, e) \o r
  OBVIOUS

\* RemoveFront takes the head of the queue in front.
LEMMA TailOfTwo ==
    ASSUME NEW S, NEW q \in Seq(S), NEW r \in Seq(S), q # <<>>
    PROVE  q \o r # <<>> /\ Tail(q \o r) = Tail(q) \o r
<1>1. q \o r # <<>>
  OBVIOUS
<1>2. /\ Tail(q) \in Seq(S) /\ Len(Tail(q)) = Len(q) - 1 /\ Len(q) \in Nat /\ Len(r) \in Nat
      /\ \A i \in 1..Len(Tail(q)) : Tail(q)[i] = q[i + 1]
  OBVIOUS
<1>3. q \o r \in Seq(S) /\ Len(q \o r) = Len(q) + Len(r)
  OBVIOUS
<1>4. PICK w : w = q \o r
  OBVIOUS
<1>5. /\ w \in Seq(S) /\ w # <<>> /\ Len(w) = Len(q) + Len(r)
      /\ \A i \in 1..(Len(q) + Len(r)) : w[i] = IF i <= Len(q) THEN q[i] ELSE r[i - Len(q)]
  BY <1>1, <1>3, <1>4
<1>6. PICK x : x = Tail(q) \o r
  OBVIOUS
<1>7. /\ x \in Seq(S) /\ Len(x) = Len(Tail(q)) + Len(r)
      /\ \A i \in 1..(Len(Tail(q)) + Len(r)) :
            x[i] = IF i <= Len(Tail(q)) THEN Tail(q)[i] ELSE r[i - Len(Tail(q))]
  BY <1>2, <1>6
<1>8. /\ Tail(w) \in Seq(S) /\ Len(Tail(w)) = Len(w) - 1
      /\ \A i \in 1..Len(Tail(w)) : Tail(w)[i] = w[i + 1]
  BY <1>5
<1>9. Len(Tail(w)) = Len(x)
  BY <1>2, <1>5, <1>7, <1>8
<1>10. ASSUME NEW i \in 1..Len(x)
       PROVE  Tail(w)[i] = x[i]
  <2>1. Tail(w)[i] = w[i + 1] /\ i + 1 \in 1..(Len(q) + Len(r)) /\ i \in 1..(Len(Tail(q)) + Len(r))
    BY <1>2, <1>5, <1>7, <1>8, <1>9
  <2>2. CASE i <= Len(Tail(q))
    BY <1>2, <1>5, <1>7, <2>1, <2>2
  <2>3. CASE ~(i <= Len(Tail(q)))
    <3>1. (i + 1) - Len(q) = i - Len(Tail(q)) /\ ~(i + 1 <= Len(q))
      BY <1>2, <2>3
    <3> QED
      BY <1>5, <1>7, <2>1, <2>3, <3>1
  <2> QED
    BY <2>2, <2>3, Zenon
<1>11. Tail(w) = x
  BY <1>7, <1>8, <1>9, <1>10, SeqEqual
<1> QED
  BY <1>1, <1>4, <1>6, <1>11

-----------------------------------------------------------------------------
(***************************************************************************)
(* Induction over the natural numbers, for a set in place of a predicate:  *)
(* a set that holds 0 and the successors of its numbers holds them all.    *)
(***************************************************************************)

(* Induction over the natural numbers, for a set instead of a predicate. *)
LEMMA SetInduction ==
    ASSUME NEW S, 0 \in S, \A n \in Nat : n \in S => n + 1 \in S
    PROVE  \A n \in Nat : n \in S
<1> SUFFICES ASSUME Nat \ S # {} PROVE FALSE
  OBVIOUS
<1>1. PICK x \in Nat \ S : \A y \in Nat \ S : ~(<<y, x>> \in OpToRel(<, Nat))
  BY NatLessThanWellFounded, WFMin
<1>2. \A y \in Nat \ S : ~(y < x)
  BY <1>1 DEF OpToRel
<1>3. x - 1 \in Nat /\ x - 1 < x /\ x = (x - 1) + 1
  OBVIOUS
<1>4. x - 1 \in S
  BY <1>2, <1>3
<1> QED
  BY <1>3, <1>4

-----------------------------------------------------------------------------
(***************************************************************************)
(* SelectIn, whose recursion is unfolded by induction over the sequence.   *)
(***************************************************************************)

\* The recursive function that SelectIn is about exists.
LEMMA SelectionExists ==
    ASSUME NEW X, NEW s \in Seq(X), NEW kept
    PROVE  \E f : f = [i \in 0..Len(s) |->
                IF i = 0 THEN <<>>
                ELSE IF s[i] \in kept THEN Append(f[i - 1], s[i]) ELSE f[i - 1]]
<1> DEFINE Step(f, i) == IF i = 0 THEN <<>>
                         ELSE IF s[i] \in kept THEN Append(f[i - 1], s[i]) ELSE f[i - 1]
           Upto == {n \in Nat : \E f : f = [i \in 0..n |-> Step(f, i)]}
<1>1. 0 \in Upto
  <2> DEFINE f == [i \in 0..0 |-> <<>>]
  <2>1. f = [i \in 0..0 |-> Step(f, i)]
    OBVIOUS
  <2> QED
    BY <2>1
<1>2. ASSUME NEW n \in Nat, n \in Upto
      PROVE  n + 1 \in Upto
  <2>1. PICK f : f = [i \in 0..n |-> Step(f, i)]
    BY <1>2
  <2> DEFINE g == [i \in 0..(n + 1) |-> IF i = n + 1 THEN Step(f, n + 1) ELSE f[i]]
  <2>2. ASSUME NEW i \in 0..(n + 1)
        PROVE  g[i] = Step(g, i)
    <3>1. g[i] = Step(f, i)
      <4>1. CASE i = n + 1
        BY <4>1
      <4>2. CASE i # n + 1
        <5>1. i \in 0..n /\ g[i] = f[i]
          BY <4>2
        <5> HIDE DEF g, Step
        <5>2. f[i] = Step(f, i)
          BY <2>1, <5>1
        <5> QED
          BY <5>1, <5>2
      <4> QED
        BY <4>1, <4>2
    <3>2. CASE i = 0
      BY <3>1, <3>2
    <3>3. CASE i # 0
      <4>1. i - 1 \in 0..n /\ g[i - 1] = f[i - 1]
        BY <3>3
      <4> HIDE DEF g
      <4> QED
        BY <3>1, <3>3, <4>1
    <3> QED
      BY <3>2, <3>3
  <2>3. g = [i \in 0..(n + 1) |-> Step(g, i)]
    BY <2>2
  <2> HIDE DEF g, Step
  <2> QED
    BY <2>3
<1> HIDE DEF Upto
<1>3. Len(s) \in Upto
  BY <1>1, <1>2, SetInduction
<1> QED
  BY <1>3 DEF Upto

\* f[i] is what SelectIn has selected of the first i elements of s.
IsSelection(f, s, kept) ==
    /\ f[0] = <<>>
    /\ \A i \in 1..Len(s) :
          f[i] = IF s[i] \in kept THEN Append(f[i - 1], s[i]) ELSE f[i - 1]
    /\ SelectIn(s, kept) = f[Len(s)]

(* There is such a function: the recursion that defines SelectIn has a solution. *)
LEMMA Selection ==
    ASSUME NEW X, NEW s \in Seq(X), NEW kept
    PROVE  \E f \in [0..Len(s) -> Seq(X)] : IsSelection(f, s, kept)
<1> DEFINE Step(f, i) == IF i = 0 THEN <<>>
                         ELSE IF s[i] \in kept THEN Append(f[i - 1], s[i]) ELSE f[i - 1]
           Recursion(f) == f = [i \in 0..Len(s) |-> Step(f, i)]
           f == CHOOSE g : Recursion(g)
<1>1. SelectIn(s, kept) = f[Len(s)]
  BY DEF SelectIn
<1>2. Recursion(f)
  <2>1. \E g : Recursion(g)
    BY SelectionExists
  <2> HIDE DEF Recursion
  <2> QED
    BY <2>1
<1> HIDE DEF f
<1>3. /\ f[0] = <<>>
      /\ \A i \in 1..Len(s) :
            f[i] = IF s[i] \in kept THEN Append(f[i - 1], s[i]) ELSE f[i - 1]
  <2>1. \A i \in 0..Len(s) : f[i] = Step(f, i)
    <3> HIDE DEF Step
    <3> QED
      BY <1>2
  <2>2. Len(s) \in Nat
    OBVIOUS
  <2>3. f[0] = <<>>
    BY <2>1, <2>2
  <2>4. ASSUME NEW i \in 1..Len(s)
        PROVE  f[i] = IF s[i] \in kept THEN Append(f[i - 1], s[i]) ELSE f[i - 1]
    <3>1. i \in 0..Len(s) /\ i # 0
      BY <2>2
    <3>2. f[i] = Step(f, i)
      BY <2>1, <3>1
    <3> QED
      BY <3>1, <3>2
  <2> QED
    BY <2>3, <2>4
<1>4. \A i \in 0..Len(s) : f[i] \in Seq(X)
  <2> DEFINE Upto == {n \in Nat : n <= Len(s) => f[n] \in Seq(X)}
  <2>1. 0 \in Upto
    <3>1. f[0] \in Seq(X)
      BY <1>3
    <3> QED
      BY <3>1
  <2>2. ASSUME NEW n \in Nat, n \in Upto
        PROVE  n + 1 \in Upto
    <3> SUFFICES ASSUME n + 1 <= Len(s) PROVE f[n + 1] \in Seq(X)
      OBVIOUS
    <3>1. n + 1 \in 1..Len(s) /\ f[n] \in Seq(X) /\ s[n + 1] \in X
      BY <2>2
    <3>2. f[n + 1] = IF s[n + 1] \in kept THEN Append(f[n], s[n + 1]) ELSE f[n]
      BY <1>3, <3>1
    <3> QED
      BY <3>1, <3>2
  <2> HIDE DEF Upto
  <2>3. \A n \in Nat : n \in Upto
    BY <2>1, <2>2, SetInduction
  <2> QED
    BY <2>3 DEF Upto
<1>5. f \in [0..Len(s) -> Seq(X)]
  <2>1. \E e : f = [i \in 0..Len(s) |-> e[i]]
    <3> DEFINE e == [i \in 0..Len(s) |-> Step(f, i)]
    <3>1. f = [i \in 0..Len(s) |-> e[i]]
      <4> HIDE DEF Step
      <4> QED
        BY <1>2
    <3> QED
      BY <3>1
  <2> HIDE DEF Recursion, Step
  <2> QED
    BY <1>4, <2>1
<1> HIDE DEF Recursion, Step
<1> QED
  BY <1>1, <1>3, <1>5, Zenon DEF IsSelection

\* What is selected from a sequence is a sequence, and from none, none.
LEMMA SelectInType ==
    ASSUME NEW X, NEW s \in Seq(X), NEW kept
    PROVE  SelectIn(s, kept) \in Seq(X) /\ (s = <<>> => SelectIn(s, kept) = <<>>)
<1>1. PICK f \in [0..Len(s) -> Seq(X)] : IsSelection(f, s, kept)
  BY Selection
<1> QED
  BY <1>1 DEF IsSelection

\* An element that comes last is selected last.
LEMMA SelectInAppend ==
    ASSUME NEW X, NEW s \in Seq(X), NEW e \in X, NEW kept
    PROVE  SelectIn(Append(s, e), kept) =
             IF e \in kept THEN Append(SelectIn(s, kept), e) ELSE SelectIn(s, kept)
<1> DEFINE t == Append(s, e)
<1>1. /\ t \in Seq(X) /\ Len(s) \in Nat /\ Len(t) = Len(s) + 1
      /\ t[Len(s) + 1] = e
      /\ \A i \in 1..Len(s) : t[i] = s[i]
  OBVIOUS
<1> HIDE DEF t
<1>2. PICK f \in [0..Len(s) -> Seq(X)] : IsSelection(f, s, kept)
  BY Selection
<1>3. PICK g \in [0..Len(t) -> Seq(X)] : IsSelection(g, t, kept)
  BY <1>1, Selection
<1> USE DEF IsSelection
<1> DEFINE Upto == {n \in Nat : n <= Len(s) => g[n] = f[n]}
<1>4. 0 \in Upto
  BY <1>2, <1>3
<1>5. ASSUME NEW n \in Nat, n \in Upto
      PROVE  n + 1 \in Upto
  <2> SUFFICES ASSUME n + 1 <= Len(s) PROVE g[n + 1] = f[n + 1]
    OBVIOUS
  <2>1. n + 1 \in 1..Len(s) /\ n + 1 \in 1..Len(t) /\ (n + 1) - 1 = n /\ g[n] = f[n]
    BY <1>1, <1>5
  <2> QED
    BY <1>1, <1>2, <1>3, <2>1
<1> HIDE DEF Upto
<1>6. Len(s) \in Upto
  BY <1>1, <1>4, <1>5, SetInduction
<1>7. g[Len(s)] = SelectIn(s, kept)
  BY <1>2, <1>6 DEF Upto
<1>8. g[Len(s) + 1] = IF e \in kept THEN Append(g[Len(s)], e) ELSE g[Len(s)]
  <2>1. Len(s) + 1 \in 1..Len(t) /\ (Len(s) + 1) - 1 = Len(s)
    BY <1>1
  <2> QED
    BY <1>1, <1>3, <2>1
<1> QED
  BY <1>1, <1>3, <1>7, <1>8 DEF t

\* An element that comes first is selected first.
LEMMA SelectInTail ==
    ASSUME NEW X, NEW t \in Seq(X), t # <<>>, NEW kept
    PROVE  /\ Head(t) \in kept => SelectIn(t, kept) = <<Head(t)>> \o SelectIn(Tail(t), kept)
           /\ Head(t) \notin kept => SelectIn(t, kept) = SelectIn(Tail(t), kept)
<1>0. \A u, v \in Seq(X), x \in X : Append(u \o v, x) = u \o Append(v, x)
  OBVIOUS
<1>1. PICK s, e : s \in Seq(X) /\ s = Tail(t) /\ e \in X /\ e = Head(t)
  <2>1. Tail(t) \in Seq(X) /\ Head(t) \in X
    OBVIOUS
  <2> QED
    BY <2>1
<1>2. PICK first : first \in Seq(X) /\ first = IF e \in kept THEN <<e>> ELSE <<>>
  <2>1. <<e>> \in Seq(X) /\ <<>> \in Seq(X)
    BY <1>1
  <2> QED
    BY <2>1
<1>3. /\ t \in Seq(X) /\ Len(s) \in Nat /\ Len(t) = Len(s) + 1
      /\ t[1] = e
      /\ \A i \in 1..Len(s) : t[i + 1] = s[i]
  BY <1>1
<1>4. PICK f \in [0..Len(s) -> Seq(X)] : IsSelection(f, s, kept)
  BY <1>1, Selection
<1>5. PICK g \in [0..Len(t) -> Seq(X)] : IsSelection(g, t, kept)
  BY <1>3, Selection
<1> DEFINE Upto == {n \in Nat : n <= Len(s) => g[n + 1] = first \o f[n]}
<1>6. 0 \in Upto
  <2>1. 1 \in 1..Len(t) /\ 1 - 1 = 0
    BY <1>3
  <2>2. g[1] = IF e \in kept THEN Append(<<>>, e) ELSE <<>>
    BY <1>3, <1>5, <2>1 DEF IsSelection
  <2>3. g[1] = first \o f[0]
    BY <1>2, <1>4, <2>2 DEF IsSelection
  <2> QED
    BY <2>3
<1>7. ASSUME NEW n \in Nat, n \in Upto
      PROVE  n + 1 \in Upto
  <2> SUFFICES ASSUME n + 1 <= Len(s) PROVE g[(n + 1) + 1] = first \o f[n + 1]
    OBVIOUS
  <2>1. /\ n + 1 \in 1..Len(s) /\ (n + 1) + 1 \in 1..Len(t) /\ ((n + 1) + 1) - 1 = n + 1
        /\ (n + 1) - 1 = n /\ n \in 0..Len(s)
    BY <1>3
  <2>2. g[n + 1] = first \o f[n]
    BY <1>7, <2>1
  <2>3. PICK x \in X : x = s[n + 1] /\ x = t[(n + 1) + 1]
    BY <1>3, <2>1
  <2>4. PICK q \in Seq(X) : q = f[n]
    BY <2>1
  <2>5. /\ g[(n + 1) + 1] = IF x \in kept THEN Append(g[n + 1], x) ELSE g[n + 1]
        /\ f[n + 1] = IF x \in kept THEN Append(f[n], x) ELSE f[n]
    <3>1. g[(n + 1) + 1] = IF t[(n + 1) + 1] \in kept
                           THEN Append(g[((n + 1) + 1) - 1], t[(n + 1) + 1])
                           ELSE g[((n + 1) + 1) - 1]
      BY <1>5, <2>1, Zenon DEF IsSelection
    <3>2. f[n + 1] = IF s[n + 1] \in kept THEN Append(f[(n + 1) - 1], s[n + 1])
                                          ELSE f[(n + 1) - 1]
      BY <1>4, <2>1, Zenon DEF IsSelection
    <3>3. ((n + 1) + 1) - 1 = n + 1 /\ (n + 1) - 1 = n /\ t[(n + 1) + 1] = x /\ s[n + 1] = x
      BY <2>1, <2>3
    <3>4. g[(n + 1) + 1] = IF x \in kept THEN Append(g[n + 1], x) ELSE g[n + 1]
      BY <3>1, <3>3
    <3>5. f[n + 1] = IF x \in kept THEN Append(f[n], x) ELSE f[n]
      BY <3>2, <3>3
    <3> QED
      BY <3>4, <3>5
  <2>6. Append(first \o q, x) = first \o Append(q, x)
    <3>1. first \in Seq(X) /\ q \in Seq(X) /\ x \in X
      BY <1>2
    <3> QED
      BY <1>0, <3>1, Zenon
  <2> QED
    BY <2>2, <2>4, <2>5, <2>6
<1> HIDE DEF Upto
<1>8. Len(s) \in Upto
  BY <1>3, <1>6, <1>7, SetInduction
<1>9. g[Len(s) + 1] = first \o f[Len(s)]
  BY <1>3, <1>8 DEF Upto
<1>10. SelectIn(t, kept) = first \o f[Len(s)] /\ f[Len(s)] = SelectIn(s, kept)
  BY <1>3, <1>4, <1>5, <1>9 DEF IsSelection
<1>11. f[Len(s)] \in Seq(X)
  BY <1>3, <1>4
<1>12. e \in kept => first = <<e>>
  BY <1>2
<1>13. e \notin kept => first \o f[Len(s)] = f[Len(s)]
  BY <1>2, <1>11
<1> QED
  BY <1>1, <1>10, <1>12, <1>13

\* Only what is kept of the sequence's own elements matters.
LEMMA SelectInSame ==
    ASSUME NEW X, NEW s \in Seq(X), NEW kept, NEW same,
           \A i \in 1..Len(s) : s[i] \in kept <=> s[i] \in same
    PROVE  SelectIn(s, kept) = SelectIn(s, same)
<1>1. PICK f \in [0..Len(s) -> Seq(X)] : IsSelection(f, s, kept)
  BY Selection
<1>2. PICK g \in [0..Len(s) -> Seq(X)] : IsSelection(g, s, same)
  BY Selection
<1> USE DEF IsSelection
<1> DEFINE Upto == {n \in Nat : n <= Len(s) => g[n] = f[n]}
<1>3. 0 \in Upto
  BY <1>1, <1>2
<1>4. ASSUME NEW n \in Nat, n \in Upto
      PROVE  n + 1 \in Upto
  <2> SUFFICES ASSUME n + 1 <= Len(s) PROVE g[n + 1] = f[n + 1]
    OBVIOUS
  <2>1. n + 1 \in 1..Len(s) /\ (n + 1) - 1 = n /\ g[n] = f[n]
    BY <1>4
  <2> QED
    BY <1>1, <1>2, <2>1
<1> HIDE DEF Upto
<1>5. Len(s) \in Nat /\ Len(s) \in Upto
  BY <1>3, <1>4, SetInduction
<1> QED
  BY <1>1, <1>2, <1>5 DEF Upto

-----------------------------------------------------------------------------
(***************************************************************************)
(* The inductive invariant.  On each machine one thread at most is between *)
(* Acquire and Release of the lock, and while it waits for the network the *)
(* interrupt is pending or has left its unit.  The worker is signalled     *)
(* once for each packet it finds.  Whoever sends has a message of its own, *)
(* which the network has not seen before it is handed over, and everything *)
(* on its way to a mailbox was handed over.                                *)
(***************************************************************************)

HasLock(t) == at[t] \in {"holding", "sending", "sent"}
InSend(t) == at[t] = "acquire" \/ HasLock(t)

PlaceInv ==
    /\ \A t \in Clients : at[t] = "out" \/ InSend(t)
    /\ \A m \in Machines : at[m] \in {"idle", "waiting", "available", "put"}

\* Whoever is in P of a machine's semaphore runs on that machine.
Home(t) == IF t \in Machines THEN t ELSE MachineOf[t]
WaitInv == \A s \in Semaphores : \A t \in inP[s] : Home(t) = s.of

LockInv ==
    /\ \A t, u \in Clients : HasLock(t) /\ HasLock(u) /\ MachineOf[t] = MachineOf[u] => t = u
    /\ \A m \in Machines : count[sendLock(m)] =
            IF \E t \in Clients : MachineOf[t] = m /\ HasLock(t) THEN 0 ELSE 1

NetworkBusy(m) == \E t \in Clients : MachineOf[t] = m /\ at[t] = "sending"

DeviceInv ==
    \A m \in Machines : sendPending[m] + count[messageSent(m)] = IF NetworkBusy(m) THEN 1 ELSE 0

WorkerInv ==
    \A m \in Machines :
        /\ count[messageAvailable(m)] = IF inbox[m] # NULL /\ at[m] # "available" THEN 1 ELSE 0
        /\ at[m] = "available" => inbox[m] # NULL
        /\ mail[m] # NULL <=> at[m] = "put"

SenderInv ==
    /\ Len(header) <= MaxMessages
    /\ carried \subseteq DOMAIN header
    /\ \A t \in Clients : InSend(t) => mail[t] \in DOMAIN header
    /\ \A t \in Clients : at[t] \in {"acquire", "holding"} => mail[t] \notin carried
    /\ \A t, u \in Clients : InSend(t) /\ InSend(u) /\ mail[t] = mail[u] => t = u

ArrivingInv ==
    \A m \in Machines :
        /\ mail[m] \in carried \cup {NULL}
        /\ inbox[m] \in carried \cup {NULL}
        /\ socket[m] \in Seq(carried)

Inductive ==
    /\ TypeOK /\ PlaceInv /\ WaitInv /\ LockInv
    /\ DeviceInv /\ WorkerInv /\ SenderInv /\ ArrivingInv

-----------------------------------------------------------------------------
(***************************************************************************)
(* The semaphores.                                                         *)
(***************************************************************************)

\* The semaphores of the machines are all different.
LEMMA SemaphoreNames ==
    /\ \A m \in Machines : /\ sendLock(m) \in Semaphores
                           /\ messageSent(m) \in Semaphores
                           /\ messageAvailable(m) \in Semaphores
    /\ \A m, k \in Machines : /\ sendLock(m) = sendLock(k) <=> m = k
                              /\ messageSent(m) = messageSent(k) <=> m = k
                              /\ messageAvailable(m) = messageAvailable(k) <=> m = k
                              /\ sendLock(m) # messageSent(k)
                              /\ sendLock(m) # messageAvailable(k)
                              /\ messageSent(m) # messageAvailable(k)
  BY DEF sendLock, messageSent, messageAvailable, Semaphores

\* P takes a unit or sends its caller to where it waits.
LEMMA PFacts ==
    ASSUME TypeOK, NEW t \in Threads, NEW s \in Semaphores,
           NEW waiting \in Places, NEW done \in Places, P(t, s, waiting, done)
    PROVE  /\ Sem!TypeOK' /\ at' \in [Threads -> Places]
           /\ \/ /\ count[s] > 0
                 /\ count' = [count EXCEPT ![s] = @ - 1]
                 /\ at' = [at EXCEPT ![t] = done]
              \/ /\ count[s] = 0
                 /\ count' = count
                 /\ at' = [at EXCEPT ![t] = waiting]
           /\ \A r \in Semaphores : inP'[r] \subseteq inP[r] \cup (IF r = s THEN {t} ELSE {})
<1> USE DEF TypeOK, Sem!TypeOK
<1>1. at' \in [Threads -> Places]
  BY DEF P, GoTo
<1>2. CASE Sem!TakeAtOnce(t, s) /\ GoTo(t, done)
  <2>1. count[s] > 0 /\ count' = [count EXCEPT ![s] = @ - 1] /\ inP' = inP
    BY <1>2, Zenon DEF Sem!TakeAtOnce
  <2>2. count[s] \in Nat /\ count[s] - 1 \in Nat
    BY <2>1
  <2>3. Sem!TypeOK'
    BY <2>1, <2>2
  <2> QED
    BY <1>1, <1>2, <2>1, <2>3 DEF GoTo
<1>3. CASE Sem!StartWaiting(t, s) /\ GoTo(t, waiting)
  <2>1. count[s] = 0 /\ count' = count /\ inP' = [inP EXCEPT ![s] = @ \cup {t}]
    BY <1>3, Zenon DEF Sem!StartWaiting
  <2>2. Sem!TypeOK'
    BY <2>1
  <2> QED
    BY <1>1, <1>3, <2>1, <2>2 DEF GoTo
<1> QED
  BY <1>2, <1>3 DEF P

\* A thread that P lets go on has taken a unit.
LEMMA WokenFacts ==
    ASSUME TypeOK, NEW t \in Threads, NEW s \in Semaphores,
           NEW waiting \in Places, NEW done \in Places, Woken(t, s, waiting, done)
    PROVE  /\ Sem!TypeOK' /\ at' \in [Threads -> Places]
           /\ at[t] = waiting /\ count[s] > 0
           /\ t \in inP[s] /\ \A r \in Semaphores : inP'[r] \subseteq inP[r]
           /\ count' = [count EXCEPT ![s] = @ - 1]
           /\ at' = [at EXCEPT ![t] = done]
           /\ UNCHANGED <<mail, outputVars, inputVars>>
<1> USE DEF TypeOK, Sem!TypeOK, Woken, GoTo, Sem!TakeAfterWaiting
<1>1. Sem!TypeOK'
  OBVIOUS
<1>2. at' \in [Threads -> Places]
  OBVIOUS
<1> QED
  BY <1>1, <1>2

\* V adds a unit.
LEMMA ReleaseFacts ==
    ASSUME TypeOK, NEW s \in Semaphores, Sem!Release(s)
    PROVE  Sem!TypeOK' /\ count' = [count EXCEPT ![s] = @ + 1] /\ inP' = inP
  BY DEF TypeOK, Sem!TypeOK, Sem!Release

-----------------------------------------------------------------------------
(***************************************************************************)
(* Every step keeps the invariant.                                         *)
(***************************************************************************)

(* Machines start with free locks, empty mailboxes and nothing under way. *)
LEMMA InitialStates ==
    Init => Inductive
<1> SUFFICES ASSUME Init PROVE Inductive
  OBVIOUS
<1> USE PostOfficeAssumption, SemaphoreNames
    DEF PostOfficeAssumption, Init, Sem!Init, HasLock, InSend, Threads
<1>1. TypeOK
  <2>1. Sem!TypeOK
    BY DEF Sem!TypeOK
  <2>2. at \in [Threads -> Places]
    BY DEF Places
  <2>3. /\ mail \in [Threads -> Messages \cup {NULL}]
        /\ inbox \in [Machines -> Messages \cup {NULL}]
        /\ sendPending \in [Machines -> Nat]
        /\ carried \subseteq Messages
    OBVIOUS
  <2>4. header \in Seq(Routes) /\ socket \in [Machines -> Seq(Messages)]
    OBVIOUS
  <2>5. boxes \in [Machines -> [Boxes -> Seq(Messages)]]
    OBVIOUS
  <2> QED
    BY <2>1, <2>2, <2>3, <2>4, <2>5 DEF TypeOK
<1>2. PlaceInv
  BY DEF PlaceInv
<1>3. LockInv
  <2>1. \A m \in Machines : count[sendLock(m)] = 1
    BY DEF sendLock, Semaphores
  <2> QED
    BY <2>1 DEF LockInv
<1>4. DeviceInv
  <2>1. \A m \in Machines : count[messageSent(m)] = 0
    BY DEF messageSent, Semaphores
  <2>2. \A t \in Clients : at[t] # "sending"
    OBVIOUS
  <2>3. \A m \in Machines : ~NetworkBusy(m) /\ sendPending[m] = 0
    BY <2>2 DEF NetworkBusy
  <2> HIDE DEF Init
  <2> QED
    BY <2>1, <2>3 DEF DeviceInv
<1>5. WorkerInv
  <2>1. \A m \in Machines : count[messageAvailable(m)] = 0
    BY DEF messageAvailable, Semaphores
  <2> QED
    BY <2>1 DEF WorkerInv
<1>6. SenderInv
  <2>1. Len(header) = 0
    OBVIOUS
  <2> QED
    BY <2>1 DEF SenderInv
<1>7. ArrivingInv
  BY DEF ArrivingInv
<1>8. WaitInv
  BY DEF WaitInv
<1> QED
  BY <1>1, <1>2, <1>3, <1>4, <1>5, <1>6, <1>7, <1>8 DEF Inductive

\* Whoever calls P does so on its own machine's semaphores.
LEMMA WaitersAtHome ==
    ASSUME WaitInv, NEW s \in Semaphores, NEW t, Home(t) = s.of,
           \A r \in Semaphores : inP'[r] \subseteq inP[r] \cup (IF r = s THEN {t} ELSE {})
    PROVE  WaitInv'
<1> SUFFICES ASSUME NEW r \in Semaphores, NEW u \in inP'[r] PROVE Home(u) = r.of
  BY DEF WaitInv, Home
<1>1. CASE u \in inP[r]
  BY <1>1 DEF WaitInv
<1>2. CASE r = s /\ u = t
  BY <1>2
<1> QED
  BY <1>1, <1>2

\* Nobody else has come into P.
LEMMA WaitersStay ==
    ASSUME WaitInv, \A r \in Semaphores : inP'[r] \subseteq inP[r]
    PROVE  WaitInv'
  BY DEF WaitInv, Home

\* A step that does not concern the lock.
LEMMA LockStays ==
    ASSUME LockInv,
           \A t \in Clients : HasLock(t)' <=> HasLock(t),
           \A m \in Machines : count'[sendLock(m)] = count[sendLock(m)]
    PROVE  LockInv'
  BY DEF LockInv

\* A step by which a thread gets the lock of its machine.
LEMMA LockTaken ==
    ASSUME LockInv, NEW m \in Machines, NEW t \in Clients, MachineOf[t] = m,
           HasLock(t)',
           \A u \in Clients : u # t => (HasLock(u)' <=> HasLock(u)),
           count[sendLock(m)] > 0,
           count'[sendLock(m)] = count[sendLock(m)] - 1,
           \A k \in Machines : k # m => count'[sendLock(k)] = count[sendLock(k)]
    PROVE  LockInv'
<1>1. count[sendLock(m)] = 1 /\ \A u \in Clients : MachineOf[u] = m => ~HasLock(u)
  BY DEF LockInv
<1>2. \A u \in Clients : MachineOf[u] = m => (HasLock(u)' <=> u = t)
  BY <1>1
<1>3. count'[sendLock(m)] = 0
  BY <1>1
<1>4. \A u \in Clients : MachineOf[u] # m => (HasLock(u)' <=> HasLock(u))
  OBVIOUS
<1> HIDE DEF HasLock
<1>5. \A u, v \in Clients : HasLock(u)' /\ HasLock(v)' /\ MachineOf[u] = MachineOf[v] => u = v
  BY <1>2, <1>4 DEF LockInv
<1>6. ASSUME NEW k \in Machines
      PROVE  count'[sendLock(k)] =
                IF \E u \in Clients : MachineOf[u] = k /\ HasLock(u)' THEN 0 ELSE 1
  <2>1. CASE k = m
    BY <1>2, <1>3, <2>1
  <2>2. CASE k # m
    BY <1>4, <2>2 DEF LockInv
  <2> QED
    BY <2>1, <2>2
<1> QED
  BY <1>5, <1>6 DEF LockInv

(* Send takes the lock of its machine, or starts to wait for it. *)
LEMMA CallSendKeeps ==
    ASSUME Inductive, NEW t \in Senders, CallSend(t)
    PROVE  Inductive'
<1> DEFINE m == MachineOf[t]
           n == Len(header) + 1
<1>1. t \in Clients /\ t \in Threads /\ t \notin Machines /\ m \in Machines
  BY PostOfficeAssumption DEF PostOfficeAssumption, Threads
<1>2. /\ at[t] = "out" /\ Len(header) < MaxMessages
      /\ mail' = [mail EXCEPT ![t] = n]
      /\ UNCHANGED <<sendPending, socket, carried, inbox, boxes>>
  BY DEF CallSend, Hold, inputVars
<1>3. PICK r \in Routes : header' = Append(header, r)
  BY DEF CallSend
<1>4. /\ Sem!TypeOK' /\ at' \in [Threads -> Places]
      /\ \/ /\ count[sendLock(m)] > 0
            /\ count' = [count EXCEPT ![sendLock(m)] = @ - 1]
            /\ at' = [at EXCEPT ![t] = "holding"]
         \/ /\ count[sendLock(m)] = 0
            /\ count' = count
            /\ at' = [at EXCEPT ![t] = "acquire"]
      /\ \A s \in Semaphores : inP'[s] \subseteq inP[s] \cup (IF s = sendLock(m) THEN {t} ELSE {})
  <2>1. P(t, sendLock(m), "acquire", "holding")
    BY DEF CallSend
  <2>2. "acquire" \in Places /\ "holding" \in Places /\ TypeOK
    BY DEF Places, Inductive
  <2> HIDE DEF m
  <2> QED
    BY <1>1, <2>1, <2>2, SemaphoreNames, PFacts
<1>5. /\ header' \in Seq(Routes) /\ Len(header') = n /\ Len(header) \in Nat
      /\ DOMAIN header' = 1..n /\ DOMAIN header = 1..Len(header)
  BY <1>3 DEF Inductive, TypeOK
<1>6. n \in Messages /\ n # NULL
  BY <1>2, <1>5, PostOfficeAssumption DEF PostOfficeAssumption, Messages
<1> HIDE DEF m, n
<1> USE <1>1, <1>2, <1>4 DEF Inductive, HasLock, InSend
<1>7. TypeOK'
  <2>1. mail' \in [Threads -> Messages \cup {NULL}]
    BY <1>6 DEF TypeOK
  <2> QED
    BY <1>5, <2>1 DEF TypeOK
<1>8. PlaceInv'
  BY DEF PlaceInv, TypeOK, Threads
<1>9. LockInv'
  <2>1. \A u \in Clients : u # t => at'[u] = at[u]
    BY DEF TypeOK, Threads
  <2>2. \A k \in Machines : k # m => count'[sendLock(k)] = count[sendLock(k)]
    BY SemaphoreNames DEF TypeOK, Sem!TypeOK
  <2>3. CASE at' = [at EXCEPT ![t] = "holding"] /\ count' = [count EXCEPT ![sendLock(m)] = @ - 1]
             /\ count[sendLock(m)] > 0
    <3>1. at'[t] = "holding" /\ count'[sendLock(m)] = count[sendLock(m)] - 1
      BY <2>3, SemaphoreNames DEF TypeOK, Sem!TypeOK
    <3> QED
      BY <2>1, <2>2, <2>3, <3>1, LockTaken DEF m
  <2>4. CASE at' = [at EXCEPT ![t] = "acquire"] /\ count' = count
    <3>1. at'[t] = "acquire"
      BY <2>4 DEF TypeOK
    <3> QED
      BY <2>1, <2>4, <3>1, LockStays
  <2> QED
    BY <2>3, <2>4
<1>10. DeviceInv'
  <2>1. \A k \in Machines : NetworkBusy(k)' <=> NetworkBusy(k)
    BY DEF NetworkBusy, TypeOK, Threads
  <2>2. \A k \in Machines : count'[messageSent(k)] = count[messageSent(k)]
    BY SemaphoreNames DEF TypeOK, Sem!TypeOK
  <2> QED
    BY <2>1, <2>2 DEF DeviceInv
<1>11. WorkerInv'
  <2>1. \A k \in Machines : count'[messageAvailable(k)] = count[messageAvailable(k)]
    BY SemaphoreNames DEF TypeOK, Sem!TypeOK
  <2>2. \A k \in Machines : at'[k] = at[k] /\ mail'[k] = mail[k]
    BY DEF TypeOK, Threads
  <2> QED
    BY <2>1, <2>2 DEF WorkerInv
<1>12. SenderInv'
  <2>1. \A u \in Clients : u # t => at'[u] = at[u] /\ mail'[u] = mail[u]
    BY DEF TypeOK, Threads
  <2>2. mail'[t] = n /\ n \notin DOMAIN header /\ n \in DOMAIN header'
    BY <1>5 DEF TypeOK, n
  <2>3. DOMAIN header \subseteq DOMAIN header'
    BY <1>5 DEF n
  <2>4. Len(header') <= MaxMessages
    BY <1>5, PostOfficeAssumption DEF n, PostOfficeAssumption
  <2> QED
    BY <2>1, <2>2, <2>3, <2>4 DEF SenderInv
<1>13. ArrivingInv'
  BY DEF ArrivingInv, TypeOK, Threads
<1>14. WaitInv'
  <2>1. Home(t) = sendLock(m).of
    BY DEF Home, sendLock, m
  <2> QED
    BY <2>1, SemaphoreNames, WaitersAtHome
<1> QED
  BY <1>7, <1>8, <1>9, <1>10, <1>11, <1>12, <1>13, <1>14

\* A message that is not yet carried is nowhere on its way: carrying more
\* keeps what was carried.
LEMMA CarryingMore ==
    ASSUME NEW S, NEW T, S \subseteq T, NEW s \in Seq(S)
    PROVE  s \in Seq(T)
  OBVIOUS

\* A message that was composed is for a mailbox.
LEMMA HeaderFacts ==
    ASSUME TypeOK, SenderInv, NEW n \in DOMAIN header
    PROVE  n \in Messages /\ header[n].to \in Machines /\ header[n].box \in Boxes
<1>1. header \in Seq(Routes) /\ Len(header) \in Nat /\ DOMAIN header = 1..Len(header)
  BY DEF TypeOK
<1>2. Len(header) <= MaxMessages /\ MaxMessages \in Nat
  BY PostOfficeAssumption DEF PostOfficeAssumption, SenderInv
<1>3. n \in Messages
  BY <1>1, <1>2 DEF Messages
<1>4. header[n] \in Routes
  BY <1>1
<1> QED
  BY <1>3, <1>4, PostOfficeAssumption DEF PostOfficeAssumption

(* The packet goes into the destination's socket or is lost; the interrupt is scheduled. *)
LEMMA NetworkSendKeeps ==
    ASSUME Inductive, NEW t \in Senders, NetworkSend(t)
    PROVE  /\ Inductive'
           /\ mail[t] \in DOMAIN header /\ mail[t] \in Messages /\ mail[t] \notin carried
<1> DEFINE m == MachineOf[t]
           n == mail[t]
           to == header[n].to
<1>1. t \in Clients /\ t \in Threads /\ t \notin Machines /\ m \in Machines
  BY PostOfficeAssumption DEF PostOfficeAssumption, Threads
<1>2. /\ at[t] = "holding"
      /\ sendPending' = [sendPending EXCEPT ![m] = @ + 1]
      /\ UNCHANGED <<mail, header, inbox, boxes>>
      /\ \/ UNCHANGED <<socket, carried>>
         \/ /\ socket' = [socket EXCEPT ![to] = Append(@, n)]
            /\ carried' = carried \cup {n}
      /\ P(t, messageSent(m), "sending", "sent")
  BY DEF NetworkSend, inputVars
<1>3. n \in DOMAIN header /\ n \notin carried
  BY <1>1, <1>2 DEF Inductive, SenderInv, InSend, HasLock
<1>4. n \in Messages /\ to \in Machines
  BY <1>3, HeaderFacts DEF Inductive
<1> HIDE DEF m, n, to
<1>5. ~NetworkBusy(m)
  BY <1>1, <1>2 DEF NetworkBusy, Inductive, LockInv, HasLock, m
<1>6. /\ sendPending[m] = 0 /\ count[messageSent(m)] = 0
      /\ sendPending[m] \in Nat /\ count[messageSent(m)] \in Nat
  <2>1. sendPending[m] + count[messageSent(m)] = 0
    BY <1>1, <1>5 DEF Inductive, DeviceInv
  <2>2. sendPending[m] \in Nat /\ count[messageSent(m)] \in Nat
    BY <1>1, SemaphoreNames DEF Inductive, TypeOK, Sem!TypeOK
  <2> QED
    BY <2>1, <2>2
<1>7. /\ Sem!TypeOK' /\ at' \in [Threads -> Places]
      /\ count' = count
      /\ at' = [at EXCEPT ![t] = "sending"]
      /\ \A s \in Semaphores : inP'[s] \subseteq inP[s] \cup (IF s = messageSent(m) THEN {t} ELSE {})
  <2>1. "sending" \in Places /\ "sent" \in Places /\ TypeOK
    BY DEF Places, Inductive
  <2>2. ~(count[messageSent(m)] > 0)
    BY <1>6
  <2> QED
    BY <1>1, <1>2, <2>1, <2>2, SemaphoreNames, PFacts
<1> USE <1>1, <1>7 DEF Inductive
<1>8. \A u \in Clients : u # t => at'[u] = at[u]
  BY DEF TypeOK, Threads
<1>9. at'[t] = "sending"
  BY DEF TypeOK
<1>10. TypeOK'
  <2>1. sendPending' \in [Machines -> Nat]
    BY <1>2 DEF TypeOK
  <2>2. socket' \in [Machines -> Seq(Messages)]
    <3>1. Append(socket[to], n) \in Seq(Messages)
      BY <1>4 DEF TypeOK
    <3>2. socket' = socket \/ socket' = [socket EXCEPT ![to] = Append(socket[to], n)]
      BY <1>2
    <3>3. socket \in [Machines -> Seq(Messages)]
      BY DEF TypeOK
    <3> QED
      BY <3>1, <3>2, <3>3
  <2>3. carried' \subseteq Messages
    BY <1>2, <1>4 DEF TypeOK
  <2> QED
    BY <1>2, <2>1, <2>2, <2>3 DEF TypeOK
<1>11. PlaceInv'
  BY DEF PlaceInv, TypeOK, Threads, InSend, HasLock
<1>12. LockInv'
  <2>1. \A u \in Clients : HasLock(u)' <=> HasLock(u)
    BY <1>2, <1>8, <1>9 DEF HasLock
  <2> QED
    BY <2>1, LockStays
<1>13. DeviceInv'
  <2>1. NetworkBusy(m)' /\ sendPending'[m] = 1
    BY <1>2, <1>6, <1>9 DEF NetworkBusy, m, TypeOK
  <2>2. \A k \in Machines : k # m => (NetworkBusy(k)' <=> NetworkBusy(k)) /\ sendPending'[k] = sendPending[k]
    BY <1>2, <1>8 DEF NetworkBusy, m, TypeOK
  <2> QED
    BY <1>6, <2>1, <2>2 DEF DeviceInv
<1>14. WorkerInv'
  <2>1. \A k \in Machines : at'[k] = at[k]
    BY DEF TypeOK, Threads
  <2> QED
    BY <1>2, <2>1 DEF WorkerInv
<1>15. SenderInv'
  <2>1. \A u \in Clients : InSend(u)' <=> InSend(u)
    BY <1>2, <1>8, <1>9 DEF InSend, HasLock
  <2>2. \A u \in Clients : at'[u] \in {"acquire", "holding"} => u # t /\ at[u] \in {"acquire", "holding"} /\ InSend(u)
    BY <1>8, <1>9 DEF InSend, HasLock
  <2>3. \A u \in Clients : u # t /\ InSend(u) => mail[u] # n
    BY <1>2 DEF SenderInv, InSend, HasLock, n
  <2>4. carried' \subseteq carried \cup {n}
    BY <1>2
  <2> QED
    BY <1>2, <1>3, <2>1, <2>2, <2>3, <2>4 DEF SenderInv
<1>16. ArrivingInv'
  <2>1. CASE UNCHANGED <<socket, carried>>
    BY <1>2, <2>1 DEF ArrivingInv
  <2>2. CASE socket' = [socket EXCEPT ![to] = Append(@, n)] /\ carried' = carried \cup {n}
    <3> SUFFICES ASSUME NEW k \in Machines
                 PROVE  /\ mail'[k] \in carried' \cup {NULL}
                        /\ inbox'[k] \in carried' \cup {NULL}
                        /\ socket'[k] \in Seq(carried')
      BY DEF ArrivingInv
    <3>1. mail'[k] \in carried' \cup {NULL} /\ inbox'[k] \in carried' \cup {NULL}
      BY <1>2, <2>2 DEF ArrivingInv
    <3>2. socket[k] \in Seq(carried')
      BY <2>2, CarryingMore DEF ArrivingInv
    <3>3. n \in carried' /\ (socket'[k] = socket[k] \/ socket'[k] = Append(socket[k], n))
      BY <2>2 DEF TypeOK
    <3> QED
      BY <3>1, <3>2, <3>3
  <2> QED
    BY <1>2, <2>1, <2>2
<1>17. WaitInv'
  <2>1. Home(t) = messageSent(m).of
    BY DEF Home, messageSent, m
  <2> QED
    BY <2>1, SemaphoreNames, WaitersAtHome
<1> QED
  BY <1>3, <1>4, <1>10, <1>11, <1>12, <1>13, <1>14, <1>15, <1>16, <1>17 DEF n

(* The sender, its packet sent, gives the lock back. *)
LEMMA SendDoneKeeps ==
    ASSUME Inductive, NEW t \in Senders, SendDone(t)
    PROVE  Inductive'
<1> DEFINE m == MachineOf[t]
<1>1. t \in Clients /\ t \in Threads /\ t \notin Machines /\ m \in Machines
  BY PostOfficeAssumption DEF PostOfficeAssumption, Threads
<1>2. /\ at[t] = "sent"
      /\ Sem!Release(sendLock(m))
      /\ mail' = [mail EXCEPT ![t] = NULL]
      /\ at' = [at EXCEPT ![t] = "out"]
      /\ UNCHANGED <<header, sendPending, socket, carried, inbox, boxes>>
  BY DEF SendDone, Hold, GoTo, inputVars, outputVars
<1>3. Sem!TypeOK' /\ count' = [count EXCEPT ![sendLock(m)] = @ + 1] /\ inP' = inP
  BY <1>1, <1>2, SemaphoreNames, ReleaseFacts DEF Inductive
<1> USE <1>1, <1>2, <1>3 DEF Inductive
<1>4. \A u \in Clients : u # t => at'[u] = at[u] /\ mail'[u] = mail[u]
  BY DEF TypeOK, Threads
<1>5. \A k \in Machines : at'[k] = at[k] /\ mail'[k] = mail[k]
  BY DEF TypeOK, Threads
<1>6. at'[t] = "out"
  BY DEF TypeOK
<1>7. \A k \in Machines : /\ k # m => count'[sendLock(k)] = count[sendLock(k)]
                          /\ count'[messageSent(k)] = count[messageSent(k)]
                          /\ count'[messageAvailable(k)] = count[messageAvailable(k)]
  BY SemaphoreNames DEF TypeOK, Sem!TypeOK
<1>8. TypeOK'
  <2>1. at' \in [Threads -> Places]
    BY DEF TypeOK, Places
  <2>2. mail' \in [Threads -> Messages \cup {NULL}]
    BY DEF TypeOK
  <2> QED
    BY <2>1, <2>2 DEF TypeOK
<1>9. PlaceInv'
  BY <1>4, <1>5, <1>6 DEF PlaceInv, InSend, HasLock
<1>10. LockInv'
  <2>1. HasLock(t) /\ ~HasLock(t)'
    BY <1>6 DEF HasLock
  <2>2. \A u \in Clients : u # t => (HasLock(u)' <=> HasLock(u))
    BY <1>4 DEF HasLock
  <2>3. count[sendLock(m)] = 0 /\ \A u \in Clients : MachineOf[u] = m => ~HasLock(u)'
    BY <2>1, <2>2 DEF LockInv, m
  <2>4. count'[sendLock(m)] = 1
    BY <2>3, SemaphoreNames DEF TypeOK, Sem!TypeOK
  <2> HIDE DEF m, HasLock
  <2>5. \A u, v \in Clients : HasLock(u)' /\ HasLock(v)' /\ MachineOf[u] = MachineOf[v] => u = v
    BY <2>1, <2>2 DEF LockInv
  <2>6. ASSUME NEW k \in Machines
        PROVE  count'[sendLock(k)] =
                  IF \E u \in Clients : MachineOf[u] = k /\ HasLock(u)' THEN 0 ELSE 1
    <3>1. CASE k = m
      BY <2>3, <2>4, <3>1
    <3>2. CASE k # m
      BY <1>7, <2>2, <3>2 DEF LockInv, m
    <3> QED
      BY <3>1, <3>2
  <2> QED
    BY <2>5, <2>6 DEF LockInv
<1>11. DeviceInv'
  <2>1. \A k \in Machines : NetworkBusy(k)' <=> NetworkBusy(k)
    BY <1>4, <1>6 DEF NetworkBusy
  <2> QED
    BY <1>7, <2>1 DEF DeviceInv
<1>12. WorkerInv'
  BY <1>5, <1>7 DEF WorkerInv
<1>13. SenderInv'
  BY <1>4, <1>6 DEF SenderInv, InSend, HasLock
<1>14. ArrivingInv'
  BY <1>5 DEF ArrivingInv
<1>15. WaitInv'
  BY WaitersStay
<1> QED
  BY <1>8, <1>9, <1>10, <1>11, <1>12, <1>13, <1>14, <1>15

(* A waiter gets the free lock: it is a sender of that machine by WaitInv. *)
LEMMA LockGrantedKeeps ==
    ASSUME Inductive, NEW m \in Machines, LockGranted(m)
    PROVE  Inductive'
<1>1. PICK t \in Clients : Woken(t, sendLock(m), "acquire", "holding")
  BY DEF LockGranted
<1>2. t \in Threads /\ t \notin Machines /\ "acquire" \in Places /\ "holding" \in Places
  BY PostOfficeAssumption DEF PostOfficeAssumption, Threads, Places
<1>3. /\ Sem!TypeOK' /\ at' \in [Threads -> Places]
      /\ at[t] = "acquire" /\ count[sendLock(m)] > 0
      /\ t \in inP[sendLock(m)] /\ \A s \in Semaphores : inP'[s] \subseteq inP[s]
      /\ count' = [count EXCEPT ![sendLock(m)] = @ - 1]
      /\ at' = [at EXCEPT ![t] = "holding"]
      /\ UNCHANGED <<mail, header, sendPending, socket, carried, inbox, boxes>>
  BY <1>1, <1>2, SemaphoreNames, WokenFacts DEF Inductive, outputVars, inputVars
<1> USE <1>2, <1>3 DEF Inductive
<1>4. \A u \in Clients : u # t => at'[u] = at[u]
  BY DEF TypeOK, Threads
<1>5. \A k \in Machines : at'[k] = at[k]
  BY DEF TypeOK, Threads
<1>6. at'[t] = "holding"
  BY DEF TypeOK
<1>7. \A k \in Machines : /\ k # m => count'[sendLock(k)] = count[sendLock(k)]
                          /\ count'[messageSent(k)] = count[messageSent(k)]
                          /\ count'[messageAvailable(k)] = count[messageAvailable(k)]
  BY SemaphoreNames DEF TypeOK, Sem!TypeOK
<1>8. TypeOK'
  BY DEF TypeOK
<1>9. PlaceInv'
  BY <1>4, <1>5, <1>6 DEF PlaceInv, InSend, HasLock
<1>10. LockInv'
  <2>1. MachineOf[t] = m
    BY SemaphoreNames DEF WaitInv, Home, sendLock
  <2>2. count'[sendLock(m)] = count[sendLock(m)] - 1
    BY SemaphoreNames DEF TypeOK, Sem!TypeOK
  <2>3. HasLock(t)' /\ \A u \in Clients : u # t => (HasLock(u)' <=> HasLock(u))
    BY <1>4, <1>6 DEF HasLock
  <2> QED
    BY <1>7, <2>1, <2>2, <2>3, LockTaken
<1>11. DeviceInv'
  <2>1. \A k \in Machines : NetworkBusy(k)' <=> NetworkBusy(k)
    BY <1>4, <1>6 DEF NetworkBusy
  <2> QED
    BY <1>7, <2>1 DEF DeviceInv
<1>12. WorkerInv'
  BY <1>5, <1>7 DEF WorkerInv
<1>13. SenderInv'
  <2>1. \A u \in Clients : InSend(u)' <=> InSend(u)
    BY <1>4, <1>6 DEF InSend, HasLock
  <2>2. \A u \in Clients : at'[u] \in {"acquire", "holding"} => at[u] \in {"acquire", "holding"}
    BY <1>4
  <2> QED
    BY <2>1, <2>2 DEF SenderInv
<1>14. ArrivingInv'
  BY DEF ArrivingInv
<1>15. WaitInv'
  BY WaitersStay
<1> QED
  BY <1>8, <1>9, <1>10, <1>11, <1>12, <1>13, <1>14, <1>15

(* The sender that waits for the interrupt goes on; only the lock's holder waits there. *)
LEMMA SentGrantedKeeps ==
    ASSUME Inductive, NEW m \in Machines, SentGranted(m)
    PROVE  Inductive'
<1>1. PICK t \in Clients : Woken(t, messageSent(m), "sending", "sent")
  BY DEF SentGranted
<1>2. t \in Threads /\ t \notin Machines /\ "sending" \in Places /\ "sent" \in Places
  BY PostOfficeAssumption DEF PostOfficeAssumption, Threads, Places
<1>3. /\ Sem!TypeOK' /\ at' \in [Threads -> Places]
      /\ at[t] = "sending" /\ count[messageSent(m)] > 0
      /\ t \in inP[messageSent(m)] /\ \A s \in Semaphores : inP'[s] \subseteq inP[s]
      /\ count' = [count EXCEPT ![messageSent(m)] = @ - 1]
      /\ at' = [at EXCEPT ![t] = "sent"]
      /\ UNCHANGED <<mail, header, sendPending, socket, carried, inbox, boxes>>
  BY <1>1, <1>2, SemaphoreNames, WokenFacts DEF Inductive, outputVars, inputVars
<1> USE <1>2, <1>3 DEF Inductive
<1>4. \A u \in Clients : u # t => at'[u] = at[u]
  BY DEF TypeOK, Threads
<1>5. \A k \in Machines : at'[k] = at[k]
  BY DEF TypeOK, Threads
<1>6. at'[t] = "sent"
  BY DEF TypeOK
<1>7. \A k \in Machines : /\ count'[sendLock(k)] = count[sendLock(k)]
                          /\ k # m => count'[messageSent(k)] = count[messageSent(k)]
                          /\ count'[messageAvailable(k)] = count[messageAvailable(k)]
  BY SemaphoreNames DEF TypeOK, Sem!TypeOK
<1>8. TypeOK'
  BY DEF TypeOK
<1>9. PlaceInv'
  BY <1>4, <1>5, <1>6 DEF PlaceInv, InSend, HasLock
<1>10. LockInv'
  <2>1. \A u \in Clients : HasLock(u)' <=> HasLock(u)
    BY <1>4, <1>6 DEF HasLock
  <2> QED
    BY <1>7, <2>1, LockStays
<1>11. DeviceInv'
  <2>1. MachineOf[t] = m
    BY SemaphoreNames DEF WaitInv, Home, messageSent
  <2>2. NetworkBusy(m) /\ ~NetworkBusy(m)'
    BY <1>4, <1>6, <2>1 DEF NetworkBusy, LockInv, HasLock
  <2>3. \A k \in Machines : k # m => (NetworkBusy(k)' <=> NetworkBusy(k))
    BY <1>4, <1>6, <2>1 DEF NetworkBusy
  <2>4. /\ sendPending[m] + count[messageSent(m)] = 1
        /\ sendPending[m] \in Nat /\ count[messageSent(m)] \in Nat
        /\ count'[messageSent(m)] = count[messageSent(m)] - 1
    BY <2>2, SemaphoreNames DEF DeviceInv, TypeOK, Sem!TypeOK
  <2>5. sendPending'[m] + count'[messageSent(m)] = 0
    BY <2>4
  <2> QED
    BY <1>7, <2>2, <2>3, <2>5 DEF DeviceInv
<1>12. WorkerInv'
  BY <1>5, <1>7 DEF WorkerInv
<1>13. SenderInv'
  <2>1. \A u \in Clients : InSend(u)' <=> InSend(u)
    BY <1>4, <1>6 DEF InSend, HasLock
  <2>2. \A u \in Clients : at'[u] \in {"acquire", "holding"} => at[u] \in {"acquire", "holding"}
    BY <1>4, <1>6
  <2> QED
    BY <2>1, <2>2 DEF SenderInv
<1>14. ArrivingInv'
  BY DEF ArrivingInv
<1>15. WaitInv'
  BY WaitersStay
<1> QED
  BY <1>8, <1>9, <1>10, <1>11, <1>12, <1>13, <1>14, <1>15

(* The output device's interrupt V()s messageSent. *)
LEMMA SendInterruptKeeps ==
    ASSUME Inductive, NEW m \in Machines, SendInterrupt(m)
    PROVE  Inductive'
<1>1. /\ sendPending[m] > 0
      /\ sendPending' = [sendPending EXCEPT ![m] = @ - 1]
      /\ UNCHANGED <<at, mail, header, socket, carried, inbox, boxes>>
  BY DEF SendInterrupt, inputVars
<1>2. Sem!TypeOK' /\ count' = [count EXCEPT ![messageSent(m)] = @ + 1] /\ inP' = inP
  BY SemaphoreNames, ReleaseFacts DEF SendInterrupt, Inductive
<1> USE <1>1, <1>2 DEF Inductive
<1>3. \A k \in Machines : /\ count'[sendLock(k)] = count[sendLock(k)]
                          /\ k # m => count'[messageSent(k)] = count[messageSent(k)]
                          /\ count'[messageAvailable(k)] = count[messageAvailable(k)]
  BY SemaphoreNames DEF TypeOK, Sem!TypeOK
<1>4. TypeOK'
  <2>1. sendPending[m] \in Nat /\ sendPending[m] - 1 \in Nat
    BY DEF TypeOK
  <2>2. sendPending' \in [Machines -> Nat]
    BY <2>1 DEF TypeOK
  <2> QED
    BY <2>2 DEF TypeOK
<1>5. PlaceInv'
  BY DEF PlaceInv, InSend, HasLock
<1>6. LockInv'
  BY <1>3, LockStays DEF HasLock
<1>7. DeviceInv'
  <2>1. \A k \in Machines : NetworkBusy(k)' <=> NetworkBusy(k)
    BY DEF NetworkBusy
  <2>2. /\ sendPending[m] \in Nat /\ count[messageSent(m)] \in Nat
        /\ sendPending'[m] = sendPending[m] - 1
        /\ count'[messageSent(m)] = count[messageSent(m)] + 1
    BY SemaphoreNames DEF TypeOK, Sem!TypeOK
  <2>3. sendPending'[m] + count'[messageSent(m)] = sendPending[m] + count[messageSent(m)]
    BY <2>2
  <2>4. \A k \in Machines : k # m => sendPending'[k] = sendPending[k]
    BY DEF TypeOK
  <2> HIDE <1>1, <1>2
  <2> QED
    BY <1>3, <2>1, <2>3, <2>4 DEF DeviceInv
<1>8. WorkerInv'
  BY <1>3 DEF WorkerInv
<1>9. SenderInv'
  BY DEF SenderInv, InSend, HasLock
<1>10. ArrivingInv'
  BY DEF ArrivingInv
<1>11. WaitInv'
  BY WaitersStay
<1> QED
  BY <1>4, <1>5, <1>6, <1>7, <1>8, <1>9, <1>10, <1>11

(* The input device takes the packet at the head of its socket and V()s messageAvailable. *)
LEMMA PacketArrivesKeeps ==
    ASSUME Inductive, NEW m \in Machines, PacketArrives(m)
    PROVE  Inductive'
<1>1. /\ inbox[m] = NULL
      /\ socket[m] # <<>>
      /\ inbox' = [inbox EXCEPT ![m] = Head(socket[m])]
      /\ socket' = [socket EXCEPT ![m] = Tail(socket[m])]
      /\ UNCHANGED <<at, mail, header, sendPending, carried, boxes>>
  BY DEF PacketArrives
<1>2. Sem!TypeOK' /\ count' = [count EXCEPT ![messageAvailable(m)] = @ + 1] /\ inP' = inP
  BY SemaphoreNames, ReleaseFacts DEF PacketArrives, Inductive
<1>3. /\ Head(socket[m]) \in Messages /\ Tail(socket[m]) \in Seq(Messages)
      /\ Head(socket[m]) \in carried /\ Tail(socket[m]) \in Seq(carried)
  BY <1>1 DEF Inductive, TypeOK, ArrivingInv
<1>4. Head(socket[m]) # NULL
  BY <1>3, PostOfficeAssumption DEF PostOfficeAssumption, Messages
<1> USE <1>1, <1>2 DEF Inductive
<1>5. \A k \in Machines : /\ count'[sendLock(k)] = count[sendLock(k)]
                          /\ count'[messageSent(k)] = count[messageSent(k)]
                          /\ k # m => count'[messageAvailable(k)] = count[messageAvailable(k)]
  BY SemaphoreNames DEF TypeOK, Sem!TypeOK
<1>6. TypeOK'
  <2>1. inbox' \in [Machines -> Messages \cup {NULL}]
    BY <1>3 DEF TypeOK
  <2>2. socket' \in [Machines -> Seq(Messages)]
    BY <1>3 DEF TypeOK
  <2> QED
    BY <2>1, <2>2 DEF TypeOK
<1>7. PlaceInv'
  BY DEF PlaceInv, InSend, HasLock
<1>8. LockInv'
  BY <1>5, LockStays DEF HasLock
<1>9. DeviceInv'
  <2>1. \A k \in Machines : NetworkBusy(k)' <=> NetworkBusy(k)
    BY DEF NetworkBusy
  <2> QED
    BY <1>5, <2>1 DEF DeviceInv
<1>10. WorkerInv'
  <2>1. /\ at[m] # "available" /\ count[messageAvailable(m)] = 0
        /\ inbox'[m] # NULL
        /\ count'[messageAvailable(m)] = count[messageAvailable(m)] + 1
    BY <1>4, SemaphoreNames DEF WorkerInv, TypeOK, Sem!TypeOK
  <2>2. \A k \in Machines : k # m => inbox'[k] = inbox[k]
    BY DEF TypeOK
  <2>3. count'[messageAvailable(m)] = 1
    BY <2>1
  <2> QED
    BY <1>5, <2>1, <2>2, <2>3 DEF WorkerInv
<1>11. SenderInv'
  BY DEF SenderInv, InSend, HasLock
<1>12. ArrivingInv'
  BY <1>3 DEF ArrivingInv, TypeOK
<1>13. WaitInv'
  BY WaitersStay
<1> QED
  BY <1>6, <1>7, <1>8, <1>9, <1>10, <1>11, <1>12, <1>13

\* The worker takes a unit: at once, or after it has waited.
LEMMA WorkerGoesOn ==
    ASSUME Inductive, NEW m \in Machines, at[m] \in {"idle", "waiting"},
           Sem!TypeOK', WaitInv', at' \in [Threads -> Places],
           count[messageAvailable(m)] > 0,
           count' = [count EXCEPT ![messageAvailable(m)] = @ - 1],
           at' = [at EXCEPT ![m] = "available"],
           UNCHANGED <<mail, header, sendPending, socket, carried, inbox, boxes>>
    PROVE  Inductive'
<1> USE DEF Inductive
<1>1. m \in Threads /\ m \notin Clients
  BY PostOfficeAssumption DEF PostOfficeAssumption, Threads
<1>2. \A u \in Clients : at'[u] = at[u]
  BY <1>1 DEF TypeOK, Threads
<1>3. \A k \in Machines : k # m => at'[k] = at[k]
  BY DEF TypeOK, Threads
<1>4. at'[m] = "available"
  BY <1>1 DEF TypeOK
<1>5. \A k \in Machines : /\ count'[sendLock(k)] = count[sendLock(k)]
                          /\ count'[messageSent(k)] = count[messageSent(k)]
                          /\ k # m => count'[messageAvailable(k)] = count[messageAvailable(k)]
  BY SemaphoreNames DEF TypeOK, Sem!TypeOK
<1>6. TypeOK'
  BY DEF TypeOK
<1>7. PlaceInv'
  BY <1>2, <1>3, <1>4 DEF PlaceInv, InSend, HasLock
<1>8. LockInv'
  BY <1>2, <1>5, LockStays DEF HasLock
<1>9. DeviceInv'
  <2>1. \A k \in Machines : NetworkBusy(k)' <=> NetworkBusy(k)
    BY <1>2 DEF NetworkBusy
  <2> QED
    BY <1>5, <2>1 DEF DeviceInv
<1>10. WorkerInv'
  <2>1. count[messageAvailable(m)] = 1 /\ inbox[m] # NULL /\ mail[m] = NULL
    BY DEF WorkerInv
  <2>2. count'[messageAvailable(m)] = 0
    BY <2>1, SemaphoreNames DEF TypeOK, Sem!TypeOK
  <2> QED
    BY <1>3, <1>4, <1>5, <2>1, <2>2 DEF WorkerInv
<1>11. SenderInv'
  BY <1>2 DEF SenderInv, InSend, HasLock
<1>12. ArrivingInv'
  BY DEF ArrivingInv
<1> QED
  BY <1>6, <1>7, <1>8, <1>9, <1>10, <1>11, <1>12

\* The worker goes to sleep in P, which changes nothing but its place and
\* who waits.
LEMMA WorkerSleeps ==
    ASSUME Inductive, NEW m \in Machines, at[m] = "idle",
           Sem!TypeOK', WaitInv', at' \in [Threads -> Places],
           count' = count,
           at' = [at EXCEPT ![m] = "waiting"],
           UNCHANGED <<mail, header, sendPending, socket, carried, inbox, boxes>>
    PROVE  Inductive'
<1> USE DEF Inductive
<1>1. m \in Threads /\ m \notin Clients
  BY PostOfficeAssumption DEF PostOfficeAssumption, Threads
<1>2. \A u \in Clients : at'[u] = at[u]
  BY <1>1 DEF TypeOK, Threads
<1>3. \A k \in Machines : k # m => at'[k] = at[k]
  BY DEF TypeOK, Threads
<1>4. at'[m] = "waiting"
  BY <1>1 DEF TypeOK
<1>5. TypeOK'
  BY DEF TypeOK
<1>6. PlaceInv'
  BY <1>2, <1>3, <1>4 DEF PlaceInv, InSend, HasLock
<1>7. LockInv'
  BY <1>2, LockStays DEF HasLock
<1>8. DeviceInv'
  <2>1. \A k \in Machines : NetworkBusy(k)' <=> NetworkBusy(k)
    BY <1>2 DEF NetworkBusy
  <2> QED
    BY <2>1 DEF DeviceInv
<1>9. WorkerInv'
  BY <1>3, <1>4 DEF WorkerInv
<1>10. SenderInv'
  BY <1>2 DEF SenderInv, InSend, HasLock
<1>11. ArrivingInv'
  BY DEF ArrivingInv
<1> QED
  BY <1>5, <1>6, <1>7, <1>8, <1>9, <1>10, <1>11

(* The postal worker is woken from P. *)
LEMMA WorkerWokenKeeps ==
    ASSUME Inductive, NEW m \in Machines, WorkerWoken(m)
    PROVE  Inductive'
<1>1. Woken(m, messageAvailable(m), "waiting", "available")
  BY DEF WorkerWoken
<1>2. m \in Threads /\ "waiting" \in Places /\ "available" \in Places
  BY DEF Threads, Places
<1>3. /\ Sem!TypeOK' /\ at' \in [Threads -> Places]
      /\ at[m] = "waiting" /\ count[messageAvailable(m)] > 0
      /\ \A s \in Semaphores : inP'[s] \subseteq inP[s]
      /\ count' = [count EXCEPT ![messageAvailable(m)] = @ - 1]
      /\ at' = [at EXCEPT ![m] = "available"]
      /\ UNCHANGED <<mail, header, sendPending, socket, carried, inbox, boxes>>
  BY <1>1, <1>2, SemaphoreNames, WokenFacts DEF Inductive, outputVars, inputVars
<1>4. WaitInv'
  BY <1>3, WaitersStay DEF Inductive
<1> QED
  BY <1>3, <1>4, WorkerGoesOn

(* The postal worker passes P or goes to sleep in it. *)
LEMMA WorkerWaitsKeeps ==
    ASSUME Inductive, NEW m \in Machines, WorkerWaits(m)
    PROVE  Inductive'
<1>1. /\ at[m] = "idle"
      /\ P(m, messageAvailable(m), "waiting", "available")
      /\ UNCHANGED <<mail, header, sendPending, socket, carried, inbox, boxes>>
  BY DEF WorkerWaits, outputVars, inputVars
<1>2. m \in Threads /\ "waiting" \in Places /\ "available" \in Places
  BY DEF Threads, Places
<1>3. /\ Sem!TypeOK' /\ at' \in [Threads -> Places]
      /\ \/ /\ count[messageAvailable(m)] > 0
            /\ count' = [count EXCEPT ![messageAvailable(m)] = @ - 1]
            /\ at' = [at EXCEPT ![m] = "available"]
         \/ /\ count[messageAvailable(m)] = 0
            /\ count' = count
            /\ at' = [at EXCEPT ![m] = "waiting"]
      /\ \A s \in Semaphores : inP'[s] \subseteq inP[s] \cup (IF s = messageAvailable(m) THEN {m} ELSE {})
  BY <1>1, <1>2, SemaphoreNames, PFacts DEF Inductive
<1>4. WaitInv'
  <2>1. Home(m) = messageAvailable(m).of
    BY DEF Home, messageAvailable
  <2> QED
    BY <1>3, <2>1, SemaphoreNames, WaitersAtHome DEF Inductive
<1> QED
  BY <1>1, <1>3, <1>4, WorkerGoesOn, WorkerSleeps

(* The postal worker takes the buffered packet, which is there by WorkerInv. *)
LEMMA WorkerReceivesKeeps ==
    ASSUME Inductive, NEW m \in Machines, WorkerReceives(m)
    PROVE  Inductive'
<1>1. /\ at[m] = "available"
      /\ mail' = [mail EXCEPT ![m] = inbox[m]]
      /\ inbox' = [inbox EXCEPT ![m] = NULL]
      /\ at' = [at EXCEPT ![m] = "put"]
      /\ UNCHANGED <<count, inP, header, sendPending, socket, carried, boxes>>
  BY DEF WorkerReceives, Hold, GoTo, outputVars
<1>2. m \in Threads /\ m \notin Clients
  BY PostOfficeAssumption DEF PostOfficeAssumption, Threads
<1> USE <1>1, <1>2 DEF Inductive
<1>3. \A u \in Clients : at'[u] = at[u] /\ mail'[u] = mail[u]
  BY DEF TypeOK, Threads
<1>4. \A k \in Machines : k # m => at'[k] = at[k] /\ mail'[k] = mail[k] /\ inbox'[k] = inbox[k]
  BY DEF TypeOK, Threads
<1>5. at'[m] = "put" /\ mail'[m] = inbox[m] /\ inbox'[m] = NULL
  BY DEF TypeOK
<1>6. TypeOK'
  <2>1. Sem!TypeOK'
    BY DEF TypeOK, Sem!TypeOK
  <2>2. at' \in [Threads -> Places]
    BY DEF TypeOK, Places
  <2>3. mail' \in [Threads -> Messages \cup {NULL}] /\ inbox' \in [Machines -> Messages \cup {NULL}]
    BY DEF TypeOK
  <2> QED
    BY <2>1, <2>2, <2>3 DEF TypeOK
<1>7. PlaceInv'
  BY <1>3, <1>4, <1>5 DEF PlaceInv, InSend, HasLock
<1>8. WaitInv'
  BY WaitersStay
<1>9. LockInv'
  BY <1>3, LockStays DEF HasLock
<1>10. DeviceInv'
  <2>1. \A k \in Machines : NetworkBusy(k)' <=> NetworkBusy(k)
    BY <1>3 DEF NetworkBusy
  <2> QED
    BY <2>1 DEF DeviceInv
<1>11. WorkerInv'
  BY <1>4, <1>5 DEF WorkerInv
<1>12. SenderInv'
  BY <1>3 DEF SenderInv, InSend, HasLock
<1>13. ArrivingInv'
  BY <1>4, <1>5 DEF ArrivingInv
<1> QED
  BY <1>6, <1>7, <1>8, <1>9, <1>10, <1>11, <1>12, <1>13

(* The postal worker puts the packet in its hand into the mailbox. *)
LEMMA WorkerPutsKeeps ==
    ASSUME Inductive, NEW m \in Machines, WorkerPuts(m)
    PROVE  /\ Inductive'
           /\ mail[m] \in Messages /\ mail[m] # NULL
           /\ header[mail[m]].box \in Boxes
<1>1. /\ at[m] = "put"
      /\ boxes' = [boxes EXCEPT ![m][header[mail[m]].box] = Append(@, mail[m])]
      /\ mail' = [mail EXCEPT ![m] = NULL]
      /\ at' = [at EXCEPT ![m] = "idle"]
      /\ UNCHANGED <<count, inP, header, sendPending, socket, inbox, carried>>
  BY DEF WorkerPuts, Hold, GoTo, outputVars
<1>2. m \in Threads /\ m \notin Clients
  BY PostOfficeAssumption DEF PostOfficeAssumption, Threads
<1>3. /\ mail[m] # NULL
      /\ mail[m] \in Messages /\ header[mail[m]].box \in Boxes
  <2>1. mail[m] # NULL
    BY <1>1 DEF Inductive, WorkerInv
  <2>2. mail[m] \in DOMAIN header
    BY <2>1 DEF Inductive, ArrivingInv, SenderInv
  <2> QED
    BY <2>1, <2>2, HeaderFacts DEF Inductive
<1> USE <1>2 DEF Inductive
<1>4. \A u \in Clients : at'[u] = at[u] /\ mail'[u] = mail[u]
  BY <1>1 DEF TypeOK, Threads
<1>5. \A k \in Machines : k # m => at'[k] = at[k] /\ mail'[k] = mail[k]
  BY <1>1 DEF TypeOK, Threads
<1>6. at'[m] = "idle" /\ mail'[m] = NULL
  BY <1>1 DEF TypeOK
<1>7. TypeOK'
  <2>1. Sem!TypeOK'
    BY <1>1 DEF TypeOK, Sem!TypeOK
  <2>2. at' \in [Threads -> Places]
    BY <1>1 DEF TypeOK, Places
  <2>3. mail' \in [Threads -> Messages \cup {NULL}]
    BY <1>1 DEF TypeOK
  <2>4. boxes' \in [Machines -> [Boxes -> Seq(Messages)]]
    <3> DEFINE b == header[mail[m]].box
    <3>1. boxes[m] \in [Boxes -> Seq(Messages)] /\ boxes[m][b] \in Seq(Messages)
      BY <1>3 DEF TypeOK
    <3>2. Append(boxes[m][b], mail[m]) \in Seq(Messages)
      BY <1>3, <3>1
    <3>3. boxes' = [boxes EXCEPT ![m] = [boxes[m] EXCEPT ![b] = Append(boxes[m][b], mail[m])]]
      BY <1>1
    <3> HIDE DEF b
    <3> QED
      BY <3>1, <3>2, <3>3 DEF TypeOK
  <2> QED
    BY <1>1, <2>1, <2>2, <2>3, <2>4 DEF TypeOK
<1>8. PlaceInv'
  BY <1>4, <1>5, <1>6 DEF PlaceInv, InSend, HasLock
<1>9. WaitInv'
  BY <1>1, WaitersStay
<1>10. LockInv'
  BY <1>1, <1>4, LockStays DEF HasLock
<1>11. DeviceInv'
  <2>1. \A k \in Machines : NetworkBusy(k)' <=> NetworkBusy(k)
    BY <1>4 DEF NetworkBusy
  <2> QED
    BY <1>1, <2>1 DEF DeviceInv
<1>12. WorkerInv'
  BY <1>1, <1>5, <1>6 DEF WorkerInv
<1>13. SenderInv'
  BY <1>1, <1>4 DEF SenderInv, InSend, HasLock
<1>14. ArrivingInv'
  BY <1>1, <1>5, <1>6 DEF ArrivingInv
<1> QED
  BY <1>3, <1>7, <1>8, <1>9, <1>10, <1>11, <1>12, <1>13, <1>14

\* A step that changes nothing, or nothing but the mailboxes.
LEMMA OnlyBoxesKeep ==
    ASSUME Inductive, boxes' \in [Machines -> [Boxes -> Seq(Messages)]],
           UNCHANGED <<count, inP, at, mail, outputVars, inbox>>
    PROVE  Inductive'
<1> USE DEF Inductive, outputVars
<1>1. TypeOK'
  <2>1. Sem!TypeOK'
    BY DEF TypeOK, Sem!TypeOK
  <2> QED
    BY <2>1 DEF TypeOK
<1>2. PlaceInv' /\ LockInv'
  BY DEF PlaceInv, LockInv, InSend, HasLock
<1>3. WaitInv'
  BY WaitersStay
<1>4. DeviceInv' /\ WorkerInv'
  BY DEF DeviceInv, NetworkBusy, WorkerInv
<1>5. SenderInv' /\ ArrivingInv'
  BY DEF SenderInv, ArrivingInv, InSend, HasLock
<1> QED
  BY <1>1, <1>2, <1>3, <1>4, <1>5

(* A client takes the head of a mailbox. *)
LEMMA ReceiveKeeps ==
    ASSUME Inductive, NEW t \in Clients, NEW b \in Boxes, Receive(t, b)
    PROVE  Inductive'
<1> DEFINE m == MachineOf[t]
<1>1. m \in Machines
  BY PostOfficeAssumption DEF PostOfficeAssumption
<1>2. /\ boxes[m][b] # <<>>
      /\ boxes' = [boxes EXCEPT ![m] = [boxes[m] EXCEPT ![b] = Tail(boxes[m][b])]]
      /\ UNCHANGED <<count, inP, at, mail, outputVars, inbox>>
  BY DEF Receive
<1> HIDE DEF m
<1>3. boxes' \in [Machines -> [Boxes -> Seq(Messages)]]
  <2>1. boxes[m] \in [Boxes -> Seq(Messages)] /\ boxes[m][b] \in Seq(Messages)
    BY <1>1 DEF Inductive, TypeOK
  <2>2. Tail(boxes[m][b]) \in Seq(Messages)
    BY <1>2, <2>1
  <2> QED
    BY <1>2, <2>1, <2>2 DEF Inductive, TypeOK
<1> QED
  BY <1>2, <1>3, OnlyBoxesKeep

(* A stuttering step changes nothing Inductive speaks of. *)
LEMMA StutteringKeeps ==
    ASSUME Inductive, UNCHANGED vars
    PROVE  Inductive'
<1>1. boxes' \in [Machines -> [Boxes -> Seq(Messages)]]
  BY DEF Inductive, TypeOK, vars, inputVars
<1> QED
  BY <1>1, OnlyBoxesKeep DEF vars, inputVars

-----------------------------------------------------------------------------
(***************************************************************************)
(* Theorems.                                                               *)
(***************************************************************************)

\* The inductive invariant holds in every state of every execution.
THEOREM InductiveInvariant ==
    SafetySpec => []Inductive
<1>1. Inductive /\ [Next]_vars => Inductive'
  BY CallSendKeeps, NetworkSendKeeps, SendDoneKeeps, ReceiveKeeps, LockGrantedKeeps,
     SentGrantedKeeps, WorkerWokenKeeps, SendInterruptKeeps, PacketArrivesKeeps,
     WorkerWaitsKeeps, WorkerReceivesKeeps, WorkerPutsKeeps, StutteringKeeps
  DEF Next
<1> QED
  BY InitialStates, <1>1, PTL DEF SafetySpec

\* The variables of the post offices keep their types.
THEOREM TypeCorrect ==
    SafetySpec => []TypeOK
<1>1. Inductive => TypeOK
  BY DEF Inductive
<1> QED
  BY InductiveInvariant, <1>1, PTL

\* A set any two elements of which are the same has one element at most.
LEMMA CountOfOne ==
    ASSUME NEW S, \A x, y \in S : x = y
    PROVE  Cardinality(S) = IF S = {} THEN 0 ELSE 1
<1>1. CASE S = {}
  BY <1>1, FS_EmptySet
<1>2. CASE S # {}
  <2>1. PICK x \in S : TRUE
    BY <1>2
  <2>2. S = {x}
    BY <2>1
  <2>3. Cardinality(S) = 1
    BY <2>2, FS_Singleton, Zenon
  <2> QED
    BY <1>2, <2>3
<1> QED
  BY <1>1, <1>2

\* Whatever the threads do, a machine has one packet at most with its
\* network, whose interrupt finds the thread that sent it waiting
\* (PostOfficeOutput::Send).
THEOREM OneSend ==
    SafetySpec => []OneSendAtATime
<1>1. Inductive => OneSendAtATime
  <2> SUFFICES ASSUME Inductive, NEW m \in Machines
               PROVE  LET here == {t \in Clients : MachineOf[t] = m}
                          sending == {t \in here : at[t] = "sending"}
                      IN  /\ sendPending[m] + count[messageSent(m)] = Cardinality(sending)
                          /\ Cardinality({t \in here : at[t] \in {"holding", "sending", "sent"}})
                               + count[sendLock(m)] = 1
    BY DEF OneSendAtATime
  <2> DEFINE here == {t \in Clients : MachineOf[t] = m}
             sending == {t \in here : at[t] = "sending"}
             holders == {t \in here : at[t] \in {"holding", "sending", "sent"}}
  <2>1. \A t, u \in holders : t = u
    BY DEF Inductive, LockInv, HasLock
  <2>2. \A t, u \in sending : t = u
    BY <2>1
  <2>3. sending = {} <=> ~NetworkBusy(m)
    BY DEF NetworkBusy
  <2>4. holders = {} <=> ~\E t \in Clients : MachineOf[t] = m /\ HasLock(t)
    BY DEF HasLock
  <2> HIDE DEF sending, holders
  <2>5. Cardinality(sending) = IF sending = {} THEN 0 ELSE 1
    BY <2>2, CountOfOne, Zenon
  <2>6. Cardinality(holders) = IF holders = {} THEN 0 ELSE 1
    BY <2>1, CountOfOne, Zenon
  <2>7. sendPending[m] + count[messageSent(m)] = Cardinality(sending)
    BY <2>3, <2>5 DEF Inductive, DeviceInv
  <2>8. Cardinality(holders) + count[sendLock(m)] = 1
    BY <2>4, <2>6 DEF Inductive, LockInv
  <2> QED
    BY <2>7, <2>8 DEF sending, holders
<1> QED
  BY InductiveInvariant, <1>1, PTL

-----------------------------------------------------------------------------
(***************************************************************************)
(* The refinement.  A mailbox with what is on its way to it is the queue   *)
(* that LossyMail promises: the network appends to it, a thread that       *)
(* receives takes its head, and the input device and the worker only move  *)
(* a message from one part of it to the next.                              *)
(***************************************************************************)

QueueAt(m, b) == boxes[m][b] \o SelectIn(Arriving(m), ForBox(b))
Queue == [a \in Machines \X Boxes |-> QueueAt(a[1], a[2])]

(* The message in somebody's hand, if any, as a sequence. *)
LEMMA SomeMessageType ==
    ASSUME NEW X, NEW n \in X \cup {NULL}
    PROVE  SomeMessage(n) \in Seq(X)
  BY DEF SomeMessage

\* What is on its way was carried.
LEMMA ArrivingType ==
    ASSUME Inductive, NEW m \in Machines
    PROVE  Arriving(m) \in Seq(carried) /\ Arriving(m) \in Seq(Messages)
<1>1. /\ mail[m] \in carried \cup {NULL} /\ inbox[m] \in carried \cup {NULL}
      /\ socket[m] \in Seq(carried) /\ carried \subseteq Messages
  BY DEF Inductive, ArrivingInv, TypeOK
<1>2. SomeMessage(mail[m]) \in Seq(carried) /\ SomeMessage(inbox[m]) \in Seq(carried)
  BY <1>1, SomeMessageType
<1>3. Arriving(m) \in Seq(carried)
  BY <1>1, <1>2 DEF Arriving
<1> QED
  BY <1>1, <1>3, CarryingMore

\* The parts of a queue.
LEMMA QueueType ==
    ASSUME Inductive, NEW m \in Machines, NEW b \in Boxes
    PROVE  /\ boxes[m][b] \in Seq(Messages)
           /\ SelectIn(Arriving(m), ForBox(b)) \in Seq(Messages)
<1>1. boxes[m][b] \in Seq(Messages)
  BY DEF Inductive, TypeOK
<1>2. Arriving(m) \in Seq(Messages)
  BY ArrivingType
<1> QED
  BY <1>1, <1>2, SelectInType

\* Composing more messages changes nothing for those on their way.
LEMMA QueueStays ==
    ASSUME Inductive, NEW m \in Machines, NEW b \in Boxes,
           Arriving(m)' = Arriving(m), boxes'[m][b] = boxes[m][b],
           \A n \in carried : n \in DOMAIN header' /\ header'[n] = header[n]
    PROVE  QueueAt(m, b)' = QueueAt(m, b)
<1> DEFINE kept == ForBox(b)
           same == ForBox(b)'
           s == Arriving(m)
<1>1. s \in Seq(carried)
  BY ArrivingType
<1>2. \A n \in carried : n \in kept <=> n \in same
  BY DEF ForBox, Inductive, SenderInv
<1> HIDE DEF s, kept, same
<1>3. \A i \in 1..Len(s) : s[i] \in kept <=> s[i] \in same
  BY <1>1, <1>2
<1>4. SelectIn(s, kept) = SelectIn(s, same)
  BY <1>1, <1>3, SelectInSame
<1> QED
  BY <1>4 DEF QueueAt, s, kept, same

(* Initially no mail is on its way. *)
LEMMA QueueIsEmpty ==
    Init => Mail!Init
<1> SUFFICES ASSUME Init PROVE Mail!Init
  OBVIOUS
<1>1. ASSUME NEW a \in Machines \X Boxes
      PROVE  QueueAt(a[1], a[2]) = <<>>
  <2>1. a[1] \in Machines /\ a[2] \in Boxes
    OBVIOUS
  <2>2. /\ mail[a[1]] = NULL /\ inbox[a[1]] = NULL /\ socket[a[1]] = <<>>
        /\ boxes[a[1]][a[2]] = <<>>
    BY <2>1 DEF Init, Threads
  <2>3. Arriving(a[1]) = <<>>
    BY <2>2 DEF Arriving, SomeMessage
  <2>4. <<>> \in Seq(Messages)
    OBVIOUS
  <2>5. SelectIn(Arriving(a[1]), ForBox(a[2])) = <<>>
    BY <2>3, <2>4, SelectInType
  <2> QED
    BY <2>2, <2>5 DEF QueueAt
<1>2. carried = {}
  BY DEF Init
<1>3. [a \in Machines \X Boxes |-> QueueAt(a[1], a[2])] = [a \in Machines \X Boxes |-> <<>>]
  BY <1>1
<1> QED
  BY <1>2, <1>3 DEF Mail!Init, QueueAt

\* A step after which every queue is as before.
LEMMA AllQueuesStay ==
    ASSUME carried' = carried,
           \A m \in Machines, b \in Boxes : QueueAt(m, b)' = QueueAt(m, b)
    PROVE  UNCHANGED Mail!vars
<1>1. \A a \in Machines \X Boxes : QueueAt(a[1], a[2])' = QueueAt(a[1], a[2])
  OBVIOUS
<1>2. Queue' = Queue
  BY <1>1 DEF Queue
<1> QED
  BY <1>2 DEF Mail!vars, Queue, QueueAt

\* A step after which one queue has changed.
LEMMA OneQueueChanges ==
    ASSUME NEW m \in Machines, NEW b \in Boxes, NEW q, QueueAt(m, b)' = q,
           \A k \in Machines, c \in Boxes : k # m \/ c # b => QueueAt(k, c)' = QueueAt(k, c)
    PROVE  Queue' = [Queue EXCEPT ![<<m, b>>] = q]
<1>1. ASSUME NEW a \in Machines \X Boxes
      PROVE  QueueAt(a[1], a[2])' = IF a = <<m, b>> THEN q ELSE QueueAt(a[1], a[2])
  <2>1. a[1] \in Machines /\ a[2] \in Boxes /\ (a = <<m, b>> <=> a[1] = m /\ a[2] = b)
    OBVIOUS
  <2> QED
    BY <2>1
<1> HIDE DEF QueueAt
<1> QED
  BY <1>1 DEF Queue

\* What the network carries to a machine is the last of what arrives there.
LEMMA ArrivesLast ==
    ASSUME Inductive, NEW m \in Machines, NEW n \in Messages,
           UNCHANGED <<mail, inbox>>, socket' = [socket EXCEPT ![m] = Append(@, n)]
    PROVE  Arriving(m)' = Append(Arriving(m), n)
<1>1. SomeMessage(mail[m]) \in Seq(Messages) /\ SomeMessage(inbox[m]) \in Seq(Messages)
  <2>1. mail[m] \in Messages \cup {NULL} /\ inbox[m] \in Messages \cup {NULL}
    BY DEF Inductive, TypeOK, Threads
  <2> QED
    BY <2>1, SomeMessageType
<1>2. socket[m] \in Seq(Messages) /\ socket'[m] = Append(socket[m], n)
  BY DEF Inductive, TypeOK
<1>3. PICK p, q, s : /\ p \in Seq(Messages) /\ p = SomeMessage(mail[m])
                     /\ q \in Seq(Messages) /\ q = SomeMessage(inbox[m])
                     /\ s \in Seq(Messages) /\ s = socket[m]
  BY <1>1, <1>2
<1>4. p \o q \o Append(s, n) = Append(p \o q \o s, n)
  <2>1. p \o q \in Seq(Messages)
    BY <1>3
  <2>2. \A u, v : u \in Seq(Messages) /\ v \in Seq(Messages) => u \o Append(v, n) = Append(u \o v, n)
    OBVIOUS
  <2> QED
    BY <1>3, <2>1, <2>2, Zenon
<1>5. Arriving(m)' = SomeMessage(mail[m]) \o SomeMessage(inbox[m]) \o socket'[m]
  BY DEF Arriving, SomeMessage
<1>6. Arriving(m)' = p \o q \o Append(s, n)
  BY <1>2, <1>3, <1>5, Zenon
<1>7. Arriving(m) = p \o q \o s
  BY <1>3, Zenon DEF Arriving
<1> QED
  BY <1>4, <1>6, <1>7, Zenon

\* The steps of Send that the network takes no part in.
LEMMA QuietStep ==
    ASSUME Inductive, UNCHANGED <<carried, socket, inbox, boxes>>,
           \A m \in Machines : mail'[m] = mail[m],
           \A n \in carried : n \in DOMAIN header' /\ header'[n] = header[n]
    PROVE  UNCHANGED Mail!vars
<1>1. ASSUME NEW m \in Machines, NEW b \in Boxes
      PROVE  QueueAt(m, b)' = QueueAt(m, b)
  <2>1. Arriving(m)' = Arriving(m)
    BY DEF Arriving, SomeMessage
  <2> QED
    BY <2>1, QueueStays
<1> QED
  BY <1>1, AllQueuesStay

\* Composing a message changes no other message.
LEMMA HeadersStay ==
    ASSUME Inductive, NEW r \in Routes, header' = Append(header, r)
    PROVE  \A n \in carried : n \in DOMAIN header' /\ header'[n] = header[n]
<1>1. header \in Seq(Routes) /\ carried \subseteq DOMAIN header
  BY DEF Inductive, TypeOK, SenderInv
<1>2. \A n \in DOMAIN header : n \in DOMAIN header' /\ header'[n] = header[n]
  BY <1>1
<1> QED
  BY <1>1, <1>2

\* What changes a client's message changes no worker's.
LEMMA WorkersKeepMail ==
    ASSUME Inductive, NEW t \in Clients, NEW n, Hold(t, n)
    PROVE  \A m \in Machines : mail'[m] = mail[m]
  BY PostOfficeAssumption DEF PostOfficeAssumption, Inductive, TypeOK, Hold, Threads

(* What a sender does with its lock and its semaphore is invisible in LossyMail. *)
LEMMA SendIsQuiet ==
    ASSUME Inductive, NEW t \in Senders, CallSend(t) \/ SendDone(t)
    PROVE  UNCHANGED Mail!vars
<1>1. t \in Clients
  BY PostOfficeAssumption DEF PostOfficeAssumption
<1>2. /\ UNCHANGED <<carried, socket, inbox, boxes>>
      /\ \E n : Hold(t, n)
  BY DEF CallSend, SendDone, outputVars, inputVars
<1>3. \A m \in Machines : mail'[m] = mail[m]
  BY <1>1, <1>2, WorkersKeepMail
<1>4. \A n \in carried : n \in DOMAIN header' /\ header'[n] = header[n]
  <2>1. CASE CallSend(t)
    BY <2>1, HeadersStay DEF CallSend
  <2>2. CASE SendDone(t)
    BY <2>2 DEF SendDone, outputVars, Inductive, SenderInv
  <2> QED
    BY <2>1, <2>2
<1> QED
  BY <1>2, <1>3, <1>4, QuietStep

\* A step that leaves the messages where they are.
LEMMA NothingMoves ==
    ASSUME Inductive, UNCHANGED <<mail, header, socket, carried, inbox, boxes>>
    PROVE  UNCHANGED Mail!vars
<1>1. \A n \in carried : n \in DOMAIN header' /\ header'[n] = header[n]
  BY DEF Inductive, SenderInv
<1> QED
  BY <1>1, QuietStep

\* The network loses the packet, or LossyMail's Send.
LEMMA NetworkSendRefines ==
    ASSUME Inductive, NEW t \in Senders, NetworkSend(t)
    PROVE  [Mail!Next]_(Mail!vars)
<1>1. PICK n, to, box : n = mail[t] /\ to = header[n].to /\ box = header[n].box
  OBVIOUS
<1>2. /\ UNCHANGED <<mail, header, inbox, boxes>>
      /\ \/ UNCHANGED <<socket, carried>>
         \/ /\ socket' = [socket EXCEPT ![to] = Append(@, n)]
            /\ carried' = carried \cup {n}
  BY <1>1 DEF NetworkSend, inputVars
<1>3. /\ n \in DOMAIN header /\ n \in Messages /\ n \notin carried
      /\ to \in Machines /\ box \in Boxes
  BY <1>1, NetworkSendKeeps, HeaderFacts DEF Inductive
<1>4. CASE UNCHANGED <<socket, carried>>
  BY <1>2, <1>4, NothingMoves
<1>5. CASE socket' = [socket EXCEPT ![to] = Append(@, n)] /\ carried' = carried \cup {n}
  <2>1. \A k \in carried : k \in DOMAIN header' /\ header'[k] = header[k]
    BY <1>2 DEF Inductive, SenderInv
  <2>2. ASSUME NEW m \in Machines, NEW b \in Boxes, m # to \/ b # box
        PROVE  QueueAt(m, b)' = QueueAt(m, b)
    <3>1. CASE m # to
      <4>1. Arriving(m)' = Arriving(m) /\ boxes'[m][b] = boxes[m][b]
        BY <1>2, <1>5, <3>1 DEF Arriving, SomeMessage, Inductive, TypeOK
      <4> QED
        BY <2>1, <4>1, QueueStays
    <3>2. CASE m = to /\ b # box
      <4>1. Arriving(m)' = Append(Arriving(m), n)
        BY <1>2, <1>3, <1>5, <3>2, ArrivesLast DEF Inductive
      <4>2. ForBox(b)' = ForBox(b) /\ n \notin ForBox(b) /\ boxes' = boxes
        BY <1>1, <1>2, <3>2 DEF ForBox
      <4>3. SelectIn(Arriving(m)', ForBox(b)) = SelectIn(Arriving(m), ForBox(b))
        BY <1>3, <4>1, <4>2, ArrivingType, SelectInAppend
      <4> QED
        BY <4>2, <4>3 DEF QueueAt
    <3> QED
      BY <2>2, <3>1, <3>2
  <2>3. QueueAt(to, box)' = Append(QueueAt(to, box), n)
    <3>1. Arriving(to)' = Append(Arriving(to), n)
      BY <1>2, <1>3, <1>5, ArrivesLast DEF Inductive
    <3>2. ForBox(box)' = ForBox(box) /\ n \in ForBox(box) /\ boxes' = boxes
      BY <1>1, <1>2, <1>3 DEF ForBox
    <3>3. SelectIn(Arriving(to)', ForBox(box)) = Append(SelectIn(Arriving(to), ForBox(box)), n)
      BY <1>3, <3>1, <3>2, ArrivingType, SelectInAppend
    <3>4. PICK q \in Seq(Messages) : q = SelectIn(Arriving(to), ForBox(box))
      BY <1>3, QueueType
    <3>5. boxes[to][box] \in Seq(Messages)
      BY <1>3, QueueType
    <3>6. PICK p \in Seq(Messages) : p = boxes[to][box]
      BY <3>5
    <3>7. p \o Append(q, n) = Append(p \o q, n)
      BY <1>3
    <3>8. QueueAt(to, box)' = p \o Append(q, n)
      BY <3>2, <3>3, <3>4, <3>6 DEF QueueAt
    <3>9. QueueAt(to, box) = p \o q
      BY <3>4, <3>6 DEF QueueAt
    <3> QED
      BY <3>7, <3>8, <3>9
  <2>4. Queue' = [Queue EXCEPT ![<<to, box>>] = Append(QueueAt(to, box), n)]
    BY <1>3, <2>2, <2>3, OneQueueChanges
  <2>5. Queue[<<to, box>>] = QueueAt(to, box) /\ <<to, box>> \in Machines \X Boxes
    BY <1>3 DEF Queue
  <2>6. Queue' = [Queue EXCEPT ![<<to, box>>] = Append(Queue[<<to, box>>], n)]
    BY <2>4, <2>5
  <2>7. Mail!Send(<<to, box>>, n)
    BY <1>3, <1>5, <2>6 DEF Mail!Send, Queue, QueueAt
  <2> QED
    BY <1>3, <2>5, <2>7, Zenon DEF Mail!Next
<1> QED
  BY <1>2, <1>4, <1>5

\* A step by which a message comes nearer to its mailbox.
LEMMA ComingNearer ==
    ASSUME Inductive, UNCHANGED <<header, carried, boxes>>,
           \A m \in Machines : Arriving(m)' = Arriving(m)
    PROVE  UNCHANGED Mail!vars
<1>1. \A n \in carried : n \in DOMAIN header' /\ header'[n] = header[n]
  BY DEF Inductive, SenderInv
<1>2. \A m \in Machines, b \in Boxes : QueueAt(m, b)' = QueueAt(m, b)
  BY <1>1, QueueStays
<1> QED
  BY <1>2, AllQueuesStay

\* The input device's buffer takes the first packet of the socket.
LEMMA PacketComesNearer ==
    ASSUME Inductive, NEW m \in Machines, PacketArrives(m)
    PROVE  UNCHANGED Mail!vars
<1>1. /\ inbox[m] = NULL
      /\ socket[m] # <<>>
      /\ inbox' = [inbox EXCEPT ![m] = Head(socket[m])]
      /\ socket' = [socket EXCEPT ![m] = Tail(socket[m])]
      /\ UNCHANGED <<mail, header, carried, boxes>>
  BY DEF PacketArrives
<1>2. /\ inbox'[m] = Head(socket[m]) /\ socket'[m] = Tail(socket[m])
      /\ socket[m] \in Seq(Messages) /\ Head(socket[m]) \in Messages
      /\ Tail(socket[m]) \in Seq(Messages)
  BY <1>1 DEF Inductive, TypeOK
<1>3. Arriving(m)' = Arriving(m)
  <2>1. mail[m] \in Messages \cup {NULL} /\ NULL \notin Messages
    BY PostOfficeAssumption DEF Inductive, TypeOK, Threads, PostOfficeAssumption, Messages
  <2>2. PICK p : p \in Seq(Messages) /\ p = SomeMessage(mail[m])
    BY <2>1, SomeMessageType
  <2>3. PICK e, r : e \in Messages /\ e = Head(socket[m]) /\ r \in Seq(Messages) /\ r = Tail(socket[m])
    BY <1>2
  <2>4. SomeMessage(inbox[m]) = <<>> /\ SomeMessage(inbox'[m]) = <<e>>
    BY <1>1, <1>2, <2>1, <2>3 DEF SomeMessage
  <2>5. socket[m] = <<e>> \o r
    BY <1>1, <1>2, <2>3
  <2>6. Arriving(m) = p \o <<>> \o (<<e>> \o r)
    BY <2>2, <2>4, <2>5 DEF Arriving
  <2>7. Arriving(m)' = p \o <<e>> \o r
    <3>1. Arriving(m)' = SomeMessage(mail[m]) \o SomeMessage(inbox'[m]) \o socket'[m]
      BY <1>1 DEF Arriving, SomeMessage
    <3> QED
      BY <1>2, <2>2, <2>3, <2>4, <3>1
  <2>8. p \o <<>> \o (<<e>> \o r) = p \o <<e>> \o r
    <3>1. p \o <<>> = p
      BY <2>2
    <3>2. p \in Seq(Messages) /\ e \in Messages /\ r \in Seq(Messages)
      BY <2>2, <2>3
    <3>3. p \o (<<e>> \o r) = p \o <<e>> \o r
      BY <3>2
    <3> QED
      BY <3>1, <3>3, Zenon
  <2> QED
    BY <2>6, <2>7, <2>8
<1>4. \A k \in Machines : k # m => Arriving(k)' = Arriving(k)
  BY <1>1 DEF Arriving, SomeMessage, Inductive, TypeOK
<1> QED
  BY <1>1, <1>3, <1>4, ComingNearer

\* The worker takes the packet out of the device's buffer.
LEMMA ReceivedComesNearer ==
    ASSUME Inductive, NEW m \in Machines, WorkerReceives(m)
    PROVE  UNCHANGED Mail!vars
<1>1. /\ at[m] = "available"
      /\ mail' = [mail EXCEPT ![m] = inbox[m]]
      /\ inbox' = [inbox EXCEPT ![m] = NULL]
      /\ UNCHANGED <<header, socket, carried, boxes>>
  BY DEF WorkerReceives, Hold, outputVars
<1>2. mail[m] = NULL /\ mail'[m] = inbox[m] /\ inbox'[m] = NULL
  BY <1>1 DEF Inductive, TypeOK, WorkerInv, Threads
<1>3. Arriving(m)' = Arriving(m)
  <2>1. inbox[m] \in Messages \cup {NULL} /\ socket[m] \in Seq(Messages)
    BY DEF Inductive, TypeOK
  <2>2. PICK p : p \in Seq(Messages) /\ p = SomeMessage(inbox[m])
    BY <2>1, SomeMessageType
  <2>3. Arriving(m) = <<>> \o p \o socket[m]
    BY <1>2, <2>2 DEF Arriving, SomeMessage
  <2>4. Arriving(m)' = p \o <<>> \o socket[m]
    <3>1. SomeMessage(mail'[m]) = p /\ SomeMessage(inbox'[m]) = <<>>
      BY <1>2, <2>2 DEF SomeMessage
    <3>2. Arriving(m)' = SomeMessage(mail'[m]) \o SomeMessage(inbox'[m]) \o socket[m]
      BY <1>1 DEF Arriving, SomeMessage
    <3> QED
      BY <3>1, <3>2
  <2>5. <<>> \o p = p /\ p \o <<>> = p
    BY <2>2
  <2> QED
    BY <2>3, <2>4, <2>5
<1>4. \A k \in Machines : k # m => Arriving(k)' = Arriving(k)
  BY <1>1 DEF Arriving, SomeMessage, Inductive, TypeOK, Threads
<1> QED
  BY <1>1, <1>3, <1>4, ComingNearer

\* The worker puts its message at the end of the box it is for.
LEMMA PuttingIsQuiet ==
    ASSUME Inductive, NEW m \in Machines, WorkerPuts(m)
    PROVE  UNCHANGED Mail!vars
<1>1. PICK n, box : n = mail[m] /\ box = header[n].box
  OBVIOUS
<1>2. /\ boxes' = [boxes EXCEPT ![m] = [boxes[m] EXCEPT ![box] = Append(boxes[m][box], n)]]
      /\ mail' = [mail EXCEPT ![m] = NULL]
      /\ UNCHANGED <<header, socket, inbox, carried>>
  BY <1>1 DEF WorkerPuts, Hold, outputVars
<1>3. n \in Messages /\ n # NULL /\ box \in Boxes
  BY <1>1, WorkerPutsKeeps
<1>4. PICK p, r, q : /\ p \in Seq(Messages) /\ p = SomeMessage(inbox[m])
                     /\ r \in Seq(Messages) /\ r = socket[m]
                     /\ q \in Seq(Messages) /\ q = p \o r
  <2>1. inbox[m] \in Messages \cup {NULL} /\ socket[m] \in Seq(Messages)
    BY DEF Inductive, TypeOK
  <2>2. PICK p : p \in Seq(Messages) /\ p = SomeMessage(inbox[m])
    BY <2>1, SomeMessageType
  <2>3. p \o socket[m] \in Seq(Messages)
    BY <2>1, <2>2
  <2> QED
    BY <2>1, <2>2, <2>3
<1>5. Arriving(m) = <<n>> \o q /\ Arriving(m)' = q
  <2>1. Arriving(m) = <<n>> \o p \o r
    BY <1>1, <1>3, <1>4 DEF Arriving, SomeMessage
  <2>2. mail'[m] = NULL
    BY <1>2 DEF Inductive, TypeOK, Threads
  <2>3. Arriving(m)' = <<>> \o p \o r
    BY <1>2, <1>4, <2>2 DEF Arriving, SomeMessage
  <2>4. n \in Messages /\ p \in Seq(Messages) /\ r \in Seq(Messages) /\ <<>> \o p = p
    BY <1>3, <1>4
  <2>5. <<n>> \o p \o r = <<n>> \o (p \o r)
    BY <2>4
  <2> QED
    BY <1>4, <2>1, <2>3, <2>4, <2>5
<1>6. ASSUME NEW k \in Machines, NEW b \in Boxes
      PROVE  QueueAt(k, b)' = QueueAt(k, b)
  <2>1. CASE k # m
    <3>1. Arriving(k)' = Arriving(k) /\ boxes'[k][b] = boxes[k][b]
      BY <1>2, <2>1 DEF Arriving, SomeMessage, Inductive, TypeOK, Threads
    <3>2. \A i \in carried : i \in DOMAIN header' /\ header'[i] = header[i]
      BY <1>2 DEF Inductive, SenderInv
    <3> QED
      BY <3>1, <3>2, QueueStays
  <2>2. CASE k = m
    <3>1. ForBox(b)' = ForBox(b)
      BY <1>2 DEF ForBox
    <3>2. /\ n \in ForBox(b) => SelectIn(Arriving(m), ForBox(b)) = <<n>> \o SelectIn(q, ForBox(b))
          /\ n \notin ForBox(b) => SelectIn(Arriving(m), ForBox(b)) = SelectIn(q, ForBox(b))
      <4>1. n \in Messages /\ q \in Seq(Messages)
        BY <1>3, <1>4
      <4>2. PICK u : u = <<n>> \o q
        OBVIOUS
      <4>3. u \in Seq(Messages) /\ u # <<>> /\ Head(u) = n /\ Tail(u) = q
        BY <4>1, <4>2
      <4>4. /\ n \in ForBox(b) => SelectIn(u, ForBox(b)) = <<n>> \o SelectIn(q, ForBox(b))
            /\ n \notin ForBox(b) => SelectIn(u, ForBox(b)) = SelectIn(q, ForBox(b))
        BY <4>3, SelectInTail
      <4> QED
        BY <1>5, <4>2, <4>4
    <3>3. n \in ForBox(b) <=> b = box
      <4>1. n \in DOMAIN header
        BY <1>1, <1>3 DEF Inductive, ArrivingInv, SenderInv
      <4> QED
        BY <1>1, <4>1 DEF ForBox
    <3>4. PICK s : s \in Seq(Messages) /\ s = SelectIn(q, ForBox(b))
      BY <1>4, SelectInType
    <3>5. PICK w : w \in Seq(Messages) /\ w = boxes[m][b]
      BY DEF Inductive, TypeOK
    <3>6. QueueAt(m, b) = w \o (IF n \in ForBox(b) THEN <<n>> \o s ELSE s)
      BY <3>2, <3>4, <3>5 DEF QueueAt
    <3>7. QueueAt(m, b)' = boxes'[m][b] \o s
      BY <1>5, <3>1, <3>4 DEF QueueAt
    <3>8. boxes'[m][b] = IF b = box THEN Append(w, n) ELSE w
      BY <1>2, <3>5 DEF Inductive, TypeOK
    <3>9. w \o (<<n>> \o s) = Append(w, n) \o s
      <4>1. n \in Messages /\ w \in Seq(Messages) /\ s \in Seq(Messages)
        BY <1>3, <3>4, <3>5
      <4> QED
        BY <4>1, MovesForward
    <3>10. CASE b = box
      <4>1. QueueAt(m, b) = w \o (<<n>> \o s) /\ QueueAt(m, b)' = Append(w, n) \o s
        BY <3>3, <3>6, <3>7, <3>8, <3>10
      <4> QED
        BY <2>2, <3>9, <4>1, Zenon
    <3>11. CASE b # box
      <4>1. QueueAt(m, b) = w \o s /\ QueueAt(m, b)' = w \o s
        BY <3>3, <3>6, <3>7, <3>8, <3>11
      <4> QED
        BY <2>2, <4>1
    <3> QED
      BY <3>10, <3>11
  <2> QED
    BY <2>1, <2>2
<1> QED
  BY <1>2, <1>6, AllQueuesStay

\* A thread that receives takes the head of the queue.
LEMMA ReceiveRefines ==
    ASSUME Inductive, NEW t \in Clients, NEW b \in Boxes, Receive(t, b)
    PROVE  Mail!Next
<1>1. PICK m \in Machines : m = MachineOf[t]
  BY PostOfficeAssumption DEF PostOfficeAssumption
<1>2. /\ boxes[m][b] # <<>>
      /\ boxes' = [boxes EXCEPT ![m] = [boxes[m] EXCEPT ![b] = Tail(boxes[m][b])]]
      /\ UNCHANGED <<mail, header, socket, carried, inbox>>
  BY <1>1 DEF Receive, outputVars
<1>3. \A k \in Machines : Arriving(k)' = Arriving(k)
  BY <1>2 DEF Arriving, SomeMessage
<1>4. \A i \in carried : i \in DOMAIN header' /\ header'[i] = header[i]
  BY <1>2 DEF Inductive, SenderInv
<1>5. ASSUME NEW k \in Machines, NEW c \in Boxes, k # m \/ c # b
      PROVE  QueueAt(k, c)' = QueueAt(k, c)
  <2>1. boxes'[k][c] = boxes[k][c]
    BY <1>2, <1>5 DEF Inductive, TypeOK
  <2> QED
    BY <1>3, <1>4, <2>1, QueueStays
<1>6. PICK w, s : /\ w \in Seq(Messages) /\ w = boxes[m][b]
                  /\ s \in Seq(Messages) /\ s = SelectIn(Arriving(m), ForBox(b))
  BY QueueType
<1>7. QueueAt(m, b) = w \o s /\ w # <<>>
  BY <1>2, <1>6 DEF QueueAt
<1>8. QueueAt(m, b)' = Tail(w) \o s
  <2>1. boxes'[m][b] = Tail(w)
    BY <1>2, <1>6 DEF Inductive, TypeOK
  <2>2. ForBox(b)' = ForBox(b)
    BY <1>2 DEF ForBox
  <2> QED
    BY <1>3, <1>6, <2>1, <2>2 DEF QueueAt
<1>9. w \o s # <<>> /\ Tail(w \o s) = Tail(w) \o s
  BY <1>6, <1>7, TailOfTwo, Zenon
<1>10. Queue' = [Queue EXCEPT ![<<m, b>>] = Tail(QueueAt(m, b))]
  <2>1. QueueAt(m, b)' = Tail(QueueAt(m, b))
    BY <1>7, <1>8, <1>9
  <2> QED
    BY <1>5, <2>1, OneQueueChanges
<1>11. <<m, b>> \in Machines \X Boxes /\ Queue[<<m, b>>] = QueueAt(m, b)
  BY DEF Queue
<1>12. Queue[<<m, b>>] # <<>> /\ Queue' = [Queue EXCEPT ![<<m, b>>] = Tail(Queue[<<m, b>>])]
  BY <1>7, <1>9, <1>10, <1>11
<1>13. Mail!Receive(<<m, b>>)
  BY <1>2, <1>12 DEF Mail!Receive, Queue, QueueAt
<1> QED
  BY <1>11, <1>13, Zenon DEF Mail!Next

\* Post offices, network and postal workers together are lossy mail: what
\* the network does not lose is received from the mailbox that it was sent
\* to, once and in the order in which the network took it.
THEOREM PostOfficesRefineMail ==
    SafetySpec => ImplementsLossyMail
<1>1. Inductive /\ [Next]_vars => [Mail!Next]_(Mail!vars)
  <2> SUFFICES ASSUME Inductive, [Next]_vars PROVE [Mail!Next]_(Mail!vars)
    OBVIOUS
  <2>1. ASSUME NEW t \in Senders, CallSend(t) \/ NetworkSend(t) \/ SendDone(t)
        PROVE  [Mail!Next]_(Mail!vars)
    BY <2>1, SendIsQuiet, NetworkSendRefines
  <2>2. ASSUME NEW t \in Clients, NEW b \in Boxes, Receive(t, b)
        PROVE  [Mail!Next]_(Mail!vars)
    BY <2>2, ReceiveRefines
  <2>3. ASSUME NEW m \in Machines, LockGranted(m) \/ SentGranted(m) \/ WorkerWoken(m)
        PROVE  [Mail!Next]_(Mail!vars)
    BY <2>3, NothingMoves
    DEF LockGranted, SentGranted, WorkerWoken, Woken, outputVars, inputVars
  <2>4. ASSUME NEW m \in Machines, SendInterrupt(m) \/ WorkerWaits(m)
        PROVE  [Mail!Next]_(Mail!vars)
    BY <2>4, NothingMoves DEF SendInterrupt, WorkerWaits, outputVars, inputVars
  <2>5. ASSUME NEW m \in Machines, PacketArrives(m) \/ WorkerReceives(m) \/ WorkerPuts(m)
        PROVE  [Mail!Next]_(Mail!vars)
    BY <2>5, PacketComesNearer, ReceivedComesNearer, PuttingIsQuiet
  <2>6. CASE UNCHANGED vars
    BY <2>6, NothingMoves DEF vars, outputVars, inputVars
  <2> QED
    BY <2>1, <2>2, <2>3, <2>4, <2>5, <2>6 DEF Next
<1> QED
  BY InductiveInvariant, QueueIsEmpty, <1>1, PTL DEF SafetySpec, ImplementsLossyMail, Mail!Spec

-----------------------------------------------------------------------------
(***************************************************************************)
(* The other refinement: as far as the callers of Send see, each machine's *)
(* lock, semaphore and device are one SynchronousDevice.                   *)
(***************************************************************************)

Calls == [t \in Clients |-> Stage(t)]
Busy == [m \in Machines |-> sendPending[m] # 0]

(* A client runs on a machine and is no postal worker. *)
LEMMA ClientFacts ==
    ASSUME NEW t \in Clients
    PROVE  t \in Threads /\ t \notin Machines /\ MachineOf[t] \in Machines
  BY PostOfficeAssumption DEF PostOfficeAssumption, Threads

(* What a place says about a Send, and the semaphore for one that waits. *)
LEMMA StageFacts ==
    ASSUME NEW t \in Clients
    PROVE  /\ at[t] = "out" => Stage(t) = "out"
           /\ at[t] = "acquire" => Stage(t) = "calling"
           /\ at[t] = "holding" => Stage(t) = "granted"
           /\ at[t] = "sending" /\ count[messageSent(MachineOf[t])] = 0 => Stage(t) = "served"
           /\ at[t] = "sending" /\ count[messageSent(MachineOf[t])] # 0 => Stage(t) = "answered"
           /\ at[t] = "sent" => Stage(t) = "answered"
  BY DEF Stage

(* The same of the next state. *)
LEMMA NextStageFacts ==
    ASSUME NEW t \in Clients
    PROVE  /\ at'[t] = "out" => Stage(t)' = "out"
           /\ at'[t] = "acquire" => Stage(t)' = "calling"
           /\ at'[t] = "holding" => Stage(t)' = "granted"
           /\ at'[t] = "sending" /\ count'[messageSent(MachineOf[t])] = 0 => Stage(t)' = "served"
           /\ at'[t] = "sending" /\ count'[messageSent(MachineOf[t])] # 0 => Stage(t)' = "answered"
           /\ at'[t] = "sent" => Stage(t)' = "answered"
  BY DEF Stage, messageSent

(* The stage depends on the thread's place and on its machine's semaphore. *)
LEMMA StageStays ==
    ASSUME NEW t \in Clients, at'[t] = at[t],
           count'[messageSent(MachineOf[t])] = count[messageSent(MachineOf[t])]
    PROVE  Stage(t)' = Stage(t)
  BY DEF Stage, messageSent

\* A step that moves one client, and a machine's semaphore only if no other
\* client has that machine's lock, moves the call of that client only.
LEMMA OneCallMoves ==
    ASSUME Inductive, NEW t \in Clients, NEW place, at' = [at EXCEPT ![t] = place],
           \A u \in Clients : u # t =>
                \/ ~HasLock(u)
                \/ count'[messageSent(MachineOf[u])] = count[messageSent(MachineOf[u])],
           NEW s, Stage(t)' = s
    PROVE  Calls' = [Calls EXCEPT ![t] = s]
<1>1. ASSUME NEW u \in Clients, u # t PROVE Stage(u)' = Stage(u)
  <2>1. at'[u] = at[u]
    BY <1>1, ClientFacts DEF Inductive, TypeOK
  <2>2. CASE count'[messageSent(MachineOf[u])] = count[messageSent(MachineOf[u])]
    BY <2>1, <2>2, StageStays
  <2>3. CASE ~HasLock(u)
    <3>1. at[u] \in {"out", "acquire"}
      BY <2>3 DEF Inductive, PlaceInv, InSend
    <3> QED
      BY <2>1, <3>1, StageFacts, NextStageFacts
  <2> QED
    BY <1>1, <2>2, <2>3
<1>2. Calls' = [u \in Clients |-> Stage(u)']
  BY DEF Calls
<1> QED
  BY <1>1, <1>2 DEF Calls

\* The steps of the workers, of the input devices and of Receive.
LEMMA CallsStay ==
    ASSUME \A t \in Clients : at'[t] = at[t],
           \A m \in Machines : count'[messageSent(m)] = count[messageSent(m)],
           sendPending' = sendPending
    PROVE  UNCHANGED Network!vars
<1>1. \A t \in Clients : Stage(t)' = Stage(t)
  BY ClientFacts, StageStays
<1>2. [t \in Clients |-> Stage(t)]' = [t \in Clients |-> Stage(t)]
  BY <1>1
<1> QED
  BY <1>2 DEF Network!vars

(* The mapped state of the devices when that of one machine moves. *)
LEMMA OneDeviceMoves ==
    ASSUME NEW m \in Machines, \A k \in Machines : k # m => Busy'[k] = Busy[k]
    PROVE  /\ Busy'[m] => Busy' = [Busy EXCEPT ![m] = TRUE]
           /\ ~Busy'[m] => Busy' = [Busy EXCEPT ![m] = FALSE]
<1>1. /\ DOMAIN Busy = Machines /\ DOMAIN Busy' = Machines
      /\ \A k \in Machines : Busy'[k] \in BOOLEAN
      /\ Busy = [k \in Machines |-> Busy[k]] /\ Busy' = [k \in Machines |-> Busy'[k]]
  BY DEF Busy
<1> DEFINE F == Busy
           G == Busy'
<1> HIDE DEF F, G
<1>2. \A v : [F EXCEPT ![m] = v] = [k \in DOMAIN F |-> IF k = m THEN v ELSE F[k]]
  OBVIOUS
<1>3. \A v : G[m] = v => \A k \in Machines : G[k] = IF k = m THEN v ELSE F[k]
  BY Zenon DEF F, G
<1>4. \A v : G[m] = v => G = [F EXCEPT ![m] = v]
  <2>1. DOMAIN F = Machines /\ G = [k \in Machines |-> G[k]]
    BY <1>1 DEF F, G
  <2> QED
    BY <1>2, <1>3, <2>1
<1>5. G[m] \in BOOLEAN
  BY <1>1 DEF G
<1>6. G[m] => G = [F EXCEPT ![m] = TRUE]
  BY <1>4, <1>5, Zenon
<1>7. ~G[m] => G = [F EXCEPT ![m] = FALSE]
  BY <1>4, <1>5, Zenon
<1> QED
  BY <1>6, <1>7, Zenon DEF F, G

(* What the mapping of the devices says of each. *)
LEMMA BusyFacts ==
    ASSUME NEW k \in Machines
    PROVE  /\ Busy[k] = (sendPending[k] # 0)
           /\ Busy'[k] = (sendPending'[k] # 0)
  BY Zenon DEF Busy

(* A step on a call, with the mapping of both variables. *)
LEMMA CallSteps ==
    ASSUME NEW t \in Clients,
           \/ Stage(t) = "out" /\ Calls' = [Calls EXCEPT ![t] = "calling"] /\ Busy' = Busy
           \/ /\ \A u \in Clients : MachineOf[u] = MachineOf[t] => Stage(u) \in {"out", "calling"}
              /\ Calls' = [Calls EXCEPT ![t] = "granted"] /\ Busy' = Busy
           \/ /\ Stage(t) = "granted" /\ ~Busy[MachineOf[t]]
              /\ Calls' = [Calls EXCEPT ![t] = "served"]
              /\ Busy' = [Busy EXCEPT ![MachineOf[t]] = TRUE]
           \/ /\ Stage(t) = "served" /\ Busy[MachineOf[t]]
              /\ Calls' = [Calls EXCEPT ![t] = "answered"]
              /\ Busy' = [Busy EXCEPT ![MachineOf[t]] = FALSE]
           \/ Stage(t) = "answered" /\ Calls' = [Calls EXCEPT ![t] = "out"] /\ Busy' = Busy
    PROVE  Network!Next
<1> USE DEF Calls, Busy, Network!Advance, Network!SetBusy
<1>1. CASE Stage(t) = "out" /\ Calls' = [Calls EXCEPT ![t] = "calling"] /\ Busy' = Busy
  BY <1>1 DEF Network!Next, Network!Call
<1>2. CASE /\ \A u \in Clients : MachineOf[u] = MachineOf[t] => Stage(u) \in {"out", "calling"}
           /\ Calls' = [Calls EXCEPT ![t] = "granted"] /\ Busy' = Busy
  BY <1>2 DEF Network!Next, Network!Grant
<1>3. CASE /\ Stage(t) = "granted" /\ ~Busy[MachineOf[t]]
           /\ Calls' = [Calls EXCEPT ![t] = "served"]
           /\ Busy' = [Busy EXCEPT ![MachineOf[t]] = TRUE]
  BY <1>3 DEF Network!Next, Network!Request
<1>4. CASE /\ Stage(t) = "served" /\ Busy[MachineOf[t]]
           /\ Calls' = [Calls EXCEPT ![t] = "answered"]
           /\ Busy' = [Busy EXCEPT ![MachineOf[t]] = FALSE]
  BY <1>4 DEF Network!Next, Network!Answer
<1>5. CASE Stage(t) = "answered" /\ Calls' = [Calls EXCEPT ![t] = "out"] /\ Busy' = Busy
  BY <1>5 DEF Network!Next, Network!Return
<1> QED
  BY <1>1, <1>2, <1>3, <1>4, <1>5

(* The lock is free only when no client of the machine is inside. *)
LEMMA FreeLock ==
    ASSUME Inductive, NEW m \in Machines, count[sendLock(m)] > 0,
           NEW u \in Clients, MachineOf[u] = m
    PROVE  ~HasLock(u) /\ Stage(u) \in {"out", "calling"}
<1>1. ~HasLock(u)
  BY DEF Inductive, LockInv
<1> QED
  BY <1>1, StageFacts DEF Inductive, PlaceInv, InSend

\* The semaphores of the networks are left alone by a P or V of another.
LEMMA SentSemaphoresStay ==
    ASSUME TypeOK, NEW s \in Semaphores, NEW n, \A m \in Machines : s # messageSent(m),
           count' = [count EXCEPT ![s] = n]
    PROVE  \A m \in Machines : count'[messageSent(m)] = count[messageSent(m)]
  BY SemaphoreNames DEF TypeOK, Sem!TypeOK

(* Send waits for its machine's network, or has it if nobody else does. *)
LEMMA CallSendCalls ==
    ASSUME Inductive, NEW t \in Clients, CallSend(t)
    PROVE  Network!Next
<1> DEFINE m == MachineOf[t]
<1>1. t \in Threads /\ m \in Machines /\ sendLock(m) \in Semaphores
      /\ "acquire" \in Places /\ "holding" \in Places
  BY ClientFacts, SemaphoreNames DEF Places
<1>2. at[t] = "out" /\ Busy' = Busy /\ P(t, sendLock(m), "acquire", "holding")
  BY DEF CallSend, Busy
<1>3. Stage(t) = "out"
  BY <1>2, StageFacts
<1>4. \/ /\ count[sendLock(m)] > 0
         /\ count' = [count EXCEPT ![sendLock(m)] = @ - 1]
         /\ at' = [at EXCEPT ![t] = "holding"]
      \/ /\ count' = count
         /\ at' = [at EXCEPT ![t] = "acquire"]
  BY <1>1, <1>2, PFacts DEF Inductive
<1>5. \A k \in Machines : count'[messageSent(k)] = count[messageSent(k)]
  BY <1>1, <1>4, SentSemaphoresStay, SemaphoreNames DEF Inductive
<1>6. \A u \in Clients : count'[messageSent(MachineOf[u])] = count[messageSent(MachineOf[u])]
  BY <1>5, ClientFacts
<1> HIDE DEF m
<1>7. CASE count[sendLock(m)] > 0 /\ at' = [at EXCEPT ![t] = "holding"]
  <2>1. at'[t] = "holding"
    BY <1>1, <1>7 DEF Inductive, TypeOK
  <2>2. Calls' = [Calls EXCEPT ![t] = "granted"]
    BY <1>6, <1>7, <2>1, NextStageFacts, OneCallMoves
  <2>3. \A u \in Clients : MachineOf[u] = MachineOf[t] => Stage(u) \in {"out", "calling"}
    BY <1>1, <1>7, FreeLock DEF m
  <2> QED
    BY <1>2, <2>2, <2>3, CallSteps
<1>8. CASE at' = [at EXCEPT ![t] = "acquire"]
  <2>1. at'[t] = "acquire"
    BY <1>1, <1>8 DEF Inductive, TypeOK
  <2>2. Calls' = [Calls EXCEPT ![t] = "calling"]
    BY <1>6, <1>8, <2>1, NextStageFacts, OneCallMoves
  <2> QED
    BY <1>2, <1>3, <2>2, CallSteps
<1> QED
  BY <1>4, <1>7, <1>8

(* A waiter for the lock has the network when it gets the lock. *)
LEMMA LockGrantedCalls ==
    ASSUME Inductive, NEW m \in Machines, LockGranted(m)
    PROVE  Network!Next
<1>1. PICK t \in Clients : Woken(t, sendLock(m), "acquire", "holding")
  BY DEF LockGranted
<1>2. t \in Threads /\ sendLock(m) \in Semaphores /\ "acquire" \in Places /\ "holding" \in Places
  BY ClientFacts, SemaphoreNames DEF Places
<1>3. /\ t \in inP[sendLock(m)] /\ count[sendLock(m)] > 0
      /\ count' = [count EXCEPT ![sendLock(m)] = @ - 1]
      /\ at' = [at EXCEPT ![t] = "holding"]
      /\ sendPending' = sendPending
  BY <1>1, <1>2, WokenFacts DEF Inductive, outputVars
<1>4. MachineOf[t] = m
  BY <1>2, <1>3, ClientFacts DEF Inductive, WaitInv, Home, sendLock
<1>5. \A k \in Machines : count'[messageSent(k)] = count[messageSent(k)]
  BY <1>2, <1>3, SentSemaphoresStay, SemaphoreNames DEF Inductive
<1>6. \A u \in Clients : count'[messageSent(MachineOf[u])] = count[messageSent(MachineOf[u])]
  BY <1>5, ClientFacts
<1>7. at'[t] = "holding"
  BY <1>2, <1>3 DEF Inductive, TypeOK
<1>8. Calls' = [Calls EXCEPT ![t] = "granted"]
  BY <1>3, <1>6, <1>7, NextStageFacts, OneCallMoves
<1>9. \A u \in Clients : MachineOf[u] = MachineOf[t] => Stage(u) \in {"out", "calling"}
  BY <1>3, <1>4, FreeLock
<1> QED
  BY <1>3, <1>8, <1>9, CallSteps DEF Busy

\* The network is idle and its semaphore has no unit of an earlier packet, so
\* the thread that hands one over waits.
LEMMA NetworkSendCalls ==
    ASSUME Inductive, NEW t \in Clients, NetworkSend(t)
    PROVE  Network!Next
<1> DEFINE m == MachineOf[t]
<1>1. t \in Threads /\ m \in Machines /\ messageSent(m) \in Semaphores
      /\ "sending" \in Places /\ "sent" \in Places
  BY ClientFacts, SemaphoreNames DEF Places
<1>2. /\ at[t] = "holding" /\ sendPending' = [sendPending EXCEPT ![m] = @ + 1]
      /\ P(t, messageSent(m), "sending", "sent")
  BY DEF NetworkSend
<1> HIDE DEF m
<1>3. ~NetworkBusy(m)
  BY <1>2 DEF NetworkBusy, Inductive, LockInv, HasLock, m
<1>4. sendPending[m] = 0 /\ count[messageSent(m)] = 0
  <2>1. sendPending[m] + count[messageSent(m)] = 0
    BY <1>1, <1>3 DEF Inductive, DeviceInv
  <2>2. sendPending[m] \in Nat /\ count[messageSent(m)] \in Nat
    BY <1>1 DEF Inductive, TypeOK, Sem!TypeOK
  <2> QED
    BY <2>1, <2>2
<1>5. count' = count /\ at' = [at EXCEPT ![t] = "sending"]
  BY <1>1, <1>2, <1>4, PFacts DEF Inductive
<1>6. at'[t] = "sending"
  BY <1>1, <1>5 DEF Inductive, TypeOK
<1>7. Stage(t)' = "served" /\ Stage(t) = "granted"
  BY <1>2, <1>4, <1>5, <1>6, StageFacts, NextStageFacts DEF m
<1>8. Calls' = [Calls EXCEPT ![t] = "served"]
  BY <1>5, <1>7, OneCallMoves
<1>9. ~Busy[m] /\ Busy' = [Busy EXCEPT ![m] = TRUE]
  <2>1. sendPending'[m] = 1 /\ \A k \in Machines : k # m => sendPending'[k] = sendPending[k]
    BY <1>1, <1>2, <1>4 DEF Inductive, TypeOK
  <2>2. ~Busy[m] /\ Busy'[m] /\ \A k \in Machines : k # m => Busy'[k] = Busy[k]
    <3>1. ~Busy[m]
      BY <1>1, <1>4, BusyFacts
    <3>2. Busy'[m]
      <4>1. sendPending'[m] # 0
        BY <2>1
      <4> QED
        BY <1>1, <4>1, BusyFacts, Zenon
    <3>3. ASSUME NEW k \in Machines, k # m PROVE Busy'[k] = Busy[k]
      BY <2>1, <3>3, BusyFacts, Zenon
    <3> QED
      BY <3>1, <3>2, <3>3
  <2> QED
    BY <1>1, <2>2, OneDeviceMoves
<1> QED
  BY <1>7, <1>8, <1>9, CallSteps DEF m

(* That the semaphore's P returns is not seen by the callers. *)
LEMMA SentGrantedCalls ==
    ASSUME Inductive, NEW m \in Machines, SentGranted(m)
    PROVE  UNCHANGED Network!vars
<1>1. PICK t \in Clients : Woken(t, messageSent(m), "sending", "sent")
  BY DEF SentGranted
<1>2. t \in Threads /\ messageSent(m) \in Semaphores /\ "sending" \in Places /\ "sent" \in Places
  BY ClientFacts, SemaphoreNames DEF Places
<1>3. /\ t \in inP[messageSent(m)] /\ count[messageSent(m)] > 0
      /\ at[t] = "sending"
      /\ count' = [count EXCEPT ![messageSent(m)] = @ - 1]
      /\ at' = [at EXCEPT ![t] = "sent"]
      /\ sendPending' = sendPending
  BY <1>1, <1>2, WokenFacts DEF Inductive, outputVars
<1>4. MachineOf[t] = m
  BY <1>2, <1>3, ClientFacts DEF Inductive, WaitInv, Home, messageSent
<1>5. ASSUME NEW u \in Clients, u # t, HasLock(u)
      PROVE  count'[messageSent(MachineOf[u])] = count[messageSent(MachineOf[u])]
  <2>1. MachineOf[u] # m /\ MachineOf[u] \in Machines
    BY <1>3, <1>4, <1>5, ClientFacts DEF Inductive, LockInv, HasLock
  <2> QED
    BY <1>2, <1>3, <2>1, SemaphoreNames DEF Inductive, TypeOK, Sem!TypeOK
<1>6. at'[t] = "sent"
  BY <1>2, <1>3 DEF Inductive, TypeOK
<1>7. Stage(t) = "answered" /\ Stage(t)' = "answered"
  BY <1>3, <1>4, <1>6, StageFacts, NextStageFacts
<1>8. Calls' = [Calls EXCEPT ![t] = "answered"]
  BY <1>3, <1>5, <1>7, OneCallMoves
<1>9. Calls' = Calls
  BY <1>7, <1>8 DEF Calls
<1> QED
  BY <1>3, <1>9 DEF Calls, Network!vars

(* The thread that has been woken returns. *)
LEMMA SendDoneCalls ==
    ASSUME Inductive, NEW t \in Clients, SendDone(t)
    PROVE  Network!Next
<1> DEFINE m == MachineOf[t]
<1>1. t \in Threads /\ m \in Machines /\ sendLock(m) \in Semaphores
  BY ClientFacts, SemaphoreNames
<1>2. /\ at[t] = "sent" /\ at' = [at EXCEPT ![t] = "out"]
      /\ count' = [count EXCEPT ![sendLock(m)] = @ + 1] /\ Busy' = Busy
  BY <1>1, ReleaseFacts DEF Inductive, SendDone, GoTo, outputVars, Busy
<1>3. \A k \in Machines : count'[messageSent(k)] = count[messageSent(k)]
  BY <1>1, <1>2, SentSemaphoresStay, SemaphoreNames DEF Inductive
<1>4. \A u \in Clients : count'[messageSent(MachineOf[u])] = count[messageSent(MachineOf[u])]
  BY <1>3, ClientFacts
<1>5. at'[t] = "out"
  BY <1>1, <1>2 DEF Inductive, TypeOK
<1>6. Calls' = [Calls EXCEPT ![t] = "out"]
  BY <1>2, <1>4, <1>5, NextStageFacts, OneCallMoves
<1> QED
  BY <1>2, <1>6, StageFacts, CallSteps

(* The interrupt answers the one thread whose packet was handed over. *)
LEMMA SendInterruptCalls ==
    ASSUME Inductive, NEW m \in Machines, SendInterrupt(m)
    PROVE  Network!Next
<1>1. sendPending[m] > 0 /\ sendPending' = [sendPending EXCEPT ![m] = @ - 1] /\ at' = at
  BY DEF SendInterrupt
<1>2. messageSent(m) \in Semaphores /\ count' = [count EXCEPT ![messageSent(m)] = @ + 1]
  BY SemaphoreNames, ReleaseFacts DEF SendInterrupt, Inductive
<1>3. sendPending[m] \in Nat /\ count[messageSent(m)] \in Nat
  BY <1>2 DEF Inductive, TypeOK, Sem!TypeOK
<1>4. sendPending[m] = 1 /\ count[messageSent(m)] = 0 /\ NetworkBusy(m)
  BY <1>1, <1>3 DEF Inductive, DeviceInv
<1>5. PICK t \in Clients : MachineOf[t] = m /\ at[t] = "sending"
  BY <1>4 DEF NetworkBusy
<1>6. count'[messageSent(m)] = 1
  BY <1>2, <1>4 DEF Inductive, TypeOK, Sem!TypeOK
<1>7. Stage(t) = "served" /\ Stage(t)' = "answered"
  BY <1>1, <1>4, <1>5, <1>6, StageFacts, NextStageFacts
<1>8. ASSUME NEW u \in Clients, u # t, HasLock(u)
      PROVE  count'[messageSent(MachineOf[u])] = count[messageSent(MachineOf[u])]
  <2>1. MachineOf[u] # m /\ MachineOf[u] \in Machines
    BY <1>5, <1>8, ClientFacts DEF Inductive, LockInv, HasLock
  <2> QED
    BY <1>2, <2>1, SemaphoreNames DEF Inductive, TypeOK, Sem!TypeOK
<1>9. at' = [at EXCEPT ![t] = "sending"]
  BY <1>1, <1>5, ClientFacts DEF Inductive, TypeOK
<1>10. Calls' = [Calls EXCEPT ![t] = "answered"]
  BY <1>7, <1>8, <1>9, OneCallMoves
<1>11. Busy[m] /\ Busy' = [Busy EXCEPT ![m] = FALSE]
  <2>1. sendPending'[m] = 0 /\ \A k \in Machines : k # m => sendPending'[k] = sendPending[k]
    BY <1>1, <1>4 DEF Inductive, TypeOK
  <2>2. Busy[m] /\ ~Busy'[m] /\ \A k \in Machines : k # m => Busy'[k] = Busy[k]
    <3>1. Busy[m]
      <4>1. sendPending[m] # 0
        BY <1>4
      <4> QED
        BY <4>1, BusyFacts, Zenon
    <3>2. ~Busy'[m]
      BY <2>1, BusyFacts
    <3>3. ASSUME NEW k \in Machines, k # m PROVE Busy'[k] = Busy[k]
      BY <2>1, <3>3, BusyFacts, Zenon
    <3> QED
      BY <3>1, <3>2, <3>3
  <2> QED
    BY <2>2, OneDeviceMoves
<1> QED
  BY <1>5, <1>7, <1>10, <1>11, CallSteps

(* What the workers and the input devices do is not seen by the senders. *)
LEMMA InputCalls ==
    ASSUME Inductive, NEW m \in Machines,
           WorkerWoken(m) \/ PacketArrives(m) \/ WorkerWaits(m) \/ WorkerReceives(m) \/ WorkerPuts(m)
    PROVE  UNCHANGED Network!vars
<1> DEFINE s == messageAvailable(m)
<1>1. /\ s \in Semaphores /\ \A k \in Machines : s # messageSent(k)
      /\ m \in Threads
      /\ "waiting" \in Places /\ "available" \in Places
  BY SemaphoreNames, ClientFacts DEF Places, Threads
<1>2. /\ sendPending' = sendPending
      /\ \/ count' = count
         \/ count' = [count EXCEPT ![s] = @ + 1]
         \/ count' = [count EXCEPT ![s] = @ - 1]
      /\ \A t \in Clients : at'[t] = at[t]
  <2>1. CASE WorkerWoken(m)
    <3>1. /\ count' = [count EXCEPT ![s] = @ - 1]
          /\ at' = [at EXCEPT ![m] = "available"]
          /\ sendPending' = sendPending
      BY <1>1, <2>1, WokenFacts DEF Inductive, WorkerWoken, outputVars
    <3> QED
      BY <1>1, <3>1, ClientFacts DEF Inductive, TypeOK
  <2>2. CASE PacketArrives(m)
    BY <1>1, <2>2, ReleaseFacts DEF Inductive, PacketArrives
  <2>3. CASE WorkerWaits(m)
    <3>1. /\ count' = count \/ count' = [count EXCEPT ![s] = @ - 1]
          /\ at' = [at EXCEPT ![m] = "available"] \/ at' = [at EXCEPT ![m] = "waiting"]
          /\ sendPending' = sendPending
      BY <1>1, <2>3, PFacts DEF Inductive, WorkerWaits, outputVars
    <3> QED
      BY <1>1, <3>1, ClientFacts DEF Inductive, TypeOK
  <2>4. CASE WorkerReceives(m) \/ WorkerPuts(m)
    <3>1. /\ count' = count
          /\ at' = [at EXCEPT ![m] = "put"] \/ at' = [at EXCEPT ![m] = "idle"]
          /\ sendPending' = sendPending
      BY <2>4 DEF WorkerReceives, WorkerPuts, outputVars, GoTo
    <3> QED
      BY <1>1, <3>1, ClientFacts DEF Inductive, TypeOK
  <2> QED
    BY <2>1, <2>2, <2>3, <2>4
<1> HIDE DEF s
<1>3. \A k \in Machines : count'[messageSent(k)] = count[messageSent(k)]
  BY <1>1, <1>2, SentSemaphoresStay DEF Inductive
<1> QED
  BY <1>2, <1>3, CallsStay

\* The post offices implement SynchronousDevice on every machine: each Send
\* has its machine's network to itself and returns after the interrupt for its
\* own packet, whether the network lost it or not.
THEOREM PostOfficesRefineDevice ==
    SafetySpec => ImplementsSynchronousDevice
<1>1. Init => Network!Init
  <2> SUFFICES ASSUME Init PROVE Network!Init
    OBVIOUS
  <2>1. \A t \in Clients : Stage(t) = "out"
    BY ClientFacts, StageFacts DEF Init
  <2>2. \A m \in Machines : ~(sendPending[m] # 0)
    BY DEF Init
  <2> QED
    BY <2>1, <2>2 DEF Network!Init
<1>2. Inductive /\ [Next]_vars => [Network!Next]_(Network!vars)
  <2> SUFFICES ASSUME Inductive, [Next]_vars PROVE Network!Next \/ UNCHANGED Network!vars
    OBVIOUS
  <2>1. ASSUME NEW t \in Senders, CallSend(t) \/ NetworkSend(t) \/ SendDone(t)
        PROVE  Network!Next
    BY <2>1, PostOfficeAssumption, CallSendCalls, NetworkSendCalls, SendDoneCalls DEF PostOfficeAssumption
  <2>2. CASE UNCHANGED vars \/ \E t \in Clients, b \in Boxes : Receive(t, b)
    <3>1. at' = at /\ count' = count /\ sendPending' = sendPending
      BY <2>2 DEF vars, outputVars, Receive
    <3> QED
      BY <3>1, CallsStay
  <2> QED
    BY <2>1, <2>2, LockGrantedCalls, SentGrantedCalls, SendInterruptCalls, InputCalls DEF Next
<1> QED
  BY InductiveInvariant, <1>1, <1>2, PTL DEF SafetySpec, ImplementsSynchronousDevice, Network!Spec

-----------------------------------------------------------------------------
(***************************************************************************)
(* Freedom from deadlock, for each machine's senders and for its worker,   *)
(* with the steps that go on given by their guards.                        *)
(***************************************************************************)

WaitingPlaces == {"acquire", "sending", "waiting"}

\* Where a thread is that waits in P of semaphore s.
WaitingPlace(s) ==
    CASE s.name = "sendLock" -> "acquire"
      [] s.name = "messageSent" -> "sending"
      [] s.name = "messageAvailable" -> "waiting"

\* A thread is inside a semaphore exactly while its place says so.
InsideInv == \A t \in Threads, s \in Semaphores :
    t \in inP[s] <=> Home(t) = s.of /\ at[t] = WaitingPlace(s)

OutsideP(t) == \A s \in Semaphores : t \notin inP[s]

\* Thread t is in P of semaphore s, which has a unit for it.
CanReturn(t, s) == t \in inP[s] /\ at[t] = WaitingPlace(s) /\ count[s] > 0

NoSenderIsStuck == \A m \in Machines :
    (\E t \in Clients : MachineOf[t] = m /\ InSend(t)) =>
        \/ \E t \in Clients : /\ MachineOf[t] = m /\ at[t] \in {"holding", "sent"}
                              /\ OutsideP(t)
        \/ \E t \in Clients : CanReturn(t, sendLock(m)) \/ CanReturn(t, messageSent(m))
        \/ sendPending[m] > 0

NoPacketIsStuck == \A m \in Machines :
    Arriving(m) # <<>> =>
        \/ at[m] \in {"idle", "available", "put"} /\ OutsideP(m)
        \/ CanReturn(m, messageAvailable(m))
        \/ inbox[m] = NULL /\ socket[m] # <<>>

(* A machine's semaphores are told apart by where their threads wait. *)
LEMMA WaitingPlaceFacts ==
    /\ \A s \in Semaphores : WaitingPlace(s) \in WaitingPlaces
    /\ \A s, r \in Semaphores : s.of = r.of /\ WaitingPlace(s) = WaitingPlace(r) => s = r
    /\ \A m \in Machines : /\ WaitingPlace(sendLock(m)) = "acquire"
                           /\ WaitingPlace(messageSent(m)) = "sending"
                           /\ WaitingPlace(messageAvailable(m)) = "waiting"
                           /\ sendLock(m).of = m /\ messageSent(m).of = m
                           /\ messageAvailable(m).of = m
<1>1. \A s \in Semaphores : WaitingPlace(s) \in WaitingPlaces
  BY DEF Semaphores, WaitingPlace, WaitingPlaces
<1>2. ASSUME NEW s \in Semaphores, NEW r \in Semaphores,
             s.of = r.of, WaitingPlace(s) = WaitingPlace(r)
      PROVE  s = r
  <2>1. s.name = r.name
    BY <1>2 DEF Semaphores, WaitingPlace
  <2> QED
    BY <1>2, <2>1 DEF Semaphores
<1>3. \A m \in Machines : /\ WaitingPlace(sendLock(m)) = "acquire"
                          /\ WaitingPlace(messageSent(m)) = "sending"
                          /\ WaitingPlace(messageAvailable(m)) = "waiting"
                          /\ sendLock(m).of = m /\ messageSent(m).of = m
                          /\ messageAvailable(m).of = m
  BY DEF WaitingPlace, sendLock, messageSent, messageAvailable
<1> QED
  BY <1>1, <1>2, <1>3

(* Whoever is at no waiting place is in no semaphore. *)
LEMMA OutsideFacts ==
    ASSUME InsideInv, NEW t \in Threads, at[t] \notin WaitingPlaces
    PROVE  OutsideP(t)
  BY WaitingPlaceFacts DEF InsideInv, OutsideP

(* A P that takes its unit at once, or starts to wait. *)
LEMMA EnteringP ==
    ASSUME TypeOK, InsideInv, NEW t \in Threads, NEW s \in Semaphores, Home(t) = s.of,
           at[t] \notin WaitingPlaces, NEW waiting, waiting = WaitingPlace(s),
           NEW done, done \notin WaitingPlaces, P(t, s, waiting, done)
    PROVE  InsideInv'
<1> SUFFICES ASSUME NEW u \in Threads, NEW r \in Semaphores
             PROVE  u \in inP'[r] <=> Home(u) = r.of /\ at'[u] = WaitingPlace(r)
  BY DEF InsideInv, Home, WaitingPlace
<1>1. OutsideP(t)
  BY OutsideFacts
<1>2. WaitingPlace(r) \in WaitingPlaces
  BY WaitingPlaceFacts
<1>3. u \in inP[r] <=> Home(u) = r.of /\ at[u] = WaitingPlace(r)
  BY DEF InsideInv
<1>4. CASE Sem!TakeAtOnce(t, s) /\ GoTo(t, done)
  <2>1. inP' = inP /\ at' = [at EXCEPT ![t] = done]
    BY <1>4 DEF Sem!TakeAtOnce, GoTo
  <2> QED
    BY <1>1, <1>2, <1>3, <2>1 DEF OutsideP, TypeOK
<1>5. CASE Sem!StartWaiting(t, s) /\ GoTo(t, waiting)
  <2>1. inP' = [inP EXCEPT ![s] = @ \cup {t}] /\ at' = [at EXCEPT ![t] = waiting]
    BY <1>5 DEF Sem!StartWaiting, GoTo
  <2>2. CASE u = t
    <3>1. at'[u] = WaitingPlace(s) /\ (u \in inP'[r] <=> r = s)
      BY <1>1, <2>1, <2>2 DEF OutsideP, TypeOK, Sem!TypeOK
    <3> QED
      BY <2>2, <3>1, WaitingPlaceFacts
  <2>3. CASE u # t
    <3>1. at'[u] = at[u] /\ (u \in inP'[r] <=> u \in inP[r])
      BY <2>1, <2>3 DEF TypeOK, Sem!TypeOK
    <3> QED
      BY <1>3, <3>1
  <2> QED
    BY <2>2, <2>3
<1> QED
  BY <1>4, <1>5 DEF P

(* A P that returns from waiting. *)
LEMMA LeavingP ==
    ASSUME TypeOK, InsideInv, NEW t \in Threads, NEW s \in Semaphores,
           NEW waiting, waiting = WaitingPlace(s),
           NEW done, done \notin WaitingPlaces, Woken(t, s, waiting, done)
    PROVE  InsideInv'
<1> SUFFICES ASSUME NEW u \in Threads, NEW r \in Semaphores
             PROVE  u \in inP'[r] <=> Home(u) = r.of /\ at'[u] = WaitingPlace(r)
  BY DEF InsideInv, Home, WaitingPlace
<1>1. /\ t \in inP[s] /\ at[t] = WaitingPlace(s)
      /\ inP' = [inP EXCEPT ![s] = @ \ {t}] /\ at' = [at EXCEPT ![t] = done]
  BY DEF Woken, Sem!TakeAfterWaiting, GoTo
<1>2. WaitingPlace(r) \in WaitingPlaces
  BY WaitingPlaceFacts
<1>3. u \in inP[r] <=> Home(u) = r.of /\ at[u] = WaitingPlace(r)
  BY DEF InsideInv
<1>4. CASE u = t
  <2>1. u \in inP[r] => r = s
    BY <1>1, <1>3, <1>4, WaitingPlaceFacts DEF InsideInv
  <2>2. u \notin inP'[r]
    BY <1>1, <1>4, <2>1 DEF TypeOK, Sem!TypeOK
  <2>3. at'[u] # WaitingPlace(r)
    BY <1>1, <1>2, <1>4 DEF TypeOK
  <2> QED
    BY <2>2, <2>3
<1>5. CASE u # t
  <2>1. at'[u] = at[u] /\ (u \in inP'[r] <=> u \in inP[r])
    BY <1>1, <1>5 DEF TypeOK, Sem!TypeOK
  <2> QED
    BY <1>3, <2>1
<1> QED
  BY <1>4, <1>5

(* A step outside the semaphores. *)
LEMMA MovingOutside ==
    ASSUME TypeOK, InsideInv, inP' = inP, NEW t \in Threads, NEW place,
           at[t] \notin WaitingPlaces, place \notin WaitingPlaces,
           at' = [at EXCEPT ![t] = place]
    PROVE  InsideInv'
<1> SUFFICES ASSUME NEW u \in Threads, NEW r \in Semaphores
             PROVE  u \in inP'[r] <=> Home(u) = r.of /\ at'[u] = WaitingPlace(r)
  BY DEF InsideInv, Home, WaitingPlace
<1>1. WaitingPlace(r) \in WaitingPlaces
  BY WaitingPlaceFacts
<1>2. u \in inP[r] <=> Home(u) = r.of /\ at[u] = WaitingPlace(r)
  BY DEF InsideInv
<1>3. CASE u = t
  BY <1>1, <1>2, <1>3 DEF TypeOK
<1>4. CASE u # t
  BY <1>2, <1>4 DEF TypeOK
<1> QED
  BY <1>3, <1>4

(* A step that moves nobody. *)
LEMMA StandingStill ==
    ASSUME InsideInv, inP' = inP, at' = at
    PROVE  InsideInv'
  BY DEF InsideInv, Home, WaitingPlace

(* A machine's worker and its semaphores are at home there, its clients too. *)
LEMMA HomeFacts ==
    /\ \A t \in Clients : t \in Threads /\ Home(t) = MachineOf[t] /\ MachineOf[t] \in Machines
    /\ \A m \in Machines : m \in Threads /\ Home(m) = m
  BY ClientFacts DEF Home, Threads

(* What the clients do. *)
LEMMA ClientsEnterAndLeave ==
    ASSUME Inductive, InsideInv, NEW t \in Clients,
           CallSend(t) \/ NetworkSend(t) \/ SendDone(t)
    PROVE  InsideInv'
<1> DEFINE m == MachineOf[t]
<1>1. /\ TypeOK /\ t \in Threads /\ m \in Machines /\ Home(t) = m
      /\ sendLock(m) \in Semaphores /\ messageSent(m) \in Semaphores
  BY HomeFacts, SemaphoreNames DEF Inductive
<1>2. CASE CallSend(t)
  <2>1. at[t] = "out" /\ P(t, sendLock(m), "acquire", "holding")
    BY <1>2 DEF CallSend
  <2>2. Home(t) = sendLock(m).of /\ "acquire" = WaitingPlace(sendLock(m))
    BY <1>1, WaitingPlaceFacts
  <2>3. at[t] \notin WaitingPlaces /\ "holding" \notin WaitingPlaces
    BY <2>1 DEF WaitingPlaces
  <2> HIDE DEF m
  <2> QED
    BY <1>1, <2>1, <2>2, <2>3, EnteringP
<1>3. CASE NetworkSend(t)
  <2>1. at[t] = "holding" /\ P(t, messageSent(m), "sending", "sent")
    BY <1>3 DEF NetworkSend
  <2>2. Home(t) = messageSent(m).of /\ "sending" = WaitingPlace(messageSent(m))
    BY <1>1, WaitingPlaceFacts
  <2>3. at[t] \notin WaitingPlaces /\ "sent" \notin WaitingPlaces
    BY <2>1 DEF WaitingPlaces
  <2> HIDE DEF m
  <2> QED
    BY <1>1, <2>1, <2>2, <2>3, EnteringP
<1>4. CASE SendDone(t)
  <2>1. at[t] = "sent" /\ at' = [at EXCEPT ![t] = "out"] /\ inP' = inP
    BY <1>4 DEF SendDone, GoTo, Sem!Release
  <2>2. at[t] \notin WaitingPlaces /\ "out" \notin WaitingPlaces
    BY <2>1 DEF WaitingPlaces
  <2> QED
    BY <1>1, <2>1, <2>2, MovingOutside
<1> QED
  BY <1>2, <1>3, <1>4

(* What a machine's interrupts and worker do, and the semaphores' returns. *)
LEMMA MachinesEnterAndLeave ==
    ASSUME Inductive, InsideInv, NEW m \in Machines,
           \/ LockGranted(m) \/ SentGranted(m) \/ WorkerWoken(m)
           \/ SendInterrupt(m) \/ PacketArrives(m)
           \/ WorkerWaits(m) \/ WorkerReceives(m) \/ WorkerPuts(m)
    PROVE  InsideInv'
<1>1. /\ TypeOK /\ m \in Threads /\ Home(m) = m
      /\ sendLock(m) \in Semaphores /\ messageSent(m) \in Semaphores
      /\ messageAvailable(m) \in Semaphores
  BY HomeFacts, SemaphoreNames DEF Inductive
<1>2. \A place \in {"out", "holding", "sent", "idle", "available", "put"} :
          place \notin WaitingPlaces
  BY DEF WaitingPlaces
<1>3. CASE LockGranted(m)
  <2>1. PICK t \in Clients : Woken(t, sendLock(m), "acquire", "holding")
    BY <1>3 DEF LockGranted
  <2>2. "acquire" = WaitingPlace(sendLock(m)) /\ "holding" \notin WaitingPlaces /\ t \in Threads
    BY <1>2, WaitingPlaceFacts, HomeFacts
  <2> QED
    BY <1>1, <2>1, <2>2, LeavingP
<1>4. CASE SentGranted(m)
  <2>1. PICK t \in Clients : Woken(t, messageSent(m), "sending", "sent")
    BY <1>4 DEF SentGranted
  <2>2. "sending" = WaitingPlace(messageSent(m)) /\ "sent" \notin WaitingPlaces /\ t \in Threads
    BY <1>2, WaitingPlaceFacts, HomeFacts
  <2> QED
    BY <1>1, <2>1, <2>2, LeavingP
<1>5. CASE WorkerWoken(m)
  <2>1. "waiting" = WaitingPlace(messageAvailable(m)) /\ "available" \notin WaitingPlaces
    BY <1>2, WaitingPlaceFacts
  <2>2. Woken(m, messageAvailable(m), "waiting", "available")
    BY <1>5 DEF WorkerWoken
  <2> QED
    BY <1>1, <2>1, <2>2, LeavingP
<1>6. CASE WorkerWaits(m)
  <2>1. at[m] = "idle" /\ P(m, messageAvailable(m), "waiting", "available")
    BY <1>6 DEF WorkerWaits
  <2>2. /\ Home(m) = messageAvailable(m).of /\ "waiting" = WaitingPlace(messageAvailable(m))
        /\ at[m] \notin WaitingPlaces /\ "available" \notin WaitingPlaces
    BY <1>1, <1>2, <2>1, WaitingPlaceFacts
  <2> QED
    BY <1>1, <2>1, <2>2, EnteringP
<1>7. CASE WorkerReceives(m)
  <2>1. at[m] = "available" /\ at' = [at EXCEPT ![m] = "put"] /\ inP' = inP
    BY <1>7 DEF WorkerReceives, GoTo
  <2>2. at[m] \notin WaitingPlaces /\ "put" \notin WaitingPlaces
    BY <1>2, <2>1
  <2> QED
    BY <1>1, <2>1, <2>2, MovingOutside
<1>8. CASE WorkerPuts(m)
  <2>1. at[m] = "put" /\ at' = [at EXCEPT ![m] = "idle"] /\ inP' = inP
    BY <1>8 DEF WorkerPuts, GoTo
  <2>2. at[m] \notin WaitingPlaces /\ "idle" \notin WaitingPlaces
    BY <1>2, <2>1
  <2> QED
    BY <1>1, <2>1, <2>2, MovingOutside
<1>9. CASE SendInterrupt(m) \/ PacketArrives(m)
  BY <1>9, StandingStill DEF SendInterrupt, PacketArrives, Sem!Release
<1> QED
  BY <1>3, <1>4, <1>5, <1>6, <1>7, <1>8, <1>9

LEMMA InsideInvariant ==
    SafetySpec => []InsideInv
<1>1. Init => InsideInv
  <2> SUFFICES ASSUME Init, NEW t \in Threads, NEW s \in Semaphores
               PROVE  t \notin inP[s] /\ at[t] # WaitingPlace(s)
    BY DEF InsideInv
  <2>1. at[t] \in {"idle", "out"} /\ inP[s] = {}
    BY DEF Init, Sem!Init
  <2>2. at[t] \notin WaitingPlaces
    BY <2>1 DEF WaitingPlaces
  <2> QED
    BY <2>1, <2>2, WaitingPlaceFacts
<1>2. Inductive /\ InsideInv /\ [Next]_vars => InsideInv'
  <2> SUFFICES ASSUME Inductive, InsideInv, [Next]_vars PROVE InsideInv'
    OBVIOUS
  <2>1. ASSUME NEW t \in Clients, NEW b \in Boxes, Receive(t, b) PROVE InsideInv'
    BY <2>1, StandingStill DEF Receive
  <2>2. CASE UNCHANGED vars
    BY <2>2, StandingStill DEF vars
  <2>3. Senders \subseteq Clients
    BY PostOfficeAssumption DEF PostOfficeAssumption
  <2> QED
    BY <2>1, <2>2, <2>3, ClientsEnterAndLeave, MachinesEnterAndLeave DEF Next
<1> QED
  BY InductiveInvariant, <1>1, <1>2, PTL DEF SafetySpec

\* While a thread of a machine is in Send, one of that machine's threads can
\* go on, with a unit for its P if it waits, or the network's interrupt is
\* pending, whether or not the packet was lost (PostOfficeOutput::Send).
THEOREM SendersGoOn ==
    SafetySpec => []NoSenderIsStuck
<1>1. Inductive /\ InsideInv => NoSenderIsStuck
  <2> SUFFICES ASSUME Inductive, InsideInv, NEW m \in Machines,
                      NEW t \in Clients, MachineOf[t] = m, InSend(t)
               PROVE  \/ \E u \in Clients : /\ MachineOf[u] = m /\ at[u] \in {"holding", "sent"}
                                            /\ OutsideP(u)
                      \/ \E u \in Clients : \/ CanReturn(u, sendLock(m))
                                            \/ CanReturn(u, messageSent(m))
                      \/ sendPending[m] > 0
    BY DEF NoSenderIsStuck
  <2>1. CASE NetworkBusy(m)
    <3>1. PICK u \in Clients : MachineOf[u] = m /\ at[u] = "sending"
      BY <2>1 DEF NetworkBusy
    <3>2. u \in inP[messageSent(m)] /\ WaitingPlace(messageSent(m)) = "sending"
      BY <3>1, HomeFacts, SemaphoreNames, WaitingPlaceFacts DEF InsideInv
    <3>3. sendPending[m] + count[messageSent(m)] = 1
      BY <2>1 DEF Inductive, DeviceInv
    <3>4. sendPending[m] \in Nat /\ count[messageSent(m)] \in Nat
      BY SemaphoreNames DEF Inductive, TypeOK, Sem!TypeOK
    <3>5. sendPending[m] > 0 \/ count[messageSent(m)] > 0
      BY <3>3, <3>4
    <3> QED
      BY <3>1, <3>2, <3>5 DEF CanReturn
  <2>2. CASE \E u \in Clients : MachineOf[u] = m /\ at[u] \in {"holding", "sent"}
    <3>1. PICK u \in Clients : MachineOf[u] = m /\ at[u] \in {"holding", "sent"}
      BY <2>2
    <3>2. u \in Threads /\ at[u] \notin WaitingPlaces
      BY <3>1, HomeFacts DEF WaitingPlaces
    <3> QED
      BY <3>1, <3>2, OutsideFacts
  <2>3. CASE ~ \E u \in Clients : MachineOf[u] = m /\ HasLock(u)
    <3>1. count[sendLock(m)] = 1
      BY <2>3 DEF Inductive, LockInv
    <3>2. at[t] = "acquire"
      BY <2>3 DEF InSend
    <3>3. t \in inP[sendLock(m)] /\ WaitingPlace(sendLock(m)) = "acquire"
      BY <3>2, HomeFacts, SemaphoreNames, WaitingPlaceFacts DEF InsideInv
    <3> QED
      BY <3>1, <3>2, <3>3 DEF CanReturn
  <2> QED
    BY <2>1, <2>2, <2>3 DEF HasLock, NetworkBusy
<1> QED
  BY InductiveInvariant, InsideInvariant, <1>1, PTL

\* While a packet has been carried to a machine and not been put into its box,
\* the worker is on its way to it, or has a unit for its P, or the input
\* device finds its buffer free (PostalDelivery against NetworkInput).
THEOREM PacketsGoOn ==
    SafetySpec => []NoPacketIsStuck
<1>1. Inductive /\ InsideInv => NoPacketIsStuck
  <2> SUFFICES ASSUME Inductive, InsideInv, NEW m \in Machines, Arriving(m) # <<>>
               PROVE  \/ at[m] \in {"idle", "available", "put"} /\ OutsideP(m)
                      \/ CanReturn(m, messageAvailable(m))
                      \/ inbox[m] = NULL /\ socket[m] # <<>>
    BY DEF NoPacketIsStuck
  <2>1. m \in Threads /\ messageAvailable(m) \in Semaphores
    BY HomeFacts, SemaphoreNames
  <2>2. CASE at[m] \in {"idle", "available", "put"}
    <3>1. at[m] \notin WaitingPlaces
      BY <2>2 DEF WaitingPlaces
    <3> QED
      BY <2>1, <2>2, <3>1, OutsideFacts
  <2>3. CASE at[m] = "waiting"
    <3>1. m \in inP[messageAvailable(m)] /\ WaitingPlace(messageAvailable(m)) = "waiting"
      BY <2>1, <2>3, HomeFacts, WaitingPlaceFacts DEF InsideInv
    <3>2. CASE inbox[m] # NULL
      <4>1. count[messageAvailable(m)] = 1
        BY <2>3, <3>2 DEF Inductive, WorkerInv
      <4> QED
        BY <2>3, <3>1, <4>1 DEF CanReturn
    <3>3. CASE inbox[m] = NULL
      <4>1. mail[m] = NULL
        BY <2>3 DEF Inductive, WorkerInv
      <4>2. Arriving(m) = <<>> \o <<>> \o socket[m]
        BY <3>3, <4>1 DEF Arriving, SomeMessage
      <4>3. socket[m] # <<>>
        BY <4>2
      <4> QED
        BY <3>3, <4>3
    <3> QED
      BY <3>2, <3>3
  <2>4. at[m] \in {"idle", "waiting", "available", "put"}
    BY DEF Inductive, PlaceInv
  <2> QED
    BY <2>2, <2>3, <2>4
<1> QED
  BY InductiveInvariant, InsideInvariant, <1>1, PTL

=============================================================================
