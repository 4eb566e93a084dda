----------------------------- MODULE LossyMail -----------------------------
(***************************************************************************)
(* What the post offices (network/post.h) promise together: each mailbox   *)
(* is a queue.  A message that is sent goes to the end of the queue it is  *)
(* for, once, or is lost, which changes nothing here; a thread that        *)
(* receives takes the first one.                                           *)
(***************************************************************************)
EXTENDS Sequences

CONSTANTS Mailboxes, Messages

VARIABLES
    carried,    \* the messages that were sent and not lost
    queue       \* queue[a]: those for mailbox a that nobody has received yet

vars == <<carried, queue>>

Init ==
    /\ carried = {}
    /\ queue = [a \in Mailboxes |-> <<>>]

Send(a, n) ==
    /\ n \notin carried
    /\ carried' = carried \cup {n}
    /\ queue' = [queue EXCEPT ![a] = Append(@, n)]

Receive(a) ==
    /\ queue[a] # <<>>
    /\ queue' = [queue EXCEPT ![a] = Tail(@)]
    /\ UNCHANGED carried

Next == \E a \in Mailboxes : Receive(a) \/ \E n \in Messages : Send(a, n)

Spec == Init /\ [][Next]_vars

=============================================================================
