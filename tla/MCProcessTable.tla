--------------------------- MODULE MCProcessTable ---------------------------
(***************************************************************************)
(* Small instances of ProcessTable for TLC.                                *)
(***************************************************************************)
EXTENDS ProcessTable

CONSTANTS shell, child

\* Thread 1 gets slot 0, thread 2 slot 1, thread 3 slot 2 and thread 4 slot 1
\* again when it is free.
PidsByLuck == {[t \in 0..MaxExecs |-> CASE t \in {0, 1} -> 0 [] t \in {2, 4} -> 1 [] OTHER -> 2]}

\* Everybody but the first thread is taken for the process of slot 1.
PidsOfOne == {[t \in 0..MaxExecs |-> IF t = 0 THEN 0 ELSE 1]}

PidsOfTwo == PidsByLuck \cup PidsOfOne

=============================================================================
