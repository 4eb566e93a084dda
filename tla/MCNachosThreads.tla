-------------------------- MODULE MCNachosThreads --------------------------
(***************************************************************************)
(* Small instances of NachosThreads for TLC.                               *)
(***************************************************************************)
EXTENDS NachosThreads, TLC

CONSTANTS t1, t2, t3, disk

AllZero == [s \in Semaphores |-> 0]

=============================================================================
