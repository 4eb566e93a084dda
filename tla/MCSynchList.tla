---------------------------- MODULE MCSynchList ----------------------------
(***************************************************************************)
(* Small instances of SynchList for TLC.                                   *)
(***************************************************************************)
EXTENDS SynchList

CONSTANTS t1, t2, t3, t4

=============================================================================
