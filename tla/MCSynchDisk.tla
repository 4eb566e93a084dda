---------------------------- MODULE MCSynchDisk ----------------------------
(***************************************************************************)
(* A small instance of SynchDisk for TLC.                                  *)
(***************************************************************************)
EXTENDS SynchDisk

CONSTANTS t1, t2, t3

=============================================================================
