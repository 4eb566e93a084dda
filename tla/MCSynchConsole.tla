--------------------------- MODULE MCSynchConsole ---------------------------
(***************************************************************************)
(* Small instances of SynchConsole for TLC.                                *)
(***************************************************************************)
EXTENDS SynchConsole

CONSTANTS t1, t2, t3

=============================================================================
