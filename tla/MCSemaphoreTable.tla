-------------------------- MODULE MCSemaphoreTable --------------------------
(***************************************************************************)
(* A small instance of SemaphoreTable for TLC.                             *)
(***************************************************************************)
EXTENDS SemaphoreTable

CONSTANTS t1, t2, full, empty

\* A program that miscounts asks for a negative value.
SmallValues == -1..1

Lowest == -2

=============================================================================
