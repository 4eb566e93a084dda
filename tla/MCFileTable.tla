---------------------------- MODULE MCFileTable -----------------------------
(***************************************************************************)
(* A small instance of FileTable for TLC.                                  *)
(***************************************************************************)
EXTENDS FileTable

CONSTANTS a, f1, f2

\* The id of a file is an index of the table for one descriptor, and beyond
\* the end for the others.
FewDescriptors == 2..4

Sunk == -1

=============================================================================
