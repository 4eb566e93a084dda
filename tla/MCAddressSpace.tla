--------------------------- MODULE MCAddressSpace ---------------------------
(***************************************************************************)
(* A small instance of AddressSpace for TLC.                               *)
(***************************************************************************)
EXTENDS AddressSpace

CONSTANTS main, a, b

\* Three pages, four, and more than the memory has; and three pages for a file of
\* five, whose initialized data go to the second frame after those of the program.
MixedPrograms == {
    [code |-> 1, readonlyData |-> 0, initData |-> 1, uninitData |-> 0],
    [code |-> 1, readonlyData |-> 1, initData |-> 1, uninitData |-> 1],
    [code |-> 1, readonlyData |-> 3, initData |-> 1, uninitData |-> 0],
    [code |-> 9, readonlyData |-> 0, initData |-> 0, uninitData |-> 0]}

=============================================================================
