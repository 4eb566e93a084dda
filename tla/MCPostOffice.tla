---------------------------- MODULE MCPostOffice ----------------------------
(***************************************************************************)
(* A small instance of PostOffice for TLC.                                 *)
(***************************************************************************)
EXTENDS PostOffice, TLC

CONSTANTS t1, t2, t3, m1, m2

TwoHereOneThere == (t1 :> m1) @@ (t2 :> m1) @@ (t3 :> m2)

TwoBoxesThere == [to : {m2}, box : Boxes]

=============================================================================
