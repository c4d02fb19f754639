--------------------------- MODULE MCThreadQueue ---------------------------
(***************************************************************************)
(* The instance of the thread queue for TLC.                               *)
(***************************************************************************)
EXTENDS ThreadQueueProps

CONSTANTS p1, p2, p3, c1, c2

ThreePoppers == {p1, p2, p3}
OneTimed     == {p1}
TwoCommands  == {c1, c2}
=============================================================================
