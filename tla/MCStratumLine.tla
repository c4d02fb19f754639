---------------------------- MODULE MCStratumLine ----------------------------
(***************************************************************************)
(* A buffer that grows by six bytes and a recv that returns up to five, so *)
(* that three lines of two bytes or none cross its end and each other's    *)
(* packets, and a kernel with room for half a line of the client.          *)
(***************************************************************************)
EXTENDS StratumLineProps
=============================================================================
