-------------------------- MODULE MCStratumSession --------------------------
(***************************************************************************)
(* Instances of the stratum session for TLC; the constants are in the cfg. *)
(***************************************************************************)
EXTENDS StratumSessionProps
=============================================================================
