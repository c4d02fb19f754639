---------------------------- MODULE MCNonceScan ----------------------------
(***************************************************************************)
(* Instances of the scan loop for TLC; the constants are in the cfgs.      *)
(***************************************************************************)
EXTENDS NonceScanProps
=============================================================================
