---------------------------- MODULE MCFpgaPayload ----------------------------
(***************************************************************************)
(* The hash functions with their real block lengths, the five bitstreams,  *)
(* and a message whose bytes are all different.                            *)
(***************************************************************************)
EXTENDS FpgaPayloadProps, HashStreamProps

MCMessage == [i \in 1..132 |-> 1000 + i]
=============================================================================
