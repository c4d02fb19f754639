--------------------------- MODULE FpgaPayloadProps ---------------------------
(***************************************************************************)
(* The FPGA searches the header that the host checks and submits, for the  *)
(* target that the host has sent.                                          *)
(***************************************************************************)
EXTENDS FpgaPayload

\* When calc_hash closes the first hash function of the header with the
\* nonce that was read, it gets the digest that the bitstream has computed
\* from the words in its registers: midstate, order of the words and of
\* their bytes, place of the nonce and the padding in the Verilog agree for
\* every algorithm with a bitstream, wherever the header was cut.
FpgaHashesTheHeader ==
    place = "check" /\ stage = "closed" /\ fed = 80 =>
        /\ nonce = SubSeq(Message, 77, 80)
        /\ digest = Miner

\* A search is for the top word of the work's target.  The bitstream of
\* myr-gr, whose settings send none, searches with the word of the nonce,
\* which is zero: it finds the shares of difficulty one and above.
FpgaSeesTarget ==
    place \in {"scan", "check"} => Target = IF g.target THEN TopOfTarget ELSE Zeros(4)
=============================================================================
