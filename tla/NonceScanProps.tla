--------------------------- MODULE NonceScanProps ---------------------------
(***************************************************************************)
(* What a scan has to guarantee.                                           *)
(***************************************************************************)
EXTENDS NonceScan

\* Every variable has its type.
TypeOK ==
    /\ solves \in [Nonces -> Works \cup {None}]
    /\ pos \in 0..Size /\ result \in Nonces
    /\ place \in Places /\ work \in 0..MaxWorks
    /\ oldValue \in Nonces /\ nonce \in Nonces /\ ret \in {0, 1}
    /\ submitted \in Seq(Works \X Nonces) /\ reused \in Nat
    /\ inherited \in Nonces

\* No share is submitted twice, although the result register keeps its value
\* from one round to the next and from one block to the next; unless ten peeks
\* in a row fail after a round that found a nonce.
NoShareTwice ==
    reused = 0 => \A i, j \in 1..Len(submitted) : submitted[i] = submitted[j] => i = j

\* What the thread reads and does not submit, and counts as an HW error, is the
\* FPGA's past: a leftover of the pipeline, which the offset has given a label
\* above all nonces, or what stood in the register when the search began, a hit
\* on the previous work or on half-written registers.  Any other value read is
\* a solution under its right nonce, and goes out; unless ten peeks in a row
\* fail and an old nonce is evaluated for new work.
HwErrorsAreLeftovers ==
    [][/\ place = "evaluating" /\ place' = "scanning"
       /\ submitted' = submitted
       /\ reused = 0
       => nonce \in Flushed \/ nonce = inherited]_vars

\* "No Nonce Found": a scan in which the FPGA reports nothing more ends by the
\* timeout, even if no restart comes.
EveryScanEnds == place = "scanning" ~> place = "drawing"
=============================================================================
