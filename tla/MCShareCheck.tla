---------------------------- MODULE MCShareCheck ----------------------------
(***************************************************************************)
(* Instances of the checks of a nonce for TLC: words of two bytes of base  *)
(* 3, hashes of three words.                                               *)
(***************************************************************************)
EXTENDS ShareCheckProps

\* Difficulties whose target has at most one byte in the top word, as those
\* above 1/256 have; with the divisions by 2^32 that big ones need, and one so
\* small that every hash will do.
UsualDiffs ==
    {<<1, 1>>, <<1, 2>>, <<2, 3>>, <<3, 2>>, <<2, 1>>, <<9, 1>>, <<10, 1>>, <<28, 3>>,
     <<1, 3>>, <<50, 1>>, <<100, 1>>, <<1, 14>>}

\* Also smaller ones, whose target has two bytes in the top word.
EasyDiffs == {<<1, 7>>, <<1, 9>>} \cup UsualDiffs
=============================================================================
