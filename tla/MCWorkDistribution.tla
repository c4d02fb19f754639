------------------------- MODULE MCWorkDistribution -------------------------
(***************************************************************************)
(* The instance of the distribution of work for TLC.                       *)
(***************************************************************************)
EXTENDS WorkDistributionProps, TLC

CONSTANTS t1, t2, u1, a, b, j1, j2, p1, d1

TwoThreads == {t1, t2}
OneUrl     == {u1}
TwoXn1     == {a, b}
TwoIds     == {j1, j2}
OnePrev    == {p1}
OneDiff    == {d1}
Forever    == -1

\* Threads, extranonces and job ids are alike.
Symmetry == Permutations(TwoThreads) \cup Permutations(TwoXn1) \cup Permutations(TwoIds)

\* Bound: once the API has asked for a reset, what follows a second job is left out.
OneJobAfterReset == resets > 0 => notifies <= 1
=============================================================================
