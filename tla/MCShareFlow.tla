---------------------------- MODULE MCShareFlow ----------------------------
(***************************************************************************)
(* Instances of the way of the shares for TLC.                             *)
(***************************************************************************)
EXTENDS ShareFlowProps, WorkDistributionProps, TLC

CONSTANTS t1, t2, u1, a, j1, j2, p1, p2, d1, d2

OneThread  == {t1}
OneUrl     == {u1}
OneXn1     == {a}
TwoIds     == {j1, j2}
OnePrev    == {p1}
TwoPrevs   == {p1, p2}
OneDiff    == {d1}
TwoDiffs   == {d1, d2}

\* Job ids and previous blocks are alike.
Symmetry   == Permutations(TwoIds) \cup Permutations(TwoPrevs)

\* The number of shares matters while the difficulty stays, that of difficulties
\* without many shares.
FewSharesWhenDiffChanges ==
    (\E i \in 1..Len(diffs) : diffs[i] # FirstDiff) \/ nextDiff # FirstDiff
        => found <= 1
=============================================================================
