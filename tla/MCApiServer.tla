---------------------------- MODULE MCApiServer ----------------------------
(***************************************************************************)
(* The API with two pools and two accounts.                                *)
(***************************************************************************)
EXTENDS ApiServerProps

CONSTANTS t1, u1, u2, a, j1, p1, d1, w1, w2

OneThread  == {t1}
TwoUrls    == {u1, u2}
OnlySecond == {u2}
OneXn1     == {a}
OneId      == {j1}
OnePrev    == {p1}
OneDiff    == {d1}
TwoUsers   == {w1, w2}
Forever    == -1
=============================================================================
