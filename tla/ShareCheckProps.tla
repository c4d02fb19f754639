-------------------------- MODULE ShareCheckProps --------------------------
(***************************************************************************)
(* What the checks of a nonce have to guarantee, stated on the numbers     *)
(* that the words stand for.                                               *)
(***************************************************************************)
EXTENDS ShareCheck

NumberOf(h) ==
    LET low[i \in 0..Words] ==
            IF i = 0 THEN 0 ELSE low[i - 1] + h[i] * WordWeight[i - 1]
    IN  low[Words]

\* The number that a hash of difficulty num/den must not exceed, times num.
Limit == Truediff1 * WordWeight[Words - 2] * diff[2]

\* A share that is submitted has the difficulty the pool asked for.
SubmittedMeetsDifficulty ==
    outcome = "submitted" => NumberOf(hash) * diff[1] <= Limit

\* The target is not stricter than the pool's difficulty by more than what the
\* 64 significant bits of diff_to_target cannot express; where they cannot
\* express it at all, every hash is within the target.
TargetIsTight ==
    \/ Limit < (NumberOf(target) + WordWeight[Words - 2 - Shifts(diff)]) * diff[1]
    \/ \A i \in 1..Words : target[i] = W - 1

\* "Check If Hash < Target Sent To FPGA": a hash within the target is not
\* counted as a hardware error, but submitted.
SharesAreNotHwErrors ==
    outcome # "none" /\ NumberOf(hash) <= NumberOf(target) => outcome = "submitted"
=============================================================================
