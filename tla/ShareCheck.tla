----------------------------- MODULE ShareCheck -----------------------------
(***************************************************************************)
(* The arithmetic that decides about a nonce: diff_to_target and fulltest  *)
(* of util.c, and the two checks of aws_miner_thread on the hash that      *)
(* calc_hash returns.  A hash and a target are arrays of 32-bit words, the *)
(* least significant first; here words of Bytes digits of base Radix.      *)
(*                                                                         *)
(* A difficulty is a fraction num/den.  The code computes it in doubles;   *)
(* their rounding is left out.                                             *)
(***************************************************************************)
EXTENDS Naturals, FiniteSets, FiniteSetsExt

CONSTANTS
    Radix,   \* values of a byte, 256
    Bytes,   \* bytes of a word, 4
    Words,   \* words of a hash, 8
    Diffs    \* difficulties <<num, den>> that the pool may ask for

\* What a digit counts, by its place in a number of base b.
Weights(b, n) ==
    LET weight[i \in 0..n] == IF i = 0 THEN 1 ELSE b * weight[i - 1] IN weight

ByteWeight == Weights(Radix, Bytes)

W == ByteWeight[Bytes]

WordWeight == Weights(W, Words)

\* 4294901760, the target of difficulty 1 in the second word from the top.
Truediff1 == W - ByteWeight[Bytes \div 2]

ASSUME CheckAssumption ==
    /\ Radix \in Nat /\ Radix >= 2
    /\ Bytes \in Nat /\ Bytes >= 2
    /\ Words \in Nat /\ Words >= 3
    /\ \A d \in Diffs : d[1] \in Nat \ {0} /\ d[2] \in Nat \ {0}

Numbers == [1..Words -> 0..W - 1]

VARIABLES diff, target, hash, outcome

vars == <<diff, target, hash, outcome>>

Zero == [i \in 1..Words |-> 0]
Ones == [i \in 1..Words |-> W - 1]

\* The bytes of a word in the opposite order.
swab32(v) ==
    LET swapped[i \in 0..Bytes] ==
            IF i = 0 THEN 0
            ELSE swapped[i - 1] * Radix + ((v \div ByteWeight[i - 1]) % Radix)
    IN  swapped[Bytes]

\* How often diff_to_target divides the difficulty by 2^32: until it is at
\* most 1 or the words are used up.
Shifts(d) == Min({s \in 0..Words - 2 : d[1] <= d[2] * WordWeight[s] \/ s = Words - 2})

Dividend(d) == Truediff1 * d[2] * WordWeight[Shifts(d)]

\* A quotient that 64 bits do not hold.
TooBig(d) == Dividend(d) >= W * W * d[1]

\* m, what the conversion to 64 bits leaves of the quotient: of one that is too
\* big nothing, on the machines that the program is built for.
Quotient(d) == IF TooBig(d) THEN 0 ELSE Dividend(d) \div d[1]

\* Mutant of diff_to_target: a quotient of 0 is not looked at.
TargetCutOff(d) ==
    [Zero EXCEPT ![Words - 1 - Shifts(d)] = Quotient(d) % W,
                 ![Words - Shifts(d)] = Quotient(d) \div W]

diff_to_target(d) ==
    IF Quotient(d) = 0 /\ Shifts(d) = 0 THEN Ones
    ELSE [Zero EXCEPT ![Words - 1 - Shifts(d)] = Quotient(d) % W,
                      ![Words - Shifts(d)] = Quotient(d) \div W]

Differ(h, t) == {i \in 1..Words : h[i] # t[i]}

\* Mutant of fulltest: the words are compared from the wrong end.
FulltestFromLow(h, t) ==
    Differ(h, t) = {} \/ h[Min(Differ(h, t))] < t[Min(Differ(h, t))]

\* The most significant word that differs decides.
fulltest(h, t) ==
    Differ(h, t) = {} \/ h[Max(Differ(h, t))] < t[Max(Differ(h, t))]

\* Mutant of HwError: a hash that equals the target in the top word fails.
HwErrorOnEqual(h, t) == swab32(h[Words]) >= swab32(t[Words])

\* The check of the top words against the target sent to the FPGA.
HwError(h, t) == swab32(h[Words]) > swab32(t[Words])

-----------------------------------------------------------------------------
Init ==
    /\ diff \in Diffs
    /\ target = diff_to_target(diff)
    /\ hash = Zero /\ outcome = "none"

\* A nonce is read and hashed; hash functions can return anything.
Evaluate ==
    /\ hash' \in Numbers
    /\ outcome' = IF HwError(hash', target) THEN "hw_error"
                  ELSE IF fulltest(hash', target) THEN "submitted" ELSE "above"
    /\ UNCHANGED <<diff, target>>

\* New work after the pool has changed the difficulty.
SetTarget ==
    /\ diff' \in Diffs
    /\ target' = diff_to_target(diff')
    /\ hash' = Zero /\ outcome' = "none"

Next == Evaluate \/ SetTarget

Spec == Init /\ [][Next]_vars
=============================================================================
