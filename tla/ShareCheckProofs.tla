-------------------------- MODULE ShareCheckProofs --------------------------
(***************************************************************************)
(* Proofs about the checks of a nonce, for any size of a byte, of a word   *)
(* and of a hash and any difficulties.                                     *)
(***************************************************************************)
EXTENDS ShareCheckProps, WellFoundedInduction, TLAPS

(***************************************************************************)
(* Induction over the naturals, for a set of them, and the functions that  *)
(* it defines.                                                             *)
(***************************************************************************)
Below == {p \in Nat \X Nat : p[1] < p[2]}

\* Every set of naturals has a least member.
LEMMA LeastNat ==
    ASSUME NEW T \in SUBSET Nat, T # {}
    PROVE  \E x \in T : \A y \in T : x <= y
<1>1. IsWellFoundedOn(Below, Nat)
  BY NatLessThanWellFounded, Zenon DEF OpToRel, Below
<1>2. PICK x \in T : \A y \in T : ~ (<<y, x>> \in Below)
  BY <1>1, WFMin
<1>3. \A y \in T : <<y, x>> \in Below <=> y < x
  BY DEF Below
<1>4. \A y \in T : ~ (y < x)
  BY <1>2, <1>3, Zenon
<1>. QED
  BY <1>4

LEMMA Induction ==
    ASSUME NEW T \in SUBSET Nat, 0 \in T, \A n \in T : n + 1 \in T
    PROVE  T = Nat
<1>. SUFFICES ASSUME Nat \ T # {} PROVE FALSE
  OBVIOUS
<1>1. PICK x \in Nat \ T : \A y \in Nat \ T : x <= y
  BY LeastNat
<1>2. x - 1 \in Nat /\ x - 1 \in T
  BY <1>1
<1>. QED
  BY <1>1, <1>2

\* g starts with a, and step leads from each value to the next.
Recurses(g, n, a, step) ==
    /\ g \in [0..n -> Nat]
    /\ g[0] = a
    /\ \A i \in 1..n : g[i] = step[i][g[i - 1]]

LEMMA RecursionExists ==
    ASSUME NEW n \in Nat, NEW a \in Nat, NEW step \in [1..n -> [Nat -> Nat]]
    PROVE  \E g : Recurses(g, n, a, step)
<1>. DEFINE T == {m \in Nat : m <= n => \E g : Recurses(g, m, a, step)}
<1>1. 0 \in T
  <2>1. Recurses([i \in 0..0 |-> a], 0, a, step)
    BY DEF Recurses
  <2>. QED
    BY <2>1
<1>2. ASSUME NEW m \in T
      PROVE  m + 1 \in T
  <2>. SUFFICES ASSUME m + 1 <= n
                PROVE  \E h : Recurses(h, m + 1, a, step)
    BY <1>2
  <2>1. m \in Nat /\ m + 1 \in 1..n
    BY <1>2
  <2>2. PICK g : Recurses(g, m, a, step)
    BY <1>2, <2>1
  <2>3. g \in [0..m -> Nat] /\ g[0] = a /\ \A i \in 1..m : g[i] = step[i][g[i - 1]]
    BY <2>2 DEF Recurses
  <2>4. step[m + 1] \in [Nat -> Nat] /\ g[m] \in Nat
    BY <2>1, <2>3
  <2>5. step[m + 1][g[m]] \in Nat
    BY <2>4
  <2>6. PICK h \in [0..(m + 1) -> Nat] :
            (\A i \in 0..m : h[i] = g[i]) /\ h[m + 1] = step[m + 1][g[m]]
    <3>. DEFINE e == [i \in 0..(m + 1) |-> IF i <= m THEN g[i] ELSE step[m + 1][g[m]]]
    <3>1. \A i \in 0..(m + 1) : (IF i <= m THEN g[i] ELSE step[m + 1][g[m]]) \in Nat
      BY <2>1, <2>3, <2>5
    <3>2. e \in [0..(m + 1) -> Nat]
      BY <3>1
    <3>3. /\ \A i \in 0..m : i <= m /\ i \in 0..(m + 1)
          /\ m + 1 \in 0..(m + 1) /\ ~ (m + 1 <= m)
      BY <2>1
    <3>4. (\A i \in 0..m : e[i] = g[i]) /\ e[m + 1] = step[m + 1][g[m]]
      BY <3>3, Zenon
    <3>. QED
      BY <3>2, <3>4
  <2>7. ASSUME NEW i \in 1..(m + 1)
        PROVE  h[i] = step[i][h[i - 1]]
    <3>1. h[i - 1] = g[i - 1]
      BY <2>1, <2>6
    <3>2. CASE i \in 1..m
      <4>1. h[i] = g[i]
        BY <2>1, <2>6, <3>2
      <4>2. g[i] = step[i][g[i - 1]]
        BY <2>3, <3>2, Zenon
      <4>. QED
        BY <3>1, <4>1, <4>2
    <3>3. CASE i = m + 1
      BY <2>1, <2>6, <3>1, <3>3
    <3>. QED
      BY <2>1, <3>2, <3>3
  <2>9. h[0] = a
    BY <2>1, <2>3, <2>6
  <2>8. Recurses(h, m + 1, a, step)
    BY <2>6, <2>7, <2>9 DEF Recurses
  <2>. QED
    BY <2>8
<1>. HIDE DEF T
<1>3. T \in SUBSET Nat
  BY DEF T
<1>4. n \in T
  BY <1>1, <1>2, <1>3, Induction
<1>. QED
  BY <1>4 DEF T

\* Induction up to a bound.
LEMMA InductionUpTo ==
    ASSUME NEW n \in Nat, NEW T, 0 \in T, \A i \in 1..n : i - 1 \in T => i \in T
    PROVE  \A i \in 0..n : i \in T
<1>. DEFINE U == {i \in Nat : i <= n => i \in T}
<1>1. 0 \in U
  OBVIOUS
<1>2. \A i \in U : i + 1 \in U
  OBVIOUS
<1>3. U \in SUBSET Nat
  OBVIOUS
<1>. HIDE DEF U
<1>4. U = Nat
  BY <1>1, <1>2, <1>3, Induction
<1>. QED
  BY <1>4 DEF U

-----------------------------------------------------------------------------
(***************************************************************************)
(* Weights.                                                                *)
(***************************************************************************)
LEMMA WeightsGrow ==
    ASSUME NEW b \in Nat, NEW n \in Nat
    PROVE  /\ Weights(b, n) \in [0..n -> Nat]
           /\ Weights(b, n)[0] = 1
           /\ \A i \in 1..n : Weights(b, n)[i] = b * Weights(b, n)[i - 1]
<1>. DEFINE step == [i \in 1..n |-> [x \in Nat |-> b * x]]
<1>1. step \in [1..n -> [Nat -> Nat]]
  OBVIOUS
<1>2. PICK g : Recurses(g, n, 1, step)
  <2>. HIDE DEF step
  <2>. QED
    BY <1>1, RecursionExists
<1>3. g \in [0..n -> Nat] /\ g[0] = 1 /\ \A i \in 1..n : g[i] = b * g[i - 1]
  <2>1. g \in [0..n -> Nat] /\ g[0] = 1
    BY <1>2 DEF Recurses
  <2>2. ASSUME NEW i \in 1..n
        PROVE  g[i] = b * g[i - 1]
    <3>1. g[i - 1] \in Nat
      BY <2>1
    <3>2. step[i][g[i - 1]] = b * g[i - 1]
      BY <3>1
    <3>3. g[i] = step[i][g[i - 1]]
      BY <1>2 DEF Recurses
    <3>. QED
      BY <3>2, <3>3, Zenon
  <2>. QED
    BY <2>1, <2>2
<1>. DEFINE Def(w) == w = [i \in 0..n |-> IF i = 0 THEN 1 ELSE b * w[i - 1]]
<1>4. Def(g)
  BY <1>3
<1>5. Weights(b, n) = CHOOSE w : Def(w)
  BY DEF Weights
<1>6. PICK v : Def(v) /\ v = Weights(b, n)
  <2>. HIDE DEF Def
  <2>. QED
    BY <1>4, <1>5
<1>7. v[0] = 1 /\ \A i \in 1..n : v[i] = b * v[i - 1]
  <2>1. \A i \in 0..n : v[i] = IF i = 0 THEN 1 ELSE b * v[i - 1]
    BY <1>6, Zenon
  <2>2. 0 \in 0..n /\ \A i \in 1..n : i \in 0..n /\ i # 0
    OBVIOUS
  <2>. QED
    BY <2>1, <2>2, Zenon
<1>8. v \in [0..n -> Nat]
  <2>1. \A i \in 0..n : v[i] \in Nat
    <3>1. v[0] \in Nat
      BY <1>7
    <3>2. \A i \in 1..n : v[i - 1] \in Nat => v[i] \in Nat
      BY <1>7
    <3>. DEFINE T == {i \in 0..n : v[i] \in Nat}
    <3>3. 0 \in T /\ \A i \in 1..n : i - 1 \in T => i \in T
      BY <3>1, <3>2
    <3>. HIDE DEF T
    <3>4. \A i \in 0..n : i \in T
      BY <3>3, InductionUpTo
    <3>. QED
      BY <3>4 DEF T
  <2>2. v = [i \in 0..n |-> v[i]]
    BY <1>6
  <2>. QED
    BY <2>1, <2>2
<1>. QED
  BY <1>6, <1>7, <1>8

\* No two naturals have a negative product, and a product grows with each.
LEMMA Product ==
    ASSUME NEW x \in Nat, NEW y \in Nat, NEW z \in Nat, x <= y
    PROVE  /\ x * z \in Nat /\ z * x \in Nat
           /\ x * z <= y * z /\ z * x <= z * y
OBVIOUS

LEMMA WeightsPositive ==
    ASSUME NEW b \in Nat, b >= 1, NEW n \in Nat
    PROVE  \A i \in 0..n : Weights(b, n)[i] >= 1
<1>. DEFINE w == Weights(b, n)  T == {i \in 0..n : w[i] >= 1}
<1>1. /\ w \in [0..n -> Nat] /\ w[0] = 1
      /\ \A i \in 1..n : w[i] = b * w[i - 1]
  BY WeightsGrow
<1>2. 0 \in T
  BY <1>1
<1>3. ASSUME NEW i \in 1..n, i - 1 \in T
      PROVE  i \in T
  <2>1. w[i - 1] \in Nat /\ w[i - 1] >= 1 /\ w[i] = b * w[i - 1]
    BY <1>1, <1>3
  <2>. HIDE DEF w
  <2>2. b * w[i - 1] >= 1
    BY <2>1
  <2>. QED
    BY <2>1, <2>2
<1>. HIDE DEF T
<1>4. \A i \in 0..n : i \in T
  BY <1>2, <1>3, InductionUpTo
<1>. QED
  BY <1>4 DEF T

\* Weights of later places are not less.
LEMMA WeightsOrdered ==
    ASSUME NEW b \in Nat, b >= 1, NEW n \in Nat, NEW j \in 0..n
    PROVE  \A i \in 0..j : Weights(b, n)[i] <= Weights(b, n)[j]
<1>. DEFINE w == Weights(b, n)
            T == {k \in 0..n : \A i \in 0..k : w[i] <= w[k]}
<1>1. /\ w \in [0..n -> Nat] /\ w[0] = 1
      /\ \A i \in 1..n : w[i] = b * w[i - 1]
  BY WeightsGrow
<1>2. 0 \in T
  BY <1>1
<1>3. ASSUME NEW k \in 1..n, k - 1 \in T
      PROVE  k \in T
  <2>1. w[k - 1] \in Nat /\ w[k] = b * w[k - 1]
    BY <1>1
  <2>. HIDE DEF w
  <2>2. w[k - 1] <= w[k] /\ w[k] \in Nat
    BY <2>1
  <2>3. ASSUME NEW i \in 0..k
        PROVE  w[i] <= w[k]
    <3>1. CASE i = k
      BY <2>2, <3>1
    <3>2. CASE i \in 0..(k - 1)
      <4>1. w[i] <= w[k - 1]
        BY <1>3, <3>2
      <4>2. w[i] \in Nat
        BY <1>1, <3>2
      <4>. QED
        BY <2>1, <2>2, <4>1, <4>2
    <3>. QED
      BY <3>1, <3>2
  <2>. QED
    BY <2>3
<1>. HIDE DEF T
<1>4. j \in T
  BY <1>2, <1>3, InductionUpTo
<1>. QED
  BY <1>4 DEF T

LEMMA WeightsMultiply ==
    ASSUME NEW b \in Nat, NEW n \in Nat, NEW i \in 0..n, NEW j \in 0..n, i + j <= n
    PROVE  Weights(b, n)[i] * Weights(b, n)[j] = Weights(b, n)[i + j]
<1>. DEFINE w == Weights(b, n)
            T == {k \in 0..(n - i) : w[i] * w[k] = w[i + k]}
<1>1. /\ w \in [0..n -> Nat] /\ w[0] = 1
      /\ \A k \in 1..n : w[k] = b * w[k - 1]
  BY WeightsGrow
<1>2. 0 \in T
  BY <1>1
<1>3. ASSUME NEW k \in 1..(n - i), k - 1 \in T
      PROVE  k \in T
  <2>1. /\ w[k - 1] \in Nat /\ w[k] = b * w[k - 1] /\ w[i] \in Nat
        /\ w[i + k - 1] \in Nat /\ w[i + k] = b * w[i + k - 1]
    BY <1>1
  <2>2. w[i] * w[k - 1] = w[i + k - 1]
    BY <1>3
  <2>. HIDE DEF w
  <2>3. w[i] * (b * w[k - 1]) = b * (w[i] * w[k - 1])
    BY <2>1
  <2>. QED
    BY <2>1, <2>2, <2>3
<1>. HIDE DEF T
<1>4. n - i \in Nat /\ j \in 0..(n - i)
  OBVIOUS
<1>5. j \in T
  BY <1>2, <1>3, <1>4, InductionUpTo
<1>. QED
  BY <1>5 DEF T

\* The weights of bytes and words.
LEMMA Weighing ==
    /\ ByteWeight \in [0..Bytes -> Nat] /\ WordWeight \in [0..Words -> Nat]
    /\ W \in Nat /\ W >= 2 /\ W >= Radix
    /\ Truediff1 \in Nat /\ Truediff1 <= W /\ Truediff1 >= 1
    /\ WordWeight[0] = 1
    /\ \A i \in 1..Words : WordWeight[i] = W * WordWeight[i - 1]
    /\ \A i \in 0..Words : WordWeight[i] >= 1
    /\ \A i \in 0..Bytes : ByteWeight[i] >= 1
    /\ \A i \in 1..Bytes : ByteWeight[i] >= Radix
<1>1. /\ Radix \in Nat /\ Radix >= 2 /\ Bytes \in Nat /\ Bytes >= 2
      /\ Words \in Nat /\ Words >= 3
  BY CheckAssumption
<1>2. /\ ByteWeight \in [0..Bytes -> Nat] /\ ByteWeight[0] = 1
      /\ \A i \in 1..Bytes : ByteWeight[i] = Radix * ByteWeight[i - 1]
  BY <1>1, WeightsGrow DEF ByteWeight
<1>3. \A i \in 0..Bytes : ByteWeight[i] >= 1
  BY <1>1, WeightsPositive DEF ByteWeight
<1>4. ASSUME NEW i \in 1..Bytes
      PROVE  ByteWeight[i] >= Radix
  <2>1. /\ ByteWeight[i] = Radix * ByteWeight[i - 1]
        /\ ByteWeight[i - 1] \in Nat /\ ByteWeight[i - 1] >= 1
    <3>1. i - 1 \in 0..Bytes
      BY <1>1
    <3>. QED
      BY <1>2, <1>3, <3>1
  <2>2. Radix * 1 <= Radix * ByteWeight[i - 1]
    BY <1>1, <2>1, Product
  <2>. QED
    BY <1>1, <2>1, <2>2
<1>5. W \in Nat /\ W >= Radix /\ W >= 2
  BY <1>1, <1>2, <1>4 DEF W
<1>6. Bytes \div 2 \in 0..Bytes - 1 /\ Bytes \div 2 \in 0..Bytes /\ Bytes - 1 \in 0..Bytes
  BY <1>1
<1>7. ByteWeight[Bytes \div 2] < W
  <2>1. /\ W = Radix * ByteWeight[Bytes - 1]
        /\ ByteWeight[Bytes - 1] \in Nat /\ ByteWeight[Bytes - 1] >= 1
    BY <1>1, <1>2, <1>3, <1>6 DEF W
  <2>2. 2 * ByteWeight[Bytes - 1] <= Radix * ByteWeight[Bytes - 1]
    BY <1>1, <2>1, Product
  <2>3. \A i \in 0..Bytes - 1 : ByteWeight[i] <= ByteWeight[Bytes - 1]
    BY <1>1, <1>6, WeightsOrdered DEF ByteWeight
  <2>4. ByteWeight[Bytes \div 2] <= ByteWeight[Bytes - 1] /\ ByteWeight[Bytes \div 2] \in Nat
    BY <1>2, <1>6, <2>3
  <2>. QED
    BY <1>1, <1>5, <2>1, <2>2, <2>4
<1>8. Truediff1 \in Nat /\ Truediff1 <= W /\ Truediff1 >= 1
  BY <1>2, <1>5, <1>6, <1>7 DEF Truediff1
<1>9. /\ WordWeight \in [0..Words -> Nat] /\ WordWeight[0] = 1
      /\ \A i \in 1..Words : WordWeight[i] = W * WordWeight[i - 1]
  BY <1>1, <1>5, WeightsGrow DEF WordWeight
<1>10. \A i \in 0..Words : WordWeight[i] >= 1
  BY <1>1, <1>5, WeightsPositive DEF WordWeight
<1>. QED
  BY <1>2, <1>3, <1>4, <1>5, <1>8, <1>9, <1>10

-----------------------------------------------------------------------------
(***************************************************************************)
(* Numbers: the sum over the words, from the lowest, and its order.        *)
(***************************************************************************)
LEMMA WordType ==
    ASSUME NEW h \in Numbers, NEW i \in 1..Words
    PROVE  /\ h[i] \in Nat /\ h[i] + 1 <= W
           /\ WordWeight[i - 1] \in Nat /\ WordWeight[i] \in Nat
<1>1. Words \in Nat /\ W \in Nat
  BY CheckAssumption, Weighing
<1>2. h[i] \in 0..W - 1
  BY DEF Numbers
<1>3. i - 1 \in 0..Words /\ i \in 0..Words
  BY <1>1
<1>4. WordWeight \in [0..Words -> Nat]
  BY Weighing
<1>. QED
  BY <1>1, <1>2, <1>3, <1>4

\* low[i] is what the lowest i words of h are worth.
SumsUp(low, h) ==
    /\ low \in [0..Words -> Nat] /\ low[0] = 0
    /\ \A i \in 1..Words : low[i] = low[i - 1] + h[i] * WordWeight[i - 1]

LEMMA NumberIsSum ==
    ASSUME NEW h \in Numbers
    PROVE  \E low : SumsUp(low, h) /\ NumberOf(h) = low[Words]
<1>1. Words \in Nat /\ Words >= 3 /\ W \in Nat
  BY CheckAssumption, Weighing
<1>2. \A i \in 1..Words : h[i] \in Nat /\ WordWeight[i - 1] \in Nat
  BY WordType
<1>3. \A i \in 1..Words : h[i] * WordWeight[i - 1] \in Nat
  BY <1>2
<1>. DEFINE step == [i \in 1..Words |-> [x \in Nat |-> x + h[i] * WordWeight[i - 1]]]
<1>4. step \in [1..Words -> [Nat -> Nat]]
  BY <1>3
<1>5. PICK g : Recurses(g, Words, 0, step)
  <2>. HIDE DEF step
  <2>. QED
    BY <1>1, <1>4, RecursionExists
<1>6. SumsUp(g, h)
  <2>1. g \in [0..Words -> Nat] /\ g[0] = 0
    BY <1>5 DEF Recurses
  <2>2. ASSUME NEW i \in 1..Words
        PROVE  g[i] = g[i - 1] + h[i] * WordWeight[i - 1]
    <3>1. g[i - 1] \in Nat
      BY <1>1, <2>1
    <3>2. step[i][g[i - 1]] = g[i - 1] + h[i] * WordWeight[i - 1]
      BY <3>1
    <3>3. g[i] = step[i][g[i - 1]]
      BY <1>5 DEF Recurses
    <3>. QED
      BY <3>2, <3>3, Zenon
  <2>. QED
    BY <2>1, <2>2 DEF SumsUp
<1>. DEFINE Def(v) == v = [i \in 0..Words |->
                            IF i = 0 THEN 0 ELSE v[i - 1] + h[i] * WordWeight[i - 1]]
<1>7. Def(g)
  BY <1>1, <1>6 DEF SumsUp
<1>8. NumberOf(h) = (CHOOSE v : Def(v))[Words]
  BY DEF NumberOf
<1>9. PICK v : Def(v) /\ NumberOf(h) = v[Words]
  <2>. HIDE DEF Def
  <2>. QED
    BY <1>7, <1>8
<1>10. v[0] = 0 /\ \A i \in 1..Words : v[i] = v[i - 1] + h[i] * WordWeight[i - 1]
  <2>1. \A i \in 0..Words :
            v[i] = IF i = 0 THEN 0 ELSE v[i - 1] + h[i] * WordWeight[i - 1]
    BY <1>9, Zenon
  <2>2. 0 \in 0..Words /\ \A i \in 1..Words : i \in 0..Words /\ i # 0
    BY <1>1
  <2>. QED
    BY <2>1, <2>2, Zenon
<1>11. v \in [0..Words -> Nat]
  <2>. DEFINE T == {i \in 0..Words : v[i] \in Nat}
  <2>1. 0 \in T /\ \A i \in 1..Words : i - 1 \in T => i \in T
    BY <1>1, <1>3, <1>10
  <2>. HIDE DEF T
  <2>2. \A i \in 0..Words : i \in T
    BY <1>1, <2>1, InductionUpTo
  <2>3. \A i \in 0..Words : v[i] \in Nat
    BY <2>2 DEF T
  <2>4. v = [i \in 0..Words |-> v[i]]
    BY <1>9
  <2>. QED
    BY <2>3, <2>4
<1>. QED
  BY <1>9, <1>10, <1>11 DEF SumsUp

LEMMA NumberType ==
    ASSUME NEW h \in Numbers
    PROVE  NumberOf(h) \in Nat
<1>1. Words \in 0..Words
  BY CheckAssumption
<1>. QED
  BY <1>1, NumberIsSum DEF SumsUp

\* The words below a place are worth less than one at the place.
LEMMA LowWordsAreSmall ==
    ASSUME NEW h \in Numbers, NEW low, SumsUp(low, h)
    PROVE  \A i \in 0..Words : low[i] < WordWeight[i]
<1>1. Words \in Nat /\ Words >= 3 /\ W \in Nat /\ W >= 2
  BY CheckAssumption, Weighing
<1>. DEFINE T == {i \in 0..Words : low[i] < WordWeight[i]}
<1>2. 0 \in T
  BY <1>1, Weighing DEF SumsUp
<1>3. ASSUME NEW i \in 1..Words, i - 1 \in T
      PROVE  i \in T
  <2>1. /\ low[i - 1] \in Nat /\ low[i] \in Nat
        /\ WordWeight[i - 1] \in Nat /\ WordWeight[i] \in Nat
        /\ h[i] \in Nat /\ h[i] + 1 <= W
    <3>1. low \in [0..Words -> Nat] /\ i - 1 \in 0..Words /\ i \in 0..Words
      BY <1>1 DEF SumsUp
    <3>. QED
      BY <3>1, WordType
  <2>2. /\ low[i] = low[i - 1] + h[i] * WordWeight[i - 1]
        /\ WordWeight[i] = W * WordWeight[i - 1]
        /\ low[i - 1] < WordWeight[i - 1]
    BY <1>3, Weighing DEF SumsUp
  <2>3. (h[i] + 1) * WordWeight[i - 1] <= W * WordWeight[i - 1]
    BY <1>1, <2>1, Product
  <2>4. (h[i] + 1) * WordWeight[i - 1] = h[i] * WordWeight[i - 1] + WordWeight[i - 1]
    BY <2>1
  <2>5. h[i] * WordWeight[i - 1] \in Nat /\ W * WordWeight[i - 1] \in Nat
    BY <1>1, <2>1, Product
  <2>6. low[i] < WordWeight[i]
    BY <2>1, <2>2, <2>3, <2>4, <2>5
  <2>. QED
    BY <2>6
<1>. HIDE DEF T
<1>4. \A i \in 0..Words : i \in T
  BY <1>1, <1>2, <1>3, InductionUpTo
<1>. QED
  BY <1>4 DEF T

\* The highest word that differs decides.
LEMMA HighestDecides ==
    ASSUME NEW h \in Numbers, NEW t \in Numbers, NEW j \in 1..Words, h[j] < t[j],
           \A i \in j + 1..Words : h[i] = t[i]
    PROVE  NumberOf(h) < NumberOf(t)
<1>1. Words \in Nat /\ W \in Nat
  BY CheckAssumption, Weighing
<1>2. PICK a : SumsUp(a, h) /\ NumberOf(h) = a[Words]
  BY NumberIsSum
<1>3. PICK b : SumsUp(b, t) /\ NumberOf(t) = b[Words]
  BY NumberIsSum
<1>4. /\ a \in [0..Words -> Nat] /\ b \in [0..Words -> Nat]
      /\ \A i \in 1..Words : a[i] = a[i - 1] + h[i] * WordWeight[i - 1]
      /\ \A i \in 1..Words : b[i] = b[i - 1] + t[i] * WordWeight[i - 1]
  BY <1>2, <1>3 DEF SumsUp
<1>. DEFINE T == {k \in 0..(Words - j) : a[j + k] < b[j + k]}
<1>5. 0 \in T
  <2>1. /\ h[j] \in Nat /\ t[j] \in Nat /\ WordWeight[j - 1] \in Nat
        /\ a[j - 1] \in Nat /\ b[j - 1] \in Nat /\ a[j] \in Nat /\ b[j] \in Nat
    <3>1. j - 1 \in 0..Words /\ j \in 0..Words
      BY <1>1
    <3>. QED
      BY <1>4, <3>1, WordType
  <2>2. a[j - 1] < WordWeight[j - 1]
    <3>1. j - 1 \in 0..Words
      BY <1>1
    <3>. QED
      BY <1>2, <3>1, LowWordsAreSmall
  <2>3. (h[j] + 1) * WordWeight[j - 1] <= t[j] * WordWeight[j - 1]
    BY <2>1, Product
  <2>4. /\ (h[j] + 1) * WordWeight[j - 1] = h[j] * WordWeight[j - 1] + WordWeight[j - 1]
        /\ h[j] * WordWeight[j - 1] \in Nat /\ t[j] * WordWeight[j - 1] \in Nat
    BY <2>1, Product
  <2>5. a[j] < b[j]
    <3>1. /\ a[j] = a[j - 1] + h[j] * WordWeight[j - 1]
          /\ b[j] = b[j - 1] + t[j] * WordWeight[j - 1]
      BY <1>4
    <3>. QED
      BY <2>1, <2>2, <2>3, <2>4, <3>1
  <2>. QED
    BY <1>1, <2>5
<1>6. ASSUME NEW k \in 1..(Words - j), k - 1 \in T
      PROVE  k \in T
  <2>1. /\ j + k \in 1..Words /\ j + k \in j + 1..Words
        /\ j + k - 1 \in 0..Words /\ j + k \in 0..Words
    BY <1>1
  <2>2. /\ a[j + k] = a[j + k - 1] + h[j + k] * WordWeight[j + k - 1]
        /\ b[j + k] = b[j + k - 1] + h[j + k] * WordWeight[j + k - 1]
    BY <1>4, <2>1
  <2>3. /\ a[j + k - 1] \in Nat /\ b[j + k - 1] \in Nat
        /\ h[j + k] \in Nat /\ WordWeight[j + k - 1] \in Nat
    <3>1. a[j + k - 1] \in Nat /\ b[j + k - 1] \in Nat
      BY <1>4, <2>1
    <3>. DEFINE i == j + k
    <3>2. h[i] \in Nat /\ WordWeight[i - 1] \in Nat
      <4>. HIDE DEF i
      <4>1. i \in 1..Words
        BY <2>1 DEF i
      <4>. QED
        BY <4>1, WordType
    <3>. QED
      BY <3>1, <3>2
  <2>4. h[j + k] * WordWeight[j + k - 1] \in Nat
    BY <2>3, Product
  <2>5. a[j + k - 1] < b[j + k - 1]
    <3>1. a[j + (k - 1)] < b[j + (k - 1)]
      BY <1>6
    <3>2. j + (k - 1) = j + k - 1
      OBVIOUS
    <3>. QED
      BY <3>1, <3>2
  <2>6. a[j + k] < b[j + k]
    BY <2>2, <2>3, <2>4, <2>5
  <2>. QED
    BY <2>6
<1>. HIDE DEF T
<1>7. Words - j \in Nat /\ Words - j \in 0..(Words - j)
  BY <1>1
<1>8. Words - j \in T
  BY <1>5, <1>6, <1>7, InductionUpTo
<1>9. a[j + (Words - j)] < b[j + (Words - j)]
  BY <1>8 DEF T
<1>10. j + (Words - j) = Words
  BY <1>1
<1>. QED
  BY <1>2, <1>3, <1>9, <1>10

LEMMA HighestDiffering ==
    ASSUME NEW h, NEW t, Differ(h, t) # {}
    PROVE  /\ Max(Differ(h, t)) \in 1..Words
           /\ h[Max(Differ(h, t))] # t[Max(Differ(h, t))]
           /\ \A i \in Max(Differ(h, t)) + 1..Words : h[i] = t[i]
<1>1. Words \in Nat
  BY CheckAssumption
<1>. DEFINE D == Differ(h, t)  T == {Words - i : i \in D}
<1>2. \A i \in D : i \in 1..Words /\ h[i] # t[i]
  BY DEF Differ
<1>3. T \in SUBSET Nat /\ T # {}
  BY <1>1, <1>2
<1>4. PICK x \in T : \A y \in T : x <= y
  <2>. HIDE DEF T
  <2>. QED
    BY <1>3, LeastNat
<1>5. PICK m \in D : x = Words - m
  OBVIOUS
<1>6. \A i \in D : m >= i
  <2>1. ASSUME NEW i \in D
        PROVE  m >= i
    <3>1. x <= Words - i
      BY <1>4
    <3>2. m \in 1..Words /\ i \in 1..Words
      BY <1>2, <1>5
    <3>. QED
      BY <1>1, <1>5, <3>1, <3>2
  <2>. QED
    BY <2>1
<1>7. Max(D) \in D /\ \A i \in D : Max(D) >= i
  <2>. HIDE DEF D
  <2>. QED
    BY <1>6 DEF Max
<1>8. ASSUME NEW i \in Max(D) + 1..Words
      PROVE  h[i] = t[i]
  <2>1. Max(D) \in 1..Words
    BY <1>2, <1>7
  <2>2. i \in 1..Words /\ ~ (Max(D) >= i)
    BY <1>1, <2>1
  <2>. QED
    BY <1>7, <2>2 DEF Differ
<1>. QED
  BY <1>2, <1>7, <1>8

\* fulltest, which looks at the words from the highest down, compares the
\* numbers that they stand for: for any hash and any target.
THEOREM FulltestComparesNumbers ==
    ASSUME NEW h \in Numbers, NEW t \in Numbers
    PROVE  fulltest(h, t) <=> NumberOf(h) <= NumberOf(t)
<1>1. NumberOf(h) \in Nat /\ NumberOf(t) \in Nat
  BY NumberType
<1>2. CASE Differ(h, t) = {}
  <2>1. h = t
    <3>1. \A i \in 1..Words : h[i] = t[i]
      BY <1>2 DEF Differ
    <3>2. h = [i \in 1..Words |-> h[i]] /\ t = [i \in 1..Words |-> t[i]]
      BY DEF Numbers
    <3>3. [i \in 1..Words |-> h[i]] = [i \in 1..Words |-> t[i]]
      BY <3>1
    <3>. QED
      BY <3>2, <3>3, Zenon
  <2>. QED
    BY <1>1, <1>2, <2>1 DEF fulltest
<1>3. CASE Differ(h, t) # {}
  <2>. DEFINE m == Max(Differ(h, t))
  <2>1. m \in 1..Words /\ h[m] # t[m] /\ \A i \in m + 1..Words : h[i] = t[i]
    BY <1>3, HighestDiffering
  <2>2. h[m] \in Nat /\ t[m] \in Nat
    BY <2>1, WordType
  <2>3. fulltest(h, t) <=> h[m] < t[m]
    BY <1>3 DEF fulltest
  <2>. HIDE DEF m
  <2>4. CASE h[m] < t[m]
    <3>1. NumberOf(h) < NumberOf(t)
      BY <2>1, <2>4, HighestDecides
    <3>. QED
      BY <1>1, <2>3, <2>4, <3>1
  <2>5. CASE t[m] < h[m]
    <3>1. NumberOf(t) < NumberOf(h)
      BY <2>1, <2>5, HighestDecides
    <3>. QED
      BY <1>1, <2>2, <2>3, <2>5, <3>1
  <2>. QED
    BY <2>1, <2>2, <2>4, <2>5
<1>. QED
  BY <1>2, <1>3

\* So it lets no greater top word through.
LEMMA TopWordsOrdered ==
    ASSUME NEW h \in Numbers, NEW t \in Numbers, fulltest(h, t)
    PROVE  h[Words] <= t[Words]
<1>1. Words \in Nat /\ Words \in 1..Words
  BY CheckAssumption
<1>2. h[Words] \in Nat /\ t[Words] \in Nat
  BY <1>1, WordType
<1>. SUFFICES ASSUME h[Words] # t[Words]
              PROVE  h[Words] <= t[Words]
  BY <1>2
<1>3. Words \in Differ(h, t)
  BY <1>1 DEF Differ
<1>. DEFINE m == Max(Differ(h, t))
<1>4. /\ m \in 1..Words /\ \A i \in m + 1..Words : h[i] = t[i]
  BY <1>3, HighestDiffering
<1>5. h[m] < t[m]
  BY <1>3 DEF fulltest
<1>. HIDE DEF m
<1>6. m = Words
  BY <1>1, <1>4
<1>. QED
  BY <1>2, <1>5, <1>6

-----------------------------------------------------------------------------
(***************************************************************************)
(* The target of a difficulty.                                             *)
(***************************************************************************)
LEMMA Division ==
    ASSUME NEW x \in Nat, NEW y \in Nat, y >= 1
    PROVE  /\ x \div y \in Nat /\ x % y \in 0..y - 1
           /\ x = y * (x \div y) + (x % y)
OBVIOUS

\* A factor can be cancelled.
LEMMA Cancel ==
    ASSUME NEW x \in Nat, NEW y \in Nat, NEW z \in Nat, x * z < y * z
    PROVE  x < y
OBVIOUS

\* The difficulty is divided until it is at most 1 or the words are used up.
LEMMA ShiftsFound ==
    ASSUME NEW d \in Diffs
    PROVE  /\ Shifts(d) \in 0..Words - 2
           /\ IF Shifts(d) = 0 THEN d[1] <= d[2]
              ELSE d[2] * WordWeight[Shifts(d) - 1] < d[1]
<1>1. Words \in Nat /\ Words >= 3 /\ d[1] \in Nat /\ d[2] \in Nat
  BY CheckAssumption
<1>. DEFINE S == {s \in 0..Words - 2 : d[1] <= d[2] * WordWeight[s] \/ s = Words - 2}
<1>2. Words - 2 \in S /\ S \in SUBSET Nat
  BY <1>1
<1>3. PICK x \in S : \A y \in S : x <= y
  <2>. HIDE DEF S
  <2>. QED
    BY <1>2, LeastNat
<1>4. Min(S) \in S /\ \A y \in S : Min(S) <= y
  <2>. HIDE DEF S
  <2>. QED
    BY <1>3 DEF Min
<1>5. Shifts(d) = Min(S)
  BY DEF Shifts
<1>. DEFINE s == Min(S)
<1>6. s \in 0..Words - 2
  BY <1>4
<1>7. ASSUME s # 0
      PROVE  d[2] * WordWeight[s - 1] < d[1]
  <2>1. s - 1 \in 0..Words - 2 /\ ~ (s <= s - 1) /\ s - 1 # Words - 2
    BY <1>1, <1>6, <1>7
  <2>2. ~ (d[1] <= d[2] * WordWeight[s - 1])
    BY <1>4, <2>1
  <2>3. WordWeight[s - 1] \in Nat
    <3>1. s - 1 \in 0..Words
      BY <1>1, <2>1
    <3>. QED
      BY <3>1, Weighing
  <2>4. d[2] * WordWeight[s - 1] \in Nat
    BY <1>1, <2>3, Product
  <2>. QED
    BY <1>1, <2>2, <2>4
<1>8. s = 0 => d[1] <= d[2]
  <2>1. s = 0 => d[1] <= d[2] * WordWeight[0]
    BY <1>1, <1>4
  <2>2. WordWeight[0] = 1
    BY Weighing
  <2>. QED
    BY <1>1, <2>1, <2>2
<1>. HIDE DEF s
<1>. QED
  BY <1>5, <1>6, <1>7, <1>8 DEF s

\* Only a quotient that was not shifted can be too big.
LEMMA DividendBounds ==
    ASSUME NEW d \in Diffs
    PROVE  /\ Dividend(d) \in Nat
           /\ TooBig(d) => Shifts(d) = 0
           /\ Shifts(d) = 0 => Dividend(d) = Truediff1 * d[2]
<1>1. /\ Words \in Nat /\ Words >= 3 /\ d[1] \in Nat /\ d[2] \in Nat /\ d[1] >= 1
  BY CheckAssumption
<1>2. W \in Nat /\ W >= 1 /\ Truediff1 \in Nat /\ Truediff1 <= W
  BY Weighing
<1>3. Shifts(d) \in 0..Words - 2 /\ Shifts(d) \in 0..Words
  BY <1>1, ShiftsFound
<1>. DEFINE a == Truediff1 * d[2]  w == WordWeight[Shifts(d)]
<1>4. a \in Nat /\ w \in Nat /\ a * w \in Nat
  <2>1. w \in Nat
    BY <1>3, Weighing
  <2>2. a \in Nat
    BY <1>1, <1>2, Product
  <2>. HIDE DEF a, w
  <2>. QED
    BY <2>1, <2>2, Product
<1>5. Dividend(d) = a * w
  BY DEF Dividend
<1>6. Shifts(d) = 0 => a * w = a
  <2>1. Shifts(d) = 0 => w = 1
    BY Weighing
  <2>. HIDE DEF a, w
  <2>. QED
    BY <1>4, <2>1
<1>7. ASSUME Shifts(d) # 0
      PROVE  a * w < W * W * d[1]
  <2>. DEFINE v == WordWeight[Shifts(d) - 1]
  <2>1. Shifts(d) \in 1..Words /\ Shifts(d) - 1 \in 0..Words
    BY <1>1, <1>3, <1>7
  <2>2. v \in Nat /\ w = W * v
    BY <2>1, Weighing
  <2>3. d[2] * v < d[1]
    BY <1>7, ShiftsFound
  <2>. HIDE DEF v, w
  <2>4. a * w = (Truediff1 * W) * (d[2] * v)
    BY <1>1, <1>2, <2>2
  <2>5. d[2] * v \in Nat /\ Truediff1 * W \in Nat /\ W * W \in Nat
    BY <1>1, <1>2, <2>2, Product
  <2>6. Truediff1 * W <= W * W /\ W * W >= 1
    BY <1>2
  <2>7. (Truediff1 * W) * (d[2] * v) <= (W * W) * (d[2] * v)
    BY <2>5, <2>6, Product
  <2>8. (W * W) * (d[2] * v + 1) <= (W * W) * d[1]
    BY <1>1, <2>3, <2>5, Product
  <2>9. (W * W) * (d[2] * v + 1) = (W * W) * (d[2] * v) + W * W
    BY <2>5
  <2>10. (W * W) * (d[2] * v) \in Nat /\ (W * W) * d[1] \in Nat
    BY <1>1, <2>5, Product
  <2>11. (Truediff1 * W) * (d[2] * v) \in Nat
    BY <2>5, Product
  <2>. QED
    BY <2>4, <2>5, <2>6, <2>7, <2>8, <2>9, <2>10, <2>11
<1>8. W * W * d[1] \in Nat
  <2>1. W * W \in Nat
    BY <1>2, Product
  <2>. QED
    BY <1>1, <2>1, Product
<1>9. TooBig(d) <=> a * w >= W * W * d[1]
  BY <1>5 DEF TooBig
<1>. HIDE DEF a, w
<1>10. TooBig(d) => Shifts(d) = 0
  BY <1>4, <1>7, <1>8, <1>9
<1>. QED
  BY <1>4, <1>5, <1>6, <1>10 DEF a

\* A quotient that is not too big has two words, and is not 0 without shifts.
LEMMA QuotientBounds ==
    ASSUME NEW d \in Diffs, ~TooBig(d)
    PROVE  /\ Quotient(d) \in Nat /\ Quotient(d) < W * W
           /\ Quotient(d) * d[1] <= Dividend(d)
           /\ Dividend(d) < (Quotient(d) + 1) * d[1]
           /\ ~ (Quotient(d) = 0 /\ Shifts(d) = 0)
<1>1. d[1] \in Nat /\ d[2] \in Nat /\ d[1] >= 1
  BY CheckAssumption
<1>2. W \in Nat /\ Truediff1 \in Nat /\ Truediff1 >= 1
  BY Weighing
<1>. DEFINE x == Dividend(d)  q == x \div d[1]  r == x % d[1]
<1>3. x \in Nat /\ (Shifts(d) = 0 => x = Truediff1 * d[2])
  BY DividendBounds
<1>4. Quotient(d) = q /\ x < W * W * d[1]
  <2>1. W * W \in Nat
    BY <1>2, Product
  <2>2. W * W * d[1] \in Nat
    BY <1>1, <2>1, Product
  <2>3. Quotient(d) = q /\ ~ (x >= W * W * d[1])
    BY Zenon DEF Quotient, TooBig
  <2>. HIDE DEF x, q
  <2>. QED
    BY <1>3, <2>2, <2>3
<1>5. q \in Nat /\ r \in 0..d[1] - 1 /\ x = d[1] * q + r
  BY <1>1, <1>3, Division
<1>. HIDE DEF x, q, r
<1>6. q * d[1] \in Nat /\ q * d[1] = d[1] * q /\ (q + 1) * d[1] = q * d[1] + d[1]
  BY <1>1, <1>5
<1>7. q * d[1] <= x /\ x < (q + 1) * d[1]
  BY <1>1, <1>3, <1>5, <1>6
<1>8. q < W * W
  <2>1. W * W \in Nat /\ W * W * d[1] \in Nat
    BY <1>1, <1>2, Product
  <2>2. q * d[1] < (W * W) * d[1]
    BY <1>3, <1>4, <1>6, <1>7, <2>1
  <2>. QED
    BY <1>1, <1>5, <2>1, <2>2, Cancel
<1>9. ASSUME q = 0, Shifts(d) = 0
      PROVE  FALSE
  <2>1. d[1] <= d[2]
    BY <1>9, ShiftsFound
  <2>2. 1 * d[2] <= Truediff1 * d[2] /\ Truediff1 * d[2] \in Nat
    BY <1>1, <1>2, Product
  <2>3. x < d[1]
    BY <1>1, <1>5, <1>9
  <2>. QED
    BY <1>1, <1>3, <1>9, <2>1, <2>2, <2>3
<1>. QED
  BY <1>4, <1>5, <1>7, <1>8, <1>9 DEF x

\* t has the number m in the words k+1 and k+2, and nothing in the others.
Holds(t, k, m) ==
    /\ t \in Numbers
    /\ t[k + 1] = m % W /\ t[k + 2] = m \div W
    /\ \A i \in 1..Words : i # k + 1 /\ i # k + 2 => t[i] = 0

LEMMA NumberHeld ==
    ASSUME NEW k \in 0..Words - 2, NEW m \in Nat, NEW t, Holds(t, k, m)
    PROVE  NumberOf(t) = m * WordWeight[k]
<1>1. Words \in Nat /\ Words >= 3 /\ W \in Nat /\ W >= 1
  BY CheckAssumption, Weighing
<1>2. PICK a : SumsUp(a, t) /\ NumberOf(t) = a[Words]
  BY NumberIsSum DEF Holds
<1>3. /\ a \in [0..Words -> Nat] /\ a[0] = 0
      /\ \A i \in 1..Words : a[i] = a[i - 1] + t[i] * WordWeight[i - 1]
  BY <1>2 DEF SumsUp
<1>4. ASSUME NEW i \in 1..Words, i # k + 1, i # k + 2
      PROVE  a[i] = a[i - 1]
  <2>1. t[i] = 0 /\ WordWeight[i - 1] \in Nat
    BY <1>4, WordType DEF Holds
  <2>2. a[i - 1] \in Nat
    BY <1>1, <1>3
  <2>3. a[i] = a[i - 1] + t[i] * WordWeight[i - 1]
    BY <1>3
  <2>. QED
    BY <2>1, <2>2, <2>3
<1>5. a[k] = 0
  <2>. DEFINE T == {i \in 0..k : a[i] = 0}
  <2>1. 0 \in T
    BY <1>3
  <2>2. ASSUME NEW i \in 1..k, i - 1 \in T
        PROVE  i \in T
    <3>1. i \in 1..Words /\ i # k + 1 /\ i # k + 2
      BY <1>1
    <3>2. a[i] = a[i - 1]
      BY <1>4, <3>1
    <3>. QED
      BY <2>2, <3>2
  <2>. HIDE DEF T
  <2>3. k \in T
    BY <2>1, <2>2, InductionUpTo
  <2>. QED
    BY <2>3 DEF T
<1>6. a[k + 2] = m * WordWeight[k]
  <2>1. /\ k + 1 \in 1..Words /\ k + 2 \in 1..Words /\ k \in 0..Words
        /\ (k + 1) - 1 = k /\ (k + 2) - 1 = k + 1
    BY <1>1
  <2>2. /\ a[k + 1] = a[k] + t[k + 1] * WordWeight[k]
        /\ a[k + 2] = a[k + 1] + t[k + 2] * WordWeight[k + 1]
    BY <1>3, <2>1
  <2>3. WordWeight[k] \in Nat /\ WordWeight[k + 1] = W * WordWeight[k]
    BY <2>1, Weighing
  <2>. DEFINE q == m \div W  r == m % W  w == WordWeight[k]
  <2>4. q \in Nat /\ r \in Nat /\ m = W * q + r
    <3>1. m \div W \in Nat /\ m % W \in 0..W - 1 /\ m = W * (m \div W) + (m % W)
      BY <1>1, Division, Zenon
    <3>. QED
      BY <1>1, <3>1
  <2>5. a[k + 2] = (0 + r * w) + q * (W * w)
    BY <1>5, <2>2, <2>3 DEF Holds
  <2>. HIDE DEF q, r, w
  <2>6. w \in Nat
    BY <2>3 DEF w
  <2>7. (W * q + r) * w = r * w + q * (W * w)
    BY <1>1, <2>4, <2>6
  <2>8. r * w \in Nat
    BY <2>4, <2>6, Product
  <2>9. a[k + 2] = m * w
    BY <2>4, <2>5, <2>7, <2>8
  <2>. QED
    BY <2>9 DEF w
<1>7. a[Words] = a[k + 2]
  <2>. DEFINE n == Words - 2 - k
              T == {i \in 0..n : a[k + 2 + i] = a[k + 2]}
  <2>1. n \in Nat /\ k + 2 + n = Words
    BY <1>1
  <2>2. 0 \in T
    BY <2>1
  <2>3. ASSUME NEW i \in 1..n, i - 1 \in T
        PROVE  i \in T
    <3>1. /\ k + 2 + i \in 1..Words /\ k + 2 + i # k + 1 /\ k + 2 + i # k + 2
          /\ (k + 2 + i) - 1 = k + 2 + (i - 1)
      BY <1>1, <2>1
    <3>2. a[k + 2 + i] = a[(k + 2 + i) - 1]
      BY <1>4, <3>1
    <3>. QED
      BY <2>3, <3>1, <3>2
  <2>. HIDE DEF T, n
  <2>4. n \in 0..n
    BY <2>1
  <2>5. n \in T
    BY <2>1, <2>2, <2>3, <2>4, InductionUpTo
  <2>6. a[k + 2 + n] = a[k + 2]
    BY <2>5 DEF T
  <2>. QED
    BY <2>1, <2>6
<1>. QED
  BY <1>2, <1>6, <1>7

LEMMA TargetHolds ==
    ASSUME NEW d \in Diffs, ~TooBig(d)
    PROVE  /\ Words - 2 - Shifts(d) \in 0..Words - 2
           /\ Holds(diff_to_target(d), Words - 2 - Shifts(d), Quotient(d))
<1>1. Words \in Nat /\ Words >= 3 /\ W \in Nat /\ W >= 1
  BY CheckAssumption, Weighing
<1>2. Shifts(d) \in 0..Words - 2
  BY ShiftsFound
<1>3. Quotient(d) \in Nat /\ Quotient(d) < W * W /\ ~ (Quotient(d) = 0 /\ Shifts(d) = 0)
  BY QuotientBounds
<1>. DEFINE q == Quotient(d)  k == Words - 2 - Shifts(d)  t == diff_to_target(d)
<1>4. /\ k \in 0..Words - 2 /\ k + 1 \in 1..Words /\ k + 2 \in 1..Words
      /\ Words - 1 - Shifts(d) = k + 1 /\ Words - Shifts(d) = k + 2
  BY <1>1, <1>2
<1>5. q % W \in 0..W - 1 /\ q \div W \in 0..W - 1
  <2>1. q \div W \in Nat /\ q % W \in 0..W - 1 /\ q = W * (q \div W) + (q % W)
    BY <1>1, <1>3, Division
  <2>2. (q \div W) * W < W * W
    <3>. DEFINE x == q \div W  r == q % W
    <3>1. x \in Nat /\ r \in Nat /\ q = W * x + r
      BY <1>1, <2>1
    <3>. HIDE DEF x, r, q
    <3>2. W * x \in Nat /\ x * W = W * x
      BY <1>1, <3>1
    <3>3. x * W < W * W
      BY <1>1, <1>3, <3>1, <3>2 DEF q
    <3>. QED
      BY <3>3 DEF x
  <2>3. q \div W < W
    BY <1>1, <2>1, <2>2, Cancel
  <2>. QED
    BY <1>1, <2>1, <2>3
<1>6. t = [[[i \in 1..Words |-> 0] EXCEPT ![k + 1] = q % W] EXCEPT ![k + 2] = q \div W]
  BY <1>3, <1>4 DEF diff_to_target, Zero
<1>. HIDE DEF q, k, t
<1>7. /\ t[k + 1] = q % W /\ t[k + 2] = q \div W
      /\ \A i \in 1..Words : i # k + 1 /\ i # k + 2 => t[i] = 0
  BY <1>4, <1>6
<1>8. t \in Numbers
  <2>. DEFINE u == [[i \in 1..Words |-> 0] EXCEPT ![k + 1] = q % W]
  <2>1. [i \in 1..Words |-> 0] \in [1..Words -> 0..W - 1]
    BY <1>1
  <2>2. u \in [1..Words -> 0..W - 1]
    BY <1>4, <1>5, <2>1
  <2>3. t = [u EXCEPT ![k + 2] = q \div W]
    BY <1>6
  <2>. HIDE DEF u
  <2>4. t \in [1..Words -> 0..W - 1]
    BY <1>4, <1>5, <2>2, <2>3
  <2>. QED
    BY <2>4 DEF Numbers
<1>. QED
  BY <1>4, <1>7, <1>8 DEF Holds, q, k, t

\* A difficulty of which the top word of the target takes one byte at most.
LEMMA TopWordFits ==
    ASSUME NEW d \in Diffs, Truediff1 * d[2] < Radix * W * d[1]
    PROVE  diff_to_target(d)[Words] < Radix
<1>1. /\ Words \in Nat /\ Words >= 3 /\ Radix \in Nat /\ Radix >= 2
      /\ d[1] \in Nat /\ d[1] >= 1 /\ d[2] \in Nat
  BY CheckAssumption
<1>2. W \in Nat /\ W >= 1 /\ Truediff1 \in Nat /\ WordWeight[0] = 1
  BY Weighing
<1>3. Shifts(d) \in 0..Words - 2
  BY ShiftsFound
<1>4. ~TooBig(d)
  <2>1. Radix * W <= W * W /\ W * W \in Nat /\ Radix * W \in Nat /\ Truediff1 * d[2] \in Nat
    <3>1. Radix <= W
      BY Weighing
    <3>. QED
      BY <1>1, <1>2, <3>1, Product
  <2>2. Radix * W * d[1] <= W * W * d[1] /\ W * W * d[1] \in Nat /\ Radix * W * d[1] \in Nat
    BY <1>1, <2>1, Product
  <2>3. Dividend(d) \in Nat /\ (TooBig(d) => Dividend(d) = Truediff1 * d[2])
    BY DividendBounds
  <2>4. TooBig(d) => Dividend(d) >= W * W * d[1]
    BY DEF TooBig
  <2>. QED
    BY <2>1, <2>2, <2>3, <2>4
<1>5. Holds(diff_to_target(d), Words - 2 - Shifts(d), Quotient(d))
  BY <1>4, TargetHolds
<1>6. CASE Shifts(d) # 0
  <2>1. /\ Words \in 1..Words
        /\ Words # Words - 2 - Shifts(d) + 1 /\ Words # Words - 2 - Shifts(d) + 2
    BY <1>1, <1>3, <1>6
  <2>2. diff_to_target(d)[Words] = 0
    BY <1>5, <2>1 DEF Holds
  <2>. QED
    BY <1>1, <2>2
<1>7. CASE Shifts(d) = 0
  <2>. DEFINE q == Quotient(d)  x == q \div W  r == q % W
  <2>1. diff_to_target(d)[Words] = x
    <3>1. Words - 2 - Shifts(d) + 2 = Words
      BY <1>1, <1>7
    <3>2. diff_to_target(d)[Words - 2 - Shifts(d) + 2] = x
      BY <1>5 DEF Holds
    <3>. QED
      BY <3>1, <3>2
  <2>2. q \in Nat /\ q * d[1] <= Truediff1 * d[2]
    BY <1>2, <1>4, <1>7, DividendBounds, QuotientBounds
  <2>3. x \in Nat /\ r \in Nat /\ q = W * x + r
    <3>1. q \div W \in Nat /\ q % W \in 0..W - 1 /\ q = W * (q \div W) + (q % W)
      BY <1>2, <2>2, Division, Zenon
    <3>. QED
      BY <1>2, <3>1
  <2>. HIDE DEF q, x, r
  <2>4. Truediff1 * d[2] \in Nat /\ Radix * W \in Nat /\ Radix * W * d[1] \in Nat
    BY <1>1, <1>2, Product
  <2>5. q * d[1] \in Nat
    BY <1>1, <2>2, Product
  <2>6. q * d[1] < (Radix * W) * d[1]
    BY <2>2, <2>4, <2>5
  <2>7. q < Radix * W
    BY <1>1, <2>2, <2>4, <2>6, Cancel
  <2>8. W * x \in Nat /\ x * W = W * x
    BY <1>2, <2>3
  <2>9. x * W < Radix * W
    BY <2>3, <2>4, <2>7, <2>8
  <2>10. x < Radix
    BY <1>1, <1>2, <2>3, <2>9, Cancel
  <2>. QED
    BY <2>1, <2>10
<1>. QED
  BY <1>6, <1>7

-----------------------------------------------------------------------------
(***************************************************************************)
(* Words with their bytes swapped.                                         *)
(***************************************************************************)
\* g[i] has the lowest i bytes of v, the lowest first.
Swaps(g, v) ==
    /\ g \in [0..Bytes -> Nat] /\ g[0] = 0
    /\ \A i \in 1..Bytes : g[i] = g[i - 1] * Radix + ((v \div ByteWeight[i - 1]) % Radix)

LEMMA DigitType ==
    ASSUME NEW v \in Nat, NEW i \in 0..Bytes
    PROVE  /\ v \div ByteWeight[i] \in Nat
           /\ (v \div ByteWeight[i]) % Radix \in Nat
<1>1. ByteWeight[i] \in Nat /\ ByteWeight[i] >= 1 /\ Radix \in Nat /\ Radix >= 2
  BY CheckAssumption, Weighing
<1>2. v \div ByteWeight[i] \in Nat
  BY <1>1, Division
<1>. QED
  BY <1>1, <1>2, Division

LEMMA SwabIsSwapped ==
    ASSUME NEW v \in Nat
    PROVE  \E g : Swaps(g, v) /\ swab32(v) = g[Bytes]
<1>1. Bytes \in Nat /\ Bytes >= 2 /\ Radix \in Nat
  BY CheckAssumption
<1>. DEFINE digit == [i \in 1..Bytes |-> (v \div ByteWeight[i - 1]) % Radix]
<1>2. \A i \in 1..Bytes : (v \div ByteWeight[i - 1]) % Radix \in Nat
  <2>1. \A i \in 1..Bytes : i - 1 \in 0..Bytes
    BY <1>1
  <2>. QED
    BY <2>1, DigitType
<1>3. \A i \in 1..Bytes : digit[i] \in Nat /\ digit[i] = (v \div ByteWeight[i - 1]) % Radix
  BY <1>2
<1>. HIDE DEF digit
<1>. DEFINE step == [i \in 1..Bytes |-> [x \in Nat |-> x * Radix + digit[i]]]
<1>4. step \in [1..Bytes -> [Nat -> Nat]]
  <2>1. \A i \in 1..Bytes, x \in Nat : x * Radix + digit[i] \in Nat
    BY <1>1, <1>3
  <2>. QED
    BY <2>1
<1>5. PICK g : Recurses(g, Bytes, 0, step)
  <2>. HIDE DEF step
  <2>. QED
    BY <1>1, <1>4, RecursionExists
<1>6. g \in [0..Bytes -> Nat] /\ g[0] = 0
  BY <1>5 DEF Recurses
<1>7. ASSUME NEW i \in 1..Bytes
      PROVE  g[i] = g[i - 1] * Radix + ((v \div ByteWeight[i - 1]) % Radix)
  <2>1. g[i - 1] \in Nat
    BY <1>1, <1>6
  <2>2. step[i][g[i - 1]] = g[i - 1] * Radix + digit[i]
    BY <2>1
  <2>3. g[i] = step[i][g[i - 1]]
    BY <1>5 DEF Recurses
  <2>. QED
    BY <1>3, <2>2, <2>3, Zenon
<1>. DEFINE Def(w) == w = [i \in 0..Bytes |->
                IF i = 0 THEN 0 ELSE w[i - 1] * Radix + ((v \div ByteWeight[i - 1]) % Radix)]
<1>8. Def(g)
  <2>1. g = [i \in 0..Bytes |-> g[i]]
    BY <1>6
  <2>2. \A i \in 0..Bytes :
            g[i] = IF i = 0 THEN 0
                   ELSE g[i - 1] * Radix + ((v \div ByteWeight[i - 1]) % Radix)
    <3>1. \A i \in 0..Bytes : i # 0 => i \in 1..Bytes
      OBVIOUS
    <3>. QED
      BY <1>6, <1>7, <3>1, Zenon
  <2>. QED
    BY <2>1, <2>2, Zenon
<1>9. swab32(v) = (CHOOSE w : Def(w))[Bytes]
  BY DEF swab32
<1>10. PICK w : Def(w) /\ swab32(v) = w[Bytes]
  <2>. HIDE DEF Def
  <2>. QED
    BY <1>8, <1>9
<1>11. /\ w[0] = 0
       /\ \A i \in 1..Bytes : w[i] = w[i - 1] * Radix + ((v \div ByteWeight[i - 1]) % Radix)
  <2>1. \A i \in 0..Bytes :
            w[i] = IF i = 0 THEN 0
                   ELSE w[i - 1] * Radix + ((v \div ByteWeight[i - 1]) % Radix)
    BY <1>10, Zenon
  <2>2. 0 \in 0..Bytes /\ \A i \in 1..Bytes : i \in 0..Bytes /\ i # 0
    BY <1>1
  <2>. QED
    BY <2>1, <2>2, Zenon
<1>12. w \in [0..Bytes -> Nat]
  <2>. DEFINE T == {i \in 0..Bytes : w[i] \in Nat}
  <2>1. 0 \in T
    BY <1>1, <1>11
  <2>2. ASSUME NEW i \in 1..Bytes, i - 1 \in T
        PROVE  i \in T
    <3>1. w[i] = w[i - 1] * Radix + digit[i]
      BY <1>3, <1>11, Zenon
    <3>2. w[i - 1] \in Nat /\ digit[i] \in Nat
      BY <1>3, <2>2
    <3>3. w[i] \in Nat
      BY <1>1, <3>1, <3>2
    <3>. QED
      BY <1>1, <3>3
  <2>. HIDE DEF T
  <2>3. \A i \in 0..Bytes : i \in T
    BY <1>1, <2>1, <2>2, InductionUpTo
  <2>4. \A i \in 0..Bytes : w[i] \in Nat
    BY <2>3 DEF T
  <2>5. w = [i \in 0..Bytes |-> w[i]]
    BY <1>10
  <2>. QED
    BY <2>4, <2>5
<1>. QED
  BY <1>10, <1>11, <1>12 DEF Swaps

\* A number of one byte has the digit itself and then zeros.
LEMMA DigitsOrdered ==
    ASSUME NEW v \in Nat, NEW w \in Nat, v <= w, w < Radix, NEW i \in 0..Bytes
    PROVE  (v \div ByteWeight[i]) % Radix <= (w \div ByteWeight[i]) % Radix
<1>1. Radix \in Nat /\ Radix >= 2 /\ Bytes \in Nat
  BY CheckAssumption
<1>2. CASE i = 0
  <2>1. ByteWeight[0] = 1
    BY <1>1, WeightsGrow DEF ByteWeight
  <2>2. v \div 1 = v /\ w \div 1 = w /\ v % Radix = v /\ w % Radix = w
    BY <1>1
  <2>. QED
    BY <1>2, <2>1, <2>2
<1>3. CASE i # 0
  <2>1. ByteWeight[i] \in Nat /\ ByteWeight[i] >= Radix
    <3>1. i \in 1..Bytes
      BY <1>3
    <3>. QED
      BY <3>1, Weighing
  <2>. DEFINE b == ByteWeight[i]
  <2>2. \A u \in Nat : u < b => u \div b = 0
    <3>1. b \in Nat /\ b >= 1
      BY <1>1, <2>1
    <3>. HIDE DEF b
    <3>. QED
      BY <3>1
  <2>3. v \div b = 0 /\ w \div b = 0
    BY <1>1, <2>1, <2>2
  <2>. QED
    BY <1>1, <2>3
<1>. QED
  BY <1>2, <1>3

\* Of numbers of one byte the swapped ones have the same order.
LEMMA SwabKeepsOrder ==
    ASSUME NEW v \in Nat, NEW w \in Nat, v <= w, w < Radix
    PROVE  ~ (swab32(v) > swab32(w))
<1>1. Bytes \in Nat /\ Bytes >= 2 /\ Radix \in Nat
  BY CheckAssumption
<1>2. PICK g : Swaps(g, v) /\ swab32(v) = g[Bytes]
  BY SwabIsSwapped
<1>3. PICK h : Swaps(h, w) /\ swab32(w) = h[Bytes]
  BY SwabIsSwapped
<1>4. g \in [0..Bytes -> Nat] /\ h \in [0..Bytes -> Nat] /\ g[0] = 0 /\ h[0] = 0
  BY <1>2, <1>3 DEF Swaps
<1>. DEFINE T == {i \in 0..Bytes : g[i] <= h[i]}
<1>5. 0 \in T
  BY <1>1, <1>4
<1>6. ASSUME NEW i \in 1..Bytes, i - 1 \in T
      PROVE  i \in T
  <2>. DEFINE x == (v \div ByteWeight[i - 1]) % Radix  y == (w \div ByteWeight[i - 1]) % Radix
  <2>1. i - 1 \in 0..Bytes /\ i \in 0..Bytes
    BY <1>1
  <2>2. x \in Nat /\ y \in Nat /\ x <= y
    BY <2>1, DigitType, DigitsOrdered
  <2>3. g[i] = g[i - 1] * Radix + x /\ h[i] = h[i - 1] * Radix + y
    BY <1>2, <1>3 DEF Swaps
  <2>4. g[i - 1] \in Nat /\ h[i - 1] \in Nat /\ g[i - 1] <= h[i - 1]
    BY <1>4, <1>6, <2>1
  <2>. HIDE DEF x, y
  <2>5. g[i - 1] * Radix \in Nat /\ h[i - 1] * Radix \in Nat
        /\ g[i - 1] * Radix <= h[i - 1] * Radix
    BY <1>1, <2>4, Product
  <2>6. g[i] <= h[i]
    BY <2>2, <2>3, <2>5
  <2>. QED
    BY <2>1, <2>6
<1>. HIDE DEF T
<1>7. Bytes \in 0..Bytes
  BY <1>1
<1>8. Bytes \in T
  BY <1>1, <1>5, <1>6, <1>7, InductionUpTo
<1>9. g[Bytes] <= h[Bytes] /\ g[Bytes] \in Nat /\ h[Bytes] \in Nat
  BY <1>4, <1>7, <1>8 DEF T
<1>. QED
  BY <1>2, <1>3, <1>9

-----------------------------------------------------------------------------
(***************************************************************************)
(* The checks.                                                             *)
(***************************************************************************)
\* The target is the difficulty's, and the outcome is what the checks say.
Judged ==
    /\ diff \in Diffs /\ target = diff_to_target(diff) /\ hash \in Numbers
    /\ outcome = "submitted" => fulltest(hash, target)
    /\ outcome \notin {"none", "submitted"} =>
           HwError(hash, target) \/ ~ fulltest(hash, target)

LEMMA JudgedInit == Init => Judged
<1>1. Zero \in Numbers
  BY Weighing DEF Zero, Numbers
<1>. QED
  BY <1>1 DEF Init, Judged

LEMMA JudgedStep == Judged /\ [Next]_vars => Judged'
<1>. SUFFICES ASSUME Judged, [Next]_vars
              PROVE  Judged'
  OBVIOUS
<1>1. CASE Evaluate
  <2>1. /\ diff' \in Diffs /\ target' = diff_to_target(diff') /\ target' = target
        /\ hash' \in Numbers
    BY <1>1 DEF Evaluate, Judged
  <2>2. CASE HwError(hash', target)
    BY <1>1, <2>1, <2>2 DEF Evaluate, Judged
  <2>3. CASE ~ HwError(hash', target) /\ fulltest(hash', target)
    BY <1>1, <2>1, <2>3 DEF Evaluate, Judged
  <2>4. CASE ~ HwError(hash', target) /\ ~ fulltest(hash', target)
    BY <1>1, <2>1, <2>4 DEF Evaluate, Judged
  <2>. QED
    BY <2>2, <2>3, <2>4
<1>2. CASE SetTarget
  <2>1. Zero \in Numbers
    BY Weighing DEF Zero, Numbers
  <2>. QED
    BY <1>2, <2>1 DEF SetTarget, Judged
<1>3. CASE UNCHANGED vars
  BY <1>3 DEF vars, Judged
<1>. QED
  BY <1>1, <1>2, <1>3 DEF Next

LEMMA AlwaysJudged == Spec => []Judged
BY JudgedInit, JudgedStep, PTL DEF Spec

\* The number of the target, and the limit that it approximates.
LEMMA TargetNumber ==
    ASSUME NEW d \in Diffs, ~TooBig(d)
    PROVE  LET k == Words - 2 - Shifts(d)  w == WordWeight[k]
               limit == Truediff1 * WordWeight[Words - 2] * d[2] IN
           /\ diff_to_target(d) \in Numbers
           /\ w \in Nat /\ limit \in Nat
           /\ NumberOf(diff_to_target(d)) \in Nat
           /\ NumberOf(diff_to_target(d)) * d[1] <= limit
           /\ limit < (NumberOf(diff_to_target(d)) + w) * d[1]
<1>1. /\ Words \in Nat /\ Words >= 3 /\ d[1] \in Nat /\ d[2] \in Nat
      /\ Truediff1 \in Nat /\ W \in Nat
  BY CheckAssumption, Weighing
<1>. DEFINE s == Shifts(d)  k == Words - 2 - s  q == Quotient(d)
            a == Truediff1 * d[2]  u == WordWeight[s]  w == WordWeight[k]
            n == NumberOf(diff_to_target(d))
<1>2. k \in 0..Words - 2 /\ Holds(diff_to_target(d), k, q)
  BY TargetHolds
<1>3. /\ q \in Nat /\ q * d[1] <= a * u /\ a * u < (q + 1) * d[1]
  BY QuotientBounds DEF Dividend
<1>4. n = q * w
  <2>. HIDE DEF k, q
  <2>1. q \in Nat
    BY <1>3
  <2>. QED
    BY <1>2, <2>1, NumberHeld
<1>5. s \in 0..Words /\ k \in 0..Words /\ s + k = Words - 2 /\ Words - 2 \in 0..Words
  BY <1>1, ShiftsFound
<1>6. /\ u \in Nat /\ w \in Nat /\ w >= 1 /\ WordWeight[Words - 2] \in Nat
  BY <1>5, Weighing
<1>7. u * w = WordWeight[Words - 2]
  <2>. HIDE DEF s, k
  <2>1. s + k <= Words
    BY <1>1, <1>5
  <2>. QED
    BY <1>1, <1>5, <2>1, WeightsMultiply DEF WordWeight
<1>8. diff_to_target(d) \in Numbers
  BY <1>2 DEF Holds
<1>. DEFINE limit == Truediff1 * WordWeight[Words - 2] * d[2]
<1>9. limit = (a * u) * w /\ a \in Nat
  <2>1. Truediff1 * (u * w) * d[2] = (Truediff1 * d[2]) * u * w
    <3>. HIDE DEF u, w
    <3>. QED
      BY <1>1, <1>6
  <2>2. a \in Nat
    BY <1>1, Product
  <2>. QED
    BY <1>7, <2>1, <2>2
<1>. HIDE DEF s, k, q, a, u, w, n, limit
<1>10. a * u \in Nat /\ (a * u) * w \in Nat /\ q * d[1] \in Nat /\ (q + 1) * d[1] \in Nat
  BY <1>1, <1>3, <1>6, <1>9, Product
<1>11. (q * d[1]) * w <= (a * u) * w
  BY <1>3, <1>6, <1>10, Product
<1>12. (a * u) * w < ((q + 1) * d[1]) * w
  <2>1. (a * u + 1) * w <= ((q + 1) * d[1]) * w
    BY <1>3, <1>6, <1>10, Product
  <2>2. (a * u + 1) * w = (a * u) * w + w
    BY <1>6, <1>10
  <2>3. ((q + 1) * d[1]) * w \in Nat
    BY <1>6, <1>10, Product
  <2>. QED
    BY <1>6, <1>10, <2>1, <2>2, <2>3
<1>13. /\ (q * d[1]) * w = (q * w) * d[1]
       /\ ((q + 1) * d[1]) * w = (q * w + w) * d[1]
       /\ q * w \in Nat
  BY <1>1, <1>3, <1>6
<1>. QED
  BY <1>4, <1>6, <1>8, <1>9, <1>10, <1>11, <1>12, <1>13 DEF s, k, w, n, limit

\* A quotient that is too big: every hash has the difficulty.
LEMMA AnyHashMeets ==
    ASSUME NEW d \in Diffs, TooBig(d), NEW h \in Numbers
    PROVE  /\ diff_to_target(d) = Ones /\ Ones \in Numbers
           /\ NumberOf(h) * d[1] <= Truediff1 * WordWeight[Words - 2] * d[2]
<1>1. /\ Words \in Nat /\ Words >= 3 /\ d[1] \in Nat /\ d[2] \in Nat
      /\ Truediff1 \in Nat /\ W \in Nat /\ W >= 1
  <2>1. W \in Nat /\ W >= 2 /\ Truediff1 \in Nat
    BY Weighing
  <2>. QED
    BY <2>1, CheckAssumption
<1>2. /\ Shifts(d) = 0 /\ Dividend(d) = Truediff1 * d[2] /\ Quotient(d) = 0
      /\ Truediff1 * d[2] >= W * W * d[1]
  BY DividendBounds DEF TooBig, Quotient
<1>3. diff_to_target(d) = Ones /\ Ones \in Numbers
  BY <1>1, <1>2 DEF diff_to_target, Ones, Numbers
<1>. DEFINE w == WordWeight[Words - 2]  n == NumberOf(h)
<1>4. n \in Nat /\ w \in Nat /\ n < W * W * w
  <2>1. PICK low : SumsUp(low, h) /\ NumberOf(h) = low[Words]
    BY NumberIsSum
  <2>2. Words \in 0..Words /\ Words - 1 \in 1..Words /\ Words \in 1..Words
    BY <1>1
  <2>3. n < WordWeight[Words]
    BY <2>1, <2>2, LowWordsAreSmall
  <2>4. /\ w \in Nat /\ WordWeight[Words - 1] = W * w
        /\ WordWeight[Words] = W * WordWeight[Words - 1]
    <3>1. (Words - 1) - 1 = Words - 2 /\ Words - 2 \in 0..Words
      BY <1>1
    <3>. QED
      BY <2>2, <3>1, Weighing
  <2>. HIDE DEF w
  <2>5. WordWeight[Words] = W * W * w
    BY <1>1, <2>4
  <2>. QED
    BY <2>3, <2>4, <2>5, NumberType
<1>. HIDE DEF w, n
<1>5. n * d[1] <= (W * W * w) * d[1]
  <2>1. W * W \in Nat
    BY <1>1, Product
  <2>2. W * W * w \in Nat
    BY <1>4, <2>1, Product
  <2>. QED
    BY <1>1, <1>4, <2>2, Product
<1>6. (W * W * d[1]) * w <= (Truediff1 * d[2]) * w
  <2>1. W * W \in Nat
    BY <1>1, Product
  <2>2. W * W * d[1] \in Nat /\ Truediff1 * d[2] \in Nat
    BY <1>1, <2>1, Product
  <2>. QED
    BY <1>2, <1>4, <2>2, Product
<1>7. /\ (W * W * w) * d[1] = (W * W * d[1]) * w
      /\ (Truediff1 * d[2]) * w = Truediff1 * w * d[2]
      /\ (W * W * w) * d[1] \in Nat /\ Truediff1 * w * d[2] \in Nat /\ n * d[1] \in Nat
  BY <1>1, <1>4
<1>. QED
  BY <1>3, <1>5, <1>6, <1>7 DEF w, n

\* Every share that fulltest lets through has the difficulty that the pool asked
\* for: for any difficulties, words and hashes.
THEOREM SharesMeetTheDifficulty == Spec => []SubmittedMeetsDifficulty
<1>1. ASSUME Judged
      PROVE  SubmittedMeetsDifficulty
  <2>. SUFFICES ASSUME outcome = "submitted"
                PROVE  NumberOf(hash) * diff[1] <= Limit
    BY DEF SubmittedMeetsDifficulty
  <2>1. diff \in Diffs /\ target = diff_to_target(diff) /\ hash \in Numbers
    BY <1>1 DEF Judged
  <2>2. CASE TooBig(diff)
    BY <2>1, <2>2, AnyHashMeets DEF Limit
  <2>3. CASE ~TooBig(diff)
    <3>1. /\ target \in Numbers /\ Limit \in Nat /\ NumberOf(target) \in Nat
          /\ NumberOf(target) * diff[1] <= Limit
      BY <2>1, <2>3, TargetNumber DEF Limit
    <3>2. fulltest(hash, target)
      BY <1>1 DEF Judged
    <3>3. NumberOf(hash) <= NumberOf(target)
      BY <2>1, <3>1, <3>2, FulltestComparesNumbers
    <3>4. NumberOf(hash) \in Nat /\ diff[1] \in Nat
      BY <2>1, NumberType, CheckAssumption
    <3>5. /\ NumberOf(hash) * diff[1] <= NumberOf(target) * diff[1]
          /\ NumberOf(hash) * diff[1] \in Nat /\ NumberOf(target) * diff[1] \in Nat
      BY <3>1, <3>3, <3>4, Product
    <3>. QED
      BY <3>1, <3>5
  <2>. QED
    BY <2>2, <2>3
<1>. QED
  BY <1>1, AlwaysJudged, PTL

\* The target that diff_to_target makes is the difficulty's, up to the place of
\* the lower of its two words; all ones when the quotient has more than 64 bits.
THEOREM TargetsAreTight == Spec => []TargetIsTight
<1>1. ASSUME Judged
      PROVE  TargetIsTight
  <2>1. diff \in Diffs /\ target = diff_to_target(diff)
    BY <1>1 DEF Judged
  <2>2. CASE TooBig(diff)
    <3>1. target = Ones
      BY <1>1, <2>1, <2>2, AnyHashMeets DEF Judged
    <3>. QED
      BY <3>1 DEF TargetIsTight, Ones
  <2>3. CASE ~TooBig(diff)
    BY <2>1, <2>3, TargetNumber DEF TargetIsTight, Limit
  <2>. QED
    BY <2>2, <2>3
<1>. QED
  BY <1>1, AlwaysJudged, PTL

\* As long as the top word of every target has one byte at most, a hash within
\* the target is submitted: the check against hardware errors keeps none back.
THEOREM NoShareIsAnHwError ==
    ASSUME \A d \in Diffs : diff_to_target(d)[Words] < Radix
    PROVE  Spec => []SharesAreNotHwErrors
<1>1. ASSUME Judged
      PROVE  SharesAreNotHwErrors
  <2>. SUFFICES ASSUME outcome # "none", NumberOf(hash) <= NumberOf(target)
                PROVE  outcome = "submitted"
    BY DEF SharesAreNotHwErrors
  <2>1. diff \in Diffs /\ target = diff_to_target(diff) /\ hash \in Numbers
    BY <1>1 DEF Judged
  <2>2. target \in Numbers /\ target[Words] < Radix
    BY <1>1, <2>1, TargetNumber, AnyHashMeets, Zenon
  <2>3. fulltest(hash, target)
    BY <2>1, <2>2, FulltestComparesNumbers
  <2>4. Words \in 1..Words
    BY CheckAssumption
  <2>5. hash[Words] <= target[Words]
    BY <2>1, <2>2, <2>3, <2>4, TopWordsOrdered
  <2>6. hash[Words] \in Nat /\ target[Words] \in Nat
    BY <2>1, <2>2, <2>4, WordType
  <2>7. ~ HwError(hash, target)
    BY <2>2, <2>5, <2>6, SwabKeepsOrder DEF HwError
  <2>. QED
    BY <1>1, <2>3, <2>7 DEF Judged
<1>. QED
  BY <1>1, AlwaysJudged, PTL
=============================================================================
