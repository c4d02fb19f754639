-------------------------- MODULE StratumLineProofs --------------------------
(***************************************************************************)
(* Proofs about the bytes on a stratum connection, for lines, buffers and  *)
(* parts of any length: the buffer has room for what is put into it, the   *)
(* senders take turns, what is reported as sent has been sent, and lines   *)
(* are returned as they were sent.                                         *)
(***************************************************************************)
EXTENDS StratumLineProps, FiniteSetTheorems, TLAPS

(***************************************************************************)
(* Induction over the naturals, for a set of them.                         *)
(***************************************************************************)
Below == {ss \in Nat \X Nat : ss[1] < ss[2]}

\* Every set of naturals has a least member.
LEMMA LeastNat ==
    ASSUME NEW T \in SUBSET Nat, T # {}
    PROVE  \E x \in T : \A y \in T : x <= y
<1>1. IsWellFoundedOn(Below, Nat)
  BY NatLessThanWellFounded, Zenon DEF OpToRel, Below
<1>2. PICK x \in T : \A y \in T : ~ (<<y, x>> \in Below)
  BY <1>1, WFMin
<1>3. \A y \in T : <<y, x>> \in Below <=> y < x
  BY DEF Below
<1>4. \A y \in T : ~ (y < x)
  BY <1>2, <1>3, Zenon
<1>. QED
  BY <1>4

LEMMA Induction ==
    ASSUME NEW T \in SUBSET Nat, 0 \in T, \A n \in T : n + 1 \in T
    PROVE  T = Nat
<1>. SUFFICES ASSUME Nat \ T # {} PROVE FALSE
  OBVIOUS
<1>1. PICK x \in Nat \ T : \A y \in Nat \ T : x <= y
  BY LeastNat
<1>2. x - 1 \in Nat /\ x - 1 \in T
  BY <1>1
<1>. QED
  BY <1>1, <1>2

(***************************************************************************)
(* The flattening of a sequence of sequences, one more at a time.          *)
(***************************************************************************)
\* f flattens the first n members of ss.
Flattens(f, ss, n) ==
    f = [i \in 1..n |-> IF i = 1 THEN ss[i] ELSE f[i - 1] \o ss[i]]

LEMMA FlattensOneMore ==
    ASSUME NEW ss, NEW n \in Nat, NEW f, Flattens(f, ss, n)
    PROVE  \E g : Flattens(g, ss, n + 1)
<1>. DEFINE g == [i \in 1..(n + 1) |->
                    IF i <= n THEN f[i] ELSE IF i = 1 THEN ss[i] ELSE f[n] \o ss[i]]
<1>0. f = [i \in 1..n |-> IF i = 1 THEN ss[i] ELSE f[i - 1] \o ss[i]]
  BY DEF Flattens
<1>1. ASSUME NEW i \in 1..(n + 1)
      PROVE  g[i] = IF i = 1 THEN ss[i] ELSE g[i - 1] \o ss[i]
  <2>1. CASE i <= n
    <3>1. i \in 1..n /\ (i # 1 => i - 1 \in 1..n)
      BY <2>1
    <3>2. f[i] = IF i = 1 THEN ss[i] ELSE f[i - 1] \o ss[i]
      BY <1>0, <3>1, Zenon
    <3>. QED
      BY <2>1, <3>1, <3>2
  <2>2. CASE i = n + 1
    BY <2>2
  <2>. QED
    BY <2>1, <2>2
<1>2. g = [i \in 1..(n + 1) |-> g[i]]
  BY Zenon
<1>3. g = [i \in 1..(n + 1) |-> IF i = 1 THEN ss[i] ELSE g[i - 1] \o ss[i]]
  BY <1>1, <1>2, Zenon
<1>. QED
  BY <1>3 DEF Flattens

LEMMA FlattensExists == \A ss : \A n \in Nat : \E f : Flattens(f, ss, n)
<1>. SUFFICES ASSUME NEW ss PROVE \A n \in Nat : \E f : Flattens(f, ss, n)
  OBVIOUS
<1>. DEFINE T == {n \in Nat : \E f : Flattens(f, ss, n)}
<1>1. 0 \in T
  <2>1. Flattens([i \in 1..0 |-> ss], ss, 0)
    BY DEF Flattens
  <2>. QED
    BY <2>1
<1>2. \A n \in T : n + 1 \in T
  BY FlattensOneMore
<1>3. T = Nat
  BY <1>1, <1>2, Induction
<1>. QED
  BY <1>3

\* s and t have the same first n members.
BeginAlike(s, t, n) == \A i \in 1..n : s[i] = t[i]

\* Two sequences of sequences that begin alike are flattened alike so far.
LEMMA FlattensAlike ==
    ASSUME NEW ss, NEW tt, NEW n \in Nat, NEW m \in Nat, n <= m,
           NEW f, Flattens(f, ss, n), NEW g, Flattens(g, tt, m),
           BeginAlike(ss, tt, n)
    PROVE  BeginAlike(f, g, n)
<1>. DEFINE T == {i \in Nat : i \in 1..n => f[i] = g[i]}
<1>0. /\ \A i \in 1..n : f[i] = IF i = 1 THEN ss[i] ELSE f[i - 1] \o ss[i]
      /\ \A i \in 1..m : g[i] = IF i = 1 THEN tt[i] ELSE g[i - 1] \o tt[i]
  BY Zenon DEF Flattens
<1>1. 0 \in T
  OBVIOUS
<1>2. ASSUME NEW i \in T
      PROVE  i + 1 \in T
  BY <1>0 DEF BeginAlike
<1>3. T = Nat
  BY <1>1, <1>2, Induction
<1>. QED
  BY <1>3 DEF BeginAlike

\* What FlattenSeq is.
LEMMA FlattenIs ==
    ASSUME NEW S, NEW ss \in Seq(S), Len(ss) # 0
    PROVE  \E f : Flattens(f, ss, Len(ss)) /\ FlattenSeq(ss) = f[Len(ss)]
<1>1. \E f : Flattens(f, ss, Len(ss))
  BY FlattensExists
<1>2. Flattens(CHOOSE f : Flattens(f, ss, Len(ss)), ss, Len(ss))
  BY <1>1, Zenon
<1>3. FlattenSeq(ss) = (CHOOSE f : Flattens(f, ss, Len(ss)))[Len(ss)]
  BY Zenon DEF FlattenSeq, Flattens
<1>. QED
  BY <1>2, <1>3, Zenon

LEMMA FlattenEmpty == FlattenSeq(<<>>) = <<>>
<1>1. Len(<<>>) = 0
  OBVIOUS
<1>. QED
  BY <1>1, Zenon DEF FlattenSeq

LEMMA FlattensAt ==
    ASSUME NEW f, NEW ss, NEW n \in Nat, Flattens(f, ss, n), NEW i \in 1..n
    PROVE  /\ i = 1 => f[i] = ss[i]
           /\ i # 1 => f[i] = f[i - 1] \o ss[i]
BY DEF Flattens

LEMMA FlattenAppend ==
    ASSUME NEW S, NEW ss \in Seq(Seq(S)), NEW s \in Seq(S)
    PROVE  FlattenSeq(Append(ss, s)) = FlattenSeq(ss) \o s
<1>1. PICK n \in Nat : n = Len(ss)
  OBVIOUS
<1>2. PICK tt : tt = Append(ss, s)
  OBVIOUS
<1>3. PICK m \in Nat : m = n + 1
  OBVIOUS
<1>4. tt \in Seq(Seq(S)) /\ Len(tt) = m /\ tt[m] = s /\ m # 0
  BY <1>1, <1>2, <1>3
<1>5. BeginAlike(ss, tt, n)
  BY <1>1, <1>2 DEF BeginAlike
<1>6. PICK g : Flattens(g, tt, Len(tt)) /\ FlattenSeq(tt) = g[Len(tt)]
  BY <1>4, FlattenIs, Zenon
<1>7. Flattens(g, tt, m) /\ FlattenSeq(tt) = g[m]
  BY <1>4, <1>6, Zenon
<1>8. m \in 1..m /\ n <= m
  BY <1>3
<1>9. (m = 1 => g[m] = s) /\ (m # 1 => g[m] = g[m - 1] \o s)
  BY <1>3, <1>4, <1>7, <1>8, FlattensAt, Zenon
<1>10. CASE n = 0
  <2>1. Len(ss) = 0
    BY <1>1, <1>10, Zenon
  <2>2. ss = <<>>
    BY <2>1
  <2>3. FlattenSeq(ss) \o s = s
    BY <2>2, FlattenEmpty
  <2>4. m = 1
    BY <1>3, <1>10
  <2>. QED
    BY <1>2, <1>7, <1>9, <2>3, <2>4, Zenon
<1>11. CASE n # 0
  <2>1. Len(ss) # 0
    BY <1>1, <1>11
  <2>2. PICK f : Flattens(f, ss, Len(ss)) /\ FlattenSeq(ss) = f[Len(ss)]
    BY <2>1, FlattenIs, Zenon
  <2>3. Flattens(f, ss, n) /\ FlattenSeq(ss) = f[n]
    BY <1>1, <2>2, Zenon
  <2>4. n \in 1..n /\ m # 1 /\ m - 1 = n
    BY <1>3, <1>11
  <2>5. BeginAlike(f, g, n)
    <3>1. n \in Nat /\ m \in Nat /\ n <= m
      BY <1>1, <1>3, <1>8
    <3>2. Flattens(f, ss, n) /\ Flattens(g, tt, m)
      BY <1>7, <2>3
    <3>. QED
      BY ONLY <1>5, <3>1, <3>2, FlattensAlike, Zenon
  <2>6. g[m] = f[n] \o s
    BY <1>9, <2>4, <2>5, Zenon DEF BeginAlike
  <2>. QED
    BY <1>2, <1>7, <2>3, <2>6, Zenon
<1>. QED
  BY <1>10, <1>11

LEMMA FlattenType ==
    ASSUME NEW S, NEW ss \in Seq(Seq(S))
    PROVE  FlattenSeq(ss) \in Seq(S)
<1>. DEFINE T == {n \in Nat : \A tt \in Seq(Seq(S)) : Len(tt) = n => FlattenSeq(tt) \in Seq(S)}
<1>1. 0 \in T
  <2>1. \A tt \in Seq(Seq(S)) : Len(tt) = 0 => tt = <<>>
    OBVIOUS
  <2>2. <<>> \in Seq(S)
    OBVIOUS
  <2>. QED
    BY <2>1, <2>2, FlattenEmpty
<1>2. ASSUME NEW n \in T
      PROVE  n + 1 \in T
  <2>. SUFFICES ASSUME NEW tt \in Seq(Seq(S)), Len(tt) = n + 1
                PROVE  FlattenSeq(tt) \in Seq(S)
    OBVIOUS
  <2>. DEFINE uu == SubSeq(tt, 1, n)
  <2>1. uu \in Seq(Seq(S)) /\ Len(uu) = n /\ tt[n + 1] \in Seq(S)
    OBVIOUS
  <2>2. tt = Append(uu, tt[n + 1])
    OBVIOUS
  <2>3. FlattenSeq(uu) \in Seq(S)
    BY <2>1
  <2>4. FlattenSeq(tt) = FlattenSeq(uu) \o tt[n + 1]
    BY <2>1, <2>2, FlattenAppend
  <2>. QED
    BY <2>1, <2>3, <2>4
<1>3. T = Nat
  BY <1>1, <1>2, Induction
<1>. QED
  BY <1>3

(***************************************************************************)
(* The bytes of a sequence that are no newline, one more at a time.        *)
(***************************************************************************)
\* f[i] is what is left of the first i bytes of s.
Sifts(f, s, n) ==
    f = [i \in 0..n |-> IF i = 0 THEN <<>>
                        ELSE IF s[i] = NewLine THEN f[i - 1] ELSE Append(f[i - 1], s[i])]

\* The step that f makes at i.
SiftStep(f, s, i) ==
    /\ s[i] = NewLine => f[i] = f[i - 1]
    /\ s[i] # NewLine => f[i] = Append(f[i - 1], s[i])

LEMMA SiftsAt ==
    ASSUME NEW f, NEW s, NEW n \in Nat, Sifts(f, s, n)
    PROVE  /\ f[0] = <<>>
           /\ \A i \in 1..n : SiftStep(f, s, i)
<1>1. f[0] = <<>>
  BY DEF Sifts
<1>2. ASSUME NEW i \in 1..n
      PROVE  SiftStep(f, s, i)
  <2>1. i \in 0..n /\ i # 0
    OBVIOUS
  <2>. QED
    BY <2>1, Zenon DEF Sifts, SiftStep
<1>. QED
  BY <1>1, <1>2

LEMMA ConcatAppend ==
    \A a \in Seq(Bytes), b \in Seq(Bytes), y \in Bytes :
        Append(a \o b, y) = a \o Append(b, y)
OBVIOUS

LEMMA SiftsOneMore ==
    ASSUME NEW s, NEW n \in Nat, NEW f, Sifts(f, s, n)
    PROVE  \E g : Sifts(g, s, n + 1)
<1>. DEFINE Step(h, i) == IF i = 0 THEN <<>>
                          ELSE IF s[i] = NewLine THEN h[i - 1] ELSE Append(h[i - 1], s[i])
            g == [i \in 0..(n + 1) |->
                    IF i <= n THEN f[i]
                    ELSE IF s[i] = NewLine THEN f[n] ELSE Append(f[n], s[i])]
<1>0. f = [i \in 0..n |-> Step(f, i)]
  BY DEF Sifts
<1>1. ASSUME NEW i \in 0..(n + 1)
      PROVE  g[i] = Step(g, i)
  <2>1. CASE i <= n
    <3>1. i \in 0..n /\ (i # 0 => i - 1 \in 0..n)
      BY <2>1
    <3>2. f[i] = Step(f, i)
      BY <1>0, <3>1, Zenon
    <3>. QED
      BY <2>1, <3>1, <3>2
  <2>2. CASE i = n + 1
    BY <2>2
  <2>. QED
    BY <2>1, <2>2
<1>2. g = [i \in 0..(n + 1) |-> g[i]]
  BY Zenon
<1>3. g = [i \in 0..(n + 1) |-> Step(g, i)]
  BY <1>1, <1>2, Zenon
<1>. QED
  BY <1>3 DEF Sifts

LEMMA SiftsExists == \A s : \A n \in Nat : \E f : Sifts(f, s, n)
<1>. SUFFICES ASSUME NEW s PROVE \A n \in Nat : \E f : Sifts(f, s, n)
  OBVIOUS
<1>. DEFINE T == {n \in Nat : \E f : Sifts(f, s, n)}
<1>1. 0 \in T
  <2>1. Sifts([i \in 0..0 |-> <<>>], s, 0)
    BY DEF Sifts
  <2>. QED
    BY <2>1
<1>2. \A n \in T : n + 1 \in T
  BY SiftsOneMore
<1>3. T = Nat
  BY <1>1, <1>2, Induction
<1>. QED
  BY <1>3

\* Of two sequences that begin alike, the same is left so far.
LEMMA SiftsAlike ==
    ASSUME NEW s, NEW t, NEW n \in Nat, NEW m \in Nat, n <= m,
           NEW f, Sifts(f, s, n), NEW g, Sifts(g, t, m),
           BeginAlike(s, t, n)
    PROVE  f[n] = g[n]
<1>. DEFINE T == {i \in Nat : i \in 0..n => f[i] = g[i]}
<1>1. 0 \in T
  <2>1. f[0] = <<>> /\ g[0] = <<>>
    BY SiftsAt, Zenon
  <2>. QED
    BY <2>1
<1>2. ASSUME NEW i \in T
      PROVE  i + 1 \in T
  <2>. SUFFICES ASSUME i + 1 \in 0..n PROVE f[i + 1] = g[i + 1]
    OBVIOUS
  <2>0. PICK j \in Nat : j = i + 1
    OBVIOUS
  <2>1. j \in 1..n /\ j \in 1..m /\ j - 1 = i /\ i \in 0..n
    BY <2>0
  <2>2. f[i] = g[i] /\ s[j] = t[j]
    BY <2>1 DEF BeginAlike
  <2>3. SiftStep(f, s, j)
    BY <2>1, SiftsAt, Zenon
  <2>4. SiftStep(g, t, j)
    BY <2>1, SiftsAt, Zenon
  <2>5. f[j] = g[j]
    BY <2>1, <2>2, <2>3, <2>4, Zenon DEF SiftStep
  <2>. QED
    BY <2>0, <2>5
<1>3. T = Nat
  BY <1>1, <1>2, Induction
<1>4. n \in T /\ n \in 0..n
  BY <1>3
<1>. QED
  BY <1>4

\* What WithoutNewLines is.
LEMMA SiftIs ==
    ASSUME NEW s \in Seq(Nat)
    PROVE  \E f : Sifts(f, s, Len(s)) /\ WithoutNewLines(s) = f[Len(s)]
<1>0. Len(s) \in Nat
  OBVIOUS
<1>1. \E f : Sifts(f, s, Len(s))
  BY <1>0, SiftsExists, Zenon
<1>2. Sifts(CHOOSE f : Sifts(f, s, Len(s)), s, Len(s))
  BY <1>1, Zenon
<1>3. WithoutNewLines(s) = (CHOOSE f : Sifts(f, s, Len(s)))[Len(s)]
  BY Zenon DEF WithoutNewLines, Sifts
<1>. QED
  BY <1>2, <1>3, Zenon

LEMMA SiftEmpty == WithoutNewLines(<<>>) = <<>>
<1>1. Len(<<>>) = 0 /\ <<>> \in Seq(Nat) /\ 0 \in Nat
  OBVIOUS
<1>2. PICK f : Sifts(f, <<>>, 0) /\ WithoutNewLines(<<>>) = f[0]
  BY <1>1, SiftIs, Zenon
<1>. QED
  BY <1>1, <1>2, SiftsAt, Zenon

LEMMA SiftAppend ==
    ASSUME NEW s \in Seq(Nat), NEW x \in Nat
    PROVE  /\ x = NewLine => WithoutNewLines(Append(s, x)) = WithoutNewLines(s)
           /\ x # NewLine => WithoutNewLines(Append(s, x)) = Append(WithoutNewLines(s), x)
<1>1. PICK n \in Nat : n = Len(s)
  OBVIOUS
<1>2. PICK t : t = Append(s, x)
  OBVIOUS
<1>3. PICK m \in Nat : m = n + 1
  OBVIOUS
<1>4. t \in Seq(Nat) /\ Len(t) = m /\ t[m] = x /\ m \in 1..m /\ n <= m /\ m - 1 = n
  BY <1>1, <1>2, <1>3
<1>5. BeginAlike(s, t, n)
  BY <1>1, <1>2 DEF BeginAlike
<1>6. PICK g : Sifts(g, t, Len(t)) /\ WithoutNewLines(t) = g[Len(t)]
  BY <1>4, SiftIs, Zenon
<1>7. Sifts(g, t, m) /\ WithoutNewLines(t) = g[m]
  BY <1>4, <1>6, Zenon
<1>8. PICK f : Sifts(f, s, Len(s)) /\ WithoutNewLines(s) = f[Len(s)]
  BY SiftIs, Zenon
<1>9. Sifts(f, s, n) /\ WithoutNewLines(s) = f[n]
  BY <1>1, <1>8, Zenon
<1>10. f[n] = g[n]
  <2>1. n \in Nat /\ m \in Nat /\ n <= m
    BY <1>1, <1>3, <1>4
  <2>2. Sifts(f, s, n) /\ Sifts(g, t, m)
    BY <1>7, <1>9
  <2>. QED
    BY ONLY <1>5, <2>1, <2>2, SiftsAlike, SMT
<1>11. SiftStep(g, t, m)
  BY <1>3, <1>4, <1>7, SiftsAt, Zenon
<1>. QED
  BY <1>2, <1>4, <1>7, <1>9, <1>10, <1>11, Zenon DEF SiftStep

LEMMA SiftType ==
    ASSUME NEW s \in Seq(Nat)
    PROVE  WithoutNewLines(s) \in Seq(Bytes)
<1>. DEFINE T == {n \in Nat : \A t \in Seq(Nat) : Len(t) = n => WithoutNewLines(t) \in Seq(Bytes)}
<1>1. 0 \in T
  <2>1. \A t \in Seq(Nat) : Len(t) = 0 => t = <<>>
    OBVIOUS
  <2>2. <<>> \in Seq(Bytes)
    OBVIOUS
  <2>. QED
    BY <2>1, <2>2, SiftEmpty
<1>2. ASSUME NEW n \in T
      PROVE  n + 1 \in T
  <2>. SUFFICES ASSUME NEW t \in Seq(Nat), Len(t) = n + 1
                PROVE  WithoutNewLines(t) \in Seq(Bytes)
    OBVIOUS
  <2>. PICK u \in Seq(Nat), x \in Nat : t = Append(u, x) /\ Len(u) = n
    <3>1. SubSeq(t, 1, n) \in Seq(Nat) /\ t[n + 1] \in Nat /\ Len(SubSeq(t, 1, n)) = n
      OBVIOUS
    <3>2. t = Append(SubSeq(t, 1, n), t[n + 1])
      OBVIOUS
    <3>. QED
      BY <3>1, <3>2
  <2>1. WithoutNewLines(u) \in Seq(Bytes)
    OBVIOUS
  <2>2. x # NewLine => x \in Bytes
    BY DEF Bytes
  <2>3. /\ x = NewLine => WithoutNewLines(t) = WithoutNewLines(u)
        /\ x # NewLine => WithoutNewLines(t) = Append(WithoutNewLines(u), x)
    BY SiftAppend
  <2>4. x # NewLine => Append(WithoutNewLines(u), x) \in Seq(Bytes)
    BY ONLY <2>1, <2>2
  <2>. QED
    BY ONLY <2>1, <2>3, <2>4, Zenon
<1>3. T = Nat
  BY <1>1, <1>2, Induction
<1>. QED
  BY <1>3

\* What is left of two parts is left of the whole.
LEMMA SiftConcat ==
    ASSUME NEW s \in Seq(Nat), NEW t \in Seq(Nat)
    PROVE  WithoutNewLines(s \o t) = WithoutNewLines(s) \o WithoutNewLines(t)
<1>. DEFINE T == {n \in Nat : \A u \in Seq(Nat) : Len(u) = n =>
                      WithoutNewLines(s \o u) = WithoutNewLines(s) \o WithoutNewLines(u)}
<1>0. WithoutNewLines(s) \in Seq(Bytes)
  BY SiftType
<1>1. 0 \in T
  <2>. SUFFICES ASSUME NEW u \in Seq(Nat), Len(u) = 0
                PROVE  WithoutNewLines(s \o u) = WithoutNewLines(s) \o WithoutNewLines(u)
    OBVIOUS
  <2>1. u = <<>> /\ s \o u = s
    OBVIOUS
  <2>2. WithoutNewLines(s) \o <<>> = WithoutNewLines(s)
    BY <1>0
  <2>. QED
    BY <2>1, <2>2, SiftEmpty
<1>2. ASSUME NEW n \in T
      PROVE  n + 1 \in T
  <2>. SUFFICES ASSUME NEW u \in Seq(Nat), Len(u) = n + 1
                PROVE  WithoutNewLines(s \o u) = WithoutNewLines(s) \o WithoutNewLines(u)
    OBVIOUS
  <2>. PICK v \in Seq(Nat), x \in Nat : u = Append(v, x) /\ Len(v) = n
    <3>1. SubSeq(u, 1, n) \in Seq(Nat) /\ u[n + 1] \in Nat /\ Len(SubSeq(u, 1, n)) = n
      OBVIOUS
    <3>2. u = Append(SubSeq(u, 1, n), u[n + 1])
      OBVIOUS
    <3>. QED
      BY <3>1, <3>2
  <2>1. WithoutNewLines(s \o v) = WithoutNewLines(s) \o WithoutNewLines(v)
    OBVIOUS
  <2>2. s \o u = Append(s \o v, x) /\ s \o v \in Seq(Nat)
    BY SMTT(30)
  <2>3. /\ x = NewLine => WithoutNewLines(u) = WithoutNewLines(v)
        /\ x # NewLine => WithoutNewLines(u) = Append(WithoutNewLines(v), x)
    BY SiftAppend
  <2>4. /\ x = NewLine => WithoutNewLines(s \o u) = WithoutNewLines(s \o v)
        /\ x # NewLine => WithoutNewLines(s \o u) = Append(WithoutNewLines(s \o v), x)
    BY ONLY <2>2, x \in Nat, SiftAppend, ZenonT(60)
  <2>5. WithoutNewLines(v) \in Seq(Bytes)
    BY SiftType
  <2>6. x # NewLine => x \in Bytes
    BY DEF Bytes
  <2>7. CASE x = NewLine
    BY <2>1, <2>3, <2>4, <2>7
  <2>8. CASE x # NewLine
    <3>2. x \in Bytes
      BY <2>6, <2>8
    <3>3. Append(WithoutNewLines(s) \o WithoutNewLines(v), x)
             = WithoutNewLines(s) \o Append(WithoutNewLines(v), x)
      BY ONLY <1>0, <2>5, <3>2, ConcatAppend, Zenon
    <3>. QED
      BY <2>1, <2>3, <2>4, <2>8, <3>3, Zenon
  <2>. QED
    BY <2>7, <2>8
<1>3. T = Nat
  BY <1>1, <1>2, Induction
<1>4. t \in Seq(Nat) /\ Len(t) \in T
  BY <1>3
<1>. QED
  BY <1>4

\* Nothing is taken from a sequence without newline, and all of one newline.
LEMMA SiftLine ==
    ASSUME NEW s \in Seq(Bytes)
    PROVE  WithoutNewLines(s) = s
<1>. DEFINE T == {n \in Nat : \A t \in Seq(Bytes) : Len(t) = n => WithoutNewLines(t) = t}
<1>1. 0 \in T
  <2>1. \A t \in Seq(Bytes) : Len(t) = 0 => t = <<>>
    OBVIOUS
  <2>. QED
    BY <2>1, SiftEmpty
<1>2. ASSUME NEW n \in T
      PROVE  n + 1 \in T
  <2>. SUFFICES ASSUME NEW t \in Seq(Bytes), Len(t) = n + 1
                PROVE  WithoutNewLines(t) = t
    OBVIOUS
  <2>. PICK u \in Seq(Bytes), x \in Bytes : t = Append(u, x) /\ Len(u) = n
    <3>1. SubSeq(t, 1, n) \in Seq(Bytes) /\ t[n + 1] \in Bytes /\ Len(SubSeq(t, 1, n)) = n
      OBVIOUS
    <3>2. t = Append(SubSeq(t, 1, n), t[n + 1])
      OBVIOUS
    <3>. QED
      BY <3>1, <3>2
  <2>1. WithoutNewLines(u) = u
    OBVIOUS
  <2>2. x \in Nat /\ x # NewLine
    BY DEF Bytes
  <2>3. u \in Seq(Nat)
    BY DEF Bytes
  <2>. QED
    BY <2>1, <2>2, <2>3, SiftAppend
<1>3. T = Nat
  BY <1>1, <1>2, Induction
<1>. QED
  BY <1>3

LEMMA SiftNewLine == WithoutNewLines(<<NewLine>>) = <<>>
<1>1. <<>> \in Seq(Nat) /\ NewLine \in Nat /\ Append(<<>>, NewLine) = <<NewLine>>
  BY DEF NewLine
<1>. QED
  BY <1>1, SiftAppend, SiftEmpty, Zenon

(***************************************************************************)
(* Where newlines are in a buffer.                                         *)
(***************************************************************************)
LEMMA NextNewLineIs ==
    ASSUME NEW s \in Seq(Nat), NEW i \in 1..(Len(s) + 1)
    PROVE  /\ NextNewLine(s, i) \in i..(Len(s) + 1)
           /\ NextNewLine(s, i) = Len(s) + 1 \/ s[NextNewLine(s, i)] = NewLine
           /\ \A k \in i..(NextNewLine(s, i) - 1) : s[k] # NewLine
<1>. DEFINE T == {j \in i..(Len(s) + 1) : j = Len(s) + 1 \/ s[j] = NewLine}
            Is(j) == /\ j = Len(s) + 1 \/ s[j] = NewLine
                     /\ \A k \in i..(j - 1) : s[k] # NewLine
<1>1. T \in SUBSET Nat /\ Len(s) + 1 \in T
  OBVIOUS
<1>2. PICK j \in T : \A k \in T : j <= k
  BY <1>1, LeastNat, Zenon
<1>3. j \in i..(Len(s) + 1) /\ Is(j)
  BY <1>2
<1>. HIDE DEF Is
<1>4. \E l \in i..(Len(s) + 1) : Is(l)
  BY <1>3, Zenon
<1>5. NextNewLine(s, i) = CHOOSE l \in i..(Len(s) + 1) : Is(l)
  BY DEF NextNewLine, Is
<1>6. NextNewLine(s, i) \in i..(Len(s) + 1) /\ Is(NextNewLine(s, i))
  BY <1>4, <1>5, Zenon
<1>. QED
  BY <1>6, Zenon DEF Is

LEMMA NextOtherIs ==
    ASSUME NEW s \in Seq(Nat)
    PROVE  /\ NextOther(s) \in 1..(Len(s) + 1)
           /\ NextOther(s) = Len(s) + 1 \/ s[NextOther(s)] # NewLine
           /\ \A k \in 1..(NextOther(s) - 1) : s[k] = NewLine
<1>. DEFINE T == {j \in 1..(Len(s) + 1) : j = Len(s) + 1 \/ s[j] # NewLine}
            Is(j) == /\ j = Len(s) + 1 \/ s[j] # NewLine
                     /\ \A k \in 1..(j - 1) : s[k] = NewLine
<1>1. T \in SUBSET Nat /\ Len(s) + 1 \in T
  OBVIOUS
<1>2. PICK j \in T : \A k \in T : j <= k
  BY <1>1, LeastNat, Zenon
<1>3. j \in 1..(Len(s) + 1) /\ Is(j)
  BY <1>2
<1>. HIDE DEF Is
<1>4. \E l \in 1..(Len(s) + 1) : Is(l)
  BY <1>3, Zenon
<1>5. NextOther(s) = CHOOSE l \in 1..(Len(s) + 1) : Is(l)
  BY DEF NextOther, Is
<1>6. NextOther(s) \in 1..(Len(s) + 1) /\ Is(NextOther(s))
  BY <1>4, <1>5, Zenon
<1>. QED
  BY <1>6, Zenon DEF Is

LEMMA NoNewLineIs ==
    ASSUME NEW s \in Seq(Nat), ~ HasNewLine(s)
    PROVE  s \in Seq(Bytes)
BY DEF HasNewLine, Bytes

\* A part of a sequence.
LEMMA PartIs ==
    ASSUME NEW s \in Seq(Nat), NEW i \in 1..(Len(s) + 1), NEW j \in (i - 1)..Len(s)
    PROVE  /\ SubSeq(s, i, j) \in Seq(Nat)
           /\ Len(SubSeq(s, i, j)) = j - i + 1
           /\ \A k \in 1..(j - i + 1) : SubSeq(s, i, j)[k] = s[i + k - 1]
OBVIOUS

\* A token is cut out of s: it is a line, what is left is no longer than s, and
\* with no newline in front of the token it is all that follows its newline.
LEMMA TokenIs ==
    ASSUME NEW s \in Seq(Nat), NEW first \in 1..Len(s), NEW end \in first..(Len(s) + 1),
           \A k \in first..(end - 1) : s[k] # NewLine
    PROVE  /\ SubSeq(s, first, end - 1) \in Seq(Bytes)
           /\ Remainder(s, first, end) \in Seq(Nat)
           /\ Len(Remainder(s, first, end)) <= Len(s)
<1>1. SubSeq(s, first, end - 1) \in Seq(Bytes)
  <2>1. first \in 1..(Len(s) + 1) /\ end - 1 \in (first - 1)..Len(s)
    OBVIOUS
  <2>2. PICK t : t = SubSeq(s, first, end - 1)
    OBVIOUS
  <2>3. /\ t \in Seq(Nat) /\ Len(t) = end - 1 - first + 1
        /\ \A k \in 1..(end - 1 - first + 1) : t[k] = s[first + k - 1]
    BY <2>1, <2>2, PartIs, Zenon
  <2>4. \A k \in 1..(end - 1 - first + 1) : s[first + k - 1] # NewLine
    OBVIOUS
  <2>5. ~ HasNewLine(t)
    BY <2>3, <2>4, Zenon DEF HasNewLine
  <2>. QED
    BY <2>2, <2>3, <2>5, NoNewLineIs, Zenon
<1>2. CASE Len(s) <= end - first + 1
  <2>1. Remainder(s, first, end) = <<>>
    BY <1>2 DEF Remainder
  <2>. QED
    BY <1>1, <2>1
<1>3. CASE Len(s) > end - first + 1 /\ first = 1
  <2>1. Remainder(s, first, end) = SubSeq(s, end - first + 2, Len(s))
    <3>1. ~ (Len(s) <= end - first + 1) /\ ~ (first > 1)
      BY <1>3
    <3>. QED
      BY <1>3, <3>1, Zenon DEF Remainder
  <2>2. end - first + 2 \in 1..(Len(s) + 1) /\ Len(s) \in (end - first + 2 - 1)..Len(s)
    BY <1>3
  <2>3. Remainder(s, first, end) \in Seq(Nat) /\ Len(Remainder(s, first, end)) = Len(s) - (end - first + 2) + 1
    BY ONLY <2>1, <2>2, s \in Seq(Nat), PartIs, SMTT(30)
  <2>. QED
    BY <1>1, <1>3, <2>3
<1>4. CASE Len(s) > end - first + 1 /\ first > 1
  <2>1. Remainder(s, first, end) = SubSeq(s, end - first + 2, end - 1)
    <3>1. ~ (Len(s) <= end - first + 1) /\ ~ (first = 1)
      BY <1>4
    <3>. QED
      BY <1>4, <3>1, Zenon DEF Remainder
  <2>2. end - first + 2 \in 1..(Len(s) + 1) /\ end - 1 \in (end - first + 2 - 1)..Len(s)
    BY <1>4
  <2>3. Remainder(s, first, end) \in Seq(Nat) /\ Len(Remainder(s, first, end)) = end - 1 - (end - first + 2) + 1
    BY ONLY <2>1, <2>2, s \in Seq(Nat), PartIs, SMTT(30)
  <2>. QED
    BY <1>1, <1>4, <2>3
<1>. QED
  BY <1>2, <1>3, <1>4

(***************************************************************************)
(* Types.                                                                  *)
(***************************************************************************)
LEMMA SizeGrows ==
    ASSUME NEW n \in Nat, size \in Nat
    PROVE  Grown(n) \in Nat /\ Grown(n) > n
<1>1. RBUFSIZE \in Nat /\ RBUFSIZE > 0
  BY LineAssumption
<1>2. n % RBUFSIZE \in 0..(RBUFSIZE - 1)
  BY <1>1
<1>. QED
  BY <1>1, <1>2 DEF Grown

LEMMA PoolLineIs ==
    ASSUME NEW l \in Nat \ {0}, NEW n \in Nat
    PROVE  [p \in 1..n |-> Byte(l, p)] \in Seq(Bytes)
<1>1. \A p \in 1..n : 10 * l + p \in Nat \ {0}
  OBVIOUS
<1>. QED
  BY <1>1 DEF Byte, Bytes, NewLine

LEMMA LineIs ==
    ASSUME NEW a \in Nat \ {0}
    PROVE  /\ Line(a) \in Seq(Nat) /\ Len(Line(a)) = OutLength
           /\ \A p \in 1..OutLength : Line(a)[p] = NewLine <=> p = OutLength
<1>1. OutLength \in Nat \ {0}
  BY LineAssumption
<1>2. \A p \in 1..OutLength : 10 * a + p \in Nat \ {0}
  BY <1>1
<1>. QED
  BY <1>1, <1>2 DEF Line, Byte, NewLine

LEMMA EmptyIs ==
    /\ <<>> \in Seq(Nat)
    /\ <<>> \in Seq(Seq(Bytes))
    /\ <<>> \in Seq([sent : 0..OutLength, ok : BOOLEAN])
OBVIOUS

LEMMA TypesInit == Init => TypeOK
<1>1. RBUFSIZE \in Nat /\ 0 \in 0..OutLength /\ 0 \in Nat
  BY LineAssumption
<1>2. FALSE \in BOOLEAN
  OBVIOUS
<1>. QED
  BY <1>1, <1>2, EmptyIs, Zenon DEF Init, TypeOK

LEMMA TypesStep == TypeOK /\ [Next]_vars => TypeOK'
<1>. SUFFICES ASSUME TypeOK, [Next]_vars PROVE TypeOK'
  OBVIOUS
<1>. USE DEF TypeOK
<1>1. CASE Connect
  <2>1. sent' \in 0..OutLength
    BY <1>1, LineAssumption DEF Connect
  <2>2. sessions' \in Nat
    BY <1>1 DEF Connect
  <2>. QED
    BY EmptyIs, <1>1, <2>1, <2>2 DEF Connect
<1>2. CASE Disconnect
  BY EmptyIs, <1>2 DEF Disconnect, history, writer, pool
<1>3. ASSUME NEW n \in Lengths, PoolSends(n)
      PROVE  TypeOK'
  <2>. DEFINE l == Len(poolLines) + 1
              line == [p \in 1..n |-> Byte(l, p)]
  <2>1. n \in Nat /\ l \in Nat \ {0}
    BY LineAssumption
  <2>2. line \in Seq(Bytes)
    BY <2>1, PoolLineIs
  <2>3. line \in Seq(Nat) /\ <<NewLine>> \in Seq(Nat)
    BY <2>2 DEF Bytes, NewLine
  <2>4. poolLines' = Append(poolLines, line) /\ arriving' = arriving \o line \o <<NewLine>>
    BY <1>3 DEF PoolSends
  <2>. HIDE DEF line
  <2>5. poolLines' \in Seq(Seq(Bytes)) /\ arriving' \in Seq(Nat)
    BY <2>2, <2>3, <2>4
  <2>. QED
    BY <1>3, <2>5 DEF PoolSends, reader, writer, history
<1>4. CASE PoolReads
  BY <1>4 DEF PoolReads, reader, history
<1>5. CASE PoolCloses
  BY <1>5 DEF PoolCloses, reader, writer, history
<1>6. CASE StartRead
  BY <1>6 DEF StartRead, history, writer, pool
<1>7. CASE ReadTimesOut
  BY <1>7 DEF ReadTimesOut, history, writer, pool
<1>8. CASE Receive
  <2>1. PICK n \in 1..RECVSIZE : /\ n <= Len(arriving)
                                 /\ sockbuf' = sockbuf \o SubSeq(arriving, 1, n)
                                 /\ arriving' = SubSeq(arriving, n + 1, Len(arriving))
    BY <1>8 DEF Receive
  <2>2. n \in Nat /\ n >= 1
    BY LineAssumption
  <2>3. SubSeq(arriving, 1, n) \in Seq(Nat) /\ arriving' \in Seq(Nat)
    <3>1. 1 \in 1..(Len(arriving) + 1) /\ n \in (1 - 1)..Len(arriving)
      BY <2>1, <2>2
    <3>2. n + 1 \in 1..(Len(arriving) + 1) /\ Len(arriving) \in (n + 1 - 1)..Len(arriving)
      BY <2>1, <2>2
    <3>. QED
      BY ONLY <2>1, <3>1, <3>2, arriving \in Seq(Nat), PartIs, SMT
  <2>4. sockbuf' \in Seq(Nat)
    BY <2>1, <2>3
  <2>5. Len(sockbuf') + 1 \in Nat
    BY <2>4
  <2>6. size' \in Nat
    BY <1>8, <2>5, SizeGrows DEF Receive
  <2>7. reading' \in {"recv", "token"} /\ cut' \in BOOLEAN
    BY <1>8 DEF Receive
  <2>. QED
    BY <1>8, <2>3, <2>4, <2>6, <2>7 DEF Receive, writer
<1>9. CASE ReceiveEnds
  BY <1>9 DEF ReceiveEnds, history, writer, pool
<1>10. CASE Tokenise
  <2>. DEFINE first == NextOther(sockbuf)
              end == NextNewLine(sockbuf, first)
  <2>1. first \in 1..(Len(sockbuf) + 1)
    BY NextOtherIs
  <2>2. /\ end \in first..(Len(sockbuf) + 1)
        /\ \A k \in first..(end - 1) : sockbuf[k] # NewLine
    BY <2>1, NextNewLineIs
  <2>. HIDE DEF first, end
  <2>3. CASE first > Len(sockbuf)
    BY <1>10, <2>3 DEF Tokenise, writer, pool, first
  <2>4. CASE ~ (first > Len(sockbuf))
    <3>1. /\ delivered' = Append(delivered, SubSeq(sockbuf, first, end - 1))
          /\ sockbuf' = Remainder(sockbuf, first, end)
          /\ skipped' = (skipped \/ first > 1) /\ reading' = "idle"
          /\ UNCHANGED <<open, sessions, size, cut, writer, pool>>
      BY <1>10, <2>4 DEF Tokenise, first, end
    <3>2. first \in 1..Len(sockbuf)
      BY <2>1, <2>4
    <3>3. /\ SubSeq(sockbuf, first, end - 1) \in Seq(Bytes)
          /\ Remainder(sockbuf, first, end) \in Seq(Nat)
      BY <2>2, <3>2, TokenIs
    <3>4. delivered' \in Seq(Seq(Bytes)) /\ sockbuf' \in Seq(Nat)
      BY <3>1, <3>3
    <3>5. skipped' \in BOOLEAN
      BY <3>1
    <3>. QED
      BY <3>1, <3>4, <3>5 DEF writer, pool
  <2>. QED
    BY <2>3, <2>4
<1>11. ASSUME NEW t \in Senders, BeginSend(t)
       PROVE  TypeOK'
  BY <1>11, LineAssumption DEF BeginSend, reader, history, pool
<1>12. ASSUME NEW t \in Senders, SendSome(t)
       PROVE  TypeOK'
  <2>1. PICK n \in 1..(Room - Len(leaving)) :
           /\ sent + n <= OutLength
           /\ leaving' = leaving \o SubSeq(Line(Current), sent + 1, sent + n)
           /\ sent' = sent + n
    BY <1>12 DEF SendSome
  <2>2. Current \in Nat \ {0}
    BY DEF Current
  <2>3. Line(Current) \in Seq(Nat) /\ Len(Line(Current)) = OutLength
    BY <2>2, LineIs
  <2>4. n \in Nat /\ n >= 1 /\ OutLength \in Nat /\ sent \in Nat
    BY LineAssumption
  <2>5. SubSeq(Line(Current), sent + 1, sent + n) \in Seq(Nat) /\ sent' \in 0..OutLength
    <3>1. sent + 1 \in 1..(OutLength + 1) /\ sent + n \in (sent + 1 - 1)..OutLength
      BY <2>1, <2>4
    <3>2. SubSeq(Line(Current), sent + 1, sent + n) \in Seq(Nat)
      BY ONLY <2>3, <3>1, PartIs, SMT
    <3>. QED
      BY <2>1, <2>4, <3>2
  <2>6. leaving' \in Seq(Nat)
    BY <2>1, <2>5
  <2>. QED
    BY <1>12, <2>5, <2>6 DEF SendSome, reader, history, pool
<1>13. ASSUME NEW t \in Senders, NEW ok \in BOOLEAN, Return(ok)
       PROVE  TypeOK'
  <2>1. [sent |-> sent, ok |-> ok] \in [sent : 0..OutLength, ok : BOOLEAN]
    OBVIOUS
  <2>2. attempts' \in Seq([sent : 0..OutLength, ok : BOOLEAN])
    BY <1>13, <2>1 DEF Return
  <2>. QED
    BY <1>13, <2>2 DEF Return, reader, history, pool
<1>14. CASE UNCHANGED vars
  BY <1>14 DEF vars, reader, writer, pool, history
<1>15. \A t \in Senders : Writes(t) => TypeOK'
  BY <1>11, <1>12, <1>13 DEF Writes, SendDone, SendFails
<1>. QED
  BY <1>1, <1>2, <1>3, <1>4, <1>5, <1>6, <1>7, <1>8, <1>9, <1>10, <1>14, <1>15, Zenon
     DEF Next, Reads, Pool

\* The types of the two ends and of the bytes between them; in particular what
\* is returned as a line contains no newline.
THEOREM LineTypes == Spec => []TypeOK
<1>. QED
  BY TypesInit, TypesStep, PTL DEF Spec

(***************************************************************************)
(* The buffer.                                                             *)
(***************************************************************************)
\* What a step can do to the buffer.
LEMMA BufferStep ==
    ASSUME TypeOK, [Next]_vars
    PROVE  \/ UNCHANGED <<sockbuf, size>>
           \/ sockbuf' = <<>> /\ size' = size
           \/ Len(sockbuf') <= Len(sockbuf) /\ size' = size
           \/ size' = Grown(Len(sockbuf') + 1)
<1>1. CASE Connect
  BY <1>1 DEF Connect
<1>2. CASE Disconnect
  BY <1>2 DEF Disconnect
<1>3. CASE Tokenise
  <2>. DEFINE first == NextOther(sockbuf)
              end == NextNewLine(sockbuf, first)
  <2>0. sockbuf \in Seq(Nat)
    BY DEF TypeOK
  <2>1. first \in 1..(Len(sockbuf) + 1)
    BY <2>0, NextOtherIs
  <2>2. /\ end \in first..(Len(sockbuf) + 1)
        /\ \A k \in first..(end - 1) : sockbuf[k] # NewLine
    BY <2>0, <2>1, NextNewLineIs
  <2>. HIDE DEF first, end
  <2>3. CASE first > Len(sockbuf)
    BY <1>3, <2>3 DEF Tokenise, first
  <2>4. CASE ~ (first > Len(sockbuf))
    <3>1. sockbuf' = Remainder(sockbuf, first, end) /\ size' = size
      BY <1>3, <2>4 DEF Tokenise, first, end
    <3>2. first \in 1..Len(sockbuf)
      BY <2>0, <2>1, <2>4
    <3>3. Len(Remainder(sockbuf, first, end)) <= Len(sockbuf)
      BY <2>0, <2>2, <3>2, TokenIs
    <3>. QED
      BY <3>1, <3>3
  <2>. QED
    BY <2>3, <2>4
<1>4. CASE Receive
  BY <1>4 DEF Receive
<1>. QED
  BY <1>1, <1>2, <1>3, <1>4
     DEF Next, Reads, Pool, Writes, StartRead, ReadTimesOut, ReceiveEnds, PoolSends, PoolReads,
         PoolCloses, BeginSend, SendSome, SendDone, SendFails, Return, vars, reader

LEMMA BufferFitsInit == Init => BufferFits
<1>1. RBUFSIZE \in Nat /\ RBUFSIZE >= 2
  BY LineAssumption
<1>. QED
  BY <1>1 DEF Init, BufferFits

LEMMA BufferFitsStep == TypeOK /\ TypeOK' /\ BufferFits /\ [Next]_vars => BufferFits'
<1>. SUFFICES ASSUME TypeOK, TypeOK', BufferFits, [Next]_vars PROVE BufferFits'
  OBVIOUS
<1>1. /\ sockbuf \in Seq(Nat) /\ size \in Nat
      /\ sockbuf' \in Seq(Nat) /\ size' \in Nat
  BY DEF TypeOK
<1>2. PICK l, m, k, n \in Nat : l = Len(sockbuf) /\ m = Len(sockbuf') /\ k = size /\ n = size'
  BY <1>1
<1>3. l \in Nat /\ m \in Nat /\ k \in Nat /\ l + 2 <= k
  BY <1>1, <1>2 DEF BufferFits
<1>4. CASE UNCHANGED <<sockbuf, size>>
  BY <1>4 DEF BufferFits
<1>5. CASE sockbuf' = <<>> /\ size' = size
  <2>1. m = 0 /\ n = k
    BY <1>2, <1>5
  <2>. QED
    BY <1>2, <1>3, <2>1 DEF BufferFits
<1>6. CASE Len(sockbuf') <= Len(sockbuf) /\ size' = size
  BY <1>2, <1>3, <1>6 DEF BufferFits
<1>7. CASE size' = Grown(Len(sockbuf') + 1)
  <2>1. Grown(m + 1) > m + 1
    BY <1>1, <1>3, SizeGrows
  <2>2. n > m + 1
    BY <1>2, <1>7, <2>1
  <2>. QED
    BY <1>2, <1>3, <2>2 DEF BufferFits
<1>. QED
  BY <1>4, <1>5, <1>6, <1>7, BufferStep

\* The string in the buffer leaves two bytes of it, whatever the pool sends,
\* however recv cuts it up, and however often stratum_recv_line gave up on a line.
THEOREM BufferNeverOverflows == Spec => []BufferFits
<1>1. Init => TypeOK /\ BufferFits
  BY TypesInit, BufferFitsInit
<1>2. TypeOK /\ BufferFits /\ [Next]_vars => (TypeOK /\ BufferFits)'
  BY TypesStep, BufferFitsStep
<1>. QED
  BY <1>1, <1>2, PTL DEF Spec

(***************************************************************************)
(* What is written to the socket.                                          *)
(***************************************************************************)
LEMMA ConcatAssoc ==
    \A a \in Seq(Nat), b \in Seq(Nat), c \in Seq(Nat) : (a \o b) \o c = a \o (b \o c)
OBVIOUS

LEMMA ConcatOne == \A a \in Seq(Nat), x \in Nat : Append(a, x) = a \o <<x>>
OBVIOUS

LEMMA ConcatType == \A a \in Seq(Nat), b \in Seq(Nat) : a \o b \in Seq(Nat)
OBVIOUS

LEMMA ConcatIs ==
    /\ \A a \in Seq(Nat), b \in Seq(Nat) : a \o b \in Seq(Nat)
    /\ \A a \in Seq(Nat) : a \o <<>> = a /\ <<>> \o a = a
    /\ \A a \in Seq(Nat), b \in Seq(Nat), c \in Seq(Nat) : (a \o b) \o c = a \o (b \o c)
BY ConcatAssoc, ConcatType, SMTT(30)

\* Two neighbouring parts of a sequence make one.
LEMMA PartsJoin ==
    ASSUME NEW s \in Seq(Nat), NEW i \in 0..Len(s), NEW j \in i..Len(s)
    PROVE  SubSeq(s, 1, i) \o SubSeq(s, i + 1, j) = SubSeq(s, 1, j)
<1>1. /\ SubSeq(s, 1, i) \in Seq(Nat) /\ Len(SubSeq(s, 1, i)) = i
      /\ \A k \in 1..i : SubSeq(s, 1, i)[k] = s[k]
  OBVIOUS
<1>2. /\ SubSeq(s, i + 1, j) \in Seq(Nat) /\ Len(SubSeq(s, i + 1, j)) = j - i
      /\ \A k \in 1..(j - i) : SubSeq(s, i + 1, j)[k] = s[i + k]
  OBVIOUS
<1>3. /\ SubSeq(s, 1, j) \in Seq(Nat) /\ Len(SubSeq(s, 1, j)) = j
      /\ \A k \in 1..j : SubSeq(s, 1, j)[k] = s[k]
  OBVIOUS
<1>. QED
  BY <1>1, <1>2, <1>3

Attempt == [sent : 0..OutLength, ok : BOOLEAN]

\* The part of each line that was written when its sending ended, and the part
\* of the line that is being sent.
Parts(tries) == [a \in 1..Len(tries) |-> SubSeq(Line(a), 1, tries[a].sent)]
Begun     == IF lock = Free THEN <<>> ELSE SubSeq(Line(Current), 1, sent)

Turns == got \o leaving = FlattenSeq(Parts(attempts)) \o Begun

LEMMA PartOfLineIs ==
    ASSUME NEW a \in Nat \ {0}, NEW n \in 0..OutLength
    PROVE  SubSeq(Line(a), 1, n) \in Seq(Nat)
<1>1. Line(a) \in Seq(Nat) /\ Len(Line(a)) = OutLength
  BY LineIs
<1>2. OutLength \in Nat
  BY LineAssumption
<1>. QED
  BY <1>1, <1>2

\* t is s with x behind it, member by member.
IsAppend(t, s, x) ==
    /\ Len(t) = Len(s) + 1
    /\ t[Len(s) + 1] = x
    /\ \A k \in 1..Len(s) : t[k] = s[k]
    /\ t = [k \in 1..(Len(s) + 1) |-> t[k]]

LEMMA AppendIs ==
    ASSUME NEW S, NEW s \in Seq(S), NEW x \in S
    PROVE  Append(s, x) \in Seq(S) /\ IsAppend(Append(s, x), s, x)
<1>1. /\ Append(s, x) \in Seq(S)
      /\ Len(Append(s, x)) = Len(s) + 1
      /\ Append(s, x)[Len(s) + 1] = x
      /\ \A k \in 1..Len(s) : Append(s, x)[k] = s[k]
  OBVIOUS
<1>2. \A t \in Seq(S) : t = [k \in 1..Len(t) |-> t[k]]
  OBVIOUS
<1>3. Append(s, x) = [k \in 1..(Len(s) + 1) |-> Append(s, x)[k]]
  BY <1>1, <1>2, Zenon
<1>. QED
  BY <1>1, <1>3, Zenon DEF IsAppend

LEMMA PartsType ==
    ASSUME NEW tries \in Seq(Attempt)
    PROVE  /\ Parts(tries) \in Seq(Seq(Nat)) /\ Len(Parts(tries)) = Len(tries)
           /\ FlattenSeq(Parts(tries)) \in Seq(Nat)
<1>0. \A a \in 1..Len(tries) : tries[a] \in Attempt
  OBVIOUS
<1>1. ASSUME NEW a \in 1..Len(tries)
      PROVE  SubSeq(Line(a), 1, tries[a].sent) \in Seq(Nat)
  <2>1. a \in Nat \ {0}
    OBVIOUS
  <2>2. tries[a].sent \in 0..OutLength
    BY <1>0 DEF Attempt
  <2>. QED
    BY <2>1, <2>2, PartOfLineIs
<1>2. Len(tries) \in Nat
  OBVIOUS
<1>3. Parts(tries) \in Seq(Seq(Nat)) /\ Len(Parts(tries)) = Len(tries)
  BY <1>1, <1>2 DEF Parts
<1>. QED
  BY <1>3, FlattenType

LEMMA PartsAppend ==
    ASSUME NEW tries \in Seq(Attempt), NEW r \in Attempt
    PROVE  Parts(Append(tries, r)) = Append(Parts(tries), SubSeq(Line(Len(tries) + 1), 1, r.sent))
<1>1. PICK n \in Nat : n = Len(tries)
  OBVIOUS
<1>2. PICK more : more = Append(tries, r)
  OBVIOUS
<1>3. PICK q : q = SubSeq(Line(n + 1), 1, r.sent)
  OBVIOUS
<1>4. Len(more) = n + 1 /\ more[n + 1] = r /\ \A a \in 1..n : more[a] = tries[a]
  <2>1. IsAppend(more, tries, r)
    BY <1>2, AppendIs
  <2>. QED
    BY <1>1, <2>1, Zenon DEF IsAppend
<1>5. q \in Seq(Nat)
  <2>1. n + 1 \in Nat \ {0} /\ r.sent \in 0..OutLength
    BY <1>1 DEF Attempt
  <2>. QED
    BY <1>3, <2>1, PartOfLineIs
<1>6. PICK p : p = Parts(tries)
  OBVIOUS
<1>7. p \in Seq(Seq(Nat)) /\ Len(p) = n
  BY <1>1, <1>6, PartsType
<1>8. /\ Append(p, q)[n + 1] = q
      /\ \A a \in 1..n : Append(p, q)[a] = p[a]
      /\ Append(p, q) = [a \in 1..(n + 1) |-> Append(p, q)[a]]
  <2>1. IsAppend(Append(p, q), p, q)
    BY <1>5, <1>7, AppendIs
  <2>. QED
    BY <1>7, <2>1, Zenon DEF IsAppend
<1>9. \A a \in 1..n : p[a] = SubSeq(Line(a), 1, tries[a].sent)
  BY <1>1, <1>6, Zenon DEF Parts
<1>10. Parts(more) = [a \in 1..(n + 1) |-> SubSeq(Line(a), 1, more[a].sent)]
  BY <1>4, Zenon DEF Parts
<1>11. ASSUME NEW a \in 1..(n + 1)
       PROVE  SubSeq(Line(a), 1, more[a].sent) = Append(p, q)[a]
  <2>1. CASE a \in 1..n
    BY <1>4, <1>8, <1>9, <2>1, Zenon
  <2>2. CASE a = n + 1
    BY <1>3, <1>4, <1>8, <2>2, Zenon
  <2>3. a \in 1..n \/ a = n + 1
    BY <1>1
  <2>. QED
    BY <2>1, <2>2, <2>3
<1>12. Parts(more) = Append(p, q)
  BY <1>8, <1>10, <1>11, Zenon
<1>. QED
  BY <1>1, <1>2, <1>3, <1>6, <1>12, Zenon

LEMMA TurnsInit == Init => Turns
<1>. SUFFICES ASSUME Init PROVE Turns
  OBVIOUS
<1>1. attempts = <<>> /\ got = <<>> /\ leaving = <<>> /\ lock = Free
  BY DEF Init
<1>2. Parts(<<>>) = <<>>
  BY DEF Parts
<1>. QED
  BY <1>1, <1>2, FlattenEmpty, ConcatIs, EmptyIs, Zenon DEF Turns, Begun

LEMMA TurnsStep == TypeOK /\ Turns /\ [Next]_vars => Turns'
<1>. SUFFICES ASSUME TypeOK, Turns, [Next]_vars PROVE Turns'
  OBVIOUS
<1>0. /\ got \in Seq(Nat) /\ leaving \in Seq(Nat) /\ attempts \in Seq(Attempt)
      /\ sent \in 0..OutLength /\ OutLength \in Nat /\ Current \in Nat \ {0}
  BY LineAssumption DEF TypeOK, Attempt, Current
<1>1. FlattenSeq(Parts(attempts)) \in Seq(Nat)
  BY <1>0, PartsType
<1>2. CASE Connect
  <2>1. attempts' = <<>> /\ got' = <<>> /\ leaving' = <<>> /\ lock' = Free
    BY <1>2 DEF Connect
  <2>2. Parts(<<>>) = <<>>
    BY DEF Parts
  <2>. QED
    BY <2>1, <2>2, FlattenEmpty, ConcatIs, EmptyIs, Zenon DEF Turns, Begun
<1>3. CASE PoolReads
  <2>1. got' = got \o leaving /\ leaving' = <<>> /\ UNCHANGED <<lock, sent, attempts>>
    BY <1>3 DEF PoolReads
  <2>2. got' \o leaving' = got \o leaving
    BY <1>0, <2>1, ConcatIs, Zenon
  <2>. QED
    BY <2>1, <2>2 DEF Turns, Begun, Current
<1>4. ASSUME NEW t \in Senders, BeginSend(t)
      PROVE  Turns'
  <2>1. lock = Free /\ lock' = t /\ t # Free /\ sent' = 0 /\ UNCHANGED <<got, leaving, attempts>>
    BY <1>4, LineAssumption DEF BeginSend, pool
  <2>2. SubSeq(Line(Current), 1, 0) = <<>>
    <3>1. Line(Current) \in Seq(Nat)
      BY <1>0, LineIs
    <3>. QED
      BY <3>1
  <2>3. Begun = <<>> /\ Begun' = <<>>
    BY <2>1, <2>2 DEF Begun, Current
  <2>. QED
    BY <2>1, <2>3 DEF Turns
<1>5. ASSUME NEW t \in Senders, SendSome(t)
      PROVE  Turns'
  <2>1. PICK n \in 1..(Room - Len(leaving)) :
           /\ sent + n <= OutLength
           /\ leaving' = leaving \o SubSeq(Line(Current), sent + 1, sent + n)
           /\ sent' = sent + n
    BY <1>5 DEF SendSome
  <2>2. lock = t /\ t # Free /\ UNCHANGED <<lock, got, attempts>>
    BY <1>5, LineAssumption DEF SendSome, pool
  <2>3. Line(Current) \in Seq(Nat) /\ Len(Line(Current)) = OutLength
    BY <1>0, LineIs
  <2>4. n \in Nat /\ n >= 1 /\ sent \in Nat
    BY <1>0, LineAssumption
  <2>5. sent \in 0..Len(Line(Current)) /\ sent + n \in sent..Len(Line(Current))
    BY <1>0, <2>1, <2>3, <2>4
  <2>6. SubSeq(Line(Current), 1, sent) \o SubSeq(Line(Current), sent + 1, sent + n)
            = SubSeq(Line(Current), 1, sent + n)
    BY <2>3, <2>5, PartsJoin
  <2>7. SubSeq(Line(Current), 1, sent) \in Seq(Nat)
    BY <1>0, PartOfLineIs
  <2>8. SubSeq(Line(Current), sent + 1, sent + n) \in Seq(Nat)
    BY <2>3, <2>4, <2>5
  <2>9. Begun = SubSeq(Line(Current), 1, sent) /\ Begun' = SubSeq(Line(Current), 1, sent + n)
    BY <2>1, <2>2 DEF Begun, Current
  <2>10. got' \o leaving' = (got \o leaving) \o SubSeq(Line(Current), sent + 1, sent + n)
    BY <1>0, <2>1, <2>2, <2>8, ConcatIs, ZenonT(60)
  <2>11. got' \o leaving' = FlattenSeq(Parts(attempts)) \o Begun'
    <3>1. got' \o leaving' = (FlattenSeq(Parts(attempts)) \o Begun) \o SubSeq(Line(Current), sent + 1, sent + n)
      BY <2>10, Zenon DEF Turns
    <3>2. (FlattenSeq(Parts(attempts)) \o Begun) \o SubSeq(Line(Current), sent + 1, sent + n)
             = FlattenSeq(Parts(attempts)) \o (Begun \o SubSeq(Line(Current), sent + 1, sent + n))
      BY <1>1, <2>7, <2>8, <2>9, ConcatIs, Zenon
    <3>. QED
      BY <2>6, <2>9, <3>1, <3>2, Zenon
  <2>. QED
    BY <2>2, <2>11 DEF Turns
<1>6. ASSUME NEW t \in Senders, NEW ok \in BOOLEAN, lock = t, Return(ok)
      PROVE  Turns'
  <2>1. PICK r : r = [sent |-> sent, ok |-> ok]
    OBVIOUS
  <2>2. r \in Attempt /\ r.sent = sent
    BY <1>0, <2>1 DEF Attempt
  <2>3. attempts' = Append(attempts, r) /\ lock' = Free /\ UNCHANGED <<got, leaving>>
    BY <1>6, <2>1 DEF Return, pool
  <2>4. Parts(attempts') = Append(Parts(attempts), SubSeq(Line(Current), 1, sent))
    BY <1>0, <2>2, <2>3, PartsAppend, Zenon DEF Current
  <2>5. SubSeq(Line(Current), 1, sent) \in Seq(Nat)
    BY <1>0, PartOfLineIs
  <2>6. Parts(attempts) \in Seq(Seq(Nat))
    BY <1>0, PartsType
  <2>7. FlattenSeq(Parts(attempts')) = FlattenSeq(Parts(attempts)) \o SubSeq(Line(Current), 1, sent)
    BY <2>4, <2>5, <2>6, FlattenAppend, Zenon
  <2>8. lock # Free
    BY <1>6, LineAssumption
  <2>9. Begun = SubSeq(Line(Current), 1, sent) /\ Begun' = <<>>
    BY <2>3, <2>8 DEF Begun
  <2>10. FlattenSeq(Parts(attempts')) \o <<>> = FlattenSeq(Parts(attempts'))
    BY <1>1, <2>5, <2>7, ConcatIs, Zenon
  <2>. QED
    BY <2>3, <2>7, <2>9, <2>10, Zenon DEF Turns
<1>7. CASE UNCHANGED <<got, leaving, attempts, lock, sent>>
  BY <1>7 DEF Turns, Begun, Current
<1>8. \A t \in Senders : Writes(t) => Turns'
  BY <1>4, <1>5, <1>6 DEF Writes, SendDone, SendFails
<1>. QED
  BY <1>2, <1>3, <1>7, <1>8
     DEF Next, Reads, Pool, Disconnect, Receive, Tokenise, StartRead, ReadTimesOut, ReceiveEnds,
         PoolSends, PoolCloses, vars, writer, pool

\* Whatever the kernel takes at a time and wherever a line is cut off, the bytes
\* on the wire are the beginnings of the lines one after the other, for any
\* number of threads: no thread writes into the line of another.
THEOREM LinesAreNotMixed == Spec => []SendersTakeTurns
<1>1. Init => TypeOK /\ Turns
  BY TypesInit, TurnsInit
<1>2. TypeOK /\ Turns /\ [Next]_vars => (TypeOK /\ Turns)'
  BY TypesStep, TurnsStep
<1>3. Turns => SendersTakeTurns
  BY Zenon DEF Turns, SendersTakeTurns, Parts, Begun
<1>. QED
  BY <1>1, <1>2, <1>3, PTL DEF Spec

(***************************************************************************)
(* What is reported as sent.                                               *)
(***************************************************************************)
NewLines(s)      == {i \in 1..Len(s) : s[i] = NewLine}
Succeeded(tries) == {a \in 1..Len(tries) : tries[a].ok}

LEMMA FinitePart ==
    ASSUME NEW n \in Nat, NEW T \in SUBSET (1..n)
    PROVE  IsFiniteSet(T) /\ Cardinality(T) \in Nat
<1>1. IsFiniteSet(1..n)
  BY FS_Interval
<1>2. IsFiniteSet(T)
  BY <1>1, FS_Subset
<1>. QED
  BY <1>2, FS_CardinalityType

LEMMA NewLinesType ==
    ASSUME NEW s \in Seq(Nat)
    PROVE  IsFiniteSet(NewLines(s)) /\ Cardinality(NewLines(s)) \in Nat
<1>1. Len(s) \in Nat /\ NewLines(s) \in SUBSET (1..Len(s))
  BY DEF NewLines
<1>. QED
  BY <1>1, FinitePart, Zenon

LEMMA SucceededType ==
    ASSUME NEW tries \in Seq(Attempt)
    PROVE  IsFiniteSet(Succeeded(tries)) /\ Cardinality(Succeeded(tries)) \in Nat
<1>1. Len(tries) \in Nat /\ Succeeded(tries) \in SUBSET (1..Len(tries))
  BY DEF Succeeded
<1>. QED
  BY <1>1, FinitePart, Zenon

\* Behind s comes a part of a line: a newline more if and only if it ends there.
LEMMA NewLinesGrow ==
    ASSUME NEW s \in Seq(Nat), NEW t \in Seq(Nat), Len(t) > 0,
           NEW end \in BOOLEAN,
           \A k \in 1..Len(t) : t[k] = NewLine <=> end /\ k = Len(t)
    PROVE  Cardinality(NewLines(s \o t))
              = Cardinality(NewLines(s)) + (IF end THEN 1 ELSE 0)
<1>1. PICK n \in Nat, m \in Nat : n = Len(s) /\ m = Len(t)
  OBVIOUS
<1>2. PICK u \in Seq(Nat) : u = s \o t
  <2>1. s \o t \in Seq(Nat)
    OBVIOUS
  <2>. QED
    BY <2>1
<1>3. /\ Len(u) = n + m /\ m > 0
      /\ \A k \in 1..n : u[k] = s[k]
      /\ \A k \in (n + 1)..(n + m) : u[k] = t[k - n]
  BY <1>1, <1>2
<1>4. \A k \in (n + 1)..(n + m) : k - n \in 1..Len(t) /\ (k - n = Len(t) <=> k = n + m)
  BY <1>1
<1>5. CASE end
  <2>0. \A k \in (n + 1)..(n + m) : u[k] = NewLine <=> k = n + m
    BY <1>3, <1>4, <1>5, Zenon
  <2>1. NewLines(u) = NewLines(s) \cup {n + m}
    BY <1>1, <1>3, <2>0, SMTT(30) DEF NewLines
  <2>2. n + m \notin NewLines(s)
    BY <1>1, <1>3 DEF NewLines
  <2>3. Cardinality(NewLines(u)) = Cardinality(NewLines(s)) + 1
    BY <2>1, <2>2, NewLinesType, FS_AddElement
  <2>. QED
    BY <1>2, <1>5, <2>3
<1>6. CASE ~ end
  <2>0. \A k \in (n + 1)..(n + m) : u[k] # NewLine
    BY <1>3, <1>4, <1>6, Zenon
  <2>1. NewLines(u) = NewLines(s)
    BY <1>1, <1>3, <2>0, SMTT(30) DEF NewLines
  <2>. QED
    BY <1>2, <1>6, <2>1, NewLinesType
<1>. QED
  BY <1>5, <1>6

\* t has n bytes and is what a line has up to place m.
EndsLine(t, n, m) ==
    /\ t \in Seq(Nat) /\ Len(t) = n
    /\ \A k \in 1..n : t[k] = NewLine <=> m = OutLength /\ k = n

LEMMA LinePartIs ==
    ASSUME NEW a \in Nat \ {0}, NEW i \in Nat, NEW n \in Nat \ {0}, i + n <= OutLength
    PROVE  EndsLine(SubSeq(Line(a), i + 1, i + n), n, i + n)
<1>1. PICK l \in Seq(Nat) : l = Line(a)
  BY LineIs
<1>2. /\ Len(l) = OutLength /\ OutLength \in Nat
      /\ \A p \in 1..OutLength : l[p] = NewLine <=> p = OutLength
  BY <1>1, LineIs, LineAssumption
<1>3. PICK q : q = SubSeq(l, i + 1, i + n)
  OBVIOUS
<1>4. q \in Seq(Nat) /\ Len(q) = n
  BY <1>2, <1>3
<1>5. \A k \in 1..n : q[k] = l[i + k]
  BY <1>2, <1>3
<1>6. \A k \in 1..n : i + k \in 1..OutLength /\ (i + k = OutLength <=> i + n = OutLength /\ k = n)
  BY <1>2
<1>7. \A k \in 1..n : q[k] = NewLine <=> i + n = OutLength /\ k = n
  BY <1>2, <1>5, <1>6, Zenon
<1>. QED
  BY <1>1, <1>3, <1>4, <1>7, Zenon DEF EndsLine

LEMMA SucceededGrow ==
    ASSUME NEW tries \in Seq(Attempt), NEW r \in Attempt
    PROVE  Cardinality(Succeeded(Append(tries, r)))
              = Cardinality(Succeeded(tries)) + (IF r.ok THEN 1 ELSE 0)
<1>1. PICK n \in Nat : n = Len(tries)
  OBVIOUS
<1>2. PICK more : more = Append(tries, r)
  OBVIOUS
<1>3. IsAppend(more, tries, r)
  BY <1>2, AppendIs
<1>4. Len(more) = n + 1 /\ more[n + 1] = r /\ \A a \in 1..n : more[a] = tries[a]
  BY <1>1, <1>3, Zenon DEF IsAppend
<1>5. CASE r.ok
  <2>1. Succeeded(more) = Succeeded(tries) \cup {n + 1}
    <3>1. \A a \in 1..(n + 1) : a \in 1..n \/ a = n + 1
      BY <1>1
    <3>2. \A a \in 1..n : a \in 1..(n + 1)
      BY <1>1
    <3>3. n + 1 \in 1..(n + 1)
      BY <1>1
    <3>. QED
      BY <1>1, <1>4, <1>5, <3>1, <3>2, <3>3, Zenon DEF Succeeded
  <2>2. n + 1 \notin Succeeded(tries)
    BY <1>1 DEF Succeeded
  <2>3. Cardinality(Succeeded(more)) = Cardinality(Succeeded(tries)) + 1
    BY <2>1, <2>2, SucceededType, FS_AddElement
  <2>. QED
    BY <1>2, <1>5, <2>3
<1>6. CASE ~ r.ok
  <2>1. Succeeded(more) = Succeeded(tries)
    <3>1. \A a \in 1..(n + 1) : a \in 1..n \/ a = n + 1
      BY <1>1
    <3>2. \A a \in 1..n : a \in 1..(n + 1)
      BY <1>1
    <3>. QED
      BY <1>1, <1>4, <1>6, <3>1, <3>2, Zenon DEF Succeeded
  <2>. QED
    BY <1>2, <1>6, <2>1, SucceededType
<1>. QED
  BY <1>5, <1>6

\* The line whose last byte has been written, but not reported.
Unreported == IF lock # Free /\ sent = OutLength THEN 1 ELSE 0

Reported == Cardinality(NewLines(got \o leaving)) = Cardinality(Succeeded(attempts)) + Unreported

LEMMA NothingReported ==
    /\ NewLines(<<>> \o <<>>) = {} /\ Succeeded(<<>>) = {}
    /\ Cardinality({}) = 0
<1>1. <<>> \o <<>> = <<>> /\ Len(<<>>) = 0 /\ 1..0 = {}
  OBVIOUS
<1>2. NewLines(<<>>) = {} /\ Succeeded(<<>>) = {}
  BY <1>1, Zenon DEF NewLines, Succeeded
<1>. QED
  BY <1>1, <1>2, FS_EmptySet, Zenon

LEMMA ReportedInit == Init => Reported
<1>. SUFFICES ASSUME Init PROVE Reported
  OBVIOUS
<1>1. got = <<>> /\ leaving = <<>> /\ attempts = <<>> /\ lock = Free
  BY DEF Init
<1>2. Unreported = 0
  BY <1>1 DEF Unreported
<1>3. Cardinality(NewLines(got \o leaving)) = 0 /\ Cardinality(Succeeded(attempts)) = 0
  BY <1>1, NothingReported, Zenon
<1>. QED
  BY <1>2, <1>3 DEF Reported

LEMMA ReportedStep == TypeOK /\ Reported /\ [Next]_vars => Reported'
<1>. SUFFICES ASSUME TypeOK, Reported, [Next]_vars PROVE Reported'
  OBVIOUS
<1>0. /\ got \in Seq(Nat) /\ leaving \in Seq(Nat) /\ attempts \in Seq(Attempt)
      /\ sent \in 0..OutLength /\ OutLength \in Nat \ {0} /\ Current \in Nat \ {0}
  BY LineAssumption DEF TypeOK, Attempt, Current
<1>1. CASE Connect
  <2>1. attempts' = <<>> /\ got' = <<>> /\ leaving' = <<>> /\ lock' = Free
    BY <1>1 DEF Connect
  <2>2. Unreported' = 0
    BY <2>1 DEF Unreported
  <2>. QED
    BY <2>1, <2>2, NothingReported DEF Reported
<1>2. CASE PoolReads
  <2>1. got' = got \o leaving /\ leaving' = <<>> /\ UNCHANGED <<lock, sent, attempts>>
    BY <1>2 DEF PoolReads
  <2>2. got' \o leaving' = got \o leaving
    BY <1>0, <2>1, ConcatIs, Zenon
  <2>. QED
    BY <2>1, <2>2 DEF Reported, Unreported
<1>3. ASSUME NEW t \in Senders, BeginSend(t)
      PROVE  Reported'
  <2>1. lock = Free /\ sent' = 0 /\ UNCHANGED <<got, leaving, attempts>>
    BY <1>3 DEF BeginSend, pool
  <2>2. Unreported = 0 /\ Unreported' = 0
    BY <1>0, <2>1 DEF Unreported
  <2>. QED
    BY <2>1, <2>2 DEF Reported
<1>4. ASSUME NEW t \in Senders, SendSome(t)
      PROVE  Reported'
  <2>1. PICK n \in 1..(Room - Len(leaving)) :
           /\ sent + n <= OutLength
           /\ leaving' = leaving \o SubSeq(Line(Current), sent + 1, sent + n)
           /\ sent' = sent + n
    BY <1>4 DEF SendSome
  <2>2. lock = t /\ t # Free /\ sent < OutLength /\ UNCHANGED <<lock, got, attempts>>
    BY <1>4, LineAssumption DEF SendSome, pool
  <2>3. n \in Nat \ {0} /\ sent \in Nat
    BY <1>0, LineAssumption
  <2>4. PICK q : q = SubSeq(Line(Current), sent + 1, sent + n)
    OBVIOUS
  <2>5. EndsLine(q, n, sent + n)
    BY <1>0, <2>1, <2>3, <2>4, LinePartIs
  <2>6. q \in Seq(Nat) /\ Len(q) = n /\ n > 0
    BY ONLY <2>3, <2>5, SMT DEF EndsLine
  <2>7. PICK end \in BOOLEAN : end <=> sent + n = OutLength
    OBVIOUS
  <2>8. \A k \in 1..Len(q) : q[k] = NewLine <=> end /\ k = Len(q)
    BY <2>5, <2>6, <2>7, Zenon DEF EndsLine
  <2>11. PICK c \in Nat : c = IF end THEN 1 ELSE 0
    OBVIOUS
  <2>12. got \o leaving \in Seq(Nat) /\ got' \o leaving' = (got \o leaving) \o q
    <3>1. got' = got /\ leaving' = leaving \o q
      BY <2>1, <2>2, <2>4, Zenon
    <3>2. got \o (leaving \o q) = (got \o leaving) \o q
      <4>1. got \in Seq(Nat) /\ leaving \in Seq(Nat) /\ q \in Seq(Nat)
        BY <1>0, <2>6
      <4>. QED
        BY ONLY <4>1, ConcatIs, ZenonT(60)
    <3>3. got \o leaving \in Seq(Nat)
      BY <1>0, ConcatIs, Zenon
    <3>. QED
      BY <3>1, <3>2, <3>3, Zenon
  <2>13. PICK s \in Seq(Nat) : s = got \o leaving
    BY <2>12
  <2>14. Cardinality(NewLines(s \o q)) = Cardinality(NewLines(s)) + c
    <3>1. q \in Seq(Nat) /\ Len(q) > 0
      BY <2>6, Zenon
    <3>2. Cardinality(NewLines(s \o q)) = Cardinality(NewLines(s)) + (IF end THEN 1 ELSE 0)
      BY ONLY <2>7, <2>8, <2>13, <3>1, NewLinesGrow
    <3>. QED
      BY <2>11, <3>2, Zenon
  <2>15. Unreported = 0 /\ Unreported' = c
    BY <1>0, <2>1, <2>2, <2>7, <2>11 DEF Unreported
  <2>16. Cardinality(Succeeded(attempts)) \in Nat
    BY <1>0, SucceededType
  <2>17. Cardinality(NewLines(s)) = Cardinality(Succeeded(attempts))
    BY <2>13, <2>15, <2>16 DEF Reported
  <2>18. Cardinality(NewLines(got' \o leaving')) = Cardinality(Succeeded(attempts)) + c
    BY <2>12, <2>13, <2>14, <2>17, Zenon
  <2>. QED
    BY <2>2, <2>15, <2>18, Zenon DEF Reported
<1>5. ASSUME NEW t \in Senders, NEW ok \in BOOLEAN, lock = t, Return(ok),
             ok <=> sent = OutLength
      PROVE  Reported'
  <2>1. PICK r : r = [sent |-> sent, ok |-> ok]
    OBVIOUS
  <2>2. r \in Attempt /\ r.ok = ok
    BY <1>0, <2>1 DEF Attempt
  <2>3. attempts' = Append(attempts, r) /\ lock' = Free /\ UNCHANGED <<got, leaving>>
    BY <1>5, <2>1 DEF Return, pool
  <2>4. lock # Free
    BY <1>5, LineAssumption
  <2>5. Unreported = (IF r.ok THEN 1 ELSE 0) /\ Unreported' = 0
    BY <1>5, <2>2, <2>3, <2>4 DEF Unreported
  <2>6. Cardinality(Succeeded(attempts')) = Cardinality(Succeeded(attempts)) + (IF r.ok THEN 1 ELSE 0)
    BY <1>0, <2>2, <2>3, SucceededGrow
  <2>7. attempts' \in Seq(Attempt)
    BY <1>0, <2>2, <2>3
  <2>8. Cardinality(Succeeded(attempts')) \in Nat
    BY <2>7, SucceededType
  <2>9. Cardinality(NewLines(got \o leaving)) = Cardinality(Succeeded(attempts'))
    BY <2>5, <2>6, Zenon DEF Reported
  <2>. QED
    BY <2>3, <2>5, <2>8, <2>9 DEF Reported
<1>6. CASE UNCHANGED <<got, leaving, attempts, lock, sent>>
  BY <1>6 DEF Reported, Unreported
<1>7. \A t \in Senders : Writes(t) => Reported'
  <2>. SUFFICES ASSUME NEW t \in Senders, Writes(t) PROVE Reported'
    OBVIOUS
  <2>1. CASE SendDone(t)
    <3>1. TRUE <=> sent = OutLength
      BY <2>1 DEF SendDone
    <3>. QED
      BY <1>5, <2>1, <3>1 DEF SendDone
  <2>2. CASE SendFails(t)
    <3>1. FALSE <=> sent = OutLength
      BY <1>0, <2>2 DEF SendFails
    <3>. QED
      BY <1>5, <2>2, <3>1 DEF SendFails
  <2>. QED
    BY <1>3, <1>4, <2>1, <2>2 DEF Writes
<1>. QED
  BY <1>1, <1>2, <1>6, <1>7
     DEF Next, Reads, Pool, Disconnect, Receive, Tokenise, StartRead, ReadTimesOut, ReceiveEnds,
         PoolSends, PoolCloses, vars, writer, pool

\* A call of stratum_send_line succeeds if and only if the newline of its line
\* has been written, so a share that is sent again after a failure is seen once.
THEOREM SuccessMeansSent == Spec => []SentIsSeen
<1>1. Init => TypeOK /\ Reported
  BY TypesInit, ReportedInit
<1>2. TypeOK /\ Reported /\ [Next]_vars => (TypeOK /\ Reported)'
  BY TypesStep, ReportedStep
<1>3. TypeOK /\ Reported => SentIsSeen
  <2>. SUFFICES ASSUME TypeOK, Reported, lock = Free
                PROVE  Cardinality(PoolSees) = Cardinality({a \in 1..Len(attempts) : attempts[a].ok})
    BY DEF SentIsSeen
  <2>1. Unreported = 0
    BY DEF Unreported
  <2>2. attempts \in Seq(Attempt)
    BY DEF TypeOK, Attempt
  <2>3. Cardinality(Succeeded(attempts)) \in Nat
    BY <2>2, SucceededType
  <2>4. Cardinality(NewLines(got \o leaving)) = Cardinality(Succeeded(attempts))
    BY <2>1, <2>3 DEF Reported
  <2>. QED
    BY <2>4, Zenon DEF NewLines, Succeeded, PoolSees
<1>. QED
  BY <1>1, <1>2, <1>3, PTL DEF Spec

(***************************************************************************)
(* Lines on the wire, each with its newline.                               *)
(***************************************************************************)
Terminated(ls) == [i \in 1..Len(ls) |-> Append(ls[i], NewLine)]
Stream(ls)     == FlattenSeq(Terminated(ls))

LEMMA TerminatedLine ==
    ASSUME NEW l \in Seq(Bytes)
    PROVE  Append(l, NewLine) \in Seq(Nat)
<1>1. l \in Seq(Nat)
  BY DEF Bytes
<1>. QED
  BY <1>1 DEF NewLine

LEMMA StreamType ==
    ASSUME NEW ls \in Seq(Seq(Bytes))
    PROVE  /\ Terminated(ls) \in Seq(Seq(Nat)) /\ Len(Terminated(ls)) = Len(ls)
           /\ Stream(ls) \in Seq(Nat)
<1>0. \A i \in 1..Len(ls) : ls[i] \in Seq(Bytes)
  OBVIOUS
<1>1. \A i \in 1..Len(ls) : Append(ls[i], NewLine) \in Seq(Nat)
  BY <1>0, TerminatedLine
<1>2. Len(ls) \in Nat
  OBVIOUS
<1>3. Terminated(ls) \in Seq(Seq(Nat)) /\ Len(Terminated(ls)) = Len(ls)
  BY <1>1, <1>2 DEF Terminated
<1>. QED
  BY <1>3, FlattenType DEF Stream

LEMMA StreamEmpty == Stream(<<>>) = <<>>
<1>1. Terminated(<<>>) = <<>>
  BY DEF Terminated
<1>. QED
  BY <1>1, FlattenEmpty, Zenon DEF Stream

LEMMA StreamAppend ==
    ASSUME NEW ls \in Seq(Seq(Bytes)), NEW l \in Seq(Bytes)
    PROVE  Stream(Append(ls, l)) = Stream(ls) \o Append(l, NewLine)
<1>1. PICK n \in Nat : n = Len(ls)
  OBVIOUS
<1>2. PICK more : more = Append(ls, l)
  OBVIOUS
<1>3. PICK q : q = Append(l, NewLine)
  OBVIOUS
<1>4. Len(more) = n + 1 /\ more[n + 1] = l /\ \A i \in 1..n : more[i] = ls[i]
  <2>1. IsAppend(more, ls, l)
    BY <1>2, AppendIs
  <2>. QED
    BY <1>1, <2>1, Zenon DEF IsAppend
<1>5. q \in Seq(Nat)
  BY <1>3, TerminatedLine
<1>6. PICK p : p = Terminated(ls)
  OBVIOUS
<1>7. p \in Seq(Seq(Nat)) /\ Len(p) = n
  BY <1>1, <1>6, StreamType
<1>8. /\ Append(p, q)[n + 1] = q
      /\ \A i \in 1..n : Append(p, q)[i] = p[i]
      /\ Append(p, q) = [i \in 1..(n + 1) |-> Append(p, q)[i]]
  <2>1. IsAppend(Append(p, q), p, q)
    BY <1>5, <1>7, AppendIs
  <2>. QED
    BY <1>7, <2>1, Zenon DEF IsAppend
<1>9. \A i \in 1..n : p[i] = Append(ls[i], NewLine)
  BY <1>1, <1>6, Zenon DEF Terminated
<1>10. Terminated(more) = [i \in 1..(n + 1) |-> Append(more[i], NewLine)]
  BY <1>4, Zenon DEF Terminated
<1>11. ASSUME NEW i \in 1..(n + 1)
       PROVE  Append(more[i], NewLine) = Append(p, q)[i]
  <2>1. CASE i \in 1..n
    BY <1>4, <1>8, <1>9, <2>1, Zenon
  <2>2. CASE i = n + 1
    BY <1>3, <1>4, <1>8, <2>2, Zenon
  <2>3. i \in 1..n \/ i = n + 1
    BY <1>1
  <2>. QED
    BY <2>1, <2>2, <2>3
<1>12. Terminated(more) = Append(p, q)
  BY <1>8, <1>10, <1>11, Zenon
<1>13. FlattenSeq(Append(p, q)) = FlattenSeq(p) \o q
  BY <1>5, <1>7, FlattenAppend
<1>. QED
  BY <1>2, <1>3, <1>6, <1>12, <1>13, Zenon DEF Stream

\* Sequences of lines.
LEMMA LinesConcat ==
    /\ \A a \in Seq(Seq(Bytes)), b \in Seq(Seq(Bytes)) : a \o b \in Seq(Seq(Bytes))
    /\ \A a \in Seq(Seq(Bytes)) : a \o <<>> = a /\ <<>> \o a = a
    /\ \A a \in Seq(Seq(Bytes)), l \in Seq(Bytes) : Append(a, l) \in Seq(Seq(Bytes))
OBVIOUS

LEMMA LinesConcatAppend ==
    \A a \in Seq(Seq(Bytes)), b \in Seq(Seq(Bytes)), l \in Seq(Bytes) :
        a \o Append(b, l) = Append(a \o b, l)
OBVIOUS

LEMMA LinesSplit ==
    ASSUME NEW a \in Seq(Seq(Bytes)), NEW n \in Nat, Len(a) = n + 1
    PROVE  \E b \in Seq(Seq(Bytes)), l \in Seq(Bytes) : a = Append(b, l) /\ Len(b) = n
<1>1. SubSeq(a, 1, n) \in Seq(Seq(Bytes)) /\ a[n + 1] \in Seq(Bytes) /\ Len(SubSeq(a, 1, n)) = n
  OBVIOUS
<1>2. a = Append(SubSeq(a, 1, n), a[n + 1])
  OBVIOUS
<1>. QED
  BY <1>1, <1>2

LEMMA StreamConcat ==
    ASSUME NEW ks \in Seq(Seq(Bytes)), NEW ls \in Seq(Seq(Bytes))
    PROVE  Stream(ks \o ls) = Stream(ks) \o Stream(ls)
<1>. DEFINE T == {n \in Nat : \A ms \in Seq(Seq(Bytes)) : Len(ms) = n =>
                      Stream(ks \o ms) = Stream(ks) \o Stream(ms)}
<1>0. Stream(ks) \in Seq(Nat)
  BY StreamType
<1>1. 0 \in T
  <2>. SUFFICES ASSUME NEW ms \in Seq(Seq(Bytes)), Len(ms) = 0
                PROVE  Stream(ks \o ms) = Stream(ks) \o Stream(ms)
    OBVIOUS
  <2>1. ms = <<>>
    OBVIOUS
  <2>2. ks \o <<>> = ks /\ Stream(ks) \o <<>> = Stream(ks)
    BY <1>0, LinesConcat, ConcatIs, Zenon
  <2>. QED
    BY <2>1, <2>2, StreamEmpty, Zenon
<1>2. ASSUME NEW n \in T
      PROVE  n + 1 \in T
  <2>. SUFFICES ASSUME NEW ms \in Seq(Seq(Bytes)), Len(ms) = n + 1
                PROVE  Stream(ks \o ms) = Stream(ks) \o Stream(ms)
    OBVIOUS
  <2>1. PICK ns \in Seq(Seq(Bytes)), l \in Seq(Bytes) : ms = Append(ns, l) /\ Len(ns) = n
    BY LinesSplit
  <2>2. Stream(ks \o ns) = Stream(ks) \o Stream(ns)
    BY <2>1
  <2>3. ks \o ns \in Seq(Seq(Bytes)) /\ ks \o ms = Append(ks \o ns, l)
    BY <2>1, LinesConcat, LinesConcatAppend, ZenonT(60)
  <2>4. Stream(ks \o ms) = Stream(ks \o ns) \o Append(l, NewLine)
    BY <2>1, <2>3, StreamAppend, Zenon
  <2>5. Stream(ms) = Stream(ns) \o Append(l, NewLine)
    BY <2>1, StreamAppend, Zenon
  <2>6. Stream(ns) \in Seq(Nat) /\ Append(l, NewLine) \in Seq(Nat)
    BY <2>1, StreamType, TerminatedLine
  <2>7. (Stream(ks) \o Stream(ns)) \o Append(l, NewLine) = Stream(ks) \o (Stream(ns) \o Append(l, NewLine))
    BY ONLY <1>0, <2>6, ConcatIs, ZenonT(60)
  <2>. QED
    BY <2>2, <2>4, <2>5, <2>7, Zenon
<1>3. T = Nat
  BY <1>1, <1>2, Induction
<1>4. ls \in Seq(Seq(Bytes)) /\ Len(ls) \in T
  BY <1>3
<1>. QED
  BY <1>4

\* The first line is in front.
LEMMA StreamHead ==
    ASSUME NEW ls \in Seq(Seq(Bytes)), ls # <<>>
    PROVE  \E h \in Seq(Bytes), ms \in Seq(Seq(Bytes)) :
               /\ ls = <<h>> \o ms /\ h = ls[1]
               /\ Stream(ls) = Append(h, NewLine) \o Stream(ms)
<1>1. PICK h \in Seq(Bytes) : h = ls[1]
  OBVIOUS
<1>2. PICK ms \in Seq(Seq(Bytes)) : ms = Tail(ls)
  <2>1. Tail(ls) \in Seq(Seq(Bytes))
    OBVIOUS
  <2>. QED
    BY <2>1
<1>3. <<h>> \in Seq(Seq(Bytes)) /\ ls = <<h>> \o ms /\ <<h>> = Append(<<>>, h)
  BY <1>1, <1>2
<1>4. Append(h, NewLine) \in Seq(Nat)
  BY TerminatedLine
<1>5. Stream(<<h>>) = <<>> \o Append(h, NewLine)
  BY <1>3, EmptyIs, StreamAppend, StreamEmpty, Zenon
<1>6. Stream(<<h>>) = Append(h, NewLine)
  BY <1>4, <1>5, ConcatIs, Zenon
<1>7. Stream(ls) = Append(h, NewLine) \o Stream(ms)
  BY <1>3, <1>6, StreamConcat, Zenon
<1>. QED
  BY <1>1, <1>3, <1>7, Zenon

LEMMA SameMembers ==
    ASSUME NEW S, NEW a \in Seq(S), NEW b \in Seq(S), Len(a) = Len(b), BeginAlike(a, b, Len(a))
    PROVE  a = b
<1>1. a = [i \in 1..Len(a) |-> a[i]] /\ b = [i \in 1..Len(b) |-> b[i]]
  OBVIOUS
<1>2. [i \in 1..Len(a) |-> a[i]] = [i \in 1..Len(b) |-> b[i]]
  BY Zenon DEF BeginAlike
<1>. QED
  BY <1>1, <1>2, Zenon

LEMMA Cancel ==
    ASSUME NEW a \in Seq(Nat), NEW b \in Seq(Nat), NEW c \in Seq(Nat), a \o b = a \o c
    PROVE  b = c
<1>1. Len(a \o b) = Len(a) + Len(b) /\ Len(a \o c) = Len(a) + Len(c)
  OBVIOUS
<1>2. Len(b) = Len(c)
  BY <1>1
<1>3. \A i \in 1..Len(b) : b[i] = (a \o b)[Len(a) + i]
  OBVIOUS
<1>4. \A i \in 1..Len(c) : c[i] = (a \o c)[Len(a) + i]
  OBVIOUS
<1>5. BeginAlike(b, c, Len(b))
  BY <1>2, <1>3, <1>4, Zenon DEF BeginAlike
<1>. QED
  BY <1>2, <1>5, SameMembers, Zenon

\* The bytes of l and a newline are in front of s.
LineInFront(l, s) ==
    /\ s[Len(l) + 1] = NewLine
    /\ \A i \in 1..Len(l) : s[i] = l[i] /\ l[i] # NewLine

LEMMA LineInFrontIs ==
    ASSUME NEW l \in Seq(Bytes), NEW x \in Seq(Nat)
    PROVE  LineInFront(l, Append(l, NewLine) \o x)
<1>1. PICK q \in Seq(Nat) : q = Append(l, NewLine)
  BY TerminatedLine
<1>2. \A i \in 1..Len(l) : l[i] # NewLine
  BY DEF Bytes
<1>3. q[Len(l) + 1] = NewLine /\ Len(q) = Len(l) + 1 /\ \A i \in 1..Len(l) : q[i] = l[i]
  BY <1>1
<1>4. \A i \in 1..(Len(l) + 1) : (q \o x)[i] = q[i]
  BY <1>3
<1>5. Len(l) + 1 \in 1..(Len(l) + 1) /\ \A i \in 1..Len(l) : i \in 1..(Len(l) + 1)
  OBVIOUS
<1>. QED
  BY <1>1, <1>2, <1>3, <1>4, <1>5, Zenon DEF LineInFront

\* The first newline ends the first line.
LEMMA FirstLine ==
    ASSUME NEW l \in Seq(Bytes), NEW h \in Seq(Bytes), NEW x \in Seq(Nat), NEW y \in Seq(Nat),
           Append(l, NewLine) \o x = Append(h, NewLine) \o y
    PROVE  l = h
<1>1. PICK m \in Nat, n \in Nat : m = Len(l) /\ n = Len(h)
  OBVIOUS
<1>2. PICK s : s = Append(l, NewLine) \o x /\ s = Append(h, NewLine) \o y
  OBVIOUS
<1>3. /\ s[m + 1] = NewLine
      /\ \A i \in 1..m : s[i] = l[i] /\ l[i] # NewLine
  <2>1. LineInFront(l, Append(l, NewLine) \o x)
    BY LineInFrontIs
  <2>. QED
    BY <1>1, <1>2, <2>1, Zenon DEF LineInFront
<1>4. /\ s[n + 1] = NewLine
      /\ \A i \in 1..n : s[i] = h[i] /\ h[i] # NewLine
  <2>1. LineInFront(h, Append(h, NewLine) \o y)
    BY LineInFrontIs
  <2>. QED
    BY <1>1, <1>2, <2>1, Zenon DEF LineInFront
<1>5. m = n
  <2>1. ~ (m < n)
    <3>1. m < n => m + 1 \in 1..n
      BY <1>1
    <3>. QED
      BY <1>3, <1>4, <3>1, Zenon
  <2>2. ~ (n < m)
    <3>1. n < m => n + 1 \in 1..m
      BY <1>1
    <3>. QED
      BY <1>3, <1>4, <3>1, Zenon
  <2>. QED
    BY <1>1, <2>1, <2>2
<1>6. BeginAlike(l, h, Len(l))
  BY <1>1, <1>3, <1>4, <1>5, Zenon DEF BeginAlike
<1>. QED
  BY <1>1, <1>5, <1>6, SameMembers, Zenon

LEMMA NoLines == \A a \in Seq(Seq(Bytes)) : Len(a) = 0 => a = <<>>
OBVIOUS

LEMMA LinesMove ==
    \A a \in Seq(Seq(Bytes)), b \in Seq(Seq(Bytes)), l \in Seq(Bytes) :
        a \o (<<l>> \o b) = Append(a, l) \o b
BY SMTT(30)

\* A sequence of lines and something behind it that make the stream of lines:
\* the former are the first of the latter, and what is behind them the rest.
LEMMA Decodes ==
    ASSUME NEW ks \in Seq(Seq(Bytes)), NEW ls \in Seq(Seq(Bytes)), NEW x \in Seq(Nat),
           Stream(ks) \o x = Stream(ls)
    PROVE  \E ms \in Seq(Seq(Bytes)) : ls = ks \o ms /\ x = Stream(ms)
<1>. DEFINE Rest(js, y) == \E ms \in Seq(Seq(Bytes)) : ls = js \o ms /\ y = Stream(ms)
            T == {n \in Nat : \A js \in Seq(Seq(Bytes)), y \in Seq(Nat) :
                      Len(js) = n /\ Stream(js) \o y = Stream(ls) => Rest(js, y)}
<1>1. 0 \in T
  <2>. SUFFICES ASSUME NEW js \in Seq(Seq(Bytes)), NEW y \in Seq(Nat), Len(js) = 0,
                       Stream(js) \o y = Stream(ls)
                PROVE  Rest(js, y)
    OBVIOUS
  <2>1. js = <<>>
    BY NoLines, Zenon
  <2>2. y = Stream(ls)
    BY <2>1, StreamEmpty, ConcatIs, Zenon
  <2>3. ls = <<>> \o ls
    BY LinesConcat, Zenon
  <2>. QED
    BY <2>1, <2>2, <2>3, Zenon
<1>2. ASSUME NEW n \in T
      PROVE  n + 1 \in T
  <2>. SUFFICES ASSUME NEW js \in Seq(Seq(Bytes)), NEW y \in Seq(Nat), Len(js) = n + 1,
                       Stream(js) \o y = Stream(ls)
                PROVE  Rest(js, y)
    <3>1. n + 1 \in Nat
      OBVIOUS
    <3>. QED
      BY <3>1, Zenon
  <2>1. PICK is \in Seq(Seq(Bytes)), l \in Seq(Bytes) : js = Append(is, l) /\ Len(is) = n
    BY LinesSplit
  <2>2. Append(l, NewLine) \in Seq(Nat) /\ Stream(is) \in Seq(Nat)
    BY <2>1, StreamType, TerminatedLine
  <2>3. Stream(js) = Stream(is) \o Append(l, NewLine)
    BY <2>1, StreamAppend, Zenon
  <2>4. /\ Append(l, NewLine) \o y \in Seq(Nat)
        /\ Stream(is) \o (Append(l, NewLine) \o y) = Stream(ls)
    <3>1. y \in Seq(Nat)
      OBVIOUS
    <3>2. Append(l, NewLine) \o y \in Seq(Nat)
      BY ONLY <2>2, <3>1, ConcatIs, Zenon
    <3>3. (Stream(is) \o Append(l, NewLine)) \o y = Stream(is) \o (Append(l, NewLine) \o y)
      BY ONLY <2>2, <3>1, ConcatAssoc, Zenon
    <3>. QED
      BY <2>3, <3>2, <3>3, Zenon
  <2>5. Rest(is, Append(l, NewLine) \o y)
    <3>1. n \in T /\ is \in Seq(Seq(Bytes))
      BY <2>1
    <3>. QED
      BY <2>1, <2>4, <3>1, Zenon
  <2>6. PICK ms \in Seq(Seq(Bytes)) : ls = is \o ms /\ Append(l, NewLine) \o y = Stream(ms)
    BY <2>5, Zenon
  <2>7. ms # <<>>
    <3>1. Len(Append(l, NewLine)) = Len(l) + 1 /\ Len(l) \in Nat
      BY <2>1
    <3>2. Len(Append(l, NewLine) \o y) = Len(Append(l, NewLine)) + Len(y) /\ Len(y) \in Nat
      BY <2>2
    <3>3. Len(Append(l, NewLine) \o y) # 0
      BY <3>1, <3>2
    <3>. QED
      BY <2>6, <3>3, StreamEmpty
  <2>8. PICK h \in Seq(Bytes), ns \in Seq(Seq(Bytes)) :
            ms = <<h>> \o ns /\ Stream(ms) = Append(h, NewLine) \o Stream(ns)
    BY <2>6, <2>7, StreamHead
  <2>9. Stream(ns) \in Seq(Nat) /\ Append(l, NewLine) \o y = Append(h, NewLine) \o Stream(ns)
    BY <2>6, <2>8, StreamType, Zenon
  <2>10. l = h
    BY <2>1, <2>8, <2>9, FirstLine
  <2>11. y = Stream(ns)
    BY <2>2, <2>9, <2>10, Cancel, Zenon
  <2>12. is \o (<<l>> \o ns) = Append(is, l) \o ns
    BY <2>1, <2>8, LinesMove, ZenonT(60)
  <2>. QED
    BY <2>1, <2>6, <2>8, <2>10, <2>11, <2>12, Zenon
<1>3. T = Nat
  BY <1>1, <1>2, Induction
<1>4. Len(ks) \in Nat
  OBVIOUS
<1>5. Len(ks) \in T
  BY <1>3, <1>4, Zenon
<1>. QED
  BY <1>5, Zenon

LEMMA PrefixIs ==
    ASSUME NEW ks \in Seq(Seq(Bytes)), NEW ms \in Seq(Seq(Bytes))
    PROVE  IsPrefix(ks, ks \o ms)
<1>1. PICK ls \in Seq(Seq(Bytes)) : ls = ks \o ms
  BY LinesConcat
<1>2. Len(ks) <= Len(ls) /\ \A i \in 1..Len(ks) : ks[i] = ls[i]
  BY <1>1
<1>3. /\ SubSeq(ks, 1, Len(ks)) \in Seq(Seq(Bytes)) /\ Len(SubSeq(ks, 1, Len(ks))) = Len(ks)
      /\ \A i \in 1..Len(ks) : SubSeq(ks, 1, Len(ks))[i] = ks[i]
  OBVIOUS
<1>4. /\ SubSeq(ls, 1, Len(ks)) \in Seq(Seq(Bytes)) /\ Len(SubSeq(ls, 1, Len(ks))) = Len(ks)
      /\ \A i \in 1..Len(ks) : SubSeq(ls, 1, Len(ks))[i] = ls[i]
  BY <1>2
<1>5. BeginAlike(SubSeq(ks, 1, Len(ks)), SubSeq(ls, 1, Len(ks)), Len(SubSeq(ks, 1, Len(ks))))
  BY <1>2, <1>3, <1>4, Zenon DEF BeginAlike
<1>6. SubSeq(ks, 1, Len(ks)) = SubSeq(ls, 1, Len(ks))
  BY <1>3, <1>4, <1>5, SameMembers, Zenon
<1>. QED
  BY <1>1, <1>2, <1>6, Zenon DEF IsPrefix

\* A token at the front of s is cut out of it: what was in s is the token, its
\* newline if there is one, and what is left.
LEMMA TokenInFront ==
    ASSUME NEW s \in Seq(Nat), NEW end \in 1..(Len(s) + 1)
    PROVE  /\ end <= Len(s) /\ s[end] = NewLine =>
                  s = Append(SubSeq(s, 1, end - 1), NewLine) \o Remainder(s, 1, end)
           /\ end = Len(s) + 1 => s = SubSeq(s, 1, end - 1) /\ Remainder(s, 1, end) = <<>>
<1>1. CASE end = Len(s) + 1
  <2>1. Remainder(s, 1, end) = <<>>
    BY <1>1 DEF Remainder
  <2>2. SubSeq(s, 1, end - 1) = s
    BY <1>1
  <2>3. ~ (end <= Len(s))
    BY <1>1
  <2>. QED
    BY <1>1, <2>1, <2>2, <2>3, Zenon
<1>2. CASE end <= Len(s) /\ s[end] = NewLine
  <2>0. /\ SubSeq(s, 1, end - 1) \in Seq(Nat)
        /\ SubSeq(s, end, end) \in Seq(Nat)
        /\ SubSeq(s, end + 1, Len(s)) \in Seq(Nat)
    BY <1>2
  <2>1. PICK t \in Seq(Nat) : t = SubSeq(s, 1, end - 1)
    BY <2>0
  <2>2. PICK u \in Seq(Nat) : u = SubSeq(s, end, end)
    BY <2>0
  <2>3. PICK v \in Seq(Nat) : v = SubSeq(s, end + 1, Len(s))
    BY <2>0
  <2>4. Append(t, NewLine) = t \o u
    <3>1. Len(u) = 1 /\ u[1] = NewLine
      BY <1>2, <2>2
    <3>2. u = <<NewLine>>
      BY <3>1
    <3>. QED
      BY <3>2 DEF NewLine
  <2>5. s = (t \o u) \o v
    <3>1. SubSeq(s, 1, end - 1) \o SubSeq(s, end - 1 + 1, end) = SubSeq(s, 1, end)
      BY <1>2, PartsJoin
    <3>2. SubSeq(s, 1, end) \o SubSeq(s, end + 1, Len(s)) = SubSeq(s, 1, Len(s))
      BY <1>2, PartsJoin
    <3>3. SubSeq(s, 1, Len(s)) = s /\ end - 1 + 1 = end
      OBVIOUS
    <3>. QED
      BY <2>1, <2>2, <2>3, <3>1, <3>2, <3>3, Zenon
  <2>6. Remainder(s, 1, end) = v
    <3>1. CASE Len(s) <= end - 1 + 1
      <4>1. Remainder(s, 1, end) = <<>>
        BY <3>1 DEF Remainder
      <4>2. v = <<>>
        BY <1>2, <2>3, <3>1
      <4>. QED
        BY <4>1, <4>2
    <3>2. CASE ~ (Len(s) <= end - 1 + 1)
      <4>1. Len(s) > end - 1 + 1 /\ ~ (1 > 1) /\ end - 1 + 2 = end + 1
        BY <3>2
      <4>2. Remainder(s, 1, end) = SubSeq(s, end - 1 + 2, Len(s))
        BY <3>2, <4>1, Zenon DEF Remainder
      <4>. QED
        BY <2>3, <4>1, <4>2, Zenon
    <3>. QED
      BY <3>1, <3>2
  <2>7. end # Len(s) + 1
    BY <1>2
  <2>. QED
    BY <1>2, <2>1, <2>4, <2>5, <2>6, <2>7, Zenon
<1>. QED
  BY <1>1, <1>2

(***************************************************************************)
(* Lines arrive as they were sent.                                         *)
(***************************************************************************)
\* What the pool has sent and stratum_recv_line has not returned.
Coming == sockbuf \o arriving

\* A line is cut out of the buffer when there is one.
TokenReady == reading = "token" /\ ~ cut => HasNewLine(sockbuf)

AllBytes == open /\ ~ skipped =>
    FlattenSeq(delivered) \o WithoutNewLines(Coming) = FlattenSeq(poolLines)

AllLines == open /\ ~ skipped /\ ~ cut => Stream(delivered) \o Coming = Stream(poolLines)

NoneSkipped == open /\ NoEmptyLine /\ ~ cut => ~ skipped

Arriving == TokenReady /\ AllBytes /\ AllLines /\ NoneSkipped

LEMMA BytesAreNat == \A s \in Seq(Bytes) : s \in Seq(Nat)
BY DEF Bytes

LEMMA LinesOfBytes ==
    ASSUME NEW ls \in Seq(Seq(Bytes))
    PROVE  FlattenSeq(ls) \in Seq(Nat)
BY FlattenType, BytesAreNat

LEMMA NothingArrives ==
    /\ <<>> \o <<>> = <<>>
    /\ FlattenSeq(<<>>) \o WithoutNewLines(<<>> \o <<>>) = FlattenSeq(<<>>)
    /\ Stream(<<>>) \o (<<>> \o <<>>) = Stream(<<>>)
<1>1. <<>> \o <<>> = <<>>
  OBVIOUS
<1>. QED
  BY <1>1, FlattenEmpty, SiftEmpty, StreamEmpty, Zenon

LEMMA ArrivingInit == Init => Arriving
BY Zenon DEF Init, Arriving, TokenReady, AllBytes, AllLines, NoneSkipped

LEMMA ArrivingConnect == Connect => Arriving'
<1>. SUFFICES ASSUME Connect PROVE Arriving'
  OBVIOUS
<1>1. /\ sockbuf' = <<>> /\ arriving' = <<>> /\ delivered' = <<>> /\ poolLines' = <<>>
      /\ reading' = "idle" /\ ~ skipped'
  BY DEF Connect
<1>2. TokenReady' /\ NoneSkipped'
  BY <1>1 DEF TokenReady, NoneSkipped
<1>3. AllBytes' /\ AllLines'
  BY <1>1, NothingArrives, Zenon DEF AllBytes, AllLines, Coming
<1>. QED
  BY <1>2, <1>3, Zenon DEF Arriving

\* A step that moves nothing
LEMMA ArrivingSame ==
    ASSUME Arriving, UNCHANGED <<open, delivered, poolLines, skipped, cut>>,
           Coming' = Coming, TokenReady'
    PROVE  Arriving'
BY Zenon DEF Arriving, AllBytes, AllLines, NoneSkipped, NoEmptyLine

LEMMA ArrivingPoolSends ==
    ASSUME TypeOK, Arriving, NEW n \in Lengths, PoolSends(n)
    PROVE  Arriving'
<1>1. PICK l \in Seq(Bytes) :
         /\ poolLines' = Append(poolLines, l)
         /\ arriving' = arriving \o l \o <<NewLine>>
         /\ UNCHANGED <<open, sockbuf, reading, delivered, cut, skipped>>
  <2>1. n \in Nat /\ Len(poolLines) + 1 \in Nat \ {0}
    BY LineAssumption DEF TypeOK
  <2>2. [p \in 1..n |-> Byte(Len(poolLines) + 1, p)] \in Seq(Bytes)
    BY <2>1, PoolLineIs
  <2>3. /\ poolLines' = Append(poolLines, [p \in 1..n |-> Byte(Len(poolLines) + 1, p)])
        /\ arriving' = arriving \o [p \in 1..n |-> Byte(Len(poolLines) + 1, p)] \o <<NewLine>>
    BY DEF PoolSends
  <2>4. UNCHANGED <<open, sockbuf, reading, delivered, cut, skipped>>
    BY DEF PoolSends, reader, history
  <2>. QED
    BY <2>2, <2>3, <2>4, Zenon
<1>2. /\ sockbuf \in Seq(Nat) /\ arriving \in Seq(Nat) /\ poolLines \in Seq(Seq(Bytes))
      /\ delivered \in Seq(Seq(Bytes)) /\ l \in Seq(Nat)
  BY BytesAreNat DEF TypeOK
<1>3. Append(l, NewLine) \in Seq(Nat) /\ <<NewLine>> \in Seq(Nat) /\ Append(l, NewLine) = l \o <<NewLine>>
  <2>1. Append(l, NewLine) \in Seq(Nat)
    BY <1>1, TerminatedLine
  <2>2. <<NewLine>> \in Seq(Nat)
    BY DEF NewLine
  <2>3. Append(l, NewLine) = l \o <<NewLine>>
    <3>1. NewLine \in Nat
      BY DEF NewLine
    <3>. QED
      BY <1>2, <3>1, ConcatOne, Zenon
  <2>. QED
    BY <2>1, <2>2, <2>3
<1>4. Coming \in Seq(Nat)
  BY <1>2, ConcatType, Zenon DEF Coming
<1>5. Coming' = Coming \o Append(l, NewLine)
  <2>1. arriving' = arriving \o Append(l, NewLine)
    <3>1. (arriving \o l) \o <<NewLine>> = arriving \o (l \o <<NewLine>>)
      BY ONLY <1>2, <1>3, ConcatAssoc, Zenon
    <3>. QED
      BY <1>1, <1>3, <3>1, Zenon
  <2>2. (sockbuf \o arriving) \o Append(l, NewLine) = sockbuf \o (arriving \o Append(l, NewLine))
    BY ONLY <1>2, <1>3, ConcatAssoc, ZenonT(60)
  <2>. QED
    BY <1>1, <2>1, <2>2, Zenon DEF Coming
<1>6. TokenReady'
  BY <1>1 DEF Arriving, TokenReady
<1>7. AllBytes'
  <2>. SUFFICES ASSUME open, ~ skipped
                PROVE  FlattenSeq(delivered) \o WithoutNewLines(Coming') = FlattenSeq(poolLines')
    BY <1>1, Zenon DEF AllBytes
  <2>1. WithoutNewLines(Append(l, NewLine)) = l
    <3>1. NewLine \in Nat
      BY DEF NewLine
    <3>. QED
      BY <1>1, <1>2, <3>1, SiftAppend, SiftLine, Zenon
  <2>2. WithoutNewLines(Coming') = WithoutNewLines(Coming) \o l
    BY <1>3, <1>4, <1>5, <2>1, SiftConcat, Zenon
  <2>3. FlattenSeq(delivered) \in Seq(Nat) /\ WithoutNewLines(Coming) \in Seq(Nat)
    BY <1>2, <1>4, LinesOfBytes, SiftType, BytesAreNat, Zenon
  <2>4. (FlattenSeq(delivered) \o WithoutNewLines(Coming)) \o l
           = FlattenSeq(delivered) \o (WithoutNewLines(Coming) \o l)
    BY ONLY <1>2, <2>3, ConcatAssoc, ZenonT(60)
  <2>5. FlattenSeq(poolLines') = FlattenSeq(poolLines) \o l
    BY <1>1, <1>2, FlattenAppend
  <2>6. FlattenSeq(delivered) \o WithoutNewLines(Coming) = FlattenSeq(poolLines)
    BY Zenon DEF Arriving, AllBytes
  <2>. QED
    BY <2>2, <2>4, <2>5, <2>6, Zenon
<1>8. AllLines'
  <2>. SUFFICES ASSUME open, ~ skipped, ~ cut
                PROVE  Stream(delivered) \o Coming' = Stream(poolLines')
    BY <1>1, Zenon DEF AllLines
  <2>1. Stream(delivered) \in Seq(Nat)
    BY <1>2, StreamType
  <2>2. (Stream(delivered) \o Coming) \o Append(l, NewLine) = Stream(delivered) \o (Coming \o Append(l, NewLine))
    BY ONLY <1>3, <1>4, <2>1, ConcatAssoc, Zenon
  <2>3. Stream(poolLines') = Stream(poolLines) \o Append(l, NewLine)
    BY <1>1, <1>2, StreamAppend, Zenon
  <2>4. Stream(delivered) \o Coming = Stream(poolLines)
    BY Zenon DEF Arriving, AllLines
  <2>. QED
    BY <1>5, <2>2, <2>3, <2>4, Zenon
<1>9. NoneSkipped'
  <2>1. NoEmptyLine' => NoEmptyLine
    BY <1>1, <1>2 DEF NoEmptyLine
  <2>. QED
    BY <1>1, <2>1, Zenon DEF Arriving, NoneSkipped
<1>. QED
  BY <1>6, <1>7, <1>8, <1>9, Zenon DEF Arriving

LEMMA ArrivingReceive ==
    ASSUME TypeOK, Arriving, Receive
    PROVE  Arriving'
<1>1. PICK n \in 1..RECVSIZE : /\ n <= Len(arriving)
                               /\ sockbuf' = sockbuf \o SubSeq(arriving, 1, n)
                               /\ arriving' = SubSeq(arriving, n + 1, Len(arriving))
  BY DEF Receive
<1>2. sockbuf \in Seq(Nat) /\ arriving \in Seq(Nat) /\ n \in Nat /\ n >= 1
  BY LineAssumption DEF TypeOK
<1>3. SubSeq(arriving, 1, n) \in Seq(Nat) /\ SubSeq(arriving, n + 1, Len(arriving)) \in Seq(Nat)
  BY <1>1, <1>2, SMTT(30)
<1>4. SubSeq(arriving, 1, n) \o SubSeq(arriving, n + 1, Len(arriving)) = arriving
  <2>1. n \in 0..Len(arriving) /\ Len(arriving) \in n..Len(arriving)
    BY <1>1, <1>2
  <2>2. SubSeq(arriving, 1, Len(arriving)) = arriving
    BY <1>2
  <2>. QED
    BY <1>2, <2>1, <2>2, PartsJoin, Zenon
<1>5. Coming' = Coming
  <2>1. (sockbuf \o SubSeq(arriving, 1, n)) \o SubSeq(arriving, n + 1, Len(arriving))
           = sockbuf \o (SubSeq(arriving, 1, n) \o SubSeq(arriving, n + 1, Len(arriving)))
    BY ONLY <1>2, <1>3, ConcatAssoc, Zenon
  <2>. QED
    BY <1>1, <1>4, <2>1, Zenon DEF Coming
<1>6. UNCHANGED <<open, delivered, poolLines, skipped>>
  BY DEF Receive
<1>7. TokenReady'
  BY DEF Receive, TokenReady
<1>8. cut => cut'
  BY DEF Receive
<1>. QED
  BY <1>5, <1>6, <1>7, <1>8, Zenon DEF Arriving, AllBytes, AllLines, NoneSkipped, NoEmptyLine

\* strtok finds nothing to skip, as long as the pool sends no empty line and no
\* line was cut.
LEMMA NothingToSkip ==
    ASSUME TypeOK, Arriving, open, NoEmptyLine, ~ cut, sockbuf # <<>>
    PROVE  sockbuf[1] # NewLine
<1>1. /\ sockbuf \in Seq(Nat) /\ arriving \in Seq(Nat)
      /\ poolLines \in Seq(Seq(Bytes)) /\ delivered \in Seq(Seq(Bytes))
  BY DEF TypeOK
<1>2. Coming \in Seq(Nat)
  BY <1>1, ConcatType, Zenon DEF Coming
<1>3. Coming # <<>> /\ Coming[1] = sockbuf[1]
  BY <1>1 DEF Coming
<1>4. Stream(delivered) \o Coming = Stream(poolLines)
  BY Zenon DEF Arriving, AllLines, NoneSkipped
<1>5. PICK ms \in Seq(Seq(Bytes)) : poolLines = delivered \o ms /\ Coming = Stream(ms)
  BY <1>1, <1>2, <1>4, Decodes
<1>6. ms # <<>>
  BY <1>3, <1>5, StreamEmpty, Zenon
<1>7. PICK h \in Seq(Bytes), ns \in Seq(Seq(Bytes)) :
          h = ms[1] /\ Stream(ms) = Append(h, NewLine) \o Stream(ns)
  BY <1>5, <1>6, StreamHead
<1>8. h = poolLines[Len(delivered) + 1] /\ Len(delivered) + 1 \in 1..Len(poolLines)
  BY <1>1, <1>5, <1>6, <1>7
<1>9. h # <<>>
  BY <1>8, Zenon DEF NoEmptyLine
<1>10. 1 \in 1..Len(h)
  BY <1>7, <1>9
<1>11. LineInFront(h, Coming)
  BY <1>5, <1>7, StreamType, LineInFrontIs, Zenon
<1>. QED
  BY <1>3, <1>10, <1>11, Zenon DEF LineInFront

LEMMA ArrivingTokenise ==
    ASSUME TypeOK, Arriving, Tokenise
    PROVE  Arriving'
<1>. DEFINE first == NextOther(sockbuf)
            end == NextNewLine(sockbuf, first)
            token == SubSeq(sockbuf, first, end - 1)
            rest == Remainder(sockbuf, first, end)
<1>1. /\ sockbuf \in Seq(Nat) /\ arriving \in Seq(Nat)
      /\ poolLines \in Seq(Seq(Bytes)) /\ delivered \in Seq(Seq(Bytes))
  BY DEF TypeOK
<1>2. /\ first \in 1..(Len(sockbuf) + 1)
      /\ \A k \in 1..(first - 1) : sockbuf[k] = NewLine
  BY <1>1, NextOtherIs
<1>3. /\ end \in first..(Len(sockbuf) + 1)
      /\ end = Len(sockbuf) + 1 \/ sockbuf[end] = NewLine
      /\ \A k \in first..(end - 1) : sockbuf[k] # NewLine
  BY <1>1, <1>2, NextNewLineIs
<1>. HIDE DEF first, end
<1>4. UNCHANGED <<open, cut, arriving, poolLines>>
  BY DEF Tokenise, pool
<1>5. CASE first > Len(sockbuf)
  <2>1. reading' = "failed" /\ UNCHANGED <<sockbuf, delivered, skipped>>
    BY <1>5 DEF Tokenise, first
  <2>2. TokenReady'
    BY <2>1 DEF TokenReady
  <2>3. Coming' = Coming
    BY <1>4, <2>1 DEF Coming
  <2>. QED
    BY <1>4, <2>1, <2>2, <2>3, ArrivingSame
<1>6. CASE ~ (first > Len(sockbuf))
  <2>1. /\ delivered' = Append(delivered, token) /\ sockbuf' = rest
        /\ skipped' = (skipped \/ first > 1) /\ reading' = "idle"
    BY <1>6 DEF Tokenise, first, end
  <2>2. first \in 1..Len(sockbuf)
    BY <1>1, <1>2, <1>6
  <2>3. token \in Seq(Bytes) /\ rest \in Seq(Nat)
    BY <1>1, <1>3, <2>2, TokenIs
  <2>4. TokenReady'
    BY <2>1 DEF TokenReady
  <2>5. first = 1 => (end <= Len(sockbuf) /\ sockbuf[end] = NewLine) \/ end = Len(sockbuf) + 1
    BY <1>1, <1>2, <1>3
  <2>6. first = 1 /\ ~ cut => end <= Len(sockbuf) /\ sockbuf[end] = NewLine
    <3>. SUFFICES ASSUME first = 1, ~ cut, end = Len(sockbuf) + 1 PROVE FALSE
      BY <2>5
    <3>1. HasNewLine(sockbuf)
      BY DEF Arriving, TokenReady, Tokenise
    <3>2. \A k \in 1..Len(sockbuf) : k \in first..(end - 1)
      BY <1>1
    <3>. QED
      BY <1>3, <3>1, <3>2, Zenon DEF HasNewLine
  <2>. HIDE DEF token, rest
  <2>7. /\ first = 1 /\ end <= Len(sockbuf) /\ sockbuf[end] = NewLine =>
              sockbuf = Append(token, NewLine) \o rest
        /\ first = 1 /\ end = Len(sockbuf) + 1 => sockbuf = token /\ rest = <<>>
    <3>1. first = 1 => end \in 1..(Len(sockbuf) + 1)
      BY <1>1, <1>3
    <3>. QED
      BY <1>1, <3>1, TokenInFront, Zenon DEF token, rest
  <2>8. Append(token, NewLine) \in Seq(Nat) /\ token \in Seq(Nat)
    BY <2>3, TerminatedLine, BytesAreNat
  <2>9. ~ skipped' => first = 1 /\ ~ skipped
    <3>1. ~ (first > 1) => first = 1
      BY <2>2
    <3>. QED
      BY <2>1, <3>1, Zenon
  <2>10. rest \o arriving \in Seq(Nat)
    BY <1>1, <2>3, ConcatType, Zenon
  <2>11. first = 1 /\ end <= Len(sockbuf) /\ sockbuf[end] = NewLine =>
              Coming = Append(token, NewLine) \o (rest \o arriving)
    <3>1. (Append(token, NewLine) \o rest) \o arriving = Append(token, NewLine) \o (rest \o arriving)
      BY ONLY <1>1, <2>3, <2>8, ConcatAssoc, ZenonT(60)
    <3>. QED
      BY <2>7, <3>1, Zenon DEF Coming
  <2>12. AllBytes'
    <3>. SUFFICES ASSUME open, ~ skipped, first = 1
                  PROVE  FlattenSeq(delivered') \o WithoutNewLines(rest \o arriving) = FlattenSeq(poolLines)
      BY <1>4, <2>1, <2>9, Zenon DEF AllBytes, Coming
    <3>1. WithoutNewLines(Coming) = token \o WithoutNewLines(rest \o arriving)
      <4>1. CASE end <= Len(sockbuf) /\ sockbuf[end] = NewLine
        <5>1. WithoutNewLines(Append(token, NewLine)) = token
          <6>1. NewLine \in Nat
            BY DEF NewLine
          <6>. QED
            BY <2>3, <2>8, <6>1, SiftAppend, SiftLine, Zenon
        <5>2. Coming = Append(token, NewLine) \o (rest \o arriving)
          BY <2>11, <4>1, Zenon
        <5>. QED
          BY <2>8, <2>10, <5>1, <5>2, SiftConcat, Zenon
      <4>2. CASE end = Len(sockbuf) + 1
        <5>1. sockbuf = token /\ rest = <<>>
          BY <2>7, <4>2, Zenon
        <5>2. rest \o arriving = arriving
          BY <1>1, <5>1, ConcatIs, Zenon
        <5>3. WithoutNewLines(token \o arriving) = WithoutNewLines(token) \o WithoutNewLines(arriving)
          BY <1>1, <2>8, SiftConcat, Zenon
        <5>4. WithoutNewLines(token) = token
          BY <2>3, SiftLine
        <5>. QED
          BY <5>1, <5>2, <5>3, <5>4, Zenon DEF Coming
      <4>. QED
        BY <2>5, <4>1, <4>2, Zenon
    <3>2. FlattenSeq(delivered) \in Seq(Nat) /\ WithoutNewLines(rest \o arriving) \in Seq(Nat)
      BY <1>1, <2>10, LinesOfBytes, SiftType, BytesAreNat, Zenon
    <3>3. FlattenSeq(delivered') = FlattenSeq(delivered) \o token
      BY <1>1, <2>1, <2>3, FlattenAppend
    <3>4. (FlattenSeq(delivered) \o token) \o WithoutNewLines(rest \o arriving)
             = FlattenSeq(delivered) \o (token \o WithoutNewLines(rest \o arriving))
      BY ONLY <2>8, <3>2, ConcatAssoc, ZenonT(60)
    <3>5. FlattenSeq(delivered) \o WithoutNewLines(Coming) = FlattenSeq(poolLines)
      BY Zenon DEF Arriving, AllBytes
    <3>. QED
      BY <3>1, <3>3, <3>4, <3>5, Zenon
  <2>13. AllLines'
    <3>. SUFFICES ASSUME open, ~ skipped, ~ cut, first = 1
                  PROVE  Stream(delivered') \o (rest \o arriving) = Stream(poolLines)
      BY <1>4, <2>1, <2>9, Zenon DEF AllLines, Coming
    <3>1. Coming = Append(token, NewLine) \o (rest \o arriving)
      BY <2>6, <2>11, Zenon
    <3>2. Stream(delivered') = Stream(delivered) \o Append(token, NewLine)
      BY <1>1, <2>1, <2>3, StreamAppend, Zenon
    <3>3. Stream(delivered) \in Seq(Nat)
      BY <1>1, StreamType
    <3>4. (Stream(delivered) \o Append(token, NewLine)) \o (rest \o arriving)
             = Stream(delivered) \o (Append(token, NewLine) \o (rest \o arriving))
      BY ONLY <2>8, <2>10, <3>3, ConcatAssoc, Zenon
    <3>5. Stream(delivered) \o Coming = Stream(poolLines)
      BY Zenon DEF Arriving, AllLines
    <3>. QED
      BY <3>1, <3>2, <3>4, <3>5, Zenon
  <2>14. NoneSkipped'
    <3>. SUFFICES ASSUME open, NoEmptyLine, ~ cut PROVE ~ skipped'
      BY <1>4, Zenon DEF NoneSkipped, NoEmptyLine
    <3>1. ~ skipped
      BY Zenon DEF Arriving, NoneSkipped
    <3>2. sockbuf # <<>>
      BY <2>2
    <3>3. sockbuf[1] # NewLine
      BY <3>2, NothingToSkip
    <3>4. first > 1 => 1 \in 1..(first - 1)
      BY <2>2
    <3>5. ~ (first > 1)
      BY <1>2, <3>3, <3>4, Zenon
    <3>. QED
      BY <2>1, <3>1, <3>5
  <2>. QED
    BY <2>4, <2>12, <2>13, <2>14, Zenon DEF Arriving
<1>. QED
  BY <1>5, <1>6

LEMMA ArrivingStep == TypeOK /\ Arriving /\ [Next]_vars => Arriving'
<1>. SUFFICES ASSUME TypeOK, Arriving, [Next]_vars PROVE Arriving'
  OBVIOUS
<1>1. CASE Connect
  BY <1>1, ArrivingConnect
<1>2. CASE Disconnect
  <2>1. ~ open' /\ reading' = "idle"
    BY <1>2 DEF Disconnect
  <2>. QED
    BY <2>1 DEF Arriving, TokenReady, AllBytes, AllLines, NoneSkipped
<1>3. CASE Receive
  BY <1>3, ArrivingReceive
<1>4. CASE Tokenise
  BY <1>4, ArrivingTokenise
<1>5. ASSUME NEW n \in Lengths, PoolSends(n)
      PROVE  Arriving'
  BY <1>5, ArrivingPoolSends
<1>6. CASE StartRead \/ ReadTimesOut \/ ReceiveEnds
  <2>1. UNCHANGED <<open, delivered, poolLines, skipped, cut, sockbuf, arriving>>
    BY <1>6 DEF StartRead, ReadTimesOut, ReceiveEnds, history, pool
  <2>2. reading' = "token" => HasNewLine(sockbuf)
    BY <1>6 DEF StartRead, ReadTimesOut, ReceiveEnds
  <2>3. TokenReady'
    BY <2>1, <2>2 DEF TokenReady
  <2>4. Coming' = Coming
    BY <2>1 DEF Coming
  <2>. QED
    BY <2>1, <2>3, <2>4, ArrivingSame
<1>7. CASE UNCHANGED <<open, reader, arriving, poolLines>>
  <2>1. UNCHANGED <<open, delivered, poolLines, skipped, cut, sockbuf, arriving, reading>>
    BY <1>7 DEF reader, history
  <2>2. TokenReady'
    BY <2>1 DEF TokenReady, Arriving
  <2>3. Coming' = Coming
    BY <2>1 DEF Coming
  <2>. QED
    BY <2>1, <2>2, <2>3, ArrivingSame
<1>. QED
  BY <1>1, <1>2, <1>3, <1>4, <1>5, <1>6, <1>7
     DEF Next, Reads, Pool, Writes, PoolReads, PoolCloses, BeginSend, SendSome, SendDone, SendFails,
         Return, vars, pool

\* For lines of any length and number, for any RECVSIZE and RBUFSIZE and however
\* recv cuts up what arrives: as long as no newline was skipped, what has been
\* returned, what is in the buffer and what is in the socket are the bytes the
\* pool sent; as long as no line was cut either, the lines returned are the first
\* of those sent; and only an empty line or a cut one makes strtok skip a newline.
THEOREM LinesAreReturnedWhole == Spec => []LinesArriveWhole
<1>1. Init => TypeOK /\ Arriving
  BY TypesInit, ArrivingInit
<1>2. TypeOK /\ Arriving /\ [Next]_vars => (TypeOK /\ Arriving)'
  BY TypesStep, ArrivingStep
<1>3. TypeOK /\ Arriving => LinesArriveWhole
  <2>. SUFFICES ASSUME TypeOK, Arriving, open
                PROVE  /\ ~ skipped =>
                             /\ FlattenSeq(delivered) \o WithoutNewLines(sockbuf \o arriving)
                                    = FlattenSeq(poolLines)
                             /\ ~ cut => IsPrefix(delivered, poolLines)
                       /\ NoEmptyLine /\ ~ cut => ~ skipped
    BY Zenon DEF LinesArriveWhole
  <2>1. ~ skipped => FlattenSeq(delivered) \o WithoutNewLines(sockbuf \o arriving) = FlattenSeq(poolLines)
    BY Zenon DEF Arriving, AllBytes, Coming
  <2>2. ASSUME ~ skipped, ~ cut
        PROVE  IsPrefix(delivered, poolLines)
    <3>1. /\ sockbuf \in Seq(Nat) /\ arriving \in Seq(Nat)
          /\ poolLines \in Seq(Seq(Bytes)) /\ delivered \in Seq(Seq(Bytes))
      BY DEF TypeOK
    <3>2. Coming \in Seq(Nat)
      BY <3>1, ConcatType, Zenon DEF Coming
    <3>3. Stream(delivered) \o Coming = Stream(poolLines)
      BY <2>2, Zenon DEF Arriving, AllLines
    <3>4. PICK ms \in Seq(Seq(Bytes)) : poolLines = delivered \o ms
      BY <3>1, <3>2, <3>3, Decodes, ZenonT(60)
    <3>. QED
      BY <3>1, <3>4, PrefixIs, Zenon
  <2>3. NoEmptyLine /\ ~ cut => ~ skipped
    BY Zenon DEF Arriving, NoneSkipped
  <2>. QED
    BY <2>1, <2>2, <2>3, Zenon
<1>. QED
  BY <1>1, <1>2, <1>3, PTL DEF Spec

=============================================================================
