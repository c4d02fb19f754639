--------------------------- MODULE HashStreamProofs ---------------------------
(***************************************************************************)
(* Proofs about the hash contexts, for messages of any length and bytes,   *)
(* cut into calls in any way.  StreamInv gives every byte its place;       *)
(* DigestInv, on top of it, says what the counters and tweaks are after    *)
(* n blocks, and what a close has still to compress.                       *)
(***************************************************************************)
EXTENDS HashStreamProps, TLAPS

(***************************************************************************)
(* Sequences of bytes.                                                     *)
(***************************************************************************)
Text == Seq(Int)

LEMMA ConcatType == \A a, b \in Text : a \o b \in Text /\ Len(a \o b) = Len(a) + Len(b)
BY DEF Text

LEMMA ConcatAssoc == \A a, b, c \in Text : (a \o b) \o c = a \o (b \o c)
BY SMTT(30) DEF Text

LEMMA ConcatEmpty == \A a \in Text : a \o <<>> = a /\ <<>> \o a = a
BY DEF Text

LEMMA EmptyType == <<>> \in Text /\ Len(<<>>) = 0
BY DEF Text

\* The part of a sequence between two places.
LEMMA PartType ==
    ASSUME NEW s \in Text, NEW m \in Nat, NEW n \in Nat, 1 <= m, m <= n + 1, n <= Len(s)
    PROVE  SubSeq(s, m, n) \in Text /\ Len(SubSeq(s, m, n)) = n - m + 1
BY DEF Text

LEMMA Whole == \A s \in Text : SubSeq(s, 1, Len(s)) = s /\ SubSeq(s, Len(s) + 1, Len(s)) = <<>>
BY DEF Text

LEMMA PartsJoin ==
    ASSUME NEW s \in Text, NEW m \in Nat, NEW n \in Nat, m <= n, n <= Len(s)
    PROVE  SubSeq(s, 1, m) \o SubSeq(s, m + 1, n) = SubSeq(s, 1, n)
BY DEF Text

\* A sequence is what is in front of a place and what is behind it.
LEMMA Split ==
    ASSUME NEW s \in Text, NEW n \in Nat, n <= Len(s)
    PROVE  s = SubSeq(s, 1, n) \o SubSeq(s, n + 1, Len(s))
<1>1. PICK m \in Nat : m = Len(s)
  BY DEF Text
<1>2. n <= m /\ m <= Len(s)
  BY <1>1
<1>3. SubSeq(s, 1, n) \o SubSeq(s, n + 1, m) = SubSeq(s, 1, m)
  BY <1>2, PartsJoin, Zenon
<1>. QED
  BY <1>1, <1>3, Whole

LEMMA EmptyIs == \A s \in Text : Len(s) = 0 <=> s = <<>>
BY DEF Text

LEMMA LeastIs ==
    ASSUME NEW a \in Int, NEW b \in Int
    PROVE  /\ Least(a, b) \in Int /\ Least(a, b) <= a /\ Least(a, b) <= b
           /\ Least(a, b) = a \/ Least(a, b) = b
BY DEF Least

LEMMA ZerosType == \A n \in Nat : Zeros(n) \in Text /\ Len(Zeros(n)) = n
BY DEF Zeros, Text

LEMMA DigitType == \A v \in Int : \A k \in Int : Digit(v, k) \in Int
BY DEF Digit

LEMMA EndianTypes ==
    ASSUME NEW v \in Int, NEW n \in Nat
    PROVE  /\ BigEndian(v, n) \in Text /\ Len(BigEndian(v, n)) = n
           /\ LittleEndian(v, n) \in Text /\ Len(LittleEndian(v, n)) = n
<1>1. \A i \in 1..n : Digit(v, n - i) \in Int /\ Digit(v, i - 1) \in Int
  BY DigitType
<1>. QED
  BY <1>1 DEF BigEndian, LittleEndian, Text

LEMMA SameText ==
    ASSUME NEW a \in Text, NEW b \in Text, Len(a) = Len(b),
           \A i \in 1..Len(a) : a[i] = b[i]
    PROVE  a = b
BY SMTT(30) DEF Text

LEMMA JoinedAt ==
    ASSUME NEW a \in Text, NEW b \in Text, NEW i \in 1..(Len(a) + Len(b))
    PROVE  (a \o b)[i] = IF i <= Len(a) THEN a[i] ELSE b[i - Len(a)]
BY DEF Text

LEMMA PartAt ==
    ASSUME NEW s \in Text, NEW m \in Nat, NEW n \in Nat, 1 <= m, n <= Len(s),
           NEW i \in 1..(n - m + 1)
    PROVE  SubSeq(s, m, n)[i] = s[m + i - 1]
BY DEF Text

\* What has been copied into a buffer stands behind what was there before.
LEMMA CopyType ==
    ASSUME NEW b \in Text, NEW at \in Nat, NEW d \in Text, NEW n \in Nat, n <= Len(d)
    PROVE  Copy(b, at, d, n) \in Text /\ Len(Copy(b, at, d, n)) = Len(b)
BY DEF Copy, Text

LEMMA CopyFills ==
    ASSUME NEW b \in Text, NEW at \in Nat, NEW d \in Text, NEW n \in Nat,
           n <= Len(d), at + n <= Len(b)
    PROVE  SubSeq(Copy(b, at, d, n), 1, at + n) = SubSeq(b, 1, at) \o SubSeq(d, 1, n)
<1>. DEFINE c == Copy(b, at, d, n)
            l == SubSeq(c, 1, at + n)
            f == SubSeq(b, 1, at)
            g2 == SubSeq(d, 1, n)
<1>0. c \in Text /\ Len(c) = Len(b)
  BY CopyType
<1>1. \A i \in 1..Len(b) : c[i] = IF at < i /\ i <= at + n THEN d[i - at] ELSE b[i]
  BY DEF Copy, Text
<1>. HIDE DEF c
<1>2. l \in Text /\ Len(l) = at + n
  BY <1>0, PartType
<1>3. f \in Text /\ Len(f) = at
  BY PartType
<1>4. g2 \in Text /\ Len(g2) = n
  BY PartType
<1>5. f \o g2 \in Text /\ Len(f \o g2) = at + n
  BY <1>3, <1>4, ConcatType
<1>6. ASSUME NEW i \in 1..(at + n)
      PROVE  l[i] = (f \o g2)[i]
  <2>1. l[i] = c[i]
    BY <1>0, PartAt
  <2>2. (f \o g2)[i] = IF i <= at THEN f[i] ELSE g2[i - at]
    BY <1>3, <1>4, JoinedAt
  <2>3. i <= at => f[i] = b[i]
    BY PartAt
  <2>4. i > at => g2[i - at] = d[i - at]
    BY PartAt
  <2>. HIDE DEF l, f, g2
  <2>. QED
    BY <1>1, <2>1, <2>2, <2>3, <2>4, <1>0
<1>. HIDE DEF l, f, g2
<1>7. l = f \o g2
  BY <1>2, <1>5, <1>6, SameText
<1>. QED
  BY <1>7 DEF l, f, g2, c

\* Bytes that are shifted in stand behind those that were shifted in before.
LEMMA ShiftInType ==
    ASSUME NEW p \in Text, Len(p) = 4, NEW d \in Text
    PROVE  ShiftIn(p, d) \in Text /\ Len(ShiftIn(p, d)) = 4
<1>1. p \o d \in Text /\ Len(p \o d) = 4 + Len(d)
  BY ConcatType
<1>2. PICK n \in Nat : n = Len(d)
  BY DEF Text
<1>3. PICK m \in Nat : m = n + 1
  BY <1>2
<1>4. /\ 1 <= m /\ m <= (n + 4) + 1 /\ n + 4 <= Len(p \o d)
      /\ n + 4 \in Nat /\ (n + 4) - m + 1 = 4
  BY <1>1, <1>2, <1>3
<1>5. SubSeq(p \o d, m, n + 4) \in Text /\ Len(SubSeq(p \o d, m, n + 4)) = (n + 4) - m + 1
  BY <1>1, <1>3, <1>4, PartType, Zenon
<1>. QED
  BY <1>2, <1>3, <1>4, <1>5 DEF ShiftIn

LEMMA ShiftInFills ==
    ASSUME NEW p \in Text, Len(p) = 4, NEW d \in Text, NEW k \in Nat, k + Len(d) <= 4
    PROVE  SubSeq(ShiftIn(p, d), 5 - (k + Len(d)), 4) = SubSeq(p, 5 - k, 4) \o d
<1>0. PICK n \in Nat : n = Len(d) /\ k + n <= 4
  BY DEF Text
<1>1. PICK m \in Nat : m = 5 - (k + n)
  <2>1. 5 - (k + n) \in Nat
    BY <1>0
  <2>. QED
    BY <2>1, Zenon
<1>2. PICK o \in Nat : o = 5 - k
  BY <1>0
<1>. DEFINE q == p \o d
            c == ShiftIn(p, d)
            l == SubSeq(c, m, 4)
            f == SubSeq(p, o, 4)
<1>3. c \in Text /\ Len(c) = 4
  BY ShiftInType
<1>4. q \in Text /\ Len(q) = 4 + n
  BY <1>0, ConcatType
<1>5. c = SubSeq(q, n + 1, n + 4)
  BY <1>0 DEF ShiftIn
<1>6. ASSUME NEW i \in 1..(4 + n)
      PROVE  q[i] = IF i <= 4 THEN p[i] ELSE d[i - 4]
  <2>1. i \in 1..(Len(p) + Len(d))
    BY <1>0
  <2>2. q[i] = IF i <= Len(p) THEN p[i] ELSE d[i - Len(p)]
    BY <2>1, JoinedAt, Zenon
  <2>. QED
    BY <2>2
<1>. HIDE DEF q, c
<1>7. ASSUME NEW i \in 1..4
      PROVE  c[i] = q[n + i]
  <2>1. PICK j \in Nat : j = n + 1
    BY <1>0
  <2>2. PICK h \in Nat : h = n + 4
    BY <1>0
  <2>3. i \in 1..(h - j + 1)
    BY <2>1, <2>2, <1>0
  <2>4. SubSeq(q, j, h)[i] = q[j + i - 1]
    BY <2>1, <2>2, <2>3, <1>0, <1>4, PartAt
  <2>. QED
    BY <2>1, <2>2, <2>4, <1>0, <1>5
<1>8. l \in Text /\ Len(l) = k + n
  <2>1. 1 <= m /\ m <= 4 + 1 /\ 4 <= Len(c) /\ 4 - m + 1 = k + n /\ 4 \in Nat
    BY <1>0, <1>1, <1>3
  <2>. QED
    BY <2>1, <1>3, PartType, Zenon
<1>9. f \in Text /\ Len(f) = k
  <2>1. 1 <= o /\ o <= 4 + 1 /\ 4 <= Len(p) /\ 4 - o + 1 = k /\ 4 \in Nat
    BY <1>0, <1>2
  <2>. QED
    BY <2>1, PartType, Zenon
<1>10. f \o d \in Text /\ Len(f \o d) = k + n
  BY <1>0, <1>9, ConcatType
<1>11. ASSUME NEW i \in 1..(k + n)
       PROVE  l[i] = (f \o d)[i]
  <2>1. l[i] = c[m + i - 1]
    BY <1>0, <1>1, <1>3, PartAt
  <2>2. m + i - 1 \in 1..4 /\ n + (m + i - 1) = 4 - k + i
    BY <1>0, <1>1
  <2>3. l[i] = q[4 - k + i]
    BY <1>7, <2>1, <2>2
  <2>4. 4 - k + i \in 1..(4 + n) /\ 4 - k + i - 4 = i - k
    BY <1>0
  <2>5. q[4 - k + i] = IF i <= k THEN p[4 - k + i] ELSE d[i - k]
    BY <1>0, <1>6, <2>4
  <2>6. (f \o d)[i] = IF i <= k THEN f[i] ELSE d[i - k]
    BY <1>0, <1>9, JoinedAt
  <2>7. i <= k => f[i] = p[4 - k + i]
    <3>. SUFFICES ASSUME i <= k PROVE f[i] = p[4 - k + i]
      OBVIOUS
    <3>1. i \in 1..(4 - o + 1)
      BY <1>0, <1>2
    <3>2. f[i] = p[o + i - 1]
      BY <3>1, <1>2, <1>0, PartAt
    <3>3. o + i - 1 = 4 - k + i
      BY <1>2, <1>0
    <3>. QED
      BY <3>2, <3>3
  <2>. HIDE DEF l, f
  <2>. QED
    BY <2>3, <2>5, <2>6, <2>7
<1>. HIDE DEF l, f
<1>12. l = f \o d
  BY <1>8, <1>10, <1>11, SameText
<1>. QED
  BY <1>0, <1>1, <1>2, <1>12 DEF l, f, c

\* Bytes may change places at a border between two parts of the message.
SameOrder(a, b, f, t) ==
    /\ (a \o (b \o f)) \o t = (a \o b) \o (f \o t)
    /\ ((a \o (b \o f)) \o <<>>) \o t = (a \o b) \o (f \o t)

LEMMA Regrouped ==
    ASSUME NEW a \in Text, NEW b \in Text, NEW f \in Text, NEW t \in Text
    PROVE  SameOrder(a, b, f, t)
<1>1. a \o b \in Text /\ b \o f \in Text /\ a \o (b \o f) \in Text
  BY ConcatType
<1>2. (a \o (b \o f)) \o <<>> = a \o (b \o f)
  BY <1>1, ConcatEmpty
<1>3. a \o (b \o f) = (a \o b) \o f
  BY ConcatAssoc, SMTT(30)
<1>4. ((a \o b) \o f) \o t = (a \o b) \o (f \o t)
  <2>1. PICK x \in Text : x = a \o b
    BY <1>1
  <2>2. (x \o f) \o t = x \o (f \o t)
    BY ConcatAssoc
  <2>. QED
    BY <2>1, <2>2
<1>. QED
  BY <1>2, <1>3, <1>4, Zenon DEF SameOrder

(***************************************************************************)
(* The hash functions.                                                     *)
(***************************************************************************)
LEMMA CoreIs ==
    ASSUME hash \in Hashes
    PROVE  /\ Block \in Nat /\ Block > 0
           /\ Core.tick \in Nat /\ Core.start \in Nat
           /\ hash = "groestl" => Block = 128
           /\ hash = "jh" => Block = 64
           /\ hash = "keccak" => Block = 72
           /\ hash = "luffa" => Block = 32
           /\ hash = "blake64" => Block = 128 /\ Core.tick = 1024
           /\ hash = "blake32" => Block = 64 /\ Core.tick = 512
           /\ hash = "echo" => Block = 128
           /\ hash = "sha256" => Block = 64
           /\ hash = "skein" => Block = 64
           /\ hash = "fugue" => Block = 4
           /\ hash = "cubehash" => Block = 32
           /\ hash = "shabal" => Block = 64
           /\ hash = "gost" => Block = 64
<1>1. hash \in {"groestl", "skein", "jh", "cubehash", "keccak", "echo", "sha256", "fugue",
                "blake32", "blake64", "luffa", "shabal", "gost"}
  BY StreamAssumption
<1>2. CASE hash = "groestl"
  BY <1>2 DEF Block, Core, CoreOf, GroestlCore
<1>3. CASE hash = "jh"
  BY <1>3 DEF Block, Core, CoreOf, JhCore
<1>4. CASE hash = "cubehash"
  BY <1>4 DEF Block, Core, CoreOf, CubehashCore
<1>5. CASE hash = "keccak"
  BY <1>5 DEF Block, Core, CoreOf, KeccakCore
<1>6. CASE hash = "luffa"
  BY <1>6 DEF Block, Core, CoreOf, LuffaCore
<1>7. CASE hash = "echo"
  BY <1>7 DEF Block, Core, CoreOf, EchoCore
<1>8. CASE hash = "blake64"
  BY <1>8 DEF Block, Core, CoreOf, Blake64Core
<1>9. CASE hash = "blake32"
  BY <1>9 DEF Block, Core, CoreOf, Blake32Core
<1>10. CASE hash = "shabal"
  BY <1>10 DEF Block, Core, CoreOf, ShabalCore
<1>11. CASE hash = "sha256"
  BY <1>11 DEF Block, Core, CoreOf, Sha256Core
<1>12. CASE hash = "skein"
  BY <1>12 DEF Block, Core, CoreOf, SkeinCore
<1>13. CASE hash = "fugue"
  BY <1>13 DEF Block, Core, CoreOf, FugueCore
<1>14. CASE hash = "gost"
  BY <1>14 DEF Block, Core, CoreOf, GostCore
<1>. QED
  BY <1>1, <1>2, <1>3, <1>4, <1>5, <1>6, <1>7, <1>8, <1>9, <1>10, <1>11, <1>12, <1>13, <1>14

(***************************************************************************)
(* The inductive invariant: every byte has its place.                      *)
(***************************************************************************)
Calls == {"idle", "update", "fill", "direct"}

StreamTypes ==
    /\ hash \in Hashes
    /\ fed \in 0..Len(Message)
    /\ stage \in Stages
    /\ buf \in Text /\ Len(buf) = Block
    /\ ptr \in 0..Block
    /\ count \in Int
    /\ rest \in Text
    /\ pads \in Seq([data : Text, count : Int])

\* A buffer that is full stays so only in skein and fugue; a call is over when
\* nothing is left of its data; the direct loop of sph_sha256 starts with an
\* empty buffer, and a closed context is an initialised one.
Places ==
    /\ hash \notin {"skein", "fugue"} => ptr < Block
    /\ stage = "idle" => rest = <<>>
    /\ stage = "fill" => hash = "sha256" /\ Len(rest) >= Block
    /\ stage = "direct" => hash = "sha256" /\ ptr = 0
    /\ stage = "closed" => ptr = 0 /\ absorbed = <<>>

Kept ==
    stage \in Calls /\ hash # "gost" =>
        absorbed \in Text /\ (absorbed \o Buffered) \o rest = Prefix(fed)

StreamInv == StreamTypes /\ Places /\ Kept

LEMMA BufferedType ==
    ASSUME StreamTypes
    PROVE  Buffered \in Text /\ Len(Buffered) = ptr
<1>1. /\ hash \in Hashes /\ buf \in Text /\ Len(buf) = Block /\ ptr \in Nat /\ ptr <= Block
      /\ Block \in Nat
  BY CoreIs DEF StreamTypes
<1>2. CASE hash = "fugue"
  <2>1. Block = 4
    BY <1>1, <1>2, CoreIs
  <2>2. PICK m \in Nat : m = 5 - ptr
    <3>1. 5 - ptr \in Nat
      BY <1>1, <2>1
    <3>. QED
      BY <3>1, Zenon
  <2>3. 1 <= m /\ m <= 4 + 1 /\ 4 <= Len(buf) /\ 4 - m + 1 = ptr /\ 4 \in Nat
    BY <1>1, <2>1, <2>2
  <2>4. SubSeq(buf, m, 4) \in Text /\ Len(SubSeq(buf, m, 4)) = 4 - m + 1
    BY <1>1, <2>3, PartType, Zenon
  <2>. QED
    BY <1>2, <2>2, <2>3, <2>4 DEF Buffered
<1>3. CASE hash # "fugue"
  <2>1. 1 <= 1 /\ 1 <= ptr + 1 /\ ptr <= Len(buf) /\ ptr - 1 + 1 = ptr /\ 1 \in Nat
    BY <1>1
  <2>2. SubSeq(buf, 1, ptr) \in Text /\ Len(SubSeq(buf, 1, ptr)) = ptr - 1 + 1
    BY <1>1, <2>1, PartType, Zenon
  <2>. QED
    BY <1>3, <2>1, <2>2 DEF Buffered
<1>. QED
  BY <1>2, <1>3

LEMMA MessageIsText == Message \in Text
BY StreamAssumption DEF Text

LEMMA PrefixType == \A n \in 0..Len(Message) : Prefix(n) \in Text /\ Len(Prefix(n)) = n
<1>. SUFFICES ASSUME NEW n \in 0..Len(Message) PROVE Prefix(n) \in Text /\ Len(Prefix(n)) = n
  OBVIOUS
<1>1. Len(Message) \in Nat
  BY MessageIsText DEF Text
<1>. QED
  BY <1>1, MessageIsText, PartType DEF Prefix

\* What a call is given follows what was given before.
LEMMA GivenIs ==
    ASSUME NEW m \in Nat, NEW n \in Nat, m + n <= Len(Message)
    PROVE  /\ SubSeq(Message, m + 1, m + n) \in Text
           /\ Len(SubSeq(Message, m + 1, m + n)) = n
           /\ Prefix(m) \o SubSeq(Message, m + 1, m + n) = Prefix(m + n)
<1>1. PICK l \in Nat : l = m + n
  OBVIOUS
<1>2. PICK j \in Nat : j = m + 1
  OBVIOUS
<1>3. 1 <= j /\ j <= l + 1 /\ l <= Len(Message) /\ l - j + 1 = n /\ m <= l
  BY <1>1, <1>2
<1>4. SubSeq(Message, j, l) \in Text /\ Len(SubSeq(Message, j, l)) = l - j + 1
  BY <1>3, MessageIsText, PartType, Zenon
<1>5. SubSeq(Message, 1, m) \o SubSeq(Message, m + 1, l) = SubSeq(Message, 1, l)
  BY <1>3, MessageIsText, PartsJoin, Zenon
<1>. QED
  BY <1>1, <1>2, <1>3, <1>4, <1>5 DEF Prefix
\* Unpacked, with the length of the block as a number.
LEMMA Unpacked ==
    ASSUME StreamInv
    PROVE  /\ hash \in Hashes /\ fed \in Nat /\ fed <= Len(Message)
           /\ stage \in Stages
           /\ Block \in Nat /\ Block > 0
           /\ buf \in Text /\ Len(buf) = Block
           /\ ptr \in Nat /\ ptr <= Block
           /\ count \in Int /\ rest \in Text
           /\ pads \in Seq([data : Text, count : Int])
           /\ Buffered \in Text /\ Len(Buffered) = ptr
           /\ Prefix(fed) \in Text /\ Len(rest) \in Nat /\ Len(Message) \in Nat
<1>1. Len(Message) \in Nat
  BY MessageIsText DEF Text
<1>2. hash \in Hashes /\ fed \in 0..Len(Message)
  BY DEF StreamInv, StreamTypes
<1>3. Block \in Nat /\ Block > 0
  BY <1>2, CoreIs
<1>4. Buffered \in Text /\ Len(Buffered) = ptr
  BY BufferedType DEF StreamInv
<1>5. Prefix(fed) \in Text
  BY <1>2, PrefixType
<1>6. Len(rest) \in Nat
  BY DEF StreamInv, StreamTypes, Text
<1>. QED
  BY <1>1, <1>2, <1>3, <1>4, <1>5, <1>6 DEF StreamInv, StreamTypes

\* Where a context keeps its bytes does not change while it is used.
LEMMA SameHash ==
    ASSUME hash' = hash
    PROVE  Block' = Block /\ Core' = Core
BY DEF Block, Core

LEMMA BufferedPrimed ==
    /\ hash' = "fugue" => Buffered' = SubSeq(buf', 5 - ptr', 4)
    /\ hash' # "fugue" => Buffered' = SubSeq(buf', 1, ptr')
BY DEF Buffered

\* Between two calls everything is compressed or in the buffer.
LEMMA IdleKeeps ==
    ASSUME StreamInv, stage = "idle", hash # "gost"
    PROVE  absorbed \in Text /\ absorbed \o Buffered = Prefix(fed) /\ rest = <<>>
<1>1. absorbed \in Text /\ (absorbed \o Buffered) \o rest = Prefix(fed) /\ rest = <<>>
  BY DEF StreamInv, Kept, Places, Calls
<1>2. absorbed \o Buffered \in Text
  BY <1>1, Unpacked, ConcatType
<1>. QED
  BY <1>1, <1>2, ConcatEmpty

(***************************************************************************)
(* The beginning of a call.                                                *)
(***************************************************************************)
\* What d is in Update, and what is known of it.
Given(d, n) ==
    /\ d \in Text /\ Len(d) = n /\ n \in Nat
    /\ fed' = fed + n /\ fed' <= Len(Message)
    /\ Prefix(fed) \o d = Prefix(fed')
    /\ hash' = hash

LEMMA GivenFacts ==
    ASSUME NEW d, NEW n, Given(d, n)
    PROVE  /\ d \in Text /\ Len(d) = n /\ n \in Nat
           /\ fed' = fed + n /\ fed' <= Len(Message)
           /\ Prefix(fed) \o d = Prefix(fed') /\ Prefix(fed)' = Prefix(fed')
           /\ hash' = hash /\ Block' = Block
<1>1. Prefix(fed)' = Prefix(fed')
  BY DEF Prefix
<1>. QED
  BY <1>1, SameHash DEF Given

LEMMA BufferKeeps ==
    ASSUME StreamInv, stage = "idle", hash \notin {"fugue", "gost"},
           NEW d, NEW n, Given(d, n), ptr + n <= Block,
           hash # "skein" => ptr + n < Block,
           Buffer(d)
    PROVE  StreamInv'
<1>1. buf' = Copy(buf, ptr, d, n) /\ ptr' = ptr + n /\ count' = count /\ absorbed' = absorbed
  BY GivenFacts DEF Buffer
<1>2. rest' = rest /\ pads' = pads /\ stage' = stage
  BY DEF Buffer, progress
<1>3. buf' \in Text /\ Len(buf') = Len(buf)
  BY <1>1, GivenFacts, Unpacked, CopyType
<1>4. StreamTypes'
  BY <1>1, <1>2, <1>3, Unpacked, GivenFacts DEF StreamTypes
<1>5. Places'
  BY <1>1, <1>2, GivenFacts DEF Places, StreamInv
<1>6. Kept'
  <2>1. ptr + n <= Len(buf) /\ n <= Len(d)
    BY Unpacked, GivenFacts
  <2>2. SubSeq(buf', 1, ptr + n) = SubSeq(buf, 1, ptr) \o SubSeq(d, 1, n)
    <3>1. /\ buf \in Text /\ ptr \in Nat /\ d \in Text /\ n \in Nat
          /\ n <= Len(d) /\ ptr + n <= Len(buf)
      BY <2>1, Unpacked, GivenFacts
    <3>. QED
      BY <1>1, <3>1, CopyFills, Zenon
  <2>3. SubSeq(d, 1, n) = d
    BY GivenFacts, Whole
  <2>4. Buffered' = Buffered \o d
    BY <1>1, <2>2, <2>3, GivenFacts, BufferedPrimed DEF Buffered
  <2>5. absorbed \in Text /\ absorbed \o Buffered = Prefix(fed) /\ rest = <<>>
    BY IdleKeeps
  <2>6. absorbed \o (Buffered \o d) = Prefix(fed)'
    <3>0. Buffered \in Text /\ d \in Text
      BY GivenFacts, Unpacked DEF Buffered
    <3>1. (absorbed \o Buffered) \o d = absorbed \o (Buffered \o d)
      BY ONLY <2>5, <3>0, ConcatAssoc, ZenonT(60)
    <3>. QED
      BY <2>5, <3>1, GivenFacts
  <2>7. (absorbed \o (Buffered \o d)) \o <<>> = absorbed \o (Buffered \o d)
    BY <2>5, GivenFacts, Unpacked, ConcatType, ConcatEmpty
  <2>. QED
    BY <1>1, <1>2, <2>4, <2>5, <2>6, <2>7 DEF Kept
<1>. QED
  BY <1>4, <1>5, <1>6 DEF StreamInv

LEMMA EnterKeeps ==
    ASSUME StreamInv, stage = "idle", hash # "gost",
           NEW d, NEW n, Given(d, n),
           NEW where \in Calls,
           where = "idle" => n = 0,
           where = "fill" => hash = "sha256" /\ n >= Block,
           where = "direct" => hash = "sha256" /\ ptr = 0,
           Enter(d, where)
    PROVE  StreamInv'
<1>1. buf' = buf /\ ptr' = ptr /\ count' = count /\ absorbed' = absorbed
  BY DEF Enter, state
<1>2. rest' = d /\ pads' = pads /\ stage' = where
  BY DEF Enter
<1>3. Buffered' = Buffered
  BY <1>1, GivenFacts DEF Buffered
<1>4. StreamTypes'
  BY <1>1, <1>2, Unpacked, GivenFacts DEF StreamTypes, Calls, Stages
<1>5. where = "idle" => d = <<>>
  BY GivenFacts, EmptyIs
<1>6. Places'
  BY <1>1, <1>2, <1>5, GivenFacts DEF Places, StreamInv, Calls
<1>7. Kept'
  <2>1. absorbed \in Text /\ absorbed \o Buffered = Prefix(fed)
    BY IdleKeeps
  <2>. QED
    BY <1>1, <1>2, <1>3, <2>1, GivenFacts DEF Kept
<1>. QED
  BY <1>4, <1>6, <1>7 DEF StreamInv
\* Whatever the rest of a call or of a close is, a word of fugue takes its
\* first bytes.
LEMMA FugueTakes ==
    ASSUME StreamInv, hash = "fugue", hash' = hash, NEW d \in Text, NEW where,
           UpdateFugue(d, where)
    PROVE  \E n \in Nat :
             /\ n <= Len(d) /\ ptr + n <= 4 /\ (ptr + n = 4 \/ n = Len(d))
             /\ ptr' = ptr + n /\ absorbed' = absorbed /\ pads' = pads
             /\ count' = count + 8 * Len(d) /\ count' \in Int
             /\ tweaks' = tweaks /\ shift' = shift
             /\ buf' \in Text /\ Len(buf') = 4
             /\ rest' = SubSeq(d, n + 1, Len(d)) /\ rest' \in Text
             /\ Len(rest') = Len(d) - n
             /\ Buffered' = Buffered \o SubSeq(d, 1, n)
             /\ stage' = IF ptr < 4 /\ n = Len(d) THEN "idle" ELSE where
<1>0. Len(d) \in Nat /\ Block = 4
  BY CoreIs, Unpacked DEF Text
<1>1. PICK n \in Int : n = IF ptr < 4 THEN Least(4 - ptr, Len(d)) ELSE 0
  <2>1. 4 - ptr \in Int /\ Len(d) \in Int
    BY <1>0, Unpacked
  <2>2. Least(4 - ptr, Len(d)) \in Int /\ 0 \in Int
    BY <2>1, LeastIs
  <2>. QED
    BY <2>2, Zenon
<1>2. n \in Nat /\ n <= Len(d) /\ ptr + n <= 4 /\ (ptr + n = 4 \/ n = Len(d))
  <2>1. ptr \in Nat /\ ptr <= 4
    BY <1>0, Unpacked
  <2>2. ptr < 4 => n <= 4 - ptr /\ n <= Len(d) /\ (n = 4 - ptr \/ n = Len(d))
    BY <1>0, <1>1, <2>1, LeastIs
  <2>. QED
    BY <1>0, <1>1, <2>1, <2>2
<1>3. /\ ptr' = ptr + n /\ count' = count + 8 * Len(d) /\ absorbed' = absorbed /\ pads' = pads
      /\ tweaks' = tweaks /\ shift' = shift
      /\ buf' = ShiftIn(buf, SubSeq(d, 1, n)) /\ rest' = SubSeq(d, n + 1, Len(d))
      /\ stage' = IF ptr < 4 /\ n = Len(d) THEN "idle" ELSE where
  BY <1>1 DEF UpdateFugue
<1>4. SubSeq(d, 1, n) \in Text /\ Len(SubSeq(d, 1, n)) = n
  BY <1>2, PartType
<1>5. buf \in Text /\ Len(buf) = 4
  BY <1>0, Unpacked
<1>6. buf' \in Text /\ Len(buf') = 4
  BY <1>3, <1>4, <1>5, ShiftInType
<1>7. rest' \in Text /\ Len(rest') = Len(d) - n
  <2>1. PICK l \in Nat : l = Len(d)
    BY <1>0
  <2>2. 1 <= n + 1 /\ n + 1 <= l + 1 /\ l <= Len(d) /\ n + 1 \in Nat /\ l - (n + 1) + 1 = l - n
    BY <1>2, <2>1
  <2>3. SubSeq(d, n + 1, l) \in Text /\ Len(SubSeq(d, n + 1, l)) = l - (n + 1) + 1
    BY <2>2, PartType, Zenon
  <2>. QED
    BY <1>3, <2>1, <2>2, <2>3
<1>8. Buffered' = Buffered \o SubSeq(d, 1, n)
  <2>1. ptr \in Nat /\ ptr + Len(SubSeq(d, 1, n)) <= 4
    BY <1>2, <1>4, Unpacked
  <2>2. SubSeq(buf', 5 - (ptr + Len(SubSeq(d, 1, n))), 4)
          = SubSeq(buf, 5 - ptr, 4) \o SubSeq(d, 1, n)
    BY <1>3, <1>4, <1>5, <2>1, ShiftInFills, Zenon
  <2>. QED
    BY <1>3, <1>4, <2>2, BufferedPrimed DEF Buffered
<1>9. count' \in Int
  BY <1>0, <1>3, Unpacked
<1>. QED
  BY <1>2, <1>3, <1>6, <1>7, <1>8, <1>9

LEMMA FugueKeeps ==
    ASSUME StreamInv, stage = "idle", hash = "fugue",
           NEW d, NEW n, Given(d, n), UpdateFugue(d, "update")
    PROVE  StreamInv'
<1>0. d \in Text /\ hash' = hash /\ Block' = 4 /\ Len(d) \in Nat
  BY GivenFacts, CoreIs, Unpacked
<1>1. PICK k \in Nat :
        /\ k <= Len(d) /\ ptr + k <= 4 /\ (ptr + k = 4 \/ k = Len(d))
        /\ ptr' = ptr + k /\ absorbed' = absorbed /\ pads' = pads
        /\ count' = count + 8 * Len(d) /\ count' \in Int
        /\ tweaks' = tweaks /\ shift' = shift
        /\ buf' \in Text /\ Len(buf') = 4
        /\ rest' = SubSeq(d, k + 1, Len(d)) /\ rest' \in Text
        /\ Len(rest') = Len(d) - k
        /\ Buffered' = Buffered \o SubSeq(d, 1, k)
        /\ stage' = IF ptr < 4 /\ k = Len(d) THEN "idle" ELSE "update"
  BY <1>0, FugueTakes, Zenon
<1>2. StreamTypes'
  <2>1. stage' \in Stages
    BY <1>1 DEF Stages
  <2>2. hash \in Hashes /\ fed \in Nat /\ pads \in Seq([data : Text, count : Int]) /\ ptr \in Nat
    BY Unpacked
  <2>3. fed' \in 0..Len(Message)
    BY <2>2, GivenFacts
  <2>4. ptr' \in 0..4
    BY <1>1, <2>2
  <2>. QED
    BY <1>0, <1>1, <2>1, <2>2, <2>3, <2>4 DEF StreamTypes
<1>3. Places'
  <2>1. stage' = "idle" => rest' = <<>>
    BY <1>0, <1>1, EmptyIs
  <2>. QED
    BY <1>0, <1>1, <2>1 DEF Places
<1>4. Kept'
  <2>1. absorbed \in Text /\ absorbed \o Buffered = Prefix(fed)
    BY IdleKeeps
  <2>2. PICK f \in Text : f = SubSeq(d, 1, k)
    <3>1. 1 <= 1 /\ 1 <= k + 1 /\ k <= Len(d) /\ 1 \in Nat
      BY <1>1
    <3>2. SubSeq(d, 1, k) \in Text
      BY <1>0, <1>1, <3>1, PartType, Zenon
    <3>. QED
      BY <3>2, Zenon
  <2>3. d = f \o rest'
    BY <1>0, <1>1, <2>2, Split
  <2>4. (absorbed \o (Buffered \o f)) \o rest' = (absorbed \o Buffered) \o (f \o rest')
    <3>1. absorbed \in Text /\ Buffered \in Text /\ f \in Text /\ rest' \in Text
      BY <1>1, <2>1, <2>2, Unpacked
    <3>2. SameOrder(absorbed, Buffered, f, rest')
      BY <3>1, Regrouped, Zenon
    <3>. QED
      BY <3>2 DEF SameOrder
  <2>. QED
    BY <1>1, <2>1, <2>2, <2>3, <2>4, GivenFacts DEF Kept
<1>. QED
  BY <1>2, <1>3, <1>4 DEF StreamInv

LEMMA UpdateKeeps ==
    ASSUME StreamInv, NEW m \in Cuts, Update(m)
    PROVE  StreamInv'
<1>. DEFINE d == SubSeq(Message, fed + 1, fed + m)
<1>1. m \in Nat
  BY StreamAssumption
<1>2. stage = "idle" /\ fed + m <= Len(Message) /\ fed' = fed + m /\ hash' = hash
  BY DEF Update
<1>3. Given(d, m)
  BY <1>1, <1>2, Unpacked, GivenIs DEF Given
<1>4. \/ UpdateEager(d) \/ UpdateSkein(d) \/ UpdateSha256(d) \/ UpdateFugue(d, "update")
      \/ UpdateGost(d)
  BY DEF Update
<1>. HIDE DEF d
<1>5. d \in Text /\ Len(d) = m
  BY <1>3, GivenFacts
<1>6. CASE UpdateEager(d)
  <2>1. hash \notin {"skein", "fugue", "sha256", "gost"}
    BY <1>6 DEF UpdateEager, Eager
  <2>2. CASE m < Block - ptr
    <3>1. Buffer(d)
      BY <1>5, <1>6, <2>2 DEF UpdateEager
    <3>2. ptr + m < Block /\ ptr + m <= Block
      BY <1>1, <2>2, Unpacked
    <3>. QED
      BY <1>2, <1>3, <2>1, <3>1, <3>2, BufferKeeps
  <2>3. CASE ~ (m < Block - ptr)
    <3>1. Enter(d, "update")
      BY <1>5, <1>6, <2>3 DEF UpdateEager
    <3>2. "update" \in Calls
      BY DEF Calls
    <3>. QED
      BY <1>2, <1>3, <2>1, <3>1, <3>2, EnterKeeps
  <2>. QED
    BY <2>2, <2>3
<1>7. CASE UpdateSkein(d)
  <2>1. hash = "skein"
    BY <1>7 DEF UpdateSkein
  <2>2. CASE m <= Block - ptr
    <3>1. Buffer(d)
      BY <1>5, <1>7, <2>2 DEF UpdateSkein
    <3>2. ptr + m <= Block
      BY <1>1, <2>2, Unpacked
    <3>. QED
      BY <1>2, <1>3, <2>1, <3>1, <3>2, BufferKeeps
  <2>3. CASE ~ (m <= Block - ptr)
    <3>1. Enter(d, "update")
      BY <1>5, <1>7, <2>3 DEF UpdateSkein
    <3>2. "update" \in Calls
      BY DEF Calls
    <3>. QED
      BY <1>2, <1>3, <2>1, <3>1, <3>2, EnterKeeps
  <2>. QED
    BY <2>2, <2>3
<1>8. CASE UpdateSha256(d)
  <2>1. hash = "sha256" /\ Block = 64
    BY <1>8, CoreIs, Unpacked DEF UpdateSha256
  <2>2. CASE m = 0
    <3>1. Enter(d, "idle") /\ "idle" \in Calls
      BY <1>5, <1>8, <2>1, <2>2 DEF UpdateSha256, Calls
    <3>. QED
      BY <1>2, <1>3, <2>1, <2>2, <3>1, EnterKeeps
  <2>3. CASE m > 0 /\ m < 2 * Block
    <3>1. Enter(d, "update") /\ "update" \in Calls
      BY <1>5, <1>8, <2>1, <2>3 DEF UpdateSha256, Calls
    <3>. QED
      BY <1>2, <1>3, <2>1, <3>1, EnterKeeps
  <2>4. CASE m >= 2 * Block /\ ptr > 0
    <3>1. Enter(d, "fill") /\ "fill" \in Calls
      BY <1>1, <1>5, <1>8, <2>1, <2>4 DEF UpdateSha256, Calls
    <3>2. m >= Block
      BY <1>1, <2>1, <2>4
    <3>. QED
      BY <1>2, <1>3, <2>1, <3>1, <3>2, EnterKeeps
  <2>5. CASE m >= 2 * Block /\ ~ (ptr > 0)
    <3>1. Enter(d, "direct") /\ "direct" \in Calls
      BY <1>1, <1>5, <1>8, <2>1, <2>5 DEF UpdateSha256, Calls
    <3>2. ptr = 0
      BY <2>5, Unpacked
    <3>. QED
      BY <1>2, <1>3, <2>1, <3>1, <3>2, EnterKeeps
  <2>. QED
    BY <1>1, <2>1, <2>2, <2>3, <2>4, <2>5
<1>9. CASE UpdateFugue(d, "update")
  <2>1. hash = "fugue"
    BY <1>9 DEF UpdateFugue
  <2>. QED
    BY <1>2, <1>3, <1>9, <2>1, FugueKeeps
<1>10. CASE UpdateGost(d)
  <2>1. /\ hash = "gost" /\ buf' = buf /\ ptr' = ptr /\ count' = count /\ rest' = rest
        /\ pads' = pads /\ stage' = stage
    BY <1>10 DEF UpdateGost, progress
  <2>2. StreamTypes'
    BY <1>3, <2>1, Unpacked, GivenFacts DEF StreamTypes
  <2>3. Places'
    BY <1>2, <1>3, <2>1, GivenFacts DEF Places, StreamInv
  <2>. QED
    BY <1>2, <2>1, <2>2, <2>3 DEF StreamInv, Kept
<1>. QED
  BY <1>4, <1>6, <1>7, <1>8, <1>9, <1>10
(***************************************************************************)
(* The loops.                                                              *)
(***************************************************************************)
LEMMA LeaveIs ==
    ASSUME NEW left, Leave(left), stage \in {"update", "closing"}
    PROVE  /\ stage' \in {"idle", "update", "closing", "padded"}
           /\ stage' = "idle" => left = <<>>
           /\ stage' \in Calls => stage = "update"
BY DEF Leave, Calls

\* What is left of d when its first n bytes have been taken.
LEMMA TakenFrom ==
    ASSUME NEW d \in Text, NEW n \in Nat, n <= Len(d)
    PROVE  /\ SubSeq(d, 1, n) \in Text /\ Len(SubSeq(d, 1, n)) = n
           /\ SubSeq(d, n + 1, Len(d)) \in Text /\ Len(SubSeq(d, n + 1, Len(d))) = Len(d) - n
           /\ d = SubSeq(d, 1, n) \o SubSeq(d, n + 1, Len(d))
<1>1. PICK l \in Nat : l = Len(d)
  BY DEF Text
<1>2. /\ 1 <= n + 1 /\ n + 1 <= l + 1 /\ l <= Len(d) /\ n + 1 \in Nat /\ l - (n + 1) + 1 = l - n
      /\ 1 <= 1 /\ 1 \in Nat /\ n - 1 + 1 = n
  BY <1>1
<1>3. SubSeq(d, n + 1, l) \in Text /\ Len(SubSeq(d, n + 1, l)) = l - (n + 1) + 1
  BY <1>2, <1>1, PartType, Zenon
<1>4. SubSeq(d, 1, n) \in Text /\ Len(SubSeq(d, 1, n)) = n - 1 + 1
  BY <1>2, PartType, Zenon
<1>. QED
  BY <1>1, <1>2, <1>3, <1>4, Split

\* The rest of a call goes into a buffer that is used up to at.
LEMMA RestTaken ==
    ASSUME StreamInv, NEW at \in Nat, NEW n \in Nat, n <= Len(rest), at + n <= Block
    PROVE  /\ Copy(buf, at, rest, n) \in Text /\ Len(Copy(buf, at, rest, n)) = Block
           /\ SubSeq(Copy(buf, at, rest, n), 1, at + n) = SubSeq(buf, 1, at) \o SubSeq(rest, 1, n)
<1>1. buf \in Text /\ Len(buf) = Block /\ rest \in Text
  BY Unpacked
<1>. QED
  BY <1>1, CopyType, CopyFills

LEMMA FullBuffer == \A b \in Text : SubSeq(b, 1, Len(b)) = b /\ SubSeq(b, 1, 0) = <<>>
BY DEF Text

\* What one iteration takes: there is room for it.
LEMMA LeastTaken ==
    ASSUME StreamInv, NEW at \in Nat, at <= Block
    PROVE  LET n == Least(Block - at, Len(rest))
           IN  n \in Nat /\ n <= Len(rest) /\ at + n <= Block
<1>. DEFINE n == Least(Block - at, Len(rest))
<1>1. PICK k \in Nat : k = Block - at
  <2>1. Block - at \in Nat
    BY Unpacked
  <2>. QED
    BY <2>1, Zenon
<1>2. PICK l \in Nat : l = Len(rest)
  BY Unpacked
<1>3. n = k \/ n = l
  BY <1>1, <1>2 DEF Least
<1>4. n <= k /\ n <= l
  BY <1>1, <1>2 DEF Least
<1>. HIDE DEF n
<1>5. n \in Nat /\ n <= Len(rest) /\ at + n <= Block
  BY <1>1, <1>2, <1>3, <1>4, Unpacked
<1>. QED
  BY <1>5 DEF n

\* One iteration moves bytes from the call to the buffer, and from there into
\* the chaining value when it is full.
LEMMA ChunkMoves ==
    ASSUME StreamInv, Chunk
    PROVE  \E n \in Nat :
             /\ n <= Len(rest) /\ ptr + n <= Block /\ (n = Len(rest) \/ ptr + n = Block)
             /\ ptr' = (IF ptr + n = Block THEN 0 ELSE ptr + n) /\ ptr' < Block
             /\ rest' \in Text /\ Len(rest') = Len(rest) - n
             /\ tweaks' = (IF ptr + n = Block THEN Append(tweaks, TweakNow) ELSE tweaks)
             /\ count' = (IF hash = "sha256" THEN count + n
                          ELSE IF ptr + n = Block THEN Ticked ELSE count)
             /\ buf' \in Text /\ Len(buf') = Block
             /\ absorbed \in Text =>
                  /\ absorbed' \in Text
                  /\ Len(absorbed') = Len(absorbed) + (IF ptr + n = Block THEN Block ELSE 0)
                  /\ (absorbed' \o Buffered') \o rest' = (absorbed \o Buffered) \o rest
<1>. DEFINE n == Least(Block - ptr, Len(rest))
            b == Copy(buf, ptr, rest, n)
            full == ptr + n = Block
<1>1. /\ hash' = hash /\ buf' = b
      /\ rest' = SubSeq(rest, n + 1, Len(rest))
      /\ ptr' = IF full THEN 0 ELSE ptr + n
      /\ absorbed' = IF full THEN absorbed \o b ELSE absorbed
      /\ hash \notin {"skein", "fugue", "gost"}
  BY DEF Chunk, Eager
<1>2. /\ tweaks' = IF full THEN Append(tweaks, TweakNow) ELSE tweaks
      /\ count' = IF hash = "sha256" THEN count + n ELSE IF full THEN Ticked ELSE count
  BY DEF Chunk
<1>3. n \in Nat /\ n <= Len(rest) /\ ptr + n <= Block
  BY LeastTaken, Unpacked
<1>4. n = Len(rest) \/ ptr + n = Block
  BY Unpacked DEF Least
<1>5. /\ b \in Text /\ Len(b) = Block
      /\ SubSeq(b, 1, ptr + n) = SubSeq(buf, 1, ptr) \o SubSeq(rest, 1, n)
  BY <1>3, Unpacked, RestTaken
<1>. HIDE DEF n, b
<1>6. /\ SubSeq(rest, 1, n) \in Text
      /\ rest' \in Text /\ Len(rest') = Len(rest) - n
      /\ rest = SubSeq(rest, 1, n) \o rest'
  BY <1>1, <1>3, Unpacked, TakenFrom
<1>7. ptr' < Block
  BY <1>1, <1>3, Unpacked
<1>8. ASSUME absorbed \in Text
      PROVE  /\ absorbed' \in Text
             /\ Len(absorbed') = Len(absorbed) + (IF full THEN Block ELSE 0)
             /\ (absorbed' \o Buffered') \o rest' = (absorbed \o Buffered) \o rest
  <2>1. PICK f \in Text : f = SubSeq(rest, 1, n)
    BY <1>6
  <2>2. Buffered = SubSeq(buf, 1, ptr) /\ Buffered \in Text
    BY <1>1, Unpacked DEF Buffered
  <2>3. SubSeq(b, 1, ptr + n) = Buffered \o f
    BY <1>5, <2>1, <2>2
  <2>4. SameOrder(absorbed, Buffered, f, rest')
    BY <1>6, <1>8, <2>1, <2>2, Regrouped, Zenon
  <2>5. (absorbed \o Buffered) \o (f \o rest') = (absorbed \o Buffered) \o rest
    BY <1>6, <2>1
  <2>6. CASE full
    <3>1. b = Buffered \o f
      BY <1>5, <2>3, <2>6, FullBuffer
    <3>2. absorbed' = absorbed \o (Buffered \o f)
      BY <1>1, <2>6, <3>1
    <3>3. Buffered' = <<>>
      BY <1>1, <1>5, <2>6, BufferedPrimed, FullBuffer
    <3>4. absorbed' \in Text /\ Len(absorbed') = Len(absorbed) + Block
      BY <1>1, <1>5, <1>8, <2>6, ConcatType
    <3>. QED
      BY <2>4, <2>5, <2>6, <3>2, <3>3, <3>4 DEF SameOrder
  <2>7. CASE ~ full
    <3>1. Buffered' = Buffered \o f
      BY <1>1, <2>3, <2>7, BufferedPrimed
    <3>2. Len(absorbed') = Len(absorbed) + 0
      BY <1>1, <1>8, <2>7 DEF Text
    <3>. QED
      BY <1>1, <1>8, <2>4, <2>5, <2>7, <3>1, <3>2 DEF SameOrder
  <2>. QED
    BY <2>6, <2>7
<1>. QED
  BY <1>1, <1>2, <1>3, <1>4, <1>5, <1>6, <1>7, <1>8

LEMMA ChunkKeeps ==
    ASSUME StreamInv, Chunk
    PROVE  StreamInv'
<1>1. /\ hash' = hash /\ pads' = pads /\ fed' = fed
      /\ Leave(rest') /\ stage \in {"update", "closing"}
      /\ hash \notin {"skein", "fugue", "gost"}
  BY DEF Chunk, Eager
<1>2. PICK n \in Nat :
             /\ ptr + n <= Block
             /\ ptr' = (IF ptr + n = Block THEN 0 ELSE ptr + n) /\ ptr' < Block
             /\ rest' \in Text
             /\ count' = (IF hash = "sha256" THEN count + n
                          ELSE IF ptr + n = Block THEN Ticked ELSE count)
             /\ buf' \in Text /\ Len(buf') = Block
             /\ absorbed \in Text =>
                  /\ absorbed' \in Text
                  /\ (absorbed' \o Buffered') \o rest' = (absorbed \o Buffered) \o rest
  BY ChunkMoves
<1>3. count' \in Int
  BY <1>2, CoreIs, Unpacked, SMTT(30) DEF Ticked
<1>4. /\ stage' \in {"idle", "update", "closing", "padded"}
      /\ stage' = "idle" => rest' = <<>>
      /\ stage' \in Calls => stage = "update"
  BY <1>1, LeaveIs
<1>5. StreamTypes'
  <2>1. stage' \in Stages /\ ptr' \in 0..Block /\ fed' \in 0..Len(Message)
    BY <1>1, <1>2, <1>4, Unpacked DEF Stages
  <2>. QED
    BY <1>1, <1>2, <1>3, <2>1, SameHash, Unpacked DEF StreamTypes
<1>6. Places'
  BY <1>1, <1>2, <1>4, SameHash DEF Places
<1>7. Kept'
  <2>. SUFFICES ASSUME stage' \in Calls
                PROVE  absorbed' \in Text /\ (absorbed' \o Buffered') \o rest' = Prefix(fed)'
    BY DEF Kept
  <2>1. absorbed \in Text /\ (absorbed \o Buffered) \o rest = Prefix(fed)
    BY <1>1, <1>4 DEF StreamInv, Kept, Calls
  <2>2. Prefix(fed)' = Prefix(fed)
    BY <1>1 DEF Prefix
  <2>. QED
    BY <1>2, <2>1, <2>2
<1>. QED
  BY <1>5, <1>6, <1>7 DEF StreamInv

LEMMA SkeinChunkKeeps ==
    ASSUME StreamInv, SkeinChunk
    PROVE  StreamInv'
<1>. DEFINE full == ptr = Block
            at == IF full THEN 0 ELSE ptr
            n == Least(Block - at, Len(rest))
            b == Copy(buf, at, rest, n)
<1>1. /\ hash' = hash /\ pads' = pads /\ fed' = fed /\ buf' = b
      /\ rest' = SubSeq(rest, n + 1, Len(rest))
      /\ ptr' = at + n
      /\ absorbed' = IF full THEN absorbed \o buf ELSE absorbed
      /\ count' = IF full THEN Ticked ELSE count
      /\ Leave(rest')
      /\ stage = "update"
      /\ hash = "skein"
  BY DEF SkeinChunk
<1>2. at \in Nat /\ at <= Block
  BY Unpacked
<1>3. n \in Nat /\ n <= Len(rest) /\ at + n <= Block
  BY <1>2, LeastTaken
<1>4. /\ b \in Text /\ Len(b) = Block
      /\ SubSeq(b, 1, at + n) = SubSeq(buf, 1, at) \o SubSeq(rest, 1, n)
  BY <1>2, <1>3, RestTaken
<1>. HIDE DEF n, b
<1>5. /\ SubSeq(rest, 1, n) \in Text
      /\ rest' \in Text /\ rest = SubSeq(rest, 1, n) \o rest'
  BY <1>1, <1>3, Unpacked, TakenFrom
<1>6. count' \in Int
  BY <1>1, CoreIs, Unpacked DEF Ticked
<1>7. ptr' \in Nat /\ ptr' <= Block
  BY <1>1, <1>2, <1>3, Unpacked
<1>8. /\ stage' \in {"idle", "update", "closing", "padded"}
      /\ stage' = "idle" => rest' = <<>>
  BY <1>1, LeaveIs
<1>9. StreamTypes'
  <2>1. stage' \in Stages /\ ptr' \in 0..Block /\ fed' \in 0..Len(Message)
    BY <1>1, <1>7, <1>8, Unpacked DEF Stages
  <2>. QED
    BY <1>1, <1>4, <1>5, <1>6, <2>1, SameHash, Unpacked DEF StreamTypes
<1>10. Places'
  BY <1>1, <1>8 DEF Places
<1>11. Kept'
  <2>1. absorbed \in Text /\ (absorbed \o Buffered) \o rest = Prefix(fed)
    BY <1>1 DEF StreamInv, Kept, Calls
  <2>2. PICK f \in Text : f = SubSeq(rest, 1, n)
    BY <1>5
  <2>3. Buffered = SubSeq(buf, 1, ptr) /\ Buffered \in Text
    BY <1>1, Unpacked DEF Buffered
  <2>4. Buffered' = SubSeq(buf, 1, at) \o f
    BY <1>1, <1>4, <2>2, BufferedPrimed
  <2>6. Prefix(fed)' = Prefix(fed)
    BY <1>1 DEF Prefix
  <2>7. (absorbed \o Buffered) \o (f \o rest') = Prefix(fed)'
    BY <1>5, <2>1, <2>2, <2>6
  <2>8. CASE full
    <3>1. Buffered = buf /\ SubSeq(buf, 1, at) = <<>>
      BY <2>3, <2>8, Unpacked, FullBuffer
    <3>2. absorbed' = absorbed \o Buffered /\ Buffered' = f
      BY <1>1, <2>2, <2>4, <2>8, <3>1, ConcatEmpty
    <3>3. absorbed' \in Text
      BY <2>1, <2>3, <3>2, ConcatType
    <3>4. PICK a \in Text : a = absorbed \o Buffered
      BY <3>2, <3>3
    <3>5. (a \o f) \o rest' = a \o (f \o rest')
      BY <1>5, <2>2, <3>4, ConcatAssoc
    <3>. QED
      BY <2>7, <3>2, <3>3, <3>4, <3>5 DEF Kept
  <2>9. CASE ~ full
    <3>1. Buffered' = Buffered \o f
      BY <2>3, <2>4, <2>9
    <3>2. SameOrder(absorbed, Buffered, f, rest')
      BY <1>5, <2>1, <2>2, <2>3, Regrouped, Zenon
    <3>. QED
      BY <1>1, <2>1, <2>7, <2>9, <3>1, <3>2 DEF SameOrder, Kept
  <2>. QED
    BY <2>8, <2>9
<1>. QED
  BY <1>9, <1>10, <1>11 DEF StreamInv

\* fugue mixes in the word it has, and takes the next one.
LEMMA FugueWordMoves ==
    ASSUME StreamInv, FugueWord
    PROVE  /\ buf' \in Text /\ Len(buf') = 4 /\ ptr' \in 0..4 /\ rest' \in Text
           /\ Len(rest) > 4 => ptr' = 4 /\ Len(rest') = Len(rest) - 4
           /\ ~ (Len(rest) > 4) => ptr' = Len(rest) /\ rest' = <<>>
           /\ absorbed \in Text =>
                /\ absorbed' \in Text /\ Len(absorbed') = Len(absorbed) + 4
                /\ absorbed' = absorbed \o Buffered
                /\ (absorbed' \o Buffered') \o rest' = (absorbed \o Buffered) \o rest
<1>1. hash' = hash /\ hash = "fugue" /\ ptr = 4 /\ absorbed' = absorbed \o buf
  BY DEF FugueWord
<1>2. Block = 4 /\ Block' = 4
  BY <1>1, CoreIs, SameHash, Unpacked
<1>3. buf \in Text /\ Len(buf) = 4 /\ rest \in Text /\ Len(rest) \in Nat
  BY <1>2, Unpacked
<1>4. /\ buf' \in Text /\ Len(buf') = 4 /\ ptr' \in 0..4
      /\ rest' \in Text /\ Buffered' \o rest' = rest /\ Buffered' \in Text
      /\ Len(rest) > 4 => ptr' = 4 /\ Len(rest') = Len(rest) - 4
      /\ ~ (Len(rest) > 4) => ptr' = Len(rest) /\ rest' = <<>>
  <2>1. CASE Len(rest) > 4
    <3>1. buf' = SubSeq(rest, 1, 4) /\ ptr' = 4 /\ rest' = SubSeq(rest, 5, Len(rest))
      BY <2>1 DEF FugueWord
    <3>2. 4 \in Nat /\ 4 <= Len(rest) /\ 4 + 1 = 5
      BY <1>3, <2>1
    <3>3. /\ SubSeq(rest, 1, 4) \in Text /\ Len(SubSeq(rest, 1, 4)) = 4
          /\ SubSeq(rest, 4 + 1, Len(rest)) \in Text
          /\ Len(SubSeq(rest, 4 + 1, Len(rest))) = Len(rest) - 4
          /\ rest = SubSeq(rest, 1, 4) \o SubSeq(rest, 4 + 1, Len(rest))
      BY <1>3, <3>2, TakenFrom, Zenon
    <3>4. Buffered' = SubSeq(buf', 1, 4)
      BY <1>1, <3>1, BufferedPrimed
    <3>5. Buffered' = buf'
      BY <3>1, <3>3, <3>4, FullBuffer
    <3>. QED
      BY <2>1, <3>1, <3>2, <3>3, <3>5
  <2>2. CASE ~ (Len(rest) > 4)
    <3>1. buf' = ShiftIn(Zeros(4), rest) /\ ptr' = Len(rest) /\ rest' = <<>>
      BY <2>2 DEF FugueWord
    <3>0. 0 \in Nat /\ 0 + Len(rest) <= 4 /\ 4 \in Nat
      BY <1>3, <2>2
    <3>2. Zeros(4) \in Text /\ Len(Zeros(4)) = 4 /\ 0 \in Nat /\ 0 + Len(rest) <= 4
      BY <3>0, ZerosType, Zenon
    <3>3. buf' \in Text /\ Len(buf') = 4
      BY <1>3, <3>1, <3>2, ShiftInType
    <3>4. SubSeq(buf', 5 - (0 + Len(rest)), 4) = SubSeq(Zeros(4), 5 - 0, 4) \o rest
      BY <1>3, <3>1, <3>2, ShiftInFills, Zenon
    <3>5. SubSeq(Zeros(4), 5 - 0, 4) = <<>>
      BY <3>2, Whole
    <3>6. Buffered' = rest
      <4>1. 5 - (0 + Len(rest)) = 5 - ptr'
        BY <1>3, <3>1
      <4>2. <<>> \o rest = rest
        BY <1>3, ConcatEmpty
      <4>. QED
        BY <1>1, <3>4, <3>5, <4>1, <4>2, BufferedPrimed
    <3>. QED
      BY <1>3, <2>2, <3>1, <3>3, <3>6, ConcatEmpty, EmptyType
  <2>. QED
    BY <2>1, <2>2
<1>5. ASSUME absorbed \in Text
      PROVE  /\ absorbed' \in Text /\ Len(absorbed') = Len(absorbed) + 4
             /\ absorbed' = absorbed \o Buffered
             /\ (absorbed' \o Buffered') \o rest' = (absorbed \o Buffered) \o rest
  <2>1. Buffered = SubSeq(buf, 1, 4)
    BY <1>1 DEF Buffered
  <2>2. Buffered = buf
    BY <1>3, <2>1, FullBuffer
  <2>3. absorbed' \in Text /\ Len(absorbed') = Len(absorbed) + 4
    BY <1>1, <1>3, <1>5, ConcatType
  <2>4. (absorbed' \o Buffered') \o rest' = absorbed' \o (Buffered' \o rest')
    BY <1>4, <2>3, ConcatAssoc
  <2>. QED
    BY <1>1, <1>4, <2>2, <2>3, <2>4
<1>. QED
  BY <1>4, <1>5

LEMMA FugueWordKeeps ==
    ASSUME StreamInv, FugueWord
    PROVE  StreamInv'
<1>1. /\ hash' = hash /\ pads' = pads /\ fed' = fed /\ count' = count
      /\ hash = "fugue" /\ stage \in {"update", "closing"}
      /\ Leave(rest')
  BY DEF FugueWord
<1>2. Block = 4 /\ Block' = 4
  BY <1>1, CoreIs, SameHash, Unpacked
<1>3. /\ stage' \in {"idle", "update", "closing", "padded"}
      /\ stage' = "idle" => rest' = <<>>
      /\ stage' \in Calls => stage = "update"
  BY <1>1, LeaveIs
<1>4. StreamTypes'
  <2>1. stage' \in Stages /\ fed' \in 0..Len(Message)
    BY <1>1, <1>3, Unpacked DEF Stages
  <2>. QED
    BY <1>1, <1>2, <2>1, FugueWordMoves, Unpacked DEF StreamTypes
<1>5. Places'
  BY <1>1, <1>3 DEF Places
<1>6. Kept'
  <2>. SUFFICES ASSUME stage' \in Calls
                PROVE  absorbed' \in Text /\ (absorbed' \o Buffered') \o rest' = Prefix(fed)'
    BY DEF Kept
  <2>1. absorbed \in Text /\ (absorbed \o Buffered) \o rest = Prefix(fed)
    BY <1>1, <1>3 DEF StreamInv, Kept, Calls
  <2>2. Prefix(fed)' = Prefix(fed)
    BY <1>1 DEF Prefix
  <2>. QED
    BY <2>1, <2>2, FugueWordMoves
<1>. QED
  BY <1>4, <1>5, <1>6 DEF StreamInv

LEMMA Sha256FillKeeps ==
    ASSUME StreamInv, Sha256Fill
    PROVE  StreamInv'
<1>. DEFINE n == Block - ptr
            b == Copy(buf, ptr, rest, n)
<1>1. /\ hash' = hash /\ pads' = pads /\ fed' = fed /\ buf' = b
      /\ rest' = SubSeq(rest, n + 1, Len(rest))
      /\ ptr' = 0 /\ absorbed' = absorbed \o buf' /\ count' = count + n
      /\ stage = "fill" /\ stage' = "direct"
  BY DEF Sha256Fill
<1>2. hash = "sha256" /\ Len(rest) >= Block
  BY <1>1 DEF StreamInv, Places
<1>3. n \in Nat /\ n <= Len(rest) /\ ptr + n = Block /\ ptr + n <= Block
  BY <1>2, Unpacked
<1>4. /\ b \in Text /\ Len(b) = Block
      /\ SubSeq(b, 1, ptr + n) = SubSeq(buf, 1, ptr) \o SubSeq(rest, 1, n)
  BY <1>3, Unpacked, RestTaken
<1>. HIDE DEF n, b
<1>5. /\ SubSeq(rest, 1, n) \in Text
      /\ rest' \in Text /\ rest = SubSeq(rest, 1, n) \o rest'
  BY <1>1, <1>3, Unpacked, TakenFrom
<1>6. StreamTypes'
  <2>1. stage' \in Stages /\ ptr' \in 0..Block /\ fed' \in 0..Len(Message) /\ count' \in Int
    BY <1>1, <1>3, Unpacked DEF Stages
  <2>. QED
    BY <1>1, <1>4, <1>5, <2>1, SameHash, Unpacked DEF StreamTypes
<1>7. Places'
  BY <1>1, <1>2, Unpacked, SameHash DEF Places
<1>8. Kept'
  <2>1. absorbed \in Text /\ (absorbed \o Buffered) \o rest = Prefix(fed)
    BY <1>1, <1>2 DEF StreamInv, Kept, Calls
  <2>2. PICK f \in Text : f = SubSeq(rest, 1, n)
    BY <1>5
  <2>3. Buffered = SubSeq(buf, 1, ptr) /\ Buffered \in Text
    BY <1>2, Unpacked DEF Buffered
  <2>4. b = Buffered \o f
    BY <1>3, <1>4, <2>2, <2>3, FullBuffer
  <2>5. SameOrder(absorbed, Buffered, f, rest')
    BY <1>5, <2>1, <2>2, <2>3, Regrouped, Zenon
  <2>6. Prefix(fed)' = Prefix(fed)
    BY <1>1 DEF Prefix
  <2>7. Buffered' = <<>>
    BY <1>1, <1>2, <1>4, BufferedPrimed, FullBuffer
  <2>8. absorbed' \in Text
    BY <1>1, <1>4, <2>1, ConcatType
  <2>. QED
    BY <1>1, <1>5, <2>1, <2>2, <2>4, <2>5, <2>6, <2>7, <2>8 DEF SameOrder, Kept
<1>. QED
  BY <1>6, <1>7, <1>8 DEF StreamInv

LEMMA Sha256DirectKeeps ==
    ASSUME StreamInv, Sha256Direct
    PROVE  StreamInv'
<1>1. /\ hash' = hash /\ pads' = pads /\ fed' = fed /\ buf' = buf /\ ptr' = ptr
      /\ rest' = SubSeq(rest, Block + 1, Len(rest))
      /\ absorbed' = absorbed \o SubSeq(rest, 1, Block) /\ count' = count + Block
      /\ stage = "direct" /\ stage' = "direct" /\ Len(rest) >= Block
  BY DEF Sha256Direct
<1>2. hash = "sha256" /\ ptr = 0
  BY <1>1 DEF StreamInv, Places
<1>3. Block \in Nat /\ Block <= Len(rest)
  BY <1>1, Unpacked
<1>4. /\ SubSeq(rest, 1, Block) \in Text
      /\ rest' \in Text /\ rest = SubSeq(rest, 1, Block) \o rest'
  BY <1>1, <1>3, Unpacked, TakenFrom
<1>5. StreamTypes'
  <2>1. fed' \in 0..Len(Message) /\ count' \in Int /\ ptr' \in 0..Block
    BY <1>1, Unpacked
  <2>. QED
    BY <1>1, <1>4, <2>1, SameHash, Unpacked DEF StreamTypes
<1>6. Places'
  BY <1>1, <1>2, Unpacked, SameHash DEF Places
<1>7. Kept'
  <2>1. absorbed \in Text /\ (absorbed \o Buffered) \o rest = Prefix(fed)
    BY <1>1, <1>2 DEF StreamInv, Kept, Calls
  <2>2. PICK f \in Text : f = SubSeq(rest, 1, Block)
    BY <1>4
  <2>3. Buffered = <<>> /\ Buffered' = <<>>
    BY <1>1, <1>2, Unpacked, BufferedPrimed, FullBuffer DEF Buffered
  <2>4. absorbed \o Buffered = absorbed
    BY <2>1, <2>3, ConcatEmpty
  <2>5. absorbed' \in Text /\ absorbed' \o Buffered' = absorbed'
    BY <1>1, <2>1, <2>2, <2>3, ConcatType, ConcatEmpty
  <2>6. (absorbed \o f) \o rest' = absorbed \o (f \o rest')
    BY <1>4, <2>1, <2>2, ConcatAssoc
  <2>7. Prefix(fed)' = Prefix(fed)
    BY <1>1 DEF Prefix
  <2>. QED
    BY <1>1, <1>4, <2>1, <2>2, <2>4, <2>5, <2>6, <2>7 DEF Kept
<1>. QED
  BY <1>5, <1>6, <1>7 DEF StreamInv

LEMMA Sha256TailKeeps ==
    ASSUME StreamInv, Sha256Tail
    PROVE  StreamInv'
<1>. DEFINE b == Copy(buf, 0, rest, Len(rest))
<1>1. /\ hash' = hash /\ pads' = pads /\ fed' = fed /\ buf' = b /\ ptr' = Len(rest)
      /\ rest' = <<>> /\ absorbed' = absorbed /\ count' = count + Len(rest)
      /\ stage = "direct" /\ stage' = "idle" /\ Len(rest) < Block
  BY DEF Sha256Tail
<1>2. hash = "sha256" /\ ptr = 0
  BY <1>1 DEF StreamInv, Places
<1>3. PICK n \in Nat : n = Len(rest)
  BY Unpacked
<1>4. 0 \in Nat /\ n <= Len(rest) /\ 0 + n <= Block /\ 0 + n = n
  BY <1>1, <1>3, Unpacked
<1>5. /\ b \in Text /\ Len(b) = Block
      /\ SubSeq(b, 1, 0 + n) = SubSeq(buf, 1, 0) \o SubSeq(rest, 1, n)
  BY <1>3, <1>4, RestTaken
<1>. HIDE DEF b
<1>6. StreamTypes'
  <2>1. stage' \in Stages /\ fed' \in 0..Len(Message) /\ count' \in Int /\ ptr' \in 0..Block
    BY <1>1, <1>3, Unpacked DEF Stages
  <2>. QED
    BY <1>1, <1>5, <2>1, SameHash, Unpacked, EmptyType DEF StreamTypes
<1>7. Places'
  BY <1>1, <1>2, SameHash DEF Places
<1>8. Kept'
  <2>1. absorbed \in Text /\ (absorbed \o Buffered) \o rest = Prefix(fed)
    BY <1>1, <1>2 DEF StreamInv, Kept, Calls
  <2>2. Buffered = <<>>
    BY <1>2, Unpacked, FullBuffer DEF Buffered
  <2>3. SubSeq(buf, 1, 0) = <<>> /\ SubSeq(rest, 1, n) = rest
    BY <1>3, Unpacked, FullBuffer
  <2>4. Buffered' = rest
    BY <1>1, <1>2, <1>3, <1>4, <1>5, <2>3, Unpacked, BufferedPrimed, ConcatEmpty
  <2>5. absorbed \o Buffered = absorbed
    BY <2>1, <2>2, ConcatEmpty
  <2>6. absorbed \o rest \in Text
    BY <2>1, Unpacked, ConcatType
  <2>7. (absorbed \o rest) \o <<>> = absorbed \o rest
    BY <2>6, ConcatEmpty
  <2>8. Prefix(fed)' = Prefix(fed)
    BY <1>1 DEF Prefix
  <2>. QED
    BY <1>1, <2>1, <2>4, <2>5, <2>7, <2>8 DEF Kept
<1>. QED
  BY <1>6, <1>7, <1>8 DEF StreamInv
(***************************************************************************)
(* The close functions.                                                    *)
(***************************************************************************)
LEMMA HandKeeps ==
    ASSUME StreamInv, hash' = hash, fed' = fed,
           NEW d \in Text, NEW c \in Int, NEW later \in Seq([data : Text, count : Int]),
           Hand(d, c, later)
    PROVE  StreamInv'
<1>1. /\ rest' = d /\ count' = c /\ pads' = later /\ stage' = "closing"
      /\ buf' = buf /\ ptr' = ptr
  BY DEF Hand
<1>2. StreamTypes'
  <2>1. stage' \in Stages /\ fed' \in 0..Len(Message)
    BY <1>1, Unpacked DEF Stages
  <2>. QED
    BY <1>1, <2>1, SameHash, Unpacked DEF StreamTypes
<1>3. Places'
  BY <1>1, SameHash DEF StreamInv, Places
<1>4. Kept'
  BY <1>1 DEF Kept, Calls
<1>. QED
  BY <1>2, <1>3, <1>4 DEF StreamInv

LEMMA CompressKeeps ==
    ASSUME StreamInv, hash' = hash, fed' = fed,
           NEW b \in Text, Len(b) = Block, NEW bytes, NEW tw, Compress(b, bytes, tw)
    PROVE  StreamInv'
<1>1. /\ rest' = rest /\ count' = count /\ pads' = pads /\ stage' = "padded"
      /\ buf' = b /\ ptr' = ptr
  BY DEF Compress
<1>2. StreamTypes'
  <2>1. stage' \in Stages /\ fed' \in 0..Len(Message)
    BY <1>1, Unpacked DEF Stages
  <2>. QED
    BY <1>1, <2>1, SameHash, Unpacked DEF StreamTypes
<1>3. Places'
  BY <1>1, SameHash DEF StreamInv, Places
<1>4. Kept'
  BY <1>1 DEF Kept, Calls
<1>. QED
  BY <1>2, <1>3, <1>4 DEF StreamInv

\* Padding of a byte, zeros and other bytes.
LEMMA PadType ==
    ASSUME NEW x \in Int, NEW n \in Nat, NEW t \in Text
    PROVE  /\ <<x>> \o Zeros(n) \in Text /\ Len(<<x>> \o Zeros(n)) = 1 + n
           /\ (<<x>> \o Zeros(n)) \o t \in Text
           /\ Zeros(n) \o <<x>> \in Text
           /\ Len(Zeros(n) \o <<x>>) = n + 1
<1>1. Zeros(n) \in Text /\ Len(Zeros(n)) = n
  BY ZerosType
<1>2. <<x>> \in Text /\ Len(<<x>>) = 1
  BY DEF Text
<1>3. <<x>> \o Zeros(n) \in Text /\ Len(<<x>> \o Zeros(n)) = 1 + n
  BY <1>1, <1>2, ConcatType
<1>4. Zeros(n) \o <<x>> \in Text /\ Len(Zeros(n) \o <<x>>) = n + 1
  BY <1>1, <1>2, ConcatType
<1>. QED
  BY <1>3, <1>4, ConcatType

LEMMA MarkedType ==
    ASSUME StreamInv, ptr < Block
    PROVE  Marked(buf) \in Text /\ Len(Marked(buf)) = Block
<1>1. PICK n \in Nat : n = Block - ptr
  <2>1. Block - ptr \in Nat
    BY Unpacked
  <2>. QED
    BY <2>1, Zenon
<1>2. PICK k \in Nat : k = Block - ptr - 1
  <2>1. Block - ptr - 1 \in Nat
    BY Unpacked
  <2>. QED
    BY <2>1, Zenon
<1>3. <<Mark>> \o Zeros(k) \in Text /\ Len(<<Mark>> \o Zeros(k)) = 1 + k
  BY PadType, EmptyType, SMTT(30) DEF Mark
<1>4. /\ buf \in Text /\ Len(buf) = Block /\ ptr \in Nat
  BY Unpacked
<1>5. n <= Len(<<Mark>> \o Zeros(k))
  BY <1>1, <1>2, <1>3, Unpacked
<1>6. /\ Copy(buf, ptr, <<Mark>> \o Zeros(k), n) \in Text
      /\ Len(Copy(buf, ptr, <<Mark>> \o Zeros(k), n)) = Len(buf)
  BY <1>3, <1>4, <1>5, CopyType, Zenon
<1>. QED
  BY <1>1, <1>2, <1>4, <1>6 DEF Marked

LEMMA CloseGroestlKeeps ==
    ASSUME StreamInv, hash' = hash, fed' = fed, CloseGroestl
    PROVE  StreamInv'
<1>1. hash = "groestl" /\ Block = 128 /\ ptr < 128 /\ ptr \in Nat /\ count \in Int
  BY Unpacked, CoreIs DEF CloseGroestl, StreamInv, Places
<1>2. PICK z \in Nat : z = (IF ptr < 120 THEN 128 - ptr ELSE 256 - ptr) - 9
  <2>1. (IF ptr < 120 THEN 128 - ptr ELSE 256 - ptr) - 9 \in Nat
    BY <1>1
  <2>. QED
    BY <2>1, Zenon
<1>3. PICK k \in Int : k = IF ptr < 120 THEN count + 1 ELSE count + 2
  <2>1. (IF ptr < 120 THEN count + 1 ELSE count + 2) \in Int
    BY <1>1
  <2>. QED
    BY <2>1, Zenon
<1>4. Hand((<<Mark>> \o Zeros(z)) \o BigEndian(k, 8), count, <<>>)
  BY <1>2, <1>3 DEF CloseGroestl
<1>5. 8 \in Nat /\ Mark \in Int
  BY DEF Mark
<1>6. (<<Mark>> \o Zeros(z)) \o BigEndian(k, 8) \in Text
  BY <1>5, EndianTypes, PadType
<1>7. <<>> \in Seq([data : Text, count : Int])
  OBVIOUS
<1>. QED
  BY <1>1, <1>4, <1>6, <1>7, HandKeeps, Zenon

LEMMA CloseJhKeeps ==
    ASSUME StreamInv, hash' = hash, fed' = fed, CloseJh
    PROVE  StreamInv'
<1>1. hash = "jh" /\ Block = 64 /\ ptr < 64 /\ ptr \in Nat /\ count \in Int
  BY Unpacked, CoreIs DEF CloseJh, StreamInv, Places
<1>2. PICK z \in Nat : z = IF ptr = 0 THEN 47 ELSE 111 - ptr
  <2>1. (IF ptr = 0 THEN 47 ELSE 111 - ptr) \in Nat
    BY <1>1
  <2>. QED
    BY <2>1, Zenon
<1>3. PICK k \in Int : k = 512 * count + 8 * ptr
  <2>1. 512 * count + 8 * ptr \in Int
    BY <1>1
  <2>. QED
    BY <2>1, Zenon
<1>4. Hand((<<Mark>> \o Zeros(z)) \o BigEndian(k, 16), count, <<>>)
  BY <1>2, <1>3 DEF CloseJh
<1>5. 16 \in Nat /\ Mark \in Int
  BY DEF Mark
<1>6. (<<Mark>> \o Zeros(z)) \o BigEndian(k, 16) \in Text
  BY <1>5, EndianTypes, PadType
<1>7. <<>> \in Seq([data : Text, count : Int])
  OBVIOUS
<1>. QED
  BY <1>1, <1>4, <1>6, <1>7, HandKeeps, Zenon

LEMMA CloseKeccakKeeps ==
    ASSUME StreamInv, hash' = hash, fed' = fed, CloseKeccak
    PROVE  StreamInv'
<1>1. hash = "keccak" /\ Block = 72 /\ ptr < 72 /\ ptr \in Nat /\ count \in Int
  BY Unpacked, CoreIs DEF CloseKeccak, StreamInv, Places
<1>2. PICK d : /\ Hand(d, count, <<>>)
               /\ d = IF ptr = Block - 1 THEN <<1 + Mark>>
                      ELSE (<<1>> \o Zeros(Block - ptr - 2)) \o <<Mark>>
  BY DEF CloseKeccak
<1>3. d \in Text
  <2>1. CASE ptr = Block - 1
    BY <1>2, <2>1 DEF Text, Mark
  <2>2. CASE ptr # Block - 1
    <3>1. PICK z \in Nat : z = Block - ptr - 2
      <4>1. Block - ptr - 2 \in Nat
        BY <1>1, <2>2
      <4>. QED
        BY <4>1, Zenon
    <3>2. <<Mark>> \in Text /\ 1 \in Int
      BY DEF Text, Mark
    <3>3. (<<1>> \o Zeros(z)) \o <<Mark>> \in Text
      BY <3>2, PadType
    <3>. QED
      BY <1>2, <2>2, <3>1, <3>3
  <2>. QED
    BY <2>1, <2>2
<1>4. <<>> \in Seq([data : Text, count : Int])
  OBVIOUS
<1>. QED
  BY <1>1, <1>2, <1>3, <1>4, HandKeeps, Zenon

LEMMA CloseBlakeKeeps ==
    ASSUME StreamInv, hash' = hash, fed' = fed, NEW w \in {8, 16}, CloseBlake(w),
           hash = IF w = 16 THEN "blake64" ELSE "blake32"
    PROVE  StreamInv'
<1>1. /\ Block = 8 * w /\ Core.tick = 64 * w /\ ptr < Block /\ ptr \in Nat /\ count \in Int
      /\ w \in Nat
  BY Unpacked, CoreIs DEF StreamInv, Places
<1>. DEFINE bits == 8 * ptr
            total == count + bits
            last == Block - w
            size == BigEndian(total, w)
            none == -Core.tick
            end == IF ptr = last - 1 THEN <<Mark + 1>>
                   ELSE (<<Mark>> \o Zeros(last - 2 - ptr)) \o <<1>>
            first == IF ptr = 0 THEN none ELSE count - (Core.tick - bits)
<1>2. first \in Int /\ none \in Int /\ total \in Int
  BY <1>1
<1>3. size \in Text
  BY <1>1, <1>2, EndianTypes
<1>. HIDE DEF first, size, none
<1>4. CASE bits <= Core.tick - 8 * w - 2
  <2>1. Hand(end \o size, first, <<>>)
    BY <1>4 DEF CloseBlake, first, size, none
  <2>2. end \in Text
    <3>1. CASE ptr = last - 1
      BY <3>1 DEF Text, Mark
    <3>2. CASE ptr # last - 1
      <4>1. PICK z \in Nat : z = last - 2 - ptr
        <5>1. last - 2 - ptr \in Nat
          BY <1>1, <1>4, <3>2
        <5>. QED
          BY <5>1, Zenon
      <4>2. <<1>> \in Text /\ Mark \in Int
        BY DEF Text, Mark
      <4>3. (<<Mark>> \o Zeros(z)) \o <<1>> \in Text
        BY <4>2, PadType
      <4>. QED
        BY <3>2, <4>1, <4>3
    <3>. QED
      BY <3>1, <3>2
  <2>. HIDE DEF end
  <2>3. end \o size \in Text
    BY <1>3, <2>2, ConcatType
  <2>4. <<>> \in Seq([data : Text, count : Int])
    OBVIOUS
  <2>. QED
    BY <1>2, <2>1, <2>3, <2>4, HandKeeps, Zenon
<1>5. CASE ~ (bits <= Core.tick - 8 * w - 2)
  <2>. DEFINE d == <<Mark>> \o Zeros(Block - 1 - ptr)
              e == (Zeros(last - 1) \o <<1>>) \o size
              later == <<[data |-> e, count |-> none]>>
  <2>1. Hand(d, first, later)
    BY <1>5 DEF CloseBlake, first, size, none
  <2>2. d \in Text
    <3>1. PICK z \in Nat : z = Block - 1 - ptr
      <4>1. Block - 1 - ptr \in Nat
        BY <1>1, Unpacked
      <4>. QED
        BY <4>1, Zenon
    <3>2. Mark \in Int
      BY DEF Mark
    <3>. QED
      BY <3>1, <3>2, PadType, EmptyType
  <2>3. e \in Text
    <3>1. PICK z \in Nat : z = last - 1
      <4>1. last - 1 \in Nat
        BY <1>1
      <4>. QED
        BY <4>1, Zenon
    <3>2. Zeros(z) \o <<1>> \in Text
      BY PadType, EmptyType
    <3>. QED
      BY <1>3, <3>1, <3>2, ConcatType
  <2>. HIDE DEF d, e
  <2>4. later \in Seq([data : Text, count : Int])
    BY <1>2, <2>3
  <2>. HIDE DEF later
  <2>. QED
    BY <1>2, <2>1, <2>2, <2>4, HandKeeps, Zenon
<1>. QED
  BY <1>4, <1>5
LEMMA CloseFugueKeeps ==
    ASSUME StreamInv, hash' = hash, fed' = fed, CloseFugue
    PROVE  StreamInv'
<1>. DEFINE fill == IF 0 < ptr /\ ptr < 4 THEN Zeros(4 - ptr) ELSE <<>>
            d == (fill \o BigEndian(count, 8)) \o [i \in 1..4 |-> Junk]
<1>1. UpdateFugue(d, "closing")
  BY DEF CloseFugue
<1>2. hash = "fugue" /\ Block = 4 /\ Block' = 4 /\ ptr \in Nat
  BY <1>1, CoreIs, SameHash, Unpacked DEF UpdateFugue
<1>3. fill \in Text /\ Len(fill) \in Nat
  <2>1. CASE 0 < ptr /\ ptr < 4
    <3>1. PICK z \in Nat : z = 4 - ptr
      <4>1. 4 - ptr \in Nat
        BY <1>2, <2>1
      <4>. QED
        BY <4>1, Zenon
    <3>. QED
      BY <2>1, <3>1, ZerosType
  <2>2. CASE ~ (0 < ptr /\ ptr < 4)
    BY <2>2, EmptyType
  <2>. QED
    BY <2>1, <2>2
<1>4. BigEndian(count, 8) \in Text /\ Len(BigEndian(count, 8)) = 8
  <2>1. 8 \in Nat /\ count \in Int
    BY Unpacked
  <2>. QED
    BY <2>1, EndianTypes, Zenon
<1>5. [i \in 1..4 |-> Junk] \in Text /\ Len([i \in 1..4 |-> Junk]) = 4
  BY StreamAssumption DEF Text
<1>. HIDE DEF fill
<1>6. /\ fill \o BigEndian(count, 8) \in Text
      /\ Len(fill \o BigEndian(count, 8)) = Len(fill) + 8
  BY <1>3, <1>4, ConcatType
<1>7. d \in Text /\ Len(d) = (Len(fill) + 8) + 4
  BY <1>5, <1>6, ConcatType
<1>. HIDE DEF d
<1>8. PICK k \in Nat :
        /\ k <= Len(d) /\ ptr + k <= 4 /\ (ptr + k = 4 \/ k = Len(d))
        /\ ptr' = ptr + k /\ absorbed' = absorbed /\ pads' = pads
        /\ count' = count + 8 * Len(d) /\ count' \in Int
        /\ tweaks' = tweaks /\ shift' = shift
        /\ buf' \in Text /\ Len(buf') = 4
        /\ rest' = SubSeq(d, k + 1, Len(d)) /\ rest' \in Text
        /\ Len(rest') = Len(d) - k
        /\ Buffered' = Buffered \o SubSeq(d, 1, k)
        /\ stage' = IF ptr < 4 /\ k = Len(d) THEN "idle" ELSE "closing"
  BY <1>1, <1>2, <1>7, FugueTakes, Zenon
<1>9. stage' = "closing"
  BY <1>2, <1>3, <1>7, <1>8
<1>10. StreamTypes'
  <2>1. stage' \in Stages /\ fed' \in 0..Len(Message) /\ ptr' \in 0..4
    BY <1>2, <1>8, <1>9, Unpacked DEF Stages
  <2>. QED
    BY <1>2, <1>8, <2>1, Unpacked DEF StreamTypes
<1>11. Places'
  BY <1>2, <1>9 DEF Places
<1>12. Kept'
  BY <1>9 DEF Kept, Calls
<1>. QED
  BY <1>10, <1>11, <1>12 DEF StreamInv

LEMMA NextPadKeeps ==
    ASSUME StreamInv, NextPad
    PROVE  StreamInv'
<1>1. /\ pads # <<>> /\ hash' = hash /\ fed' = fed
      /\ Hand(Head(pads).data, Head(pads).count, Tail(pads))
  BY DEF NextPad
<1>2. pads \in Seq([data : Text, count : Int])
  BY Unpacked
<1>3. /\ Head(pads) \in [data : Text, count : Int]
      /\ Tail(pads) \in Seq([data : Text, count : Int])
  <2>. DEFINE Pads == [data : Text, count : Int]
  <2>1. pads \in Seq(Pads)
    BY <1>2
  <2>. HIDE DEF Pads
  <2>2. Head(pads) \in Pads /\ Tail(pads) \in Seq(Pads)
    BY <1>1, <2>1
  <2>. QED
    BY <2>2 DEF Pads
<1>4. Head(pads).data \in Text /\ Head(pads).count \in Int
  BY <1>3
<1>. QED
  BY <1>1, <1>3, <1>4, HandKeeps, Zenon

\* The blocks that echo and sha256 close with are whole ones.
LEMMA EchoEnd ==
    ASSUME NEW b \in Text, Len(b) = 128, NEW v \in Int
    PROVE  LET e == (SubSeq(b, 1, 110) \o LittleEndian(512, 2)) \o LittleEndian(v, 16)
           IN  e \in Text /\ Len(e) = 128
<1>1. PICK n \in Nat : n = 110
  OBVIOUS
<1>2. PICK s \in Int : s = 512
  OBVIOUS
<1>3. PICK w \in Nat : w = 16
  OBVIOUS
<1>4. PICK u \in Nat : u = 2
  OBVIOUS
<1>5. n <= Len(b)
  BY <1>1
<1>6. PICK x \in Text : x = SubSeq(b, 1, n) /\ Len(x) = n
  BY <1>5, TakenFrom
<1>7. PICK y \in Text : y = LittleEndian(s, u) /\ Len(y) = u
  BY EndianTypes
<1>8. PICK z \in Text : z = LittleEndian(v, w) /\ Len(z) = w
  BY EndianTypes
<1>. /\ n = 110 /\ u = 2 /\ w = 16
     /\ Len(x) = n /\ Len(y) = u /\ Len(z) = w
  BY <1>1, <1>3, <1>4, <1>6, <1>7, <1>8
<1>9. x \o y \in Text /\ Len(x \o y) = Len(x) + Len(y)
  BY <1>6, <1>7, ConcatType, Zenon
<1>10. (x \o y) \o z \in Text /\ Len((x \o y) \o z) = Len(x \o y) + Len(z)
  BY <1>8, <1>9, ConcatType, Zenon
<1>11. Len((x \o y) \o z) = 128
  BY <1>9, <1>10
<1>. QED
  BY <1>1, <1>2, <1>3, <1>4, <1>6, <1>7, <1>8, <1>10, <1>11

LEMMA Sha256End ==
    ASSUME NEW b \in Text, Len(b) = 64, NEW v \in Int
    PROVE  LET e == SubSeq(b, 1, 56) \o BigEndian(v, 8)
           IN  e \in Text /\ Len(e) = 64
<1>1. PICK n \in Nat : n = 56
  OBVIOUS
<1>2. PICK u \in Nat : u = 8
  OBVIOUS
<1>3. n <= Len(b)
  BY <1>1
<1>4. PICK x \in Text : x = SubSeq(b, 1, n) /\ Len(x) = n
  BY <1>3, TakenFrom
<1>5. PICK y \in Text : y = BigEndian(v, u) /\ Len(y) = u
  BY EndianTypes
<1>6. x \o y \in Text /\ Len(x \o y) = 64
  <2>1. x \o y \in Text /\ Len(x \o y) = Len(x) + Len(y)
    BY <1>4, <1>5, ConcatType, Zenon
  <2>2. Len(x) = 56 /\ Len(y) = 8
    BY <1>1, <1>2, <1>4, <1>5
  <2>3. Len(x) + Len(y) = 64
    BY <2>2
  <2>. QED
    BY <2>1, <2>3
<1>. QED
  BY <1>1, <1>2, <1>4, <1>5, <1>6

\* The close functions that compress their padding themselves.
LEMMA CloseAloneKeeps ==
    ASSUME StreamInv, hash' = hash, fed' = fed,
           CloseCubehash \/ CloseLuffa \/ CloseShabal \/ CloseEcho \/ CloseSha256 \/ CloseSkein
             \/ CloseGost
    PROVE  StreamInv'
<1>0. hash \notin {"skein", "fugue"} => Marked(buf) \in Text /\ Len(Marked(buf)) = Block
  BY MarkedType DEF StreamInv, Places
<1>1. CASE CloseCubehash
  <2>1. hash = "cubehash" /\ Compress(Marked(buf), Marked(buf), <<0>>)
    BY <1>1 DEF CloseCubehash
  <2>2. Marked(buf) \in Text /\ Len(Marked(buf)) = Block
    BY <1>0, <2>1
  <2>. QED
    BY <2>1, <2>2, CompressKeeps, Zenon
<1>2. CASE CloseLuffa
  <2>1. hash = "luffa" /\ Compress(Zeros(32), Marked(buf) \o Zeros(64), <<0, 0, 0>>)
    BY <1>2 DEF CloseLuffa
  <2>2. Block = 32 /\ 32 \in Nat
    BY <2>1, CoreIs, Unpacked
  <2>3. Zeros(32) \in Text /\ Len(Zeros(32)) = 32
    BY <2>2, ZerosType, Zenon
  <2>4. Zeros(32) \in Text /\ Len(Zeros(32)) = Block
    BY <2>2, <2>3
  <2>. QED
    BY <2>1, <2>4, CompressKeeps, Zenon
<1>3. CASE CloseShabal
  <2>1. hash = "shabal" /\ Compress(Marked(buf), Marked(buf), <<count, count, count, count>>)
    BY <1>3 DEF CloseShabal
  <2>2. Marked(buf) \in Text /\ Len(Marked(buf)) = Block
    BY <1>0, <2>1
  <2>. QED
    BY <2>1, <2>2, CompressKeeps, Zenon
<1>4. CASE CloseEcho
  <2>. DEFINE total == count + 8 * ptr
              own == IF ptr = 0 THEN 0 ELSE total
              End(b) == (SubSeq(b, 1, 110) \o LittleEndian(512, 2)) \o LittleEndian(total, 16)
  <2>1. /\ hash = "echo"
        /\ \/ Compress(End(Zeros(128)), Marked(buf) \o End(Zeros(128)), <<own, 0>>)
           \/ Compress(End(Marked(buf)), End(Marked(buf)), <<own>>)
    BY <1>4 DEF CloseEcho
  <2>2. Block = 128 /\ 128 \in Nat /\ total \in Int
    BY <2>1, CoreIs, Unpacked
  <2>3. Zeros(128) \in Text /\ Len(Zeros(128)) = 128
    BY <2>2, ZerosType, Zenon
  <2>4. Marked(buf) \in Text /\ Len(Marked(buf)) = 128
    BY <1>0, <2>1, <2>2
  <2>5. End(Zeros(128)) \in Text /\ Len(End(Zeros(128))) = 128
    <3>1. PICK b \in Text : b = Zeros(128) /\ Len(b) = 128
      BY <2>3
    <3>2. PICK v \in Int : v = total
      BY <2>2
    <3>. QED
      BY <3>1, <3>2, EchoEnd
  <2>6. End(Marked(buf)) \in Text /\ Len(End(Marked(buf))) = 128
    <3>1. PICK b \in Text : b = Marked(buf) /\ Len(b) = 128
      BY <2>4
    <3>2. PICK v \in Int : v = total
      BY <2>2
    <3>. QED
      BY <3>1, <3>2, EchoEnd
  <2>. HIDE DEF End
  <2>. QED
    BY <2>1, <2>2, <2>5, <2>6, CompressKeeps
<1>5. CASE CloseSha256
  <2>. DEFINE End(b) == SubSeq(b, 1, 56) \o BigEndian(8 * count, 8)
  <2>1. /\ hash = "sha256"
        /\ \/ Compress(End(Zeros(64)), Marked(buf) \o End(Zeros(64)), <<0, 0>>)
           \/ Compress(End(Marked(buf)), End(Marked(buf)), <<0>>)
    BY <1>5 DEF CloseSha256
  <2>2. Block = 64 /\ 64 \in Nat /\ 8 * count \in Int
    BY <2>1, CoreIs, Unpacked
  <2>3. Zeros(64) \in Text /\ Len(Zeros(64)) = 64
    BY <2>2, ZerosType, Zenon
  <2>4. Marked(buf) \in Text /\ Len(Marked(buf)) = 64
    BY <1>0, <2>1, <2>2
  <2>5. End(Zeros(64)) \in Text /\ Len(End(Zeros(64))) = 64
    BY <2>2, <2>3, Sha256End
  <2>6. End(Marked(buf)) \in Text /\ Len(End(Marked(buf))) = 64
    BY <2>2, <2>4, Sha256End
  <2>. HIDE DEF End
  <2>. QED
    BY <2>1, <2>2, <2>5, <2>6, CompressKeeps
<1>6. CASE CloseSkein
  <2>1. PICK bytes, tw : hash = "skein" /\ Compress(Zeros(64), bytes, tw)
    BY <1>6 DEF CloseSkein
  <2>2. Block = 64 /\ 64 \in Nat
    BY <2>1, CoreIs, Unpacked
  <2>3. Zeros(64) \in Text /\ Len(Zeros(64)) = 64
    BY <2>2, ZerosType, Zenon
  <2>4. Zeros(64) \in Text /\ Len(Zeros(64)) = Block
    BY <2>2, <2>3
  <2>. QED
    BY <2>1, <2>4, CompressKeeps, Zenon
<1>7. CASE CloseGost
  <2>1. Compress(buf, <<>>, <<>>)
    BY <1>7 DEF CloseGost
  <2>2. buf \in Text /\ Len(buf) = Block
    BY Unpacked
  <2>. QED
    BY <2>1, <2>2, CompressKeeps, Zenon
<1>. QED
  BY <1>1, <1>2, <1>3, <1>4, <1>5, <1>6, <1>7

LEMMA CloseKeeps ==
    ASSUME StreamInv, Close
    PROVE  StreamInv'
<1>1. hash' = hash /\ fed' = fed
  BY DEF Close
<1>2. CASE CloseBlake64
  <2>1. CloseBlake(16) /\ hash = "blake64" /\ 16 \in {8, 16}
    BY <1>2 DEF CloseBlake64
  <2>2. hash = IF 16 = 16 THEN "blake64" ELSE "blake32"
    BY <2>1
  <2>. QED
    BY <1>1, <2>1, <2>2, CloseBlakeKeeps, Zenon
<1>3. CASE CloseBlake32
  <2>1. CloseBlake(8) /\ hash = "blake32" /\ 8 \in {8, 16}
    BY <1>3 DEF CloseBlake32
  <2>2. hash = IF 8 = 16 THEN "blake64" ELSE "blake32"
    BY <2>1
  <2>. QED
    BY <1>1, <2>1, <2>2, CloseBlakeKeeps, Zenon
<1>. QED
  BY <1>1, <1>2, <1>3, CloseGroestlKeeps, CloseJhKeeps, CloseKeccakKeeps, CloseFugueKeeps,
     CloseAloneKeeps DEF Close

(***************************************************************************)
(* The next message.                                                       *)
(***************************************************************************)
\* An initialised context is empty.
LEMMA ResetIs ==
    ASSUME StreamInv, hash' = hash, Reset
    PROVE  /\ ptr' = 0 /\ absorbed' = <<>> /\ count' \in Int
           /\ buf' \in Text /\ Len(buf') = Block /\ Block' = Block
           /\ Buffered' = <<>>
<1>1. /\ ptr' = 0 /\ count' = Core.start /\ absorbed' = <<>>
      /\ buf' = IF hash = "fugue" THEN Zeros(4) ELSE buf
  BY DEF Reset
<1>2. count' \in Int /\ (hash = "fugue" => Block = 4)
  BY <1>1, CoreIs, Unpacked
<1>3. 4 \in Nat
  OBVIOUS
<1>4. Zeros(4) \in Text /\ Len(Zeros(4)) = 4
  BY <1>3, ZerosType, Zenon
<1>5. buf' \in Text /\ Len(buf') = Block
  BY <1>1, <1>2, <1>4, Unpacked
<1>6. Buffered' = <<>>
  <2>1. CASE hash = "fugue"
    <3>1. Buffered' = SubSeq(buf', 5 - 0, 4) /\ Len(buf') = 4
      BY <1>1, <1>2, <1>5, <2>1, BufferedPrimed
    <3>. QED
      BY <1>5, <3>1, Whole
  <2>2. CASE hash # "fugue"
    BY <1>1, <1>5, <2>2, BufferedPrimed, FullBuffer
  <2>. QED
    BY <2>1, <2>2
<1>. QED
  BY <1>1, <1>2, <1>5, <1>6, SameHash

LEMMA OutputKeeps ==
    ASSUME StreamInv, Output
    PROVE  StreamInv'
<1>1. /\ hash' = hash /\ rest' = rest /\ pads' = pads /\ fed' = fed /\ stage' = "closed"
      /\ Reset
  BY DEF Output
<1>2. StreamTypes'
  <2>1. stage' \in Stages /\ fed' \in 0..Len(Message) /\ ptr' \in 0..Block
    BY <1>1, ResetIs, Unpacked DEF Stages
  <2>. QED
    BY <1>1, <2>1, ResetIs, Unpacked DEF StreamTypes
<1>3. Places'
  BY <1>1, ResetIs, Unpacked DEF Places
<1>4. Kept'
  BY <1>1 DEF Kept, Calls
<1>. QED
  BY <1>2, <1>3, <1>4 DEF StreamInv

\* A context in which nothing has been put, or nothing since the last close,
\* begins a message.
LEMMA BeginsMessage ==
    ASSUME Buffered' = <<>>, absorbed' = <<>>, rest' = <<>>, fed' = 0
    PROVE  Kept'
<1>1. Prefix(fed)' = <<>>
  BY MessageIsText, FullBuffer DEF Prefix
<1>2. (<<>> \o <<>>) \o <<>> = <<>>
  BY EmptyType, ConcatEmpty
<1>. QED
  BY <1>1, <1>2, EmptyType DEF Kept

LEMMA AgainKeeps ==
    ASSUME StreamInv, Again
    PROVE  StreamInv'
<1>1. /\ hash' = hash /\ buf' = buf /\ ptr' = ptr /\ count' = count /\ absorbed' = absorbed
      /\ pads' = pads /\ rest' = <<>> /\ fed' = 0 /\ stage = "closed" /\ stage' = "idle"
  BY DEF Again, state
<1>2. ptr = 0 /\ absorbed = <<>>
  BY <1>1 DEF StreamInv, Places
<1>3. StreamTypes'
  <2>1. stage' \in Stages /\ fed' \in 0..Len(Message) /\ ptr' \in 0..Block /\ rest' \in Text
    BY <1>1, EmptyType, Unpacked DEF Stages
  <2>. QED
    BY <1>1, <2>1, SameHash, Unpacked DEF StreamTypes
<1>4. Places'
  BY <1>1, <1>2, SameHash, Unpacked DEF Places
<1>5. Buffered' = <<>>
  <2>1. Buffered' = Buffered
    BY <1>1 DEF Buffered
  <2>. QED
    BY <1>2, <2>1, Unpacked, EmptyIs
<1>6. Kept'
  BY <1>1, <1>2, <1>5, BeginsMessage
<1>. QED
  BY <1>3, <1>4, <1>6 DEF StreamInv

LEMMA StreamStep ==
    ASSUME StreamInv, StreamNext
    PROVE  StreamInv'
BY UpdateKeeps, ChunkKeeps, SkeinChunkKeeps, FugueWordKeeps, Sha256FillKeeps, Sha256DirectKeeps,
   Sha256TailKeeps, CloseKeeps, NextPadKeeps, OutputKeeps, AgainKeeps DEF StreamNext

LEMMA StreamStutters ==
    ASSUME StreamInv, UNCHANGED streamVars
    PROVE  StreamInv'
<1>1. /\ hash' = hash /\ buf' = buf /\ ptr' = ptr /\ count' = count /\ absorbed' = absorbed
      /\ rest' = rest /\ pads' = pads /\ stage' = stage /\ fed' = fed
  BY DEF streamVars, state, progress
<1>2. StreamTypes'
  BY <1>1, SameHash DEF StreamInv, StreamTypes
<1>3. Places'
  BY <1>1, SameHash DEF StreamInv, Places
<1>4. Kept'
  BY <1>1 DEF StreamInv, Kept, Buffered, Prefix
<1>. QED
  BY <1>2, <1>3, <1>4 DEF StreamInv

LEMMA StreamStarts ==
    ASSUME StreamInit
    PROVE  StreamInv
<1>1. /\ hash \in Hashes /\ ptr = 0 /\ count = Core.start /\ absorbed = <<>> /\ rest = <<>>
      /\ pads = <<>> /\ stage = "idle" /\ fed = 0
      /\ buf = IF hash = "fugue" THEN Zeros(4) ELSE [i \in 1..Block |-> Junk]
  BY DEF StreamInit
<1>2. Block \in Nat /\ Block > 0 /\ count \in Int /\ (hash = "fugue" => Block = 4) /\ 4 \in Nat
  BY <1>1, CoreIs
<1>3. Zeros(4) \in Text /\ Len(Zeros(4)) = 4
  BY <1>2, ZerosType, Zenon
<1>4. [i \in 1..Block |-> Junk] \in Text /\ Len([i \in 1..Block |-> Junk]) = Block
  BY <1>2, StreamAssumption DEF Text
<1>5. buf \in Text /\ Len(buf) = Block
  BY <1>1, <1>2, <1>3, <1>4
<1>6. StreamTypes
  <2>1. stage \in Stages /\ fed \in 0..Len(Message) /\ ptr \in 0..Block
    BY <1>1, <1>2, MessageIsText DEF Stages, Text
  <2>2. pads \in Seq([data : Text, count : Int])
    BY <1>1
  <2>. QED
    BY <1>1, <1>2, <1>5, <2>1, <2>2, EmptyType DEF StreamTypes
<1>7. Places
  BY <1>1, <1>2 DEF Places
<1>8. Kept
  <2>1. Buffered = <<>>
    BY <1>1, <1>6, BufferedType, EmptyIs
  <2>2. Prefix(fed) = <<>>
    BY <1>1, MessageIsText, FullBuffer DEF Prefix
  <2>3. (<<>> \o <<>>) \o <<>> = <<>>
    BY EmptyType, ConcatEmpty
  <2>. QED
    BY <1>1, <2>1, <2>2, <2>3, EmptyType DEF Kept
<1>. QED
  BY <1>6, <1>7, <1>8 DEF StreamInv

LEMMA NothingLostFollows ==
    ASSUME StreamInv
    PROVE  NothingLost
<1>1. stage \in Calls /\ hash # "gost" => (absorbed \o Buffered) \o rest = Prefix(fed)
  BY DEF StreamInv, Kept
<1>2. ptr < Block \/ (ptr = Block /\ ~Eager /\ hash # "sha256")
  BY Unpacked DEF StreamInv, Places, Eager
<1>. QED
  BY <1>1, <1>2 DEF NothingLost, Calls

\* However a message is cut into calls of sph_X, what has been compressed,
\* what is in the buffer and what the call has still to take are the message,
\* in its order, in every loop of every core function; and between two calls
\* no more than a block waits in the buffer.  For messages of any length.
THEOREM StreamLosesNothing == StreamSpec => []NothingLost
<1>1. StreamInv /\ [StreamNext]_streamVars => StreamInv'
  BY StreamStep, StreamStutters
<1>2. StreamInv => NothingLost
  BY NothingLostFollows
<1>. QED
  BY <1>1, <1>2, StreamStarts, PTL DEF StreamSpec

(***************************************************************************)
(* What a close appends: the paddings of HashStreamProps, for a message of *)
(* k blocks and p bytes.                                                   *)
(***************************************************************************)
LEMMA ZerosJoin ==
    ASSUME NEW a \in Nat, NEW b \in Nat
    PROVE  Zeros(a) \o Zeros(b) = Zeros(a + b)
<1>1. Zeros(a) \in Text /\ Len(Zeros(a)) = a /\ Zeros(b) \in Text /\ Len(Zeros(b)) = b
  BY ZerosType
<1>2. Zeros(a + b) \in Text /\ Len(Zeros(a + b)) = a + b
  BY ZerosType
<1>3. Zeros(a) \o Zeros(b) \in Text /\ Len(Zeros(a) \o Zeros(b)) = a + b
  BY <1>1, ConcatType
<1>4. ASSUME NEW i \in 1..(a + b)
      PROVE  (Zeros(a) \o Zeros(b))[i] = Zeros(a + b)[i]
  <2>1. (Zeros(a) \o Zeros(b))[i] = IF i <= a THEN Zeros(a)[i] ELSE Zeros(b)[i - a]
    BY <1>1, JoinedAt
  <2>. QED
    BY <2>1 DEF Zeros
<1>. QED
  BY <1>2, <1>3, <1>4, SameText

\* A message of k blocks of b bytes and p bytes.
HasBlocks(m, b, k, p) == m \in Text /\ Len(m) = b * k + p
HasBits(m, bits)      == bits = 8 * Len(m)

\* A message and two, three or four parts behind it.
Trailing(m, a, b)       == (m \o a) \o b = m \o (a \o b)
TrailingAll(m, a, b, c) == ((m \o a) \o b) \o c = m \o ((a \o b) \o c)

LEMMA TrailingIs ==
    ASSUME NEW m \in Text, NEW a \in Text, NEW b \in Text
    PROVE  Trailing(m, a, b)
BY ConcatAssoc, Zenon DEF Trailing

LEMMA TrailingAllIs ==
    ASSUME NEW m \in Text, NEW a \in Text, NEW b \in Text, NEW c \in Text
    PROVE  TrailingAll(m, a, b, c)
<1>1. PICK x \in Text : x = a \o b
  BY ConcatType
<1>2. x \in Text
  BY <1>1
<1>3. Trailing(m, a, b) /\ Trailing(m, x, c)
  BY <1>2, TrailingIs, Zenon
<1>. QED
  BY <1>1, <1>3 DEF Trailing, TrailingAll

LEMMA MarkType == <<Mark>> \in Text /\ Len(<<Mark>>) = 1 /\ Mark \in Int
BY DEF Mark, Text

LEMMA OneType == <<1>> \in Text /\ Len(<<1>>) = 1
BY DEF Text

LEMMA WordTypes ==
    \A v \in Int :
        /\ BigEndian(v, 8) \in Text /\ Len(BigEndian(v, 8)) = 8
        /\ BigEndian(v, 16) \in Text /\ Len(BigEndian(v, 16)) = 16
        /\ LittleEndian(v, 2) \in Text /\ Len(LittleEndian(v, 2)) = 2
        /\ LittleEndian(v, 16) \in Text /\ Len(LittleEndian(v, 16)) = 16
<1>. SUFFICES ASSUME NEW v \in Int
              PROVE  /\ BigEndian(v, 8) \in Text /\ Len(BigEndian(v, 8)) = 8
                     /\ BigEndian(v, 16) \in Text /\ Len(BigEndian(v, 16)) = 16
                     /\ LittleEndian(v, 2) \in Text /\ Len(LittleEndian(v, 2)) = 2
                     /\ LittleEndian(v, 16) \in Text /\ Len(LittleEndian(v, 16)) = 16
  OBVIOUS
<1>1. 2 \in Nat /\ 8 \in Nat /\ 16 \in Nat
  OBVIOUS
<1>. QED
  BY <1>1, EndianTypes, Zenon

LEMMA GroestlPadding ==
    ASSUME hash = "groestl", NEW m, NEW k \in Nat, NEW p \in 0..127,
           HasBlocks(m, 128, k, p),
           NEW z \in Nat, NEW c \in Nat,
           p < 120 => z + p = 119 /\ c = k + 1,
           ~ (p < 120) => z + p = 247 /\ c = k + 2
    PROVE  Padded(m) = m \o ((<<Mark>> \o Zeros(z)) \o BigEndian(c, 8))
<1>. USE DEF HasBlocks, HasBits
<1>1. PICK n \in Nat : n = Len(m)
  BY DEF Text
<1>2. Up(n + 9, 128) = z /\ (n + 9 + z) \div 128 = c
  BY <1>1 DEF Up
<1>3. Padded(m) = ((m \o <<Mark>>) \o Zeros(z)) \o BigEndian(c, 8)
  BY <1>1, <1>2 DEF Padded
<1>4. <<Mark>> \in Text /\ Zeros(z) \in Text /\ BigEndian(c, 8) \in Text
  BY ZerosType, WordTypes, MarkType
<1>5. TrailingAll(m, <<Mark>>, Zeros(z), BigEndian(c, 8))
  BY <1>4, TrailingAllIs, Zenon
<1>. QED
  BY <1>3, <1>5 DEF TrailingAll

LEMMA JhPadding ==
    ASSUME hash = "jh", NEW m, NEW k \in Nat, NEW p \in 0..63,
           HasBlocks(m, 64, k, p),
           NEW z \in Nat, p = 0 => z = 47, p # 0 => z + p = 111,
           NEW bits \in Nat, HasBits(m, bits)
    PROVE  Padded(m) = m \o ((<<Mark>> \o Zeros(z)) \o BigEndian(bits, 16))
<1>. USE DEF HasBlocks, HasBits
<1>1. PICK n \in Nat : n = Len(m)
  BY DEF Text
<1>2. 47 + Up(n, 64) = z /\ 8 * n = bits
  BY <1>1 DEF Up
<1>3. Padded(m) = ((m \o <<Mark>>) \o Zeros(z)) \o BigEndian(bits, 16)
  BY <1>1, <1>2 DEF Padded
<1>4. <<Mark>> \in Text /\ Zeros(z) \in Text /\ BigEndian(bits, 16) \in Text
  BY ZerosType, WordTypes, MarkType
<1>5. TrailingAll(m, <<Mark>>, Zeros(z), BigEndian(bits, 16))
  BY <1>4, TrailingAllIs, Zenon
<1>. QED
  BY <1>3, <1>5 DEF TrailingAll

LEMMA KeccakPadding ==
    ASSUME hash = "keccak", NEW m, NEW k \in Nat, NEW p \in 0..71,
           HasBlocks(m, 72, k, p)
    PROVE  /\ p = 71 => Padded(m) = m \o <<1 + Mark>>
           /\ \A z \in Nat : z + p + 2 = 72 =>
                  Padded(m) = m \o ((<<1>> \o Zeros(z)) \o <<Mark>>)
<1>. USE DEF HasBlocks, HasBits
<1>1. PICK n \in Nat : n = Len(m)
  BY DEF Text
<1>2. Up(n + 1, 72) = 71 - p
  BY <1>1 DEF Up
<1>3. Padded(m) = IF 71 - p = 0 THEN m \o <<129>>
                  ELSE ((m \o <<1>>) \o Zeros((71 - p) - 1)) \o <<128>>
  BY <1>1, <1>2 DEF Padded
<1>4. p = 71 => Padded(m) = m \o <<1 + Mark>>
  BY <1>3 DEF Mark
<1>5. ASSUME NEW z \in Nat, z + p + 2 = 72
      PROVE  Padded(m) = m \o ((<<1>> \o Zeros(z)) \o <<Mark>>)
  <2>1. Padded(m) = ((m \o <<1>>) \o Zeros(z)) \o <<Mark>>
    <3>1. 71 - p # 0 /\ (71 - p) - 1 = z
      BY <1>5
    <3>. QED
      BY <1>3, <3>1 DEF Mark
  <2>2. <<1>> \in Text /\ Zeros(z) \in Text /\ <<Mark>> \in Text
    BY ZerosType, MarkType DEF Text
  <2>3. TrailingAll(m, <<1>>, Zeros(z), <<Mark>>)
    BY <2>2, TrailingAllIs, Zenon
  <2>. QED
    BY <2>1, <2>3 DEF TrailingAll
<1>. QED
  BY <1>4, <1>5

\* Padding of one byte in front of the length of the message, in one block.
BlakePadded(m, p, w, bits) ==
    /\ p + 1 + w = 8 * w => Padded(m) = m \o (<<Mark + 1>> \o BigEndian(bits, w))
    /\ \A z \in Nat : z + 2 + w + p = 8 * w =>
         Padded(m) = m \o (((<<Mark>> \o Zeros(z)) \o <<1>>) \o BigEndian(bits, w))
    /\ \A y, z \in Nat : y + p + 1 = 8 * w /\ z + 1 + w = 8 * w /\ p + w >= 8 * w =>
         Padded(m) = (m \o (<<Mark>> \o Zeros(y))) \o ((Zeros(z) \o <<1>>) \o BigEndian(bits, w))

LEMMA BlakePadding ==
    ASSUME NEW w \in {8, 16}, hash = (IF w = 16 THEN "blake64" ELSE "blake32"),
           Block = 8 * w,
           NEW m, NEW k \in Nat, NEW p \in Nat, p < 8 * w,
           HasBlocks(m, Block, k, p),
           NEW bits \in Nat, HasBits(m, bits)
    PROVE  BlakePadded(m, p, w, bits)
<1>. USE DEF HasBlocks, HasBits
<1>1. PICK n \in Nat : n = Len(m)
  BY DEF Text
<1>. DEFINE u == Up(n + 1 + w, 8 * w)
            f == IF u = 0 THEN <<129>> ELSE (<<Mark>> \o Zeros(u - 1)) \o <<1>>
<1>2. Padded(m) = (m \o f) \o BigEndian(bits, w)
  <2>1. CASE w = 16
    <3>1. hash = "blake64" /\ 8 * n = bits /\ 8 * Len(m) = bits
      BY <1>1, <2>1
    <3>2. Padded(m) = (m \o (IF Up(n + 1 + 16, Block) = 0 THEN <<129>>
                             ELSE (<<Mark>> \o Zeros(Up(n + 1 + 16, Block) - 1)) \o <<1>>))
                        \o BigEndian(bits, 16)
      BY <1>1, <3>1 DEF Padded
    <3>. QED
      BY <2>1, <3>2
  <2>2. CASE w = 8
    <3>1. hash = "blake32" /\ 8 * n = bits /\ 8 * Len(m) = bits
      BY <1>1, <2>2
    <3>2. Padded(m) = (m \o (IF Up(n + 1 + 8, Block) = 0 THEN <<129>>
                             ELSE (<<Mark>> \o Zeros(Up(n + 1 + 8, Block) - 1)) \o <<1>>))
                        \o BigEndian(bits, 8)
      BY <1>1, <3>1 DEF Padded
    <3>. QED
      BY <2>2, <3>2
  <2>. QED
    BY <2>1, <2>2
<1>3. u = IF p + 1 + w <= 8 * w THEN 8 * w - (p + 1 + w) ELSE 16 * w - (p + 1 + w)
  <2>1. CASE w = 16
    BY <1>1, <2>1 DEF Up
  <2>2. CASE w = 8
    BY <1>1, <2>2 DEF Up
  <2>. QED
    BY <2>1, <2>2
<1>4. BigEndian(bits, w) \in Text
  BY EndianTypes
<1>5. <<Mark + 1>> \in Text /\ <<1>> \in Text /\ <<Mark>> \in Text
  BY DEF Mark, Text
<1>. HIDE DEF u
<1>6. ASSUME p + 1 + w = 8 * w
      PROVE  Padded(m) = m \o (<<Mark + 1>> \o BigEndian(bits, w))
  <2>1. f = <<Mark + 1>>
    BY <1>3, <1>6 DEF Mark
  <2>2. Trailing(m, <<Mark + 1>>, BigEndian(bits, w))
    BY <1>4, <1>5, TrailingIs, Zenon
  <2>. QED
    BY <1>2, <2>1, <2>2 DEF Trailing
<1>7. ASSUME NEW z \in Nat, z + 2 + w + p = 8 * w
      PROVE  Padded(m) = m \o (((<<Mark>> \o Zeros(z)) \o <<1>>) \o BigEndian(bits, w))
  <2>1. f = (<<Mark>> \o Zeros(z)) \o <<1>>
    <3>1. u # 0 /\ u - 1 = z
      BY <1>3, <1>7
    <3>. QED
      BY <3>1
  <2>2. (<<Mark>> \o Zeros(z)) \o <<1>> \in Text
    BY <1>5, MarkType, PadType, ConcatType
  <2>3. Trailing(m, (<<Mark>> \o Zeros(z)) \o <<1>>, BigEndian(bits, w))
    BY <1>4, <2>2, TrailingIs, Zenon
  <2>. QED
    BY <1>2, <2>1, <2>3 DEF Trailing
<1>8. ASSUME NEW y \in Nat, NEW z \in Nat,
             y + p + 1 = 8 * w, z + 1 + w = 8 * w, p + w >= 8 * w
      PROVE  Padded(m) = (m \o (<<Mark>> \o Zeros(y)))
                            \o ((Zeros(z) \o <<1>>) \o BigEndian(bits, w))
  <2>1. f = (<<Mark>> \o Zeros(y + z)) \o <<1>>
    <3>1. u # 0 /\ u - 1 = y + z
      BY <1>3, <1>8
    <3>. QED
      BY <3>1
  <2>2. PICK a \in Text, b \in Text : a = Zeros(y) /\ b = Zeros(z)
    BY ZerosType
  <2>3. f = (<<Mark>> \o (a \o b)) \o <<1>>
    BY <2>1, <2>2, ZerosJoin
  <2>. HIDE DEF f
  <2>4. TrailingAll(<<Mark>>, a, b, <<1>>) /\ Trailing(<<Mark>>, a, b)
    BY <1>5, <2>2, TrailingAllIs, TrailingIs, Zenon
  <2>5. PICK x \in Text : x = b \o <<1>>
    BY <1>5, <2>2, ConcatType
  <2>6. PICK h \in Text : h = <<Mark>> \o a
    BY <1>5, <2>2, ConcatType
  <2>7. Trailing(h, b, <<1>>) /\ Trailing(m, h \o x, BigEndian(bits, w)) /\ Trailing(m, h, x)
    <3>1. h \o x \in Text
      BY <2>5, <2>6, ConcatType
    <3>. QED
      BY <1>4, <1>5, <2>2, <2>5, <2>6, <3>1, TrailingIs, Zenon
  <2>8. f = h \o x
    BY <2>3, <2>4, <2>5, <2>6, <2>7 DEF Trailing
  <2>9. m \o h \in Text /\ Trailing(m \o h, x, BigEndian(bits, w))
    <3>1. m \o h \in Text
      BY <2>6, ConcatType
    <3>. QED
      BY <1>4, <2>5, <3>1, TrailingIs, Zenon
  <2>10. (m \o f) \o BigEndian(bits, w) = (m \o h) \o (x \o BigEndian(bits, w))
    BY <2>7, <2>8, <2>9 DEF Trailing
  <2>. QED
    BY <1>2, <2>2, <2>5, <2>6, <2>10
<1>. QED
  BY <1>6, <1>7, <1>8 DEF BlakePadded

\* Zeros that reach into another block.
Across(m, a, y, z, c) == ((m \o a) \o (y \o z)) \o c = (m \o (a \o y)) \o (z \o c)

LEMMA AcrossIs ==
    ASSUME NEW m \in Text, NEW a \in Text, NEW y \in Text, NEW z \in Text, NEW c \in Text
    PROVE  Across(m, a, y, z, c)
<1>1. PICK x \in Text : x = m \o a
  BY ConcatType
<1>2. PICK v \in Text : v = x \o y
  BY <1>1, ConcatType
<1>3. Trailing(x, y, z) /\ Trailing(v, z, c) /\ Trailing(m, a, y)
  BY <1>1, <1>2, TrailingIs, Zenon
<1>. QED
  BY <1>1, <1>2, <1>3 DEF Across, Trailing

LEMMA MarkPadding ==
    ASSUME hash \in {"cubehash", "luffa", "shabal"}, NEW m, NEW k \in Nat, NEW p \in Nat,
           Block = (IF hash = "shabal" THEN 64 ELSE 32),
           HasBlocks(m, Block, k, p), NEW z \in Nat, z + p + 1 = Block
    PROVE  /\ hash # "luffa" => Padded(m) = m \o (<<Mark>> \o Zeros(z))
           /\ hash = "luffa" => Padded(m) = (m \o (<<Mark>> \o Zeros(z))) \o Zeros(64)
<1>. USE DEF HasBlocks, HasBits
<1>1. PICK n \in Nat : n = Len(m)
  BY DEF Text
<1>2. hash = "shabal" => Up(n + 1, 64) = z
  BY <1>1 DEF Up
<1>3. hash # "shabal" => Up(n + 1, 32) = z
  BY <1>1 DEF Up
<1>4. Trailing(m, <<Mark>>, Zeros(z))
  BY MarkType, ZerosType, TrailingIs, Zenon
<1>5. CASE hash = "cubehash"
  <2>1. Padded(m) = (m \o <<Mark>>) \o Zeros(z)
    BY <1>1, <1>3, <1>5 DEF Padded
  <2>. QED
    BY <1>4, <1>5, <2>1 DEF Trailing
<1>6. CASE hash = "shabal"
  <2>1. Padded(m) = (m \o <<Mark>>) \o Zeros(z)
    BY <1>1, <1>2, <1>6 DEF Padded
  <2>. QED
    BY <1>4, <1>6, <2>1 DEF Trailing
<1>7. CASE hash = "luffa"
  <2>1. Padded(m) = ((m \o <<Mark>>) \o Zeros(z)) \o Zeros(64)
    BY <1>1, <1>3, <1>7 DEF Padded
  <2>. QED
    BY <1>4, <1>7, <2>1 DEF Trailing
<1>. QED
  BY <1>5, <1>6, <1>7

EchoPadded(m, p, bits) ==
    /\ \A z \in Nat : z + p = 109 =>
         Padded(m) = m \o (((<<Mark>> \o Zeros(z)) \o <<0, 2>>) \o LittleEndian(bits, 16))
    /\ \A y \in Nat : y + p = 127 /\ p >= 110 =>
         Padded(m) = (m \o (<<Mark>> \o Zeros(y)))
                        \o ((Zeros(110) \o <<0, 2>>) \o LittleEndian(bits, 16))

LEMMA EchoPadding ==
    ASSUME hash = "echo", NEW m, NEW k \in Nat, NEW p \in 0..127,
           HasBlocks(m, 128, k, p), NEW bits \in Nat, HasBits(m, bits)
    PROVE  EchoPadded(m, p, bits)
<1>. USE DEF HasBlocks, HasBits
<1>1. PICK n \in Nat : n = Len(m)
  BY DEF Text
<1>2. Padded(m) = (((m \o <<Mark>>) \o Zeros(Up(n + 19, 128))) \o <<0, 2>>) \o LittleEndian(bits, 16)
  BY <1>1 DEF Padded
<1>3. <<0, 2>> \in Text /\ LittleEndian(bits, 16) \in Text
  BY WordTypes DEF Text
<1>4. ASSUME NEW z \in Nat, z + p = 109
      PROVE  Padded(m) = m \o (((<<Mark>> \o Zeros(z)) \o <<0, 2>>) \o LittleEndian(bits, 16))
  <2>1. Up(n + 19, 128) = z
    BY <1>1, <1>4 DEF Up
  <2>2. Zeros(z) \in Text
    BY ZerosType
  <2>3. TrailingAll(m, <<Mark>>, Zeros(z), <<0, 2>>)
    BY <1>3, <2>2, MarkType, TrailingAllIs, Zenon
  <2>4. (<<Mark>> \o Zeros(z)) \o <<0, 2>> \in Text
    BY <1>3, MarkType, PadType
  <2>5. Trailing(m, (<<Mark>> \o Zeros(z)) \o <<0, 2>>, LittleEndian(bits, 16))
    BY <1>3, <2>4, TrailingIs, Zenon
  <2>. QED
    BY <1>2, <2>1, <2>3, <2>5 DEF Trailing, TrailingAll
<1>5. ASSUME NEW y \in Nat, y + p = 127, p >= 110
      PROVE  Padded(m) = (m \o (<<Mark>> \o Zeros(y)))
                            \o ((Zeros(110) \o <<0, 2>>) \o LittleEndian(bits, 16))
  <2>1. Up(n + 19, 128) = y + 110
    BY <1>1, <1>5 DEF Up
  <2>2. PICK b \in Nat : b = 110
    OBVIOUS
  <2>3. Zeros(y) \in Text /\ Zeros(b) \in Text /\ Zeros(y) \o Zeros(b) = Zeros(y + b)
    BY ZerosType, ZerosJoin
  <2>4. Across(m, <<Mark>>, Zeros(y), Zeros(b), <<0, 2>>)
    BY <1>3, <2>3, MarkType, AcrossIs, Zenon
  <2>5. PICK h \in Text : h = m \o (<<Mark>> \o Zeros(y))
    BY <2>3, MarkType, PadType, ConcatType
  <2>6. PICK t \in Text : t = Zeros(b) \o <<0, 2>>
    BY <1>3, <2>3, ConcatType
  <2>7. Trailing(h, t, LittleEndian(bits, 16))
    BY <1>3, <2>5, <2>6, TrailingIs, Zenon
  <2>8. Padded(m) = (h \o t) \o LittleEndian(bits, 16)
    BY <1>2, <2>1, <2>2, <2>3, <2>4, <2>5, <2>6, ZenonT(30) DEF Across
  <2>. QED
    BY <2>2, <2>5, <2>6, <2>7, <2>8 DEF Trailing
<1>. QED
  BY <1>4, <1>5 DEF EchoPadded

Sha256Padded(m, p, bits) ==
    /\ \A z \in Nat : z + p = 55 =>
         Padded(m) = m \o ((<<Mark>> \o Zeros(z)) \o BigEndian(bits, 8))
    /\ \A y \in Nat : y + p = 63 /\ p >= 56 =>
         Padded(m) = (m \o (<<Mark>> \o Zeros(y))) \o (Zeros(56) \o BigEndian(bits, 8))

LEMMA Sha256Padding ==
    ASSUME hash = "sha256", NEW m, NEW k \in Nat, NEW p \in 0..63,
           HasBlocks(m, 64, k, p), NEW bits \in Nat, HasBits(m, bits)
    PROVE  Sha256Padded(m, p, bits)
<1>. USE DEF HasBlocks, HasBits
<1>1. PICK n \in Nat : n = Len(m)
  BY DEF Text
<1>2. Padded(m) = ((m \o <<Mark>>) \o Zeros(Up(n + 9, 64))) \o BigEndian(bits, 8)
  BY <1>1 DEF Padded
<1>3. BigEndian(bits, 8) \in Text
  BY WordTypes
<1>4. ASSUME NEW z \in Nat, z + p = 55
      PROVE  Padded(m) = m \o ((<<Mark>> \o Zeros(z)) \o BigEndian(bits, 8))
  <2>1. Up(n + 9, 64) = z
    BY <1>1, <1>4 DEF Up
  <2>2. Zeros(z) \in Text
    BY ZerosType
  <2>3. TrailingAll(m, <<Mark>>, Zeros(z), BigEndian(bits, 8))
    BY <1>3, <2>2, MarkType, TrailingAllIs, Zenon
  <2>. QED
    BY <1>2, <2>1, <2>3 DEF TrailingAll
<1>5. ASSUME NEW y \in Nat, y + p = 63, p >= 56
      PROVE  Padded(m) = (m \o (<<Mark>> \o Zeros(y))) \o (Zeros(56) \o BigEndian(bits, 8))
  <2>1. Up(n + 9, 64) = y + 56
    BY <1>1, <1>5 DEF Up
  <2>2. PICK b \in Nat : b = 56
    OBVIOUS
  <2>3. Zeros(y) \in Text /\ Zeros(b) \in Text /\ Zeros(y) \o Zeros(b) = Zeros(y + b)
    BY ZerosType, ZerosJoin
  <2>4. Across(m, <<Mark>>, Zeros(y), Zeros(b), BigEndian(bits, 8))
    BY <1>3, <2>3, MarkType, AcrossIs, Zenon
  <2>. QED
    BY <1>2, <2>1, <2>2, <2>3, <2>4 DEF Across
<1>. QED
  BY <1>4, <1>5 DEF Sha256Padded

LEMMA SkeinPadding ==
    ASSUME hash = "skein", NEW m, NEW k \in Nat, NEW p \in 0..64,
           HasBlocks(m, 64, k, p), p = 0 => k = 0, NEW z \in Nat, z + p = 64
    PROVE  Padded(m) = (m \o Zeros(z)) \o Zeros(64)
<1>. USE DEF HasBlocks, HasBits
<1>1. PICK n \in Nat : n = Len(m)
  BY DEF Text
<1>2. (IF n = 0 THEN 64 ELSE Up(n, 64)) = z
  BY <1>1 DEF Up
<1>. QED
  BY <1>1, <1>2 DEF Padded

LEMMA FuguePadding ==
    ASSUME hash = "fugue", NEW m, NEW k \in Nat, NEW p \in 0..4,
           HasBlocks(m, 4, k, p), NEW z \in Nat,
           p \in {0, 4} => z = 0, p \notin {0, 4} => z + p = 4,
           NEW bits \in Nat, HasBits(m, bits)
    PROVE  Padded(m) = m \o (Zeros(z) \o BigEndian(bits, 8))
<1>. USE DEF HasBlocks, HasBits
<1>1. PICK n \in Nat : n = Len(m)
  BY DEF Text
<1>2. Up(n, 4) = z
  BY <1>1 DEF Up
<1>3. Padded(m) = (m \o Zeros(z)) \o BigEndian(bits, 8)
  BY <1>1, <1>2 DEF Padded
<1>4. Zeros(z) \in Text /\ BigEndian(bits, 8) \in Text
  BY ZerosType, WordTypes
<1>5. Trailing(m, Zeros(z), BigEndian(bits, 8))
  BY <1>4, TrailingIs, Zenon
<1>. QED
  BY <1>3, <1>5 DEF Trailing

\* gost takes the blocks from the end, and fills the first one of the message.
LEMMA GostPadding ==
    ASSUME hash \in Hashes, hash = "gost", NEW m \in Text
    PROVE  /\ Padded(m) = GostBlocks(m)
           /\ Len(Padded(m)) = 64 * (Len(m) \div 64 + 1)
<1>1. PICK n \in Nat : n = Len(m)
  BY DEF Text
<1>2. PICK whole \in Nat, left \in 0..63 :
        n = 64 * whole + left /\ n \div 64 = whole /\ n % 64 = left
  OBVIOUS
<1>3. PICK y \in Nat : y = 63 - left
  <2>1. 63 - left \in Nat
    BY <1>2
  <2>. QED
    BY <2>1, Zenon
<1>. DEFINE front == Zeros(y) \o <<1>>
            s == front \o m
            final == front \o SubSeq(m, 1, left)
<1>4. front \in Text /\ Len(front) = y + 1
  BY PadType, EmptyType
<1>5. ASSUME NEW i \in 1..(y + 1)
      PROVE  front[i] = IF i <= y THEN 0 ELSE 1
  <2>1. Zeros(y) \in Text /\ Len(Zeros(y)) = y /\ <<1>> \in Text /\ Len(<<1>>) = 1
    BY ZerosType DEF Text
  <2>2. front[i] = IF i <= y THEN Zeros(y)[i] ELSE <<1>>[i - y]
    BY <2>1, JoinedAt
  <2>. QED
    BY <2>2 DEF Zeros
<1>. HIDE DEF front
<1>6. s \in Text /\ Len(s) = (y + 1) + n
  BY <1>1, <1>4, ConcatType
<1>7. ASSUME NEW i \in 1..((y + 1) + n)
      PROVE  s[i] = IF i <= y + 1 THEN front[i] ELSE m[i - (y + 1)]
  BY <1>1, <1>4, JoinedAt
<1>8. SubSeq(m, 1, left) \in Text /\ Len(SubSeq(m, 1, left)) = left
  <2>1. left \in Nat /\ left <= Len(m)
    BY <1>1, <1>2
  <2>. QED
    BY <2>1, TakenFrom, Zenon
<1>9. ASSUME NEW i \in 1..((y + 1) + left)
      PROVE  final[i] = IF i <= y + 1 THEN front[i] ELSE m[i - (y + 1)]
  <2>1. final[i] = IF i <= y + 1 THEN front[i] ELSE SubSeq(m, 1, left)[i - (y + 1)]
    <3>1. i \in 1..(Len(front) + Len(SubSeq(m, 1, left)))
      BY <1>4, <1>8
    <3>2. final[i] = IF i <= Len(front) THEN front[i] ELSE SubSeq(m, 1, left)[i - Len(front)]
      BY <1>4, <1>8, <3>1, JoinedAt, Zenon
    <3>. QED
      BY <1>4, <3>2
  <2>2. ASSUME i > y + 1
        PROVE  SubSeq(m, 1, left)[i - (y + 1)] = m[i - (y + 1)]
    <3>1. PICK j \in Nat : j = i - (y + 1) /\ j \in 1..(left - 1 + 1)
      <4>1. i - (y + 1) \in Nat /\ i - (y + 1) \in 1..(left - 1 + 1)
        BY <1>2, <1>3, <2>2
      <4>. QED
        BY <4>1, Zenon
    <3>2. 1 \in Nat /\ left \in Nat /\ 1 <= 1 /\ left <= Len(m) /\ 1 + j - 1 = j
      BY <1>1, <1>2, <3>1
    <3>3. SubSeq(m, 1, left)[j] = m[1 + j - 1]
      BY <3>1, <3>2, PartAt
    <3>. QED
      BY <3>1, <3>2, <3>3
  <2>. HIDE DEF final
  <2>. QED
    BY <1>2, <1>3, <2>1, <2>2
<1>. HIDE DEF s, final
<1>10. Len(s) = 64 * (whole + 1) /\ Block = 64
  <2>1. Block = 64
    BY CoreIs
  <2>. QED
    BY <1>2, <1>3, <1>6, <2>1
<1>11. Padded(m) = BlocksFromTheEnd(s)
  BY <1>1, <1>2, <1>3 DEF Padded, s, front
<1>12. BlocksFromTheEnd(s) =
         [j \in 1..64 * (whole + 1) |->
             s[64 * (whole + 1) - 64 * (((j - 1) \div 64) + 1) + ((j - 1) % 64) + 1]]
  BY <1>10 DEF BlocksFromTheEnd
<1>13. GostBlocks(m) =
         [j \in 1..64 * (whole + 1) |->
             IF (j - 1) \div 64 < whole
             THEN m[n - 64 * ((j - 1) \div 64 + 1) + (j - 64 * ((j - 1) \div 64))]
             ELSE final[j - 64 * ((j - 1) \div 64)]]
  BY <1>1, <1>2, <1>3 DEF GostBlocks, final, front
<1>14. ASSUME NEW j \in 1..64 * (whole + 1)
       PROVE  s[64 * (whole + 1) - 64 * (((j - 1) \div 64) + 1) + ((j - 1) % 64) + 1]
                = IF (j - 1) \div 64 < whole
                  THEN m[n - 64 * ((j - 1) \div 64 + 1) + (j - 64 * ((j - 1) \div 64))]
                  ELSE final[j - 64 * ((j - 1) \div 64)]
  <2>1. PICK b \in Nat, r \in 0..63 :
          /\ (j - 1) \div 64 = b /\ (j - 1) % 64 = r /\ j - 1 = 64 * b + r /\ b <= whole
    OBVIOUS
  <2>2. PICK x \in Nat : x = 64 * (whole - b) + r + 1
    <3>1. 64 * (whole - b) + r + 1 \in Nat
      BY <2>1
    <3>. QED
      BY <3>1, Zenon
  <2>3. /\ x = 64 * (whole + 1) - 64 * (b + 1) + r + 1
        /\ x \in 1..((y + 1) + n)
        /\ b < whole => x > y + 1 /\ x - (y + 1) = n - 64 * (b + 1) + (j - 64 * b)
        /\ ~ (b < whole) => x = j - 64 * b /\ x \in 1..((y + 1) + left)
    BY <1>2, <1>3, <2>1, <2>2
  <2>4. s[x] = IF x <= y + 1 THEN front[x] ELSE m[x - (y + 1)]
    BY <1>7, <2>3
  <2>5. CASE b < whole
    <3>1. s[x] = m[x - (y + 1)]
      BY <2>3, <2>4, <2>5
    <3>. QED
      BY <2>1, <2>3, <2>5, <3>1
  <2>6. CASE ~ (b < whole)
    <3>1. final[x] = IF x <= y + 1 THEN front[x] ELSE m[x - (y + 1)]
      BY <1>9, <2>3, <2>6
    <3>. QED
      BY <2>1, <2>3, <2>4, <2>6, <3>1
  <2>. QED
    BY <2>5, <2>6
<1>15. Padded(m) = GostBlocks(m)
  BY <1>11, <1>12, <1>13, <1>14
<1>16. Len(Padded(m)) = 64 * (whole + 1)
  BY <1>11, <1>12
<1>. QED
  BY <1>1, <1>2, <1>15, <1>16

(***************************************************************************)
(* The tweaks: a function of the number of the block, as far as blocks     *)
(* have been compressed.                                                   *)
(***************************************************************************)
Listed(f, n) == [i \in 1..n |-> f[i]]

LEMMA ListedSame ==
    ASSUME NEW f, NEW h, NEW n \in Nat, \A i \in 1..n : f[i] = h[i]
    PROVE  Listed(f, n) = Listed(h, n)
BY DEF Listed

LEMMA ListedNone == \A f : Listed(f, 0) = <<>>
BY DEF Listed

LEMMA ListedJoin ==
    ASSUME NEW f, NEW n \in Nat, NEW S, NEW t \in Seq(S), \A i \in 1..Len(t) : t[i] = f[n + i]
    PROVE  Listed(f, n) \o t = Listed(f, n + Len(t))
<1>. DEFINE T == {f[i] : i \in 1..n} \cup S
            a == Listed(f, n)
<1>1. PICK k \in Nat : k = Len(t)
  OBVIOUS
<1>2. a \in Seq(T) /\ Len(a) = n /\ \A i \in 1..n : a[i] = f[i]
  BY DEF Listed
<1>3. t \in Seq(T)
  OBVIOUS
<1>. HIDE DEF T, a
<1>4. a \o t \in Seq(T) /\ Len(a \o t) = n + k
  BY <1>1, <1>2, <1>3
<1>5. \A i \in 1..(n + k) : (a \o t)[i] = IF i <= n THEN a[i] ELSE t[i - n]
  BY <1>1, <1>2, <1>3
<1>6. \A i \in 1..(n + k) : (a \o t)[i] = f[i]
  <2>. SUFFICES ASSUME NEW i \in 1..(n + k) PROVE (a \o t)[i] = f[i]
    OBVIOUS
  <2>1. CASE i <= n
    BY <1>2, <1>5, <2>1
  <2>2. CASE ~ (i <= n)
    <3>1. PICK j \in 1..k : j = i - n
      BY <2>2
    <3>2. t[j] = f[n + j] /\ n + j = i
      BY <1>1, <3>1
    <3>. QED
      BY <1>5, <2>2, <3>1, <3>2
  <2>. QED
    BY <2>1, <2>2
<1>7. a \o t = [i \in 1..(n + k) |-> (a \o t)[i]]
  <2>1. PICK b \in Seq(T) : b = a \o t
    BY <1>4
  <2>2. PICK l \in Nat : l = n + k
    BY <1>1
  <2>3. b \in Seq(T) /\ Len(b) = l
    BY <1>4, <2>1, <2>2
  <2>4. b = [i \in 1..l |-> b[i]]
    BY ONLY <2>2, <2>3
  <2>. QED
    BY <2>1, <2>2, <2>4
<1>8. [i \in 1..(n + k) |-> (a \o t)[i]] = [i \in 1..(n + k) |-> f[i]]
  BY <1>6
<1>. QED
  BY <1>1, <1>7, <1>8 DEF a, Listed

LEMMA ListedAppend ==
    ASSUME NEW f, NEW n \in Nat
    PROVE  Append(Listed(f, n), f[n + 1]) = Listed(f, n + 1)
<1>. DEFINE T == {f[i] : i \in 1..(n + 1)}
            a == Listed(f, n)
            b == Append(a, f[n + 1])
<1>1. a \in Seq(T) /\ Len(a) = n /\ \A i \in 1..n : a[i] = f[i]
  BY DEF Listed
<1>2. f[n + 1] \in T
  OBVIOUS
<1>. HIDE DEF T, a
<1>3. b \in Seq(T) /\ Len(b) = n + 1 /\ b[n + 1] = f[n + 1] /\ \A i \in 1..n : b[i] = a[i]
  BY <1>1, <1>2
<1>. HIDE DEF b
<1>4. b = [i \in 1..(n + 1) |-> b[i]]
  BY <1>3
<1>5. \A i \in 1..(n + 1) : b[i] = f[i]
  BY <1>1, <1>3
<1>. QED
  BY <1>4, <1>5 DEF b, a, Listed

\* The same with one to four entries behind.
LEMMA ListedEnds ==
    ASSUME NEW f, NEW n \in Nat
    PROVE  /\ Listed(f, n) \o <<f[n + 1]>> = Listed(f, n + 1)
           /\ Listed(f, n) \o <<f[n + 1], f[n + 2]>> = Listed(f, n + 2)
           /\ Listed(f, n) \o <<f[n + 1], f[n + 2], f[n + 3]>> = Listed(f, n + 3)
           /\ Listed(f, n) \o <<f[n + 1], f[n + 2], f[n + 3], f[n + 4]>> = Listed(f, n + 4)
<1>. DEFINE S == {f[i] : i \in Nat}
<1>1. Listed(f, n) \o <<f[n + 1]>> = Listed(f, n + 1)
  <2>. DEFINE t == <<f[n + 1]>>
  <2>1. t \in Seq(S) /\ Len(t) = 1 /\ \A i \in 1..Len(t) : t[i] = f[n + i]
    OBVIOUS
  <2>. HIDE DEF t, S
  <2>2. Listed(f, n) \o t = Listed(f, n + Len(t))
    BY <2>1, ListedJoin, Zenon
  <2>. QED
    BY <2>1, <2>2 DEF t
<1>2. Listed(f, n) \o <<f[n + 1], f[n + 2]>> = Listed(f, n + 2)
  <2>. DEFINE t == <<f[n + 1], f[n + 2]>>
  <2>1. t \in Seq(S) /\ Len(t) = 2 /\ \A i \in 1..Len(t) : t[i] = f[n + i]
    OBVIOUS
  <2>. HIDE DEF t, S
  <2>2. Listed(f, n) \o t = Listed(f, n + Len(t))
    BY <2>1, ListedJoin, Zenon
  <2>. QED
    BY <2>1, <2>2 DEF t
<1>3. Listed(f, n) \o <<f[n + 1], f[n + 2], f[n + 3]>> = Listed(f, n + 3)
  <2>. DEFINE t == <<f[n + 1], f[n + 2], f[n + 3]>>
  <2>1. t \in Seq(S) /\ Len(t) = 3 /\ \A i \in 1..Len(t) : t[i] = f[n + i]
    OBVIOUS
  <2>. HIDE DEF t, S
  <2>2. Listed(f, n) \o t = Listed(f, n + Len(t))
    BY <2>1, ListedJoin, Zenon
  <2>. QED
    BY <2>1, <2>2 DEF t
<1>4. Listed(f, n) \o <<f[n + 1], f[n + 2], f[n + 3], f[n + 4]>> = Listed(f, n + 4)
  <2>. DEFINE t == <<f[n + 1], f[n + 2], f[n + 3], f[n + 4]>>
  <2>1. t \in Seq(S) /\ Len(t) = 4 /\ \A i \in 1..Len(t) : t[i] = f[n + i]
    OBVIOUS
  <2>. HIDE DEF t, S
  <2>2. Listed(f, n) \o t = Listed(f, n + Len(t))
    BY <2>1, ListedJoin, Zenon
  <2>. QED
    BY <2>1, <2>2 DEF t
<1>. QED
  BY <1>1, <1>2, <1>3, <1>4

(***************************************************************************)
(* The digest: what the counters and tweaks are when n blocks have been    *)
(* compressed, between and in calls.                                       *)
(***************************************************************************)
Blakes == {"blake64", "blake32"}

\* The tweak of a block that the message fills.
RunTweak ==
    [i \in Nat |-> CASE hash \in {"echo", "blake64", "blake32"} -> 8 * Block * i
                     [] hash = "shabal" -> i
                     [] hash = "fugue" -> (i - 1) % 3
                     [] hash = "skein" -> <<64 * i, 96 + (IF i = 1 THEN 128 ELSE 0)>>
                     [] OTHER -> 0]

Compressed(n) ==
    /\ absorbed \in Text /\ Len(absorbed) = Block * n
    /\ tweaks = Listed(RunTweak, n)
    /\ shift = IF hash = "fugue" THEN n % 3 ELSE 0

\* skein keeps its first block until more follows, so that an empty buffer
\* means an empty message.
Counts(n) ==
    /\ hash = "sha256" => count = Block * n + ptr
    /\ hash = "fugue" => count = 8 * fed
    /\ hash \notin {"sha256", "fugue"} => count = Core.start + Core.tick * n
    /\ hash = "skein" => /\ ptr = 0 => n = 0
                         /\ stage = "update" => rest # <<>>

Running ==
    stage \in Calls /\ hash # "gost" => \E n \in Nat : Compressed(n) /\ Counts(n)

\* The tweaks of echo and BLAKE for the message as it is closed.
BitTweak == [i \in Nat |-> BitsIn(fed, i, Block)]

\* A padding that fills the buffer to its end, perhaps once more.
EndingPlain(n) ==
    /\ hash \in {"groestl", "jh", "keccak"}
    /\ Compressed(n) /\ pads = <<>>
    /\ (absorbed \o Buffered) \o rest = Padded(Prefix(fed))
    /\ \E j \in Nat : ptr + Len(rest) = Block * (j + 1)

\* The word behind the padding of fugue stays in the context.
Junks == [i \in 1..4 |-> Junk]

EndingFugue(n) ==
    /\ hash = "fugue"
    /\ Compressed(n) /\ pads = <<>> /\ ptr = 4
    /\ (absorbed \o Buffered) \o rest = Padded(Prefix(fed)) \o Junks
    /\ \E j \in Nat : Len(rest) = 4 * (j + 1)

\* The one or two calls of the core function in a close of BLAKE.
LastPad == pads = <<>> /\ (absorbed \o Buffered) \o rest = Padded(Prefix(fed))

PadAfter ==
    \E d \in Text :
        /\ pads = <<[data |-> d, count |-> -Core.tick]>> /\ Len(d) = Block
        /\ ((absorbed \o Buffered) \o rest) \o d = Padded(Prefix(fed))

EndingBlake(n) ==
    /\ hash \in Blakes
    /\ absorbed \in Text /\ Len(absorbed) = Block * n
    /\ tweaks = Listed(BitTweak, n) /\ shift = 0
    /\ \/ /\ LastPad \/ (PadAfter /\ BitTweak[n + 2] = 0)
          /\ ptr + Len(rest) = Block
          /\ count + Core.tick = BitTweak[n + 1]
       \/ PadAfter /\ rest = <<>> /\ ptr = 0 /\ BitTweak[n + 1] = 0

Ending ==
    stage = "closing" => \E n \in Nat : EndingPlain(n) \/ EndingFugue(n) \/ EndingBlake(n)

\* What a close has compressed.
Finished ==
    stage = "padded" =>
        /\ absorbed = Padded(Prefix(fed)) /\ tweaks = Tweaked(Prefix(fed))
        /\ shift = IF hash = "fugue" THEN (Len(Padded(Prefix(fed))) \div 4) % 3 ELSE 0

\* A closed context is as the init function leaves it.
Closed ==
    stage = "closed" =>
        digest = DigestOf(Prefix(fed)) /\ count = Core.start /\ shift = 0 /\ tweaks = <<>>

\* gost hashes all of its data in one call.
Gosted ==
    hash = "gost" =>
        /\ stage \in {"idle", "padded", "closed"}
        /\ shift = 0
        /\ stage = "idle" =>
             \/ fed = 0 /\ absorbed = <<>> /\ tweaks = <<>>
             \/ absorbed = Padded(Prefix(fed)) /\ tweaks = Tweaked(Prefix(fed))

\* Blocks of padding wait only in a close.
NoPads == stage # "closing" => pads = <<>>

DigestInv == Running /\ Ending /\ Finished /\ Closed /\ Gosted /\ NoPads

LEMMA CounterIs ==
    ASSUME hash \in Hashes
    PROVE  /\ hash \in {"groestl", "jh", "skein"} => Core.start = 0 /\ Core.tick = 1
           /\ hash = "shabal" => Core.start = 1 /\ Core.tick = 1
           /\ hash \in {"echo", "blake64"} => Core.start = 0 /\ Core.tick = 1024
           /\ hash = "blake32" => Core.start = 0 /\ Core.tick = 512
           /\ hash \in {"cubehash", "keccak", "luffa"} => Core.start = 0 /\ Core.tick = 0
<1>1. hash = "groestl" => Core.start = 0 /\ Core.tick = 1
  BY DEF Core, CoreOf, GroestlCore
<1>2. hash = "jh" => Core.start = 0 /\ Core.tick = 1
  BY DEF Core, CoreOf, JhCore
<1>3. hash = "skein" => Core.start = 0 /\ Core.tick = 1
  BY DEF Core, CoreOf, SkeinCore
<1>4. hash = "shabal" => Core.start = 1 /\ Core.tick = 1
  BY DEF Core, CoreOf, ShabalCore
<1>5. hash = "echo" => Core.start = 0 /\ Core.tick = 1024
  BY DEF Core, CoreOf, EchoCore
<1>6. hash = "blake64" => Core.start = 0 /\ Core.tick = 1024
  BY DEF Core, CoreOf, Blake64Core
<1>7. hash = "blake32" => Core.start = 0 /\ Core.tick = 512
  BY DEF Core, CoreOf, Blake32Core
<1>8. hash = "cubehash" => Core.start = 0 /\ Core.tick = 0
  BY DEF Core, CoreOf, CubehashCore
<1>9. hash = "keccak" => Core.start = 0 /\ Core.tick = 0
  BY DEF Core, CoreOf, KeccakCore
<1>10. hash = "luffa" => Core.start = 0 /\ Core.tick = 0
  BY DEF Core, CoreOf, LuffaCore
<1>. QED
  BY <1>1, <1>2, <1>3, <1>4, <1>5, <1>6, <1>7, <1>8, <1>9, <1>10

\* What a compression sees of the counter.
LEMMA TweakNowIs ==
    ASSUME hash \in Hashes
    PROVE  /\ hash \in {"groestl", "jh", "cubehash", "keccak", "luffa", "sha256"} => TweakNow = 0
           /\ hash \in {"echo", "blake64", "blake32"} => TweakNow = Ticked
           /\ hash = "shabal" => TweakNow = count
<1>1. hash = "groestl" => TweakNow = 0
  BY DEF TweakNow, Core, CoreOf, GroestlCore
<1>2. hash = "jh" => TweakNow = 0
  BY DEF TweakNow, Core, CoreOf, JhCore
<1>3. hash = "cubehash" => TweakNow = 0
  BY DEF TweakNow, Core, CoreOf, CubehashCore
<1>4. hash = "keccak" => TweakNow = 0
  BY DEF TweakNow, Core, CoreOf, KeccakCore
<1>5. hash = "luffa" => TweakNow = 0
  BY DEF TweakNow, Core, CoreOf, LuffaCore
<1>6. hash = "sha256" => TweakNow = 0
  BY DEF TweakNow, Core, CoreOf, Sha256Core
<1>7. hash = "echo" => TweakNow = Ticked
  BY DEF TweakNow, Core, CoreOf, EchoCore
<1>8. hash = "blake64" => TweakNow = Ticked
  BY DEF TweakNow, Core, CoreOf, Blake64Core
<1>9. hash = "blake32" => TweakNow = Ticked
  BY DEF TweakNow, Core, CoreOf, Blake32Core
<1>10. hash = "shabal" => TweakNow = count
  BY DEF TweakNow, Core, CoreOf, ShabalCore
<1>. QED
  BY <1>1, <1>2, <1>3, <1>4, <1>5, <1>6, <1>7, <1>8, <1>9, <1>10

LEMMA RunTweakIs ==
    ASSUME hash \in Hashes, NEW i \in Nat
    PROVE  /\ hash \in {"groestl", "jh", "cubehash", "keccak", "luffa", "sha256", "gost"} =>
                  RunTweak[i] = 0
           /\ hash \in {"echo", "blake64", "blake32"} => RunTweak[i] = 8 * Block * i
           /\ hash = "shabal" => RunTweak[i] = i
           /\ hash = "fugue" => RunTweak[i] = (i - 1) % 3
           /\ hash = "skein" => RunTweak[i] = <<64 * i, 96 + (IF i = 1 THEN 128 ELSE 0)>>
<1>1. RunTweak[i] = CASE hash \in {"echo", "blake64", "blake32"} -> 8 * Block * i
                      [] hash = "shabal" -> i
                      [] hash = "fugue" -> (i - 1) % 3
                      [] hash = "skein" -> <<64 * i, 96 + (IF i = 1 THEN 128 ELSE 0)>>
                      [] OTHER -> 0
  BY DEF RunTweak
<1>. QED
  BY <1>1

LEMMA SameTweaks ==
    ASSUME hash' = hash
    PROVE  RunTweak' = RunTweak
BY SameHash DEF RunTweak

\* The tweak of the next block.
LEMMA NextTweak ==
    ASSUME StreamInv, NEW n \in Nat, Counts(n), hash \notin {"skein", "fugue", "gost"}
    PROVE  TweakNow = RunTweak[n + 1]
<1>1. hash \in Hashes
  BY Unpacked
<1>2. hash \in {"groestl", "jh", "cubehash", "keccak", "luffa", "sha256", "echo", "blake64",
                "blake32", "shabal"}
  BY <1>1, StreamAssumption
<1>3. CASE hash \in {"groestl", "jh", "cubehash", "keccak", "luffa", "sha256"}
  BY <1>1, <1>3, TweakNowIs, RunTweakIs
<1>4. CASE hash \in {"echo", "blake64"}
  <2>1. count = 1024 * n /\ Ticked = 1024 * (n + 1) /\ Block = 128
    BY <1>1, <1>4, CounterIs, CoreIs DEF Counts, Ticked
  <2>2. TweakNow = Ticked /\ RunTweak[n + 1] = 8 * Block * (n + 1)
    BY <1>1, <1>4, TweakNowIs, RunTweakIs
  <2>. QED
    BY <2>1, <2>2
<1>5. CASE hash = "blake32"
  <2>1. count = 512 * n /\ Ticked = 512 * (n + 1) /\ Block = 64
    BY <1>1, <1>5, CounterIs, CoreIs DEF Counts, Ticked
  <2>2. TweakNow = Ticked /\ RunTweak[n + 1] = 8 * Block * (n + 1)
    BY <1>1, <1>5, TweakNowIs, RunTweakIs
  <2>. QED
    BY <2>1, <2>2
<1>6. CASE hash = "shabal"
  <2>1. count = n + 1
    BY <1>1, <1>6, CounterIs DEF Counts
  <2>. QED
    BY <1>1, <1>6, <2>1, TweakNowIs, RunTweakIs
<1>. QED
  BY <1>2, <1>3, <1>4, <1>5, <1>6

\* One block more.
LEMMA OneMore ==
    ASSUME StreamInv, hash' = hash, NEW n \in Nat, Compressed(n),
           absorbed' \in Text, Len(absorbed') = Len(absorbed) + Block,
           tweaks' = Append(tweaks, RunTweak[n + 1]),
           shift' = (IF hash = "fugue" THEN (shift + 1) % 3 ELSE shift)
    PROVE  Compressed(n + 1)'
<1>1. RunTweak' = RunTweak /\ Block' = Block
  BY SameTweaks, SameHash
<1>2. tweaks' = Listed(RunTweak, n + 1)
  BY ListedAppend DEF Compressed
<1>3. Len(absorbed') = Block * (n + 1)
  BY Unpacked DEF Compressed
<1>4. shift' = IF hash = "fugue" THEN (n + 1) % 3 ELSE 0
  BY DEF Compressed
<1>5. Listed(RunTweak, n + 1)' = Listed(RunTweak, n + 1)
  BY <1>1 DEF Listed
<1>. QED
  BY <1>1, <1>2, <1>3, <1>4, <1>5 DEF Compressed

LEMMA NoMore ==
    ASSUME hash' = hash, NEW n \in Nat, Compressed(n), absorbed' = absorbed, tweaks' = tweaks,
           shift' = shift
    PROVE  Compressed(n)'
<1>1. RunTweak' = RunTweak /\ Block' = Block
  BY SameTweaks, SameHash
<1>2. Listed(RunTweak, n)' = Listed(RunTweak, n)
  BY <1>1 DEF Listed
<1>. QED
  BY <1>1, <1>2 DEF Compressed

(***************************************************************************)
(* Between two calls and in them.                                          *)
(***************************************************************************)
LEMMA BufferRuns ==
    ASSUME StreamInv, Running, stage = "idle", NEW d, NEW n, Given(d, n),
           hash \notin {"fugue", "sha256"}, Buffer(d)
    PROVE  Running'
<1>1. /\ ptr' = ptr + n /\ count' = count /\ shift' = shift /\ absorbed' = absorbed
      /\ tweaks' = tweaks /\ stage' = "idle" /\ hash' = hash
  BY GivenFacts DEF Buffer, progress
<1>. SUFFICES ASSUME hash # "gost" PROVE \E k \in Nat : (Compressed(k) /\ Counts(k))'
  BY <1>1 DEF Running
<1>2. PICK k \in Nat : Compressed(k) /\ Counts(k)
  BY DEF Running, Calls
<1>3. Compressed(k)'
  BY <1>1, <1>2, NoMore
<1>4. Counts(k)'
  <2>1. ptr \in Nat /\ n \in Nat
    BY Unpacked, GivenFacts
  <2>. QED
    BY <1>1, <1>2, <2>1, SameHash DEF Counts
<1>. QED
  BY <1>3, <1>4

LEMMA EnterRuns ==
    ASSUME StreamInv, Running, stage = "idle", NEW d, NEW n, Given(d, n), NEW where,
           hash # "fugue", Enter(d, where), hash = "skein" => d # <<>>
    PROVE  Running'
<1>1. /\ ptr' = ptr /\ count' = count /\ shift' = shift /\ absorbed' = absorbed
      /\ tweaks' = tweaks /\ rest' = d /\ hash' = hash
  BY GivenFacts DEF Enter, state
<1>. SUFFICES ASSUME hash # "gost" PROVE \E k \in Nat : (Compressed(k) /\ Counts(k))'
  BY <1>1 DEF Running
<1>2. PICK k \in Nat : Compressed(k) /\ Counts(k)
  BY DEF Running, Calls
<1>3. Compressed(k)'
  BY <1>1, <1>2, NoMore
<1>4. Counts(k)'
  BY <1>1, <1>2, SameHash DEF Counts
<1>. QED
  BY <1>3, <1>4

LEMMA FugueRuns ==
    ASSUME StreamInv, Running, stage = "idle", NEW d, NEW n, Given(d, n), hash = "fugue",
           UpdateFugue(d, "update")
    PROVE  Running'
<1>1. hash' = hash /\ d \in Text /\ fed' = fed + Len(d) /\ Len(d) \in Nat
  BY GivenFacts
<1>2. /\ count' = count + 8 * Len(d) /\ shift' = shift /\ absorbed' = absorbed
      /\ tweaks' = tweaks
  BY DEF UpdateFugue
<1>3. PICK k \in Nat : Compressed(k) /\ Counts(k)
  BY DEF Running, Calls
<1>4. Compressed(k)'
  BY <1>1, <1>2, <1>3, NoMore
<1>5. Counts(k)'
  <2>1. fed \in Nat /\ count = 8 * fed
    BY <1>3, Unpacked DEF Counts
  <2>. QED
    BY <1>1, <1>2, <2>1 DEF Counts
<1>. QED
  BY <1>4, <1>5 DEF Running

LEMMA UpdateRuns ==
    ASSUME StreamInv, Running, NEW m \in Cuts, Update(m)
    PROVE  Running'
<1>. DEFINE d == SubSeq(Message, fed + 1, fed + m)
<1>1. m \in Nat
  BY StreamAssumption
<1>2. stage = "idle" /\ fed + m <= Len(Message) /\ fed' = fed + m /\ hash' = hash
  BY DEF Update
<1>3. Given(d, m)
  BY <1>1, <1>2, Unpacked, GivenIs DEF Given
<1>4. \/ UpdateEager(d) \/ UpdateSkein(d) \/ UpdateSha256(d) \/ UpdateFugue(d, "update")
      \/ UpdateGost(d)
  BY DEF Update
<1>. HIDE DEF d
<1>5. d \in Text /\ Len(d) = m
  BY <1>3, GivenFacts
<1>6. CASE UpdateEager(d)
  <2>1. hash \notin {"skein", "fugue", "sha256", "gost"}
    BY <1>6 DEF UpdateEager, Eager
  <2>2. Buffer(d) \/ Enter(d, "update")
    BY <1>6 DEF UpdateEager
  <2>. QED
    BY <1>2, <1>3, <2>1, <2>2, BufferRuns, EnterRuns
<1>7. CASE UpdateSkein(d)
  <2>1. hash = "skein"
    BY <1>7 DEF UpdateSkein
  <2>2. Buffer(d) \/ (Enter(d, "update") /\ ~ (m <= Block - ptr))
    BY <1>5, <1>7 DEF UpdateSkein
  <2>3. d = <<>> => m <= Block - ptr
    BY <1>5, Unpacked, EmptyType
  <2>. QED
    BY <1>2, <1>3, <2>1, <2>2, <2>3, BufferRuns, EnterRuns
<1>8. CASE UpdateSha256(d)
  <2>1. hash = "sha256" /\ \E where : Enter(d, where)
    BY <1>8 DEF UpdateSha256
  <2>. QED
    BY <1>2, <1>3, <2>1, EnterRuns
<1>9. CASE UpdateFugue(d, "update")
  <2>1. hash = "fugue"
    BY <1>9 DEF UpdateFugue
  <2>. QED
    BY <1>2, <1>3, <1>9, <2>1, FugueRuns
<1>10. CASE UpdateGost(d)
  BY <1>2, <1>10 DEF UpdateGost, Running
<1>. QED
  BY <1>4, <1>6, <1>7, <1>8, <1>9, <1>10

LEMMA ChunkRuns ==
    ASSUME StreamInv, Running, Chunk
    PROVE  Running'
<1>1. /\ hash' = hash /\ fed' = fed /\ shift' = shift
      /\ Leave(rest') /\ stage \in {"update", "closing"}
      /\ hash \notin {"skein", "fugue", "gost"}
  BY DEF Chunk, Eager
<1>. SUFFICES ASSUME stage' \in Calls PROVE \E k \in Nat : (Compressed(k) /\ Counts(k))'
  BY DEF Running
<1>2. stage = "update"
  BY <1>1, LeaveIs
<1>3. PICK k \in Nat : Compressed(k) /\ Counts(k)
  BY <1>1, <1>2 DEF Running, Calls
<1>4. PICK n \in Nat :
             /\ ptr + n <= Block
             /\ ptr' = (IF ptr + n = Block THEN 0 ELSE ptr + n)
             /\ tweaks' = (IF ptr + n = Block THEN Append(tweaks, TweakNow) ELSE tweaks)
             /\ count' = (IF hash = "sha256" THEN count + n
                          ELSE IF ptr + n = Block THEN Ticked ELSE count)
             /\ absorbed \in Text =>
                  /\ absorbed' \in Text
                  /\ Len(absorbed') = Len(absorbed) + (IF ptr + n = Block THEN Block ELSE 0)
  BY ChunkMoves
<1>5. absorbed \in Text /\ Len(absorbed) = Block * k
  BY <1>3 DEF Compressed
<1>6. Core' = Core /\ Block' = Block /\ Block \in Nat /\ ptr \in Nat /\ Core.tick \in Nat
      /\ Core.start \in Nat
  BY <1>1, SameHash, CoreIs, Unpacked
<1>7. CASE ptr + n = Block
  <2>1. Compressed(k + 1)'
    <3>1. tweaks' = Append(tweaks, RunTweak[k + 1])
      BY <1>1, <1>3, <1>4, <1>7, NextTweak
    <3>. QED
      BY <1>1, <1>3, <1>4, <1>5, <1>7, <3>1, OneMore
  <2>2. Counts(k + 1)'
    <3>1. CASE hash = "sha256"
      <4>1. count' = Block * (k + 1) + 0
        BY <1>3, <1>4, <1>6, <1>7, <3>1 DEF Counts
      <4>. QED
        BY <1>1, <1>4, <1>6, <1>7, <3>1, <4>1 DEF Counts
    <3>2. CASE hash # "sha256"
      <4>1. count' = Core.start + Core.tick * (k + 1)
        <5>1. PICK t \in Nat, s \in Nat : t = Core.tick /\ s = Core.start
          BY <1>6
        <5>2. count' = count + t /\ count = s + t * k
          BY <1>1, <1>3, <1>4, <1>7, <3>2, <5>1 DEF Counts, Ticked
        <5>3. count' = s + t * (k + 1)
          BY <5>2
        <5>. QED
          BY <5>1, <5>3
      <4>. QED
        BY <1>1, <1>6, <3>2, <4>1 DEF Counts
    <3>. QED
      BY <3>1, <3>2
  <2>. QED
    BY <2>1, <2>2
<1>8. CASE ptr + n # Block
  <2>1. Compressed(k)'
    <3>1. absorbed' = absorbed /\ tweaks' = tweaks
      BY <1>4, <1>8 DEF Chunk
    <3>. QED
      BY <1>1, <1>3, <3>1, NoMore
  <2>2. Counts(k)'
    BY <1>1, <1>3, <1>4, <1>6, <1>8 DEF Counts
  <2>. QED
    BY <2>1, <2>2
<1>. QED
  BY <1>7, <1>8

LEMMA SkeinChunkRuns ==
    ASSUME StreamInv, Running, SkeinChunk
    PROVE  Running'
<1>. DEFINE full == ptr = Block
            at == IF full THEN 0 ELSE ptr
            n == Least(Block - at, Len(rest))
<1>1. /\ hash' = hash /\ fed' = fed /\ shift' = shift
      /\ rest' = SubSeq(rest, n + 1, Len(rest))
      /\ ptr' = at + n
      /\ absorbed' = IF full THEN absorbed \o buf ELSE absorbed
      /\ tweaks' = IF full THEN Append(tweaks, <<Block * Ticked, MessageType + FirstFlag(count)>>)
                   ELSE tweaks
      /\ count' = IF full THEN Ticked ELSE count
      /\ Leave(rest')
      /\ stage = "update"
      /\ hash = "skein"
  BY DEF SkeinChunk
<1>2. PICK k \in Nat : Compressed(k) /\ Counts(k)
  BY <1>1 DEF Running, Calls
<1>3. Block = 64 /\ Block' = 64 /\ Core' = Core /\ Core.start = 0 /\ Core.tick = 1
  BY <1>1, CoreIs, CounterIs, SameHash, Unpacked
<1>4. count = k /\ Ticked = k + 1 /\ rest # <<>> /\ (ptr = 0 => k = 0)
  BY <1>1, <1>2, <1>3 DEF Counts, Ticked
<1>5. at \in Nat /\ at <= Block
  BY Unpacked
<1>6. n \in Nat /\ n <= Len(rest) /\ at + n <= Block /\ (n > 0 \/ at = Block)
  <2>1. n \in Nat /\ n <= Len(rest) /\ at + n <= Block
    BY <1>5, LeastTaken
  <2>2. Len(rest) \in Nat /\ Len(rest) # 0
    BY <1>4, Unpacked, EmptyIs
  <2>. QED
    BY <1>3, <1>5, <2>1, <2>2 DEF Least
<1>7. n > 0 /\ ptr' # 0 /\ n \in Nat
  <2>1. at # Block
    BY <1>3
  <2>. QED
    BY <1>1, <1>5, <1>6, <2>1
<1>. HIDE DEF n
<1>8. stage' = "update" => rest' # <<>>
  BY <1>1 DEF Leave
<1>9. CASE full
  <2>1. Compressed(k + 1)'
    <3>1. k + 1 \in Nat /\ hash \in Hashes
      BY Unpacked
    <3>2. RunTweak[k + 1] = <<64 * (k + 1), 96 + (IF k + 1 = 1 THEN 128 ELSE 0)>>
      BY <1>1, <3>1, RunTweakIs, Zenon
    <3>3. MessageType + FirstFlag(count) = 96 + (IF k + 1 = 1 THEN 128 ELSE 0)
      BY <1>4 DEF MessageType, FirstFlag
    <3>4. tweaks' = Append(tweaks, RunTweak[k + 1])
      BY <1>1, <1>3, <1>4, <1>9, <3>2, <3>3
    <3>5. absorbed' \in Text /\ Len(absorbed') = Len(absorbed) + Block
      BY <1>1, <1>2, <1>9, Unpacked, ConcatType DEF Compressed
    <3>6. shift' = IF hash = "fugue" THEN (shift + 1) % 3 ELSE shift
      BY <1>1
    <3>. QED
      BY <1>1, <1>2, <3>4, <3>5, <3>6, OneMore
  <2>2. Counts(k + 1)'
    BY <1>1, <1>3, <1>4, <1>7, <1>8, <1>9 DEF Counts
  <2>. QED
    BY <2>1, <2>2 DEF Running
<1>10. CASE ~ full
  <2>1. Compressed(k)'
    BY <1>1, <1>2, <1>10, NoMore
  <2>2. Counts(k)'
    BY <1>1, <1>3, <1>4, <1>7, <1>8, <1>10 DEF Counts
  <2>. QED
    BY <2>1, <2>2 DEF Running
<1>. QED
  BY <1>9, <1>10

\* The tweak of fugue is the turn of the state.
LEMMA FugueWordMixes ==
    ASSUME StreamInv, FugueWord, NEW k \in Nat, Compressed(k)
    PROVE  Compressed(k + 1)'
<1>1. /\ hash' = hash /\ hash = "fugue" /\ tweaks' = Append(tweaks, shift)
      /\ shift' = (shift + 1) % 3
  BY DEF FugueWord
<1>2. absorbed \in Text /\ shift = k % 3
  BY <1>1 DEF Compressed
<1>3. absorbed' \in Text /\ Len(absorbed') = Len(absorbed) + Block
  BY <1>1, <1>2, FugueWordMoves, CoreIs, Unpacked
<1>4. RunTweak[k + 1] = ((k + 1) - 1) % 3
  <2>1. k + 1 \in Nat /\ hash \in Hashes
    BY Unpacked
  <2>. QED
    BY <1>1, <2>1, RunTweakIs, Zenon
<1>5. ((k + 1) - 1) % 3 = k % 3
  OBVIOUS
<1>6. tweaks' = Append(tweaks, RunTweak[k + 1])
  BY <1>1, <1>2, <1>4, <1>5
<1>. QED
  BY <1>1, <1>3, <1>6, OneMore

LEMMA FugueWordRuns ==
    ASSUME StreamInv, Running, FugueWord
    PROVE  Running'
<1>1. /\ hash' = hash /\ fed' = fed /\ count' = count
      /\ Leave(rest') /\ stage \in {"update", "closing"} /\ hash = "fugue"
  BY DEF FugueWord
<1>. SUFFICES ASSUME stage' \in Calls PROVE \E k \in Nat : (Compressed(k) /\ Counts(k))'
  BY DEF Running
<1>2. stage = "update"
  BY <1>1, LeaveIs
<1>3. PICK k \in Nat : Compressed(k) /\ Counts(k)
  BY <1>1, <1>2 DEF Running, Calls
<1>4. Compressed(k + 1)'
  BY <1>3, FugueWordMixes
<1>5. Counts(k + 1)'
  BY <1>1, <1>3 DEF Counts
<1>. QED
  BY <1>4, <1>5

LEMMA Sha256FillRuns ==
    ASSUME StreamInv, Running, Sha256Fill
    PROVE  Running'
<1>. DEFINE n == Block - ptr
            b == Copy(buf, ptr, rest, n)
<1>1. /\ hash' = hash /\ fed' = fed /\ buf' = b
      /\ ptr' = 0 /\ absorbed' = absorbed \o buf' /\ count' = count + n
      /\ tweaks' = Append(tweaks, 0) /\ shift' = shift
      /\ stage = "fill" /\ stage' = "direct"
  BY DEF Sha256Fill
<1>2. hash = "sha256" /\ Len(rest) >= Block /\ Block' = Block
  BY <1>1, SameHash DEF StreamInv, Places
<1>3. n \in Nat /\ n <= Len(rest) /\ ptr + n <= Block /\ Block \in Nat /\ ptr \in Nat
  BY <1>2, Unpacked
<1>4. b \in Text /\ Len(b) = Block
  BY <1>3, RestTaken
<1>5. PICK k \in Nat : Compressed(k) /\ Counts(k)
  BY <1>1, <1>2 DEF Running, Calls
<1>6. Compressed(k + 1)'
  <2>1. tweaks' = Append(tweaks, RunTweak[k + 1])
    BY <1>1, <1>2, RunTweakIs, Unpacked
  <2>2. absorbed' \in Text /\ Len(absorbed') = Len(absorbed) + Block
    BY <1>1, <1>4, <1>5, ConcatType DEF Compressed
  <2>. QED
    BY <1>1, <1>2, <1>5, <2>1, <2>2, OneMore
<1>7. Counts(k + 1)'
  <2>1. count = Block * k + ptr
    BY <1>2, <1>5 DEF Counts
  <2>2. count' = Block * (k + 1) + 0
    BY <1>1, <1>3, <2>1
  <2>. QED
    BY <1>1, <1>2, <2>2 DEF Counts
<1>. QED
  BY <1>6, <1>7 DEF Running

LEMMA Sha256DirectRuns ==
    ASSUME StreamInv, Running, Sha256Direct
    PROVE  Running'
<1>1. /\ hash' = hash /\ fed' = fed /\ ptr' = ptr
      /\ absorbed' = absorbed \o SubSeq(rest, 1, Block) /\ count' = count + Block
      /\ tweaks' = Append(tweaks, 0) /\ shift' = shift
      /\ stage = "direct" /\ stage' = "direct" /\ Len(rest) >= Block
  BY DEF Sha256Direct
<1>2. hash = "sha256" /\ ptr = 0 /\ Block' = Block
  BY <1>1, SameHash DEF StreamInv, Places
<1>3. Block \in Nat /\ Block <= Len(rest) /\ rest \in Text
  BY <1>1, Unpacked
<1>4. SubSeq(rest, 1, Block) \in Text /\ Len(SubSeq(rest, 1, Block)) = Block
  BY <1>3, TakenFrom
<1>5. PICK k \in Nat : Compressed(k) /\ Counts(k)
  BY <1>1, <1>2 DEF Running, Calls
<1>6. Compressed(k + 1)'
  <2>1. tweaks' = Append(tweaks, RunTweak[k + 1])
    BY <1>1, <1>2, RunTweakIs, Unpacked, SMTT(30)
  <2>2. absorbed' \in Text /\ Len(absorbed') = Len(absorbed) + Block
    BY <1>1, <1>4, <1>5, ConcatType DEF Compressed
  <2>. QED
    BY <1>1, <1>2, <1>5, <2>1, <2>2, OneMore
<1>7. Counts(k + 1)'
  <2>1. count = Block * k + ptr
    BY <1>2, <1>5 DEF Counts
  <2>2. count' = Block * (k + 1) + 0
    BY <1>1, <1>2, <1>3, <2>1
  <2>. QED
    BY <1>1, <1>2, <2>2 DEF Counts
<1>. QED
  BY <1>6, <1>7 DEF Running

LEMMA Sha256TailRuns ==
    ASSUME StreamInv, Running, Sha256Tail
    PROVE  Running'
<1>1. /\ hash' = hash /\ fed' = fed /\ ptr' = Len(rest)
      /\ absorbed' = absorbed /\ count' = count + Len(rest)
      /\ tweaks' = tweaks /\ shift' = shift
      /\ stage = "direct" /\ stage' = "idle"
  BY DEF Sha256Tail
<1>2. hash = "sha256" /\ ptr = 0 /\ Block' = Block /\ Block \in Nat /\ Len(rest) \in Nat
  BY <1>1, SameHash, Unpacked DEF StreamInv, Places
<1>3. PICK k \in Nat : Compressed(k) /\ Counts(k)
  BY <1>1, <1>2 DEF Running, Calls
<1>4. Compressed(k)'
  BY <1>1, <1>3, NoMore
<1>5. Counts(k)'
  BY <1>1, <1>2, <1>3 DEF Counts
<1>. QED
  BY <1>4, <1>5 DEF Running

(***************************************************************************)
(* The loops of the core functions in a close.                             *)
(***************************************************************************)
LEMMA WholeBlocks ==
    ASSUME hash \in Hashes, NEW n \in Nat
    PROVE  (Block * n) \div Block = n
<1>1. hash \in {"groestl", "skein", "jh", "cubehash", "keccak", "echo", "sha256", "fugue",
                "blake32", "blake64", "luffa", "shabal", "gost"}
  BY StreamAssumption
<1>2. Block \in {4, 32, 64, 72, 128}
  BY <1>1, CoreIs
<1>. QED
  BY <1>2

LEMMA PlainTweaks ==
    ASSUME hash \in Hashes,
           hash \in {"groestl", "jh", "cubehash", "keccak", "luffa", "sha256"},
           NEW m, NEW n \in Nat, Len(Padded(m)) = Block * n
    PROVE  Tweaked(m) = Listed(RunTweak, n)
<1>1. Len(Padded(m)) \div Block = n
  BY WholeBlocks
<1>2. Tweaked(m) = [i \in 1..n |-> 0]
  BY <1>1 DEF Tweaked
<1>3. \A i \in 1..n : RunTweak[i] = 0
  BY RunTweakIs
<1>. QED
  BY <1>2, <1>3 DEF Listed

LEMMA BitTweaks ==
    ASSUME hash \in Hashes, hash \in {"echo", "blake64", "blake32"},
           NEW n \in Nat, Len(Padded(Prefix(fed))) = Block * n, Len(Prefix(fed)) = fed
    PROVE  Tweaked(Prefix(fed)) = Listed(BitTweak, n)
<1>. DEFINE m == Prefix(fed)
<1>1. Len(Padded(m)) \div Block = n /\ Len(m) = fed
  BY WholeBlocks
<1>. HIDE DEF m
<1>2. Tweaked(m) = [i \in 1..n |-> BitsIn(fed, i, Block)]
  BY <1>1 DEF Tweaked
<1>3. \A i \in 1..n : BitTweak[i] = BitsIn(fed, i, Block)
  BY DEF BitTweak
<1>. QED
  BY <1>2, <1>3 DEF Listed, m

LEMMA FugueTweaks ==
    ASSUME hash \in Hashes, hash = "fugue", NEW m, NEW n \in Nat, Len(Padded(m)) = Block * n
    PROVE  Tweaked(m) = Listed(RunTweak, n) /\ (Len(Padded(m)) \div 4) % 3 = n % 3
<1>1. Len(Padded(m)) \div Block = n /\ Block = 4
  BY WholeBlocks, CoreIs
<1>2. Tweaked(m) = [i \in 1..n |-> (i - 1) % 3]
  BY <1>1 DEF Tweaked
<1>3. \A i \in 1..n : RunTweak[i] = (i - 1) % 3
  BY RunTweakIs
<1>. QED
  BY <1>1, <1>2, <1>3 DEF Listed

\* A part in front of parts of the same length.
SameFront(a, b, c, d) == a \o b = c \o d /\ Len(b) = Len(d) => a = c

LEMMA CutOff ==
    ASSUME NEW a \in Text, NEW b \in Text, NEW c \in Text, NEW d \in Text
    PROVE  SameFront(a, b, c, d)
<1>. SUFFICES ASSUME a \o b = c \o d, Len(b) = Len(d)
              PROVE  a = c
  BY DEF SameFront
<1>1. PICK n \in Nat, l \in Nat : n = Len(a) /\ l = Len(c)
  BY DEF Text
<1>2. PICK k \in Nat : k = Len(b) /\ k = Len(d)
  BY DEF Text
<1>3. n + k = l + k
  BY <1>1, <1>2, ConcatType
<1>4. n = l
  BY <1>3
<1>5. ASSUME NEW i \in 1..n
      PROVE  a[i] = c[i]
  <2>1. i \in 1..(Len(a) + Len(b)) /\ i \in 1..(Len(c) + Len(d)) /\ i <= Len(a) /\ i <= Len(c)
    BY <1>1, <1>2, <1>4
  <2>2. (a \o b)[i] = IF i <= Len(a) THEN a[i] ELSE b[i - Len(a)]
    BY <2>1, JoinedAt, Zenon
  <2>3. (c \o d)[i] = IF i <= Len(c) THEN c[i] ELSE d[i - Len(c)]
    BY <2>1, JoinedAt, Zenon
  <2>. QED
    BY <2>1, <2>2, <2>3
<1>. QED
  BY <1>1, <1>4, <1>5, SameText

LEMMA SamePrefix ==
    ASSUME hash' = hash, fed' = fed
    PROVE  /\ Prefix(fed)' = Prefix(fed) /\ Padded(Prefix(fed))' = Padded(Prefix(fed))
           /\ Tweaked(Prefix(fed))' = Tweaked(Prefix(fed))
           /\ BitTweak' = BitTweak
<1>1. Block' = Block
  BY SameHash
<1>2. Prefix(fed)' = Prefix(fed)
  BY DEF Prefix
<1>3. Padded(Prefix(fed))' = Padded(Prefix(fed))
  BY <1>1, <1>2 DEF Padded, BlocksFromTheEnd
<1>4. Tweaked(Prefix(fed))' = Tweaked(Prefix(fed))
  BY <1>1, <1>2, <1>3 DEF Tweaked
<1>. QED
  BY <1>1, <1>2, <1>3, <1>4 DEF BitTweak

\* In a close each iteration fills the buffer: the padding ends with a block.
LEMMA ChunkFills ==
    ASSUME StreamInv, Chunk, stage = "closing", absorbed \in Text,
           NEW j \in Nat, ptr + Len(rest) = Block * (j + 1)
    PROVE  /\ ptr' = 0 /\ rest' \in Text /\ Len(rest') = Block * j
           /\ absorbed' \in Text /\ Len(absorbed') = Len(absorbed) + Block
           /\ Buffered' = <<>>
           /\ absorbed' \o rest' = (absorbed \o Buffered) \o rest
           /\ tweaks' = Append(tweaks, TweakNow)
           /\ hash # "sha256" => count' = Ticked
<1>1. PICK n \in Nat :
             /\ n <= Len(rest) /\ ptr + n <= Block /\ (n = Len(rest) \/ ptr + n = Block)
             /\ ptr' = (IF ptr + n = Block THEN 0 ELSE ptr + n) /\ ptr' < Block
             /\ rest' \in Text /\ Len(rest') = Len(rest) - n
             /\ tweaks' = (IF ptr + n = Block THEN Append(tweaks, TweakNow) ELSE tweaks)
             /\ count' = (IF hash = "sha256" THEN count + n
                          ELSE IF ptr + n = Block THEN Ticked ELSE count)
             /\ buf' \in Text /\ Len(buf') = Block
             /\ absorbed' \in Text
             /\ Len(absorbed') = Len(absorbed) + (IF ptr + n = Block THEN Block ELSE 0)
             /\ (absorbed' \o Buffered') \o rest' = (absorbed \o Buffered) \o rest
  BY ChunkMoves
<1>2. /\ ptr \in Nat /\ ptr <= Block /\ Block \in Nat /\ Block > 0 /\ Len(rest) \in Nat
      /\ hash' = hash /\ hash # "fugue"
  BY Unpacked DEF Chunk, Eager
<1>3. Block * (j + 1) = Block * j + Block /\ Block * j \in Nat
  BY <1>2
<1>4. ptr + n = Block
  BY <1>1, <1>2, <1>3
<1>5. Len(rest') = Block * j
  BY <1>1, <1>2, <1>3, <1>4
<1>6. Buffered' = <<>>
  BY <1>1, <1>2, <1>4, BufferedPrimed, FullBuffer
<1>7. absorbed' \o Buffered' = absorbed'
  BY <1>1, <1>6, ConcatEmpty
<1>. QED
  BY <1>1, <1>4, <1>5, <1>6, <1>7

LEMMA PlainChunk ==
    ASSUME StreamInv, Chunk, stage = "closing", NEW n \in Nat, EndingPlain(n)
    PROVE  Ending' /\ Finished'
<1>1. /\ hash' = hash /\ fed' = fed /\ pads' = pads /\ shift' = shift /\ Leave(rest')
      /\ hash \in Hashes
  BY Unpacked DEF Chunk
<1>2. /\ hash \in {"groestl", "jh", "keccak"} /\ Compressed(n) /\ pads = <<>>
      /\ absorbed \in Text
      /\ (absorbed \o Buffered) \o rest = Padded(Prefix(fed))
  BY DEF EndingPlain, Compressed
<1>3. PICK j \in Nat : ptr + Len(rest) = Block * (j + 1)
  BY DEF EndingPlain
<1>4. /\ ptr' = 0 /\ rest' \in Text /\ Len(rest') = Block * j
      /\ absorbed' \in Text /\ Len(absorbed') = Len(absorbed) + Block
      /\ Buffered' = <<>>
      /\ absorbed' \o rest' = (absorbed \o Buffered) \o rest
      /\ tweaks' = Append(tweaks, TweakNow)
  BY <1>2, <1>3, ChunkFills
<1>5. Compressed(n + 1)'
  <2>1. n + 1 \in Nat /\ TweakNow = 0
    BY <1>1, <1>2, TweakNowIs
  <2>2. RunTweak[n + 1] = 0
    BY <1>1, <1>2, <2>1, RunTweakIs
  <2>. QED
    BY <1>1, <1>2, <1>4, <2>1, <2>2, OneMore
<1>6. Prefix(fed)' = Prefix(fed) /\ Padded(Prefix(fed))' = Padded(Prefix(fed)) /\ Block' = Block
      /\ Tweaked(Prefix(fed))' = Tweaked(Prefix(fed))
  BY <1>1, SamePrefix, SameHash
<1>7. CASE rest' = <<>>
  <2>1. stage' = "padded"
    BY <1>1, <1>2, <1>7 DEF Leave
  <2>2. absorbed' = Padded(Prefix(fed))
    BY <1>2, <1>4, <1>7, ConcatEmpty
  <2>3. Len(Padded(Prefix(fed))) = Block * (n + 1)
    BY <1>5, <1>6, <2>2 DEF Compressed
  <2>4. Tweaked(Prefix(fed)) = Listed(RunTweak, n + 1)
    BY <1>1, <1>2, <2>3, PlainTweaks
  <2>5. tweaks' = Listed(RunTweak, n + 1)
    <3>1. Listed(RunTweak, n + 1)' = Listed(RunTweak, n + 1)
      BY <1>1, SameTweaks DEF Listed
    <3>. QED
      BY <1>5, <3>1 DEF Compressed
  <2>6. shift' = 0
    BY <1>1, <1>2, <1>5 DEF Compressed
  <2>. QED
    BY <1>1, <1>2, <1>6, <2>1, <2>2, <2>4, <2>5, <2>6 DEF Ending, Finished
<1>8. CASE rest' # <<>>
  <2>1. stage' = "closing"
    BY <1>1, <1>8 DEF Leave
  <2>2. j # 0
    BY <1>1, <1>4, <1>8, EmptyIs, CoreIs
  <2>3. PICK i \in Nat : j = i + 1
    <3>1. j - 1 \in Nat /\ j = (j - 1) + 1
      BY <2>2
    <3>. QED
      BY <3>1, Zenon
  <2>4. ptr' + Len(rest') = Block' * (i + 1)
    BY <1>4, <1>6, <2>3, CoreIs, <1>1
  <2>5. (absorbed' \o Buffered') \o rest' = Padded(Prefix(fed))'
    BY <1>2, <1>4, <1>6, ConcatEmpty
  <2>6. EndingPlain(n + 1)'
    BY <1>1, <1>2, <1>5, <2>4, <2>5 DEF EndingPlain
  <2>. QED
    BY <2>1, <2>6 DEF Ending, Finished
<1>. QED
  BY <1>7, <1>8

LEMMA FuguePaddingType ==
    ASSUME hash = "fugue", NEW m \in Text
    PROVE  Padded(m) \in Text
<1>1. PICK n \in Nat : n = Len(m)
  BY DEF Text
<1>2. Padded(m) = (m \o Zeros(Up(n, 4))) \o BigEndian(8 * n, 8)
  BY <1>1 DEF Padded
<1>3. Up(n, 4) \in Nat /\ 8 * n \in Int
  BY <1>1 DEF Up
<1>4. Zeros(Up(n, 4)) \in Text /\ BigEndian(8 * n, 8) \in Text
  BY <1>3, ZerosType, WordTypes
<1>. QED
  BY <1>2, <1>4, ConcatType

LEMMA FugueEnds ==
    ASSUME StreamInv, FugueWord, stage = "closing", NEW n \in Nat, EndingFugue(n)
    PROVE  Ending' /\ Finished'
<1>1. /\ hash' = hash /\ fed' = fed /\ pads' = pads /\ Leave(rest')
      /\ hash \in Hashes /\ hash = "fugue"
  BY Unpacked DEF FugueWord
<1>2. /\ Compressed(n) /\ pads = <<>> /\ ptr = 4 /\ absorbed \in Text
      /\ (absorbed \o Buffered) \o rest = Padded(Prefix(fed)) \o Junks
  BY DEF EndingFugue, Compressed
<1>3. PICK j \in Nat : Len(rest) = 4 * (j + 1)
  BY DEF EndingFugue
<1>4. /\ rest' \in Text
      /\ Len(rest) > 4 => ptr' = 4 /\ Len(rest') = Len(rest) - 4
      /\ ~ (Len(rest) > 4) => ptr' = Len(rest) /\ rest' = <<>>
      /\ absorbed' \in Text
      /\ absorbed' = absorbed \o Buffered
      /\ (absorbed' \o Buffered') \o rest' = (absorbed \o Buffered) \o rest
  BY <1>2, FugueWordMoves
<1>5. Compressed(n + 1)'
  BY <1>2, FugueWordMixes
<1>6. Prefix(fed)' = Prefix(fed) /\ Padded(Prefix(fed))' = Padded(Prefix(fed)) /\ Block' = Block
      /\ Tweaked(Prefix(fed))' = Tweaked(Prefix(fed))
  BY <1>1, SamePrefix, SameHash
<1>7. CASE j = 0
  <2>1. rest' = <<>> /\ Len(rest) = 4
    BY <1>3, <1>4, <1>7
  <2>2. stage' = "padded"
    BY <1>1, <1>2, <2>1 DEF Leave
  <2>3. Padded(Prefix(fed)) \in Text
    BY <1>1, Unpacked, FuguePaddingType
  <2>4. absorbed' = Padded(Prefix(fed))
    <3>1. Junks \in Text /\ Len(Junks) = 4
      BY StreamAssumption DEF Junks, Text
    <3>2. absorbed' \o rest = Padded(Prefix(fed)) \o Junks /\ Len(rest) = Len(Junks)
      BY <1>2, <1>4, <2>1, <3>1
    <3>3. rest \in Text
      BY Unpacked
    <3>4. SameFront(absorbed', rest, Padded(Prefix(fed)), Junks)
      BY <1>4, <2>3, <3>1, <3>3, CutOff, Zenon
    <3>. QED
      BY <3>2, <3>4 DEF SameFront
  <2>5. Len(Padded(Prefix(fed))) = Block * (n + 1)
    BY <1>5, <1>6, <2>4 DEF Compressed
  <2>6. /\ Tweaked(Prefix(fed)) = Listed(RunTweak, n + 1)
        /\ (Len(Padded(Prefix(fed))) \div 4) % 3 = (n + 1) % 3
    BY <1>1, <2>5, FugueTweaks
  <2>7. tweaks' = Listed(RunTweak, n + 1) /\ shift' = (n + 1) % 3
    <3>1. Listed(RunTweak, n + 1)' = Listed(RunTweak, n + 1)
      BY <1>1, SameTweaks DEF Listed
    <3>. QED
      BY <1>1, <1>5, <3>1 DEF Compressed
  <2>. QED
    BY <1>1, <1>6, <2>2, <2>4, <2>6, <2>7 DEF Ending, Finished
<1>8. CASE j # 0
  <2>1. Len(rest) > 4 /\ Len(rest') = 4 * j /\ ptr' = 4
    BY <1>3, <1>4, <1>8
  <2>2. rest' # <<>>
    BY <1>8, <2>1, EmptyType
  <2>3. stage' = "closing"
    BY <1>1, <2>2 DEF Leave
  <2>4. PICK i \in Nat : j = i + 1
    <3>1. j - 1 \in Nat /\ j = (j - 1) + 1
      BY <1>8
    <3>. QED
      BY <3>1, Zenon
  <2>5. (absorbed' \o Buffered') \o rest' = (Padded(Prefix(fed)) \o Junks)'
    BY <1>2, <1>4, <1>6 DEF Junks
  <2>6. EndingFugue(n + 1)'
    BY <1>1, <1>2, <1>5, <2>1, <2>4, <2>5 DEF EndingFugue
  <2>. QED
    BY <2>3, <2>6 DEF Ending, Finished
<1>. QED
  BY <1>7, <1>8

LEMMA BlakeChunk ==
    ASSUME StreamInv, Chunk, stage = "closing", NEW n \in Nat, EndingBlake(n)
    PROVE  Ending' /\ Finished'
<1>1. /\ hash' = hash /\ fed' = fed /\ pads' = pads /\ shift' = shift /\ Leave(rest')
      /\ hash \in Hashes /\ rest # <<>> /\ Block \in Nat /\ Core' = Core
  BY Unpacked, SameHash DEF Chunk
<1>2. /\ hash \in {"blake64", "blake32"} /\ absorbed \in Text /\ Len(absorbed) = Block * n
      /\ tweaks = Listed(BitTweak, n) /\ shift = 0
      /\ LastPad \/ (PadAfter /\ BitTweak[n + 2] = 0)
      /\ ptr + Len(rest) = Block
      /\ count + Core.tick = BitTweak[n + 1]
  BY <1>1 DEF EndingBlake, Blakes
<1>3. /\ ptr' = 0 /\ rest' = <<>>
      /\ absorbed' \in Text /\ Len(absorbed') = Len(absorbed) + Block
      /\ Buffered' = <<>>
      /\ absorbed' = (absorbed \o Buffered) \o rest
      /\ tweaks' = Append(tweaks, TweakNow)
  <2>1. 0 \in Nat /\ ptr + Len(rest) = Block * (0 + 1)
    BY <1>1, <1>2
  <2>2. /\ ptr' = 0 /\ rest' \in Text /\ Len(rest') = Block * 0
        /\ absorbed' \in Text /\ Len(absorbed') = Len(absorbed) + Block
        /\ Buffered' = <<>>
        /\ absorbed' \o rest' = (absorbed \o Buffered) \o rest
        /\ tweaks' = Append(tweaks, TweakNow)
    BY <1>2, <2>1, ChunkFills
  <2>3. rest' = <<>>
    BY <1>1, <2>2, EmptyIs
  <2>. QED
    BY <2>2, <2>3, ConcatEmpty
<1>4. tweaks' = Listed(BitTweak, n + 1)
  <2>1. TweakNow = BitTweak[n + 1]
    BY <1>1, <1>2, TweakNowIs DEF Ticked
  <2>. QED
    BY <1>2, <1>3, <2>1, ListedAppend
<1>5. Prefix(fed)' = Prefix(fed) /\ Padded(Prefix(fed))' = Padded(Prefix(fed)) /\ Block' = Block
      /\ Tweaked(Prefix(fed))' = Tweaked(Prefix(fed)) /\ BitTweak' = BitTweak
  BY <1>1, SamePrefix, SameHash
<1>6. Listed(BitTweak, n + 1)' = Listed(BitTweak, n + 1)
  BY <1>5 DEF Listed
<1>7. Len(absorbed') = Block * (n + 1)
  BY <1>1, <1>2, <1>3
<1>8. CASE LastPad
  <2>1. stage' = "padded"
    BY <1>1, <1>3, <1>8 DEF Leave, LastPad
  <2>2. absorbed' = Padded(Prefix(fed))
    BY <1>3, <1>8 DEF LastPad
  <2>3. Tweaked(Prefix(fed)) = Listed(BitTweak, n + 1)
    <3>1. Len(Prefix(fed)) = fed
      BY Unpacked, PrefixType
    <3>2. Len(Padded(Prefix(fed))) = Block * (n + 1) /\ n + 1 \in Nat
      BY <1>7, <2>2
    <3>. QED
      BY <1>1, <1>2, <3>1, <3>2, BitTweaks
  <2>. QED
    BY <1>1, <1>2, <1>4, <1>5, <2>1, <2>2, <2>3 DEF Ending, Finished
<1>9. CASE PadAfter /\ BitTweak[n + 2] = 0
  <2>1. PICK d \in Text :
          /\ pads = <<[data |-> d, count |-> -Core.tick]>> /\ Len(d) = Block
          /\ ((absorbed \o Buffered) \o rest) \o d = Padded(Prefix(fed))
    BY <1>9 DEF PadAfter
  <2>2. stage' = "closing"
    <3>1. pads # <<>>
      BY <2>1
    <3>. QED
      BY <1>1, <1>3, <3>1 DEF Leave
  <2>3. PadAfter'
    <3>1. (absorbed' \o Buffered') \o rest' = absorbed'
      BY <1>3, ConcatEmpty
    <3>2. ((absorbed' \o Buffered') \o rest') \o d = Padded(Prefix(fed))'
      BY <1>3, <1>5, <2>1, <3>1
    <3>3. pads' = <<[data |-> d, count |-> -Core'.tick]>> /\ Len(d) = Block'
      BY <1>1, <1>5, <2>1
    <3>. QED
      BY <3>2, <3>3 DEF PadAfter
  <2>4. (BitTweak[(n + 1) + 1] = 0)'
    <3>1. (n + 1) + 1 = n + 2
      OBVIOUS
    <3>. QED
      BY <1>5, <1>9, <3>1
  <2>5. EndingBlake(n + 1)'
    BY <1>1, <1>2, <1>3, <1>4, <1>5, <1>6, <1>7, <2>3, <2>4 DEF EndingBlake, Blakes
  <2>. QED
    BY <2>2, <2>5 DEF Ending, Finished
<1>. QED
  BY <1>2, <1>8, <1>9

LEMMA NextPadEnds ==
    ASSUME StreamInv, NextPad, Ending
    PROVE  Ending' /\ Finished'
<1>1. /\ stage = "closing" /\ rest = <<>> /\ pads # <<>> /\ hash' = hash /\ fed' = fed
      /\ Hand(Head(pads).data, Head(pads).count, Tail(pads))
  BY DEF NextPad
<1>2. PICK n \in Nat : EndingPlain(n) \/ EndingFugue(n) \/ EndingBlake(n)
  BY <1>1 DEF Ending
<1>3. EndingBlake(n) /\ ~ LastPad
  BY <1>1, <1>2 DEF EndingPlain, EndingFugue, LastPad
<1>4. /\ hash \in Blakes /\ absorbed \in Text /\ Len(absorbed) = Block * n
      /\ tweaks = Listed(BitTweak, n) /\ shift = 0
  BY <1>3 DEF EndingBlake
<1>5. PadAfter /\ ptr = 0 /\ BitTweak[n + 1] = 0
  <2>1. ptr < Block /\ ptr \in Nat /\ Block \in Nat
    BY <1>4, Unpacked DEF StreamInv, Places, Blakes
  <2>2. ptr + Len(rest) # Block
    BY <1>1, <2>1, EmptyType
  <2>. QED
    BY <1>3, <2>2 DEF EndingBlake
<1>6. PICK d \in Text :
        /\ pads = <<[data |-> d, count |-> -Core.tick]>> /\ Len(d) = Block
        /\ ((absorbed \o Buffered) \o rest) \o d = Padded(Prefix(fed))
  BY <1>5 DEF PadAfter
<1>7. Head(pads).data = d /\ Head(pads).count = -Core.tick /\ Tail(pads) = <<>>
  BY <1>6
<1>8. /\ rest' = d /\ count' = -Core.tick /\ pads' = <<>> /\ stage' = "closing"
      /\ buf' = buf /\ ptr' = ptr /\ shift' = shift /\ absorbed' = absorbed /\ tweaks' = tweaks
  BY <1>1, <1>7 DEF Hand
<1>9. Padded(Prefix(fed))' = Padded(Prefix(fed)) /\ Block' = Block /\ Core' = Core
      /\ BitTweak' = BitTweak
  BY <1>1, SamePrefix, SameHash
<1>10. Buffered' = Buffered
  BY <1>1, <1>8 DEF Buffered
<1>11. LastPad'
  <2>1. absorbed \o Buffered \in Text
    BY <1>4, Unpacked, ConcatType
  <2>2. (absorbed \o Buffered) \o rest = absorbed \o Buffered
    BY <1>1, <2>1, ConcatEmpty
  <2>3. (absorbed' \o Buffered') \o rest' = Padded(Prefix(fed))'
    BY <1>6, <1>8, <1>9, <1>10, <2>2
  <2>. QED
    BY <1>8, <2>3 DEF LastPad
<1>12. ptr' + Len(rest') = Block' /\ (count + Core.tick = BitTweak[n + 1])'
  <2>1. PICK t \in Nat : t = Core.tick
    BY CoreIs, Unpacked
  <2>2. count' = -t /\ Core'.tick = t /\ -t + t = 0
    BY <1>8, <1>9, <2>1
  <2>3. (count + Core.tick = BitTweak[n + 1])'
    BY <1>5, <1>9, <2>2
  <2>. QED
    BY <1>5, <1>6, <1>8, <1>9, <2>3, CoreIs, Unpacked
<1>13. Listed(BitTweak, n)' = Listed(BitTweak, n)
  BY <1>9 DEF Listed
<1>14. EndingBlake(n)'
  BY <1>1, <1>4, <1>8, <1>9, <1>11, <1>12, <1>13 DEF EndingBlake
<1>. QED
  BY <1>8, <1>14 DEF Ending, Finished

(***************************************************************************)
(* The closes that hand their padding to the core function.                *)
(***************************************************************************)
\* A context between two calls: the message so far in n blocks and the buffer.
Standing(n) ==
    /\ Compressed(n) /\ Counts(n)
    /\ absorbed \o Buffered = Prefix(fed) /\ fed = Block * n + ptr

LEMMA Stands ==
    ASSUME StreamInv, Running, stage = "idle", hash # "gost"
    PROVE  \E n \in Nat : Standing(n)
<1>1. PICK n \in Nat : Compressed(n) /\ Counts(n)
  BY DEF Running, Calls
<1>2. absorbed \in Text /\ absorbed \o Buffered = Prefix(fed)
  BY IdleKeeps
<1>3. Len(absorbed \o Buffered) = Block * n + ptr
  <2>1. Buffered \in Text /\ Len(Buffered) = ptr
    BY Unpacked
  <2>. QED
    BY <1>1, <1>2, <2>1, ConcatType DEF Compressed
<1>4. Len(Prefix(fed)) = fed
  BY Unpacked, PrefixType
<1>. QED
  BY <1>1, <1>2, <1>3, <1>4 DEF Standing

\* A close that hands out a padding to the end of a block.
LEMMA HandEnds ==
    ASSUME StreamInv, hash' = hash, fed' = fed, hash \in {"groestl", "jh", "keccak"},
           NEW n \in Nat, Standing(n), NEW d \in Text, NEW c, Hand(d, c, <<>>),
           Padded(Prefix(fed)) = Prefix(fed) \o d,
           NEW j \in Nat, ptr + Len(d) = Block * (j + 1)
    PROVE  Ending' /\ Finished'
<1>1. /\ rest' = d /\ pads' = <<>> /\ stage' = "closing" /\ buf' = buf /\ ptr' = ptr
      /\ shift' = shift /\ absorbed' = absorbed /\ tweaks' = tweaks
  BY DEF Hand
<1>2. Compressed(n)'
  BY <1>1, NoMore DEF Standing
<1>3. Padded(Prefix(fed))' = Padded(Prefix(fed)) /\ Block' = Block
  BY SamePrefix, SameHash
<1>4. Buffered' = Buffered
  BY <1>1 DEF Buffered
<1>5. (absorbed' \o Buffered') \o rest' = Padded(Prefix(fed))'
  BY <1>1, <1>3, <1>4 DEF Standing
<1>6. ptr' + Len(rest') = Block' * (j + 1)
  BY <1>1, <1>3
<1>7. EndingPlain(n)'
  BY <1>1, <1>2, <1>5, <1>6 DEF EndingPlain
<1>. QED
  BY <1>1, <1>7 DEF Ending, Finished

LEMMA GroestlEnds ==
    ASSUME StreamInv, hash' = hash, fed' = fed, NEW n \in Nat, Standing(n), CloseGroestl,
           stage = "idle"
    PROVE  Ending' /\ Finished'
<1>. DEFINE padLen == IF ptr < 120 THEN 128 - ptr ELSE 256 - ptr
            blocks == IF ptr < 120 THEN count + 1 ELSE count + 2
            d == (<<Mark>> \o Zeros(padLen - 9)) \o BigEndian(blocks, 8)
<1>1. hash = "groestl" /\ Hand(d, count, <<>>)
  BY DEF CloseGroestl
<1>2. Block = 128 /\ ptr \in 0..127 /\ count = n
  <2>1. Block = 128 /\ Core.start = 0 /\ Core.tick = 1
    BY <1>1, Unpacked, CoreIs, CounterIs
  <2>2. ptr \in Nat /\ ptr < Block
    BY <1>1, Unpacked DEF StreamInv, Places
  <2>. QED
    BY <1>1, <2>1, <2>2 DEF Standing, Counts
<1>3. PICK z \in Nat : z = padLen - 9
  <2>1. padLen - 9 \in Nat
    BY <1>2
  <2>. QED
    BY <2>1, Zenon
<1>4. PICK c \in Nat : c = blocks
  <2>1. blocks \in Nat
    BY <1>2
  <2>. QED
    BY <2>1, Zenon
<1>5. d = (<<Mark>> \o Zeros(z)) \o BigEndian(c, 8)
  BY <1>3, <1>4
<1>6. /\ ptr < 120 => z + ptr = 119 /\ c = n + 1
      /\ ~ (ptr < 120) => z + ptr = 247 /\ c = n + 2
  BY <1>2, <1>3, <1>4
<1>. HIDE DEF d
<1>7. HasBlocks(Prefix(fed), 128, n, ptr)
  BY <1>2, Unpacked, PrefixType DEF Standing, HasBlocks
<1>8. Padded(Prefix(fed)) = Prefix(fed) \o d
  <2>1. Padded(Prefix(fed)) = Prefix(fed) \o ((<<Mark>> \o Zeros(z)) \o BigEndian(c, 8))
    <3>1. ptr \in 0..127 /\ n \in Nat /\ z \in Nat /\ c \in Nat
      BY <1>2
    <3>2. hash = "groestl"
      BY <1>1, Zenon
    <3>. QED
      BY <3>1, <3>2, <1>6, <1>7, GroestlPadding, ZenonT(30)
  <2>. QED
    BY <1>5, <2>1
<1>9. d \in Text /\ Len(d) = z + 9
  <2>1. PICK w \in Text : w = BigEndian(c, 8) /\ Len(w) = 8
    BY WordTypes
  <2>2. PICK a \in Text : a = <<Mark>> \o Zeros(z) /\ Len(a) = 1 + z
    BY MarkType, PadType, ConcatEmpty
  <2>3. d = a \o w
    BY <1>5, <2>1, <2>2
  <2>4. a \o w \in Text /\ Len(a \o w) = (1 + z) + 8
    BY <2>1, <2>2, ConcatType, ZenonT(30)
  <2>. QED
    BY <2>3, <2>4
<1>10. \E j \in Nat : ptr + Len(d) = Block * (j + 1)
  <2>1. CASE ptr < 120
    <3>1. 0 \in Nat /\ ptr + Len(d) = Block * (0 + 1)
      BY <1>2, <1>6, <1>9, <2>1
    <3>. QED
      BY <3>1, Zenon
  <2>2. CASE ~ (ptr < 120)
    <3>1. 1 \in Nat /\ ptr + Len(d) = Block * (1 + 1)
      BY <1>2, <1>6, <1>9, <2>2
    <3>. QED
      BY <3>1, Zenon
  <2>. QED
    BY <2>1, <2>2
<1>. QED
  BY <1>1, <1>8, <1>9, <1>10, HandEnds

LEMMA JhEnds ==
    ASSUME StreamInv, hash' = hash, fed' = fed, NEW n \in Nat, Standing(n), CloseJh,
           stage = "idle"
    PROVE  Ending' /\ Finished'
<1>. DEFINE numz == IF ptr = 0 THEN 47 ELSE 111 - ptr
            d == (<<Mark>> \o Zeros(numz)) \o BigEndian(512 * count + 8 * ptr, 16)
<1>1. hash = "jh" /\ Hand(d, count, <<>>)
  BY DEF CloseJh
<1>2. Block = 64 /\ ptr \in 0..63 /\ count = n
  <2>1. Block = 64 /\ Core.start = 0 /\ Core.tick = 1
    BY <1>1, Unpacked, CoreIs, CounterIs
  <2>2. ptr \in Nat /\ ptr < Block
    BY <1>1, Unpacked DEF StreamInv, Places
  <2>. QED
    BY <1>1, <2>1, <2>2 DEF Standing, Counts
<1>3. PICK z \in Nat : z = numz
  <2>1. numz \in Nat
    BY <1>2
  <2>. QED
    BY <2>1, Zenon
<1>4. PICK bits \in Nat : bits = 512 * count + 8 * ptr
  <2>1. 512 * count + 8 * ptr \in Nat
    BY <1>2
  <2>. QED
    BY <2>1, Zenon
<1>5. d = (<<Mark>> \o Zeros(z)) \o BigEndian(bits, 16)
  BY <1>3, <1>4
<1>6. (ptr = 0 => z = 47) /\ (ptr # 0 => z + ptr = 111) 
  BY <1>2, <1>3, <1>4
<1>. HIDE DEF d
<1>7. HasBlocks(Prefix(fed), 64, n, ptr)
  BY <1>2, Unpacked, PrefixType DEF Standing, HasBlocks
<1>8. Padded(Prefix(fed)) = Prefix(fed) \o d
  <2>1. HasBits(Prefix(fed), bits)
    BY <1>2, <1>4, <1>7 DEF HasBlocks, HasBits
  <2>2. Padded(Prefix(fed)) = Prefix(fed) \o ((<<Mark>> \o Zeros(z)) \o BigEndian(bits, 16))
    BY <1>1, <1>2, <1>6, <1>7, <2>1, JhPadding
  <2>. QED
    BY <1>5, <2>2
<1>9. d \in Text /\ Len(d) = z + 17
  <2>1. PICK w \in Text : w = BigEndian(bits, 16) /\ Len(w) = 16
    BY WordTypes
  <2>2. PICK a \in Text : a = <<Mark>> \o Zeros(z) /\ Len(a) = 1 + z
    BY MarkType, PadType, ConcatEmpty
  <2>3. d = a \o w
    BY <1>5, <2>1, <2>2
  <2>4. a \o w \in Text /\ Len(a \o w) = (1 + z) + 16
    BY <2>1, <2>2, ConcatType, ZenonT(30)
  <2>. QED
    BY <2>3, <2>4
<1>10. \E j \in Nat : ptr + Len(d) = Block * (j + 1)
  <2>1. CASE ptr = 0
    <3>1. 0 \in Nat /\ ptr + Len(d) = Block * (0 + 1)
      BY <1>2, <1>6, <1>9, <2>1
    <3>. QED
      BY <3>1, Zenon
  <2>2. CASE ptr # 0
    <3>1. 1 \in Nat /\ ptr + Len(d) = Block * (1 + 1)
      BY <1>2, <1>6, <1>9, <2>2
    <3>. QED
      BY <3>1, Zenon
  <2>. QED
    BY <2>1, <2>2
<1>. QED
  BY <1>1, <1>8, <1>9, <1>10, HandEnds

LEMMA KeccakEnds ==
    ASSUME StreamInv, hash' = hash, fed' = fed, NEW n \in Nat, Standing(n), CloseKeccak,
           stage = "idle"
    PROVE  Ending' /\ Finished'
<1>1. /\ hash = "keccak"
      /\ Hand(IF ptr = Block - 1 THEN <<1 + Mark>>
              ELSE (<<1>> \o Zeros(Block - ptr - 2)) \o <<Mark>>, count, <<>>)
  BY DEF CloseKeccak
<1>2. Block = 72 /\ ptr \in 0..71
  <2>1. Block = 72
    BY <1>1, Unpacked, CoreIs
  <2>2. ptr \in Nat /\ ptr < Block
    BY <1>1, Unpacked DEF StreamInv, Places
  <2>. QED
    BY <2>1, <2>2
<1>3. HasBlocks(Prefix(fed), 72, n, ptr)
  BY <1>2, Unpacked, PrefixType DEF Standing, HasBlocks
<1>4. CASE ptr = 71
  <2>. DEFINE d == <<1 + Mark>>
  <2>1. Hand(d, count, <<>>)
    BY <1>1, <1>2, <1>4
  <2>2. d \in Text /\ Len(d) = 1
    BY DEF Mark, Text
  <2>3. Padded(Prefix(fed)) = Prefix(fed) \o d
    BY <1>1, <1>2, <1>3, <1>4, KeccakPadding
  <2>. HIDE DEF d
  <2>4. 0 \in Nat /\ ptr + Len(d) = Block * (0 + 1)
    BY <1>2, <1>4, <2>2
  <2>. QED
    BY <1>1, <2>1, <2>2, <2>3, <2>4, HandEnds
<1>5. CASE ptr # 71
  <2>1. PICK z \in Nat : z = Block - ptr - 2
    <3>1. Block - ptr - 2 \in Nat
      BY <1>2, <1>5
    <3>. QED
      BY <3>1, Zenon
  <2>. DEFINE d == (<<1>> \o Zeros(z)) \o <<Mark>>
  <2>2. Hand(d, count, <<>>)
    BY <1>1, <1>2, <1>5, <2>1
  <2>3. z + ptr + 2 = 72
    BY <1>2, <2>1
  <2>4. d \in Text /\ Len(d) = z + 2
    <3>1. <<1>> \o Zeros(z) \in Text /\ Len(<<1>> \o Zeros(z)) = 1 + z
      BY 1 \in Int, MarkType, PadType, Zenon
    <3>2. <<Mark>> \in Text /\ Len(<<Mark>>) = 1
      BY MarkType
    <3>. QED
      BY <3>1, <3>2, ConcatType
  <2>5. Padded(Prefix(fed)) = Prefix(fed) \o d
    BY <1>1, <1>2, <1>3, <2>3, KeccakPadding
  <2>. HIDE DEF d
  <2>6. 0 \in Nat /\ ptr + Len(d) = Block * (0 + 1)
    BY <1>2, <2>3, <2>4
  <2>. QED
    BY <1>1, <2>2, <2>4, <2>5, <2>6, HandEnds
<1>. QED
  BY <1>4, <1>5

\* The tweaks of the message bits, at the end of the message.
LEMMA BitsSoFar ==
    ASSUME StreamInv, hash \in {"echo", "blake64", "blake32"}, ptr < Block,
           NEW n \in Nat, Standing(n)
    PROVE  /\ tweaks = Listed(BitTweak, n)
           /\ BitTweak[n + 1] = (IF ptr = 0 THEN 0 ELSE 8 * fed)
           /\ BitTweak[n + 2] = 0
<1>1. PICK b \in Nat : b = Block /\ b > 0
  BY Unpacked
<1>2. fed = b * n + ptr /\ ptr \in Nat /\ ptr < b /\ b * n \in Nat /\ b * (n + 1) = b * n + b
  BY <1>1, Unpacked DEF Standing
<1>3. \A i \in Nat : BitTweak[i] = IF b * (i - 1) < fed THEN 8 * Least(fed, b * i) ELSE 0
  BY <1>1 DEF BitTweak, BitsIn
<1>4. ASSUME NEW i \in 1..n
      PROVE  RunTweak[i] = BitTweak[i]
  <2>1. RunTweak[i] = 8 * b * i
    BY <1>1, RunTweakIs, Unpacked
  <2>2. PICK k \in Nat : i = k + 1
    <3>1. i - 1 \in Nat /\ i = (i - 1) + 1
      OBVIOUS
    <3>. QED
      BY <3>1, Zenon
  <2>3. PICK l \in Nat : n = i + l
    <3>1. n - i \in Nat /\ n = i + (n - i)
      OBVIOUS
    <3>. QED
      BY <3>1, Zenon
  <2>4. b * n = b * i + b * l /\ b * i = b * k + b /\ b * l \in Nat /\ b * k \in Nat
    BY <2>2, <2>3
  <2>5. b * (i - 1) < fed /\ b * i <= fed /\ b * i \in Nat /\ fed \in Nat
    BY <1>1, <1>2, <2>2, <2>4
  <2>6. BitTweak[i] = 8 * (b * i)
    BY <1>3, <2>5 DEF Least
  <2>. QED
    BY <2>1, <2>6
<1>5. tweaks = Listed(BitTweak, n)
  BY <1>4, ListedSame DEF Standing, Compressed
<1>6. BitTweak[n + 1] = IF b * n < fed THEN 8 * Least(fed, b * (n + 1)) ELSE 0
  BY <1>3
<1>7. BitTweak[n + 2] = IF b * (n + 1) < fed THEN 8 * Least(fed, b * (n + 2)) ELSE 0
  BY <1>3
<1>8. BitTweak[n + 1] = IF ptr = 0 THEN 0 ELSE 8 * fed
  BY <1>2, <1>6 DEF Least
<1>9. BitTweak[n + 2] = 0
  BY <1>2, <1>7
<1>. QED
  BY <1>5, <1>8, <1>9

\* A close of BLAKE: the padding in one block, or over the end of one.
LEMMA BlakeHands ==
    ASSUME StreamInv, hash' = hash, fed' = fed, stage = "idle", hash \in Blakes,
           NEW n \in Nat, Standing(n), NEW d \in Text, NEW c \in Int, NEW later,
           Hand(d, c, later), ptr + Len(d) = Block,
           c + Core.tick = (IF ptr = 0 THEN 0 ELSE 8 * fed),
           \/ later = <<>> /\ Padded(Prefix(fed)) = Prefix(fed) \o d
           \/ \E e \in Text : /\ later = <<[data |-> e, count |-> -Core.tick]>>
                              /\ Len(e) = Block
                              /\ Padded(Prefix(fed)) = (Prefix(fed) \o d) \o e
    PROVE  Ending' /\ Finished'
<1>1. /\ rest' = d /\ count' = c /\ pads' = later /\ stage' = "closing" /\ buf' = buf
      /\ ptr' = ptr /\ shift' = shift /\ absorbed' = absorbed /\ tweaks' = tweaks
  BY DEF Hand
<1>2. ptr < Block /\ hash \in {"blake64", "blake32"}
  BY DEF StreamInv, Places, Blakes
<1>3. /\ tweaks = Listed(BitTweak, n) /\ BitTweak[n + 1] = (IF ptr = 0 THEN 0 ELSE 8 * fed)
      /\ BitTweak[n + 2] = 0
  BY <1>2, BitsSoFar
<1>4. /\ Padded(Prefix(fed))' = Padded(Prefix(fed)) /\ Block' = Block /\ BitTweak' = BitTweak
      /\ Core' = Core
  BY SamePrefix, SameHash
<1>5. Buffered' = Buffered
  BY <1>1 DEF Buffered
<1>6. (absorbed' \o Buffered') \o rest' = Prefix(fed) \o d
  BY <1>1, <1>5 DEF Standing
<1>7. absorbed' \in Text /\ Len(absorbed') = Block' * n /\ shift' = 0
  BY <1>1, <1>2, <1>4 DEF Standing, Compressed
<1>8. tweaks' = Listed(BitTweak, n)'
  BY <1>1, <1>3, <1>4 DEF Listed
<1>9. (LastPad \/ (PadAfter /\ BitTweak[n + 2] = 0))'
  <2>1. CASE later = <<>> /\ Padded(Prefix(fed)) = Prefix(fed) \o d
    BY <1>1, <1>4, <1>6, <2>1 DEF LastPad
  <2>2. ASSUME NEW e \in Text, later = <<[data |-> e, count |-> -Core.tick]>>, Len(e) = Block,
               Padded(Prefix(fed)) = (Prefix(fed) \o d) \o e
        PROVE  (PadAfter /\ BitTweak[n + 2] = 0)'
    <3>1. ((absorbed' \o Buffered') \o rest') \o e = Padded(Prefix(fed))'
      BY <1>4, <1>6, <2>2
    <3>2. pads' = <<[data |-> e, count |-> -Core'.tick]>> /\ Len(e) = Block'
      BY <1>1, <1>4, <2>2
    <3>. QED
      BY <1>3, <1>4, <3>1, <3>2 DEF PadAfter
  <2>. QED
    BY <2>1, <2>2
<1>10. ptr' + Len(rest') = Block' /\ (count + Core.tick = BitTweak[n + 1])'
  BY <1>1, <1>3, <1>4
<1>11. EndingBlake(n)'
  BY <1>7, <1>8, <1>9, <1>10 DEF EndingBlake
<1>. QED
  BY <1>1, <1>11 DEF Ending, Finished

LEMMA BlakeEnds ==
    ASSUME StreamInv, hash' = hash, fed' = fed, stage = "idle", NEW w \in {8, 16}, CloseBlake(w),
           hash = (IF w = 16 THEN "blake64" ELSE "blake32"), NEW n \in Nat, Standing(n)
    PROVE  Ending' /\ Finished'
<1>1. /\ Block = 8 * w /\ Core.tick = 64 * w /\ Core.start = 0 /\ ptr < Block /\ ptr \in Nat
      /\ w \in Nat /\ hash \in Blakes
  BY Unpacked, CoreIs, CounterIs DEF StreamInv, Places, Blakes
<1>2. count = Core.tick * n /\ fed = Block * n + ptr /\ fed \in Nat
  <2>1. count = Core.start + Core.tick * n
    BY <1>1 DEF Standing, Counts, Blakes
  <2>. QED
    BY <1>1, <2>1, Unpacked DEF Standing
<1>. DEFINE total == count + 8 * ptr
            none == -Core.tick
            first == IF ptr = 0 THEN none ELSE count - (Core.tick - 8 * ptr)
<1>3. total = 8 * fed
  <2>1. count = 64 * w * n /\ Block * n = 8 * w * n
    BY <1>1, <1>2
  <2>. QED
    BY <1>1, <1>2, <2>1
<1>4. PICK bits \in Nat : bits = total
  <2>1. total \in Nat
    BY <1>2, <1>3
  <2>. QED
    BY <2>1, Zenon
<1>5. PICK size \in Text : size = BigEndian(total, w) /\ Len(size) = w /\ size = BigEndian(bits, w)
  <2>1. w \in Nat /\ bits \in Int
    BY <1>1, <1>4
  <2>. QED
    BY <1>4, <2>1, EndianTypes
<1>6. first \in Int /\ first + Core.tick = IF ptr = 0 THEN 0 ELSE 8 * fed
  <2>1. PICK t \in Nat : t = Core.tick
    BY <1>1
  <2>2. PICK c \in Int : c = count
    BY Unpacked
  <2>3. c + 8 * ptr = 8 * fed
    BY <1>3, <2>2
  <2>. QED
    BY <1>1, <2>1, <2>2, <2>3
<1>7. HasBlocks(Prefix(fed), Block, n, ptr)
  BY <1>2, Unpacked, PrefixType DEF HasBlocks
<1>8. HasBits(Prefix(fed), bits)
  BY <1>3, <1>4, Unpacked, PrefixType, SMTT(30) DEF HasBits
<1>9. BlakePadded(Prefix(fed), ptr, w, bits)
  BY <1>1, <1>7, <1>8, BlakePadding
<1>10. IF ptr < 7 * w
      THEN Hand((IF ptr = 7 * w - 1 THEN <<Mark + 1>>
                 ELSE (<<Mark>> \o Zeros(7 * w - 2 - ptr)) \o <<1>>) \o size, first, <<>>)
      ELSE Hand(<<Mark>> \o Zeros(Block - 1 - ptr), first,
                <<[data |-> (Zeros(7 * w - 1) \o <<1>>) \o size, count |-> none]>>)
  <2>1. Block - w = 7 * w /\ (8 * ptr <= Core.tick - 8 * w - 2 <=> ptr < 7 * w)
    BY <1>1
  <2>. QED
    BY <1>5, <2>1 DEF CloseBlake
<1>. HIDE DEF first, total
<1>11. CASE ptr = 7 * w - 1
  <2>. DEFINE d == <<Mark + 1>> \o size
  <2>1. Hand(d, first, <<>>)
    BY <1>1, <1>10, <1>11
  <2>2. Padded(Prefix(fed)) = Prefix(fed) \o d
    <3>1. ptr + 1 + w = 8 * w
      BY <1>1, <1>11
    <3>2. Padded(Prefix(fed)) = Prefix(fed) \o (<<Mark + 1>> \o BigEndian(bits, w))
      BY <1>1, <1>9, <3>1 DEF BlakePadded
    <3>. QED
      BY <1>5, <3>2
  <2>3. d \in Text /\ Len(d) = 1 + w
    <3>1. <<Mark + 1>> \in Text /\ Len(<<Mark + 1>>) = 1
      BY DEF Text, Mark
    <3>. QED
      BY <1>5, <3>1, ConcatType
  <2>. HIDE DEF d
  <2>4. ptr + Len(d) = Block
    BY <1>1, <1>11, <2>3
  <2>. QED
    BY <1>1, <1>6, <2>1, <2>2, <2>3, <2>4, BlakeHands
<1>12. CASE ptr < 7 * w - 1
  <2>1. PICK z \in Nat : z = 7 * w - 2 - ptr
    <3>1. 7 * w - 2 - ptr \in Nat
      BY <1>1, <1>12
    <3>. QED
      BY <3>1, Zenon
  <2>2. PICK a \in Text : a = (<<Mark>> \o Zeros(z)) \o <<1>> /\ Len(a) = z + 2
    <3>1. PICK b \in Text : b = <<Mark>> \o Zeros(z) /\ Len(b) = 1 + z
      BY MarkType, PadType, EmptyType, Zenon
    <3>2. PICK one \in Text : one = <<1>> /\ Len(one) = 1
      BY OneType, Zenon
    <3>3. b \o one \in Text /\ Len(b \o one) = z + 2
      BY <3>1, <3>2, ConcatType
    <3>. QED
      BY <3>1, <3>2, <3>3, Zenon
  <2>. DEFINE d == a \o size
  <2>3. Hand(d, first, <<>>)
    BY <1>1, <1>10, <1>12, <2>1, <2>2
  <2>4. Padded(Prefix(fed)) = Prefix(fed) \o d
    <3>1. z + 2 + w + ptr = 8 * w
      BY <1>1, <2>1
    <3>2. Padded(Prefix(fed)) =
            Prefix(fed) \o (((<<Mark>> \o Zeros(z)) \o <<1>>) \o BigEndian(bits, w))
      BY <1>1, <1>9, <3>1 DEF BlakePadded
    <3>. QED
      BY <1>5, <2>2, <3>2
  <2>5. d \in Text /\ Len(d) = (z + 2) + w
    BY <1>5, <2>2, ConcatType
  <2>. HIDE DEF d
  <2>6. ptr + Len(d) = Block
    BY <1>1, <2>1, <2>5
  <2>. QED
    BY <1>1, <1>6, <2>3, <2>4, <2>5, <2>6, BlakeHands
<1>13. CASE ~ (ptr < 7 * w)
  <2>1. PICK y \in Nat : y = Block - 1 - ptr
    <3>1. Block - 1 - ptr \in Nat
      BY <1>1
    <3>. QED
      BY <3>1, Zenon
  <2>2. PICK z \in Nat : z = 7 * w - 1
    <3>1. 7 * w - 1 \in Nat
      BY <1>1
    <3>. QED
      BY <3>1, Zenon
  <2>. DEFINE d == <<Mark>> \o Zeros(y)
              e == (Zeros(z) \o <<1>>) \o size
  <2>3. Hand(d, first, <<[data |-> e, count |-> none]>>)
    BY <1>10, <1>13, <2>1, <2>2
  <2>4. Padded(Prefix(fed)) = (Prefix(fed) \o d) \o e
    <3>1. y + ptr + 1 = 8 * w /\ z + 1 + w = 8 * w /\ ptr + w >= 8 * w
      BY <1>1, <1>13, <2>1, <2>2
    <3>2. Padded(Prefix(fed)) =
            (Prefix(fed) \o (<<Mark>> \o Zeros(y))) \o ((Zeros(z) \o <<1>>) \o BigEndian(bits, w))
      BY <1>1, <1>9, <3>1 DEF BlakePadded
    <3>. QED
      BY <1>5, <3>2
  <2>5. d \in Text /\ Len(d) = 1 + y
    BY MarkType, PadType
  <2>6. e \in Text /\ Len(e) = Block
    <3>1. PICK a \in Text : a = Zeros(z) \o <<1>> /\ Len(a) = z + 1
      BY 1 \in Int, PadType, EmptyType, Zenon
    <3>2. a \o size \in Text /\ Len(a \o size) = (z + 1) + w
      BY <1>5, <3>1, ConcatType
    <3>3. (z + 1) + w = Block
      BY <1>1, <2>2
    <3>. QED
      BY <3>1, <3>2, <3>3
  <2>. HIDE DEF d, e
  <2>7. ptr + Len(d) = Block
    BY <1>1, <2>1, <2>5
  <2>. QED
    BY <1>1, <1>6, <2>3, <2>4, <2>5, <2>6, <2>7, BlakeHands
<1>. QED
  BY <1>1, <1>11, <1>12, <1>13

LEMMA FugueHands ==
    ASSUME StreamInv, hash' = hash, fed' = fed, NoPads, stage = "idle", CloseFugue,
           NEW n \in Nat, Standing(n)
    PROVE  Ending' /\ Finished' /\ stage' = "closing"
<1>1. hash = "fugue" /\ ptr \in 0..4 /\ Block = 4 /\ count = 8 * fed /\ fed = 4 * n + ptr
      /\ count \in Nat
  <2>1. hash = "fugue"
    BY DEF CloseFugue, UpdateFugue
  <2>2. Block = 4 /\ ptr \in Nat /\ ptr <= Block /\ fed \in Nat
    BY <2>1, Unpacked, CoreIs
  <2>. QED
    BY <2>1, <2>2 DEF Standing, Counts
<1>2. PICK z \in Nat : (ptr \in {0, 4} => z = 0) /\ (ptr \notin {0, 4} => z + ptr = 4)
  <2>1. CASE ptr \in {0, 4}
    BY <2>1
  <2>2. CASE ptr \notin {0, 4}
    <3>1. 4 - ptr \in Nat /\ 4 - ptr + ptr = 4
      BY <1>1
    <3>. QED
      BY <2>2, <3>1, Zenon
  <2>. QED
    BY <2>1, <2>2
<1>3. PICK w \in Text : w = BigEndian(count, 8) /\ Len(w) = 8
  BY <1>1, WordTypes
<1>4. Junks \in Text /\ Len(Junks) = 4
  BY StreamAssumption DEF Junks, Text
<1>5. PICK e \in Text : e = Zeros(z) \o w /\ Len(e) = z + 8
  <2>1. PICK y \in Text : y = Zeros(z) /\ Len(y) = z
    BY ZerosType
  <2>2. y \o w \in Text /\ Len(y \o w) = z + 8
    BY <1>3, <2>1, ConcatType
  <2>. QED
    BY <2>1, <2>2, Zenon
<1>6. PICK d \in Text : d = e \o Junks /\ Len(d) = z + 12
  <2>1. e \o Junks \in Text /\ Len(e \o Junks) = (z + 8) + 4
    BY <1>4, <1>5, ConcatType, ZenonT(30)
  <2>2. (z + 8) + 4 = z + 12
    OBVIOUS
  <2>. QED
    BY <2>1, <2>2, Zenon
<1>7. UpdateFugue(d, "closing")
  <2>1. (IF 0 < ptr /\ ptr < 4 THEN Zeros(4 - ptr) ELSE <<>>) = Zeros(z)
    <3>1. CASE ptr \in {0, 4}
      BY <1>1, <1>2, <3>1, ZerosType, EmptyIs
    <3>2. CASE ptr \notin {0, 4}
      BY <1>1, <1>2, <3>2
    <3>. QED
      BY <3>1, <3>2
  <2>2. UpdateFugue(((IF 0 < ptr /\ ptr < 4 THEN Zeros(4 - ptr) ELSE <<>>) \o BigEndian(count, 8))
                      \o [i \in 1..4 |-> Junk], "closing")
    BY DEF CloseFugue
  <2>. QED
    BY <1>3, <1>5, <1>6, <2>1, <2>2 DEF Junks
<1>8. PICK k \in Nat :
             /\ k <= Len(d) /\ ptr + k <= 4 /\ (ptr + k = 4 \/ k = Len(d))
             /\ ptr' = ptr + k /\ absorbed' = absorbed /\ pads' = pads
             /\ count' = count + 8 * Len(d) /\ count' \in Int
             /\ tweaks' = tweaks /\ shift' = shift
             /\ buf' \in Text /\ Len(buf') = 4
             /\ rest' = SubSeq(d, k + 1, Len(d)) /\ rest' \in Text
             /\ Len(rest') = Len(d) - k
             /\ Buffered' = Buffered \o SubSeq(d, 1, k)
             /\ stage' = IF ptr < 4 /\ k = Len(d) THEN "idle" ELSE "closing"
  BY <1>1, <1>7, FugueTakes, Zenon
<1>9. ptr' = 4 /\ stage' = "closing" /\ k + ptr = 4 /\ k # Len(d)
  BY <1>1, <1>6, <1>8
<1>10. pads' = <<>>
  BY <1>8 DEF NoPads
<1>11. Compressed(n)'
  BY <1>8, NoMore DEF Standing
<1>12. Padded(Prefix(fed)) = Prefix(fed) \o e
  <2>1. HasBlocks(Prefix(fed), 4, n, ptr)
    BY <1>1, Unpacked, PrefixType DEF HasBlocks
  <2>2. HasBits(Prefix(fed), count)
    BY <1>1, Unpacked, PrefixType DEF HasBits
  <2>3. Padded(Prefix(fed)) = Prefix(fed) \o (Zeros(z) \o BigEndian(count, 8))
    BY <1>1, <1>2, <2>1, <2>2, FuguePadding, ZenonT(30)
  <2>. QED
    BY <1>3, <1>5, <2>3
<1>13. (absorbed' \o Buffered') \o rest' = Padded(Prefix(fed)) \o Junks
  <2>1. /\ SubSeq(d, 1, k) \in Text
        /\ d = SubSeq(d, 1, k) \o SubSeq(d, k + 1, Len(d))
    BY <1>8, TakenFrom
  <2>2. PICK f \in Text, t \in Text : f = SubSeq(d, 1, k) /\ t = rest' /\ d = f \o t
    BY <1>8, <2>1, Zenon
  <2>3. absorbed \in Text /\ Buffered \in Text /\ Prefix(fed) \in Text
        /\ absorbed \o Buffered = Prefix(fed)
    BY Unpacked DEF Standing, Compressed
  <2>4. (absorbed \o (Buffered \o f)) \o t = (absorbed \o Buffered) \o d
    <3>1. PICK x \in Text : x = absorbed \o Buffered
      BY <2>3, ConcatType
    <3>2. Trailing(absorbed, Buffered, f) /\ Trailing(x, f, t)
      BY <2>2, <2>3, <3>1, TrailingIs, Zenon
    <3>. QED
      BY <2>2, <3>1, <3>2 DEF Trailing
  <2>5. Trailing(Prefix(fed), e, Junks)
    BY <1>4, <2>3, TrailingIs, Zenon
  <2>. QED
    BY <1>6, <1>8, <1>12, <2>2, <2>3, <2>4, <2>5 DEF Trailing
<1>14. \E j \in Nat : Len(rest') = 4 * (j + 1)
  <2>1. CASE ptr = 0
    <3>1. 1 \in Nat /\ Len(rest') = 4 * (1 + 1)
      BY <1>2, <1>6, <1>8, <1>9, <2>1
    <3>. QED
      BY <3>1, Zenon
  <2>2. CASE ptr # 0
    <3>1. 2 \in Nat /\ Len(rest') = 4 * (2 + 1)
      BY <1>1, <1>2, <1>6, <1>8, <1>9, <2>2
    <3>. QED
      BY <3>1, Zenon
  <2>. QED
    BY <2>1, <2>2
<1>15. Padded(Prefix(fed))' = Padded(Prefix(fed))
  BY SamePrefix
<1>16. (absorbed' \o Buffered') \o rest' = (Padded(Prefix(fed)) \o Junks)'
  BY <1>13, <1>15 DEF Junks
<1>17. EndingFugue(n)'
  BY <1>1, <1>9, <1>10, <1>11, <1>14, <1>16 DEF EndingFugue
<1>. QED
  BY <1>9, <1>17 DEF Ending, Finished

(***************************************************************************)
(* The closes that compress their padding themselves.                      *)
(***************************************************************************)
\* The bytes of the message in the buffer, the mark, and zeros up to byte k.
LEMMA MarkedCut ==
    ASSUME StreamInv, hash # "fugue", NEW k \in Nat, k <= Block, NEW z \in Nat, ptr + 1 + z = k
    PROVE  /\ Marked(buf) \in Text /\ Len(Marked(buf)) = Block
           /\ SubSeq(Marked(buf), 1, k) = Buffered \o (<<Mark>> \o Zeros(z))
<1>1. /\ buf \in Text /\ Len(buf) = Block /\ ptr \in Nat /\ Block \in Nat
      /\ Buffered \in Text /\ Len(Buffered) = ptr /\ Buffered = SubSeq(buf, 1, ptr)
      /\ ptr < Block
  BY Unpacked, SMTT(30) DEF Buffered
<1>2. Marked(buf) \in Text /\ Len(Marked(buf)) = Block
  BY <1>1, MarkedType
<1>3. PICK y \in Nat : y = Block - ptr - 1
  <2>1. Block - ptr - 1 \in Nat
    BY <1>1
  <2>. QED
    BY <2>1, Zenon
<1>. DEFINE d == <<Mark>> \o Zeros(y)
            e == <<Mark>> \o Zeros(z)
<1>4. /\ d \in Text /\ Len(d) = 1 + y
      /\ \A i \in 1..(1 + y) : d[i] = IF i = 1 THEN Mark ELSE 0
  <2>1. PICK m \in Text, o \in Text : m = <<Mark>> /\ o = Zeros(y) /\ Len(m) = 1 /\ Len(o) = y
                                        /\ m[1] = Mark
    BY MarkType, ZerosType
  <2>2. \A i \in 1..y : o[i] = 0
    BY <2>1 DEF Zeros
  <2>3. m \o o \in Text /\ Len(m \o o) = 1 + y
    BY <2>1, ConcatType
  <2>4. \A i \in 1..(1 + y) : (m \o o)[i] = IF i <= 1 THEN m[i] ELSE o[i - 1]
    BY <2>1, JoinedAt
  <2>5. \A i \in 1..(1 + y) : (m \o o)[i] = IF i = 1 THEN Mark ELSE 0
    BY <2>1, <2>2, <2>4
  <2>. QED
    BY <2>1, <2>3, <2>5
<1>5. /\ e \in Text /\ Len(e) = 1 + z
      /\ \A i \in 1..(1 + z) : e[i] = IF i = 1 THEN Mark ELSE 0
  <2>1. PICK m \in Text, o \in Text : m = <<Mark>> /\ o = Zeros(z) /\ Len(m) = 1 /\ Len(o) = z
                                        /\ m[1] = Mark
    BY MarkType, ZerosType
  <2>2. \A i \in 1..z : o[i] = 0
    BY <2>1 DEF Zeros
  <2>3. m \o o \in Text /\ Len(m \o o) = 1 + z
    BY <2>1, ConcatType
  <2>4. \A i \in 1..(1 + z) : (m \o o)[i] = IF i <= 1 THEN m[i] ELSE o[i - 1]
    BY <2>1, JoinedAt
  <2>5. \A i \in 1..(1 + z) : (m \o o)[i] = IF i = 1 THEN Mark ELSE 0
    BY <2>1, <2>2, <2>4
  <2>. QED
    BY <2>1, <2>3, <2>5
<1>6. Marked(buf) = Copy(buf, ptr, d, Block - ptr)
  BY <1>1, <1>3 DEF Marked
<1>. HIDE DEF d, e
<1>7. ASSUME NEW i \in 1..k
      PROVE  Marked(buf)[i] = IF i <= ptr THEN buf[i] ELSE IF i = ptr + 1 THEN Mark ELSE 0
  <2>1. Marked(buf)[i] = IF ptr < i /\ i <= ptr + (Block - ptr) THEN d[i - ptr] ELSE buf[i]
    BY <1>1, <1>6 DEF Copy
  <2>2. CASE i <= ptr
    BY <1>1, <2>1, <2>2
  <2>3. CASE ~ (i <= ptr)
    <3>1. PICK j \in 1..(1 + y) : j = i - ptr
      BY <1>1, <1>3, <2>3
    <3>. QED
      BY <1>1, <1>4, <2>1, <2>3, <3>1
  <2>. QED
    BY <2>2, <2>3
<1>8. ASSUME NEW i \in 1..k
      PROVE  (Buffered \o e)[i] = IF i <= ptr THEN buf[i] ELSE IF i = ptr + 1 THEN Mark ELSE 0
  <2>1. (Buffered \o e)[i] = IF i <= ptr THEN Buffered[i] ELSE e[i - ptr]
    BY <1>1, <1>5, JoinedAt
  <2>2. CASE i <= ptr
    <3>1. Buffered[i] = buf[1 + i - 1]
      BY <1>1, <2>2, PartAt
    <3>. QED
      BY <2>1, <2>2, <3>1
  <2>3. CASE ~ (i <= ptr)
    <3>1. PICK j \in 1..(1 + z) : j = i - ptr
      BY <1>1, <2>3
    <3>. QED
      BY <1>1, <1>5, <2>1, <2>3, <3>1
  <2>. QED
    BY <2>2, <2>3
<1>9. PICK a \in Text : a = SubSeq(Marked(buf), 1, k) /\ Len(a) = k
  BY <1>2, TakenFrom
<1>10. PICK b \in Text : b = Buffered \o e /\ Len(b) = k
  <2>1. Buffered \o e \in Text /\ Len(Buffered \o e) = k
    BY <1>1, <1>5, ConcatType
  <2>. QED
    BY <2>1, Zenon
<1>11. ASSUME NEW i \in 1..k
       PROVE  a[i] = b[i]
  <2>1. a[i] = Marked(buf)[1 + i - 1]
    BY <1>2, <1>9, PartAt
  <2>. QED
    BY <1>7, <1>8, <1>10, <2>1
<1>12. a = b
  BY <1>9, <1>10, <1>11, SameText
<1>. QED
  BY <1>2, <1>9, <1>10, <1>12 DEF e

\* What the parts of a close make of the chaining value.
LEMMA MarkedJoins ==
    ASSUME StreamInv, hash # "fugue", NEW n \in Nat, Standing(n),
           NEW k \in Nat, k <= Block, NEW z \in Nat, ptr + 1 + z = k, NEW t \in Text
    PROVE  /\ absorbed \o (SubSeq(Marked(buf), 1, k) \o t)
                = Prefix(fed) \o ((<<Mark>> \o Zeros(z)) \o t)
           /\ k = Block =>
                /\ SubSeq(Marked(buf), 1, k) = Marked(buf)
                /\ absorbed \o Marked(buf) = Prefix(fed) \o (<<Mark>> \o Zeros(z))
<1>1. /\ absorbed \in Text /\ Buffered \in Text /\ absorbed \o Buffered = Prefix(fed)
      /\ Prefix(fed) \in Text
  BY Unpacked DEF Standing, Compressed
<1>2. PICK a \in Text : a = <<Mark>> \o Zeros(z)
  BY MarkType, PadType
<1>3. /\ SubSeq(Marked(buf), 1, k) = Buffered \o a
      /\ Marked(buf) \in Text /\ Len(Marked(buf)) = Block
  BY <1>2, MarkedCut
<1>4. Trailing(Buffered, a, t) /\ Trailing(absorbed, Buffered, a)
  BY <1>1, TrailingIs, Zenon
<1>5. PICK x \in Text : x = a \o t
  BY ConcatType
<1>6. Trailing(absorbed, Buffered, x)
  BY <1>1, TrailingIs, Zenon
<1>7. absorbed \o (SubSeq(Marked(buf), 1, k) \o t) = Prefix(fed) \o (a \o t)
  BY <1>1, <1>3, <1>4, <1>5, <1>6 DEF Trailing
<1>8. k = Block => SubSeq(Marked(buf), 1, k) = Marked(buf)
  BY <1>3, Whole
<1>9. k = Block => absorbed \o Marked(buf) = Prefix(fed) \o a
  BY <1>1, <1>3, <1>4, <1>8 DEF Trailing
<1>. QED
  BY <1>2, <1>7, <1>8, <1>9

\* A close that compresses its padding itself.
LEMMA AloneEnds ==
    ASSUME StreamInv, hash' = hash, fed' = fed, hash # "fugue", shift = 0,
           NEW b, NEW bytes, NEW tw, Compress(b, bytes, tw),
           absorbed \o bytes = Padded(Prefix(fed)), tweaks \o tw = Tweaked(Prefix(fed))
    PROVE  Ending' /\ Finished'
<1>1. absorbed' = absorbed \o bytes /\ tweaks' = tweaks \o tw /\ stage' = "padded" /\ shift' = 0
  BY DEF Compress
<1>2. /\ Padded(Prefix(fed))' = Padded(Prefix(fed))
      /\ Tweaked(Prefix(fed))' = Tweaked(Prefix(fed))
  BY SamePrefix
<1>. QED
  BY <1>1, <1>2 DEF Ending, Finished

\* The marked buffer is the last block of the message: cubehash, luffa, shabal.
LEMMA MarkEnds ==
    ASSUME StreamInv, stage = "idle", hash \in {"cubehash", "luffa", "shabal"},
           NEW n \in Nat, Standing(n)
    PROVE  /\ hash # "luffa" => /\ absorbed \o Marked(buf) = Padded(Prefix(fed))
                                /\ Len(Padded(Prefix(fed))) = Block * (n + 1)
           /\ hash = "luffa" => /\ absorbed \o (Marked(buf) \o Zeros(64)) = Padded(Prefix(fed))
                                /\ Len(Padded(Prefix(fed))) = Block * (n + 3)
           /\ shift = 0
<1>1. /\ Block = (IF hash = "shabal" THEN 64 ELSE 32) /\ ptr \in Nat /\ ptr < Block
      /\ absorbed \in Text /\ Len(absorbed) = Block * n /\ shift = 0
  BY Unpacked, CoreIs, SMTT(30) DEF StreamInv, Places, Standing, Compressed
<1>2. PICK z \in Nat : z + ptr + 1 = Block /\ ptr + 1 + z = Block
  <2>1. Block - 1 - ptr \in Nat /\ Block - 1 - ptr + ptr + 1 = Block /\ ptr + 1 + (Block - 1 - ptr) = Block
    BY <1>1
  <2>. QED
    BY <2>1, Zenon
<1>3. HasBlocks(Prefix(fed), Block, n, ptr)
  BY Unpacked, PrefixType DEF Standing, HasBlocks
<1>4. /\ hash # "luffa" => Padded(Prefix(fed)) = Prefix(fed) \o (<<Mark>> \o Zeros(z))
      /\ hash = "luffa" =>
            Padded(Prefix(fed)) = (Prefix(fed) \o (<<Mark>> \o Zeros(z))) \o Zeros(64)
  BY <1>1, <1>2, <1>3, MarkPadding
<1>5. /\ absorbed \o Marked(buf) = Prefix(fed) \o (<<Mark>> \o Zeros(z))
      /\ Marked(buf) \in Text /\ Len(Marked(buf)) = Block
  <2>1. Block \in Nat /\ Block <= Block /\ <<>> \in Text /\ hash # "fugue"
    BY Unpacked, EmptyType
  <2>. QED
    BY <1>1, <1>2, <2>1, MarkedJoins, MarkedCut
<1>6. PICK x \in Text : x = absorbed \o Marked(buf) /\ Len(x) = Block * n + Block
  <2>1. /\ absorbed \o Marked(buf) \in Text
        /\ Len(absorbed \o Marked(buf)) = Block * n + Block
    BY <1>1, <1>5, ConcatType
  <2>. QED
    BY <2>1, Zenon
<1>7. PICK y \in Text : y = Zeros(64) /\ Len(y) = 64
  BY ZerosType
<1>8. x \o y \in Text /\ Len(x \o y) = (Block * n + Block) + 64
  <2>1. Len(x) = Block * n + Block /\ Len(y) = 64
    BY <1>6, <1>7
  <2>2. x \o y \in Text /\ Len(x \o y) = Len(x) + Len(y)
    BY ConcatType, Zenon
  <2>. QED
    BY <2>1, <2>2
<1>9. Trailing(absorbed, Marked(buf), y)
  BY <1>1, <1>5, TrailingIs, Zenon
<1>10. CASE hash # "luffa"
  <2>1. Padded(Prefix(fed)) = x
    BY <1>4, <1>5, <1>6, <1>10
  <2>2. Block * n + Block = Block * (n + 1)
    BY <1>1
  <2>. QED
    BY <1>1, <1>6, <1>10, <2>1, <2>2
<1>11. CASE hash = "luffa"
  <2>1. Padded(Prefix(fed)) = x \o y
    BY <1>4, <1>5, <1>6, <1>7, <1>11
  <2>2. absorbed \o (Marked(buf) \o Zeros(64)) = x \o y
    BY <1>6, <1>7, <1>9 DEF Trailing
  <2>3. (Block * n + Block) + 64 = Block * (n + 3)
    BY <1>1, <1>11
  <2>. QED
    BY <1>1, <1>8, <1>11, <2>1, <2>2, <2>3
<1>. QED
  BY <1>10, <1>11

LEMMA CubehashEnds ==
    ASSUME StreamInv, hash' = hash, fed' = fed, stage = "idle", CloseCubehash,
           NEW n \in Nat, Standing(n)
    PROVE  Ending' /\ Finished'
<1>1. hash = "cubehash" /\ Compress(Marked(buf), Marked(buf), <<0>>) /\ hash \in Hashes
  BY Unpacked DEF CloseCubehash
<1>2. /\ absorbed \o Marked(buf) = Padded(Prefix(fed)) /\ shift = 0
      /\ Len(Padded(Prefix(fed))) = Block * (n + 1)
  BY <1>1, MarkEnds
<1>3. tweaks \o <<0>> = Tweaked(Prefix(fed))
  <2>1. n + 1 \in Nat
    OBVIOUS
  <2>2. RunTweak[n + 1] = 0
    BY <1>1, <2>1, RunTweakIs, Zenon
  <2>3. tweaks \o <<0>> = Listed(RunTweak, n + 1)
    BY <2>2, ListedEnds DEF Standing, Compressed
  <2>. QED
    BY <1>1, <1>2, <2>1, <2>3, PlainTweaks
<1>. QED
  BY <1>1, <1>2, <1>3, AloneEnds

LEMMA LuffaEnds ==
    ASSUME StreamInv, hash' = hash, fed' = fed, stage = "idle", CloseLuffa,
           NEW n \in Nat, Standing(n)
    PROVE  Ending' /\ Finished'
<1>1. hash = "luffa" /\ Compress(Zeros(32), Marked(buf) \o Zeros(64), <<0, 0, 0>>)
      /\ hash \in Hashes
  BY Unpacked DEF CloseLuffa
<1>2. /\ absorbed \o (Marked(buf) \o Zeros(64)) = Padded(Prefix(fed)) /\ shift = 0
      /\ Len(Padded(Prefix(fed))) = Block * (n + 3)
  BY <1>1, MarkEnds
<1>3. tweaks \o <<0, 0, 0>> = Tweaked(Prefix(fed))
  <2>1. n + 1 \in Nat /\ n + 2 \in Nat /\ n + 3 \in Nat
    OBVIOUS
  <2>2. RunTweak[n + 1] = 0 /\ RunTweak[n + 2] = 0 /\ RunTweak[n + 3] = 0
    BY <1>1, <2>1, RunTweakIs, Zenon
  <2>3. Listed(RunTweak, n) \o <<0, 0, 0>> = Listed(RunTweak, n + 3)
    BY <2>2, ListedEnds, Zenon
  <2>. QED
    BY <1>1, <1>2, <2>1, <2>3, PlainTweaks DEF Standing, Compressed
<1>. QED
  BY <1>1, <1>2, <1>3, AloneEnds

\* The permutations after the last block see the counter of that block.
LEMMA ShabalEnds ==
    ASSUME StreamInv, hash' = hash, fed' = fed, stage = "idle", CloseShabal,
           NEW n \in Nat, Standing(n)
    PROVE  Ending' /\ Finished'
<1>1. hash = "shabal" /\ Compress(Marked(buf), Marked(buf), <<count, count, count, count>>)
      /\ hash \in Hashes
  BY Unpacked DEF CloseShabal
<1>2. /\ absorbed \o Marked(buf) = Padded(Prefix(fed)) /\ shift = 0
      /\ Len(Padded(Prefix(fed))) = Block * (n + 1)
  BY <1>1, MarkEnds
<1>3. tweaks \o <<count, count, count, count>> = Tweaked(Prefix(fed))
  <2>. DEFINE f == [i \in Nat |-> Least(i, n + 1)]
  <2>1. count = n + 1
    BY <1>1, CounterIs DEF Standing, Counts
  <2>2. f[n + 1] = count /\ f[n + 2] = count /\ f[n + 3] = count /\ f[n + 4] = count
    BY <2>1 DEF Least
  <2>3. \A i \in 1..n : RunTweak[i] = f[i]
    <3>. SUFFICES ASSUME NEW i \in 1..n PROVE RunTweak[i] = f[i]
      OBVIOUS
    <3>1. RunTweak[i] = i
      BY <1>1, RunTweakIs
    <3>2. f[i] = i
      BY DEF Least
    <3>. QED
      BY <3>1, <3>2
  <2>4. Tweaked(Prefix(fed)) = Listed(f, n + 4)
    <3>1. n + 1 \in Nat /\ Len(Padded(Prefix(fed))) = Block * (n + 1)
      BY <1>2
    <3>2. Len(Padded(Prefix(fed))) \div Block = n + 1
      BY <1>1, <3>1, WholeBlocks
    <3>3. Tweaked(Prefix(fed)) = [i \in 1..(n + 1) + 3 |-> Least(i, n + 1)]
      BY <1>1, <3>2 DEF Tweaked
    <3>. QED
      BY <3>3 DEF Listed
  <2>. HIDE DEF f
  <2>5. tweaks = Listed(f, n)
    BY <2>3, ListedSame DEF Standing, Compressed
  <2>6. Listed(f, n) \o <<count, count, count, count>> = Listed(f, n + 4)
    BY <2>2, ListedEnds, Zenon
  <2>. QED
    BY <2>4, <2>5, <2>6
<1>. QED
  BY <1>1, <1>2, <1>3, AloneEnds

LEMMA TwoBytes == LittleEndian(512, 2) = <<0, 2>>
<1>1. Digit(512, 0) = 0 /\ Digit(512, 1) = 2
  BY DEF Digit
<1>. QED
  BY <1>1 DEF LittleEndian

LEMMA FrontOfZeros ==
    ASSUME NEW n \in Nat, NEW k \in Nat, k <= n
    PROVE  SubSeq(Zeros(n), 1, k) = Zeros(k)
<1>1. Zeros(n) \in Text /\ Len(Zeros(n)) = n /\ Zeros(k) \in Text /\ Len(Zeros(k)) = k
  BY ZerosType
<1>2. PICK a \in Text : a = SubSeq(Zeros(n), 1, k) /\ Len(a) = k
  BY <1>1, TakenFrom
<1>3. ASSUME NEW i \in 1..k
      PROVE  a[i] = Zeros(k)[i]
  <2>1. a[i] = Zeros(n)[1 + i - 1]
    BY <1>1, <1>2, PartAt
  <2>. QED
    BY <2>1 DEF Zeros
<1>. QED
  BY <1>1, <1>2, <1>3, SameText

\* The end of the last block of echo, and of sha256.
LEMMA EchoEnds ==
    ASSUME StreamInv, hash' = hash, fed' = fed, stage = "idle", CloseEcho,
           NEW n \in Nat, Standing(n)
    PROVE  Ending' /\ Finished'
<1>1. /\ hash = "echo" /\ hash \in Hashes /\ Block = 128 /\ Core.start = 0 /\ Core.tick = 1024
      /\ ptr \in 0..127 /\ shift = 0
  <2>1. hash = "echo" /\ hash \in Hashes
    BY Unpacked DEF CloseEcho
  <2>2. Block = 128 /\ Core.start = 0 /\ Core.tick = 1024 /\ ptr \in Nat /\ ptr < Block
    BY <2>1, Unpacked, CoreIs, CounterIs DEF StreamInv, Places
  <2>. QED
    BY <2>1, <2>2 DEF Standing, Compressed
<1>2. fed = 128 * n + ptr /\ count = 1024 * n /\ fed \in Nat
  BY <1>1, Unpacked DEF Standing, Counts
<1>3. PICK bits \in Nat : bits = count + 8 * ptr /\ bits = 8 * fed
  <2>1. count + 8 * ptr = 8 * fed /\ 8 * fed \in Nat
    BY <1>1, <1>2
  <2>. QED
    BY <2>1, Zenon
<1>4. PICK own \in Nat : own = IF ptr = 0 THEN 0 ELSE bits
  <2>1. (IF ptr = 0 THEN 0 ELSE bits) \in Nat
    OBVIOUS
  <2>. QED
    BY <2>1, Zenon
<1>. DEFINE End(b) == (SubSeq(b, 1, 110) \o <<0, 2>>) \o LittleEndian(bits, 16)
<1>5. IF ptr + 1 > 110
      THEN Compress(End(Zeros(128)), Marked(buf) \o End(Zeros(128)), <<own, 0>>)
      ELSE Compress(End(Marked(buf)), End(Marked(buf)), <<own>>)
  BY <1>1, <1>3, <1>4, TwoBytes DEF CloseEcho
<1>6. /\ tweaks = Listed(BitTweak, n) /\ BitTweak[n + 1] = own /\ BitTweak[n + 2] = 0
  BY <1>1, <1>3, <1>4, BitsSoFar
<1>7. HasBlocks(Prefix(fed), 128, n, ptr) /\ HasBits(Prefix(fed), bits)
      /\ Prefix(fed) \in Text /\ Len(Prefix(fed)) = fed
  <2>1. Prefix(fed) \in Text /\ Len(Prefix(fed)) = fed
    BY <1>2, Unpacked, PrefixType
  <2>. QED
    BY <1>2, <1>3, <2>1 DEF HasBlocks, HasBits
<1>8. EchoPadded(Prefix(fed), ptr, bits)
  BY <1>1, <1>7, EchoPadding, SMTT(30)
<1>9. PICK w \in Text, o \in Text : w = LittleEndian(bits, 16) /\ Len(w) = 16
                                      /\ o = <<0, 2>> /\ Len(o) = 2
  <2>1. <<0, 2>> \in Text /\ Len(<<0, 2>>) = 2
    BY DEF Text
  <2>2. LittleEndian(bits, 16) \in Text /\ Len(LittleEndian(bits, 16)) = 16
    BY WordTypes
  <2>. QED
    BY <2>1, <2>2, Zenon
<1>10. Len(w) = 16 /\ Len(o) = 2
  BY <1>9
<1>11. PICK k \in Nat, b \in Nat : k = 110 /\ b = 128
  OBVIOUS
<1>12. ASSUME NEW p \in Text, NEW l \in Nat, p = Padded(Prefix(fed)), Len(p) = 128 * (n + l),
             l \in {1, 2}
      PROVE  Tweaked(Prefix(fed)) = Listed(BitTweak, n + l)
  <2>1. n + l \in Nat /\ Len(Padded(Prefix(fed))) = Block * (n + l)
    BY <1>1, <1>12
  <2>. QED
    BY <1>1, <1>7, <2>1, BitTweaks
<1>13. CASE ~ (ptr + 1 > 110)
  <2>1. PICK z \in Nat : z + ptr = 109 /\ ptr + 1 + z = 110
    <3>1. 109 - ptr \in Nat /\ 109 - ptr + ptr = 109 /\ ptr + 1 + (109 - ptr) = 110
      BY <1>1, <1>13
    <3>. QED
      BY <3>1, Zenon
  <2>2. PICK t \in Text : t = o \o w /\ Len(t) = 18
    <3>1. o \o w \in Text /\ Len(o \o w) = Len(o) + Len(w)
      BY ConcatType, Zenon
    <3>2. o \o w \in Text /\ Len(o \o w) = 18
      BY <1>10, <3>1
    <3>. QED
      BY <3>2, Zenon
  <2>3. PICK a \in Text : a = <<Mark>> \o Zeros(z) /\ Len(a) = 1 + z
    BY MarkType, PadType, EmptyType, Zenon
  <2>4. PICK c \in Text : c = SubSeq(Marked(buf), 1, k)
    <3>1. Marked(buf) \in Text /\ Len(Marked(buf)) = 128 /\ k <= 128
      BY <1>1, <1>11, MarkedType
    <3>. QED
      BY <3>1, TakenFrom, ZenonT(30)
  <2>5. absorbed \o (c \o t) = Prefix(fed) \o (a \o t)
    <3>1. k <= Block /\ hash # "fugue" /\ ptr + 1 + z = k
      BY <1>1, <1>11, <2>1
    <3>2. absorbed \o (SubSeq(Marked(buf), 1, k) \o t)
            = Prefix(fed) \o ((<<Mark>> \o Zeros(z)) \o t)
      BY <3>1, MarkedJoins, ZenonT(30)
    <3>. QED
      BY <2>3, <2>4, <3>2
  <2>6. Trailing(c, o, w) /\ Trailing(a, o, w)
    BY TrailingIs, Zenon
  <2>7. Padded(Prefix(fed)) = Prefix(fed) \o ((a \o o) \o w)
    <3>1. Padded(Prefix(fed))
            = Prefix(fed) \o (((<<Mark>> \o Zeros(z)) \o <<0, 2>>) \o LittleEndian(bits, 16))
      BY <1>8, <2>1 DEF EchoPadded
    <3>. QED
      BY <1>9, <2>3, <3>1
  <2>8. absorbed \o End(Marked(buf)) = Padded(Prefix(fed))
    BY <1>9, <1>11, <2>2, <2>4, <2>5, <2>6, <2>7 DEF Trailing
  <2>9. PICK p \in Text : p = Padded(Prefix(fed)) /\ Len(p) = 128 * (n + 1)
    <3>1. a \o t \in Text /\ Len(a \o t) = (1 + z) + 18
      BY <2>2, <2>3, ConcatType
    <3>2. /\ Prefix(fed) \o (a \o t) \in Text
          /\ Len(Prefix(fed) \o (a \o t)) = fed + ((1 + z) + 18)
      BY <1>7, <3>1, ConcatType
    <3>3. Padded(Prefix(fed)) = Prefix(fed) \o (a \o t)
      BY <2>2, <2>6, <2>7 DEF Trailing
    <3>4. fed + ((1 + z) + 18) = 128 * (n + 1)
      BY <1>1, <1>2, <2>1
    <3>. QED
      BY <3>2, <3>3, <3>4
  <2>10. tweaks \o <<own>> = Tweaked(Prefix(fed))
    <3>1. Tweaked(Prefix(fed)) = Listed(BitTweak, n + 1)
      BY <1>12, <2>9
    <3>. QED
      BY <1>6, <3>1, ListedEnds
  <2>. QED
    BY <1>1, <1>5, <1>13, <2>8, <2>10, AloneEnds, ZenonT(30)
<1>14. CASE ptr + 1 > 110
  <2>1. PICK y \in Nat : y = 127 - ptr
    <3>1. 127 - ptr \in Nat
      BY <1>1
    <3>. QED
      BY <3>1, Zenon
  <2>2. y + ptr = 127 /\ ptr + 1 + y = 128 /\ ptr >= 110
    BY <1>1, <1>14, <2>1
  <2>3. PICK a \in Text : a = <<Mark>> \o Zeros(y) /\ Len(a) = 1 + y
    BY MarkType, PadType, EmptyType, Zenon
  <2>4. SubSeq(Zeros(128), 1, 110) = Zeros(110)
    <3>1. k <= b
      BY <1>11
    <3>2. SubSeq(Zeros(b), 1, k) = Zeros(k)
      BY <3>1, FrontOfZeros, Zenon
    <3>. QED
      BY <1>11, <3>2
  <2>5. PICK e \in Text : e = (Zeros(110) \o o) \o w /\ Len(e) = 128
    <3>1. PICK x \in Text : x = Zeros(110) /\ Len(x) = 110
      BY ZerosType
    <3>2. PICK v \in Text : v = x \o o /\ Len(v) = 112
      <4>1. Len(x) = 110
        BY <3>1
      <4>2. x \o o \in Text /\ Len(x \o o) = Len(x) + Len(o)
        BY ConcatType, Zenon
      <4>3. x \o o \in Text /\ Len(x \o o) = 112
        BY <1>10, <4>2, <4>1
      <4>. QED
        BY <4>3, Zenon
    <3>3. v \o w \in Text /\ Len(v \o w) = Len(v) + Len(w)
      BY ConcatType, Zenon
    <3>4. v \o w \in Text /\ Len(v \o w) = 128
      BY <1>10, <3>3, <3>2
    <3>. QED
      BY <3>1, <3>2, <3>4, ZenonT(30)
  <2>6. End(Zeros(128)) = e
    BY <1>9, <2>4, <2>5
  <2>7. absorbed \o Marked(buf) = Prefix(fed) \o a /\ Marked(buf) \in Text
    <3>1. Block \in Nat /\ Block <= Block /\ <<>> \in Text /\ hash # "fugue" /\ ptr + 1 + y = Block
      BY <1>1, <2>2, EmptyType
    <3>. QED
      BY <2>3, <3>1, MarkedJoins, MarkedCut
  <2>8. Padded(Prefix(fed)) = (Prefix(fed) \o a) \o e
    <3>1. Padded(Prefix(fed)) = (Prefix(fed) \o (<<Mark>> \o Zeros(y)))
                                  \o ((Zeros(110) \o <<0, 2>>) \o LittleEndian(bits, 16))
      BY <1>8, <2>2 DEF EchoPadded
    <3>. QED
      BY <1>9, <2>3, <2>5, <3>1
  <2>9. absorbed \o (Marked(buf) \o End(Zeros(128))) = Padded(Prefix(fed))
    <3>1. absorbed \in Text
      BY DEF Standing, Compressed
    <3>2. Trailing(absorbed, Marked(buf), e)
      BY <2>7, <3>1, TrailingIs, Zenon
    <3>. QED
      BY <2>6, <2>7, <2>8, <3>2 DEF Trailing
  <2>10. PICK p \in Text : p = Padded(Prefix(fed)) /\ Len(p) = 128 * (n + 2)
    <3>1. Len(a) = 1 + y
      BY <2>3
    <3>2. Prefix(fed) \o a \in Text /\ Len(Prefix(fed) \o a) = fed + (1 + y)
      BY <1>7, <3>1, ConcatType
    <3>3. /\ (Prefix(fed) \o a) \o e \in Text
          /\ Len((Prefix(fed) \o a) \o e) = (fed + (1 + y)) + 128
      BY <2>5, <3>2, ConcatType
    <3>4. (fed + (1 + y)) + 128 = 128 * (n + 2)
      BY <1>1, <1>2, <2>2
    <3>. QED
      BY <2>8, <3>3, <3>4
  <2>11. tweaks \o <<own, 0>> = Tweaked(Prefix(fed))
    <3>1. Tweaked(Prefix(fed)) = Listed(BitTweak, n + 2)
      BY <1>12, <2>10
    <3>. QED
      BY <1>6, <3>1, ListedEnds
  <2>12. Compress(End(Zeros(128)), Marked(buf) \o End(Zeros(128)), <<own, 0>>)
    BY <1>5, <1>14
  <2>. HIDE DEF End
  <2>. QED
    BY <1>1, <2>9, <2>11, <2>12, AloneEnds, ZenonT(30)
<1>. QED
  BY <1>13, <1>14

LEMMA Sha256Ends ==
    ASSUME StreamInv, hash' = hash, fed' = fed, stage = "idle", CloseSha256,
           NEW n \in Nat, Standing(n)
    PROVE  Ending' /\ Finished'
<1>1. /\ hash = "sha256" /\ hash \in Hashes /\ Block = 64 /\ ptr \in 0..63 /\ shift = 0
      /\ absorbed \in Text
  <2>1. hash = "sha256" /\ hash \in Hashes
    BY Unpacked DEF CloseSha256
  <2>2. Block = 64 /\ ptr \in Nat /\ ptr < Block
    BY <2>1, Unpacked, CoreIs DEF StreamInv, Places
  <2>. QED
    BY <2>1, <2>2 DEF Standing, Compressed
<1>2. fed = 64 * n + ptr /\ count = fed /\ fed \in Nat
  BY <1>1, Unpacked DEF Standing, Counts
<1>3. PICK bits \in Nat : bits = 8 * count
  <2>1. 8 * count \in Nat
    BY <1>1, <1>2
  <2>. QED
    BY <2>1, Zenon
<1>. DEFINE End(b) == SubSeq(b, 1, 56) \o BigEndian(bits, 8)
<1>4. IF ptr + 1 > 56
      THEN Compress(End(Zeros(64)), Marked(buf) \o End(Zeros(64)), <<0, 0>>)
      ELSE Compress(End(Marked(buf)), End(Marked(buf)), <<0>>)
  BY <1>3 DEF CloseSha256
<1>5. Prefix(fed) \in Text /\ Len(Prefix(fed)) = fed
  BY <1>2, Unpacked, PrefixType
<1>6. HasBlocks(Prefix(fed), 64, n, ptr) /\ HasBits(Prefix(fed), bits)
  BY <1>2, <1>3, <1>5 DEF HasBlocks, HasBits
<1>7. Sha256Padded(Prefix(fed), ptr, bits)
  BY <1>1, <1>6, Sha256Padding
<1>8. PICK w \in Text : w = BigEndian(bits, 8) /\ Len(w) = 8
  BY WordTypes
<1>9. Len(w) = 8
  BY <1>8
<1>10. PICK k \in Nat, b \in Nat : k = 56 /\ b = 64
  OBVIOUS
<1>11. /\ n + 1 \in Nat /\ n + 2 \in Nat /\ tweaks = Listed(RunTweak, n)
       /\ RunTweak[n + 1] = 0 /\ RunTweak[n + 2] = 0
  <2>1. n + 1 \in Nat /\ n + 2 \in Nat
    OBVIOUS
  <2>2. RunTweak[n + 1] = 0 /\ RunTweak[n + 2] = 0
    BY <1>1, <2>1, RunTweakIs, Zenon
  <2>. QED
    BY <2>1, <2>2 DEF Standing, Compressed
<1>12. CASE ~ (ptr + 1 > 56)
  <2>1. PICK z \in Nat : z = 55 - ptr
    <3>1. 55 - ptr \in Nat
      BY <1>1, <1>12
    <3>. QED
      BY <3>1, Zenon
  <2>2. z + ptr = 55 /\ ptr + 1 + z = k /\ k <= Block /\ hash # "fugue"
    BY <1>1, <1>10, <2>1
  <2>3. PICK a \in Text : a = <<Mark>> \o Zeros(z) /\ Len(a) = 1 + z
    BY MarkType, PadType, EmptyType, Zenon
  <2>4. absorbed \o (SubSeq(Marked(buf), 1, k) \o w)
          = Prefix(fed) \o ((<<Mark>> \o Zeros(z)) \o w)
    BY <2>2, MarkedJoins, Zenon
  <2>5. Padded(Prefix(fed)) = Prefix(fed) \o ((<<Mark>> \o Zeros(z)) \o BigEndian(bits, 8))
    BY <1>7, <2>2 DEF Sha256Padded
  <2>6. absorbed \o End(Marked(buf)) = Padded(Prefix(fed))
    BY <1>8, <1>10, <2>4, <2>5
  <2>7. Len(Padded(Prefix(fed))) = Block * (n + 1)
    <3>1. a \o w \in Text /\ Len(a \o w) = (1 + z) + 8
      BY <1>9, <2>3, ConcatType
    <3>2. Len(Prefix(fed) \o (a \o w)) = fed + ((1 + z) + 8)
      BY <1>5, <3>1, ConcatType
    <3>3. Padded(Prefix(fed)) = Prefix(fed) \o (a \o w)
      BY <1>8, <2>3, <2>5
    <3>4. fed + ((1 + z) + 8) = Block * (n + 1)
      BY <1>1, <1>2, <2>2
    <3>. QED
      BY <3>2, <3>3, <3>4
  <2>8. tweaks \o <<0>> = Tweaked(Prefix(fed))
    <3>1. Tweaked(Prefix(fed)) = Listed(RunTweak, n + 1)
      BY <1>1, <1>11, <2>7, PlainTweaks
    <3>. QED
      BY <1>11, <3>1, ListedEnds
  <2>9. Compress(End(Marked(buf)), End(Marked(buf)), <<0>>)
    BY <1>4, <1>12
  <2>. HIDE DEF End
  <2>. QED
    BY <1>1, <2>6, <2>8, <2>9, AloneEnds
<1>13. CASE ptr + 1 > 56
  <2>1. PICK y \in Nat : y = 63 - ptr
    <3>1. 63 - ptr \in Nat
      BY <1>1
    <3>. QED
      BY <3>1, Zenon
  <2>2. y + ptr = 63 /\ ptr + 1 + y = Block /\ ptr >= 56 /\ Block <= Block /\ hash # "fugue"
    BY <1>1, <1>13, <2>1
  <2>3. PICK a \in Text : a = <<Mark>> \o Zeros(y) /\ Len(a) = 1 + y
    BY MarkType, PadType, EmptyType, Zenon
  <2>4. SubSeq(Zeros(64), 1, 56) = Zeros(56)
    <3>1. k <= b
      BY <1>10
    <3>2. SubSeq(Zeros(b), 1, k) = Zeros(k)
      BY <3>1, FrontOfZeros, Zenon
    <3>. QED
      BY <1>10, <3>2
  <2>5. PICK e \in Text : e = Zeros(56) \o w /\ Len(e) = 64
    <3>1. PICK x \in Text : x = Zeros(56) /\ Len(x) = 56
      BY ZerosType
    <3>2. x \o w \in Text /\ Len(x \o w) = Len(x) + Len(w)
      BY ConcatType, Zenon
    <3>3. Len(x) = 56
      BY <3>1
    <3>4. x \o w \in Text /\ Len(x \o w) = 64
      BY <1>9, <3>2, <3>3
    <3>. QED
      BY <3>1, <3>4
  <2>6. End(Zeros(64)) = e
    BY <1>8, <2>4, <2>5
  <2>7. absorbed \o Marked(buf) = Prefix(fed) \o a /\ Marked(buf) \in Text
    <3>1. Block \in Nat /\ <<>> \in Text
      BY <1>1, EmptyType
    <3>2. absorbed \o Marked(buf) = Prefix(fed) \o (<<Mark>> \o Zeros(y))
      BY <2>2, <3>1, MarkedJoins, Zenon
    <3>3. Marked(buf) \in Text
      BY <1>1, MarkedType
    <3>. QED
      BY <2>3, <3>2, <3>3
  <2>8. Padded(Prefix(fed)) = (Prefix(fed) \o a) \o e
    <3>1. Padded(Prefix(fed)) =
            (Prefix(fed) \o (<<Mark>> \o Zeros(y))) \o (Zeros(56) \o BigEndian(bits, 8))
      BY <1>7, <2>2 DEF Sha256Padded
    <3>. QED
      BY <1>8, <2>3, <2>5, <3>1
  <2>9. absorbed \o (Marked(buf) \o End(Zeros(64))) = Padded(Prefix(fed))
    <3>1. Trailing(absorbed, Marked(buf), e)
      BY <1>1, <2>7, TrailingIs, Zenon
    <3>. QED
      BY <2>6, <2>7, <2>8, <3>1 DEF Trailing
  <2>10. Len(Padded(Prefix(fed))) = Block * (n + 2)
    <3>1. Len(a) = 1 + y /\ Len(e) = 64
      BY <2>3, <2>5
    <3>2. Prefix(fed) \o a \in Text /\ Len(Prefix(fed) \o a) = fed + (1 + y)
      BY <1>5, <3>1, ConcatType
    <3>3. Len((Prefix(fed) \o a) \o e) = (fed + (1 + y)) + 64
      BY <3>1, <3>2, ConcatType
    <3>4. (fed + (1 + y)) + 64 = Block * (n + 2)
      BY <1>1, <1>2, <2>2
    <3>. QED
      BY <2>8, <3>3, <3>4
  <2>11. tweaks \o <<0, 0>> = Tweaked(Prefix(fed))
    <3>1. Tweaked(Prefix(fed)) = Listed(RunTweak, n + 2)
      BY <1>1, <1>11, <2>10, PlainTweaks
    <3>. QED
      BY <1>11, <3>1, ListedEnds
  <2>12. Compress(End(Zeros(64)), Marked(buf) \o End(Zeros(64)), <<0, 0>>)
    BY <1>4, <1>13
  <2>. HIDE DEF End
  <2>. QED
    BY <1>1, <2>9, <2>11, <2>12, AloneEnds
<1>. QED
  BY <1>12, <1>13

\* The last block of the message under its flag, and the block of the output.
LEMMA SkeinEnds ==
    ASSUME StreamInv, hash' = hash, fed' = fed, stage = "idle", CloseSkein,
           NEW n \in Nat, Standing(n)
    PROVE  Ending' /\ Finished'
<1>1. /\ hash = "skein" /\ hash \in Hashes /\ Block = 64 /\ ptr \in 0..64 /\ shift = 0
      /\ absorbed \in Text /\ buf \in Text /\ Len(buf) = 64
      /\ Buffered = SubSeq(buf, 1, ptr) /\ Buffered \in Text /\ Len(Buffered) = ptr
      /\ absorbed \o Buffered = Prefix(fed)
  <2>1. hash = "skein" /\ hash \in Hashes
    BY Unpacked DEF CloseSkein
  <2>2. Block = 64
    BY <2>1, Unpacked, CoreIs
  <2>3. /\ ptr \in Nat /\ ptr <= Block /\ buf \in Text /\ Len(buf) = Block
        /\ Buffered \in Text /\ Len(Buffered) = ptr
    BY Unpacked
  <2>4. ptr \in 0..64
    BY <2>2, <2>3
  <2>5. Buffered = SubSeq(buf, 1, ptr)
    BY <2>1 DEF Buffered
  <2>6. absorbed \in Text /\ shift = 0 /\ absorbed \o Buffered = Prefix(fed)
    BY <2>1 DEF Standing, Compressed
  <2>. QED
    BY <2>1, <2>2, <2>3, <2>5, <2>6, <2>4
<1>2. fed = 64 * n + ptr /\ count = n /\ fed \in Nat /\ (ptr = 0 => n = 0)
  <2>1. Core.start = 0 /\ Core.tick = 1
    BY <1>1, CounterIs
  <2>. QED
    BY <1>1, <2>1, Unpacked DEF Standing, Counts
<1>3. PICK z \in Nat : z = 64 - ptr
  <2>1. 64 - ptr \in Nat
    BY <1>1
  <2>. QED
    BY <2>1, Zenon
<1>4. PICK o \in Text : o = Zeros(z) /\ Len(o) = z
  BY ZerosType
<1>5. PICK x \in Text : x = Zeros(64) /\ Len(x) = 64
  BY ZerosType
<1>. DEFINE b == Copy(buf, ptr, o, z)
<1>6. Compress(x, b \o x, <<<<64 * n + ptr, 352 + FirstFlag(n)>>, <<8, 510>>>>)
  BY <1>1, <1>2, <1>3, <1>4, <1>5 DEF CloseSkein, MessageType
<1>7. b = Buffered \o o /\ b \in Text
  <2>1. z <= Len(o) /\ ptr + z <= Len(buf) /\ ptr \in Nat /\ ptr + z = 64
    BY <1>1, <1>3, <1>4
  <2>2. b \in Text /\ Len(b) = 64
    BY <1>1, <2>1, CopyType
  <2>3. SubSeq(b, 1, ptr + z) = SubSeq(buf, 1, ptr) \o SubSeq(o, 1, z)
    <3>1. buf \in Text /\ ptr \in Nat /\ z <= Len(o) /\ ptr + z <= Len(buf)
      BY <1>1, <2>1
    <3>. QED
      BY <3>1, CopyFills, ZenonT(30)
  <2>4. SubSeq(o, 1, z) = o
    BY <1>4, Whole
  <2>5. SubSeq(b, 1, Len(b)) = b
    BY <2>2, Whole
  <2>. HIDE DEF b
  <2>. QED
    BY <1>1, <2>1, <2>2, <2>3, <2>4, <2>5
<1>. HIDE DEF b
<1>8. Prefix(fed) \in Text /\ Len(Prefix(fed)) = fed
  BY <1>2, Unpacked, PrefixType
<1>9. Padded(Prefix(fed)) = (Prefix(fed) \o o) \o x
  <2>1. HasBlocks(Prefix(fed), 64, n, ptr)
    BY <1>2, <1>8 DEF HasBlocks
  <2>2. z + ptr = 64
    BY <1>1, <1>3
  <2>3. Padded(Prefix(fed)) = (Prefix(fed) \o Zeros(z)) \o Zeros(64)
    BY <1>1, <1>2, <2>1, <2>2, SkeinPadding, ZenonT(30)
  <2>. QED
    BY <1>4, <1>5, <2>3
<1>10. absorbed \o (b \o x) = Padded(Prefix(fed))
  <2>1. Trailing(absorbed, Buffered, o) /\ Trailing(absorbed, b, x)
    BY <1>1, <1>7, TrailingIs, Zenon
  <2>. QED
    BY <1>1, <1>7, <1>9, <2>1 DEF Trailing
<1>11. Len(Padded(Prefix(fed))) = Block * (n + 2)
  <2>1. Len(o) = z /\ Len(x) = 64
    BY <1>4, <1>5
  <2>2. Prefix(fed) \o o \in Text /\ Len(Prefix(fed) \o o) = fed + z
    BY <1>8, <2>1, ConcatType
  <2>3. Len((Prefix(fed) \o o) \o x) = (fed + z) + 64
    BY <2>1, <2>2, ConcatType
  <2>4. (fed + z) + 64 = Block * (n + 2)
    BY <1>1, <1>2, <1>3
  <2>. QED
    BY <1>9, <2>3, <2>4
<1>. DEFINE AtStart(i) == IF i = 1 THEN 128 ELSE 0
            AtEnd(i)  == IF i = n + 1 THEN 256 ELSE 0
            Text1(i) == <<Least(64 * i, fed), (96 + AtStart(i)) + AtEnd(i)>>
            f == [i \in Nat |-> IF i = n + 2 THEN <<8, 510>> ELSE Text1(i)]
<1>12. Tweaked(Prefix(fed)) = Listed(f, n + 2)
  <2>1. n + 2 \in Nat /\ (n + 2) - 1 = n + 1
    OBVIOUS
  <2>2. Len(Padded(Prefix(fed))) \div Block = n + 2
    BY <1>1, <1>11, <2>1, WholeBlocks
  <2>3. PICK m \in Text : m = Prefix(fed) /\ Len(m) = fed
    BY <1>8
  <2>. DEFINE Row(c, l) ==
                [i \in 1..c |->
                   IF i = c THEN <<8, 510>>
                   ELSE <<Least(64 * i, l), (96 + AtStart(i)) + (IF i = c - 1 THEN 256 ELSE 0)>>]
  <2>4. Tweaked(m) = Row(Len(Padded(m)) \div Block, Len(m))
    BY <1>1 DEF Tweaked
  <2>5. Tweaked(Prefix(fed)) = [i \in 1..n + 2 |-> IF i = n + 2 THEN <<8, 510>> ELSE Text1(i)]
    <3>1. Len(Padded(m)) \div Block = n + 2 /\ Len(m) = fed
      BY <2>2, <2>3
    <3>2. Tweaked(m) = Row(n + 2, fed)
      <4>. HIDE DEF Row
      <4>. QED
        BY <2>4, <3>1, Zenon
    <3>3. Tweaked(m) = [i \in 1..n + 2 |-> IF i = n + 2 THEN <<8, 510>> ELSE Text1(i)]
      <4>. HIDE DEF AtStart
      <4>. QED
        BY <2>1, <3>2
    <3>. QED
      BY <2>3, <3>3
  <2>6. \A i \in 1..n + 2 : f[i] = IF i = n + 2 THEN <<8, 510>> ELSE Text1(i)
    OBVIOUS
  <2>. HIDE DEF f, Text1
  <2>. QED
    BY <2>5, <2>6 DEF Listed
<1>13. tweaks = Listed(f, n)
  <2>1. ASSUME NEW i \in 1..n
        PROVE  RunTweak[i] = f[i]
    <3>1. RunTweak[i] = <<64 * i, 96 + AtStart(i)>>
      <4>1. hash = "skein" /\ hash \in Hashes /\ i \in Nat
        BY <1>1
      <4>. QED
        BY <4>1, RunTweakIs, Zenon
    <3>2. f[i] = Text1(i)
      OBVIOUS
    <3>3. AtEnd(i) = 0 /\ Least(64 * i, fed) = 64 * i
      BY <1>1, <1>2 DEF Least
    <3>4. (96 + AtStart(i)) + 0 = 96 + AtStart(i)
      OBVIOUS
    <3>. HIDE DEF f, AtStart, AtEnd
    <3>. QED
      BY <3>1, <3>2, <3>3, <3>4
  <2>. HIDE DEF f
  <2>. QED
    BY <2>1, ListedSame DEF Standing, Compressed
<1>14. f[n + 1] = <<64 * n + ptr, 352 + FirstFlag(n)>> /\ f[n + 2] = <<8, 510>>
  <2>1. f[n + 1] = Text1(n + 1)
    OBVIOUS
  <2>2. Least(64 * (n + 1), fed) = 64 * n + ptr
    BY <1>1, <1>2 DEF Least
  <2>3. (96 + AtStart(n + 1)) + AtEnd(n + 1) = 352 + FirstFlag(n)
    BY DEF FirstFlag
  <2>4. f[n + 2] = <<8, 510>>
    OBVIOUS
  <2>. HIDE DEF f, AtStart, AtEnd
  <2>. QED
    BY <2>1, <2>2, <2>3, <2>4
<1>. HIDE DEF f
<1>15. tweaks \o <<<<64 * n + ptr, 352 + FirstFlag(n)>>, <<8, 510>>>> = Tweaked(Prefix(fed))
  <2>1. Listed(f, n) \o <<f[n + 1], f[n + 2]>> = Listed(f, n + 2)
    BY ListedEnds, Zenon
  <2>. QED
    BY <1>12, <1>13, <1>14, <2>1, ZenonT(30)
<1>16. hash # "fugue" /\ shift = 0
  BY <1>1
<1>17. PICK tw : tw = <<<<64 * n + ptr, 352 + FirstFlag(n)>>, <<8, 510>>>>
  OBVIOUS
<1>18. PICK y : y = b \o x
  OBVIOUS
<1>19. /\ Compress(x, y, tw)
       /\ absorbed \o y = Padded(Prefix(fed)) /\ tweaks \o tw = Tweaked(Prefix(fed))
  BY <1>6, <1>10, <1>15, <1>17, <1>18
<1>. QED
  BY <1>16, <1>19, AloneEnds, Zenon

(***************************************************************************)
(* gost, which is no stream.                                               *)
(***************************************************************************)
\* Nothing behind a sequence of any kind.
LEMMA NothingAdded ==
    ASSUME NEW f, NEW n \in Nat, f = [i \in 1..n |-> f[i]]
    PROVE  f \o <<>> = f
<1>. DEFINE T == {f[i] : i \in 1..n}
<1>1. f \in Seq(T)
  OBVIOUS
<1>. HIDE DEF T
<1>. QED
  BY <1>1

LEMMA GostTweaks ==
    ASSUME hash \in Hashes, hash = "gost", NEW m \in Text
    PROVE  Tweaked(m) = [i \in 1..Len(m) \div 64 + 1 |-> 512 * (i - 1)] \o <<8 * Len(m)>>
<1>1. PICK n \in Nat, w \in Nat : n = Len(m) /\ w = n \div 64
  BY DEF Text
<1>2. Block = 64 /\ Len(Padded(m)) = 64 * (w + 1)
  BY <1>1, CoreIs, GostPadding
<1>3. Len(Padded(m)) \div Block = w + 1
  BY <1>2
<1>. QED
  BY <1>1, <1>3 DEF Tweaked

LEMMA GostHashes ==
    ASSUME StreamInv, Gosted, stage = "idle", hash = "gost", NEW d, NEW n, Given(d, n),
           UpdateGost(d)
    PROVE  Gosted' /\ stage' = "idle" /\ pads' = pads
<1>1. /\ d \in Text /\ Prefix(fed) \o d = Prefix(fed') /\ Prefix(fed)' = Prefix(fed')
      /\ hash' = hash /\ Block' = Block
  BY GivenFacts
<1>2. /\ absorbed = <<>> /\ absorbed' = GostBlocks(d) /\ shift' = shift /\ stage' = "idle"
      /\ tweaks' = [i \in 1..Len(d) \div 64 + 1 |-> 512 * (i - 1)] \o <<8 * Len(d)>>
      /\ pads' = pads
  BY DEF UpdateGost, progress
<1>3. hash \in Hashes /\ Prefix(fed) \in Text /\ fed \in Nat
  BY Unpacked
<1>4. fed = 0
  <2>1. Len(Padded(Prefix(fed))) = 64 * (Len(Prefix(fed)) \div 64 + 1)
    BY <1>3, GostPadding
  <2>2. Len(Prefix(fed)) \in Nat
    BY <1>3 DEF Text
  <2>3. Padded(Prefix(fed)) # <<>>
    BY <2>1, <2>2
  <2>. QED
    BY <1>2, <2>3 DEF Gosted
<1>5. Prefix(fed)' = d
  <2>1. Prefix(fed) = <<>>
    BY <1>4, MessageIsText, FullBuffer DEF Prefix
  <2>. QED
    BY <1>1, <2>1, ConcatEmpty
<1>6. Padded(Prefix(fed))' = Padded(d)
  BY <1>1, <1>5 DEF Padded, BlocksFromTheEnd
<1>7. Tweaked(Prefix(fed))' = Tweaked(d)
  BY <1>1, <1>5, <1>6 DEF Tweaked
<1>8. absorbed' = Padded(d) /\ tweaks' = Tweaked(d)
  BY <1>1, <1>2, <1>3, GostPadding, GostTweaks
<1>. QED
  BY <1>1, <1>2, <1>6, <1>7, <1>8 DEF Gosted

LEMMA GostEnds ==
    ASSUME StreamInv, Gosted, stage = "idle", hash' = hash, fed' = fed, CloseGost
    PROVE  Ending' /\ Finished' /\ Gosted' /\ stage' = "padded" /\ pads' = pads
<1>1. /\ hash = "gost" /\ absorbed # <<>> /\ absorbed' = absorbed \o <<>>
      /\ tweaks' = tweaks \o <<>> /\ stage' = "padded" /\ shift' = shift /\ pads' = pads
  BY DEF CloseGost, Compress
<1>2. absorbed = Padded(Prefix(fed)) /\ tweaks = Tweaked(Prefix(fed)) /\ shift = 0
  BY <1>1 DEF Gosted
<1>3. PICK m \in Text : m = Prefix(fed)
  BY Unpacked
<1>4. PICK w \in Nat, l \in Nat : w = Len(m) \div 64 /\ l = Len(m)
  BY DEF Text
<1>5. hash \in Hashes
  BY Unpacked
<1>6. absorbed' = absorbed
  <2>1. absorbed = GostBlocks(m)
    BY <1>1, <1>2, <1>3, <1>5, GostPadding
  <2>2. 64 * (w + 1) \in Nat
    OBVIOUS
  <2>3. absorbed = [i \in 1..64 * (w + 1) |-> absorbed[i]]
    BY <1>4, <2>1 DEF GostBlocks
  <2>4. absorbed \o <<>> = absorbed
    BY <2>2, <2>3, NothingAdded, Zenon
  <2>. QED
    BY <1>1, <2>4
<1>7. tweaks' = tweaks
  <2>1. tweaks = [i \in 1..w + 1 |-> 512 * (i - 1)] \o <<8 * l>>
    BY <1>1, <1>2, <1>3, <1>4, <1>5, GostTweaks
  <2>2. [i \in 1..w + 1 |-> 512 * (i - 1)] \in Text /\ <<8 * l>> \in Text
    BY DEF Text
  <2>3. tweaks \in Text
    BY <2>1, <2>2, ConcatType
  <2>. QED
    BY <1>1, <2>3, ConcatEmpty
<1>8. /\ Padded(Prefix(fed))' = Padded(Prefix(fed))
      /\ Tweaked(Prefix(fed))' = Tweaked(Prefix(fed))
  BY SamePrefix
<1>. QED
  BY <1>1, <1>2, <1>6, <1>7, <1>8 DEF Ending, Finished, Gosted

(***************************************************************************)
(* Every step of the context keeps the digest right.                       *)
(***************************************************************************)
LEMMA OtherHash ==
    ASSUME hash' = hash, hash # "gost"
    PROVE  Gosted'
BY DEF Gosted

\* A step in a call.
LEMMA CallGoesOn ==
    ASSUME Running', Gosted', NoPads, stage \in Calls, stage' \in Calls, pads' = pads
    PROVE  DigestInv'
BY DEF DigestInv, NoPads, Ending, Finished, Closed, Calls

LEMMA UpdateStays ==
    ASSUME StreamInv, NEW m \in Cuts, Update(m)
    PROVE  stage \in Calls /\ stage' \in Calls /\ pads' = pads /\ hash' = hash
<1>. DEFINE d == SubSeq(Message, fed + 1, fed + m)
<1>1. stage = "idle" /\ hash' = hash
  BY DEF Update
<1>2. \/ UpdateEager(d) \/ UpdateSkein(d) \/ UpdateSha256(d) \/ UpdateFugue(d, "update")
      \/ UpdateGost(d)
  BY DEF Update
<1>. HIDE DEF d
<1>3. ASSUME Buffer(d) PROVE stage' \in Calls /\ pads' = pads
  BY <1>1, <1>3 DEF Buffer, progress, Calls
<1>4. ASSUME Enter(d, "update") PROVE stage' \in Calls /\ pads' = pads
  BY <1>4 DEF Enter, Calls
<1>5. CASE UpdateEager(d)
  BY <1>1, <1>3, <1>4, <1>5 DEF Calls, UpdateEager
<1>6. CASE UpdateSkein(d)
  BY <1>1, <1>3, <1>4, <1>6 DEF Calls, UpdateSkein
<1>7. CASE UpdateSha256(d)
  BY <1>1, <1>7 DEF UpdateSha256, Enter, Calls
<1>8. CASE UpdateFugue(d, "update")
  BY <1>1, <1>8 DEF UpdateFugue, Calls
<1>9. CASE UpdateGost(d)
  BY <1>1, <1>9 DEF UpdateGost, progress, Calls
<1>. QED
  BY <1>1, <1>2, <1>5, <1>6, <1>7, <1>8, <1>9 DEF Calls

LEMMA UpdateDigests ==
    ASSUME StreamInv, DigestInv, NEW m \in Cuts, Update(m)
    PROVE  DigestInv'
<1>1. stage \in Calls /\ stage' \in Calls /\ pads' = pads /\ hash' = hash
  BY UpdateStays
<1>2. Running /\ Gosted /\ NoPads
  BY DEF DigestInv
<1>3. Running'
  BY <1>2, UpdateRuns
<1>4. Gosted'
  <2>1. CASE hash = "gost"
    <3>. DEFINE d == SubSeq(Message, fed + 1, fed + m)
    <3>1. m \in Nat
      BY StreamAssumption
    <3>2. stage = "idle" /\ fed + m <= Len(Message) /\ fed' = fed + m /\ hash' = hash
      BY DEF Update
    <3>3. Given(d, m)
      BY <3>1, <3>2, Unpacked, GivenIs DEF Given
    <3>4. UpdateGost(d)
      BY <2>1 DEF Update, UpdateEager, Eager, UpdateSkein, UpdateSha256, UpdateFugue
    <3>. HIDE DEF d
    <3>. QED
      BY <1>2, <2>1, <3>2, <3>3, <3>4, GostHashes
  <2>2. CASE hash # "gost"
    BY <1>1, <2>2, OtherHash
  <2>. QED
    BY <2>1, <2>2
<1>. QED
  BY <1>1, <1>2, <1>3, <1>4, CallGoesOn

\* A loop of a core function, in a call or in a close.
LEMMA LoopLeaves ==
    ASSUME NoPads, stage \in {"update", "closing"}, Leave(rest'), pads' = pads
    PROVE  /\ NoPads'
           /\ stage = "update" => stage' \in Calls
           /\ stage = "closing" => stage' \in {"closing", "padded"}
BY DEF NoPads, Leave, Calls

LEMMA LoopDigests ==
    ASSUME StreamInv, DigestInv, Chunk \/ SkeinChunk \/ FugueWord
    PROVE  DigestInv'
<1>1. /\ hash' = hash /\ Leave(rest') /\ pads' = pads /\ stage \in {"update", "closing"}
      /\ hash # "gost"
  BY DEF Chunk, SkeinChunk, FugueWord, Eager
<1>2. Running /\ Gosted /\ NoPads /\ Ending
  BY DEF DigestInv
<1>3. Running' /\ Gosted'
  BY <1>1, <1>2, ChunkRuns, SkeinChunkRuns, FugueWordRuns, OtherHash
<1>4. /\ NoPads'
      /\ stage = "update" => stage' \in Calls
      /\ stage = "closing" => stage' \in {"closing", "padded"}
  BY <1>1, <1>2, LoopLeaves
<1>5. CASE stage = "update"
  BY <1>1, <1>2, <1>3, <1>4, <1>5, CallGoesOn DEF Calls
<1>6. CASE stage = "closing"
  <2>1. PICK n \in Nat : EndingPlain(n) \/ EndingFugue(n) \/ EndingBlake(n)
    BY <1>2, <1>6 DEF Ending
  <2>2. ~ SkeinChunk
    BY <1>6 DEF SkeinChunk
  <2>3. Ending' /\ Finished'
    <3>1. CASE EndingPlain(n)
      <4>1. Chunk
        BY <2>2, <3>1 DEF EndingPlain, FugueWord
      <4>. QED
        BY <1>6, <3>1, <4>1, PlainChunk
    <3>2. CASE EndingFugue(n)
      <4>1. FugueWord
        BY <2>2, <3>2 DEF EndingFugue, Chunk, Eager
      <4>. QED
        BY <1>6, <3>2, <4>1, FugueEnds
    <3>3. CASE EndingBlake(n)
      <4>1. Chunk
        BY <2>2, <3>3 DEF EndingBlake, Blakes, FugueWord
      <4>. QED
        BY <1>6, <3>3, <4>1, BlakeChunk
    <3>. QED
      BY <2>1, <3>1, <3>2, <3>3
  <2>4. Closed'
    BY <1>4, <1>6 DEF Closed
  <2>. QED
    BY <1>3, <1>4, <2>3, <2>4 DEF DigestInv
<1>. QED
  BY <1>1, <1>5, <1>6

LEMMA DirectDigests ==
    ASSUME StreamInv, DigestInv, Sha256Fill \/ Sha256Direct \/ Sha256Tail
    PROVE  DigestInv'
<1>1. hash' = hash /\ pads' = pads /\ stage \in {"fill", "direct"} /\ stage' \in Calls
  BY DEF Sha256Fill, Sha256Direct, Sha256Tail, Calls
<1>2. Running /\ NoPads
  BY DEF DigestInv
<1>3. Running'
  BY <1>2, Sha256FillRuns, Sha256DirectRuns, Sha256TailRuns
<1>4. Gosted'
  <2>1. hash # "gost"
    BY <1>1 DEF DigestInv, Gosted
  <2>. QED
    BY <1>1, <2>1, OtherHash
<1>. QED
  BY <1>1, <1>2, <1>3, <1>4, CallGoesOn DEF Calls

\* What a close leaves where it does not end by itself.
LEMMA CloseGoesTo ==
    ASSUME NoPads, stage = "idle",
           (\E b, bytes, tw : Compress(b, bytes, tw)) \/ (\E d, c, later : Hand(d, c, later))
    PROVE  NoPads' /\ stage' \in {"closing", "padded"}
BY DEF NoPads, Compress, Hand

LEMMA CloseDigests ==
    ASSUME StreamInv, DigestInv, Close
    PROVE  DigestInv'
<1>1. hash' = hash /\ fed' = fed /\ stage = "idle" /\ Running /\ Gosted /\ NoPads
  BY DEF Close, DigestInv
<1>2. Ending' /\ Finished' /\ Gosted' /\ NoPads' /\ stage' \in {"closing", "padded"}
  <2>1. CASE CloseGost
    <3>1. Ending' /\ Finished' /\ Gosted' /\ stage' = "padded" /\ pads' = pads
      BY <1>1, <2>1, GostEnds
    <3>. QED
      BY <1>1, <3>1 DEF NoPads
  <2>2. CASE ~ CloseGost
    <3>1. hash # "gost"
      BY <2>2 DEF Close, CloseGroestl, CloseJh, CloseKeccak, CloseBlake64, CloseBlake32,
                  CloseCubehash, CloseLuffa, CloseShabal, CloseEcho, CloseSha256, CloseSkein,
                  CloseFugue, UpdateFugue
    <3>2. PICK n \in Nat : Standing(n)
      BY <1>1, <3>1, Stands
    <3>3. Gosted'
      BY <1>1, <3>1, OtherHash
    <3>4. CASE CloseGroestl
      <4>1. \E d, c, later : Hand(d, c, later)
        BY <3>4 DEF CloseGroestl
      <4>. QED
        BY <1>1, <3>2, <3>3, <3>4, <4>1, GroestlEnds, CloseGoesTo
    <3>5. CASE CloseJh
      <4>1. \E d, c, later : Hand(d, c, later)
        BY <3>5 DEF CloseJh
      <4>. QED
        BY <1>1, <3>2, <3>3, <3>5, <4>1, JhEnds, CloseGoesTo
    <3>6. CASE CloseKeccak
      <4>1. \E d, c, later : Hand(d, c, later)
        BY <3>6 DEF CloseKeccak
      <4>. QED
        BY <1>1, <3>2, <3>3, <3>6, <4>1, KeccakEnds, CloseGoesTo
    <3>7. ASSUME NEW w \in {8, 16}, CloseBlake(w),
                 hash = (IF w = 16 THEN "blake64" ELSE "blake32")
          PROVE  Ending' /\ Finished' /\ NoPads' /\ stage' \in {"closing", "padded"}
      <4>1. \E d, c, later : Hand(d, c, later)
        BY <3>7 DEF CloseBlake
      <4>2. NoPads' /\ stage' \in {"closing", "padded"}
        BY <1>1, <4>1, CloseGoesTo
      <4>3. Ending' /\ Finished'
        BY <1>1, <3>2, <3>7, BlakeEnds, Zenon
      <4>. QED
        BY <4>2, <4>3
    <3>8. CASE CloseBlake64
      <4>1. CloseBlake(16) /\ hash = "blake64" /\ 16 \in {8, 16}
        BY <3>8 DEF CloseBlake64
      <4>2. hash = IF 16 = 16 THEN "blake64" ELSE "blake32"
        BY <4>1
      <4>. QED
        BY <3>3, <3>7, <4>1, <4>2, Zenon
    <3>9. CASE CloseBlake32
      <4>1. CloseBlake(8) /\ hash = "blake32" /\ 8 \in {8, 16}
        BY <3>9 DEF CloseBlake32
      <4>2. hash = IF 8 = 16 THEN "blake64" ELSE "blake32"
        BY <4>1
      <4>. QED
        BY <3>3, <3>7, <4>1, <4>2, Zenon
    <3>10. CASE CloseFugue
      <4>1. Ending' /\ Finished' /\ stage' = "closing"
        BY <1>1, <3>2, <3>10, FugueHands
      <4>. QED
        BY <3>3, <4>1 DEF NoPads
    <3>11. CASE CloseCubehash
      <4>1. \E b, bytes, tw : Compress(b, bytes, tw)
        BY <3>11 DEF CloseCubehash
      <4>. QED
        BY <1>1, <3>2, <3>3, <3>11, <4>1, CubehashEnds, CloseGoesTo
    <3>12. CASE CloseLuffa
      <4>1. \E b, bytes, tw : Compress(b, bytes, tw)
        BY <3>12 DEF CloseLuffa
      <4>. QED
        BY <1>1, <3>2, <3>3, <3>12, <4>1, LuffaEnds, CloseGoesTo
    <3>13. CASE CloseShabal
      <4>1. \E b, bytes, tw : Compress(b, bytes, tw)
        BY <3>13 DEF CloseShabal
      <4>. QED
        BY <1>1, <3>2, <3>3, <3>13, <4>1, ShabalEnds, CloseGoesTo
    <3>14. CASE CloseEcho
      <4>1. \E b, bytes, tw : Compress(b, bytes, tw)
        BY <3>14 DEF CloseEcho
      <4>. QED
        BY <1>1, <3>2, <3>3, <3>14, <4>1, EchoEnds, CloseGoesTo
    <3>15. CASE CloseSha256
      <4>1. \E b, bytes, tw : Compress(b, bytes, tw)
        BY <3>15 DEF CloseSha256
      <4>. QED
        BY <1>1, <3>2, <3>3, <3>15, <4>1, Sha256Ends, CloseGoesTo
    <3>16. CASE CloseSkein
      <4>1. \E b, bytes, tw : Compress(b, bytes, tw)
        BY <3>16 DEF CloseSkein
      <4>. QED
        BY <1>1, <3>2, <3>3, <3>16, <4>1, SkeinEnds, CloseGoesTo
    <3>. QED
      BY <2>2, <3>4, <3>5, <3>6, <3>8, <3>9, <3>10, <3>11, <3>12, <3>13, <3>14, <3>15, <3>16
      DEF Close
  <2>. QED
    BY <2>1, <2>2
<1>3. Running' /\ Closed'
  BY <1>2 DEF Running, Closed, Calls
<1>. QED
  BY <1>2, <1>3 DEF DigestInv

LEMMA NextPadDigests ==
    ASSUME StreamInv, DigestInv, NextPad
    PROVE  DigestInv'
<1>1. hash' = hash /\ stage = "closing" /\ stage' = "closing" /\ Ending /\ Gosted
  BY DEF NextPad, Hand, DigestInv
<1>2. Ending' /\ Finished'
  BY <1>1, NextPadEnds
<1>3. hash # "gost"
  BY <1>1 DEF Gosted
<1>4. Running' /\ Closed' /\ Gosted' /\ NoPads'
  BY <1>1, <1>3, OtherHash DEF Running, Closed, NoPads, Calls
<1>. QED
  BY <1>2, <1>4 DEF DigestInv

LEMMA OutputDigests ==
    ASSUME StreamInv, DigestInv, Output
    PROVE  DigestInv'
<1>1. /\ stage = "padded" /\ stage' = "closed" /\ hash' = hash /\ fed' = fed /\ pads' = pads
      /\ digest' = [absorbed |-> absorbed, tweaks |-> tweaks, turned |-> shift]
      /\ count' = Core.start /\ shift' = 0 /\ tweaks' = <<>>
  BY DEF Output, Reset
<1>2. /\ absorbed = Padded(Prefix(fed)) /\ tweaks = Tweaked(Prefix(fed))
      /\ shift = IF hash = "fugue" THEN (Len(Padded(Prefix(fed))) \div 4) % 3 ELSE 0
  BY <1>1 DEF DigestInv, Finished
<1>3. /\ Padded(Prefix(fed))' = Padded(Prefix(fed))
      /\ Tweaked(Prefix(fed))' = Tweaked(Prefix(fed))
  BY <1>1, SamePrefix
<1>4. digest' = DigestOf(Prefix(fed))'
  <2>1. digest' = DigestOf(Prefix(fed))
    BY <1>1, <1>2 DEF DigestOf
  <2>2. DigestOf(Prefix(fed))' = DigestOf(Prefix(fed))
    BY <1>1, <1>3 DEF DigestOf
  <2>. QED
    BY <2>1, <2>2
<1>5. Closed'
  BY <1>1, <1>4, SameHash DEF Closed
<1>6. Running' /\ Ending' /\ Finished' /\ Gosted' /\ NoPads'
  BY <1>1 DEF Running, Ending, Finished, Gosted, NoPads, DigestInv, Calls
<1>. QED
  BY <1>5, <1>6 DEF DigestInv

\* A context in which nothing has been put.
LEMMA EmptyRuns ==
    ASSUME hash \in Hashes, ptr = 0, count = Core.start, shift = 0, absorbed = <<>>,
           tweaks = <<>>, pads = <<>>, fed = 0, stage = "idle"
    PROVE  DigestInv
<1>1. Compressed(0)
  <2>1. Listed(RunTweak, 0) = <<>>
    BY ListedNone
  <2>2. Block * 0 = 0 /\ 0 % 3 = 0
    BY CoreIs
  <2>. QED
    BY <2>1, <2>2, EmptyType DEF Compressed
<1>2. Counts(0)
  <2>1. hash = "sha256" => count = Block * 0 + ptr
    BY CoreIs DEF Core, CoreOf, Sha256Core
  <2>2. hash = "fugue" => count = 8 * fed
    BY DEF Core, CoreOf, FugueCore
  <2>3. count = Core.start + Core.tick * 0
    BY CoreIs
  <2>. QED
    BY <2>1, <2>2, <2>3 DEF Counts
<1>3. Running
  BY <1>1, <1>2 DEF Running
<1>4. Ending /\ Finished /\ Closed /\ Gosted /\ NoPads
  BY DEF Ending, Finished, Closed, Gosted, NoPads
<1>. QED
  BY <1>3, <1>4 DEF DigestInv

LEMMA BeginsAgain ==
    ASSUME hash \in Hashes, hash' = hash, ptr' = 0, count' = Core.start, shift' = 0,
           absorbed' = <<>>, tweaks' = <<>>, pads' = <<>>, fed' = 0, stage' = "idle"
    PROVE  DigestInv'
<1>1. Block' = Block /\ Core' = Core /\ RunTweak' = RunTweak
  BY SameHash, SameTweaks
<1>2. Compressed(0)'
  <2>1. Listed(RunTweak, 0)' = <<>>
    BY ListedNone DEF Listed
  <2>2. Block * 0 = 0 /\ 0 % 3 = 0
    BY CoreIs
  <2>. QED
    BY <1>1, <2>1, <2>2, EmptyType DEF Compressed
<1>3. Counts(0)'
  <2>1. hash = "sha256" => Core.start = Block * 0 + 0
    BY CoreIs DEF Core, CoreOf, Sha256Core
  <2>2. hash = "fugue" => Core.start = 8 * 0
    BY DEF Core, CoreOf, FugueCore
  <2>3. Core.start = Core.start + Core.tick * 0
    BY CoreIs
  <2>. QED
    BY <1>1, <2>1, <2>2, <2>3 DEF Counts
<1>4. Running'
  BY <1>2, <1>3 DEF Running
<1>5. Ending' /\ Finished' /\ Closed' /\ Gosted' /\ NoPads'
  BY DEF Ending, Finished, Closed, Gosted, NoPads
<1>. QED
  BY <1>4, <1>5 DEF DigestInv

LEMMA AgainDigests ==
    ASSUME StreamInv, DigestInv, Again
    PROVE  DigestInv'
<1>1. /\ stage = "closed" /\ stage' = "idle" /\ fed' = 0 /\ hash' = hash /\ pads' = pads
      /\ ptr' = ptr /\ count' = count /\ shift' = shift /\ absorbed' = absorbed
      /\ tweaks' = tweaks
  BY DEF Again, state
<1>2. ptr = 0 /\ absorbed = <<>> /\ hash \in Hashes
  BY <1>1, Unpacked DEF StreamInv, Places
<1>3. count = Core.start /\ shift = 0 /\ tweaks = <<>> /\ pads = <<>>
  BY <1>1 DEF DigestInv, Closed, NoPads
<1>. QED
  BY <1>1, <1>2, <1>3, BeginsAgain

LEMMA DigestStutters ==
    ASSUME DigestInv, UNCHANGED streamVars
    PROVE  DigestInv'
<1>1. /\ hash' = hash /\ buf' = buf /\ ptr' = ptr /\ count' = count /\ shift' = shift
      /\ absorbed' = absorbed /\ tweaks' = tweaks /\ rest' = rest /\ pads' = pads
      /\ stage' = stage /\ fed' = fed /\ digest' = digest
  BY DEF streamVars, state, progress
<1>2. /\ Padded(Prefix(fed))' = Padded(Prefix(fed)) /\ Tweaked(Prefix(fed))' = Tweaked(Prefix(fed))
      /\ BitTweak' = BitTweak /\ Block' = Block /\ Core' = Core /\ RunTweak' = RunTweak
      /\ Buffered' = Buffered
  BY <1>1, SamePrefix, SameHash, SameTweaks DEF Buffered
<1>3. ASSUME NEW n \in Nat
      PROVE  /\ Compressed(n) => Compressed(n)'
             /\ Counts(n) => Counts(n)'
             /\ EndingPlain(n) => EndingPlain(n)'
             /\ EndingFugue(n) => EndingFugue(n)'
             /\ EndingBlake(n) => EndingBlake(n)'
  <2>1. Compressed(n) => Compressed(n)'
    BY <1>1, NoMore
  <2>2. Counts(n) => Counts(n)'
    BY <1>1, <1>2 DEF Counts
  <2>3. EndingPlain(n) => EndingPlain(n)'
    BY <1>1, <1>2, <2>1 DEF EndingPlain
  <2>4. EndingFugue(n) => EndingFugue(n)'
    BY <1>1, <1>2, <2>1 DEF EndingFugue, Junks
  <2>5. EndingBlake(n) => EndingBlake(n)'
    <3>1. LastPad' = LastPad /\ PadAfter' = PadAfter
      BY <1>1, <1>2 DEF LastPad, PadAfter
    <3>2. Listed(BitTweak, n)' = Listed(BitTweak, n)
      BY <1>2 DEF Listed
    <3>. QED
      BY <1>1, <1>2, <3>1, <3>2 DEF EndingBlake
  <2>. QED
    BY <2>1, <2>2, <2>3, <2>4, <2>5
<1>4. Running'
  BY <1>1, <1>3 DEF DigestInv, Running
<1>5. Ending'
  BY <1>1, <1>3 DEF DigestInv, Ending
<1>6. Finished' /\ Gosted' /\ NoPads'
  BY <1>1, <1>2 DEF DigestInv, Finished, Gosted, NoPads
<1>7. Closed'
  <2>1. DigestOf(Prefix(fed))' = DigestOf(Prefix(fed))
    BY <1>1, <1>2 DEF DigestOf
  <2>. QED
    BY <1>1, <1>2, <2>1 DEF DigestInv, Closed
<1>. QED
  BY <1>4, <1>5, <1>6, <1>7 DEF DigestInv

LEMMA StreamDigests ==
    ASSUME StreamInv, DigestInv, StreamNext
    PROVE  DigestInv'
BY UpdateDigests, LoopDigests, DirectDigests, CloseDigests, NextPadDigests, OutputDigests,
   AgainDigests DEF StreamNext

LEMMA DigestStarts ==
    ASSUME StreamInit
    PROVE  DigestInv
BY EmptyRuns DEF StreamInit

\* However the message is cut into calls, and whatever the context has hashed
\* before, a close puts out the padded message and the counters and tweaks
\* that the hash function's definition gives its blocks, for all thirteen hash
\* functions: the paddings that need a second block, the counters that close
\* turns back before it hands the padding on, and the message that just fills
\* its last block among them.  For messages of any length.
THEOREM DigestsAreOfMessages == StreamSpec => []DigestIsOfMessage
<1>1. StreamInv /\ DigestInv /\ [StreamNext]_streamVars => (StreamInv /\ DigestInv)'
  BY StreamStep, StreamStutters, StreamDigests, DigestStutters
<1>2. DigestInv => DigestIsOfMessage
  BY DEF DigestInv, Closed, DigestIsOfMessage
<1>. QED
  BY <1>1, <1>2, StreamStarts, DigestStarts, PTL DEF StreamSpec
=============================================================================
