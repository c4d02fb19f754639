-------------------------- MODULE FpgaPayloadProofs --------------------------
(***************************************************************************)
(* Proofs about the hash contexts and the words poked into the FPGA, in    *)
(* the system.                                                             *)
(***************************************************************************)
EXTENDS FpgaPayloadProps, HashStreamProofs, WellFoundedInduction

(***************************************************************************)
(* The context in the system: the host does not use it while it pokes and  *)
(* scans, and then begins the header anew.                                 *)
(***************************************************************************)
HostWaits == place \in {"poke", "scan"} => stage = "idle"

LEMMA HostInit == Init => StreamInv /\ HostWaits
<1>. SUFFICES ASSUME Init PROVE StreamInv /\ HostWaits
  OBVIOUS
<1>. QED
  BY StreamStarts DEF Init, HostWaits

LEMMA HostStep ==
    ASSUME StreamInv, HostWaits, [Next]_vars
    PROVE  StreamInv' /\ HostWaits'
<1>1. CASE Stream
  <2>1. place \in {"header", "check"} /\ StreamNext /\ place' = place
    BY <1>1 DEF Stream, payloadVars
  <2>. QED
    BY <2>1, StreamStep DEF HostWaits
<1>2. CASE Prepare
  <2>1. UNCHANGED streamVars /\ stage = "idle"
    BY <1>2 DEF Prepare
  <2>2. stage' = stage
    BY <2>1 DEF streamVars, progress
  <2>. QED
    BY <2>1, <2>2, StreamStutters DEF HostWaits
<1>3. CASE Poke
  <2>1. UNCHANGED streamVars /\ stage = "idle"
    BY <1>3 DEF Poke, HostWaits
  <2>2. stage' = stage
    BY <2>1 DEF streamVars, progress
  <2>. QED
    BY <2>1, <2>2, StreamStutters DEF HostWaits
<1>4. CASE Hit
  <2>1. UNCHANGED streamVars /\ stage = "idle"
    BY <1>4 DEF Hit, HostWaits
  <2>2. stage' = stage
    BY <2>1 DEF streamVars, progress
  <2>. QED
    BY <2>1, <2>2, StreamStutters DEF HostWaits
<1>5. CASE Peek
  <2>1. /\ hash' = hash /\ rest' = rest /\ pads' = pads /\ Reset /\ stage' = "idle" /\ fed' = 0
        /\ place = "scan" /\ place' = "check"
    BY <1>5 DEF Peek
  <2>2. rest = <<>>
    BY <2>1 DEF HostWaits, StreamInv, Places
  <2>3. /\ ptr' = 0 /\ absorbed' = <<>> /\ count' \in Int
        /\ buf' \in Text /\ Len(buf') = Block /\ Block' = Block
        /\ Buffered' = <<>>
    BY <2>1, ResetIs
  <2>4. StreamTypes'
    <3>1. stage' \in Stages /\ fed' \in 0..Len(Message) /\ ptr' \in 0..Block
      BY <2>1, <2>3, Unpacked DEF Stages
    <3>. QED
      BY <2>1, <2>3, <3>1, Unpacked DEF StreamTypes
  <2>5. Places'
    BY <2>1, <2>2, <2>3, Unpacked DEF Places
  <2>6. Kept'
    BY <2>1, <2>2, <2>3, BeginsMessage
  <2>. QED
    BY <2>1, <2>4, <2>5, <2>6 DEF StreamInv, HostWaits
<1>6. CASE UNCHANGED vars
  <2>1. UNCHANGED streamVars /\ place' = place
    BY <1>6 DEF vars, payloadVars
  <2>2. stage' = stage
    BY <2>1 DEF streamVars, progress
  <2>. QED
    BY <2>1, <2>2, StreamStutters DEF HostWaits
<1>. QED
  BY <1>1, <1>2, <1>3, <1>4, <1>5, <1>6 DEF Next

\* The promise of the hash contexts holds in the system, where the host looks
\* into a context, leaves it alone while it pokes and scans, and begins anew.
THEOREM BytesAreNotLost == Spec => []NothingLost
<1>1. StreamInv /\ HostWaits /\ [Next]_vars => (StreamInv /\ HostWaits)'
  BY HostStep
<1>2. StreamInv /\ HostWaits => NothingLost
  BY NothingLostFollows
<1>. QED
  BY <1>1, <1>2, HostInit, PTL DEF Spec

LEMMA DigestInit == Init => DigestInv
BY DigestStarts DEF Init

LEMMA DigestStep ==
    ASSUME StreamInv, HostWaits, DigestInv, [Next]_vars
    PROVE  DigestInv'
<1>1. CASE Stream
  BY <1>1, StreamDigests DEF Stream
<1>2. CASE Prepare \/ Poke \/ Hit
  <2>1. UNCHANGED streamVars
    BY <1>2 DEF Prepare, Poke, Hit
  <2>. QED
    BY <2>1, DigestStutters
<1>3. CASE Peek
  <2>1. /\ hash' = hash /\ pads' = pads /\ Reset /\ stage' = "idle" /\ fed' = 0
        /\ place = "scan"
    BY <1>3 DEF Peek
  <2>2. /\ ptr' = 0 /\ count' = Core.start /\ shift' = 0 /\ absorbed' = <<>> /\ tweaks' = <<>>
        /\ hash \in Hashes
    BY <2>1, Unpacked DEF Reset
  <2>3. pads = <<>>
    BY <2>1 DEF HostWaits, DigestInv, NoPads
  <2>. QED
    BY <2>1, <2>2, <2>3, BeginsAgain
<1>4. CASE UNCHANGED vars
  BY <1>4, DigestStutters DEF vars
<1>. QED
  BY <1>1, <1>2, <1>3, <1>4 DEF Next

\* calc_hash's digest, in the system: that of the header as it was given.
THEOREM DigestsAreOfHeaders == Spec => []DigestIsOfMessage
<1>1. StreamInv /\ HostWaits /\ DigestInv /\ [Next]_vars
        => (StreamInv /\ HostWaits /\ DigestInv)'
  BY HostStep, DigestStep
<1>2. DigestInv => DigestIsOfMessage
  BY DEF DigestInv, Closed, DigestIsOfMessage
<1>. QED
  BY <1>1, <1>2, HostInit, DigestInit, PTL DEF Spec

(***************************************************************************)
(* The words for the FPGA.                                                 *)
(***************************************************************************)
\* The four bytes behind the first n of s.
Behind(s, n) == [i \in 1..4 |-> s[n + i]]

LEMMA FourBytes == \A s \in Text : Len(s) = 4 => s = [i \in 1..4 |-> s[i]]
BY DEF Text

LEMMA WordIs ==
    ASSUME NEW s \in Text, NEW k \in Nat, 4 * k + 4 <= Len(s)
    PROVE  Word(s, k) = Behind(s, 4 * k) /\ Word(s, k) \in Text /\ Len(Word(s, k)) = 4
<1>1. PICK m \in Nat : m = 4 * k + 1
  <2>1. 4 * k + 1 \in Nat
    OBVIOUS
  <2>. QED
    BY <2>1, Zenon
<1>2. PICK n \in Nat : n = 4 * k + 4
  <2>1. 4 * k + 4 \in Nat
    OBVIOUS
  <2>. QED
    BY <2>1, Zenon
<1>3. 1 <= m /\ m <= n + 1 /\ n <= Len(s) /\ n - m + 1 = 4
  BY <1>1, <1>2
<1>4. SubSeq(s, m, n) \in Text /\ Len(SubSeq(s, m, n)) = n - m + 1
  BY <1>3, PartType, Zenon
<1>5. ASSUME NEW i \in 1..4
      PROVE  SubSeq(s, m, n)[i] = s[4 * k + i]
  <2>1. i \in 1..(n - m + 1)
    BY <1>3
  <2>2. SubSeq(s, m, n)[i] = s[m + i - 1]
    BY <1>3, <2>1, PartAt, Zenon
  <2>3. m + i - 1 = 4 * k + i
    BY <1>1
  <2>. QED
    BY <2>2, <2>3
<1>6. SubSeq(s, m, n) = Behind(s, 4 * k)
  <2>1. SubSeq(s, m, n) = [i \in 1..4 |-> SubSeq(s, m, n)[i]]
    BY <1>3, <1>4, FourBytes
  <2>. QED
    BY <1>5, <2>1 DEF Behind
<1>. QED
  BY <1>1, <1>2, <1>3, <1>4, <1>6 DEF Word

LEMMA BehindJoined ==
    ASSUME NEW a \in Text, NEW b \in Text, NEW n \in Nat, Len(a) = n, Len(b) = 4
    PROVE  Behind(a \o b, n) = b
<1>1. ASSUME NEW i \in 1..4
      PROVE  (a \o b)[n + i] = b[i]
  <2>1. PICK j \in 1..(Len(a) + Len(b)) : j = n + i
    OBVIOUS
  <2>2. ~ (j <= Len(a)) /\ j - Len(a) = i
    BY <2>1
  <2>3. (a \o b)[j] = IF j <= Len(a) THEN a[j] ELSE b[j - Len(a)]
    BY JoinedAt
  <2>. QED
    BY <2>1, <2>2, <2>3
<1>2. b = [i \in 1..4 |-> b[i]]
  BY FourBytes
<1>. QED
  BY <1>1, <1>2 DEF Behind

LEMMA SwappedType ==
    ASSUME NEW s \in Text, NEW n \in {4, 8}, Len(s) % n = 0
    PROVE  Swapped(s, n) \in Text /\ Len(Swapped(s, n)) = Len(s)
<1>1. PICK l \in Nat : l = Len(s) /\ l % n = 0
  BY DEF Text
<1>2. \A i \in 1..l : n * ((i - 1) \div n) + n - ((i - 1) % n) \in 1..l
  BY <1>1
<1>3. \A i \in 1..l : s[n * ((i - 1) \div n) + n - ((i - 1) % n)] \in Int
  BY <1>1, <1>2 DEF Text
<1>. QED
  BY <1>1, <1>3 DEF Swapped, Text

LEMMA TopType == TopOfTarget \in Text /\ Len(TopOfTarget) = 4
BY DEF TopOfTarget, Text

LEMMA ReverseType ==
    ASSUME NEW s \in Text
    PROVE  Reverse(s) \in Text /\ Len(Reverse(s)) = Len(s)
BY DEF Reverse, Text
\* Four bytes turned round.
Turned(w) == [i \in 1..4 |-> w[5 - i]]

LEMMA SwapsTheLast ==
    ASSUME NEW s \in Text, NEW n \in Nat, n % 4 = 0, Len(s) = n + 4
    PROVE  Behind(Swapped(s, 4), n) = Turned(Behind(s, n))
<1>1. ASSUME NEW i \in 1..4
      PROVE  Swapped(s, 4)[n + i] = s[n + (5 - i)]
  <2>1. PICK j \in 1..Len(s) : j = n + i
    OBVIOUS
  <2>2. Swapped(s, 4)[j] = s[4 * ((j - 1) \div 4) + 4 - ((j - 1) % 4)]
    BY DEF Swapped
  <2>3. (j - 1) \div 4 = n \div 4 /\ 4 * (n \div 4) = n /\ (j - 1) % 4 = i - 1
    BY <2>1
  <2>4. 4 * ((j - 1) \div 4) + 4 - ((j - 1) % 4) = n + (5 - i)
    BY <2>3
  <2>. QED
    BY <2>1, <2>2, <2>4
<1>2. \A i \in 1..4 : Behind(s, n)[5 - i] = s[n + (5 - i)]
  BY DEF Behind
<1>. QED
  BY <1>1, <1>2 DEF Behind, Turned

LEMMA TopTurned == Turned(Reverse(TopOfTarget)) = TopOfTarget
BY DEF Turned, Reverse, TopOfTarget

LEMMA ZeroTurned == Turned(Zeros(4)) = Zeros(4)
BY DEF Turned, Zeros

LEMMA WorkDataType ==
    /\ WorkData \in Text /\ Len(WorkData) = 80
    /\ Behind(WorkData, 76) = Zeros(4)
<1>1. PICK n \in Nat : n = 76
  OBVIOUS
<1>2. n <= Len(Message) /\ n % 4 = 0 /\ 4 \in Nat
  BY <1>1, PayloadAssumption
<1>3. PICK h \in Text : h = SubSeq(Message, 1, n) /\ Len(h) = n
  BY <1>2, MessageIsText, TakenFrom
<1>4. swap_endian(h) \in Text /\ Len(swap_endian(h)) = Len(h)
  <2>1. Len(h) % 4 = 0 /\ 4 \in {4, 8}
    BY <1>2, <1>3
  <2>. QED
    BY <2>1, SwappedType DEF swap_endian
<1>5. Zeros(4) \in Text /\ Len(Zeros(4)) = 4
  BY <1>2, ZerosType, Zenon
<1>6. WorkData = swap_endian(h) \o Zeros(4)
  BY <1>1, <1>3 DEF WorkData
<1>7. Len(swap_endian(h)) = n
  BY <1>3, <1>4
<1>8. WorkData \in Text /\ Len(WorkData) = Len(swap_endian(h)) + Len(Zeros(4))
  BY <1>4, <1>5, <1>6, ConcatType, Zenon
<1>9. Behind(swap_endian(h) \o Zeros(4), n) = Zeros(4)
  BY <1>4, <1>5, <1>7, BehindJoined, Zenon
<1>. QED
  <2>1. Len(WorkData) = n + 4
    BY <1>5, <1>7, <1>8
  <2>2. Behind(WorkData, n) = Zeros(4)
    BY <1>6, <1>9, Zenon
  <2>3. Len(WorkData) = 80
    BY <1>1, <2>1
  <2>4. Behind(WorkData, 76) = Zeros(4)
    BY <1>1, <2>2
  <2>. QED
    BY <1>8, <2>3, <2>4

\* The registers of the bitstream are as many as the words poked, and the
\* last of them is the target, or the place of the nonce if none is sent.
LastWord == IF g.target THEN TopOfTarget ELSE Zeros(4)

LEMMA AlgoIs ==
    ASSUME algo \in Algos
    PROVE  algo \in {"groestl", "dmd-gr", "myr-gr", "phi", "skunk", "tribus"}
BY PayloadAssumption

\* s is a sequence of n bytes, and one of n bytes and the word w.
HasBytes(s, n) == s \in Text /\ Len(s) = n
EndsIn(s, n, w) == HasBytes(s, n + 4) /\ Behind(s, n) = w

LEMMA JoinBytes ==
    ASSUME NEW a, NEW b, NEW n \in Nat, NEW m \in Nat, NEW l \in Nat, l = n + m,
           HasBytes(a, n), HasBytes(b, m)
    PROVE  HasBytes(a \o b, l)
BY ConcatType DEF HasBytes

LEMMA PartBytes ==
    ASSUME NEW s, NEW k \in Nat, NEW m \in Nat, NEW n \in Nat, NEW l \in Nat, HasBytes(s, k),
           1 <= m, m <= n + 1, n <= k, l = n - m + 1
    PROVE  HasBytes(SubSeq(s, m, n), l)
BY PartType DEF HasBytes

LEMMA JoinEnds ==
    ASSUME NEW a, NEW w, NEW n \in Nat, HasBytes(a, n), HasBytes(w, 4)
    PROVE  EndsIn(a \o w, n, w)
<1>1. a \in Text /\ w \in Text /\ Len(a) = n /\ Len(w) = 4
  BY DEF HasBytes
<1>2. a \o w \in Text /\ Len(a \o w) = Len(a) + Len(w)
  BY <1>1, ConcatType, Zenon
<1>3. Behind(a \o w, n) = w
  BY <1>1, BehindJoined
<1>. QED
  BY <1>1, <1>2, <1>3 DEF EndsIn, HasBytes

LEMMA SwapBytes ==
    ASSUME NEW s, NEW n \in {4, 8}, NEW l \in Nat, HasBytes(s, l), l % n = 0
    PROVE  HasBytes(Swapped(s, n), l)
BY SwappedType DEF HasBytes

LEMMA SwapEnds ==
    ASSUME NEW s, NEW n \in Nat, n % 4 = 0, NEW w, EndsIn(s, n, w)
    PROVE  EndsIn(Swapped(s, 4), n, Turned(w))
<1>1. s \in Text /\ Len(s) = n + 4 /\ Behind(s, n) = w
  BY DEF EndsIn, HasBytes
<1>2. Behind(Swapped(s, 4), n) = Turned(w)
  BY <1>1, SwapsTheLast
<1>3. Len(s) % 4 = 0 /\ 4 \in {4, 8}
  BY <1>1
<1>4. Swapped(s, 4) \in Text /\ Len(Swapped(s, 4)) = Len(s)
  BY <1>1, <1>3, SwappedType, Zenon
<1>. QED
  BY <1>1, <1>2, <1>4 DEF EndsIn, HasBytes

LEMMA WordBytes ==
    ASSUME NEW s, NEW k \in Nat, NEW l \in Nat, HasBytes(s, l), 4 * k + 4 <= l
    PROVE  HasBytes(Word(s, k), 4)
BY WordIs DEF HasBytes

\* A sequence that ends with a word has it as its last word.
LEMMA LastWordIs ==
    ASSUME NEW s, NEW n \in Nat, NEW k \in Nat, n = 4 * k, NEW w, EndsIn(s, n, w)
    PROVE  Word(s, k) = w
<1>1. s \in Text /\ Len(s) = 4 * k + 4 /\ Behind(s, 4 * k) = w
  BY DEF EndsIn, HasBytes
<1>2. 4 * k + 4 <= Len(s)
  BY <1>1
<1>. QED
  BY <1>1, <1>2, WordIs

\* What is gathered for an algorithm that sends the target t.
LEMMA GatheredEnds ==
    ASSUME NEW m, NEW k \in Nat, HasBytes(m, k),
           NEW a \in Nat, NEW b \in Nat, 1 <= a, a <= b + 1, b <= 80,
           NEW t, HasBytes(t, 4),
           NEW n \in Nat, n = k + (b - a + 1)
    PROVE  EndsIn((m \o SubSeq(WorkData, a, b)) \o t, n, t)
<1>1. HasBytes(WorkData, 80) /\ 80 \in Nat
  BY WorkDataType DEF HasBytes
<1>2. PICK l \in Nat : l = b - a + 1
  <2>1. b - a + 1 \in Nat
    OBVIOUS
  <2>. QED
    BY <2>1, Zenon
<1>3. HasBytes(SubSeq(WorkData, a, b), l)
  BY <1>1, <1>2, PartBytes
<1>4. HasBytes(m \o SubSeq(WorkData, a, b), n)
  BY <1>2, <1>3, JoinBytes
<1>. QED
  BY <1>4, JoinEnds

LEMMA ChainingType ==
    ASSUME NEW n \in Nat, n = g.midLen
    PROVE  HasBytes(Midstate, n)
<1>1. Chaining \in Text /\ Len(Chaining) = n
  BY DEF Chaining, Text
<1>. QED
  BY <1>1, ReverseType DEF Midstate, HasBytes

LEMMA TopBytes == HasBytes(TopOfTarget, 4) /\ HasBytes(Reverse(TopOfTarget), 4)
BY TopType, ReverseType DEF HasBytes

\* What is poked last, and into the last register.
EndsRight(d) == HasBytes(d, 4 * Registers) /\ Word(d, Registers - 1) = LastWord

\* The last part of Gathered.
TargetPart == CASE ~g.target -> <<>>
                [] g.target /\ g.swap -> Reverse(TopOfTarget)
                [] g.target /\ ~g.swap -> TopOfTarget

LEMMA GatheredIs ==
    ASSUME NEW a, NEW b, a = g.start + 1, b = g.start + g.len
    PROVE  Gathered = (Midstate \o SubSeq(WorkData, a, b)) \o TargetPart
BY Zenon DEF Gathered, TargetPart

LEMMA GroestlPacks ==
    ASSUME algo \in {"groestl", "dmd-gr"}
    PROVE  EndsRight(Packed(Gathered))
<1>1. /\ g.midLen = 0 /\ g.start = 0 /\ g.len = 76 /\ g.target /\ g.swap
      /\ Registers = 20 /\ LastWord = TopOfTarget
  BY DEF g, Settings, Registers, LastWord
<1>2. HasBytes(Midstate, 0)
  BY <1>1, ChainingType
<1>3. EndsIn((Midstate \o SubSeq(WorkData, 1, 76)) \o Reverse(TopOfTarget), 76,
             Reverse(TopOfTarget))
  BY <1>2, TopBytes, GatheredEnds
<1>4. Gathered = (Midstate \o SubSeq(WorkData, 1, 76)) \o Reverse(TopOfTarget)
  <2>1. TargetPart = Reverse(TopOfTarget)
    BY <1>1 DEF TargetPart
  <2>2. 1 = g.start + 1 /\ 76 = g.start + g.len
    BY <1>1
  <2>3. Gathered = (Midstate \o SubSeq(WorkData, 1, 76)) \o TargetPart
    BY <2>2, GatheredIs
  <2>. QED
    BY <2>1, <2>3
<1>5. EndsIn(Gathered, 76, Reverse(TopOfTarget))
  BY <1>3, <1>4
<1>6. EndsIn(Swapped(Gathered, 4), 76, TopOfTarget)
  BY <1>5, SwapEnds, TopTurned
<1>7. Packed(Gathered) = Swapped(Gathered, 4)
  BY <1>1 DEF Packed, swap_endian
<1>8. Word(Swapped(Gathered, 4), 19) = TopOfTarget
  BY <1>6, LastWordIs
<1>. QED
  BY <1>1, <1>6, <1>7, <1>8 DEF EndsRight, EndsIn, HasBytes

LEMMA MyrPacks ==
    ASSUME algo = "myr-gr"
    PROVE  EndsRight(Packed(Gathered))
<1>1. /\ g.midLen = 0 /\ g.start = 0 /\ g.len = 80 /\ ~ g.target /\ g.swap
      /\ Registers = 20 /\ LastWord = Zeros(4)
  BY DEF g, Settings, Registers, LastWord
<1>2. HasBytes(Midstate, 0)
  BY <1>1, ChainingType
<1>3. Midstate = <<>>
  BY <1>2, EmptyIs DEF HasBytes
<1>4. WorkData \in Text /\ Len(WorkData) = 80 /\ Behind(WorkData, 76) = Zeros(4)
  BY WorkDataType
<1>5. SubSeq(WorkData, 1, 80) = WorkData
  BY <1>4, Whole
<1>6. Gathered = (<<>> \o WorkData) \o <<>>
  <2>1. TargetPart = <<>>
    BY <1>1 DEF TargetPart
  <2>2. 1 = g.start + 1 /\ 80 = g.start + g.len
    BY <1>1
  <2>3. Gathered = (Midstate \o SubSeq(WorkData, 1, 80)) \o TargetPart
    BY <2>2, GatheredIs
  <2>. QED
    BY <2>1, <2>3, <1>3, <1>5
<1>7. Gathered = WorkData
  BY <1>4, <1>6, ConcatEmpty
<1>8. EndsIn(Gathered, 76, Zeros(4))
  BY <1>4, <1>7 DEF EndsIn, HasBytes
<1>9. EndsIn(Swapped(Gathered, 4), 76, Zeros(4))
  BY <1>8, SwapEnds, ZeroTurned
<1>10. Packed(Gathered) = Swapped(Gathered, 4)
  BY <1>1 DEF Packed, swap_endian
<1>11. Word(Swapped(Gathered, 4), 19) = Zeros(4)
  BY <1>9, LastWordIs
<1>. QED
  BY <1>1, <1>9, <1>10, <1>11 DEF EndsRight, EndsIn, HasBytes

LEMMA TribusPacks ==
    ASSUME algo = "tribus"
    PROVE  EndsRight(Packed(Gathered))
<1>1. /\ g.midLen = 128 /\ g.start = 64 /\ g.len = 12 /\ g.target /\ ~ g.swap
      /\ Registers = 36 /\ LastWord = TopOfTarget
  BY DEF g, Settings, Registers, LastWord
<1>2. HasBytes(Midstate, 128)
  BY <1>1, ChainingType
<1>3. EndsIn((Midstate \o SubSeq(WorkData, 65, 76)) \o TopOfTarget, 140, TopOfTarget)
  BY <1>2, TopBytes, GatheredEnds
<1>4. Gathered = (Midstate \o SubSeq(WorkData, 65, 76)) \o TopOfTarget
  <2>1. TargetPart = TopOfTarget
    BY <1>1 DEF TargetPart
  <2>2. 65 = g.start + 1 /\ 76 = g.start + g.len
    BY <1>1
  <2>3. Gathered = (Midstate \o SubSeq(WorkData, 65, 76)) \o TargetPart
    BY <2>2, GatheredIs
  <2>. QED
    BY <2>1, <2>3
<1>. DEFINE d == Gathered
<1>5. EndsIn(d, 140, TopOfTarget)
  BY <1>3, <1>4
<1>6. Packed(d) = (SubSeq(d, 1, 128) \o Swapped(SubSeq(d, 129, 140), 4)) \o Word(d, 35)
  BY <1>1 DEF Packed, swap_endian
<1>. HIDE DEF d
<1>7. Word(d, 35) = TopOfTarget
  BY <1>5, LastWordIs
<1>8. HasBytes(d, 144)
  BY <1>5 DEF EndsIn
<1>9. HasBytes(SubSeq(d, 1, 128), 128) /\ HasBytes(SubSeq(d, 129, 140), 12)
  BY <1>8, PartBytes
<1>10. HasBytes(Swapped(SubSeq(d, 129, 140), 4), 12)
  BY <1>9, SwapBytes
<1>11. HasBytes(SubSeq(d, 1, 128) \o Swapped(SubSeq(d, 129, 140), 4), 140)
  BY <1>9, <1>10, JoinBytes
<1>12. EndsIn((SubSeq(d, 1, 128) \o Swapped(SubSeq(d, 129, 140), 4)) \o TopOfTarget, 140,
              TopOfTarget)
  BY <1>11, TopBytes, JoinEnds
<1>13. EndsIn(Packed(d), 140, TopOfTarget)
  BY <1>6, <1>7, <1>12
<1>14. Word(Packed(d), 35) = TopOfTarget
  BY <1>13, LastWordIs
<1>. QED
  BY <1>1, <1>13, <1>14 DEF d, EndsRight, EndsIn, HasBytes

LEMMA SkeinPacks ==
    ASSUME algo \in {"phi", "skunk"}
    PROVE  EndsRight(Packed(Gathered))
<1>1. /\ g.midLen = 64 /\ g.start = 64 /\ g.len = 12 /\ g.target /\ ~ g.swap
      /\ Registers = 20 /\ LastWord = TopOfTarget
  BY DEF g, Settings, Registers, LastWord
<1>2. HasBytes(Midstate, 64)
  BY <1>1, ChainingType
<1>3. EndsIn((Midstate \o SubSeq(WorkData, 65, 76)) \o TopOfTarget, 76, TopOfTarget)
  BY <1>2, TopBytes, GatheredEnds
<1>4. Gathered = (Midstate \o SubSeq(WorkData, 65, 76)) \o TopOfTarget
  <2>1. TargetPart = TopOfTarget
    BY <1>1 DEF TargetPart
  <2>2. 65 = g.start + 1 /\ 76 = g.start + g.len
    BY <1>1
  <2>3. Gathered = (Midstate \o SubSeq(WorkData, 65, 76)) \o TargetPart
    BY <2>2, GatheredIs
  <2>. QED
    BY <2>1, <2>3
<1>. DEFINE d == Gathered
            c == Swapped(SubSeq(d, 1, 64), 8)
<1>5. EndsIn(d, 76, TopOfTarget)
  BY <1>3, <1>4
<1>6. Packed(d) = (((c \o Word(d, 18)) \o Word(d, 17)) \o Word(d, 16)) \o Word(d, 19)
  BY <1>1, SMTT(30) DEF Packed, swap_endian_64
<1>. HIDE DEF d
<1>7. Word(d, 19) = TopOfTarget
  BY <1>5, LastWordIs
<1>8. HasBytes(d, 80)
  BY <1>5 DEF EndsIn
<1>9. HasBytes(SubSeq(d, 1, 64), 64)
  BY <1>8, PartBytes
<1>10. HasBytes(c, 64)
  BY <1>9, SwapBytes
<1>. HIDE DEF c
<1>11. HasBytes(Word(d, 18), 4) /\ HasBytes(Word(d, 17), 4) /\ HasBytes(Word(d, 16), 4)
  BY <1>8, WordBytes
<1>12. HasBytes(c \o Word(d, 18), 68)
  BY <1>10, <1>11, JoinBytes
<1>13. HasBytes((c \o Word(d, 18)) \o Word(d, 17), 72)
  BY <1>11, <1>12, JoinBytes
<1>14. HasBytes(((c \o Word(d, 18)) \o Word(d, 17)) \o Word(d, 16), 76)
  BY <1>11, <1>13, JoinBytes
<1>15. EndsIn((((c \o Word(d, 18)) \o Word(d, 17)) \o Word(d, 16)) \o TopOfTarget, 76,
              TopOfTarget)
  BY <1>14, TopBytes, JoinEnds
<1>16. EndsIn(Packed(d), 76, TopOfTarget)
  BY <1>6, <1>7, <1>15
<1>17. Word(Packed(d), 19) = TopOfTarget
  BY <1>16, LastWordIs
<1>. QED
  BY <1>1, <1>16, <1>17 DEF d, EndsRight, EndsIn, HasBytes

LEMMA PayloadEndsRight ==
    ASSUME algo \in Algos
    PROVE  EndsRight(Packed(Gathered))
BY AlgoIs, GroestlPacks, MyrPacks, TribusPacks, SkeinPacks

LEMMA RegistersType == Registers \in Nat /\ Registers > 0
BY DEF Registers

(***************************************************************************)
(* Parts of sequences of bytes, and groups of bytes turned round.          *)
(***************************************************************************)
\* The bytes of s behind the first a, up to the b-th.
Part(s, a, b) == SubSeq(s, a + 1, b)

LEMMA PartHas ==
    ASSUME NEW s, NEW l \in Nat, HasBytes(s, l),
           NEW a \in Nat, NEW b \in Nat, NEW n \in Nat, b = a + n, b <= l
    PROVE  /\ HasBytes(Part(s, a, b), n)
           /\ \A i \in 1..n : Part(s, a, b)[i] = s[a + i]
<1>1. s \in Text /\ Len(s) = l
  BY DEF HasBytes
<1>2. PICK m \in Nat : m = a + 1
  OBVIOUS
<1>3. 1 <= m /\ m <= b + 1 /\ b <= Len(s) /\ b - m + 1 = n
  BY <1>1, <1>2
<1>4. SubSeq(s, m, b) \in Text /\ Len(SubSeq(s, m, b)) = b - m + 1
  BY <1>1, <1>3, PartType
<1>5. ASSUME NEW i \in 1..n
      PROVE  SubSeq(s, m, b)[i] = s[a + i]
  <2>1. i \in 1..(b - m + 1) /\ m + i - 1 = a + i
    BY <1>2, <1>3
  <2>2. SubSeq(s, m, b)[i] = s[m + i - 1]
    BY <1>1, <1>3, <2>1, PartAt, ZenonT(30)
  <2>. QED
    BY <2>1, <2>2
<1>6. Part(s, a, b) = SubSeq(s, m, b)
  BY <1>2 DEF Part
<1>. HIDE DEF Part
<1>. QED
  BY <1>3, <1>4, <1>5, <1>6 DEF HasBytes

\* Two sequences of n bytes are the same if their bytes are.
LEMMA SameBytes ==
    ASSUME NEW s, NEW t, NEW n \in Nat, HasBytes(s, n), HasBytes(t, n),
           \A i \in 1..n : s[i] = t[i]
    PROVE  s = t
BY SameText DEF HasBytes

LEMMA PartOfPart ==
    ASSUME NEW s, NEW l \in Nat, HasBytes(s, l),
           NEW a \in Nat, NEW b \in Nat, a <= b, b <= l,
           NEW c \in Nat, NEW d \in Nat, c <= d, a + d <= b,
           NEW x \in Nat, x = a + c, NEW y \in Nat, y = a + d
    PROVE  Part(Part(s, a, b), c, d) = Part(s, x, y)
<1>1. PICK t : t = Part(s, a, b)
  OBVIOUS
<1>2. PICK k \in Nat : k = b - a
  <2>1. b - a \in Nat
    OBVIOUS
  <2>. QED
    BY <2>1, Zenon
<1>3. HasBytes(t, k) /\ \A i \in 1..k : t[i] = s[a + i]
  <2>1. b = a + k
    BY <1>2
  <2>. QED
    BY <1>1, <2>1, PartHas, SMTT(30)
<1>4. PICK n \in Nat : n = d - c
  <2>1. d - c \in Nat
    OBVIOUS
  <2>. QED
    BY <2>1, Zenon
<1>5. d <= k /\ y <= l /\ d = c + n /\ y = x + n
  BY <1>2, <1>4
<1>6. HasBytes(Part(t, c, d), n) /\ \A i \in 1..n : Part(t, c, d)[i] = t[c + i]
  BY <1>3, <1>4, <1>5, PartHas
<1>7. HasBytes(Part(s, x, y), n) /\ \A i \in 1..n : Part(s, x, y)[i] = s[x + i]
  BY <1>5, PartHas
<1>8. ASSUME NEW i \in 1..n
      PROVE  t[c + i] = s[x + i]
  <2>1. c + i \in 1..k /\ a + (c + i) = x + i
    BY <1>4, <1>5
  <2>2. t[c + i] = s[a + (c + i)]
    BY <1>3, <2>1
  <2>. QED
    BY <2>1, <2>2
<1>9. Part(t, c, d) = Part(s, x, y)
  BY <1>6, <1>7, <1>8, SameBytes
<1>. QED
  BY <1>1, <1>9

\* A sequence is joined from its parts.
LEMMA PartsMeet ==
    ASSUME NEW s, NEW l \in Nat, HasBytes(s, l),
           NEW a \in Nat, NEW b \in Nat, NEW c \in Nat, a <= b, b <= c, c <= l
    PROVE  Part(s, a, b) \o Part(s, b, c) = Part(s, a, c)
<1>1. PICK k \in Nat, m \in Nat, n \in Nat : k = b - a /\ m = c - b /\ n = c - a
  <2>1. b - a \in Nat /\ c - b \in Nat /\ c - a \in Nat
    OBVIOUS
  <2>. QED
    BY <2>1, Zenon
<1>2. n = k + m
  BY <1>1
<1>. DEFINE p == Part(s, a, b)
            q == Part(s, b, c)
            r == Part(s, a, c)
<1>3. /\ HasBytes(p, k) /\ \A i \in 1..k : p[i] = s[a + i]
      /\ HasBytes(q, m) /\ \A i \in 1..m : q[i] = s[b + i]
      /\ HasBytes(r, n) /\ \A i \in 1..n : r[i] = s[a + i]
  <2>1. b = a + k /\ c = b + m /\ c = a + n /\ b <= l
    BY <1>1
  <2>2. HasBytes(p, k) /\ \A i \in 1..k : p[i] = s[a + i]
    BY <2>1, PartHas
  <2>3. HasBytes(q, m) /\ \A i \in 1..m : q[i] = s[b + i]
    BY <2>1, PartHas
  <2>4. HasBytes(r, n) /\ \A i \in 1..n : r[i] = s[a + i]
    BY <2>1, PartHas
  <2>. QED
    BY <2>2, <2>3, <2>4, Zenon
<1>. HIDE DEF p, q, r
<1>4. HasBytes(p \o q, n)
  BY <1>2, <1>3, JoinBytes
<1>5. ASSUME NEW i \in 1..n
      PROVE  (p \o q)[i] = r[i]
  <2>1. (p \o q)[i] = IF i <= k THEN p[i] ELSE q[i - k]
    <3>1. p \in Text /\ q \in Text /\ Len(p) = k
      BY <1>2, <1>3 DEF HasBytes
    <3>2. i \in 1..(Len(p) + Len(q))
      BY <1>2, <1>3 DEF HasBytes
    <3>3. (p \o q)[i] = IF i <= Len(p) THEN p[i] ELSE q[i - Len(p)]
      BY <3>1, <3>2, JoinedAt, Zenon
    <3>. QED
      BY <3>1, <3>3, Zenon
  <2>2. r[i] = s[a + i]
    BY <1>3
  <2>3. CASE i <= k
    <3>1. i \in 1..k
      BY <2>3
    <3>. QED
      BY <1>3, <2>1, <2>2, <2>3, <3>1
  <2>4. CASE ~ (i <= k)
    <3>1. i - k \in 1..m /\ b + (i - k) = a + i
      BY <1>1, <1>2, <2>4
    <3>2. q[i - k] = s[b + (i - k)]
      BY <1>3, <3>1, Zenon
    <3>. QED
      BY <2>1, <2>2, <2>4, <3>1, <3>2
  <2>. QED
    BY <2>3, <2>4
<1>. QED
  BY <1>3, <1>4, <1>5, SameBytes DEF p, q, r

\* The parts of a sequence that was joined.
LEMMA PartsOfJoined ==
    ASSUME NEW a, NEW b, NEW n \in Nat, NEW m \in Nat, NEW l \in Nat, l = n + m,
           HasBytes(a, n), HasBytes(b, m)
    PROVE  Part(a \o b, 0, n) = a /\ Part(a \o b, n, l) = b
<1>1. HasBytes(a \o b, l)
  BY JoinBytes
<1>2. \A i \in 1..l : (a \o b)[i] = IF i <= n THEN a[i] ELSE b[i - n]
  BY JoinedAt DEF HasBytes
<1>. DEFINE s == a \o b
<1>. HIDE DEF s
<1>3. /\ HasBytes(s, l)
      /\ \A i \in 1..l : s[i] = IF i <= n THEN a[i] ELSE b[i - n]
  BY <1>1, <1>2, Zenon DEF s
<1>0. 0 <= n /\ n <= l /\ n = 0 + n /\ 0 \in Nat
  OBVIOUS
<1>4. HasBytes(Part(s, 0, n), n) /\ \A i \in 1..n : Part(s, 0, n)[i] = s[i]
  <2>1. \A i \in 1..n : 0 + i = i
    OBVIOUS
  <2>. QED
    BY <1>0, <1>3, <2>1, PartHas
<1>5. HasBytes(Part(s, n, l), m) /\ \A i \in 1..m : Part(s, n, l)[i] = s[n + i]
  BY <1>0, <1>3, PartHas
<1>6. \A i \in 1..n : s[i] = a[i]
  BY <1>0, <1>3
<1>7. \A i \in 1..m : s[n + i] = b[i]
  BY <1>0, <1>3
<1>8. Part(s, 0, n) = a
  BY <1>4, <1>6, SameBytes
<1>9. Part(s, n, l) = b
  BY <1>5, <1>7, SameBytes
<1>. QED
  BY <1>8, <1>9 DEF s

\* Where the j-th byte comes from when groups of n bytes are turned round.
Mirror(n, j) == n * ((j - 1) \div n) + n - ((j - 1) % n)

LEMMA MirrorIs ==
    ASSUME NEW n \in {4, 8}, NEW l \in Nat, l % n = 0, NEW j \in 1..l
    PROVE  Mirror(n, j) \in 1..l /\ Mirror(n, Mirror(n, j)) = j
<1>1. CASE n = 4
  BY <1>1 DEF Mirror
<1>2. CASE n = 8
  BY <1>2 DEF Mirror
<1>. QED
  BY <1>1, <1>2

LEMMA MirrorMoves ==
    ASSUME NEW a \in Nat, a % 4 = 0, NEW j \in Nat, 0 < j
    PROVE  Mirror(4, a + j) = a + Mirror(4, j)
BY DEF Mirror

LEMMA SwapAt ==
    ASSUME NEW s, NEW l \in Nat, HasBytes(s, l), NEW n \in {4, 8}, l % n = 0
    PROVE  /\ HasBytes(Swapped(s, n), l)
           /\ \A j \in 1..l : Swapped(s, n)[j] = s[Mirror(n, j)]
<1>1. HasBytes(Swapped(s, n), l)
  BY SwapBytes
<1>2. \A j \in 1..l : Swapped(s, n)[j] = s[Mirror(n, j)]
  BY DEF Swapped, HasBytes, Mirror
<1>. QED
  BY <1>1, <1>2

LEMMA SwapTwice ==
    ASSUME NEW s, NEW l \in Nat, HasBytes(s, l), NEW n \in {4, 8}, l % n = 0
    PROVE  Swapped(Swapped(s, n), n) = s
<1>1. PICK t : t = Swapped(s, n)
  OBVIOUS
<1>2. HasBytes(t, l) /\ \A j \in 1..l : t[j] = s[Mirror(n, j)]
  BY <1>1, SwapAt
<1>3. HasBytes(Swapped(t, n), l) /\ \A j \in 1..l : Swapped(t, n)[j] = t[Mirror(n, j)]
  BY <1>2, SwapAt
<1>4. \A j \in 1..l : Mirror(n, j) \in 1..l /\ Mirror(n, Mirror(n, j)) = j
  BY MirrorIs
<1>5. \A j \in 1..l : Swapped(t, n)[j] = s[j]
  BY <1>2, <1>3, <1>4
<1>6. Swapped(t, n) = s
  BY <1>2, <1>3, <1>5, SameBytes
<1>. QED
  BY <1>1, <1>6

Spans(a, n, b) == b = a + n

\* p has the bytes of s behind the first a.
Shows(p, s, a, n) == HasBytes(p, n) /\ \A i \in 1..n : p[i] = s[a + i]

LEMMA PartSpans ==
    ASSUME NEW s, NEW l \in Nat, HasBytes(s, l),
           NEW a \in Nat, NEW b \in Nat, NEW n \in Nat, Spans(a, n, b), b <= l
    PROVE  Shows(Part(s, a, b), s, a, n)
<1>1. b = a + n
  BY DEF Spans
<1>. QED
  BY <1>1, PartHas DEF Shows

\* A part that begins and ends between two words is turned round on its own.
LEMMA PartOfSwapped ==
    ASSUME NEW s, NEW l \in Nat, HasBytes(s, l), l % 4 = 0,
           NEW a \in Nat, NEW b \in Nat, a <= b, b <= l, a % 4 = 0, b % 4 = 0
    PROVE  Part(Swapped(s, 4), a, b) = Swapped(Part(s, a, b), 4)
<1>1. PICK t, p : t = Swapped(s, 4) /\ p = Part(s, a, b)
  OBVIOUS
<1>2. PICK m \in Nat : b = a + m
  <2>1. b - a \in Nat /\ b = a + (b - a)
    OBVIOUS
  <2>. QED
    BY <2>1, Zenon
<1>3. m % 4 = 0 /\ Spans(a, m, b)
  BY <1>2 DEF Spans
<1>4. HasBytes(t, l) /\ \A j \in 1..l : t[j] = s[Mirror(4, j)]
  BY <1>1, SwapAt
<1>5. HasBytes(p, m) /\ \A i \in 1..m : p[i] = s[a + i]
  <2>1. Shows(Part(s, a, b), s, a, m)
    BY <1>3, PartSpans, Zenon
  <2>. QED
    BY <1>1, <2>1 DEF Shows
<1>6. HasBytes(Part(t, a, b), m) /\ \A i \in 1..m : Part(t, a, b)[i] = t[a + i]
  <2>1. Shows(Part(t, a, b), t, a, m)
    BY <1>3, <1>4, PartSpans, Zenon
  <2>. QED
    BY <2>1 DEF Shows
<1>7. HasBytes(Swapped(p, 4), m) /\ \A j \in 1..m : Swapped(p, 4)[j] = p[Mirror(4, j)]
  BY <1>3, <1>5, SwapAt
<1>8. ASSUME NEW j \in 1..m
      PROVE  t[a + j] = Swapped(p, 4)[j]
  <2>1. a + j \in 1..l
    BY <1>2
  <2>2. Mirror(4, a + j) = a + Mirror(4, j)
    <3>1. j \in Nat /\ 0 < j
      OBVIOUS
    <3>. QED
      BY <3>1, MirrorMoves, Zenon
  <2>3. Mirror(4, j) \in 1..m
    BY <1>3, MirrorIs
  <2>. QED
    BY <1>4, <1>5, <1>7, <2>1, <2>2, <2>3
<1>9. Part(t, a, b) = Swapped(p, 4)
  BY <1>6, <1>7, <1>8, SameBytes
<1>. QED
  BY <1>1, <1>9

LEMMA ReverseHas ==
    ASSUME NEW s, NEW n \in Nat, HasBytes(s, n)
    PROVE  /\ HasBytes(Reverse(s), n)
           /\ \A i \in 1..n : Reverse(s)[i] = s[n - i + 1]
<1>1. \A i \in 1..n : Reverse(s)[i] = s[n - i + 1]
  BY DEF Reverse, HasBytes
<1>. QED
  BY <1>1, ReverseType DEF HasBytes

LEMMA ReverseTwice ==
    ASSUME NEW s, NEW n \in Nat, HasBytes(s, n)
    PROVE  Reverse(Reverse(s)) = s
<1>1. PICK t : t = Reverse(s)
  OBVIOUS
<1>2. HasBytes(t, n) /\ \A i \in 1..n : t[i] = s[n - i + 1]
  BY <1>1, ReverseHas
<1>3. HasBytes(Reverse(t), n) /\ \A i \in 1..n : Reverse(t)[i] = t[n - i + 1]
  BY <1>2, ReverseHas
<1>4. \A i \in 1..n : n - i + 1 \in 1..n /\ n - (n - i + 1) + 1 = i
  OBVIOUS
<1>5. \A i \in 1..n : Reverse(t)[i] = s[i]
  BY <1>2, <1>3, <1>4
<1>6. Reverse(t) = s
  BY <1>3, <1>5, SameBytes
<1>. QED
  BY <1>1, <1>6

LEMMA ReverseJoined ==
    ASSUME NEW a, NEW b, NEW n \in Nat, NEW m \in Nat, HasBytes(a, n), HasBytes(b, m)
    PROVE  Reverse(a \o b) = Reverse(b) \o Reverse(a)
<1>1. PICK l \in Nat : l = n + m
  OBVIOUS
<1>. DEFINE s == a \o b
            p == Reverse(b)
            q == Reverse(a)
<1>2. HasBytes(s, l) /\ \A i \in 1..l : s[i] = IF i <= n THEN a[i] ELSE b[i - n]
  <2>1. HasBytes(s, l)
    BY <1>1, JoinBytes
  <2>2. \A i \in 1..l : s[i] = IF i <= n THEN a[i] ELSE b[i - n]
    BY <1>1, JoinedAt DEF HasBytes
  <2>. QED
    BY <2>1, <2>2
<1>3. /\ HasBytes(p, m) /\ \A i \in 1..m : p[i] = b[m - i + 1]
      /\ HasBytes(q, n) /\ \A i \in 1..n : q[i] = a[n - i + 1]
  BY ReverseHas
<1>. HIDE DEF s, p, q
<1>4. HasBytes(Reverse(s), l) /\ \A i \in 1..l : Reverse(s)[i] = s[l - i + 1]
  BY <1>2, ReverseHas
<1>5. HasBytes(p \o q, l) /\ \A i \in 1..l : (p \o q)[i] = IF i <= m THEN p[i] ELSE q[i - m]
  BY <1>1, <1>3, JoinBytes, JoinedAt DEF HasBytes
<1>6. ASSUME NEW i \in 1..l
      PROVE  Reverse(s)[i] = (p \o q)[i]
  <2>1. l - i + 1 \in 1..l
    OBVIOUS
  <2>2. Reverse(s)[i] = IF l - i + 1 <= n THEN a[l - i + 1] ELSE b[l - i + 1 - n]
    BY <1>2, <1>4, <2>1
  <2>3. CASE i <= m
    <3>1. i \in 1..m /\ ~ (l - i + 1 <= n) /\ l - i + 1 - n = m - i + 1
      BY <1>1, <2>3
    <3>2. p[i] = b[m - i + 1]
      BY <1>3, <3>1, Zenon
    <3>3. (p \o q)[i] = p[i]
      BY <1>5, <2>3
    <3>. QED
      BY <2>2, <3>1, <3>2, <3>3
  <2>4. CASE ~ (i <= m)
    <3>1. i - m \in 1..n /\ l - i + 1 <= n /\ l - i + 1 = n - (i - m) + 1
      BY <1>1, <2>4
    <3>2. q[i - m] = a[n - (i - m) + 1]
      BY <1>3, <3>1, Zenon
    <3>3. (p \o q)[i] = q[i - m]
      BY <1>5, <2>4
    <3>. QED
      BY <2>2, <3>1, <3>2, <3>3
  <2>. QED
    BY <2>3, <2>4
<1>7. Reverse(s) = p \o q
  BY <1>4, <1>5, <1>6, SameBytes
<1>. QED
  BY <1>7 DEF s, p, q

\* A word turned round, as bytes or as a group of them.
LEMMA ReverseWord ==
    ASSUME NEW w, HasBytes(w, 4)
    PROVE  Reverse(w) = Swapped(w, 4)
<1>1. HasBytes(Reverse(w), 4) /\ \A i \in 1..4 : Reverse(w)[i] = w[4 - i + 1]
  BY ReverseHas
<1>2. HasBytes(Swapped(w, 4), 4) /\ \A j \in 1..4 : Swapped(w, 4)[j] = w[Mirror(4, j)]
  BY SwapAt
<1>3. \A j \in 1..4 : Mirror(4, j) = 4 - j + 1
  BY DEF Mirror
<1>4. \A j \in 1..4 : Reverse(w)[j] = Swapped(w, 4)[j]
  BY <1>1, <1>2, <1>3
<1>. QED
  BY <1>1, <1>2, <1>4, SameBytes

(***************************************************************************)
(* The registers side by side are the words that were packed.              *)
(***************************************************************************)
Below == {p \in Nat \X Nat : p[1] < p[2]}

LEMMA Induction ==
    ASSUME NEW T \in SUBSET Nat, 0 \in T, \A n \in T : n + 1 \in T
    PROVE  T = Nat
<1>1. IsWellFoundedOn(Below, Nat)
  BY NatLessThanWellFounded, Zenon DEF OpToRel, Below
<1>. SUFFICES ASSUME Nat \ T # {} PROVE FALSE
  OBVIOUS
<1>2. Nat \ T \subseteq Nat
  OBVIOUS
<1>3. PICK x \in Nat \ T : \A y \in Nat \ T : ~ (<<y, x>> \in Below)
  BY <1>1, <1>2, WFMin
<1>4. \A y \in Nat \ T : <<y, x>> \in Below <=> y < x
  BY DEF Below
<1>5. x - 1 \in Nat /\ x - 1 < x
  BY <1>3
<1>6. x - 1 \in T
  BY <1>3, <1>4, <1>5
<1>. QED
  BY <1>5, <1>6

\* f flattens the first n members of ss.
Flattens(f, ss, n) ==
    f = [i \in 1..n |-> IF i = 1 THEN ss[i] ELSE f[i - 1] \o ss[i]]

LEMMA FlattensOnce ==
    ASSUME NEW ss, NEW n \in Nat, NEW f, Flattens(f, ss, n), NEW h, Flattens(h, ss, n),
           NEW k \in 1..n
    PROVE  f[k] = h[k]
<1>. DEFINE T == {i \in Nat : i \in 1..n => f[i] = h[i]}
<1>0. /\ \A i \in 1..n : f[i] = IF i = 1 THEN ss[i] ELSE f[i - 1] \o ss[i]
      /\ \A i \in 1..n : h[i] = IF i = 1 THEN ss[i] ELSE h[i - 1] \o ss[i]
  BY Zenon DEF Flattens
<1>1. 0 \in T
  OBVIOUS
<1>2. ASSUME NEW i \in T
      PROVE  i + 1 \in T
  BY <1>0
<1>3. T = Nat
  BY <1>1, <1>2, Induction
<1>. QED
  BY <1>3

LEMMA FlattenedAs ==
    ASSUME NEW S, NEW ss \in Seq(S), Len(ss) # 0, NEW h, Flattens(h, ss, Len(ss))
    PROVE  FlattenSeq(ss) = h[Len(ss)]
<1>1. PICK f : f = CHOOSE x : Flattens(x, ss, Len(ss))
  OBVIOUS
<1>2. Flattens(f, ss, Len(ss))
  BY <1>1, Zenon
<1>3. FlattenSeq(ss) = f[Len(ss)]
  BY <1>1, Zenon DEF FlattenSeq, Flattens
<1>4. Len(ss) \in Nat /\ Len(ss) \in 1..Len(ss)
  OBVIOUS
<1>5. f[Len(ss)] = h[Len(ss)]
  BY <1>2, <1>4, FlattensOnce
<1>. QED
  BY <1>3, <1>5, Zenon

LEMMA WordPart ==
    ASSUME NEW s, NEW k \in Nat
    PROVE  Word(s, k) = Part(s, 4 * k, 4 * k + 4)
BY DEF Word, Part

\* The words of d.
WordsOf(d, r) == [i \in 1..r |-> Word(d, i - 1)]

LEMMA WordsJoin ==
    ASSUME NEW d, NEW r \in Nat, r # 0, NEW l \in Nat, l = 4 * r, HasBytes(d, l)
    PROVE  FlattenSeq(WordsOf(d, r)) = d
<1>. DEFINE ss == WordsOf(d, r)
            h == [i \in 1..r |-> Part(d, 0, 4 * i)]
<1>1. ss = [i \in 1..r |-> Word(d, i - 1)]
  BY DEF WordsOf
<1>2. \A i \in 1..r : HasBytes(Word(d, i - 1), 4)
  <2>. SUFFICES ASSUME NEW i \in 1..r PROVE HasBytes(Word(d, i - 1), 4)
    OBVIOUS
  <2>1. PICK k \in Nat : k = i - 1
    OBVIOUS
  <2>2. 4 * k + 4 <= l
    BY <2>1
  <2>3. HasBytes(Word(d, k), 4)
    BY <2>2, WordBytes
  <2>. QED
    BY <2>1, <2>3
<1>3. ss \in Seq(Text) /\ Len(ss) = r
  BY <1>1, <1>2 DEF HasBytes
<1>4. \A i \in 1..r : ss[i] = Word(d, i - 1)
  BY <1>1
<1>. HIDE DEF ss
<1>5. ASSUME NEW i \in 1..r
      PROVE  h[i] = IF i = 1 THEN ss[i] ELSE h[i - 1] \o ss[i]
  <2>1. PICK k \in Nat : k = i - 1
    OBVIOUS
  <2>2. ss[i] = Part(d, 4 * k, 4 * k + 4)
    BY <1>4, <2>1, WordPart
  <2>3. CASE i = 1
    <3>1. k = 0 /\ 4 * k = 0 /\ 4 * k + 4 = 4 * i
      BY <2>1, <2>3
    <3>. QED
      BY <2>2, <2>3, <3>1
  <2>4. CASE i # 1
    <3>1. PICK a \in Nat, b \in Nat : a = 4 * k /\ b = 4 * k + 4
      OBVIOUS
    <3>2. k \in 1..r /\ k = i - 1 /\ b = 4 * i
      BY <2>1, <2>4, <3>1
    <3>3. 0 <= a /\ a <= b /\ b <= l
      BY <3>1, <3>2
    <3>4. Part(d, 0, a) \o Part(d, a, b) = Part(d, 0, b)
      BY <3>3, PartsMeet
    <3>5. h[i - 1] = Part(d, 0, a)
      BY <3>1, <3>2
    <3>. QED
      BY <2>2, <2>4, <3>1, <3>2, <3>4, <3>5
  <2>. QED
    BY <2>3, <2>4
<1>6. h = [i \in 1..r |-> h[i]]
  BY Zenon
<1>7. h[r] = d
  <2>1. h[r] = Part(d, 0, l)
    OBVIOUS
  <2>2. Part(d, 0, l) = SubSeq(d, 1, l)
    BY DEF Part
  <2>3. SubSeq(d, 1, l) = d
    BY Whole DEF HasBytes
  <2>. QED
    BY <2>1, <2>2, <2>3
<1>. HIDE DEF h
<1>8. h = [i \in 1..r |-> IF i = 1 THEN ss[i] ELSE h[i - 1] \o ss[i]]
  BY <1>5, <1>6, Zenon
<1>9. Flattens(h, ss, r)
  BY <1>8 DEF Flattens
<1>10. FlattenSeq(ss) = h[r]
  BY <1>3, <1>9, FlattenedAs
<1>. QED
  BY <1>7, <1>10 DEF ss

(***************************************************************************)
(* The parts of what was packed that the miners look at.                   *)
(***************************************************************************)
LEMMA MessageHas == HasBytes(Message, Len(Message)) /\ Len(Message) \in Nat /\ 80 <= Len(Message)
<1>1. Message \in Text
  BY MessageIsText
<1>2. Len(Message) \in Nat
  BY <1>1 DEF Text
<1>. QED
  BY <1>1, <1>2, PayloadAssumption DEF HasBytes

\* Only the first 80 bytes of it are the header.
LEMMA HeaderPart ==
    ASSUME NEW a \in Nat, NEW b \in Nat, NEW n \in Nat, b = a + n, b <= 80
    PROVE  HasBytes(Part(Message, a, b), n)
<1>1. PICK l \in Nat : l = Len(Message)
  BY MessageHas
<1>2. HasBytes(Message, l) /\ b <= l
  BY <1>1, MessageHas
<1>. QED
  BY <1>2, PartHas

LEMMA WorkDataParts ==
    /\ HasBytes(WorkData, 80)
    /\ Part(WorkData, 0, 76) = Swapped(Part(Message, 0, 76), 4)
    /\ Part(WorkData, 64, 76) = Swapped(Part(Message, 64, 76), 4)
<1>1. PICK p : p = Part(Message, 0, 76)
  OBVIOUS
<1>2. HasBytes(p, 76)
  BY <1>1, HeaderPart
<1>3. WorkData = Swapped(p, 4) \o Zeros(4)
  BY <1>1 DEF WorkData, Part, swap_endian
<1>4. HasBytes(Swapped(p, 4), 76)
  BY <1>2, SwapBytes
<1>5. HasBytes(Zeros(4), 4)
  BY ZerosType DEF HasBytes
<1>6. HasBytes(WorkData, 80)
  BY <1>3, <1>4, <1>5, JoinBytes
<1>7. Part(WorkData, 0, 76) = Swapped(p, 4)
  BY <1>3, <1>4, <1>5, PartsOfJoined
<1>8. Part(WorkData, 64, 76) = Part(Part(WorkData, 0, 76), 64, 76)
  BY <1>6, PartOfPart
<1>9. Part(Swapped(p, 4), 64, 76) = Swapped(Part(p, 64, 76), 4)
  BY <1>2, PartOfSwapped
<1>10. Part(p, 64, 76) = Part(Message, 64, 76)
  <2>1. PICK l \in Nat : l = Len(Message)
    BY MessageHas
  <2>2. HasBytes(Message, l) /\ 76 <= l
    BY <2>1, MessageHas
  <2>. QED
    BY <1>1, <2>2, PartOfPart
<1>. QED
  BY <1>1, <1>6, <1>7, <1>8, <1>9, <1>10

LEMMA GatheredAs ==
    Gathered = (Midstate \o Part(WorkData, g.start, g.start + g.len)) \o TargetPart
BY Zenon DEF Gathered, TargetPart, Part

\* What a groestl bitstream sees of what was packed.
LEMMA GroestlSees ==
    ASSUME algo \in {"groestl", "dmd-gr", "myr-gr"}
    PROVE  Part(Packed(Gathered), 0, 76) = Part(Message, 0, 76)
<1>1. /\ g.midLen = 0 /\ g.start = 0 /\ g.swap
      /\ algo # "myr-gr" => g.len = 76 /\ TargetPart = Reverse(TopOfTarget)
      /\ algo = "myr-gr" => g.len = 80 /\ TargetPart = <<>>
  BY DEF g, Settings, TargetPart
<1>2. HasBytes(Midstate, 0)
  BY <1>1, ChainingType
<1>3. Midstate = <<>>
  BY <1>2, EmptyIs DEF HasBytes
<1>4. Gathered = (<<>> \o Part(WorkData, 0, g.len)) \o TargetPart
  <2>1. g.start + g.len = g.len
    BY <1>1
  <2>. QED
    BY <1>1, <1>3, <2>1, GatheredAs
<1>5. HasBytes(Gathered, 80) /\ Part(Gathered, 0, 76) = Part(WorkData, 0, 76)
  <2>1. CASE algo # "myr-gr"
    <3>1. PICK p : p = Part(WorkData, 0, 76)
      OBVIOUS
    <3>2. HasBytes(p, 76)
      BY <3>1, WorkDataParts, PartHas
    <3>3. Gathered = p \o Reverse(TopOfTarget)
      BY <1>1, <1>4, <2>1, <3>1, <3>2, ConcatEmpty DEF HasBytes
    <3>. QED
      BY <3>1, <3>2, <3>3, TopBytes, PartsOfJoined, JoinBytes
  <2>2. CASE algo = "myr-gr"
    <3>1. Part(WorkData, 0, 80) = WorkData
      BY WorkDataParts, Whole DEF HasBytes, Part
    <3>2. Gathered = (<<>> \o WorkData) \o <<>>
      BY <1>1, <1>4, <2>2, <3>1
    <3>3. WorkData \in Text
      BY WorkDataParts DEF HasBytes
    <3>4. Gathered = WorkData
      BY <3>2, <3>3, ConcatEmpty
    <3>. QED
      BY <3>4, WorkDataParts
  <2>. QED
    BY <2>1, <2>2
<1>6. Packed(Gathered) = Swapped(Gathered, 4)
  BY <1>1 DEF Packed, swap_endian
<1>7. Part(Swapped(Gathered, 4), 0, 76) = Swapped(Part(Gathered, 0, 76), 4)
  BY <1>5, PartOfSwapped
<1>8. HasBytes(Part(Message, 0, 76), 76)
  BY HeaderPart
<1>9. Swapped(Swapped(Part(Message, 0, 76), 4), 4) = Part(Message, 0, 76)
  BY <1>8, SwapTwice
<1>. QED
  BY <1>5, <1>6, <1>7, <1>9, WorkDataParts

LEMMA ChainingHas ==
    ASSUME NEW n \in Nat, n = g.midLen
    PROVE  HasBytes(Chaining, n)
BY DEF Chaining, HasBytes, Text

\* What is gathered behind a midstate of n bytes.
LEMMA BehindMidstate ==
    ASSUME NEW n \in {64, 128}, g.midLen = n, g.start = 64, g.len = 12, g.target, ~ g.swap,
           NEW c \in Nat, c = n + 12, NEW l \in Nat, l = n + 16
    PROVE  /\ HasBytes(Gathered, l)
           /\ Part(Gathered, 0, n) = Midstate
           /\ Part(Gathered, n, c) = Swapped(Part(Message, 64, 76), 4)
<1>1. HasBytes(Midstate, n) /\ n \in Nat
  BY ChainingType
<1>2. PICK p : p = Part(WorkData, 64, 76)
  OBVIOUS
<1>3. HasBytes(p, 12) /\ p = Swapped(Part(Message, 64, 76), 4)
  BY <1>2, WorkDataParts, PartHas
<1>4. Gathered = (Midstate \o p) \o TopOfTarget
  <2>1. g.start + g.len = 76
    OBVIOUS
  <2>2. Part(WorkData, g.start, g.start + g.len) = p
    BY <1>2, <2>1
  <2>3. TargetPart = TopOfTarget
    BY DEF TargetPart
  <2>. QED
    BY <2>2, <2>3, GatheredAs
<1>5. PICK s : s = Midstate \o p
  OBVIOUS
<1>6. HasBytes(s, c) /\ Part(s, 0, n) = Midstate /\ Part(s, n, c) = p
  <2>1. c = n + 12 /\ 12 \in Nat
    OBVIOUS
  <2>2. HasBytes(Midstate \o p, c)
    BY <1>1, <1>3, <2>1, JoinBytes
  <2>3. Part(Midstate \o p, 0, n) = Midstate /\ Part(Midstate \o p, n, c) = p
    BY <1>1, <1>3, <2>1, PartsOfJoined
  <2>. QED
    BY <1>5, <2>2, <2>3
<1>7. HasBytes(s \o TopOfTarget, l) /\ Part(s \o TopOfTarget, 0, c) = s
  BY <1>6, TopBytes, JoinBytes, PartsOfJoined
<1>8. PICK t : t = s \o TopOfTarget
  OBVIOUS
<1>9. Part(t, 0, n) = Part(Part(t, 0, c), 0, n) /\ Part(t, n, c) = Part(Part(t, 0, c), n, c)
  <2>1. HasBytes(t, l) /\ 0 \in Nat /\ 0 <= c /\ c <= l /\ 0 <= n /\ n <= c
    BY <1>7, <1>8
  <2>2. 0 = 0 + 0 /\ n = 0 + n /\ c = 0 + c /\ 0 + n <= c /\ 0 + c <= c
    OBVIOUS
  <2>. QED
    BY <1>1, <2>1, <2>2, PartOfPart
<1>10. Gathered = t
  BY <1>4, <1>5, <1>8
<1>11. Part(t, 0, c) = s
  BY <1>7, <1>8
<1>12. Part(t, 0, n) = Midstate /\ Part(t, n, c) = p
  BY <1>6, <1>9, <1>11
<1>. QED
  BY <1>3, <1>7, <1>8, <1>10, <1>12

LEMMA JhSees ==
    ASSUME algo = "tribus"
    PROVE  /\ Part(Packed(Gathered), 0, 128) = Reverse(Chaining)
           /\ Part(Packed(Gathered), 128, 140) = Part(Message, 64, 76)
<1>1. g.midLen = 128 /\ g.start = 64 /\ g.len = 12 /\ g.target /\ ~ g.swap
  BY DEF g, Settings
<1>2. PICK d : d = Gathered
  OBVIOUS
<1>3. /\ HasBytes(d, 144) /\ Part(d, 0, 128) = Midstate
      /\ Part(d, 128, 140) = Swapped(Part(Message, 64, 76), 4)
  BY <1>1, <1>2, BehindMidstate
<1>4. Midstate = Reverse(Chaining)
  BY DEF Midstate
<1>5. Packed(d) = (Part(d, 0, 128) \o Swapped(Part(d, 128, 140), 4)) \o Word(d, 35)
  BY <1>1, SMTT(30) DEF Packed, swap_endian, Part
<1>6. HasBytes(Part(d, 0, 128), 128) /\ HasBytes(Part(d, 128, 140), 12)
  BY <1>3, PartHas
<1>7. PICK p, q, w : p = Part(d, 0, 128) /\ q = Swapped(Part(d, 128, 140), 4) /\ w = Word(d, 35)
  OBVIOUS
<1>8. HasBytes(p, 128) /\ HasBytes(q, 12) /\ HasBytes(w, 4)
  BY <1>3, <1>6, <1>7, SwapBytes, WordBytes
<1>9. /\ HasBytes(p \o q, 140) /\ Part(p \o q, 0, 128) = p /\ Part(p \o q, 128, 140) = q
  <2>1. HasBytes(p \o q, 140)
    BY <1>8, JoinBytes
  <2>2. Part(p \o q, 0, 128) = p /\ Part(p \o q, 128, 140) = q
    BY <1>8, PartsOfJoined
  <2>. QED
    BY <2>1, <2>2
<1>10. PICK s : s = p \o q
  OBVIOUS
<1>11. HasBytes(s \o w, 144) /\ Part(s \o w, 0, 140) = s
  <2>1. HasBytes(s, 140)
    BY <1>9, <1>10
  <2>2. HasBytes(s \o w, 144)
    BY <1>8, <2>1, JoinBytes
  <2>3. Part(s \o w, 0, 140) = s
    BY <1>8, <2>1, PartsOfJoined
  <2>. QED
    BY <2>2, <2>3
<1>12. PICK t : t = s \o w
  OBVIOUS
<1>13. Part(t, 0, 128) = Part(Part(t, 0, 140), 0, 128)
  BY <1>11, <1>12, PartOfPart
<1>14. Part(t, 128, 140) = Part(Part(t, 0, 140), 128, 140)
  BY <1>11, <1>12, PartOfPart
<1>15. Packed(d) = t
  BY <1>5, <1>7, <1>10, <1>12
<1>16. HasBytes(Part(Message, 64, 76), 12)
  BY HeaderPart
<1>17. q = Part(Message, 64, 76)
  BY <1>3, <1>7, <1>16, SwapTwice
<1>18. Part(t, 0, 128) = p /\ Part(t, 128, 140) = q
  <2>1. Part(t, 0, 140) = s
    BY <1>11, <1>12
  <2>2. Part(s, 0, 128) = p /\ Part(s, 128, 140) = q
    BY <1>9, <1>10
  <2>. QED
    BY <1>13, <1>14, <2>1, <2>2
<1>. QED
  BY <1>2, <1>3, <1>4, <1>7, <1>15, <1>17, <1>18

\* The k-th word of a header from its 64th byte on.
WordLies(k, a, b, x, y) ==
    \/ k = 16 /\ a = 0 /\ b = 4  /\ x = 64 /\ y = 68
    \/ k = 17 /\ a = 4 /\ b = 8  /\ x = 68 /\ y = 72
    \/ k = 18 /\ a = 8 /\ b = 12 /\ x = 72 /\ y = 76

LEMMA WordPartIs ==
    ASSUME NEW s, NEW l \in Nat, HasBytes(s, l), 76 <= l,
           NEW k, NEW a, NEW b, NEW x, NEW y, WordLies(k, a, b, x, y)
    PROVE  Part(Part(s, 64, 76), a, b) = Part(s, x, y)
<1>1. CASE k = 16
  <2>1. a = 0 /\ b = 4 /\ x = 64 /\ y = 68
    BY <1>1 DEF WordLies
  <2>. QED
    BY <2>1, PartOfPart
<1>2. CASE k = 17
  <2>1. a = 4 /\ b = 8 /\ x = 68 /\ y = 72
    BY <1>2 DEF WordLies
  <2>. QED
    BY <2>1, PartOfPart
<1>3. CASE k = 18
  <2>1. a = 8 /\ b = 12 /\ x = 72 /\ y = 76
    BY <1>3 DEF WordLies
  <2>. QED
    BY <2>1, PartOfPart
<1>. QED
  BY <1>1, <1>2, <1>3 DEF WordLies

\* A word of the header as the host keeps it, turned round by the bitstream.
LEMMA WordsOfHeader ==
    ASSUME NEW d, HasBytes(d, 80), Part(d, 64, 76) = Swapped(Part(Message, 64, 76), 4)
    PROVE  /\ Reverse(Word(d, 16)) = Part(Message, 64, 68)
           /\ Reverse(Word(d, 17)) = Part(Message, 68, 72)
           /\ Reverse(Word(d, 18)) = Part(Message, 72, 76)
<1>1. PICK m : m = Part(Message, 64, 76)
  OBVIOUS
<1>2. HasBytes(m, 12)
  BY <1>1, HeaderPart
<1>3. Part(d, 64, 76) = Swapped(m, 4)
  BY <1>1
<1>4. ASSUME NEW k \in Nat, NEW a \in Nat, NEW b \in Nat, NEW x \in Nat, NEW y \in Nat,
             WordLies(k, a, b, x, y)
      PROVE  Reverse(Word(d, k)) = Part(Message, x, y)
  <2>1. Word(d, k) = Part(d, x, y)
    <3>1. Word(d, k) = Part(d, 4 * k, 4 * k + 4)
      BY WordPart
    <3>2. 4 * k = x /\ 4 * k + 4 = y
      BY <1>4 DEF WordLies
    <3>. QED
      BY <3>1, <3>2
  <2>2. /\ a <= b /\ b <= 12 /\ a % 4 = 0 /\ b % 4 = 0 /\ b = a + 4 /\ x = 64 + a /\ y = 64 + b
        /\ 64 + b <= 76
    BY <1>4 DEF WordLies
  <2>3. Part(Part(d, 64, 76), a, b) = Part(d, x, y)
    BY <1>4, WordPartIs
  <2>4. Part(Swapped(m, 4), a, b) = Swapped(Part(m, a, b), 4)
    BY <1>2, <2>2, PartOfSwapped
  <2>5. HasBytes(Part(m, a, b), 4)
    BY <1>2, <2>2, PartHas
  <2>6. PICK w : w = Part(m, a, b)
    OBVIOUS
  <2>7. Word(d, k) = Swapped(w, 4) /\ HasBytes(w, 4)
    BY <1>3, <2>1, <2>3, <2>4, <2>5, <2>6
  <2>8. HasBytes(Swapped(w, 4), 4)
    BY <2>7, SwapBytes
  <2>9. Reverse(Swapped(w, 4)) = Swapped(Swapped(w, 4), 4)
    BY <2>8, ReverseWord
  <2>10. Swapped(Swapped(w, 4), 4) = w
    BY <2>7, SwapTwice
  <2>11. w = Part(Message, x, y)
    <3>1. PICK l \in Nat : l = Len(Message)
      BY MessageHas
    <3>2. HasBytes(Message, l) /\ 76 <= l
      BY <3>1, MessageHas
    <3>3. Part(Part(Message, 64, 76), a, b) = Part(Message, x, y)
      BY <1>4, <3>2, WordPartIs
    <3>. QED
      BY <1>1, <2>6, <3>3
  <2>. QED
    BY <2>7, <2>9, <2>10, <2>11
<1>5. Reverse(Word(d, 16)) = Part(Message, 64, 68)
  <2>1. WordLies(16, 0, 4, 64, 68)
    BY DEF WordLies
  <2>. QED
    BY <1>4, <2>1
<1>6. Reverse(Word(d, 17)) = Part(Message, 68, 72)
  <2>1. WordLies(17, 4, 8, 68, 72)
    BY DEF WordLies
  <2>. QED
    BY <1>4, <2>1
<1>7. Reverse(Word(d, 18)) = Part(Message, 72, 76)
  <2>1. WordLies(18, 8, 12, 72, 76)
    BY DEF WordLies
  <2>. QED
    BY <1>4, <2>1
<1>. QED
  BY <1>5, <1>6, <1>7

LEMMA SkeinSees ==
    ASSUME algo \in {"phi", "skunk"}
    PROVE  LET d == Packed(Gathered) IN
           /\ Part(d, 0, 64) = Swapped(Chaining, 8)
           /\ Reverse(Part(Part(d, 64, 76), 4, 12)) = Part(Message, 64, 72)
           /\ Reverse(Part(Part(d, 64, 76), 0, 4)) = Part(Message, 72, 76)
<1>1. g.midLen = 64 /\ g.start = 64 /\ g.len = 12 /\ g.target /\ ~ g.swap
  BY DEF g, Settings
<1>2. PICK d : d = Gathered
  OBVIOUS
<1>3. /\ HasBytes(d, 80) /\ Part(d, 0, 64) = Chaining
      /\ Part(d, 64, 76) = Swapped(Part(Message, 64, 76), 4)
  BY <1>1, <1>2, BehindMidstate DEF Midstate
<1>4. PICK c, u, v, w, o : /\ c = Swapped(Part(d, 0, 64), 8)
                           /\ u = Word(d, 18) /\ v = Word(d, 17) /\ w = Word(d, 16)
                           /\ o = Word(d, 19)
  OBVIOUS
<1>5. Packed(d) = (((c \o u) \o v) \o w) \o o
  BY <1>1, <1>4, SMTT(30) DEF Packed, swap_endian_64, Part
<1>6. HasBytes(c, 64) /\ c = Swapped(Chaining, 8)
  <2>1. HasBytes(Part(d, 0, 64), 64)
    BY <1>3, PartHas
  <2>. QED
    BY <1>3, <1>4, <2>1, SwapBytes
<1>7. HasBytes(u, 4) /\ HasBytes(v, 4) /\ HasBytes(w, 4) /\ HasBytes(o, 4)
  BY <1>3, <1>4, WordBytes
<1>8. PICK e, f : e = (u \o v) \o w /\ f = v \o w
  OBVIOUS
<1>9. HasBytes(f, 8) /\ HasBytes(u \o v, 8) /\ HasBytes(e, 12) /\ e = u \o f
  <2>1. HasBytes(v \o w, 8) /\ HasBytes(u \o v, 8)
    BY <1>7, JoinBytes
  <2>2. HasBytes((u \o v) \o w, 12)
    BY <1>7, <2>1, JoinBytes
  <2>3. (u \o v) \o w = u \o (v \o w)
    BY <1>7, ConcatAssoc, SMTT(30) DEF HasBytes
  <2>. QED
    BY <1>8, <2>1, <2>2, <2>3
<1>10. Packed(d) = (c \o e) \o o
  <2>1. (c \o u) \o v = c \o (u \o v)
    BY <1>6, <1>7, ConcatAssoc DEF HasBytes
  <2>2. (c \o (u \o v)) \o w = c \o ((u \o v) \o w)
    <3>1. c \in Text /\ u \o v \in Text /\ w \in Text
      BY <1>6, <1>7, <1>9 DEF HasBytes
    <3>. QED
      BY <3>1, ConcatAssoc, Zenon
  <2>. QED
    BY <1>5, <1>8, <2>1, <2>2
<1>11. PICK s : s = c \o e
  OBVIOUS
<1>12. HasBytes(s, 76) /\ Part(s, 0, 64) = c /\ Part(s, 64, 76) = e
  <2>1. HasBytes(c \o e, 76)
    BY <1>6, <1>9, JoinBytes
  <2>2. Part(c \o e, 0, 64) = c /\ Part(c \o e, 64, 76) = e
    <3>1. HasBytes(c, 64) /\ HasBytes(e, 12) /\ 76 = 64 + 12
      BY <1>6, <1>9
    <3>. QED
      BY <3>1, PartsOfJoined
  <2>. QED
    BY <1>11, <2>1, <2>2
<1>13. PICK t : t = s \o o
  OBVIOUS
<1>14. HasBytes(t, 80) /\ Part(t, 0, 76) = s
  <2>1. HasBytes(s \o o, 80)
    BY <1>7, <1>12, JoinBytes
  <2>2. Part(s \o o, 0, 76) = s
    BY <1>7, <1>12, PartsOfJoined
  <2>. QED
    BY <1>13, <2>1, <2>2
<1>15. Part(t, 0, 64) = Part(Part(t, 0, 76), 0, 64)
  BY <1>14, PartOfPart
<1>16. Part(t, 64, 76) = Part(Part(t, 0, 76), 64, 76)
  BY <1>14, PartOfPart
<1>17. Part(t, 0, 64) = c /\ Part(t, 64, 76) = e
  BY <1>12, <1>14, <1>15, <1>16
<1>18. Part(e, 0, 4) = u /\ Part(e, 4, 12) = f
  BY <1>7, <1>9, PartsOfJoined
<1>19. /\ Reverse(w) = Part(Message, 64, 68) /\ Reverse(v) = Part(Message, 68, 72)
       /\ Reverse(u) = Part(Message, 72, 76)
  BY <1>3, <1>4, WordsOfHeader
<1>20. Reverse(f) = Part(Message, 64, 72)
  <2>1. Reverse(v \o w) = Reverse(w) \o Reverse(v)
    BY <1>7, ReverseJoined
  <2>2. PICK l \in Nat : l = Len(Message)
    BY MessageHas
  <2>3. HasBytes(Message, l) /\ 72 <= l
    BY <2>2, MessageHas
  <2>4. Part(Message, 64, 68) \o Part(Message, 68, 72) = Part(Message, 64, 72)
    BY <2>3, PartsMeet
  <2>. QED
    BY <1>8, <1>19, <2>1, <2>4
<1>21. Packed(Gathered) = t
  BY <1>2, <1>10, <1>11, <1>13
<1>. QED
  BY <1>6, <1>17, <1>18, <1>19, <1>20, <1>21

(***************************************************************************)
(* The digest of a header, from the padding of each hash function.         *)
(***************************************************************************)
LEMMA ZerosHas == \A n \in Nat : HasBytes(Zeros(n), n)
BY ZerosType DEF HasBytes

\* A small number at the end of a padding is two bytes behind zeros.
LEMMA OneBlock == BigEndian(1, 8) = Zeros(6) \o <<0, 1>>
<1>1. PICK o, w, u : o = Zeros(6) /\ w = <<0, 1>> /\ u = BigEndian(1, 8)
  OBVIOUS
<1>2. HasBytes(o, 6) /\ HasBytes(w, 2) /\ HasBytes(u, 8)
  <2>1. HasBytes(o, 6)
    BY <1>1, ZerosHas
  <2>2. HasBytes(w, 2)
    BY <1>1 DEF HasBytes, Text
  <2>3. HasBytes(BigEndian(1, 8), 8)
    BY WordTypes DEF HasBytes
  <2>. QED
    BY <1>1, <2>1, <2>2, <2>3
<1>3. HasBytes(o \o w, 8)
  BY <1>2, JoinBytes
<1>4. ASSUME NEW i \in 1..8
      PROVE  u[i] = (o \o w)[i]
  <2>1. (o \o w)[i] = IF i <= 6 THEN o[i] ELSE w[i - 6]
    <3>1. o \in Text /\ w \in Text /\ Len(o) = 6 /\ Len(w) = 2
      BY <1>2 DEF HasBytes
    <3>2. i \in 1..(Len(o) + Len(w))
      BY <3>1
    <3>3. (o \o w)[i] = IF i <= Len(o) THEN o[i] ELSE w[i - Len(o)]
      BY <3>1, <3>2, JoinedAt, Zenon
    <3>. QED
      BY <3>1, <3>3
  <2>2. u[i] = Digit(1, 8 - i)
    BY <1>1 DEF BigEndian
  <2>3. i <= 6 => o[i] = 0
    BY <1>1 DEF Zeros
  <2>4. i = 7 => w[i - 6] = 0
    BY <1>1
  <2>5. i = 8 => w[i - 6] = 1
    BY <1>1
  <2>. QED
    BY <2>1, <2>2, <2>3, <2>4, <2>5 DEF Digit
<1>5. u = o \o w
  BY <1>2, <1>3, <1>4, SameBytes
<1>. QED
  BY <1>1, <1>5

LEMMA BitsOfHeader == BigEndian(640, 16) = Zeros(14) \o <<2, 128>>
<1>1. PICK o, w, u : o = Zeros(14) /\ w = <<2, 128>> /\ u = BigEndian(640, 16)
  OBVIOUS
<1>2. HasBytes(o, 14) /\ HasBytes(w, 2) /\ HasBytes(u, 16)
  <2>1. HasBytes(o, 14)
    BY <1>1, ZerosHas
  <2>2. HasBytes(w, 2)
    BY <1>1 DEF HasBytes, Text
  <2>3. HasBytes(BigEndian(640, 16), 16)
    BY WordTypes DEF HasBytes
  <2>. QED
    BY <1>1, <2>1, <2>2, <2>3
<1>3. HasBytes(o \o w, 16)
  BY <1>2, JoinBytes
<1>4. ASSUME NEW i \in 1..16
      PROVE  u[i] = (o \o w)[i]
  <2>1. (o \o w)[i] = IF i <= 14 THEN o[i] ELSE w[i - 14]
    <3>1. o \in Text /\ w \in Text /\ Len(o) = 14 /\ Len(w) = 2
      BY <1>2 DEF HasBytes
    <3>2. i \in 1..(Len(o) + Len(w))
      BY <3>1
    <3>3. (o \o w)[i] = IF i <= Len(o) THEN o[i] ELSE w[i - Len(o)]
      BY <3>1, <3>2, JoinedAt, Zenon
    <3>. QED
      BY <3>1, <3>3
  <2>2. u[i] = Digit(640, 16 - i)
    BY <1>1 DEF BigEndian
  <2>3. i <= 14 => o[i] = 0
    BY <1>1 DEF Zeros
  <2>4. i = 15 => w[i - 14] = 2
    BY <1>1
  <2>5. i = 16 => w[i - 14] = 128
    BY <1>1
  <2>. QED
    BY <2>1, <2>2, <2>3, <2>4, <2>5 DEF Digit
<1>5. u = o \o w
  BY <1>2, <1>3, <1>4, SameBytes
<1>. QED
  BY <1>1, <1>5

\* Zeros from two sides of a cut.
ZerosMeet(a, b, c, w) == Zeros(a) \o (Zeros(b) \o w) = Zeros(c) \o w

LEMMA ZerosBefore ==
    ASSUME NEW a \in Nat, NEW b \in Nat, NEW c \in Nat, Spans(a, b, c), NEW w \in Text
    PROVE  ZerosMeet(a, b, c, w)
<1>1. Zeros(a) \in Text /\ Zeros(b) \in Text
  BY ZerosType
<1>2. Trailing(Zeros(a), Zeros(b), w)
  BY <1>1, TrailingIs, Zenon
<1>3. Zeros(a) \o Zeros(b) = Zeros(c)
  BY ZerosJoin DEF Spans
<1>. QED
  BY <1>2, <1>3 DEF Trailing, ZerosMeet

LEMMA HeaderIs == HasBytes(Prefix(80), 80)
<1>1. 80 \in 0..Len(Message)
  BY MessageHas
<1>. QED
  BY <1>1, PrefixType, Zenon DEF HasBytes

GroestlTail == (<<Mark>> \o Zeros(45)) \o <<0, 1>>
JhTail == ((<<Mark>> \o Zeros(47)) \o Zeros(62)) \o <<2, 128>>

LEMMA TailTypes == HasBytes(GroestlTail, 48) /\ HasBytes(JhTail, 112)
<1>1. HasBytes(<<Mark>>, 1) /\ HasBytes(<<0, 1>>, 2) /\ HasBytes(<<2, 128>>, 2)
  BY MarkType DEF Text, HasBytes
<1>2. HasBytes(Zeros(45), 45) /\ HasBytes(Zeros(47), 47) /\ HasBytes(Zeros(62), 62)
  BY ZerosHas
<1>3. HasBytes(<<Mark>> \o Zeros(45), 46) /\ HasBytes(<<Mark>> \o Zeros(47), 48)
  BY <1>1, <1>2, JoinBytes
<1>4. HasBytes((<<Mark>> \o Zeros(47)) \o Zeros(62), 110)
  BY <1>2, <1>3, JoinBytes
<1>5. HasBytes(GroestlTail, 48)
  BY <1>1, <1>3, JoinBytes DEF GroestlTail
<1>6. HasBytes(JhTail, 112)
  BY <1>1, <1>4, JoinBytes DEF JhTail
<1>. QED
  BY <1>5, <1>6

LEMMA GroestlDigest ==
    ASSUME hash = "groestl", hash \in Hashes
    PROVE  DigestOf(Prefix(80)) =
             [absorbed |-> Prefix(80) \o GroestlTail, tweaks |-> <<0>>, turned |-> 0]
<1>1. PICK m : m = Prefix(80)
  OBVIOUS
<1>2. HasBytes(m, 80)
  BY <1>1, HeaderIs
<1>3. Padded(m) = m \o ((<<Mark>> \o Zeros(39)) \o BigEndian(1, 8))
  <2>1. PICK k \in Nat, p \in 0..127, z \in Nat, c \in Nat : k = 0 /\ p = 80 /\ z = 39 /\ c = 1
    OBVIOUS
  <2>2. /\ HasBlocks(m, 128, k, p)
        /\ p < 120 => z + p = 119 /\ c = k + 1
        /\ ~ (p < 120) => z + p = 247 /\ c = k + 2
    BY <1>2, <2>1 DEF HasBlocks, HasBytes
  <2>3. Padded(m) = m \o ((<<Mark>> \o Zeros(z)) \o BigEndian(c, 8))
    BY <2>2, GroestlPadding, ZenonT(30)
  <2>. QED
    BY <2>1, <2>3
<1>4. (<<Mark>> \o Zeros(39)) \o BigEndian(1, 8) = GroestlTail
  <2>1. <<Mark>> \in Text /\ Zeros(39) \in Text /\ Zeros(45) \in Text /\ <<0, 1>> \in Text
        /\ BigEndian(1, 8) \in Text
    BY MarkType, ZerosType, WordTypes DEF Text
  <2>2. Zeros(39) \o BigEndian(1, 8) = Zeros(45) \o <<0, 1>>
    <3>1. PICK w \in Text : w = <<0, 1>>
      BY <2>1
    <3>2. PICK a \in Nat, b \in Nat, c \in Nat : a = 39 /\ b = 6 /\ c = 45
      OBVIOUS
    <3>3. Spans(a, b, c)
      BY <3>2 DEF Spans
    <3>4. ZerosMeet(a, b, c, w)
      BY <3>3, ZerosBefore, Zenon
    <3>5. ZerosMeet(39, 6, 45, <<0, 1>>)
      BY <3>1, <3>2, <3>4
    <3>. QED
      BY <3>5, OneBlock, Zenon DEF ZerosMeet
  <2>3. Trailing(<<Mark>>, Zeros(39), BigEndian(1, 8)) /\ Trailing(<<Mark>>, Zeros(45), <<0, 1>>)
    BY <2>1, TrailingIs, Zenon
  <2>. QED
    BY <2>2, <2>3, Zenon DEF Trailing, GroestlTail
<1>6. Padded(m) = m \o GroestlTail
  BY <1>3, <1>4
<1>7. Len(Padded(m)) = Block * 1
  <2>1. HasBytes(m \o GroestlTail, 128)
    BY <1>2, TailTypes, JoinBytes
  <2>. QED
    BY <1>6, <2>1, CoreIs DEF HasBytes
<1>8. Tweaked(m) = Listed(RunTweak, 1)
  BY <1>7, PlainTweaks
<1>9. Listed(RunTweak, 1) = <<0>>
  <2>1. RunTweak[1] = 0
    BY RunTweakIs
  <2>. QED
    BY <2>1 DEF Listed
<1>10. DigestOf(m) = [absorbed |-> m \o GroestlTail, tweaks |-> <<0>>, turned |-> 0]
  BY <1>6, <1>8, <1>9 DEF DigestOf
<1>. QED
  BY <1>1, <1>10

LEMMA JhDigest ==
    ASSUME hash = "jh", hash \in Hashes
    PROVE  DigestOf(Prefix(80)) =
             [absorbed |-> Prefix(80) \o JhTail, tweaks |-> <<0, 0, 0>>, turned |-> 0]
<1>1. PICK m : m = Prefix(80)
  OBVIOUS
<1>2. HasBytes(m, 80)
  BY <1>1, HeaderIs
<1>3. Padded(m) = m \o ((<<Mark>> \o Zeros(95)) \o BigEndian(640, 16))
  <2>1. PICK k \in Nat, p \in 0..63, z \in Nat, bits \in Nat :
            k = 1 /\ p = 16 /\ z = 95 /\ bits = 640
    OBVIOUS
  <2>2. HasBlocks(m, 64, k, p) /\ HasBits(m, bits) /\ p # 0 /\ z + p = 111
    BY <1>2, <2>1 DEF HasBlocks, HasBits, HasBytes
  <2>3. Padded(m) = m \o ((<<Mark>> \o Zeros(z)) \o BigEndian(bits, 16))
    BY <2>2, JhPadding
  <2>. QED
    BY <2>1, <2>3
<1>4. (<<Mark>> \o Zeros(95)) \o BigEndian(640, 16) = JhTail
  <2>1. /\ <<Mark>> \in Text /\ Zeros(95) \in Text /\ Zeros(47) \in Text /\ Zeros(62) \in Text
        /\ <<2, 128>> \in Text /\ BigEndian(640, 16) \in Text /\ Zeros(109) \in Text
    BY MarkType, ZerosType, WordTypes DEF Text
  <2>2. Zeros(95) \o BigEndian(640, 16) = Zeros(109) \o <<2, 128>>
    <3>1. PICK w \in Text : w = <<2, 128>>
      BY <2>1
    <3>2. PICK a \in Nat, b \in Nat, c \in Nat : a = 95 /\ b = 14 /\ c = 109
      OBVIOUS
    <3>3. Spans(a, b, c)
      BY <3>2 DEF Spans
    <3>4. ZerosMeet(a, b, c, w)
      BY <3>3, ZerosBefore, Zenon
    <3>5. PICK v : v = BigEndian(640, 16)
      OBVIOUS
    <3>6. v = Zeros(b) \o w
      BY <3>1, <3>2, <3>5, BitsOfHeader
    <3>7. Zeros(a) \o v = Zeros(c) \o w
      BY <3>4, <3>6 DEF ZerosMeet
    <3>. QED
      BY <3>1, <3>2, <3>5, <3>7
  <2>3. Zeros(47) \o Zeros(62) = Zeros(109)
    <3>1. PICK a \in Nat, b \in Nat : a = 47 /\ b = 62
      OBVIOUS
    <3>2. Zeros(a) \o Zeros(b) = Zeros(a + b)
      BY ZerosJoin
    <3>. QED
      BY <3>1, <3>2
  <2>4. /\ Trailing(<<Mark>>, Zeros(95), BigEndian(640, 16))
        /\ TrailingAll(<<Mark>>, Zeros(47), Zeros(62), <<2, 128>>)
    BY <2>1, TrailingIs, TrailingAllIs, ZenonT(30)
  <2>. QED
    <3>1. (<<Mark>> \o Zeros(95)) \o BigEndian(640, 16)
            = <<Mark>> \o (Zeros(109) \o <<2, 128>>)
      BY <2>2, <2>4, ZenonT(30) DEF Trailing
    <3>2. JhTail = <<Mark>> \o (Zeros(109) \o <<2, 128>>)
      BY <2>3, <2>4, Zenon DEF TrailingAll, JhTail
    <3>. QED
      BY <3>1, <3>2, Zenon
<1>6. Padded(m) = m \o JhTail
  BY <1>3, <1>4
<1>7. Len(Padded(m)) = Block * 3
  <2>1. HasBytes(m \o JhTail, 192)
    BY <1>2, TailTypes, JoinBytes
  <2>. QED
    BY <1>6, <2>1, CoreIs DEF HasBytes
<1>8. Tweaked(m) = Listed(RunTweak, 3)
  BY <1>7, PlainTweaks
<1>9. Listed(RunTweak, 3) = <<0, 0, 0>>
  <2>1. RunTweak[1] = 0 /\ RunTweak[2] = 0 /\ RunTweak[3] = 0
    BY RunTweakIs
  <2>. QED
    BY <2>1 DEF Listed
<1>10. DigestOf(m) = [absorbed |-> m \o JhTail, tweaks |-> <<0, 0, 0>>, turned |-> 0]
  BY <1>6, <1>8, <1>9 DEF DigestOf
<1>. QED
  BY <1>1, <1>10

LEMMA SkeinDigest ==
    ASSUME hash = "skein", hash \in Hashes
    PROVE  DigestOf(Prefix(80)) =
             [absorbed |-> (Prefix(80) \o Zeros(48)) \o Zeros(64),
              tweaks |-> <<<<64, 224>>, <<80, 352>>, <<8, 510>>>>, turned |-> 0]
<1>1. PICK m : m = Prefix(80)
  OBVIOUS
<1>2. HasBytes(m, 80)
  BY <1>1, HeaderIs
<1>4. Padded(m) = (m \o Zeros(48)) \o Zeros(64)
  <2>1. PICK k \in Nat, p \in 0..64, z \in Nat : k = 1 /\ p = 16 /\ z = 48
    OBVIOUS
  <2>2. HasBlocks(m, 64, k, p) /\ p # 0 /\ z + p = 64
    BY <1>2, <2>1 DEF HasBlocks, HasBytes
  <2>3. Padded(m) = (m \o Zeros(z)) \o Zeros(64)
    BY <2>2, SkeinPadding
  <2>. QED
    BY <2>1, <2>3
<1>5. Len(Padded(m)) = 192
  <2>1. HasBytes(Zeros(48), 48) /\ HasBytes(Zeros(64), 64)
    BY ZerosHas
  <2>2. HasBytes(m \o Zeros(48), 128)
    BY <1>2, <2>1, JoinBytes
  <2>3. HasBytes((m \o Zeros(48)) \o Zeros(64), 192)
    BY <2>1, <2>2, JoinBytes
  <2>. QED
    BY <1>4, <2>3 DEF HasBytes
<1>6. Tweaked(m) = <<<<64, 224>>, <<80, 352>>, <<8, 510>>>>
  <2>. DEFINE Row(c, l) ==
                [i \in 1..c |->
                   IF i = c THEN <<8, 510>>
                   ELSE <<Least(64 * i, l), (96 + (IF i = 1 THEN 128 ELSE 0))
                                            + (IF i = c - 1 THEN 256 ELSE 0)>>]
  <2>1. Tweaked(m) = Row(Len(Padded(m)) \div Block, Len(m))
    BY DEF Tweaked
  <2>2. Len(Padded(m)) \div Block = 3
    BY <1>5, CoreIs
  <2>3. Tweaked(m) = Row(3, 80)
    <3>. HIDE DEF Row
    <3>. QED
      BY <1>2, <2>1, <2>2, Zenon DEF HasBytes
  <2>4. Row(3, 80) = <<<<64, 224>>, <<80, 352>>, <<8, 510>>>>
    <3>1. Row(3, 80) = <<Row(3, 80)[1], Row(3, 80)[2], Row(3, 80)[3]>>
      OBVIOUS
    <3>2. Row(3, 80)[1] = <<64, 224>>
      BY DEF Least
    <3>3. Row(3, 80)[2] = <<80, 352>>
      BY DEF Least
    <3>4. Row(3, 80)[3] = <<8, 510>>
      OBVIOUS
    <3>. HIDE DEF Row
    <3>. QED
      BY <3>1, <3>2, <3>3, <3>4, ZenonT(30)
  <2>. QED
    BY <2>3, <2>4
<1>7. DigestOf(m) = [absorbed |-> (m \o Zeros(48)) \o Zeros(64),
                     tweaks |-> <<<<64, 224>>, <<80, 352>>, <<8, 510>>>>, turned |-> 0]
  BY <1>4, <1>6 DEF DigestOf
<1>. QED
  BY <1>1, <1>7

(***************************************************************************)
(* What the bitstreams compute from their registers.                       *)
(***************************************************************************)
\* The chaining value that calc_midstate finds in a context with a header.
LEMMA FirstBlock ==
    ASSUME StreamInv, Running, stage = "idle", fed = 80, hash \in {"skein", "jh"}
    PROVE  /\ absorbed = Part(Message, 0, 64)
           /\ tweaks = IF hash = "jh" THEN <<0>> ELSE <<<<64, 224>>>>
<1>1. hash \in Hashes /\ Block = 64 /\ hash # "gost"
  BY Unpacked, CoreIs
<1>2. PICK n \in Nat : Standing(n)
  BY <1>1, Stands
<1>3. /\ ptr \in Nat /\ ptr <= 64 /\ fed = 64 * n + ptr
      /\ hash = "skein" /\ ptr = 0 => n = 0
  BY <1>1, <1>2, Unpacked DEF Standing, Counts
<1>4. hash = "jh" => ptr < 64
  BY <1>1 DEF StreamInv, Places
<1>5. n = 1 /\ ptr = 16
  BY <1>3, <1>4
<1>6. /\ HasBytes(absorbed, 64) /\ HasBytes(Buffered, 16) /\ absorbed \o Buffered = Prefix(80)
      /\ tweaks = Listed(RunTweak, 1)
  <2>1. Buffered \in Text /\ Len(Buffered) = ptr
    BY Unpacked
  <2>. QED
    BY <1>1, <1>2, <1>5, <2>1 DEF Standing, Compressed, HasBytes
<1>7. absorbed = Part(Message, 0, 64)
  <2>1. Part(absorbed \o Buffered, 0, 64) = absorbed
    <3>1. HasBytes(absorbed, 64) /\ HasBytes(Buffered, 16) /\ 80 = 64 + 16
      BY <1>6
    <3>. QED
      BY <3>1, PartsOfJoined
  <2>2. PICK l \in Nat : HasBytes(Message, l) /\ 80 <= l
    BY MessageHas
  <2>3. Part(Part(Message, 0, 80), 0, 64) = Part(Message, 0, 64)
    BY <2>2, PartOfPart
  <2>4. Part(Message, 0, 80) = Prefix(80)
    BY DEF Part, Prefix
  <2>. QED
    BY <1>6, <2>1, <2>3, <2>4
<1>8. CASE hash = "jh"
  <2>1. RunTweak[1] = 0
    BY <1>1, <1>8, RunTweakIs
  <2>2. Listed(RunTweak, 1) = <<0>>
    BY <2>1 DEF Listed
  <2>. QED
    BY <1>6, <1>7, <1>8, <2>2
<1>9. CASE hash = "skein"
  <2>1. RunTweak[1] = <<64 * 1, 96 + (IF 1 = 1 THEN 128 ELSE 0)>>
    <3>1. hash = "skein" /\ hash \in Hashes /\ 1 \in Nat
      BY <1>1, <1>9
    <3>. QED
      BY <3>1, RunTweakIs, ZenonT(30)
  <2>2. RunTweak[1] = <<64, 224>>
    BY <2>1
  <2>3. Listed(RunTweak, 1) = <<RunTweak[1]>>
    BY DEF Listed
  <2>. QED
    BY <1>6, <1>7, <1>9, <2>2, <2>3
<1>. QED
  BY <1>8, <1>9

\* The tweak of the first block and those of the two behind it.
LEMMA ThreeTweaks ==
    ASSUME NEW a, NEW b, NEW c
    PROVE  <<a>> \o <<b, c>> = <<a, b, c>>
<1>. DEFINE f == [i \in Nat |-> IF i = 1 THEN a ELSE IF i = 2 THEN b ELSE c]
<1>1. f[1] = a /\ f[1 + 1] = b /\ f[1 + 2] = c /\ f[2] = b /\ f[3] = c
  OBVIOUS
<1>. HIDE DEF f
<1>2. Listed(f, 1) \o <<f[1 + 1], f[1 + 2]>> = Listed(f, 1 + 2)
  BY ListedEnds
<1>3. Listed(f, 1) = <<a>> /\ Listed(f, 1 + 2) = <<a, b, c>>
  BY <1>1 DEF Listed
<1>. QED
  BY <1>1, <1>2, <1>3

\* What calc_midstate has found.
MidIs ==
    mid = CASE HashOf(algo) = "groestl" -> [absorbed |-> <<>>, tweaks |-> <<>>]
            [] HashOf(algo) = "skein" -> [absorbed |-> Part(Message, 0, 64),
                                          tweaks |-> <<<<64, 224>>>>]
            [] HashOf(algo) = "jh" -> [absorbed |-> Part(Message, 0, 64), tweaks |-> <<0>>]

LEMMA HashOfIs ==
    /\ algo \in {"groestl", "dmd-gr", "myr-gr"} => HashOf(algo) = "groestl"
    /\ algo \in {"phi", "skunk"} => HashOf(algo) = "skein"
    /\ algo = "tribus" => HashOf(algo) = "jh"
BY DEF HashOf

\* The registers hold what was packed, and the result is the nonce.
Loaded ==
    /\ block = WordsOf(Packed(Gathered), Registers)
    /\ result = Part(Message, 76, 80)

LEMMA WiresAre ==
    ASSUME algo \in Algos, Loaded
    PROVE  Wires = Packed(Gathered)
<1>1. HasBytes(Packed(Gathered), 4 * Registers)
  BY PayloadEndsRight DEF EndsRight
<1>2. PICK r \in Nat, l \in Nat : r = Registers /\ l = 4 * r
  BY RegistersType
<1>3. r # 0
  BY <1>2, RegistersType
<1>4. FlattenSeq(WordsOf(Packed(Gathered), r)) = Packed(Gathered)
  <2>. DEFINE d == Packed(Gathered)
  <2>1. HasBytes(d, l)
    BY <1>1, <1>2
  <2>. HIDE DEF d
  <2>2. FlattenSeq(WordsOf(d, r)) = d
    BY <1>2, <1>3, <2>1, WordsJoin
  <2>. QED
    BY <2>2 DEF d
<1>. QED
  BY <1>2, <1>4 DEF Loaded, Wires

LEMMA HeaderJoins ==
    /\ Part(Message, 0, 76) \o Part(Message, 76, 80) = Prefix(80)
    /\ Part(Message, 64, 76) \o Part(Message, 76, 80) = Part(Message, 64, 80)
    /\ Part(Message, 64, 72) \o Part(Message, 72, 76) = Part(Message, 64, 76)
    /\ Part(Message, 0, 64) \o Part(Message, 64, 80) = Prefix(80)
<1>1. PICK l \in Nat : HasBytes(Message, l) /\ 80 <= l
  BY MessageHas
<1>2. Part(Message, 0, 80) = Prefix(80)
  BY DEF Part, Prefix
<1>3. Part(Message, 0, 76) \o Part(Message, 76, 80) = Part(Message, 0, 80)
  BY <1>1, PartsMeet
<1>4. Part(Message, 64, 76) \o Part(Message, 76, 80) = Part(Message, 64, 80)
  BY <1>1, PartsMeet
<1>5. Part(Message, 64, 72) \o Part(Message, 72, 76) = Part(Message, 64, 76)
  BY <1>1, PartsMeet
<1>6. Part(Message, 0, 64) \o Part(Message, 64, 80) = Part(Message, 0, 80)
  BY <1>1, PartsMeet
<1>. QED
  BY <1>2, <1>3, <1>4, <1>5, <1>6

\* Parts of the header, with their lengths.
LEMMA HeaderParts ==
    /\ HasBytes(Part(Message, 0, 64), 64) /\ HasBytes(Part(Message, 64, 80), 16)
    /\ HasBytes(Part(Message, 64, 72), 8) /\ HasBytes(Part(Message, 72, 76), 4)
    /\ HasBytes(Part(Message, 64, 76), 12) /\ HasBytes(Part(Message, 76, 80), 4)
    /\ HasBytes(Part(Message, 0, 76), 76)
BY HeaderPart

LEMMA GroestlMines ==
    ASSUME algo \in Algos, HashOf(algo) = hash, hash \in Hashes, MidIs, Loaded,
           algo \in {"groestl", "dmd-gr", "myr-gr"}
    PROVE  Miner = DigestOf(Prefix(80))
<1>1. hash = "groestl" /\ mid = [absorbed |-> <<>>, tweaks |-> <<>>]
  BY HashOfIs DEF MidIs
<1>2. SubSeq(Wires, 1, 76) = Part(Message, 0, 76)
  BY WiresAre, GroestlSees DEF Part
<1>3. Chaining = <<>>
  <2>1. g.midLen = 0
    BY DEF g, Settings
  <2>. QED
    BY <2>1 DEF Chaining
<1>. DEFINE x == (((SubSeq(Wires, 1, 76) \o result) \o <<Mark>>) \o Zeros(45)) \o <<0, 1>>
<1>4. x = Prefix(80) \o GroestlTail
  <2>1. SubSeq(Wires, 1, 76) \o result = Prefix(80)
    BY <1>2, HeaderJoins DEF Loaded
  <2>2. <<Mark>> \in Text /\ Zeros(45) \in Text /\ <<0, 1>> \in Text /\ Prefix(80) \in Text
    <3>1. <<0, 1>> \in Text
      BY DEF Text
    <3>. QED
      BY <3>1, MarkType, ZerosHas, HeaderIs DEF HasBytes
  <2>3. TrailingAll(Prefix(80), <<Mark>>, Zeros(45), <<0, 1>>)
    BY <2>2, TrailingAllIs, Zenon
  <2>. QED
    BY <2>1, <2>3, Zenon DEF TrailingAll, GroestlTail
<1>5. Miner = GroestlMiner
  BY <1>1 DEF Miner
<1>6. GroestlMiner = Continued(<<>>, x, <<0>>)
  BY Zenon DEF GroestlMiner
<1>7. PICK y \in Text : y = Prefix(80) \o GroestlTail
  BY HeaderIs, TailTypes, ConcatType DEF HasBytes
<1>8. Continued(<<>>, y, <<0>>) = [absorbed |-> <<>> \o y, tweaks |-> <<>> \o <<0>>, turned |-> 0]
  BY <1>1, <1>3 DEF Continued
<1>9. <<>> \o y = y /\ <<>> \o <<0>> = <<0>>
  BY ConcatEmpty
<1>. HIDE DEF x
<1>. QED
  BY <1>1, <1>4, <1>5, <1>6, <1>7, <1>8, <1>9, GroestlDigest

LEMMA JhMines ==
    ASSUME algo \in Algos, HashOf(algo) = hash, hash \in Hashes, MidIs, Loaded, algo = "tribus"
    PROVE  Miner = DigestOf(Prefix(80))
<1>1. hash = "jh" /\ mid = [absorbed |-> Part(Message, 0, 64), tweaks |-> <<0>>]
  BY HashOfIs DEF MidIs
<1>2. /\ SubSeq(Wires, 1, 128) = Reverse(Chaining)
      /\ SubSeq(Wires, 129, 140) = Part(Message, 64, 76)
  BY WiresAre, JhSees DEF Part
<1>3. Reverse(Reverse(Chaining)) = Chaining
  <2>1. 128 = g.midLen
    BY DEF g, Settings
  <2>2. HasBytes(Chaining, 128)
    BY <2>1, ChainingHas
  <2>. QED
    BY <2>2, ReverseTwice
<1>. DEFINE u == SubSeq(Wires, 129, 140) \o result
            x == (((u \o <<Mark>>) \o Zeros(47)) \o Zeros(62)) \o <<2, 128>>
<1>4. u = Part(Message, 64, 80)
  BY <1>2, HeaderJoins DEF Loaded
<1>5. Miner = JhMiner
  BY <1>1 DEF Miner
<1>6. JhMiner = Continued(Reverse(SubSeq(Wires, 1, 128)), x, <<0, 0>>)
  BY Zenon DEF JhMiner
<1>. HIDE DEF u
<1>7. /\ <<Mark>> \in Text /\ Zeros(47) \in Text /\ Zeros(62) \in Text /\ <<2, 128>> \in Text
      /\ u \in Text /\ Part(Message, 0, 64) \in Text /\ JhTail \in Text
  <2>1. <<2, 128>> \in Text
    BY DEF Text
  <2>2. u \in Text /\ Part(Message, 0, 64) \in Text
    BY <1>4, HeaderParts DEF HasBytes
  <2>. QED
    BY <2>1, <2>2, MarkType, ZerosHas, TailTypes DEF HasBytes
<1>8. x = u \o JhTail
  <2>. DEFINE v == <<Mark>> \o Zeros(47)
  <2>1. v \in Text
    BY <1>7, ConcatType
  <2>2. Trailing(u, <<Mark>>, Zeros(47))
    BY <1>7, TrailingIs, Zenon
  <2>3. TrailingAll(u, v, Zeros(62), <<2, 128>>)
    BY <1>7, <2>1, TrailingAllIs, Zenon
  <2>. QED
    BY <2>2, <2>3, Zenon DEF Trailing, TrailingAll, JhTail
<1>. HIDE DEF x
<1>9. Part(Message, 0, 64) \o x = Prefix(80) \o JhTail
  <2>1. Trailing(Part(Message, 0, 64), u, JhTail)
    BY <1>7, TrailingIs, Zenon
  <2>2. Part(Message, 0, 64) \o u = Prefix(80)
    BY <1>4, HeaderJoins
  <2>. QED
    BY <1>8, <2>1, <2>2, Zenon DEF Trailing
<1>10. Continued(Chaining, x, <<0, 0>>) =
         [absorbed |-> Part(Message, 0, 64) \o x, tweaks |-> <<0>> \o <<0, 0>>, turned |-> 0]
  BY <1>1 DEF Continued
<1>11. <<0>> \o <<0, 0>> = <<0, 0, 0>>
  BY ThreeTweaks
<1>. QED
  BY <1>1, <1>2, <1>3, <1>5, <1>6, <1>9, <1>10, <1>11, JhDigest

LEMMA SkeinMines ==
    ASSUME algo \in Algos, HashOf(algo) = hash, hash \in Hashes, MidIs, Loaded,
           algo \in {"phi", "skunk"}
    PROVE  Miner = DigestOf(Prefix(80))
<1>1. hash = "skein" /\ mid = [absorbed |-> Part(Message, 0, 64), tweaks |-> <<<<64, 224>>>>]
  BY HashOfIs DEF MidIs
<1>. DEFINE data == SubSeq(Wires, 65, 76)
            m0 == SubSeq(data, 5, 12)
            m1 == Reverse(result) \o SubSeq(data, 1, 4)
            u == Reverse(m0) \o Reverse(m1)
            x == (u \o Zeros(48)) \o Zeros(64)
<1>2. /\ SubSeq(Wires, 1, 64) = Swapped(Chaining, 8)
      /\ Reverse(m0) = Part(Message, 64, 72)
      /\ Reverse(SubSeq(data, 1, 4)) = Part(Message, 72, 76)
  BY WiresAre, SkeinSees DEF Part
<1>3. swap_endian_64(SubSeq(Wires, 1, 64)) = Chaining
  <2>1. 64 = g.midLen
    BY DEF g, Settings
  <2>2. HasBytes(Chaining, 64)
    BY <2>1, ChainingHas
  <2>3. Swapped(Swapped(Chaining, 8), 8) = Chaining
    BY <2>2, SwapTwice
  <2>. QED
    BY <1>2, <2>3 DEF swap_endian_64
<1>4. Miner = SkeinMiner
  BY <1>1 DEF Miner
<1>5. SkeinMiner = Continued(swap_endian_64(SubSeq(Wires, 1, 64)), x, <<<<80, 352>>, <<8, 510>>>>)
  BY Zenon DEF SkeinMiner
<1>6. HasBytes(data, 12)
  <2>1. HasBytes(Packed(Gathered), 80)
    <3>1. 80 = 4 * Registers
      BY DEF Registers
    <3>. QED
      BY <3>1, PayloadEndsRight DEF EndsRight
  <2>2. HasBytes(Wires, 80)
    BY <2>1, WiresAre
  <2>. QED
    BY <2>2, PartBytes
<1>. HIDE DEF data
<1>7. Reverse(m1) = Part(Message, 72, 76) \o Part(Message, 76, 80)
  <2>1. HasBytes(SubSeq(data, 1, 4), 4)
    BY <1>6, PartBytes
  <2>2. HasBytes(result, 4)
    BY HeaderParts DEF Loaded
  <2>3. HasBytes(Reverse(result), 4) /\ Reverse(Reverse(result)) = result
    BY <2>2, ReverseHas, ReverseTwice
  <2>4. Reverse(m1) = Reverse(SubSeq(data, 1, 4)) \o Reverse(Reverse(result))
    BY <2>1, <2>3, ReverseJoined
  <2>. QED
    BY <1>2, <2>3, <2>4 DEF Loaded
<1>. HIDE DEF m0, m1
<1>8. u = Part(Message, 64, 80)
  <2>1. /\ Part(Message, 64, 72) \in Text /\ Part(Message, 72, 76) \in Text
        /\ Part(Message, 76, 80) \in Text
    BY HeaderParts DEF HasBytes
  <2>2. Trailing(Part(Message, 64, 72), Part(Message, 72, 76), Part(Message, 76, 80))
    BY <2>1, TrailingIs, Zenon
  <2>. QED
    BY <1>2, <1>7, <2>2, HeaderJoins, ZenonT(30) DEF Trailing
<1>. HIDE DEF u
<1>9. Part(Message, 0, 64) \o x = (Prefix(80) \o Zeros(48)) \o Zeros(64)
  <2>1. /\ Part(Message, 0, 64) \in Text /\ u \in Text /\ Zeros(48) \in Text
        /\ Zeros(64) \in Text
    BY <1>8, HeaderParts, ZerosHas DEF HasBytes
  <2>2. u \o Zeros(48) \in Text
    BY <2>1, ConcatType
  <2>3. Trailing(Part(Message, 0, 64), u, Zeros(48))
    BY <2>1, TrailingIs, Zenon
  <2>4. Trailing(Part(Message, 0, 64), u \o Zeros(48), Zeros(64))
    BY <2>1, <2>2, TrailingIs, Zenon
  <2>5. Part(Message, 0, 64) \o u = Prefix(80)
    BY <1>8, HeaderJoins
  <2>. QED
    BY <2>3, <2>4, <2>5, Zenon DEF Trailing
<1>. HIDE DEF x
<1>. DEFINE one == <<64, 224>>
            two == <<80, 352>>
            three == <<8, 510>>
<1>10. /\ mid = [absorbed |-> Part(Message, 0, 64), tweaks |-> <<one>>]
       /\ SkeinMiner = Continued(Chaining, x, <<two, three>>)
       /\ DigestOf(Prefix(80)) = [absorbed |-> (Prefix(80) \o Zeros(48)) \o Zeros(64),
                                  tweaks |-> <<one, two, three>>, turned |-> 0]
  BY <1>1, <1>3, <1>5, SkeinDigest
<1>. HIDE DEF one, two, three
<1>11. Continued(Chaining, x, <<two, three>>) =
         [absorbed |-> Part(Message, 0, 64) \o x, tweaks |-> <<one>> \o <<two, three>>,
          turned |-> 0]
  BY <1>10 DEF Continued
<1>12. <<one>> \o <<two, three>> = <<one, two, three>>
  BY ThreeTweaks
<1>. QED
  BY <1>4, <1>9, <1>10, <1>11, <1>12

\* For every algorithm the bitstream computes the digest of the header.
LEMMA MinerHashes ==
    ASSUME algo \in Algos, HashOf(algo) = hash, hash \in Hashes, MidIs, Loaded
    PROVE  Miner = DigestOf(Prefix(80))
BY AlgoIs, GroestlMines, JhMines, SkeinMines

\* The words of an algorithm, as they stand in the registers in the end.
Sent == WordsOf(Packed(Gathered), Registers)

(***************************************************************************)
(* The inductive invariant: the midstate is that of the header, the words  *)
(* enter the registers in their order and stay, and the only result is the *)
(* nonce.                                                                  *)
(***************************************************************************)
HeaderSent ==
    /\ algo \in Algos \cup {NoAlgo}
    /\ algo \in Algos => HashOf(algo) = hash
    /\ place \in {"header", "poke", "scan", "check"}
    /\ place # "header" => algo \in Algos /\ MidIs
    /\ place = "poke" =>
         /\ words = Sent /\ poked \in 0..Registers - 1
         /\ \A i \in 1..poked : block[i] = words[i]
    /\ place \in {"scan", "check"} => block = Sent
    /\ place \in {"header", "poke"} => result = Zeros(4)
    /\ result \in {Zeros(4), Part(Message, 76, 80)}
    /\ place = "check" => result = Part(Message, 76, 80) /\ nonce = result

LEMMA SameSent ==
    ASSUME algo' = algo
    PROVE  Sent' = Sent /\ Registers' = Registers
<1>1. g' = g
  BY DEF g
<1>2. Registers' = Registers
  BY DEF Registers
<1>3. Chaining' = Chaining
  BY <1>1 DEF Chaining
<1>4. Midstate' = Midstate
  BY <1>3 DEF Midstate
<1>5. Gathered' = Gathered
  BY <1>1, <1>4, Zenon DEF Gathered, WorkData, TopOfTarget
<1>6. Packed(Gathered)' = Packed(Gathered)
  BY <1>1, <1>5, Zenon DEF Packed
<1>. QED
  BY <1>2, <1>6, Zenon DEF Sent

LEMMA SameMid ==
    ASSUME algo' = algo, mid' = mid
    PROVE  MidIs' = MidIs
BY DEF MidIs

\* A hash function is chosen for good.
LEMMA HashStays ==
    ASSUME StreamNext
    PROVE  hash' = hash
BY DEF StreamNext, Update, Chunk, SkeinChunk, FugueWord, Sha256Fill, Sha256Direct, Sha256Tail,
       Close, NextPad, Output, Again

LEMMA SentInit ==
    ASSUME Init
    PROVE  HeaderSent
<1>1. algo \in Algos \cup {NoAlgo} /\ (algo = NoAlgo \/ HashOf(algo) = hash)
  BY DEF Init
<1>2. NoAlgo \notin Algos
  BY PayloadAssumption
<1>3. place = "header" /\ result = Zeros(4)
  BY DEF Init
<1>. QED
  BY <1>1, <1>2, <1>3 DEF HeaderSent

LEMMA PrepareHolds ==
    ASSUME StreamInv, DigestInv, HeaderSent, Prepare
    PROVE  HeaderSent'
<1>. DEFINE d == Packed(Gathered)
<1>1. /\ place = "header" /\ algo # NoAlgo /\ stage = "idle" /\ fed = 80
      /\ mid' = IF g.midLen = 0 THEN [absorbed |-> <<>>, tweaks |-> <<>>]
                                ELSE [absorbed |-> absorbed, tweaks |-> tweaks]
      /\ words' = [i \in 1..Len(d) \div 4 |-> Word(d, i - 1)]
      /\ poked' = 0 /\ place' = "poke"
  BY DEF Prepare
<1>2. hash' = hash /\ algo' = algo /\ block' = block /\ result' = result
  BY DEF Prepare, streamVars, fpga
<1>3. algo \in Algos /\ HashOf(algo) = hash /\ result = Zeros(4)
  BY <1>1 DEF HeaderSent
<1>4. words' = Sent
  <2>1. Len(d) = 4 * Registers
    BY <1>3, PayloadEndsRight DEF EndsRight, HasBytes
  <2>. HIDE DEF d
  <2>2. Len(d) \div 4 = Registers
    BY <2>1, RegistersType
  <2>. QED
    BY <1>1, <2>2 DEF Sent, WordsOf, d
<1>5. MidIs'
  <2>1. CASE algo \in {"groestl", "dmd-gr", "myr-gr"}
    <3>1. g.midLen = 0
      BY <2>1 DEF g, Settings
    <3>2. HashOf(algo)' = "groestl"
      BY <1>2, <2>1, HashOfIs
    <3>. QED
      BY <1>1, <3>1, <3>2 DEF MidIs
  <2>2. CASE algo \in {"phi", "skunk"}
    <3>1. g.midLen # 0 /\ hash = "skein"
      BY <1>3, <2>2, HashOfIs DEF g, Settings
    <3>2. HashOf(algo)' = "skein"
      BY <1>2, <2>2, HashOfIs
    <3>3. absorbed = Part(Message, 0, 64) /\ tweaks = <<<<64, 224>>>>
      BY <1>1, <3>1, FirstBlock DEF DigestInv
    <3>. QED
      BY <1>1, <3>1, <3>2, <3>3 DEF MidIs
  <2>3. CASE algo = "tribus"
    <3>1. g.midLen # 0 /\ hash = "jh"
      BY <1>3, <2>3, HashOfIs DEF g, Settings
    <3>2. HashOf(algo)' = "jh"
      BY <1>2, <2>3, HashOfIs
    <3>3. absorbed = Part(Message, 0, 64) /\ tweaks = <<0>>
      BY <1>1, <3>1, FirstBlock DEF DigestInv
    <3>. QED
      BY <1>1, <3>1, <3>2, <3>3 DEF MidIs
  <2>. QED
    BY <1>3, <2>1, <2>2, <2>3, AlgoIs
<1>6. Sent' = Sent /\ Registers' = Registers /\ poked' \in 0..Registers - 1
  BY <1>1, <1>2, SameSent, RegistersType
<1>. QED
  BY <1>1, <1>2, <1>3, <1>4, <1>5, <1>6 DEF HeaderSent

LEMMA PokeHolds ==
    ASSUME HeaderSent, Poke
    PROVE  HeaderSent'
<1>. DEFINE addr == FirstAddress + 4 * poked
<1>1. /\ place = "poke" /\ words' = words /\ poked' = poked + 1
      /\ block' = Written(addr, words[poked + 1])
      /\ place' = IF addr = Trigger THEN "scan" ELSE "poke"
      /\ hash' = hash /\ algo' = algo /\ mid' = mid /\ result' = result
  BY DEF Poke, streamVars
<1>2. /\ algo \in Algos /\ HashOf(algo) = hash /\ MidIs /\ words = Sent
      /\ poked \in 0..Registers - 1
      /\ \A i \in 1..poked : block[i] = words[i]
      /\ result = Zeros(4)
  BY <1>1 DEF HeaderSent
<1>3. Sent' = Sent /\ Registers' = Registers /\ MidIs'
  BY <1>1, <1>2, SameSent, SameMid
<1>4. block' = [i \in 1..Registers |-> IF i = poked + 1 THEN words[poked + 1] ELSE block[i]]
  <2>1. \A i \in 1..Registers : addr = FirstAddress + 4 * (i - 1) <=> i = poked + 1
    BY <1>2, RegistersType DEF FirstAddress
  <2>2. block' = [i \in 1..Registers |->
                    IF addr = FirstAddress + 4 * (i - 1) THEN words[poked + 1] ELSE block[i]]
    BY <1>1 DEF Written
  <2>. HIDE DEF addr
  <2>. QED
    BY <2>1, <2>2
<1>5. \A i \in 1..poked + 1 : block'[i] = words[i]
  BY <1>2, <1>4, RegistersType
<1>6. addr = Trigger <=> poked + 1 = Registers
  BY <1>2, RegistersType DEF Trigger, FirstAddress
<1>7. poked + 1 = Registers => block' = Sent
  <2>1. words = [i \in 1..Registers |-> words[i]]
    BY <1>2 DEF Sent, WordsOf
  <2>2. poked + 1 = Registers => block' = [i \in 1..Registers |-> words[i]]
    BY <1>4, <1>5
  <2>. QED
    BY <1>2, <2>1, <2>2
<1>8. CASE addr = Trigger
  <2>1. place' = "scan" /\ block' = Sent
    BY <1>1, <1>6, <1>7, <1>8
  <2>. QED
    BY <1>1, <1>2, <1>3, <2>1 DEF HeaderSent
<1>9. CASE addr # Trigger
  <2>1. place' = "poke" /\ poked' \in 0..Registers - 1
    BY <1>1, <1>2, <1>6, <1>9, RegistersType
  <2>. QED
    BY <1>1, <1>2, <1>3, <1>5, <2>1 DEF HeaderSent
<1>. QED
  BY <1>8, <1>9

\* The host reads the result, and no other register, at the address of its
\* algorithm.
LEMMA ReadsResult ==
    ASSUME algo \in Algos
    PROVE  Read(IF algo = "tribus" THEN 1428 ELSE 1364) = result
<1>1. ResultAddress = IF algo = "tribus" THEN 1428 ELSE 1364
  BY DEF ResultAddress, Trigger, FirstAddress, Registers
<1>. QED
  BY <1>1 DEF Read

LEMMA SentStep ==
    ASSUME StreamInv, DigestInv, HeaderSent, [Next]_vars
    PROVE  HeaderSent'
<1>1. CASE Stream
  <2>1. /\ algo' = algo /\ place' = place /\ poked' = poked /\ words' = words /\ block' = block
        /\ mid' = mid /\ result' = result /\ nonce' = nonce
    BY <1>1 DEF Stream, payloadVars, fpga
  <2>2. hash' = hash
    BY <1>1, HashStays DEF Stream
  <2>3. Sent' = Sent /\ Registers' = Registers /\ MidIs' = MidIs
    BY <2>1, SameSent, SameMid
  <2>. QED
    BY <2>1, <2>2, <2>3 DEF HeaderSent
<1>2. CASE Hit
  <2>1. /\ algo' = algo /\ place' = place /\ place = "scan" /\ block' = block /\ hash' = hash
        /\ mid' = mid /\ result' = Part(Message, 76, 80)
    BY <1>2 DEF Hit, streamVars, Part
  <2>2. Sent' = Sent /\ Registers' = Registers /\ MidIs' = MidIs
    BY <2>1, SameSent, SameMid
  <2>. QED
    BY <2>1, <2>2 DEF HeaderSent
<1>3. CASE Peek
  <2>1. /\ algo' = algo /\ place = "scan" /\ place' = "check" /\ block' = block /\ hash' = hash
        /\ mid' = mid /\ result' = result /\ result # Zeros(4)
        /\ nonce' = Read(IF algo = "tribus" THEN 1428 ELSE 1364)
    BY <1>3 DEF Peek, fpga
  <2>2. Sent' = Sent /\ Registers' = Registers /\ MidIs' = MidIs
    BY <2>1, SameSent, SameMid
  <2>3. algo \in Algos /\ result = Part(Message, 76, 80)
    BY <2>1 DEF HeaderSent
  <2>4. nonce' = result
    BY <2>1, <2>3, ReadsResult
  <2>. QED
    BY <2>1, <2>2, <2>3, <2>4 DEF HeaderSent
<1>4. CASE UNCHANGED vars
  <2>1. /\ algo' = algo /\ place' = place /\ poked' = poked /\ words' = words /\ block' = block
        /\ mid' = mid /\ result' = result /\ nonce' = nonce /\ hash' = hash
    BY <1>4 DEF vars, payloadVars, fpga, streamVars
  <2>2. Sent' = Sent /\ Registers' = Registers /\ MidIs' = MidIs
    BY <2>1, SameSent, SameMid
  <2>. QED
    BY <2>1, <2>2 DEF HeaderSent
<1>. QED
  BY <1>1, <1>2, <1>3, <1>4, PrepareHolds, PokeHolds DEF Next

\* A bitstream searches for the target that was sent, in every algorithm: the
\* word of the target is the last one that is poked, its bytes come out of the
\* two conversions as they went in, and the register that is written last is
\* both the target's and the one that starts the search.
THEOREM TargetArrives == Spec => []FpgaSeesTarget
<1>1. StreamInv /\ HostWaits /\ DigestInv /\ HeaderSent /\ [Next]_vars
        => (StreamInv /\ HostWaits /\ DigestInv /\ HeaderSent)'
  BY HostStep, DigestStep, SentStep
<1>2. HeaderSent => FpgaSeesTarget
  <2>. SUFFICES ASSUME HeaderSent, place \in {"scan", "check"}
                PROVE  Target = IF g.target THEN TopOfTarget ELSE Zeros(4)
    BY DEF FpgaSeesTarget
  <2>1. algo \in Algos /\ block = Sent
    BY DEF HeaderSent
  <2>2. block[Registers] = Word(Packed(Gathered), Registers - 1)
    BY <2>1, RegistersType DEF Sent, WordsOf
  <2>. QED
    BY <2>1, <2>2, PayloadEndsRight DEF EndsRight, LastWord, Target
<1>3. Init => HeaderSent
  BY SentInit
<1>. QED
  BY <1>1, <1>2, HostInit, DigestInit, <1>3, PTL DEF Spec

\* What the FPGA searches is the header that the host hashes and submits: the
\* host reads the nonce that was found, and the digest that it gets for the
\* header is the one that the bitstream makes of its registers, which are the
\* words as they were packed.
THEOREM SearchIsForTheHeader == Spec => []FpgaHashesTheHeader
<1>1. StreamInv /\ HostWaits /\ DigestInv /\ HeaderSent /\ [Next]_vars
        => (StreamInv /\ HostWaits /\ DigestInv /\ HeaderSent)'
  BY HostStep, DigestStep, SentStep
<1>2. StreamInv /\ DigestInv /\ HeaderSent => FpgaHashesTheHeader
  <2>. SUFFICES ASSUME StreamInv, DigestInv, HeaderSent,
                       place = "check", stage = "closed", fed = 80
                PROVE  nonce = SubSeq(Message, 77, 80) /\ digest = Miner
    BY DEF FpgaHashesTheHeader
  <2>1. /\ algo \in Algos /\ HashOf(algo) = hash /\ MidIs /\ block = Sent
        /\ result = Part(Message, 76, 80) /\ nonce = result
    BY DEF HeaderSent
  <2>2. hash \in Hashes
    BY Unpacked
  <2>3. digest = DigestOf(Prefix(80))
    BY DEF DigestInv, Closed
  <2>4. Miner = DigestOf(Prefix(80))
    BY <2>1, <2>2, MinerHashes DEF Loaded, Sent
  <2>. QED
    BY <2>1, <2>3, <2>4 DEF Part
<1>3. Init => HeaderSent
  BY SentInit
<1>. QED
  BY <1>1, <1>2, HostInit, DigestInit, <1>3, PTL DEF Spec
=============================================================================
