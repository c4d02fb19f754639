----------------------------- MODULE HashStream -----------------------------
(***************************************************************************)
(* The streaming interface of the hash functions that calc_hash and        *)
(* calc_midstate are made of (sha3/*.c): sph_X_init, sph_X called once or  *)
(* more, and sph_X_close, which pads, gives the digest and leaves the      *)
(* context ready for the next message.                                     *)
(*                                                                         *)
(* A compression function is opaque: the chaining value of a context is    *)
(* what has been given to it, the bytes (absorbed) and the counters or     *)
(* tweaks beside them (tweaks, one per call).  Two chaining values are     *)
(* equal only if the same bytes went in with the same tweaks.              *)
(*                                                                         *)
(* One step is one iteration of the loop of a core function.  The buffer   *)
(* keeps what earlier blocks and earlier messages have left in it, and     *)
(* begins with Junk, as a context on the stack does.                       *)
(***************************************************************************)
EXTENDS Integers, Sequences

CONSTANTS
    Hashes,   \* the hash functions in play
    Message,  \* the longest message, a sequence of bytes
    Cuts,     \* the lengths that one call may be given
    Lengths,  \* the lengths of message that are closed
    Junk      \* a byte that was never written

ASSUME StreamAssumption ==
    /\ Hashes \subseteq {"groestl", "skein", "jh", "cubehash", "keccak", "echo",
                         "sha256", "fugue", "blake32", "blake64", "luffa", "shabal",
                         "gost"}
    /\ Message \in Seq(Int)
    /\ Cuts \subseteq Nat /\ Lengths \subseteq Nat
    /\ Junk \in Int

VARIABLES
    hash,     \* the hash function of this context
    buf,      \* sc->buf, or the partial word of fugue
    ptr,      \* sc->ptr: how much of buf is in use
    count,    \* the counter of the context, in its own unit
    shift,    \* fugue: round_shift
    absorbed, \* chaining value: the bytes compressed
    tweaks,   \* chaining value: the tweak of each compression
    rest,     \* data and len: what the call has not consumed
    pads,     \* what close still hands to the core function
    stage,    \* where the call is
    fed,      \* history: how much of Message has been given
    digest    \* what the last close has output

state    == <<buf, ptr, count, shift, absorbed, tweaks>>
progress == <<rest, pads, stage>>
streamVars == <<hash, state, progress, fed, digest>>

Stages == {"idle", "update", "fill", "direct", "closing", "padded", "closed"}

(***************************************************************************)
(* Bytes.                                                                  *)
(***************************************************************************)
Least(a, b) == IF a < b THEN a ELSE b

Mark     == 128
Zeros(n) == [i \in 1..n |-> 0]

\* memcpy(b + at, d, n)
Copy(b, at, d, n) == [i \in 1..Len(b) |-> IF at < i /\ i <= at + n THEN d[i - at] ELSE b[i]]

\* b with the padding mark at ptr and zeros from there to the end
Marked(b) == Copy(b, ptr, <<Mark>> \o Zeros(Len(b) - ptr - 1), Len(b) - ptr)

\* The n bytes of v: only the low three can differ from zero within the bounds.
Digit(v, k) == CASE k = 0 -> v % 256
                 [] k = 1 -> (v \div 256) % 256
                 [] k = 2 -> (v \div 65536) % 256
                 [] OTHER -> 0
BigEndian(v, n)    == [i \in 1..n |-> Digit(v, n - i)]
LittleEndian(v, n) == [i \in 1..n |-> Digit(v, i - 1)]

(***************************************************************************)
(* What the core functions of the same shape differ in: the length of the  *)
(* block, the counter at the start, how much a block adds to it, and       *)
(* whether the counter goes into the compression, before or after that.    *)
(***************************************************************************)
GroestlCore  == [block |-> 128, start |-> 0, tick |-> 1,    tweak |-> "none"]
JhCore       == [block |-> 64,  start |-> 0, tick |-> 1,    tweak |-> "none"]
CubehashCore == [block |-> 32,  start |-> 0, tick |-> 0,    tweak |-> "none"]
KeccakCore   == [block |-> 72,  start |-> 0, tick |-> 0,    tweak |-> "none"]
LuffaCore    == [block |-> 32,  start |-> 0, tick |-> 0,    tweak |-> "none"]
EchoCore     == [block |-> 128, start |-> 0, tick |-> 1024, tweak |-> "new"]
Blake64Core  == [block |-> 128, start |-> 0, tick |-> 1024, tweak |-> "new"]
Blake32Core  == [block |-> 64,  start |-> 0, tick |-> 512,  tweak |-> "new"]
ShabalCore   == [block |-> 64,  start |-> 1, tick |-> 1,    tweak |-> "old"]
Sha256Core   == [block |-> 64,  start |-> 0, tick |-> 0,    tweak |-> "none"]
SkeinCore    == [block |-> 64,  start |-> 0, tick |-> 1,    tweak |-> "none"]
FugueCore    == [block |-> 4,   start |-> 0, tick |-> 0,    tweak |-> "none"]
GostCore     == [block |-> 64,  start |-> 0, tick |-> 0,    tweak |-> "none"]

CoreOf(h) ==
    CASE h = "groestl"  -> GroestlCore  [] h = "jh"      -> JhCore
      [] h = "cubehash" -> CubehashCore [] h = "keccak"  -> KeccakCore
      [] h = "luffa"    -> LuffaCore    [] h = "echo"    -> EchoCore
      [] h = "blake64"  -> Blake64Core  [] h = "blake32" -> Blake32Core
      [] h = "shabal"   -> ShabalCore   [] h = "sha256"  -> Sha256Core
      [] h = "skein"    -> SkeinCore    [] h = "fugue"   -> FugueCore
      [] h = "gost"     -> GostCore

Core  == CoreOf(hash)
Block == Core.block
Eager == hash \notin {"skein", "fugue", "sha256", "gost"}

\* The counter after a block, and what the compression sees of it.
Ticked   == count + Core.tick
TweakNow == CASE Core.tweak = "none" -> 0
              [] Core.tweak = "new"  -> Ticked
              [] Core.tweak = "old"  -> count

(***************************************************************************)
(* Calls of the core functions: how the data enters the buffer.            *)
(***************************************************************************)
Buffer(d) ==
    /\ buf' = Copy(buf, ptr, d, Len(d))
    /\ ptr' = ptr + Len(d)
    /\ UNCHANGED <<count, shift, absorbed, tweaks, progress>>

Enter(d, where) ==
    /\ rest' = d
    /\ stage' = where
    /\ UNCHANGED <<state, pads>>

\* Mutant of UpdateEager: data that just fills the buffer is not compressed.
UpdateEagerLate(d) ==
    /\ Eager
    /\ IF Len(d) <= Block - ptr THEN Buffer(d) ELSE Enter(d, "update")

\* groestl_big_core and its siblings: short data only fills the buffer.
UpdateEager(d) ==
    /\ Eager
    /\ IF Len(d) < Block - ptr THEN Buffer(d) ELSE Enter(d, "update")

\* A full block stays in the buffer, as it may be the last one.
UpdateSkein(d) ==
    /\ hash = "skein"
    /\ IF Len(d) <= Block - ptr THEN Buffer(d) ELSE Enter(d, "update")

\* Two blocks or more are compressed where they are, without the buffer.
UpdateSha256(d) ==
    /\ hash = "sha256"
    /\ Enter(d, CASE Len(d) = 0 -> "idle"
                  [] Len(d) > 0 /\ Len(d) < 2 * Block -> "update"
                  [] Len(d) >= 2 * Block /\ ptr > 0 -> "fill"
                  [] OTHER -> "direct")

\* p = (p << 8) | byte, for the bytes of d
ShiftIn(p, d) == SubSeq(p \o d, Len(d) + 1, Len(d) + 4)

\* CORE_ENTRY: the partial word is completed, and kept if nothing is left.
UpdateFugue(d, where) ==
    LET n == IF ptr < 4 THEN Least(4 - ptr, Len(d)) ELSE 0 IN
    /\ hash = "fugue"
    /\ count' = count + 8 * Len(d)
    /\ buf' = ShiftIn(buf, SubSeq(d, 1, n))
    /\ ptr' = ptr + n
    /\ rest' = SubSeq(d, n + 1, Len(d))
    /\ stage' = IF ptr < 4 /\ n = Len(d) THEN "idle" ELSE where
    /\ UNCHANGED <<shift, absorbed, tweaks, pads>>

\* hash_X: whole blocks from the end of the message, then what is left of it
\* behind a one and zeros.
GostBlocks(d) ==
    LET whole == Len(d) \div 64
        left  == Len(d) % 64
        final == Zeros(63 - left) \o <<1>> \o SubSeq(d, 1, left) IN
    [j \in 1..64 * (whole + 1) |->
        LET b == (j - 1) \div 64 IN
        IF b < whole THEN d[Len(d) - 64 * (b + 1) + (j - 64 * b)] ELSE final[j - 64 * b]]

\* gost is no stream: a call hashes its data and replaces what an earlier one
\* has left.  phi_hash, skunk_hash and poly_hash make one call per message.
UpdateGost(d) ==
    LET whole == Len(d) \div 64 IN
    /\ hash = "gost" /\ absorbed = <<>>
    /\ absorbed' = GostBlocks(d)
    /\ tweaks' = [i \in 1..whole + 1 |-> 512 * (i - 1)] \o <<8 * Len(d)>>
    /\ UNCHANGED <<buf, ptr, count, shift, progress>>

\* sph_X(cc, data, n)
Update(n) ==
    LET d == SubSeq(Message, fed + 1, fed + n) IN
    /\ stage = "idle"
    /\ fed + n <= Len(Message)
    /\ fed' = fed + n
    /\ \/ UpdateEager(d) \/ UpdateSkein(d) \/ UpdateSha256(d) \/ UpdateFugue(d, "update")
       \/ UpdateGost(d)
    /\ UNCHANGED <<hash, digest>>

(***************************************************************************)
(* The loops of the core functions.                                        *)
(***************************************************************************)
\* The call returns when nothing is left: to its caller, or to a close, which
\* may have another block to hand out.
Leave(left) ==
    stage' = CASE left # <<>> -> stage
               [] left = <<>> /\ stage = "update" -> "idle"
               [] OTHER -> IF pads = <<>> THEN "padded" ELSE "closing"

\* Fill the buffer, and compress it when it is full.
Chunk ==
    LET n == Least(Block - ptr, Len(rest))
        b == Copy(buf, ptr, rest, n)
        full == ptr + n = Block IN
    /\ stage \in {"update", "closing"} /\ rest # <<>>
    /\ Eager \/ hash = "sha256"
    /\ buf' = b
    /\ rest' = SubSeq(rest, n + 1, Len(rest))
    /\ ptr' = IF full THEN 0 ELSE ptr + n
    /\ absorbed' = IF full THEN absorbed \o b ELSE absorbed
    /\ tweaks' = IF full THEN Append(tweaks, TweakNow) ELSE tweaks
    /\ count' = IF hash = "sha256" THEN count + n ELSE IF full THEN Ticked ELSE count
    /\ Leave(rest')
    /\ UNCHANGED <<hash, shift, pads, fed, digest>>

\* Mutant of Sha256Fill: data and len stay as they were.
Sha256FillForgets ==
    /\ stage = "fill"
    /\ buf' = Copy(buf, ptr, rest, Block - ptr)
    /\ absorbed' = absorbed \o buf'
    /\ tweaks' = Append(tweaks, 0)
    /\ count' = count + (Block - ptr)
    /\ ptr' = 0
    /\ stage' = "direct"
    /\ UNCHANGED <<hash, shift, rest, pads, fed, digest>>

\* The start of a long call of sph_sha256: the block begun before is completed.
Sha256Fill ==
    LET n == Block - ptr IN
    /\ stage = "fill"
    /\ buf' = Copy(buf, ptr, rest, n)
    /\ absorbed' = absorbed \o buf'
    /\ tweaks' = Append(tweaks, 0)
    /\ count' = count + n
    /\ ptr' = 0
    /\ rest' = SubSeq(rest, n + 1, Len(rest))
    /\ stage' = "direct"
    /\ UNCHANGED <<hash, shift, pads, fed, digest>>

Sha256Direct ==
    /\ stage = "direct" /\ Len(rest) >= Block
    /\ absorbed' = absorbed \o SubSeq(rest, 1, Block)
    /\ tweaks' = Append(tweaks, 0)
    /\ count' = count + Block
    /\ rest' = SubSeq(rest, Block + 1, Len(rest))
    /\ UNCHANGED <<hash, buf, ptr, shift, pads, stage, fed, digest>>

Sha256Tail ==
    /\ stage = "direct" /\ Len(rest) < Block
    /\ buf' = Copy(buf, 0, rest, Len(rest))
    /\ ptr' = Len(rest)
    /\ count' = count + Len(rest)
    /\ rest' = <<>>
    /\ stage' = "idle"
    /\ UNCHANGED <<hash, shift, absorbed, tweaks, pads, fed, digest>>

\* UBI_BIG: the tweak has the position of the block's end and the type of
\* the block, 96 for a message, 128 more for the first one, 256 for the last.
MessageType == 96
FirstFlag(c) == IF c = 0 THEN 128 ELSE 0

\* A full buffer is compressed only when more data follows.
SkeinChunk ==
    LET full == ptr = Block
        at == IF full THEN 0 ELSE ptr
        n == Least(Block - at, Len(rest)) IN
    /\ hash = "skein" /\ stage = "update"
    /\ absorbed' = IF full THEN absorbed \o buf ELSE absorbed
    /\ tweaks' = IF full THEN Append(tweaks, <<Block * Ticked, MessageType + FirstFlag(count)>>)
                         ELSE tweaks
    /\ count' = IF full THEN Ticked ELSE count
    /\ buf' = Copy(buf, at, rest, n)
    /\ ptr' = at + n
    /\ rest' = SubSeq(rest, n + 1, Len(rest))
    /\ Leave(rest')
    /\ UNCHANGED <<hash, shift, pads, fed, digest>>

\* One case of the switch of fugue4_core: the word is mixed into the state as
\* it is named in that case; the last word, full or not, is kept for later.
FugueWord ==
    LET more == Len(rest) > 4 IN
    /\ hash = "fugue" /\ stage \in {"update", "closing"} /\ ptr = 4
    /\ absorbed' = absorbed \o buf
    /\ tweaks' = Append(tweaks, shift)
    /\ shift' = (shift + 1) % 3
    /\ buf' = IF more THEN SubSeq(rest, 1, 4) ELSE ShiftIn(Zeros(4), rest)
    /\ ptr' = IF more THEN 4 ELSE Len(rest)
    /\ rest' = IF more THEN SubSeq(rest, 5, Len(rest)) ELSE <<>>
    /\ Leave(rest')
    /\ UNCHANGED <<hash, count, pads, fed, digest>>

(***************************************************************************)
(* The close functions.  Those of groestl, JH, Keccak, BLAKE and Fugue     *)
(* hand their padding to the core function; the others compress it         *)
(* themselves.                                                             *)
(***************************************************************************)
Hand(d, c, later) ==
    /\ rest' = d
    /\ count' = c
    /\ pads' = later
    /\ stage' = "closing"
    /\ UNCHANGED <<buf, ptr, shift, absorbed, tweaks>>

Compress(b, bytes, tw) ==
    /\ buf' = b
    /\ absorbed' = absorbed \o bytes
    /\ tweaks' = tweaks \o tw
    /\ stage' = "padded"
    /\ UNCHANGED <<ptr, count, shift, rest, pads>>

\* The padding ends with the number of its last block, in 8 bytes.
CloseGroestl ==
    LET short  == ptr < 120
        padLen == IF short THEN 128 - ptr ELSE 256 - ptr
        blocks == IF short THEN count + 1 ELSE count + 2 IN
    /\ hash = "groestl"
    /\ Hand(<<Mark>> \o Zeros(padLen - 9) \o BigEndian(blocks, 8), count, <<>>)

\* The padding ends with the number of bits, in 16 bytes.
CloseJh ==
    LET numz == IF ptr = 0 THEN 47 ELSE 111 - ptr IN
    /\ hash = "jh"
    /\ Hand(<<Mark>> \o Zeros(numz) \o BigEndian(512 * count + 8 * ptr, 16), count, <<>>)

\* A single byte of padding holds both its first and its last bit.
CloseKeccak ==
    /\ hash = "keccak"
    /\ Hand(IF ptr = Block - 1 THEN <<1 + Mark>>
            ELSE <<1>> \o Zeros(Block - ptr - 2) \o <<Mark>>, count, <<>>)

\* T0 and T1, here one number, are set so that what the core function adds
\* for the block makes them the number of message bits, or zero if the block
\* has none.  The length takes w bytes.
CloseBlake(w) ==
    LET bits  == 8 * ptr
        total == count + bits
        last  == Block - w
        size  == BigEndian(total, w)
        none  == -Core.tick
        end   == IF ptr = last - 1 THEN <<Mark + 1>>
                 ELSE <<Mark>> \o Zeros(last - 2 - ptr) \o <<1>>
        first == IF ptr = 0 THEN none ELSE count - (Core.tick - bits) IN
    IF bits <= Core.tick - 8 * w - 2
    THEN Hand(end \o size, first, <<>>)
    ELSE Hand(<<Mark>> \o Zeros(Block - 1 - ptr), first,
              <<[data |-> Zeros(last - 1) \o <<1>> \o size, count |-> none]>>)

CloseBlake64 == hash = "blake64" /\ CloseBlake(16)
CloseBlake32 == hash = "blake32" /\ CloseBlake(8)

\* The last word that the core function is given stays behind, so the word
\* after the number of bits, which nobody has written, is never mixed in.
CloseFugue ==
    LET fill == IF 0 < ptr /\ ptr < 4 THEN Zeros(4 - ptr) ELSE <<>> IN
    UpdateFugue(fill \o BigEndian(count, 8) \o [i \in 1..4 |-> Junk], "closing")

\* Between two calls of a core function in a close.
NextPad ==
    /\ stage = "closing" /\ rest = <<>> /\ pads # <<>>
    /\ Hand(Head(pads).data, Head(pads).count, Tail(pads))
    /\ UNCHANGED <<hash, fed, digest>>

CloseCubehash ==
    /\ hash = "cubehash"
    /\ Compress(Marked(buf), Marked(buf), <<0>>)

\* Two blocks of zeros follow; the digest is read after each.
CloseLuffa ==
    /\ hash = "luffa"
    /\ Compress(Zeros(32), Marked(buf) \o Zeros(64), <<0, 0, 0>>)

\* The permutation runs three times more, with the counter of the last block.
CloseShabal ==
    /\ hash = "shabal"
    /\ Compress(Marked(buf), Marked(buf), <<count, count, count, count>>)

\* The counter is that of the bits of the message in the block: zero for a
\* block of padding only.
CloseEcho ==
    LET total == count + 8 * ptr
        own   == IF ptr = 0 THEN 0 ELSE total
        End(b) == SubSeq(b, 1, 110) \o LittleEndian(512, 2) \o LittleEndian(total, 16)
        two   == ptr + 1 > 128 - 18 IN
    /\ hash = "echo"
    /\ IF two THEN Compress(End(Zeros(128)), Marked(buf) \o End(Zeros(128)), <<own, 0>>)
              ELSE Compress(End(Marked(buf)), End(Marked(buf)), <<own>>)

\* md_helper.c with the number of bits in the last 8 bytes of a block
CloseSha256 ==
    LET End(b) == SubSeq(b, 1, 56) \o BigEndian(8 * count, 8) IN
    /\ hash = "sha256"
    /\ IF ptr + 1 > 56
       THEN Compress(End(Zeros(64)), Marked(buf) \o End(Zeros(64)), <<0, 0>>)
       ELSE Compress(End(Marked(buf)), End(Marked(buf)), <<0>>)

\* The last block of the message, filled up with zeros, and the block of the
\* output, whose type is 255 with both flags.
CloseSkein ==
    LET b == Copy(buf, ptr, Zeros(Block - ptr), Block - ptr)
        et == 256 + MessageType + FirstFlag(count) IN
    /\ hash = "skein"
    /\ Compress(Zeros(64), b \o Zeros(64), <<<<Block * count + ptr, et>>, <<8, 510>>>>)

\* The hash that the call has left in the context is copied.
CloseGost ==
    /\ hash = "gost" /\ absorbed # <<>>
    /\ Compress(buf, <<>>, <<>>)

\* sph_X_close(cc, dst)
Close ==
    /\ stage = "idle" /\ fed \in Lengths
    /\ \/ CloseGroestl \/ CloseJh \/ CloseKeccak \/ CloseBlake64 \/ CloseBlake32
       \/ CloseCubehash \/ CloseLuffa \/ CloseShabal \/ CloseEcho \/ CloseSha256
       \/ CloseSkein \/ CloseFugue \/ CloseGost
    /\ UNCHANGED <<hash, fed, digest>>

\* Mutant of Reset: the counter runs on into the next message.
ResetKeepsCount ==
    /\ ptr' = 0
    /\ count' = count
    /\ shift' = 0
    /\ absorbed' = <<>>
    /\ tweaks' = <<>>
    /\ buf' = IF hash = "fugue" THEN Zeros(4) ELSE buf

\* What the init functions set; the buffer keeps its content, but for the
\* partial word of fugue.
Reset ==
    /\ ptr' = 0
    /\ count' = Core.start
    /\ shift' = 0
    /\ absorbed' = <<>>
    /\ tweaks' = <<>>
    /\ buf' = IF hash = "fugue" THEN Zeros(4) ELSE buf

\* The digest is put out, fugue's state turned back first, and the context
\* is initialised for the next message.
Output ==
    /\ stage = "padded"
    /\ digest' = [absorbed |-> absorbed, tweaks |-> tweaks, turned |-> shift]
    /\ Reset
    /\ stage' = "closed"
    /\ UNCHANGED <<hash, rest, pads, fed>>

\* The caller goes on with another message.
Again ==
    /\ stage = "closed"
    /\ fed' = 0
    /\ digest' = <<>>
    /\ rest' = <<>>
    /\ stage' = "idle"
    /\ UNCHANGED <<hash, state, pads>>

StreamInit ==
    /\ hash \in Hashes
    /\ buf = IF hash = "fugue" THEN Zeros(4) ELSE [i \in 1..Block |-> Junk]
    /\ ptr = 0
    /\ count = Core.start
    /\ shift = 0
    /\ absorbed = <<>> /\ tweaks = <<>>
    /\ rest = <<>> /\ pads = <<>> /\ stage = "idle"
    /\ fed = 0 /\ digest = <<>>

StreamNext ==
    \/ \E n \in Cuts : Update(n)
    \/ Chunk \/ SkeinChunk \/ FugueWord
    \/ Sha256Fill \/ Sha256Direct \/ Sha256Tail
    \/ Close \/ NextPad \/ Output \/ Again

StreamSpec == StreamInit /\ [][StreamNext]_streamVars
=============================================================================
