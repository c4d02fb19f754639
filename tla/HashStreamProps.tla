--------------------------- MODULE HashStreamProps ---------------------------
(***************************************************************************)
(* What the streaming interface promises: the digest is that of the        *)
(* message, however the message was cut into calls and whatever the        *)
(* context was used for before.                                            *)
(***************************************************************************)
EXTENDS HashStream

Prefix(n) == SubSeq(Message, 1, n)

(***************************************************************************)
(* The padded message of each hash function, as its designers define it:   *)
(* one formula over the whole message, with no buffer and no counter.      *)
(***************************************************************************)
\* the least k such that n + k is a multiple of m
Up(n, m) == (m - (n % m)) % m

\* message bits up to the end of block i, or zero for a block without any
BitsIn(n, i, block) == IF block * (i - 1) < n THEN 8 * Least(n, block * i) ELSE 0

\* the blocks of p, the last one first
BlocksFromTheEnd(p) ==
    [j \in 1..Len(p) |-> p[Len(p) - Block * (((j - 1) \div Block) + 1) + ((j - 1) % Block) + 1]]

Padded(m) ==
    LET n == Len(m)
        bits == 8 * n IN
    CASE hash = "groestl" ->
           LET z == Up(n + 9, 128) IN
           m \o <<Mark>> \o Zeros(z) \o BigEndian((n + 9 + z) \div 128, 8)
      [] hash = "jh"       -> m \o <<Mark>> \o Zeros(47 + Up(n, 64)) \o BigEndian(bits, 16)
      [] hash = "keccak"   -> LET z == Up(n + 1, 72) IN
                              IF z = 0 THEN m \o <<129>> ELSE m \o <<1>> \o Zeros(z - 1) \o <<128>>
      [] hash = "cubehash" -> m \o <<Mark>> \o Zeros(Up(n + 1, 32))
      [] hash = "luffa"    -> m \o <<Mark>> \o Zeros(Up(n + 1, 32)) \o Zeros(64)
      [] hash = "shabal"   -> m \o <<Mark>> \o Zeros(Up(n + 1, 64))
      [] hash = "sha256"   -> m \o <<Mark>> \o Zeros(Up(n + 9, 64)) \o BigEndian(bits, 8)
      [] hash = "echo"     -> m \o <<Mark>> \o Zeros(Up(n + 19, 128)) \o <<0, 2>>
                                \o LittleEndian(bits, 16)
      [] hash = "skein"    -> m \o Zeros(IF n = 0 THEN 64 ELSE Up(n, 64)) \o Zeros(64)
      [] hash = "fugue"    -> m \o Zeros(Up(n, 4)) \o BigEndian(bits, 8)
      [] hash = "gost"     -> BlocksFromTheEnd(Zeros(63 - (n % 64)) \o <<1>> \o m)
      [] hash \in {"blake64", "blake32"} ->
           LET w == IF hash = "blake64" THEN 16 ELSE 8
               z == Up(n + 1 + w, Block) IN
           m \o (IF z = 0 THEN <<129>> ELSE <<Mark>> \o Zeros(z - 1) \o <<1>>) \o BigEndian(bits, w)

\* The tweak of each block, or of each permutation.
Tweaked(m) ==
    LET n == Len(m)
        blocks == Len(Padded(m)) \div Block
        skeinBlocks == blocks - 1 IN
    CASE hash \in {"echo", "blake64", "blake32"} -> [i \in 1..blocks |-> BitsIn(n, i, Block)]
      [] hash = "shabal" -> [i \in 1..blocks + 3 |-> Least(i, blocks)]
      [] hash = "fugue"  -> [i \in 1..blocks |-> (i - 1) % 3]
      [] hash = "skein"  ->
           [i \in 1..blocks |->
              IF i = blocks THEN <<8, 510>>
              ELSE <<Least(64 * i, n), 96 + (IF i = 1 THEN 128 ELSE 0)
                                          + (IF i = skeinBlocks THEN 256 ELSE 0)>>]
      [] hash = "gost"   -> [i \in 1..blocks |-> 512 * (i - 1)] \o <<8 * n>>
      [] OTHER -> [i \in 1..blocks |-> 0]

DigestOf(m) ==
    [absorbed |-> Padded(m), tweaks |-> Tweaked(m),
     turned |-> IF hash = "fugue" THEN (Len(Padded(m)) \div 4) % 3 ELSE 0]

\* A close puts out the digest of the message that the calls since the last
\* close have given: it depends neither on where the message was cut, nor on
\* what the buffer holds from earlier blocks and messages (groestlhash hashes
\* twice with one context and initialises it once, algo/groestl.c:19-24).
DigestIsOfMessage == stage = "closed" => digest = DigestOf(Prefix(fed))

\* In use between two calls: the bytes of the buffer that belong to the message.
Buffered == IF hash = "fugue" THEN SubSeq(buf, 5 - ptr, 4) ELSE SubSeq(buf, 1, ptr)

\* In every call the bytes compressed, those in the buffer and those not yet
\* looked at are the message so far, in its order: none is lost, doubled or
\* overwritten where a core function leaves its loop or returns early.
\* Between two calls only a part of a block is left in the buffer, or a whole
\* one for skein and fugue: the midstates that calc_midstate reads from
\* contexts that were never closed rely on it.
NothingLost ==
    /\ stage \in {"idle", "update", "fill", "direct"} /\ hash # "gost" =>
         absorbed \o Buffered \o rest = Prefix(fed)
    /\ stage = "idle" => ptr < Block \/ (ptr = Block /\ ~Eager /\ hash # "sha256")
=============================================================================
