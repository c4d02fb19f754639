----------------------------- MODULE FpgaPayload -----------------------------
(***************************************************************************)
(* A block header on its way into the FPGA and back: calc_midstate hashes  *)
(* its first block with the context of HashStream, aws_miner_thread packs  *)
(* midstate, rest of the header and target into words and pokes them, the  *)
(* bitstream (miner_top.v, miner.v) continues the hash from what its       *)
(* registers hold, and calc_hash hashes the header with the nonce that the *)
(* host has read.                                                          *)
(*                                                                         *)
(* Memory and registers are sequences of bytes: memory in the order of the *)
(* addresses, registers and wires with the most significant byte first.    *)
(* Message is the header in the order in which it is hashed, with the      *)
(* nonce that the FPGA finds.  The host is little endian.                  *)
(***************************************************************************)
EXTENDS HashStream, SequencesExt

CONSTANTS
    Algos,      \* the algorithms mined
    NoAlgo      \* none: the context is only used as a context

VARIABLES
    algo,       \* opt_algo
    place,      \* "header", "poke", "scan" or "check"
    mid,        \* the chaining value that the bytes of the midstate stand for
    words,      \* send_buf, by 4 bytes
    poked,      \* how many of them are in the FPGA
    block,      \* the block registers, by 4 bytes
    result,     \* the result register
    nonce       \* what the host has read

fpga == <<block, result>>
payloadVars == <<algo, place, mid, words, poked, fpga, nonce>>
vars == <<streamVars, payloadVars>>

HashOf(a) == CASE a \in {"groestl", "dmd-gr", "myr-gr"} -> "groestl"
               [] a \in {"phi", "skunk"} -> "skein"
               [] a = "tribus" -> "jh"
               [] OTHER -> NoAlgo

ASSUME PayloadAssumption ==
    /\ Algos \subseteq {"groestl", "dmd-gr", "myr-gr", "phi", "skunk", "tribus"}
    /\ NoAlgo \notin Algos \cup Hashes
    /\ Len(Message) >= 80

(***************************************************************************)
(* The settings that main makes for an algorithm, g_fpga_work_len etc.      *)
(***************************************************************************)
Settings(a) ==
    CASE a \in {"groestl", "dmd-gr"} ->
           [midLen |-> 0, start |-> 0, len |-> 76, target |-> TRUE, swap |-> TRUE]
      [] a \in {"phi", "skunk"} ->
           [midLen |-> 64, start |-> 64, len |-> 12, target |-> TRUE, swap |-> FALSE]
      [] a = "tribus" ->
           [midLen |-> 128, start |-> 64, len |-> 12, target |-> TRUE, swap |-> FALSE]
      [] OTHER ->
           [midLen |-> 0, start |-> 0, len |-> 80, target |-> FALSE, swap |-> TRUE]

g == Settings(algo)

(***************************************************************************)
(* Conversions.                                                            *)
(***************************************************************************)
\* each group of n bytes turned round
Swapped(s, n) == [i \in 1..Len(s) |-> s[n * ((i - 1) \div n) + n - ((i - 1) % n)]]

swap_endian(s)    == Swapped(s, 4)
swap_endian_64(s) == Swapped(s, 8)

Word(s, i) == SubSeq(s, 4 * i + 1, 4 * i + 4)

\* target[7], most significant byte first
TopOfTarget == [i \in 1..4 |-> 3000 + i]

(***************************************************************************)
(* The host.                                                               *)
(***************************************************************************)
\* work.data: stratum_gen_work leaves the word of the nonce zero.
WorkData == swap_endian(SubSeq(Message, 1, 76)) \o Zeros(4)

\* The chaining value in memory.
Chaining == [i \in 1..g.midLen |-> 2000 + i]

\* phi_midstate and skunk_midstate copy it, tribus_midstate turns it round.
Midstate == IF algo = "tribus" THEN Reverse(Chaining) ELSE Chaining

\* Mutant of Gathered: the target is copied as it is for every algorithm.
GatheredUnswapped ==
    Midstate \o SubSeq(WorkData, g.start + 1, g.start + g.len)
             \o (IF g.target THEN Reverse(TopOfTarget) ELSE <<>>)

\* data: midstate, the rest of the header and the target
Gathered ==
    Midstate \o SubSeq(WorkData, g.start + 1, g.start + g.len)
             \o (CASE ~g.target -> <<>>
                   [] g.target /\ g.swap -> Reverse(TopOfTarget)
                   [] g.target /\ ~g.swap -> TopOfTarget)

\* Mutant of Packed: the words after the midstate keep their order.
PackedInOrder(d) ==
    CASE g.swap -> swap_endian(d)
      [] ~g.swap /\ g.midLen = 128 -> SubSeq(d, 1, 128) \o swap_endian(SubSeq(d, 129, 140))
                                        \o Word(d, 35)
      [] ~g.swap /\ g.midLen = 64 -> swap_endian_64(SubSeq(d, 1, 64)) \o SubSeq(d, 65, 80)

\* send_buf, for the algorithms that have a bitstream
Packed(d) ==
    CASE g.swap -> swap_endian(d)
      [] ~g.swap /\ g.midLen = 128 -> SubSeq(d, 1, 128) \o swap_endian(SubSeq(d, 129, 140))
                                        \o Word(d, 35)
      [] ~g.swap /\ g.midLen = 64 -> swap_endian_64(SubSeq(d, 1, 64))
                                       \o Word(d, 18) \o Word(d, 17) \o Word(d, 16) \o Word(d, 19)

\* calc_midstate reads the chaining value of a context that has been given
\* the header and is not closed.
Prepare ==
    LET d == Packed(Gathered) IN
    /\ place = "header" /\ algo # NoAlgo
    /\ stage = "idle" /\ fed = 80
    /\ mid' = IF g.midLen = 0 THEN [absorbed |-> <<>>, tweaks |-> <<>>]
                              ELSE [absorbed |-> absorbed, tweaks |-> tweaks]
    /\ words' = [i \in 1..Len(d) \div 4 |-> Word(d, i - 1)]
    /\ poked' = 0
    /\ place' = "poke"
    /\ UNCHANGED <<streamVars, algo, fpga, nonce>>

\* The registers are at 0x504 and every fourth address after it; the value
\* is swapped into a big-endian register.
FirstAddress == 1284

(***************************************************************************)
(* The bitstream.                                                          *)
(***************************************************************************)
Registers == IF algo = "tribus" THEN 36 ELSE 20
Trigger   == FirstAddress + 4 * (Registers - 1)
ResultAddress == Trigger + 4

\* The word at an address goes to its register.
Written(addr, w) ==
    [i \in 1..Registers |-> IF addr = FirstAddress + 4 * (i - 1) THEN w ELSE block[i]]

\* Any address but that of the result reads as all ones.
Read(addr) == IF addr = ResultAddress THEN result ELSE <<255, 255, 255, 255>>

\* Writing the last register starts the search.
Poke ==
    LET addr == FirstAddress + 4 * poked IN
    /\ place = "poke"
    /\ block' = Written(addr, words[poked + 1])
    /\ poked' = poked + 1
    /\ place' = IF addr = Trigger THEN "scan" ELSE "poke"
    /\ UNCHANGED <<streamVars, algo, mid, words, result, nonce>>

Wires == FlattenSeq(block)
Target == block[Registers]

\* A nonce is found; miner_top.v keeps it.
Hit ==
    /\ place = "scan" /\ result = Zeros(4)
    /\ result' = SubSeq(Message, 77, 80)
    /\ UNCHANGED <<streamVars, algo, place, mid, words, poked, block, nonce>>

\* The host reads the nonce and begins to hash the header with it, in a new
\* context.
Peek ==
    /\ place = "scan" /\ result # Zeros(4)
    /\ nonce' = Read(IF algo = "tribus" THEN 1428 ELSE 1364)
    /\ Reset /\ stage' = "idle" /\ fed' = 0
    /\ place' = "check"
    /\ UNCHANGED <<hash, rest, pads, digest, algo, mid, words, poked, fpga>>

\* What the bitstream's registers make of a message m in the byte order of
\* the C function, which follows the chaining value whose bytes are cv.
Continued(cv, m, tw) ==
    IF cv = Chaining
    THEN [absorbed |-> mid.absorbed \o m, tweaks |-> mid.tweaks \o tw, turned |-> 0]
    ELSE [absorbed |-> m, tweaks |-> tw, turned |-> 0]

\* grs/miner.v and grostl512.v: one block, with the padding as constants
GroestlMiner ==
    Continued(<<>>, SubSeq(Wires, 1, 76) \o result \o <<Mark>> \o Zeros(45) \o <<0, 1>>, <<0>>)

\* phi1612 and skunk, miner.v and skein.v: m0 is the low half of data, m1 is
\* {nonce_le, the high word of data}; words are little endian.
SkeinMiner ==
    LET data == SubSeq(Wires, 65, 76)
        m0 == SubSeq(data, 5, 12)
        m1 == Reverse(result) \o SubSeq(data, 1, 4) IN
    Continued(swap_endian_64(SubSeq(Wires, 1, 64)),
              Reverse(m0) \o Reverse(m1) \o Zeros(48) \o Zeros(64),
              <<<<80, 352>>, <<8, 510>>>>)

\* tribus, miner.v and jh.v: the least significant byte of the state is its
\* first one, and data_le is data turned round.
JhMiner ==
    LET state_le == Reverse(SubSeq(Wires, 1, 128))
        data == SubSeq(Wires, 129, 140) \o result IN
    Continued(state_le, data \o <<Mark>> \o Zeros(47) \o Zeros(62) \o <<2, 128>>, <<0, 0>>)

Miner == CASE HashOf(algo) = "groestl" -> GroestlMiner
           [] HashOf(algo) = "skein"   -> SkeinMiner
           [] HashOf(algo) = "jh"      -> JhMiner

(***************************************************************************)
(* The system: the context is free while the host does not poke or scan.   *)
(***************************************************************************)
Init ==
    /\ StreamInit
    /\ algo \in {a \in Algos \cup {NoAlgo} : a = NoAlgo \/ HashOf(a) = hash}
    /\ place = "header"
    /\ mid = [absorbed |-> <<>>, tweaks |-> <<>>]
    /\ words = <<>> /\ poked = 0
    /\ block = [i \in 1..Registers |-> Zeros(4)]
    /\ result = Zeros(4)
    /\ nonce = Zeros(4)

Stream ==
    /\ place \in {"header", "check"}
    /\ StreamNext
    /\ UNCHANGED payloadVars

Next == Stream \/ Prepare \/ Poke \/ Hit \/ Peek

Spec == Init /\ [][Next]_vars
=============================================================================
