----------------------------- MODULE NonceScan -----------------------------
(***************************************************************************)
(* One FPGA and the thread that drives it: the scan loop of                *)
(* aws_miner_thread and the part of the bitstream it talks to (the block   *)
(* registers, the nonce counter and the result register of miner_top.v and *)
(* miner.v).                                                               *)
(*                                                                         *)
(* The counter of the FPGA starts Offset positions early, because the      *)
(* hashes that leave the pipeline first belong to the previous block; they *)
(* are labelled with the nonces 2^w - Offset and up.  The result register  *)
(* keeps the label of the last hit, across blocks too: nothing clears it.  *)
(*                                                                         *)
(* Works are numbered.  Whether a nonce solves a work is a matter of       *)
(* hashing; solves[n] is the work that nonce n solves, if any.  A nonce    *)
(* that solves two works, or that solves a work and is reported by chance  *)
(* while the FPGA hashes something else, is a coincidence of a probability *)
(* of about 2^-32 and left out.                                            *)
(***************************************************************************)
EXTENDS Naturals, Sequences

CONSTANTS
    Size,      \* number of nonces, 2^32
    Offset,    \* depth of the hash pipeline
    MaxWorks,  \* bound: number of works
    MaxReused, \* bound: number of rounds that evaluate an old nonce again
    None       \* no work

ASSUME ScanAssumption ==
    /\ Size \in Nat /\ Offset \in Nat /\ 0 < Offset /\ Offset < Size
    /\ MaxWorks \in Nat \ {0} /\ MaxReused \in Nat
    /\ None \notin Nat

VARIABLES
    solves,     \* the work that each nonce solves
    pos,        \* the nonce counter, from 0 for the label 2^w - Offset
    result,     \* the result register
    place,      \* where the thread is
    work,       \* the number of its work
    oldValue,   \* old_value
    nonce,      \* nonce
    ret,        \* ret
    submitted,  \* history: the shares handed to submit_work
    reused,     \* history: how often a nonce was evaluated again
    inherited   \* history: the result register when the search began

deviceVars == <<pos, result>>
threadVars == <<place, work, oldValue, nonce, ret, submitted, reused,
                inherited>>
vars == <<solves, deviceVars, threadVars>>

Nonces  == 0..Size - 1
Flushed == Size - Offset..Size - 1
Works   == 1..MaxWorks
Places  == {"drawing", "poking", "scanning", "evaluating"}

\* Mutant of Label: the labels of the leftovers are one too high.
LabelOneLate(k) == IF k < Offset THEN k + Size - Offset + 1 ELSE k - Offset

\* Mutant of Label: the last leftover is taken for the first nonce.
LabelShort(k) == IF k < Offset - 1 THEN k + Size - Offset + 1 ELSE k - Offset + 1

\* The nonce at a position of the 32-bit counter.
Label(k) == IF k < Offset THEN k + Size - Offset ELSE k - Offset

\* ret is not initialised: it may be anything when the thread starts.
Init ==
    /\ solves \in {f \in [Nonces -> Works \cup {None}] : \A n \in Flushed : f[n] = None}
    /\ pos = 0 /\ result = 0
    /\ place = "drawing" /\ work = 0
    /\ oldValue = 0 /\ nonce = 0 /\ ret \in {0, 1}
    /\ submitted = <<>> /\ reused = 0 /\ inherited = 0

-----------------------------------------------------------------------------
(***************************************************************************)
(* The FPGA.  A search stops being followed at the end of its nonces.      *)
(***************************************************************************)

\* Whether the FPGA may report what it hashed Offset cycles before position k:
\* a hash of the previous block; a hash of anything, while the block registers
\* are being rewritten; else a nonce, which has to solve the work.
Reportable(k) ==
    k >= Offset =>
        solves[k - Offset] = IF place = "poking" THEN None ELSE work

\* nonce_found: the result register takes the label.
Hit(k) ==
    /\ work > 0
    /\ k >= pos /\ Reportable(k)
    /\ pos' = k + 1
    /\ result' = Label(k)
    /\ UNCHANGED <<solves, threadVars>>

-----------------------------------------------------------------------------
(***************************************************************************)
(* The thread.                                                             *)
(***************************************************************************)

\* A new work; its payload is poked into the block registers one by one.
Draw ==
    /\ place = "drawing"
    /\ work < MaxWorks
    /\ work' = work + 1
    /\ place' = "poking"
    /\ UNCHANGED <<solves, deviceVars, oldValue, nonce, ret, submitted, reused, inherited>>

\* The poke of the last block register starts the search.
Trigger ==
    /\ place = "poking"
    /\ pos' = 0
    /\ inherited' = result
    /\ place' = "scanning"
    /\ UNCHANGED <<solves, result, work, oldValue, nonce, ret, submitted, reused>>

\* Mutant of PeekNew: old_value is not kept.
PeekNewForgets ==
    /\ place = "scanning"
    /\ result # 0 /\ result # oldValue
    /\ nonce' = result
    /\ ret' = 1
    /\ place' = "evaluating"
    /\ UNCHANGED <<solves, deviceVars, work, oldValue, submitted, reused, inherited>>

\* Up to ten peeks, 5 ms apart: one of them reads a new nonce.
PeekNew ==
    /\ place = "scanning"
    /\ result # 0 /\ result # oldValue
    /\ oldValue' = result
    /\ nonce' = result
    /\ ret' = 1
    /\ place' = "evaluating"
    /\ UNCHANGED <<solves, deviceVars, work, submitted, reused, inherited>>

\* Ten peeks, and those that succeeded read nothing new.
PeekNothing ==
    /\ place = "scanning"
    /\ result = 0 \/ result = oldValue
    /\ ret' = 0
    /\ UNCHANGED <<solves, deviceVars, place, work, oldValue, nonce, submitted, reused, inherited>>

\* All ten peeks failed: ret keeps the value of the previous round, and with
\* ret = 1 the nonce of that round is taken for a new one.
PeekFails ==
    /\ place = "scanning"
    /\ IF ret = 0
       THEN UNCHANGED <<place, reused>>
       ELSE /\ reused < MaxReused
            /\ reused' = reused + 1
            /\ place' = "evaluating"
    /\ UNCHANGED <<solves, deviceVars, work, oldValue, nonce, ret, submitted, inherited>>

\* calc_hash on the header with the nonce, compared with the target.
Solves(w, n) == solves[n] = w

\* submit_work if the nonce solves the work, an HW error otherwise.
Evaluate ==
    /\ place = "evaluating"
    /\ place' = "scanning"
    /\ submitted' = IF Solves(work, nonce)
                    THEN Append(submitted, <<work, nonce>>) ELSE submitted
    /\ UNCHANGED <<solves, deviceVars, work, oldValue, nonce, ret, reused, inherited>>

\* Mutant of TimeOut: the time is only looked at after a round with a nonce.
TimeOutAfterNonce ==
    /\ place = "scanning"
    /\ ret = 1
    /\ place' = "drawing"
    /\ UNCHANGED <<solves, deviceVars, work, oldValue, nonce, ret, submitted, reused, inherited>>

\* opt_scantime has passed: only looked at after a round without a nonce.
TimeOut ==
    /\ place = "scanning"
    /\ ret = 0
    /\ place' = "drawing"
    /\ UNCHANGED <<solves, deviceVars, work, oldValue, nonce, ret, submitted, reused, inherited>>

\* work_restart[thr_id].restart was raised.
Restarted ==
    /\ place = "scanning"
    /\ place' = "drawing"
    /\ UNCHANGED <<solves, deviceVars, work, oldValue, nonce, ret, submitted, reused, inherited>>

Scan ==
    \/ Draw \/ Trigger
    \/ PeekNew \/ PeekNothing \/ PeekFails
    \/ Evaluate \/ TimeOut \/ Restarted

Next == (\E k \in 0..Size - 1 : Hit(k)) \/ Scan

Spec == Init /\ [][Next]_vars

(***************************************************************************)
(* The thread runs and the clock does too: the scan loop, if it looks at   *)
(* the elapsed time again and again, leaves in the end.  Reads do not fail *)
(* forever.  Neither hits nor restarts are owed to the thread.             *)
(***************************************************************************)
FairSpec ==
    /\ Spec
    /\ WF_vars(Draw \/ Trigger \/ Evaluate)
    /\ SF_vars(PeekNew \/ PeekNothing)
    /\ SF_vars(TimeOut)
=============================================================================
