------------------------ MODULE WorkDistributionProps ------------------------
(***************************************************************************)
(* What the distribution of work has to guarantee.                         *)
(***************************************************************************)
EXTENDS WorkDistribution

\* Every variable has its type; extranonce2 stays inside its bytes.
TypeOK ==
    /\ stratum \in StratumPlaces /\ failures \in Nat /\ curl \in BOOLEAN
    /\ url \in Urls /\ rpcUrl \in Urls /\ needReset \in BOOLEAN
    /\ xn1 \in Xn1 /\ nextDiff \in Diffs
    /\ job \in Jobs \cup {NoJob}
    /\ x2 \in 0..X2Size - 1
    /\ gwork \in Headers \cup {NoWork} /\ gtime \in {"zero", "fresh", "old"}
    /\ fpga \in [Threads -> FpgaPlaces]
    /\ work \in [Threads -> Headers \cup {NoWork}]
    /\ target \in [Threads -> Diffs]
    /\ restart \in [Threads -> BOOLEAN]
    /\ notifies \in Nat /\ resets \in Nat /\ urlSet \in BOOLEAN
    /\ issued \subseteq Xn1 \X Ids \X Nat /\ pairs \subseteq Xn1 \X Ids
    /\ wrapped \subseteq pairs /\ diffs \in Seq(Diffs)
    /\ moved \in BOOLEAN

\* A thread that holds a header of its own and has not given it up.
Busy(t) == fpga[t] \in {"targeting", "arming", "mining"}

\* The extranonce2 of the job behind header h has overflowed.
Overflowed(h) == <<h.xn1, h.id>> \in wrapped

\* No two FPGAs search the same nonces of the same header, although all of
\* them draw their headers from one job and run unsynchronised: unless one
\* job's extranonce2 has overflowed, their headers differ.
NoTwoFpgasShareWork ==
    \A s, t \in Threads :
        s # t /\ Busy(s) /\ Busy(t) /\ Key(work[s]) = Key(work[t])
            => Overflowed(work[s])

\* No FPGA is ever given a header that was generated before, by any thread,
\* in this or an earlier connection: a job announced again continues with its
\* extranonce2, and only an overflow repeats one.
EveryWorkIsNew ==
    [][\A t \in Threads :
          fpga[t] = "generating" /\ fpga'[t] = "targeting"
             => Key(work'[t]) \notin issued \/ Overflowed(work'[t])]_vars

\* stratum_gen_work never runs without a job (it would copy a null job id), in
\* whatever order disconnects and the threads' unlocked reads of g_work_time
\* come: an open gate means that a job has been there ever since.
JobBeforeWork ==
    /\ \A t \in Threads : fpga[t] \in {"generating", "targeting"} => job # NoJob
    /\ gtime # "zero" => gwork # NoWork

\* The difficulty of a thread's target is read after the job was unlocked, so
\* it may be a later job's; but it is the difficulty of a job the pool has
\* announced since the one that the header is from, or of that one.
TargetOfSomeJobSince ==
    \A t \in Threads : fpga[t] \in {"arming", "mining"} =>
        \E k \in work[t].n..Len(diffs) : diffs[k] = target[t]

\* While stratum_thread waits for the next line, the previous block in g_work,
\* by which submit_upstream_work tells stale shares, is that of the job that
\* the FPGA threads are drawing from: unless the pool has announced the job's id
\* for two previous blocks, since g_work is only rewritten for another id.
PublishedIsCurrent ==
    stratum = "receiving" /\ job # NoJob =>
        /\ gwork # NoWork /\ gwork.id = job.id
        /\ moved \/ gwork.prev = job.prev

\* A restart request may be lost between the generation of a header and the
\* clearing of the flag.  A thread that lost it still comes to mine a job later
\* than the k-th once such a job is published, unless g_work_time runs out
\* first: the timeout of the scan loop makes up for the lost restart.
EveryThreadMovesOn ==
    \A t \in Threads, k \in 1..MaxNotifies - 1 :
        fpga[t] = "mining" /\ work[t].n <= k /\ gwork # NoWork /\ gwork.n > k
            ~> (fpga[t] = "mining" /\ work[t].n > k) \/ gtime # "fresh"
=============================================================================
