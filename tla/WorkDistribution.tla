-------------------------- MODULE WorkDistribution --------------------------
(***************************************************************************)
(* How a job of the pool becomes work for the FPGA threads: stratum_thread *)
(* and stratum_gen_work of fpga-miner.c, stratum_notify and its siblings   *)
(* of util.c, and the outer loop of aws_miner_thread.                      *)
(*                                                                         *)
(* Shared state: the session context `stratum' (its job and extranonce2    *)
(* under work_lock), g_work and g_work_time (written by stratum_thread     *)
(* under g_work_lock, read by the FPGA threads without it), and one        *)
(* restart flag per FPGA thread (no lock).  What happens under work_lock   *)
(* is one action; what follows the unlock is another one.                  *)
(*                                                                         *)
(* A header stands for the 80 bytes that are hashed: the job it was built  *)
(* from, the extranonce1 in that job's coinbase and the extranonce2 put    *)
(* into it.  The field n of a job is a ghost, the number of its            *)
(* notification; issued, wrapped and moved are ghosts too.                 *)
(***************************************************************************)
EXTENDS Integers, Sequences

CONSTANTS
    Threads,       \* the FPGA threads, one per slot
    Urls,          \* pools
    Up,            \* the pools that accept connections
    FirstUrl,      \* the --url of the command line
    Xn1,           \* values of extranonce1
    Ids,           \* job ids
    Prevs,         \* hashes of previous blocks
    Diffs,         \* share difficulties
    FirstDiff,     \* the difficulty 1.0 that stratum_subscribe sets
    X2Size,        \* number of values of extranonce2: 256^xnonce2_size
    Retries,       \* opt_retries; -1 retries for ever
    MaxNotifies,   \* bound: number of mining.notify lines
    MaxResets,     \* bound: number of seturl requests
    NoJob, NoWork  \* no job yet; g_work or work before its first use

ASSUME WorkAssumption ==
    /\ FirstUrl \in Urls /\ Up \subseteq Urls
    /\ FirstDiff \in Diffs
    /\ X2Size \in Nat \ {0}
    /\ Retries \in Nat \cup {-1}
    /\ MaxNotifies \in Nat /\ MaxResets \in Nat

VARIABLES
    stratum,    \* where stratum_thread is in its loop
    failures,   \* its local counter of failed connections
    curl,       \* whether stratum.curl is set
    url,        \* stratum.url
    rpcUrl,     \* rpc_url
    needReset,  \* stratum_need_reset
    xn1,        \* stratum.xnonce1
    nextDiff,   \* stratum.next_diff
    job,        \* stratum.job
    x2,         \* stratum.job.xnonce2
    gwork,      \* the header in g_work
    gtime,      \* g_work_time: zero, less than 120 s old, or older
    fpga,       \* where each FPGA thread is
    work,       \* the header in each thread's work
    target,     \* the difficulty behind the target in each thread's work
    restart,    \* work_restart[i].restart
    urlSet,     \* seturl: rpc_url is replaced, the flag is not yet raised
    notifies, resets,        \* counters of the two bounds
    issued,     \* ghost: the keys of the headers built
    pairs,      \* ghost: the extranonce1 and id of the jobs seen
    diffs,      \* ghost: the difficulty of each job seen, in order
    moved,      \* ghost: the job's id was announced for two previous blocks
    wrapped     \* ghost: those whose extranonce2 has overflowed

sessionVars == <<url, rpcUrl, needReset, xn1, nextDiff>>
poolVars    == <<job, notifies, pairs, diffs, moved>>
gworkVars   == <<gwork, gtime>>
fpgaVars    == <<fpga, work, target>>
x2Vars      == <<x2, issued, wrapped>>
apiVars     == <<resets, urlSet>>
vars == <<stratum, failures, curl, sessionVars, apiVars, poolVars, x2Vars,
          gworkVars, fpgaVars, restart>>

StratumPlaces == {"top", "resetting", "flagging", "connecting", "authorizing", "publishing",
                  "timing", "restarting", "receiving", "exited"}
FpgaPlaces == {"waiting", "generating", "targeting", "arming", "mining"}

Jobs    == [n : Nat, id : Ids, prev : Prevs, xn1 : Xn1, diff : Diffs, clean : BOOLEAN]
Headers == [n : Nat, id : Ids, prev : Prevs, xn1 : Xn1, x2 : Nat]

ASSUME NoValueAssumption == NoJob \notin Jobs /\ NoWork \notin Headers

\* What distinguishes the searches of two headers of this pool.
Key(h) == <<h.xn1, h.id, h.x2>>

Init ==
    /\ stratum = "top" /\ failures = 0 /\ curl = FALSE
    /\ url = FirstUrl /\ rpcUrl = FirstUrl /\ needReset = FALSE
    /\ xn1 \in Xn1 /\ nextDiff = FirstDiff
    /\ job = NoJob /\ x2 = 0
    /\ gwork = NoWork /\ gtime = "zero"
    /\ fpga = [t \in Threads |-> "waiting"]
    /\ work = [t \in Threads |-> NoWork]
    /\ target = [t \in Threads |-> FirstDiff]
    /\ restart = [t \in Threads |-> FALSE]
    /\ notifies = 0 /\ resets = 0 /\ urlSet = FALSE
    /\ issued = {} /\ pairs = {} /\ diffs = <<>> /\ wrapped = {} /\ moved = FALSE

-----------------------------------------------------------------------------
(***************************************************************************)
(* stratum_gen_work, the part under work_lock: the caller gets the header  *)
(* of the current job with the current extranonce2, and the job's          *)
(* extranonce2 is incremented, byte by byte with carry, for the next one.  *)
(***************************************************************************)
Header == [n |-> job.n, id |-> job.id, prev |-> job.prev, xn1 |-> job.xn1, x2 |-> x2]

Issue ==
    /\ issued' = issued \cup {Key(Header)}
    /\ wrapped' = IF x2 + 1 = X2Size THEN wrapped \cup {<<job.xn1, job.id>>}
                                     ELSE wrapped

\* Mutants of TakeX2: the job's extranonce2 stays; it never wraps.
TakeX2NoIncrement == Issue /\ UNCHANGED x2
TakeX2NoWrap      == Issue /\ x2' = x2 + 1

TakeX2 == Issue /\ x2' = IF x2 + 1 = X2Size THEN 0 ELSE x2 + 1

-----------------------------------------------------------------------------
(***************************************************************************)
(* stratum_thread: the head of the loop and the connection.                *)
(***************************************************************************)

\* seturl of the API thread: rpc_url is replaced,
SetUrl(u) ==
    /\ resets < MaxResets /\ ~urlSet
    /\ resets' = resets + 1
    /\ rpcUrl' = u
    /\ urlSet' = TRUE
    /\ UNCHANGED <<stratum, failures, curl, url, needReset, xn1, nextDiff, poolVars,
                   x2Vars, gworkVars, fpgaVars, restart>>

\* Mutant of RaiseReset: a url that is in use already needs no reset.
RaiseResetUnlessSame ==
    /\ urlSet
    /\ urlSet' = FALSE
    /\ needReset' = (needReset \/ rpcUrl # url)
    /\ UNCHANGED <<stratum, failures, curl, url, rpcUrl, xn1, nextDiff, resets,
                   poolVars, x2Vars, gworkVars, fpgaVars, restart>>

\* then the flag is raised.
RaiseReset ==
    /\ urlSet
    /\ urlSet' = FALSE
    /\ needReset' = TRUE
    /\ UNCHANGED <<stratum, failures, curl, url, rpcUrl, xn1, nextDiff, resets,
                   poolVars, x2Vars, gworkVars, fpgaVars, restart>>

\* The head of the outer loop, while stratum_need_reset is raised: the flag is
\* lowered first, and the connection is dropped.
Reset ==
    /\ stratum = "top"
    /\ needReset
    /\ needReset' = FALSE
    /\ curl' = FALSE
    /\ stratum' = "resetting"
    /\ failures' = 0
    /\ UNCHANGED <<url, rpcUrl, xn1, nextDiff, apiVars, poolVars, x2Vars, gworkVars,
                   fpgaVars, restart>>

\* Mutant of TakeUrl: stratum.url stays.
TakeUrlNever ==
    /\ stratum = "resetting"
    /\ stratum' = "flagging"
    /\ UNCHANGED <<failures, curl, sessionVars, apiVars, poolVars, x2Vars,
                   gworkVars, fpgaVars, restart>>

\* Then rpc_url is compared with stratum.url, and copied.
TakeUrl ==
    /\ stratum = "resetting"
    /\ url' = rpcUrl
    /\ stratum' = "flagging"
    /\ UNCHANGED <<failures, curl, rpcUrl, needReset, xn1, nextDiff, apiVars,
                   poolVars, x2Vars, gworkVars, fpgaVars, restart>>

\* The head of the outer loop otherwise: connect if there is no connection.
Top ==
    /\ stratum = "top"
    /\ ~needReset
    /\ stratum' = IF curl THEN "publishing" ELSE "flagging"
    /\ failures' = 0
    /\ UNCHANGED <<curl, sessionVars, apiVars, poolVars, x2Vars, gworkVars,
                   fpgaVars, restart>>

\* Head of the connection loop: g_work_time = 0, then restart_threads.
ZeroTime ==
    /\ stratum = "flagging"
    /\ gtime' = "zero"
    /\ restart' = [t \in Threads |-> TRUE]
    /\ stratum' = "connecting"
    /\ UNCHANGED <<failures, curl, sessionVars, apiVars, poolVars, x2Vars, gwork,
                   fpgaVars>>

\* stratum_connect and stratum_subscribe succeed: a new session.
Connect(x) ==
    /\ stratum = "connecting"
    /\ url \in Up
    /\ curl' = TRUE
    /\ xn1' = x
    /\ nextDiff' = FirstDiff
    /\ stratum' = "authorizing"
    /\ UNCHANGED <<failures, url, rpcUrl, needReset, apiVars, poolVars, x2Vars,
                   gworkVars, fpgaVars, restart>>

\* stratum_connect, stratum_subscribe or stratum_authorize failed: disconnect,
\* then give up (and tell workio to stop) or pause and try again.  A
\* client.reconnect that stratum_authorize handles replaces the url and closes
\* the connection: it fails in waiting for its answer, or, when the line came in
\* place of the extranonce answer, succeeds without a connection, which counts
\* as no failure.
ConnectionFails ==
    /\ stratum \in {"connecting", "authorizing"}
    /\ curl' = FALSE
    /\ \/ /\ Retries >= 0 /\ failures + 1 > Retries
          /\ stratum' = "exited"
          /\ UNCHANGED failures
       \/ /\ ~(Retries >= 0 /\ failures + 1 > Retries)
          /\ stratum' = "flagging"
          /\ failures' = IF Retries >= 0 THEN failures + 1 ELSE failures
       \/ /\ stratum = "authorizing"
          /\ stratum' = "flagging"
          /\ UNCHANGED failures
    /\ url' \in IF stratum = "authorizing" THEN Urls ELSE {url}
    /\ \/ UNCHANGED nextDiff
       \/ /\ stratum = "connecting"   \* subscribed, but to no extranonce
          /\ nextDiff' = FirstDiff
    /\ UNCHANGED <<rpcUrl, needReset, xn1, apiVars, poolVars, x2Vars,
                   gworkVars, fpgaVars, restart>>

Authorize ==
    /\ stratum = "authorizing"
    /\ stratum' = "publishing"
    /\ UNCHANGED <<failures, curl, sessionVars, apiVars, poolVars, x2Vars,
                   gworkVars, fpgaVars, restart>>

-----------------------------------------------------------------------------
(***************************************************************************)
(* stratum_thread: publishing the job as g_work.                           *)
(***************************************************************************)

\* Whether g_work has to be generated again: there is a job, and g_work was
\* declared void or stems from a job with another id.
JobIsNewVoidOnly == job # NoJob /\ gtime = "zero"

JobIsNew == job # NoJob /\ (gtime # "zero" => job.id # gwork.id)

NothingNew ==
    /\ stratum = "publishing"
    /\ ~JobIsNew
    /\ stratum' = "receiving"
    /\ UNCHANGED <<failures, curl, sessionVars, apiVars, poolVars, x2Vars,
                   gworkVars, fpgaVars, restart>>

\* stratum_gen_work(&stratum, &g_work), which uses up one extranonce2.
Publish ==
    /\ stratum = "publishing"
    /\ JobIsNew
    /\ gwork' = Header
    /\ TakeX2
    /\ stratum' = "timing"
    /\ UNCHANGED <<failures, curl, sessionVars, apiVars, poolVars, gtime,
                   fpgaVars, restart>>

\* time(&g_work_time) opens the gate for the FPGA threads.
StampTime ==
    /\ stratum = "timing"
    /\ gtime' = "fresh"
    /\ stratum' = IF job.clean THEN "restarting" ELSE "receiving"
    /\ UNCHANGED <<failures, curl, sessionVars, apiVars, poolVars, x2Vars, gwork,
                   fpgaVars, restart>>

RestartThreads ==
    /\ stratum = "restarting"
    /\ restart' = [t \in Threads |-> TRUE]
    /\ stratum' = "receiving"
    /\ UNCHANGED <<failures, curl, sessionVars, apiVars, poolVars, x2Vars,
                   gworkVars, fpgaVars>>

\* 120 seconds have passed since g_work_time.
Age ==
    /\ gtime = "fresh"
    /\ gtime' = "old"
    /\ UNCHANGED <<stratum, failures, curl, sessionVars, apiVars, poolVars, x2Vars,
                   gwork, fpgaVars, restart>>

-----------------------------------------------------------------------------
(***************************************************************************)
(* stratum_thread: one line of the pool.  stratum_authorize handles method *)
(* lines too, while it waits for its answer.                               *)
(***************************************************************************)
Listening == stratum \in {"authorizing", "receiving"}

\* Back to the head of the loop; stratum_authorize goes on waiting instead.
LineHandled == stratum' = IF stratum = "receiving" THEN "top" ELSE stratum

\* mining.notify.  A pool announces either its current job again, be it for
\* the same previous block or another one, or a job under an id it has not yet
\* used with this extranonce1.  Only another id resets extranonce2.
JobLine(i, p, c) ==
    LET again == job # NoJob /\ i = job.id IN
    /\ notifies < MaxNotifies
    /\ IF again THEN <<xn1, i>> \in pairs => xn1 = job.xn1
                ELSE <<xn1, i>> \notin pairs
    /\ job' = [n |-> notifies + 1, id |-> i, prev |-> p, xn1 |-> xn1,
               diff |-> nextDiff, clean |-> c]
    /\ moved' = (again /\ (moved \/ p # job.prev))
    /\ notifies' = notifies + 1
    /\ pairs' = pairs \cup {<<xn1, i>>}
    /\ diffs' = Append(diffs, nextDiff)
    /\ UNCHANGED <<issued, wrapped>>

\* Mutant of ResetX2: every notification starts from zero.
ResetX2Always(i) == x2' = 0

ResetX2(i) == x2' = IF job = NoJob \/ job.id # i THEN 0 ELSE x2

Notify(i, p, c) ==
    /\ Listening
    /\ JobLine(i, p, c)
    /\ ResetX2(i)
    /\ LineHandled
    /\ UNCHANGED <<failures, curl, sessionVars, apiVars, gworkVars, fpgaVars, restart>>

\* mining.set_difficulty: from the next job on.
SetDifficulty(d) ==
    /\ Listening
    /\ nextDiff' = d
    /\ LineHandled
    /\ UNCHANGED <<failures, curl, url, rpcUrl, needReset, xn1, apiVars, poolVars,
                   x2Vars, gworkVars, fpgaVars, restart>>

\* mining.set_extranonce with the size unchanged: from the next job on.
SetExtranonce(x) ==
    /\ Listening
    /\ xn1' = x
    /\ LineHandled
    /\ UNCHANGED <<failures, curl, url, rpcUrl, needReset, nextDiff, apiVars,
                   poolVars, x2Vars, gworkVars, fpgaVars, restart>>

\* Any other line: an answer, a ping, a question.
OtherLine ==
    /\ stratum = "receiving"
    /\ stratum' = "top"
    /\ UNCHANGED <<failures, curl, sessionVars, apiVars, poolVars, x2Vars,
                   gworkVars, fpgaVars, restart>>

\* Mutant of Disconnect: the job goes with the connection.
DisconnectDropsJob(u) ==
    /\ stratum = "receiving"
    /\ curl' = FALSE
    /\ url' = u
    /\ stratum' = "top"
    /\ job' = NoJob /\ moved' = FALSE
    /\ UNCHANGED <<failures, rpcUrl, needReset, xn1, nextDiff, apiVars, notifies,
                   pairs, diffs, x2Vars, gworkVars, fpgaVars, restart>>

\* The connection ends: no line within opt_timeout, end of file, an error, or
\* client.reconnect, which may name another pool.
Disconnect(u) ==
    /\ stratum = "receiving"
    /\ curl' = FALSE
    /\ url' = u
    /\ stratum' = "top"
    /\ UNCHANGED <<failures, rpcUrl, needReset, xn1, nextDiff, apiVars, poolVars,
                   x2Vars, gworkVars, fpgaVars, restart>>

-----------------------------------------------------------------------------
(***************************************************************************)
(* aws_miner_thread: from one work to the next.                            *)
(***************************************************************************)

\* The gate: g_work_time, read without its lock, is less than 120 s old.
FindFresh(t) ==
    /\ fpga[t] = "waiting"
    /\ gtime = "fresh"
    /\ fpga' = [fpga EXCEPT ![t] = "generating"]
    /\ UNCHANGED <<stratum, failures, curl, sessionVars, apiVars, poolVars, x2Vars,
                   gworkVars, work, target, restart>>

\* stratum_gen_work(&stratum, &work) up to the unlock.
Generate(t) ==
    /\ fpga[t] = "generating"
    /\ job # NoJob
    /\ work' = [work EXCEPT ![t] = Header]
    /\ TakeX2
    /\ fpga' = [fpga EXCEPT ![t] = "targeting"]
    /\ UNCHANGED <<stratum, failures, curl, sessionVars, apiVars, poolVars,
                   gworkVars, target, restart>>

\* Mutant of SetTarget: the difficulty of the next job applies at once.
SetTargetFromNext(t) ==
    /\ fpga[t] = "targeting"
    /\ target' = [target EXCEPT ![t] = nextDiff]
    /\ fpga' = [fpga EXCEPT ![t] = "arming"]
    /\ UNCHANGED <<stratum, failures, curl, sessionVars, apiVars, poolVars, x2Vars,
                   gworkVars, work, restart>>

\* The rest of stratum_gen_work: work_set_target reads the job's difficulty
\* after the unlock.
SetTarget(t) ==
    /\ fpga[t] = "targeting"
    /\ target' = [target EXCEPT ![t] = job.diff]
    /\ fpga' = [fpga EXCEPT ![t] = "arming"]
    /\ UNCHANGED <<stratum, failures, curl, sessionVars, apiVars, poolVars, x2Vars,
                   gworkVars, work, restart>>

\* work_restart[thr_id].restart = 0, only now: a restart requested since the
\* header was generated is forgotten.
ClearRestart(t) ==
    /\ fpga[t] = "arming"
    /\ restart' = [restart EXCEPT ![t] = FALSE]
    /\ fpga' = [fpga EXCEPT ![t] = "mining"]
    /\ UNCHANGED <<stratum, failures, curl, sessionVars, apiVars, poolVars, x2Vars,
                   gworkVars, work, target>>

\* The scan loop ends because the thread was restarted.
LeaveOnRestart(t) ==
    /\ fpga[t] = "mining"
    /\ restart[t]
    /\ fpga' = [fpga EXCEPT ![t] = "waiting"]
    /\ UNCHANGED <<stratum, failures, curl, sessionVars, apiVars, poolVars, x2Vars,
                   gworkVars, work, target, restart>>

\* Mutant of LeaveOnTimeout: a thread that has fresh work scans on.
LeaveOnTimeoutWhenOld(t) ==
    /\ fpga[t] = "mining"
    /\ gtime # "fresh"
    /\ fpga' = [fpga EXCEPT ![t] = "waiting"]
    /\ UNCHANGED <<stratum, failures, curl, sessionVars, apiVars, poolVars, x2Vars,
                   gworkVars, work, target, restart>>

\* The scan loop ends because opt_scantime has passed and no nonce came up.
LeaveOnTimeout(t) ==
    /\ fpga[t] = "mining"
    /\ fpga' = [fpga EXCEPT ![t] = "waiting"]
    /\ UNCHANGED <<stratum, failures, curl, sessionVars, apiVars, poolVars, x2Vars,
                   gworkVars, work, target, restart>>

-----------------------------------------------------------------------------
StratumStep ==
    \/ Reset \/ TakeUrl \/ Top \/ ZeroTime
    \/ \E x \in Xn1 : Connect(x)
    \/ ConnectionFails \/ Authorize
    \/ NothingNew \/ Publish \/ StampTime \/ RestartThreads
    \/ \E i \in Ids, p \in Prevs, c \in BOOLEAN : Notify(i, p, c)
    \/ \E d \in Diffs : SetDifficulty(d)
    \/ \E x \in Xn1 : SetExtranonce(x)
    \/ OtherLine
    \/ \E u \in Urls : Disconnect(u)

FpgaStep(t) ==
    \/ FindFresh(t) \/ Generate(t) \/ SetTarget(t) \/ ClearRestart(t)
    \/ LeaveOnRestart(t) \/ LeaveOnTimeout(t)

Next ==
    \/ StratumStep
    \/ \E u \in Urls : SetUrl(u)
    \/ RaiseReset
    \/ Age
    \/ \E t \in Threads : FpgaStep(t)

Spec == Init /\ [][Next]_vars

(***************************************************************************)
(* Threads run (weak fairness); stratum_thread's wait for a line ends, if  *)
(* only by opt_timeout; a pool that accepts connections accepts one in the *)
(* end (strong fairness).  Pools need not send anything.                   *)
(***************************************************************************)
FairSpec ==
    /\ Spec
    /\ WF_vars(StratumStep)
    /\ SF_vars(\E x \in Xn1 : Connect(x))
    /\ SF_vars(Authorize)
    /\ \A t \in Threads : WF_vars(FpgaStep(t))

=============================================================================
