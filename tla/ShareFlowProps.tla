-------------------------- MODULE ShareFlowProps --------------------------
(***************************************************************************)
(* What the way of the shares has to guarantee.                            *)
(***************************************************************************)
EXTENDS ShareFlow

Numbers(S)  == {s.n : s \in S}
Ended       == workio \in {"leaving", "stopped"}
InQueue     == {queue[i] : i \in 1..Len(queue)} \ {Stop}
SentNumbers == [i \in 1..Len(sent) |-> sent[i].n]

\* The shares that are on their way, and those that will not come through:
\* when workio_thread has left its loop, the queued ones too.
Pending == IF Ended THEN {}
           ELSE Numbers(InQueue) \cup (IF held = NoShare THEN {} ELSE {held.n})
Gone    == Numbers(stale) \cup Numbers(refused) \cup Numbers(lost)
               \cup (IF Ended THEN Numbers(InQueue) ELSE {})

Life == INSTANCE ShareLife WITH
            pending <- Pending, passed <- SentNumbers, dropped <- Gone,
            last <- found, over <- Ended

\* Every variable has its type, and workio_thread holds a share while, and only
\* while, it is at work on one.
FlowTypeOK ==
    /\ queue \in Seq(Shares \cup {Stop})
    /\ workio \in WorkioPlaces
    /\ held \in Shares \cup {NoShare}
    /\ held # NoShare <=> workio \in {"checking", "sending", "pausing"}
    /\ tries \in Nat /\ found \in Nat
    /\ sent \in Seq(Shares)
    /\ stale \subseteq Shares /\ refused \subseteq Shares /\ lost \subseteq Shares

\* Until workio_thread leaves its loop, no share is lost, sent twice, or
\* overtaken by a later one, through retries, disconnects and the end of
\* stratum_thread; one that has been sent is never counted as lost.  When it
\* leaves, what it could not send and what is still queued goes with the process.
ImplementsShareLife == Life!LifeSpec

\* The stale check compares with g_work, which follows the job with a delay.
\* A share of the current block is discarded only within that delay: before
\* stratum_thread has published the job, never once it waits for the next line;
\* unless the pool has announced the job's id for two previous blocks.
FreshShareLostOnlyBeforePublication ==
    [][\A s \in stale' \ stale :
          s.prev = job.prev /\ ~moved
              => stratum \notin {"timing", "restarting", "receiving"}]_flowVars

\* When stratum_thread gives up, workio_thread works off what was queued before
\* and stops, connection or not, and with it the process.
GivingUpEndsTheProcess == stratum = "exited" ~> workio = "stopped"

\* If the connection holds in the end, every share is sent or discarded, or
\* workio_thread has ended.
EveryShareIsSettled ==
    <>[]curl => \A k \in 1..MaxShares :
        k \in Pending ~> k \in Numbers({sent[i] : i \in 1..Len(sent)} \cup stale) \/ Ended
=============================================================================
