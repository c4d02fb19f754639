----------------------------- MODULE ShareFlow -----------------------------
(***************************************************************************)
(* The way of a share: submit_work of an FPGA thread, the queue of the     *)
(* workio thread, and workio_thread, workio_submit_work and                *)
(* submit_upstream_work of fpga-miner.c.  Composed with the distribution   *)
(* of work, whose threads find the shares, whose g_work the stale check    *)
(* reads and whose connection the shares are sent on.                      *)
(*                                                                         *)
(* A share is the previous block of the header it was found for and, as a  *)
(* ghost, its number in the order of finding.  The queue is the one of     *)
(* module ThreadQueue, used here by the FIFO channel it implements.        *)
(***************************************************************************)
EXTENDS WorkDistribution

CONSTANTS
    MaxShares,   \* bound: number of shares found
    Stop,        \* the NULL that stratum_thread pushes when it gives up
    NoShare      \* workio_thread holds no share

ASSUME FlowAssumption == MaxShares \in Nat

VARIABLES
    queue,     \* the queue of the workio thread, oldest entry first
    workio,    \* where workio_thread is
    held,      \* the share it works on
    tries,     \* failures of workio_submit_work
    found,     \* number of shares found
    sent,      \* ghost: the shares sent, in order
    stale,     \* ghost: the shares discarded as stale
    refused,   \* ghost: the shares a frozen queue refused
    lost       \* ghost: the share that workio_thread gave up on, if any

shareVars == <<queue, workio, held, tries, found, sent, stale, refused, lost>>
flowVars  == <<vars, shareVars>>

WorkioPlaces == {"popping", "checking", "sending", "pausing", "leaving", "stopped"}

Shares == [n : Nat, prev : Prevs]

ASSUME NoShareAssumption == NoShare \notin Shares /\ Stop \notin Shares

FlowInit ==
    /\ Init
    /\ queue = <<>> /\ workio = "popping" /\ held = NoShare /\ tries = 0
    /\ found = 0 /\ sent = <<>> /\ stale = {} /\ refused = {} /\ lost = {}

\* The last thing that workio_thread does is to call tq_freeze on its queue.
Frozen == workio = "stopped"

-----------------------------------------------------------------------------
(***************************************************************************)
(* A step of the distribution of work.  stratum_thread pushes NULL to the  *)
(* workio thread when it exits.                                            *)
(***************************************************************************)
GivesUp == stratum # "exited" /\ stratum' = "exited"

\* Mutant of PushStop: stratum_thread exits in silence.
PushStopNever == UNCHANGED queue

PushStop ==
    queue' = IF GivesUp /\ ~Frozen THEN Append(queue, Stop) ELSE queue

Along ==
    /\ PushStop
    /\ UNCHANGED <<workio, held, tries, found, sent, stale, refused, lost>>

Distribute == Next /\ Along

\* aws_miner_thread found a nonce that solves its work: submit_work copies the
\* work and queues it, unless the queue is frozen.
Find(t) ==
    LET share == [n |-> found + 1, prev |-> work[t].prev] IN
    /\ found < MaxShares
    /\ fpga[t] = "mining"
    /\ found' = found + 1
    /\ IF Frozen
       THEN refused' = refused \cup {share} /\ UNCHANGED queue
       ELSE queue' = Append(queue, share) /\ UNCHANGED refused
    /\ UNCHANGED <<vars, workio, held, tries, sent, stale, lost>>

-----------------------------------------------------------------------------
(***************************************************************************)
(* workio_thread.                                                          *)
(***************************************************************************)
PopShare ==
    /\ workio = "popping"
    /\ queue # <<>> /\ Head(queue) # Stop
    /\ queue' = Tail(queue)
    /\ held' = Head(queue)
    /\ tries' = 0
    /\ workio' = "checking"
    /\ UNCHANGED <<vars, found, sent, stale, refused, lost>>

\* NULL: leave the loop.
PopStop ==
    /\ workio = "popping"
    /\ queue # <<>> /\ Head(queue) = Stop
    /\ queue' = Tail(queue)
    /\ workio' = "leaving"
    /\ UNCHANGED <<vars, held, tries, found, sent, stale, refused, lost>>

\* stratum_gen_work is rewriting g_work.data (it zeroes all of it first) while
\* submit_upstream_work, which takes no lock, compares with it.
Rewriting == stratum = "publishing" /\ JobIsNew

\* The outcomes the comparison with g_work's previous block can have.
LooksCurrent == held.prev = gwork.prev \/ (Rewriting /\ held.prev = job.prev)
LooksStale   == held.prev # gwork.prev \/ Rewriting

\* Mutant of Discard: the share discarded is not freed.
DiscardKeepsShare ==
    /\ workio = "checking"
    /\ LooksStale
    /\ stale' = stale \cup {held}
    /\ workio' = "popping"
    /\ UNCHANGED <<vars, queue, held, tries, found, sent, refused, lost>>

\* submit_upstream_work discards a stale share and reports success.
Discard ==
    /\ workio = "checking"
    /\ LooksStale
    /\ stale' = stale \cup {held}
    /\ held' = NoShare
    /\ workio' = "popping"
    /\ UNCHANGED <<vars, queue, tries, found, sent, refused, lost>>

PassCheck ==
    /\ workio = "checking"
    /\ LooksCurrent
    /\ workio' = "sending"
    /\ UNCHANGED <<vars, queue, held, tries, found, sent, stale, refused, lost>>

\* stratum_send_line works from stratum_connect to stratum_disconnect, be the
\* session subscribed and authorised or not.
SocketOpen == curl \/ stratum = "connecting"

SendWorks ==
    /\ workio = "sending"
    /\ SocketOpen
    /\ sent' = Append(sent, held)
    /\ held' = NoShare
    /\ workio' = "popping"
    /\ UNCHANGED <<vars, queue, tries, found, stale, refused, lost>>

\* Mutant of SendFails: the share goes back to the queue.
SendFailsRequeue ==
    /\ workio = "sending"
    /\ queue' = Append(queue, held)
    /\ held' = NoShare
    /\ workio' = "popping"
    /\ UNCHANGED <<vars, tries, found, sent, stale, refused, lost>>

\* The socket is closed or its buffer is full: pause, or, after opt_retries
\* failures, free the share and leave the loop.
SendFails ==
    /\ workio = "sending"
    /\ IF Retries >= 0 /\ tries + 1 > Retries
       THEN /\ workio' = "leaving"
            /\ lost' = lost \cup {held}
            /\ held' = NoShare
            /\ UNCHANGED tries
       ELSE /\ workio' = "pausing"
            /\ tries' = IF Retries >= 0 THEN tries + 1 ELSE tries
            /\ UNCHANGED <<held, lost>>
    /\ UNCHANGED <<vars, queue, found, sent, stale, refused>>

\* Mutant of Resume: the retry is left to the loop of workio_thread.
ResumeAtLoopHead ==
    /\ workio = "pausing"
    /\ workio' = "popping"
    /\ UNCHANGED <<vars, queue, held, tries, found, sent, stale, refused, lost>>

\* opt_fail_pause is over: submit_upstream_work starts again with its check.
Resume ==
    /\ workio = "pausing"
    /\ workio' = "checking"
    /\ UNCHANGED <<vars, queue, held, tries, found, sent, stale, refused, lost>>

\* Behind the loop: tq_freeze.  What is still queued, and what was queued since
\* the loop was left, is never popped; main ends the process.
Freeze ==
    /\ workio = "leaving"
    /\ workio' = "stopped"
    /\ UNCHANGED <<vars, queue, held, tries, found, sent, stale, refused, lost>>

WorkioStep ==
    \/ PopShare \/ PopStop
    \/ Discard \/ PassCheck
    \/ SendWorks \/ SendFails \/ Resume \/ Freeze

FlowNext ==
    \/ Distribute
    \/ \E t \in Threads : Find(t)
    \/ WorkioStep

FlowSpec == FlowInit /\ [][FlowNext]_flowVars

(***************************************************************************)
(* Threads run; a socket that is open whenever a share is to be sent takes *)
(* one in the end.                                                         *)
(***************************************************************************)
FlowFairSpec ==
    /\ FlowSpec
    /\ WF_flowVars(StratumStep /\ Along)
    /\ \A t \in Threads : WF_flowVars(FpgaStep(t) /\ Along)
    /\ WF_flowVars(WorkioStep)
    /\ SF_flowVars(SendWorks)
=============================================================================
