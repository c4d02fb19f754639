-------------------------- MODULE ThreadQueueProps --------------------------
(***************************************************************************)
(* The properties of the thread queue of util.c.                           *)
(***************************************************************************)
EXTENDS ThreadQueue

\* Every variable of the queue has its type.
TypeOK ==
    /\ q \in Seq(Entries)
    /\ frozen \in BOOLEAN
    /\ pc \in [Poppers -> PopperStates]
    /\ outcome \in [Poppers -> Outcomes]
    /\ pushes \in Nat
    /\ accepted \in Seq(Entries)
    /\ delivered \in Seq(Entries)

\* Nothing is lost, duplicated or overtaken between tq_push and tq_pop, however
\* poppers steal entries from woken ones: what was handed out, followed by what
\* is still linked, is what was accepted.
FifoOrder == accepted = delivered \o q

\* No lost wakeup: while an entry waits and a popper sleeps on the condition,
\* there are at least as many woken poppers as waiting entries, so tq_pop's
\* single wait, and pthread_cond_signal instead of a broadcast, strand nobody.
NoLostWakeup ==
    q # <<>> /\ Asleep # {} => Len(q) <= Cardinality(Woken)

\* Every entry that tq_push accepted is eventually popped, unless every thread
\* that pops this queue has come to its end (or there is none).
EveryEntryDelivered ==
    \A n \in 1..MaxPushes :
        Len(accepted) >= n ~> \/ Len(delivered) >= n
                              \/ \A p \in Poppers : pc[p] \in {"gone", "absent"}

\* Nobody else pops this queue.
Alone(p) == \A r \in Poppers \ {p} : pc[r] = "absent"

\* A thread that alone pops its queue, as each of the miner's threads does, stops
\* because a NULL was pushed, which it has popped behind everything accepted
\* before, or because a command failed; otherwise its wait has timed out or has
\* returned without a signal.  No signal wakes it to an empty list, though tq_pop
\* waits once, and tq_freeze signals as well.
StopsOnlyWhenAsked ==
    \A p \in Poppers :
        Alone(p) /\ pc[p] \in {"leaving", "gone"} =>
            \/ outcome[p] \in {"failed", "timedout", "spurious"}
            \/ outcome[p] = "order" /\ delivered[Len(delivered)] = Null

\* The queue implements the FIFO channel.
Channel == INSTANCE FifoChannel WITH
    Data <- Entries, sent <- accepted, received <- delivered
ImplementsChannel == Channel!ChannelSpec
=============================================================================
