---------------------------- MODULE ThreadQueue ----------------------------
(***************************************************************************)
(* The thread queue of util.c (struct thread_q, tq_push, tq_pop,           *)
(* tq_freeze), through which every thread of the miner hands work to       *)
(* another one, together with the loop of its consumer: a thread pops      *)
(* until it gets NULL or cannot carry out what it got, then freezes its    *)
(* own queue and ends (workio_thread).                                     *)
(*                                                                         *)
(* Every operation holds tq->mutex from its first to its last access, so   *)
(* each is one atomic action, except tq_pop on an empty list:              *)
(* pthread_cond_wait gives the mutex up, and the popper sleeps until a     *)
(* signal wakes it, then competes for the mutex again.  tq_pop waits once, *)
(* without a loop.  Nothing in the program calls tq_thaw.                  *)
(***************************************************************************)
EXTENDS Naturals, Sequences, FiniteSets

CONSTANTS
    Poppers,     \* threads that may call tq_pop on this queue; the program has one
    Timed,       \* those of them that pass an abstime; the program has none
    Data,        \* the commands that are pushed
    Null,        \* the NULL that is pushed to make a popper stop
    MaxPushes    \* bound: number of calls of tq_push

ASSUME QueueAssumption ==
    /\ IsFiniteSet(Poppers)
    /\ Timed \subseteq Poppers
    /\ Null \notin Data
    /\ MaxPushes \in Nat

VARIABLES
    q,           \* tq->q, oldest entry first
    frozen,      \* tq->frozen
    pc,          \* where each popper is: in its loop outside tq_pop, asleep on the
                 \* condition, woken by a signal or roused without one, leaving its
                 \* loop, or gone; or not there at all
    outcome,     \* how each popper's last tq_pop returned
    pushes,      \* calls of tq_push so far
    accepted,    \* history: what tq_push linked into the list
    delivered    \* history: what tq_pop took from the list

vars == <<q, frozen, pc, outcome, pushes, accepted, delivered>>

PopperStates == {"outside", "asleep", "woken", "roused", "leaving", "gone", "absent"}
Outcomes     == {"none", "entry", "order", "failed", "nothing", "spurious", "timedout"}

Entries == Data \cup {Null}

Asleep == {p \in Poppers : pc[p] = "asleep"}
Woken  == {p \in Poppers : pc[p] \in {"woken", "roused"}}

\* tq_new: calloc leaves the list empty and the queue thawed.  Any of the
\* poppers are there, so that a queue with one of them is among those checked.
Init ==
    /\ q = <<>>
    /\ frozen = FALSE
    /\ pc \in [Poppers -> {"outside", "absent"}]
    /\ outcome = [p \in Poppers |-> "none"]
    /\ pushes = 0
    /\ accepted = <<>>
    /\ delivered = <<>>

\* pthread_cond_signal wakes one sleeper, if there is one: where the poppers
\* may be afterwards.
Signalled ==
    IF Asleep = {} THEN {pc}
    ELSE {[pc EXCEPT ![p] = "woken"] : p \in Asleep}

-----------------------------------------------------------------------------
\* Mutants of Push: list_add for list_add_tail; no signal; a signal only for
\* the first entry.
PushAtHead(d) ==
    /\ pushes < MaxPushes
    /\ pushes' = pushes + 1
    /\ IF frozen THEN UNCHANGED <<q, accepted>>
                 ELSE /\ q' = <<d>> \o q
                      /\ accepted' = Append(accepted, d)
    /\ pc' \in Signalled
    /\ UNCHANGED <<frozen, outcome, delivered>>

PushSilently(d) ==
    /\ pushes < MaxPushes
    /\ pushes' = pushes + 1
    /\ IF frozen THEN UNCHANGED <<q, accepted>>
                 ELSE /\ q' = Append(q, d)
                      /\ accepted' = Append(accepted, d)
    /\ UNCHANGED <<frozen, pc, outcome, delivered>>

PushSignalsFirst(d) ==
    /\ pushes < MaxPushes
    /\ pushes' = pushes + 1
    /\ IF frozen THEN UNCHANGED <<q, accepted>>
                 ELSE /\ q' = Append(q, d)
                      /\ accepted' = Append(accepted, d)
    /\ IF q = <<>> THEN pc' \in Signalled ELSE UNCHANGED pc
    /\ UNCHANGED <<frozen, outcome, delivered>>

\* tq_push.  A failing calloc returns before the lock and changes nothing.
Push(d) ==
    /\ pushes < MaxPushes
    /\ pushes' = pushes + 1
    /\ IF frozen THEN UNCHANGED <<q, accepted>>
                 ELSE /\ q' = Append(q, d)
                      /\ accepted' = Append(accepted, d)
    /\ pc' \in Signalled
    /\ UNCHANGED <<frozen, outcome, delivered>>

-----------------------------------------------------------------------------
\* Mutant of Take: the entry is returned and freed, not unlinked.
TakeNoUnlink(p) ==
    /\ delivered' = Append(delivered, Head(q))
    /\ outcome' = [outcome EXCEPT ![p] = IF Head(q) = Null THEN "order" ELSE "entry"]
    /\ pc' = [pc EXCEPT ![p] = IF Head(q) = Null THEN "leaving" ELSE "outside"]
    /\ UNCHANGED q

\* The label "pop:" of tq_pop unlinks the oldest entry and returns it; the
\* caller leaves its loop when that is NULL.
Take(p) ==
    /\ q' = Tail(q)
    /\ delivered' = Append(delivered, Head(q))
    /\ outcome' = [outcome EXCEPT ![p] = IF Head(q) = Null THEN "order" ELSE "entry"]
    /\ pc' = [pc EXCEPT ![p] = IF Head(q) = Null THEN "leaving" ELSE "outside"]

\* tq_pop returns NULL without an entry, which its caller cannot tell from an
\* order to stop.
GiveNull(p, how) ==
    /\ outcome' = [outcome EXCEPT ![p] = how]
    /\ pc' = [pc EXCEPT ![p] = "leaving"]
    /\ UNCHANGED <<q, delivered>>

\* tq_pop finds an entry at once.
PopReady(p) ==
    /\ pc[p] = "outside"
    /\ q # <<>>
    /\ Take(p)
    /\ UNCHANGED <<frozen, pushes, accepted>>

\* tq_pop finds the list empty and waits.
PopWait(p) ==
    /\ pc[p] = "outside"
    /\ q = <<>>
    /\ pc' = [pc EXCEPT ![p] = "asleep"]
    /\ UNCHANGED <<q, frozen, outcome, pushes, accepted, delivered>>

\* POSIX lets pthread_cond_wait return although nobody signalled.
SpuriousWake(p) ==
    /\ pc[p] = "asleep"
    /\ pc' = [pc EXCEPT ![p] = "roused"]
    /\ UNCHANGED <<q, frozen, outcome, pushes, accepted, delivered>>

\* Mutant of PopResume: NULL for whoever had to wait.
PopResumeBlind(p) ==
    /\ p \in Woken
    /\ GiveNull(p, "nothing")
    /\ UNCHANGED <<frozen, pushes, accepted>>

\* The wait returned 0: take an entry if one is there, else return NULL.
PopResume(p) ==
    /\ p \in Woken
    /\ IF q # <<>> THEN Take(p)
       ELSE GiveNull(p, IF pc[p] = "woken" THEN "nothing" ELSE "spurious")
    /\ UNCHANGED <<frozen, pushes, accepted>>

\* pthread_cond_timedwait timed out: NULL, without a look at the list.
PopTimeout(p) ==
    /\ p \in Timed
    /\ pc[p] = "asleep"
    /\ GiveNull(p, "timedout")
    /\ UNCHANGED <<frozen, pushes, accepted>>

Pop(p) == PopReady(p) \/ PopWait(p) \/ PopResume(p)

-----------------------------------------------------------------------------
\* A command cannot be carried out (workio_submit_work returns false): the
\* loop of workio_thread ends with it.
Fail(p) ==
    /\ pc[p] = "outside"
    /\ outcome[p] = "entry"
    /\ pc' = [pc EXCEPT ![p] = "leaving"]
    /\ outcome' = [outcome EXCEPT ![p] = "failed"]
    /\ UNCHANGED <<q, frozen, pushes, accepted, delivered>>

\* tq_freeze, the last call of a thread that has left its loop: later pushes
\* are refused, and what is still linked stays where it is.
Leave(p) ==
    /\ pc[p] = "leaving"
    /\ frozen' = TRUE
    /\ \E woken \in Signalled : pc' = [woken EXCEPT ![p] = "gone"]
    /\ UNCHANGED <<q, outcome, pushes, accepted, delivered>>

Next ==
    \/ \E d \in Entries : Push(d)
    \/ \E p \in Poppers : \/ Pop(p)
                          \/ SpuriousWake(p)
                          \/ PopTimeout(p)
                          \/ Fail(p)
                          \/ Leave(p)

Spec == Init /\ [][Next]_vars

\* A thread that has not left its loop calls tq_pop again and again, and one
\* that has left it freezes its queue and ends: the scheduler runs either
\* whenever the mutex is free, so these steps are weakly fair.  Nothing
\* obliges anybody to push, to fail or to wake a sleeper.
FairSpec == Spec /\ \A p \in Poppers : WF_vars(Pop(p) \/ Leave(p))

=============================================================================
