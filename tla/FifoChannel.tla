---------------------------- MODULE FifoChannel ----------------------------
(***************************************************************************)
(* What a thread queue promises its users: entries come out in the order   *)
(* in which they were accepted, each one once.  The channel says nothing   *)
(* of threads, locks or sleeping: it is the specification ThreadQueue is   *)
(* shown to implement.                                                     *)
(***************************************************************************)
EXTENDS Naturals, Sequences

CONSTANT Data

VARIABLES sent,      \* every entry accepted so far, oldest first
          received   \* every entry handed out so far, oldest first

chvars == <<sent, received>>

ChannelInit ==
    /\ sent = <<>>
    /\ received = <<>>

Send(d) ==
    /\ sent' = Append(sent, d)
    /\ UNCHANGED received

Receive ==
    /\ Len(received) < Len(sent)
    /\ received' = Append(received, sent[Len(received) + 1])
    /\ UNCHANGED sent

ChannelNext ==
    \/ \E d \in Data : Send(d)
    \/ Receive

ChannelSpec == ChannelInit /\ [][ChannelNext]_chvars
=============================================================================
