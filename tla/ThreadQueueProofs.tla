------------------------- MODULE ThreadQueueProofs -------------------------
(***************************************************************************)
(* Proofs about the thread queue, for any set of poppers, any entries and  *)
(* any number of pushes: its types, that no entry is lost, duplicated or   *)
(* overtaken, that it implements the FIFO channel, that no wakeup is lost, *)
(* and that a thread that alone pops its queue stops only when asked to.   *)
(***************************************************************************)
EXTENDS ThreadQueueProps, SequenceTheorems, FiniteSetTheorems, TLAPS

\* A signal changes nothing but the place of one sleeper.
LEMMA SignalType ==
    ASSUME pc \in [Poppers -> PopperStates], NEW places \in Signalled
    PROVE  places \in [Poppers -> PopperStates]
<1>1. CASE Asleep = {}
  BY <1>1 DEF Signalled
<1>2. CASE Asleep # {}
  <2>1. PICK p \in Asleep : places = [pc EXCEPT ![p] = "woken"]
    BY <1>2 DEF Signalled
  <2>. QED
    BY <2>1 DEF PopperStates
<1>. QED
  BY <1>1, <1>2

\* Moving the head of a queue behind a sequence leaves their concatenation.
LEMMA MoveHead ==
    ASSUME NEW S, NEW s \in Seq(S), NEW t \in Seq(S), t # <<>>
    PROVE  /\ Append(s, Head(t)) \o Tail(t) = s \o t
           /\ Append(s, Head(t)) \in Seq(S)
           /\ Tail(t) \in Seq(S)
<1>1. Head(t) \in S /\ Tail(t) \in Seq(S) /\ <<Head(t)>> \in Seq(S)
  BY HeadTailProperties
<1>2. Append(s, Head(t)) = s \o <<Head(t)>>
  BY <1>1
<1>3. <<Head(t)>> \o Tail(t) = t
  BY <1>1
<1>. QED
  BY <1>1, <1>2, <1>3, ConcatAssociative

\* Appending to a concatenation appends to its second part.
LEMMA AppendConcat ==
    ASSUME NEW S, NEW s \in Seq(S), NEW t \in Seq(S), NEW d \in S
    PROVE  s \o Append(t, d) = Append(s \o t, d)
<1>1. Append(t, d) = t \o <<d>> /\ <<d>> \in Seq(S)
  OBVIOUS
<1>2. Append(s \o t, d) = (s \o t) \o <<d>>
  BY ConcatProperties
<1>. QED
  BY <1>1, <1>2, ConcatAssociative

-----------------------------------------------------------------------------
\* What one tq_pop that finds an entry does to the list and the histories.
LEMMA TakeStep ==
    ASSUME TypeOK, FifoOrder, NEW p \in Poppers, q # <<>>, Take(p),
           UNCHANGED accepted
    PROVE  /\ q' \in Seq(Entries)
           /\ delivered' \in Seq(Entries)
           /\ outcome' \in [Poppers -> Outcomes]
           /\ pc' \in [Poppers -> PopperStates]
           /\ FifoOrder'
<1>1. /\ Append(delivered, Head(q)) \o Tail(q) = delivered \o q
      /\ Append(delivered, Head(q)) \in Seq(Entries)
      /\ Tail(q) \in Seq(Entries)
  BY MoveHead DEF TypeOK
<1>2. q' = Tail(q) /\ delivered' = Append(delivered, Head(q))
  BY DEF Take
<1>3. outcome' \in [Poppers -> Outcomes] /\ pc' \in [Poppers -> PopperStates]
  BY DEF Take, TypeOK, Outcomes, PopperStates
<1>. QED
  BY <1>1, <1>2, <1>3 DEF FifoOrder

\* The inductive invariant: the types together with the FIFO order.
QueueInv == TypeOK /\ FifoOrder

LEMMA QueueInvInit == Init => QueueInv
<1>. SUFFICES ASSUME Init PROVE QueueInv
  OBVIOUS
<1>1. <<>> \in Seq(Entries) /\ <<>> \o <<>> = <<>>
  BY EmptySeq, ConcatEmptySeq
<1>2. TypeOK
  BY <1>1 DEF Init, TypeOK, PopperStates, Outcomes
<1>3. FifoOrder
  BY <1>1 DEF Init, FifoOrder
<1>. QED
  BY <1>2, <1>3 DEF QueueInv

LEMMA QueueInvStep == QueueInv /\ [Next]_vars => QueueInv'
<1>. SUFFICES ASSUME TypeOK, FifoOrder, [Next]_vars
              PROVE  TypeOK' /\ FifoOrder'
  BY DEF QueueInv
<1>1. ASSUME NEW d \in Entries, Push(d)
      PROVE  TypeOK' /\ FifoOrder'
  <2>1. pc' \in [Poppers -> PopperStates]
    BY <1>1, SignalType DEF Push, TypeOK
  <2>2. /\ pushes' = pushes + 1
        /\ frozen' = frozen
        /\ outcome' = outcome
        /\ delivered' = delivered
    BY <1>1 DEF Push
  <2>3. CASE frozen
    <3>1. q' = q /\ accepted' = accepted
      BY <1>1, <2>3 DEF Push
    <3>. QED
      BY <2>1, <2>2, <3>1 DEF TypeOK, FifoOrder
  <2>4. CASE ~frozen
    <3>1. q' = Append(q, d) /\ accepted' = Append(accepted, d)
      BY <1>1, <2>4 DEF Push
    <3>2. delivered \o Append(q, d) = Append(delivered \o q, d)
      BY AppendConcat DEF TypeOK
    <3>3. q' \in Seq(Entries) /\ accepted' \in Seq(Entries)
      BY <3>1, AppendProperties DEF TypeOK
    <3>4. FifoOrder'
      BY <2>2, <3>1, <3>2 DEF FifoOrder
    <3>. QED
      BY <2>1, <2>2, <3>3, <3>4 DEF TypeOK
  <2>. QED
    BY <2>3, <2>4
<1>2. ASSUME NEW p \in Poppers, Leave(p) \/ Fail(p)
      PROVE  TypeOK' /\ FifoOrder'
  <2>1. pc' \in [Poppers -> PopperStates]
    <3>1. CASE Fail(p)
      BY <3>1 DEF Fail, TypeOK, PopperStates
    <3>2. CASE Leave(p)
      <4>1. PICK woken \in Signalled : pc' = [woken EXCEPT ![p] = "gone"]
        BY <3>2 DEF Leave
      <4>2. woken \in [Poppers -> PopperStates]
        BY SignalType DEF TypeOK
      <4>. QED
        BY <4>1, <4>2 DEF PopperStates
    <3>. QED
      BY <1>2, <3>1, <3>2
  <2>. QED
    BY <1>2, <2>1 DEF Leave, Fail, TypeOK, FifoOrder, Outcomes
<1>3. ASSUME NEW p \in Poppers, PopReady(p)
      PROVE  TypeOK' /\ FifoOrder'
  BY <1>3, TakeStep DEF PopReady, TypeOK
<1>4. ASSUME NEW p \in Poppers, PopWait(p)
      PROVE  TypeOK' /\ FifoOrder'
  BY <1>4 DEF PopWait, TypeOK, FifoOrder, PopperStates
<1>5. ASSUME NEW p \in Poppers, PopResume(p)
      PROVE  TypeOK' /\ FifoOrder'
  <2>1. CASE q # <<>>
    BY <1>5, <2>1, TakeStep DEF PopResume, TypeOK
  <2>2. CASE q = <<>>
    BY <1>5, <2>2 DEF PopResume, GiveNull, TypeOK, FifoOrder, Outcomes, PopperStates
  <2>. QED
    BY <2>1, <2>2
<1>6. ASSUME NEW p \in Poppers, SpuriousWake(p)
      PROVE  TypeOK' /\ FifoOrder'
  BY <1>6 DEF SpuriousWake, TypeOK, FifoOrder, PopperStates
<1>7. ASSUME NEW p \in Poppers, PopTimeout(p)
      PROVE  TypeOK' /\ FifoOrder'
  BY <1>7 DEF PopTimeout, GiveNull, TypeOK, FifoOrder, PopperStates, Outcomes
<1>8. CASE UNCHANGED vars
  BY <1>8 DEF vars, TypeOK, FifoOrder
<1>. QED
  BY <1>1, <1>2, <1>3, <1>4, <1>5, <1>6, <1>7, <1>8 DEF Next, Pop

\* Every variable of the queue keeps its type in every reachable state.
THEOREM QueueTypes == Spec => []TypeOK
<1>1. QueueInv => TypeOK
  BY DEF QueueInv
<1>. QED
  BY <1>1, QueueInvInit, QueueInvStep, PTL DEF Spec

\* tq_push and tq_pop lose, duplicate and reorder nothing, whatever the number
\* of poppers and however they wake.
THEOREM QueueIsFifo == Spec => []FifoOrder
<1>1. QueueInv => FifoOrder
  BY DEF QueueInv
<1>. QED
  BY <1>1, QueueInvInit, QueueInvStep, PTL DEF Spec

-----------------------------------------------------------------------------
\* Handing out the head of the list is receiving the next entry of the channel.
LEMMA TakeReceives ==
    ASSUME TypeOK, FifoOrder, NEW p \in Poppers, q # <<>>, Take(p),
           UNCHANGED accepted
    PROVE  Channel!Receive
<1>1. Len(q) \in Nat /\ Len(q) > 0 /\ Len(delivered) \in Nat
  BY DEF TypeOK
<1>2. Len(accepted) = Len(delivered) + Len(q)
  BY <1>1 DEF TypeOK, FifoOrder
<1>3. accepted[Len(delivered) + 1] = Head(q)
  BY <1>1 DEF TypeOK, FifoOrder
<1>. QED
  BY <1>1, <1>2, <1>3 DEF Take, Channel!Receive

LEMMA StepImplementsChannel ==
    QueueInv /\ [Next]_vars => [Channel!ChannelNext]_(Channel!chvars)
<1>. SUFFICES ASSUME TypeOK, FifoOrder, [Next]_vars
              PROVE  [Channel!ChannelNext]_(Channel!chvars)
  BY DEF QueueInv
<1>. USE DEF Channel!ChannelNext, Channel!chvars
<1>1. ASSUME NEW d \in Entries, Push(d)
      PROVE  [Channel!ChannelNext]_(Channel!chvars)
  BY <1>1 DEF Push, Channel!Send
<1>2. ASSUME NEW p \in Poppers, Leave(p) \/ Fail(p)
      PROVE  [Channel!ChannelNext]_(Channel!chvars)
  BY <1>2 DEF Leave, Fail
<1>3. ASSUME NEW p \in Poppers, PopReady(p)
      PROVE  [Channel!ChannelNext]_(Channel!chvars)
  BY <1>3, TakeReceives DEF PopReady
<1>4. ASSUME NEW p \in Poppers, PopResume(p)
      PROVE  [Channel!ChannelNext]_(Channel!chvars)
  BY <1>4, TakeReceives DEF PopResume, GiveNull
<1>5. ASSUME NEW p \in Poppers, PopWait(p) \/ SpuriousWake(p) \/ PopTimeout(p)
      PROVE  [Channel!ChannelNext]_(Channel!chvars)
  BY <1>5 DEF PopWait, SpuriousWake, PopTimeout, GiveNull
<1>6. CASE UNCHANGED vars
  BY <1>6 DEF vars
<1>. QED
  BY <1>1, <1>2, <1>3, <1>4, <1>5, <1>6 DEF Next, Pop

\* The thread queue of util.c implements the FIFO channel: each step of a
\* pusher or a popper sends, receives or leaves the channel alone.
THEOREM QueueImplementsChannel == Spec => ImplementsChannel
<1>1. Init => Channel!ChannelInit
  BY DEF Init, Channel!ChannelInit
<1>. QED
  BY <1>1, QueueInvInit, QueueInvStep, StepImplementsChannel, PTL
     DEF Spec, ImplementsChannel, Channel!ChannelSpec
-----------------------------------------------------------------------------
\* There are finitely many poppers, so the woken ones can be counted.
LEMMA WokenFinite == IsFiniteSet(Woken) /\ Cardinality(Woken) \in Nat
<1>1. Woken \subseteq Poppers
  BY DEF Woken
<1>. QED
  BY <1>1, QueueAssumption, FS_Subset, FS_CardinalityType

\* A sleeper that wakes, with a signal or without, is one woken popper more.
LEMMA OneWakes ==
    ASSUME TypeOK, NEW p \in Asleep, NEW how \in {"woken", "roused"},
           pc' = [pc EXCEPT ![p] = how]
    PROVE  /\ Cardinality(Woken') = Cardinality(Woken) + 1
           /\ Asleep' \subseteq Asleep
<1>1. p \in Poppers /\ pc[p] = "asleep" /\ p \notin Woken
  BY DEF Asleep, Woken
<1>2. Woken' = Woken \cup {p}
  BY <1>1 DEF Woken, TypeOK
<1>3. Asleep' \subseteq Asleep
  BY <1>1 DEF Asleep, TypeOK
<1>. QED
  BY <1>1, <1>2, <1>3, WokenFinite, FS_AddElement

\* A signal makes one woken popper out of one that sleeps.
LEMMA SignalWakes ==
    ASSUME TypeOK, pc' \in Signalled, Asleep # {}
    PROVE  /\ Cardinality(Woken') = Cardinality(Woken) + 1
           /\ Asleep' \subseteq Asleep
<1>1. PICK p \in Asleep : pc' = [pc EXCEPT ![p] = "woken"]
  BY DEF Signalled
<1>. QED
  BY <1>1, OneWakes

\* A signal that finds nobody asleep leaves everybody where he is.
LEMMA SignalIdle ==
    ASSUME pc' \in Signalled, Asleep = {}
    PROVE  Asleep' = {}
BY DEF Signalled, Asleep

\* The signal of a thread that leaves wakes another one, if one sleeps.
LEMMA LeaveWakes ==
    ASSUME TypeOK, NEW p \in Poppers, Leave(p), Asleep' # {}
    PROVE  /\ Asleep # {}
           /\ Cardinality(Woken') = Cardinality(Woken) + 1
<1>1. PICK places \in Signalled : pc' = [places EXCEPT ![p] = "gone"]
  BY DEF Leave
<1>2. pc[p] = "leaving"
  BY DEF Leave
<1>3. Asleep # {}
  BY <1>1 DEF Signalled, Asleep, TypeOK
<1>4. PICK s \in Asleep : places = [pc EXCEPT ![s] = "woken"]
  BY <1>3 DEF Signalled
<1>5. s \in Poppers /\ pc[s] = "asleep" /\ s # p /\ s \notin Woken
  BY <1>2 DEF Asleep, Woken
<1>6. pc' = [[pc EXCEPT ![s] = "woken"] EXCEPT ![p] = "gone"]
  BY <1>1, <1>4
<1>7. Woken' = Woken \cup {s}
  BY <1>2, <1>5, <1>6 DEF Woken, TypeOK
<1>. QED
  BY <1>3, <1>5, <1>7, WokenFinite, FS_AddElement

\* A popper that leaves its sleep on its own account takes nobody with it.
LEMMA OthersStay ==
    ASSUME TypeOK, NEW p \in Poppers, pc[p] = "asleep",
           pc' = [pc EXCEPT ![p] = "leaving"]
    PROVE  Woken' = Woken /\ Asleep' \subseteq Asleep
BY DEF TypeOK, Woken, Asleep

\* The popper that resumes is one woken popper less.
LEMMA ResumeCounts ==
    ASSUME TypeOK, NEW p \in Poppers, PopResume(p)
    PROVE  /\ Cardinality(Woken') = Cardinality(Woken) - 1
           /\ Asleep' = Asleep
<1>1. p \in Woken /\ Woken' = Woken \ {p} /\ Asleep' = Asleep
  BY DEF PopResume, Take, GiveNull, TypeOK, Woken, Asleep
<1>. QED
  BY <1>1, WokenFinite, FS_RemoveElement

\* NoLostWakeup is inductive on top of the types: a push that makes the list
\* longer also wakes a popper, and whoever takes an entry is either a woken
\* popper itself or makes the list shorter than those who were woken.
LEMMA WakeupStep == TypeOK /\ NoLostWakeup /\ [Next]_vars => NoLostWakeup'
<1>. SUFFICES ASSUME TypeOK, NoLostWakeup, [Next]_vars,
                     q' # <<>>, Asleep' # {}
              PROVE  Len(q') <= Cardinality(Woken')
  BY DEF NoLostWakeup
<1>0. /\ Len(q) \in Nat /\ Cardinality(Woken) \in Nat
      /\ q # <<>> /\ Asleep # {} => Len(q) <= Cardinality(Woken)
      /\ q = <<>> => Len(q) = 0
      /\ q # <<>> => Len(Tail(q)) = Len(q) - 1
  BY WokenFinite DEF NoLostWakeup, TypeOK
<1>1. ASSUME NEW d \in Entries, Push(d)
      PROVE  Len(q') <= Cardinality(Woken')
  <2>1. pc' \in Signalled /\ (q' = q \/ q' = Append(q, d))
    BY <1>1 DEF Push
  <2>2. Asleep # {}
    BY <2>1, SignalIdle
  <2>3. Cardinality(Woken') = Cardinality(Woken) + 1
    BY <2>1, <2>2, SignalWakes
  <2>4. Len(Append(q, d)) = Len(q) + 1
    BY DEF TypeOK
  <2>5. Len(q') <= Len(q) + 1
    BY <1>0, <2>1, <2>4
  <2>6. Len(q) <= Cardinality(Woken)
    BY <1>0, <2>2
  <2>. QED
    BY <1>0, <2>1, <2>3, <2>4, <2>6
<1>2. ASSUME NEW p \in Poppers, Leave(p)
      PROVE  Len(q') <= Cardinality(Woken')
  <2>1. q' = q
    BY <1>2 DEF Leave
  <2>. QED
    BY <1>0, <1>2, <2>1, LeaveWakes
<1>3. ASSUME NEW p \in Poppers, PopReady(p)
      PROVE  Len(q') <= Cardinality(Woken')
  <2>1. q # <<>> /\ q' = Tail(q) /\ Woken' = Woken /\ Asleep' = Asleep
    BY <1>3 DEF PopReady, Take, TypeOK, Woken, Asleep
  <2>. QED
    BY <1>0, <2>1
<1>4. ASSUME NEW p \in Poppers, PopWait(p)
      PROVE  Len(q') <= Cardinality(Woken')
  BY <1>4 DEF PopWait
<1>5. ASSUME NEW p \in Poppers, PopResume(p)
      PROVE  Len(q') <= Cardinality(Woken')
  <2>1. q # <<>> /\ q' = Tail(q)
    BY <1>5 DEF PopResume, Take, GiveNull
  <2>2. Cardinality(Woken') = Cardinality(Woken) - 1 /\ Asleep' = Asleep
    BY <1>5, ResumeCounts
  <2>. QED
    BY <1>0, <2>1, <2>2
<1>6. ASSUME NEW p \in Poppers, SpuriousWake(p)
      PROVE  Len(q') <= Cardinality(Woken')
  <2>1. q' = q /\ p \in Asleep /\ pc' = [pc EXCEPT ![p] = "roused"]
    BY <1>6 DEF SpuriousWake, Asleep
  <2>2. Cardinality(Woken') = Cardinality(Woken) + 1
    BY <2>1, OneWakes
  <2>. QED
    BY <1>0, <2>1, <2>2
<1>7. ASSUME NEW p \in Poppers, PopTimeout(p)
      PROVE  Len(q') <= Cardinality(Woken')
  <2>1. q' = q /\ pc[p] = "asleep" /\ pc' = [pc EXCEPT ![p] = "leaving"]
    BY <1>7 DEF PopTimeout, GiveNull
  <2>2. Woken' = Woken /\ Asleep' \subseteq Asleep
    BY <2>1, OthersStay
  <2>. QED
    BY <1>0, <2>1, <2>2
<1>8. ASSUME NEW p \in Poppers, Fail(p)
      PROVE  Len(q') <= Cardinality(Woken')
  <2>1. q' = q /\ Woken' = Woken /\ Asleep' = Asleep
    BY <1>8 DEF Fail, TypeOK, Woken, Asleep
  <2>. QED
    BY <1>0, <2>1
<1>9. CASE UNCHANGED vars
  <2>1. q' = q /\ Woken' = Woken /\ Asleep' = Asleep
    BY <1>9 DEF vars, Woken, Asleep
  <2>. QED
    BY <1>0, <2>1
<1>. QED
  BY <1>1, <1>2, <1>3, <1>4, <1>5, <1>6, <1>7, <1>8, <1>9 DEF Next, Pop

\* tq_pop's single wait and tq_push's single signal strand no entry: whatever
\* the number of poppers, as many of them are awake as entries wait, or none
\* sleeps.
THEOREM NoWakeupIsLost == Spec => []NoLostWakeup
<1>1. Init => NoLostWakeup
  BY DEF Init, NoLostWakeup
<1>2. QueueInv => TypeOK
  BY DEF QueueInv
<1>. QED
  BY <1>1, <1>2, QueueInvInit, QueueInvStep, WakeupStep, PTL DEF Spec

-----------------------------------------------------------------------------
\* What holds of a thread that alone pops its queue: when a signal has woken it,
\* an entry is there; only its own end freezes the queue; and it leaves its loop
\* with a reason.
AskedOf(p) == \/ outcome[p] \in {"failed", "timedout", "spurious"}
              \/ /\ outcome[p] = "order"
                 /\ delivered # <<>>
                 /\ delivered[Len(delivered)] = Null

Loner(p) ==
    /\ pc[p] = "woken" => q # <<>>
    /\ frozen => pc[p] = "gone"
    /\ pc[p] \in {"leaving", "gone"} => AskedOf(p)

\* A signal on the queue of a lone popper moves nobody but that popper, from its
\* sleep.
LEMMA LoneSignal ==
    ASSUME TypeOK, NEW p \in Poppers, Alone(p), NEW places \in Signalled
    PROVE  \/ places = pc
           \/ pc[p] = "asleep" /\ places[p] = "woken"
<1>1. CASE Asleep = {}
  BY <1>1 DEF Signalled
<1>2. CASE Asleep # {}
  <2>1. PICK s \in Asleep : places = [pc EXCEPT ![s] = "woken"]
    BY <1>2 DEF Signalled
  <2>2. s = p /\ pc[p] = "asleep"
    BY DEF Asleep, Alone
  <2>. QED
    BY <2>1, <2>2 DEF TypeOK
<1>. QED
  BY <1>1, <1>2

\* Nobody who was there becomes absent.
LEMMA NobodyVanishes ==
    ASSUME TypeOK, [Next]_vars, NEW r \in Poppers, pc'[r] = "absent"
    PROVE  pc[r] = "absent"
<1>1. ASSUME NEW places \in Signalled, places[r] = "absent"
      PROVE  pc[r] = "absent"
  BY <1>1 DEF Signalled, Asleep, TypeOK
<1>2. ASSUME NEW d \in Entries, Push(d)
      PROVE  pc[r] = "absent"
  BY <1>1, <1>2 DEF Push
<1>3. ASSUME NEW p \in Poppers, Leave(p)
      PROVE  pc[r] = "absent"
  <2>1. PICK places \in Signalled : pc' = [places EXCEPT ![p] = "gone"]
    BY <1>3 DEF Leave
  <2>2. places \in [Poppers -> PopperStates]
    BY SignalType DEF TypeOK
  <2>3. places[r] = "absent"
    BY <2>1, <2>2
  <2>. QED
    BY <1>1, <2>3
<1>4. ASSUME NEW p \in Poppers,
             Pop(p) \/ SpuriousWake(p) \/ PopTimeout(p) \/ Fail(p)
      PROVE  pc[r] = "absent"
  BY <1>4 DEF Pop, PopReady, PopWait, PopResume, SpuriousWake, PopTimeout, Fail,
              Take, GiveNull, TypeOK
<1>5. CASE UNCHANGED vars
  BY <1>5 DEF vars
<1>. QED
  BY <1>2, <1>3, <1>4, <1>5 DEF Next

\* The popper that takes the head knows whether it was told to stop.
LEMMA LoneTake ==
    ASSUME TypeOK, NEW p \in Poppers, q # <<>>, Take(p),
           ~frozen, UNCHANGED frozen
    PROVE  Loner(p)'
<1>1. Head(q) \in Entries /\ delivered \in Seq(Entries)
  BY DEF TypeOK
<1>2. delivered' = Append(delivered, Head(q))
  BY DEF Take
<1>3. delivered' # <<>> /\ delivered'[Len(delivered')] = Head(q)
  BY <1>1, <1>2
<1>4. CASE Head(q) = Null
  <2>1. pc'[p] = "leaving" /\ outcome'[p] = "order"
    BY <1>4 DEF Take, TypeOK
  <2>. QED
    BY <1>3, <1>4, <2>1 DEF Loner, AskedOf
<1>5. CASE Head(q) # Null
  <2>1. pc'[p] = "outside"
    BY <1>5 DEF Take, TypeOK
  <2>. QED
    BY <2>1 DEF Loner
<1>. QED
  BY <1>4, <1>5

LEMMA LonerStep ==
    ASSUME NEW p \in Poppers, Alone(p), TypeOK, Loner(p), [Next]_vars
    PROVE  Loner(p)'
<1>1. ASSUME NEW d \in Entries, Push(d)
      PROVE  Loner(p)'
  <2>1. /\ frozen' = frozen /\ outcome' = outcome /\ delivered' = delivered
        /\ pc' \in Signalled
    BY <1>1 DEF Push
  <2>2. CASE pc' = pc
    <3>1. q # <<>> => q' # <<>>
      BY <1>1 DEF Push, TypeOK
    <3>. QED
      BY <2>1, <2>2, <3>1 DEF Loner, AskedOf
  <2>3. CASE pc[p] = "asleep" /\ pc'[p] = "woken"
    <3>1. ~frozen
      BY <2>3 DEF Loner
    <3>2. q' = Append(q, d)
      BY <1>1, <3>1 DEF Push
    <3>3. q' # <<>>
      BY <3>2 DEF TypeOK
    <3>. QED
      BY <2>1, <2>3, <3>1, <3>3 DEF Loner
  <2>. QED
    BY <2>1, <2>2, <2>3, LoneSignal
<1>2. ASSUME PopReady(p)
      PROVE  Loner(p)'
  <2>1. ~frozen
    BY <1>2 DEF PopReady, Loner
  <2>. QED
    BY <1>2, <2>1, LoneTake DEF PopReady
<1>3. ASSUME PopWait(p) \/ SpuriousWake(p)
      PROVE  Loner(p)'
  BY <1>3 DEF PopWait, SpuriousWake, Loner, TypeOK
<1>4. ASSUME PopResume(p)
      PROVE  Loner(p)'
  <2>1. ~frozen /\ frozen' = frozen
    BY <1>4 DEF PopResume, Woken, Loner
  <2>2. CASE q # <<>>
    BY <1>4, <2>1, <2>2, LoneTake DEF PopResume
  <2>3. CASE q = <<>>
    <3>1. pc[p] # "woken"
      BY <2>3 DEF Loner
    <3>2. outcome'[p] = "spurious" /\ pc'[p] = "leaving"
      BY <1>4, <2>3, <3>1 DEF PopResume, GiveNull, TypeOK
    <3>. QED
      BY <2>1, <3>2 DEF Loner, AskedOf
  <2>. QED
    BY <2>2, <2>3
<1>5. ASSUME PopTimeout(p)
      PROVE  Loner(p)'
  BY <1>5 DEF PopTimeout, GiveNull, Loner, AskedOf, TypeOK
<1>6. ASSUME Fail(p)
      PROVE  Loner(p)'
  BY <1>6 DEF Fail, Loner, AskedOf, TypeOK
<1>7. ASSUME Leave(p)
      PROVE  Loner(p)'
  <2>1. pc[p] = "leaving" /\ AskedOf(p)
    BY <1>7 DEF Leave, Loner
  <2>2. PICK places \in Signalled : pc' = [places EXCEPT ![p] = "gone"]
    BY <1>7 DEF Leave
  <2>3. places = pc
    BY <2>1, LoneSignal
  <2>4. pc'[p] = "gone"
    BY <2>2, <2>3 DEF TypeOK
  <2>5. outcome' = outcome /\ delivered' = delivered
    BY <1>7 DEF Leave
  <2>. QED
    BY <2>1, <2>4, <2>5 DEF Loner, AskedOf
<1>8. ASSUME NEW r \in Poppers \ {p}
      PROVE  ~(Pop(r) \/ SpuriousWake(r) \/ PopTimeout(r) \/ Fail(r) \/ Leave(r))
  BY DEF Alone, Pop, PopReady, PopWait, PopResume, SpuriousWake, PopTimeout,
         Fail, Leave, Woken
<1>9. CASE UNCHANGED vars
  BY <1>9 DEF vars, Loner, AskedOf
<1>. QED
  BY <1>1, <1>2, <1>3, <1>4, <1>5, <1>6, <1>7, <1>8, <1>9 DEF Next, Pop

\* The inductive form: who is alone was so before.
LonerInv == \A p \in Poppers : Alone(p) => Loner(p)

LEMMA LonerInvStep == QueueInv /\ LonerInv /\ [Next]_vars => LonerInv'
<1>. SUFFICES ASSUME TypeOK, LonerInv, [Next]_vars, NEW p \in Poppers, Alone(p)'
              PROVE  Loner(p)'
  BY DEF QueueInv, LonerInv
<1>1. Alone(p)
  BY NobodyVanishes DEF Alone
<1>2. Loner(p)
  BY <1>1 DEF LonerInv
<1>. QED
  BY <1>1, <1>2, LonerStep

\* The loop of a thread that alone pops its queue ends for a reason: nothing in
\* tq_push, tq_pop and tq_freeze signals its single wait on an empty list.
THEOREM LonePopperStopsOnlyWhenAsked == Spec => []StopsOnlyWhenAsked
<1>1. Init => LonerInv
  BY DEF Init, LonerInv, Loner
<1>2. LonerInv => StopsOnlyWhenAsked
  BY DEF LonerInv, Loner, AskedOf, StopsOnlyWhenAsked
<1>. QED
  BY <1>1, <1>2, LonerInvStep, QueueInvInit, QueueInvStep, PTL DEF Spec
=============================================================================
