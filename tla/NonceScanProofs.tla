-------------------------- MODULE NonceScanProofs --------------------------
(***************************************************************************)
(* Proofs about the scan loop, for any width of the nonce, any depth of    *)
(* the pipeline and any number of works: its types, that no share is       *)
(* submitted twice, and that only the FPGA's past is counted as a hardware *)
(* error; the last two as long as no nonce is evaluated again after ten    *)
(* failed reads.                                                           *)
(***************************************************************************)
EXTENDS NonceScanProps, SequenceTheorems, TLAPS

\* Labels are nonces; the leftovers' ones are those that solve nothing.
LEMMA LabelType ==
    ASSUME NEW k \in 0..Size - 1
    PROVE  /\ Label(k) \in Nonces
           /\ k < Offset => Label(k) \in Flushed
           /\ k >= Offset => Label(k) = k - Offset
BY ScanAssumption DEF Label, Nonces, Flushed

-----------------------------------------------------------------------------
\* solves never changes, and the labels of leftovers solve nothing.
Leftovers == \A n \in Flushed : solves[n] = None

\* What the result register and the thread's nonce can be.  A nonce that solves
\* the current work comes from the search for it, so the counter is past it.
Past(n) ==
    n # 0 =>
        /\ solves[n] # None => solves[n] <= work
        /\ solves[n] = work => place # "poking" /\ n + Offset < pos

Known == Past(result) /\ (place = "evaluating" => nonce # 0 /\ Past(nonce))

\* What was submitted so far.  Of the current work's shares the counter is past,
\* and none will be read again: the register shows another one, or old_value.
Behind ==
    \A i \in 1..Len(submitted) :
        LET w == submitted[i][1]  n == submitted[i][2] IN
        /\ solves[n] = w /\ w \in 1..work
        /\ w = work => /\ place # "poking" /\ n + Offset < pos
                       /\ result = n => oldValue = n

\* The nonce under evaluation is new to the current work.
FreshNonce ==
    place = "evaluating" =>
        /\ oldValue = nonce
        /\ \A i \in 1..Len(submitted) : submitted[i] # <<work, nonce>>

\* What holds until a nonce is evaluated again after ten failed peeks.
Distinct ==
    \A i, j \in 1..Len(submitted) : submitted[i] = submitted[j] => i = j

Tracked == Known /\ Behind /\ FreshNonce /\ Distinct

ScanInv == TypeOK /\ Leftovers /\ (reused = 0 => Tracked)

\* A hit changes the register to a nonce that nothing submitted is equal to.
LEMMA HitIsAhead ==
    ASSUME TypeOK, Leftovers, NEW k \in 0..Size - 1, Hit(k)
    PROVE  /\ Label(k) \in Nonces /\ pos' = k + 1 /\ result' = Label(k)
           /\ UNCHANGED <<solves, threadVars>>
           /\ k >= pos /\ work > 0
           /\ solves[Label(k)] = None
                \/ (place # "poking" /\ solves[Label(k)] = work /\ k = Label(k) + Offset)
<1>1. /\ Label(k) \in Nonces /\ pos' = k + 1 /\ result' = Label(k)
      /\ UNCHANGED <<solves, threadVars>>
      /\ k >= pos /\ work > 0 /\ Reportable(k)
  BY LabelType DEF Hit
<1>2. CASE k < Offset
  BY <1>1, <1>2, LabelType DEF Leftovers
<1>3. CASE k >= Offset
  <2>1. k = Label(k) + Offset /\ k - Offset = Label(k)
    BY <1>3, LabelType, ScanAssumption
  <2>. QED
    BY <1>1, <1>3, <2>1, ScanAssumption DEF Reportable
<1>. QED
  BY <1>2, <1>3, ScanAssumption

LEMMA ScanInit == Init => ScanInv
<1>. SUFFICES ASSUME Init PROVE ScanInv
  OBVIOUS
<1>1. <<>> \in Seq(Works \X Nonces) /\ Len(<<>>) = 0
  BY EmptySeq
<1>2. /\ solves \in [Nonces -> Works \cup {None}] /\ Leftovers
      /\ 0 \in Nonces
  BY ScanAssumption DEF Init, Leftovers, Nonces
<1>3. TypeOK
  BY <1>1, <1>2, ScanAssumption DEF Init, TypeOK, Places
<1>4. Known
  BY DEF Init, Known, Past
<1>5. Behind /\ FreshNonce /\ Distinct
  BY <1>1 DEF Init, Behind, FreshNonce, Distinct
<1>. QED
  BY <1>2, <1>3, <1>4, <1>5 DEF ScanInv, Tracked

-----------------------------------------------------------------------------
\* Types, and the labels of leftovers, whatever fails.
LEMMA TypeStep == TypeOK /\ Leftovers /\ [Next]_vars => TypeOK' /\ Leftovers'
<1>. SUFFICES ASSUME TypeOK, Leftovers, [Next]_vars PROVE TypeOK' /\ Leftovers'
  OBVIOUS
<1>. USE DEF deviceVars, threadVars
<1>0. Size \in Nat /\ Offset \in Nat /\ MaxWorks \in Nat
  BY ScanAssumption
<1>1. ASSUME NEW k \in 0..Size - 1, Hit(k)
      PROVE  TypeOK' /\ Leftovers'
  BY <1>0, <1>1, HitIsAhead DEF TypeOK, Leftovers
<1>2. CASE Draw
  BY <1>0, <1>2 DEF Draw, TypeOK, Leftovers, Works, Places
<1>3. CASE Trigger
  BY <1>0, <1>3 DEF Trigger, TypeOK, Leftovers, Places
<1>4. CASE PeekNew
  BY <1>4 DEF PeekNew, TypeOK, Leftovers, Places
<1>5. CASE PeekNothing
  BY <1>5 DEF PeekNothing, TypeOK, Leftovers
<1>6. CASE PeekFails
  BY <1>6 DEF PeekFails, TypeOK, Leftovers, Places
<1>7. CASE Evaluate
  <2>1. submitted' \in Seq(Works \X Nonces)
    <3>1. CASE solves[nonce] # work
      BY <1>7, <3>1 DEF Evaluate, Solves, TypeOK
    <3>2. CASE solves[nonce] = work
      <4>1. work \in Works
        BY <1>0, <3>2, ScanAssumption DEF TypeOK, Works
      <4>2. <<work, nonce>> \in Works \X Nonces /\ submitted \in Seq(Works \X Nonces)
        BY <4>1 DEF TypeOK
      <4>. QED
        BY <1>7, <3>2, <4>2, AppendProperties DEF Evaluate, Solves
    <3>. QED
      BY <3>1, <3>2
  <2>. QED
    BY <1>7, <2>1 DEF Evaluate, TypeOK, Leftovers, Places
<1>8. CASE TimeOut \/ Restarted
  BY <1>8 DEF TimeOut, Restarted, TypeOK, Leftovers, Places
<1>9. CASE UNCHANGED vars
  BY <1>9 DEF vars, TypeOK, Leftovers
<1>. QED
  BY <1>1, <1>2, <1>3, <1>4, <1>5, <1>6, <1>7, <1>8, <1>9 DEF Next, Scan

\* A step that submits nothing.
LEMMA NothingSubmitted ==
    ASSUME Distinct, UNCHANGED submitted
    PROVE  Distinct'
BY DEF Distinct

\* Until a nonce is evaluated again.
LEMMA TrackedStep ==
    ASSUME TypeOK, Leftovers, Tracked, reused = 0, reused' = 0, [Next]_vars
    PROVE  Tracked'
<1>. USE DEF deviceVars, threadVars
<1>0. /\ TypeOK /\ Leftovers /\ Known /\ Behind /\ FreshNonce /\ Distinct
      /\ TypeOK' /\ Leftovers'
      /\ Size \in Nat /\ Offset \in Nat /\ MaxWorks \in Nat /\ None \notin Nat
  BY ScanAssumption, TypeStep DEF Tracked
<1>1. ASSUME NEW k \in 0..Size - 1, Hit(k)
      PROVE  Tracked'
  <2>1. /\ Label(k) \in Nonces /\ pos' = k + 1 /\ result' = Label(k)
        /\ UNCHANGED <<solves, threadVars>>
        /\ k >= pos /\ work > 0
        /\ solves[Label(k)] = None
             \/ (place # "poking" /\ solves[Label(k)] = work /\ k = Label(k) + Offset)
    BY <1>0, <1>1, HitIsAhead
  <2>3. Known'
    BY <1>0, <2>1 DEF Known, Past, TypeOK, Works, Nonces
  <2>4. Behind'
    <3>1. SUFFICES ASSUME NEW i \in 1..Len(submitted),
                          submitted[i][1] = work
                   PROVE  /\ submitted[i][2] + Offset < pos'
                          /\ Label(k) # submitted[i][2]
      BY <1>0, <2>1 DEF Behind
    <3>2. /\ submitted[i] \in Works \X Nonces
          /\ pos \in Nat /\ k \in Nat /\ work \in Nat /\ work # None
      BY <1>0 DEF TypeOK
    <3>3. submitted[i][2] \in Nat
      BY <3>2 DEF Nonces
    <3>4. solves[submitted[i][2]] = work /\ submitted[i][2] + Offset < pos
      BY <1>0, <3>1 DEF Behind
    <3>. QED
      BY <1>0, <2>1, <3>2, <3>3, <3>4
  <2>. QED
    BY <1>0, <2>1, <2>3, <2>4, NothingSubmitted DEF Tracked, FreshNonce
<1>2. CASE Draw
  <2>1. FreshNonce'
    BY <1>2 DEF Draw, FreshNonce
  <2>2. Known'
    BY <1>0, <1>2 DEF Draw, Known, Past, TypeOK, Works
  <2>3. Behind'
    BY <1>0, <1>2 DEF Draw, Behind, TypeOK, Works
  <2>. QED
    BY <1>0, <1>2, <2>1, <2>2, <2>3, NothingSubmitted DEF Draw, Tracked
<1>3. CASE Trigger
  <2>1. FreshNonce'
    BY <1>3 DEF Trigger, FreshNonce
  <2>2. Known'
    BY <1>0, <1>3 DEF Trigger, Known, Past
  <2>3. Behind'
    BY <1>0, <1>3 DEF Trigger, Behind
  <2>. QED
    BY <1>0, <1>3, <2>1, <2>2, <2>3, NothingSubmitted DEF Trigger, Tracked
<1>4. CASE PeekNew
  <2>2. Known'
    BY <1>0, <1>4 DEF PeekNew, Known, Past
  <2>3. Behind'
    BY <1>0, <1>4 DEF PeekNew, Behind
  <2>4. FreshNonce'
    BY <1>0, <1>4 DEF PeekNew, FreshNonce, Behind
  <2>. QED
    BY <1>0, <1>4, <2>2, <2>3, <2>4, NothingSubmitted DEF PeekNew, Tracked
<1>5. CASE PeekNothing
  <2>1. Known' /\ Behind' /\ FreshNonce'
    BY <1>0, <1>5 DEF PeekNothing, Known, Past, Behind, FreshNonce
  <2>. QED
    BY <1>0, <1>5, <2>1, NothingSubmitted DEF PeekNothing, Tracked
<1>6. CASE PeekFails
  <2>1. UNCHANGED vars
    BY <1>6 DEF PeekFails, TypeOK, vars
  <2>. QED
    BY <1>0, <2>1, NothingSubmitted
       DEF vars, Tracked, Known, Past, Behind, FreshNonce
<1>7. CASE TimeOut \/ Restarted
  <2>1. /\ place = "scanning" /\ place' = "drawing"
        /\ UNCHANGED <<solves, deviceVars, work, oldValue, nonce, ret, submitted>>
    BY <1>7 DEF TimeOut, Restarted
  <2>2. Known' /\ Behind' /\ FreshNonce'
    BY <1>0, <2>1 DEF Known, Past, Behind, FreshNonce
  <2>. QED
    BY <1>0, <2>1, <2>2, NothingSubmitted DEF Tracked
<1>8. CASE Evaluate
  <2>1. /\ place = "evaluating" /\ place' = "scanning"
        /\ UNCHANGED <<solves, deviceVars, work, oldValue, nonce, ret>>
    BY <1>8 DEF Evaluate
  <2>2. CASE solves[nonce] # work
    <3>1. UNCHANGED submitted
      BY <1>8, <2>2 DEF Evaluate, Solves
    <3>2. Known' /\ Behind' /\ FreshNonce'
      BY <1>0, <2>1, <3>1
         DEF Known, Past, Behind, FreshNonce
    <3>. QED
      BY <1>0, <3>1, <3>2, NothingSubmitted DEF Tracked
  <2>3. CASE solves[nonce] = work
    <3>1. submitted' = Append(submitted, <<work, nonce>>)
      BY <1>8, <2>3 DEF Evaluate, Solves
    <3>2. work \in Works /\ <<work, nonce>> \in Works \X Nonces
      BY <1>0, <2>3 DEF TypeOK, Works
    <3>3. /\ submitted' \in Seq(Works \X Nonces)
          /\ Len(submitted) \in Nat /\ Len(submitted') = Len(submitted) + 1
          /\ submitted'[Len(submitted) + 1] = <<work, nonce>>
          /\ \A i \in 1..Len(submitted) : submitted'[i] = submitted[i]
      BY <1>0, <3>1, <3>2, AppendProperties DEF TypeOK
    <3>4. Known' /\ FreshNonce'
      BY <1>0, <2>1, <3>3 DEF Known, Past, FreshNonce
    <3>5. nonce + Offset < pos /\ oldValue = nonce /\ work \in 1..work
      BY <1>0, <2>1, <2>3, <3>2 DEF Known, Past, FreshNonce, Works
    <3>6. Behind'
      BY <1>0, <2>1, <2>3, <3>3, <3>5, SMTT(30) DEF Behind
    <3>7. Distinct'
      <4>1. \A i \in 1..Len(submitted) : submitted[i] # <<work, nonce>>
        BY <1>0, <2>1 DEF FreshNonce
      <4>2. \A i \in 1..Len(submitted) + 1 : i \in 1..Len(submitted) \/ i = Len(submitted) + 1
        BY <3>3
      <4>. QED
        BY <1>0, <3>3, <4>1, <4>2 DEF Distinct
    <3>. QED
      BY <3>4, <3>6, <3>7 DEF Tracked
  <2>. QED
    BY <2>2, <2>3
<1>9. CASE UNCHANGED vars
  BY <1>0, <1>9, NothingSubmitted
     DEF vars, Tracked, Known, Past, Behind, FreshNonce
<1>. QED
  BY <1>1, <1>2, <1>3, <1>4, <1>5, <1>6, <1>7, <1>8, <1>9 DEF Next, Scan

\* The number of rounds that evaluated an old nonce never goes down.
LEMMA ReusedGrows == TypeOK /\ [Next]_vars /\ reused' = 0 => reused = 0
<1>. SUFFICES ASSUME TypeOK, [Next]_vars, reused' = 0 PROVE reused = 0
  OBVIOUS
<1>1. reused \in Nat /\ (reused' = reused \/ reused' = reused + 1)
  BY DEF TypeOK, Next, Scan, Hit, Draw, Trigger, PeekNew, PeekNothing,
         PeekFails, Evaluate, TimeOut, Restarted, vars, deviceVars, threadVars
<1>. QED
  BY <1>1

LEMMA ScanStep == ScanInv /\ [Next]_vars => ScanInv'
<1>. SUFFICES ASSUME ScanInv, [Next]_vars PROVE ScanInv'
  OBVIOUS
<1>1. TypeOK' /\ Leftovers'
  BY TypeStep DEF ScanInv
<1>2. reused' = 0 => reused = 0
  BY ReusedGrows DEF ScanInv
<1>. QED
  BY <1>1, <1>2, TrackedStep DEF ScanInv

\* Every variable of the scan keeps its type; the labels that the device
\* reports are nonces because the subtraction of the offset wraps.
THEOREM ScanTypes == Spec => []TypeOK
<1>1. ScanInv => TypeOK
  BY DEF ScanInv
<1>. QED
  BY <1>1, ScanInit, ScanStep, PTL DEF Spec

\* No share is submitted twice, whatever the FPGA finds, however the register
\* goes stale across blocks, and whenever the thread is restarted, as long as
\* no nonce is evaluated again after ten failed peeks.
THEOREM SharesAreSubmittedOnce == Spec => []NoShareTwice
<1>1. ScanInv => NoShareTwice
  BY DEF ScanInv, Tracked, Distinct, NoShareTwice
<1>. QED
  BY <1>1, ScanInit, ScanStep, PTL DEF Spec

-----------------------------------------------------------------------------
\* Where a value of the register can come from while its search is followed.
FromSearch(n) == n \in Flushed \/ n = inherited \/ solves[n] = work

Sourced ==
    /\ place \in {"scanning", "evaluating"} => FromSearch(result)
    /\ place = "evaluating" => FromSearch(nonce)

\* A hit on the complete block is a leftover's label or solves the work.
LEMMA HitIsSourced ==
    ASSUME NEW k \in 0..Size - 1, Hit(k), place \in {"scanning", "evaluating"}
    PROVE  result' \in Flushed \/ solves[result'] = work
<1>1. result' = Label(k) /\ Reportable(k)
  BY DEF Hit
<1>2. CASE k < Offset
  BY <1>1, <1>2, LabelType
<1>3. CASE k >= Offset
  BY <1>1, <1>3, LabelType DEF Reportable
<1>. QED
  BY <1>2, <1>3, ScanAssumption

LEMMA SourcedStep ==
    ASSUME TypeOK, Sourced, reused = 0, reused' = 0, [Next]_vars
    PROVE  Sourced'
<1>. USE DEF deviceVars, threadVars
<1>1. ASSUME NEW k \in 0..Size - 1, Hit(k)
      PROVE  Sourced'
  <2>1. UNCHANGED <<solves, place, work, nonce, inherited>>
    BY <1>1 DEF Hit
  <2>. QED
    BY <1>1, <2>1, HitIsSourced DEF Sourced, FromSearch
<1>2. CASE Draw
  BY <1>2 DEF Draw, Sourced
<1>3. CASE Trigger
  BY <1>3 DEF Trigger, Sourced, FromSearch
<1>4. CASE PeekNew
  BY <1>4 DEF PeekNew, Sourced, FromSearch
<1>5. CASE PeekNothing
  BY <1>5 DEF PeekNothing, Sourced, FromSearch
<1>6. CASE PeekFails
  <2>1. UNCHANGED vars
    BY <1>6 DEF PeekFails, TypeOK, vars
  <2>. QED
    BY <2>1 DEF vars, Sourced, FromSearch
<1>7. CASE Evaluate
  BY <1>7 DEF Evaluate, Sourced, FromSearch
<1>8. CASE TimeOut \/ Restarted
  BY <1>8 DEF TimeOut, Restarted, Sourced
<1>9. CASE UNCHANGED vars
  BY <1>9 DEF vars, Sourced, FromSearch
<1>. QED
  BY <1>1, <1>2, <1>3, <1>4, <1>5, <1>6, <1>7, <1>8, <1>9 DEF Next, Scan

\* A step back from the evaluation without a share found no solution.
LEMMA ErrorStep ==
    ASSUME TypeOK, [Next]_vars, place = "evaluating", place' = "scanning",
           submitted' = submitted
    PROVE  solves[nonce] # work
<1>1. Evaluate
  BY DEF Next, Scan, Hit, Draw, Trigger, PeekNew, PeekNothing, PeekFails, TimeOut,
         Restarted, vars, threadVars
<1>2. ASSUME solves[nonce] = work PROVE FALSE
  <2>1. submitted' = Append(submitted, <<work, nonce>>)
    BY <1>1, <1>2 DEF Evaluate, Solves
  <2>2. work \in Works
    BY <1>2, ScanAssumption DEF TypeOK, Works
  <2>3. <<work, nonce>> \in Works \X Nonces /\ submitted \in Seq(Works \X Nonces)
    BY <2>2 DEF TypeOK
  <2>4. Len(submitted') = Len(submitted) + 1 /\ Len(submitted) \in Nat
    BY <2>1, <2>3
  <2>. QED
    BY <2>4
<1>. QED
  BY <1>2

\* Whatever the FPGA's register shows, of the pipeline's leftovers, of earlier
\* blocks or of half-written ones, only such a value can be counted as an HW
\* error: no solution that the thread reads is held back.
THEOREM OnlyLeftoversAreHwErrors == Spec => HwErrorsAreLeftovers
<1>. DEFINE I == ScanInv /\ (reused = 0 => Sourced)
            A == /\ place = "evaluating" /\ place' = "scanning"
                 /\ submitted' = submitted
                 /\ reused = 0
                 => nonce \in Flushed \/ nonce = inherited
<1>1. Init => I
  BY ScanInit DEF Init, Sourced
<1>2. I /\ [Next]_vars => I'
  BY ScanStep, SourcedStep, ReusedGrows DEF ScanInv
<1>3. I /\ [Next]_vars => [A]_vars
  BY ErrorStep DEF ScanInv, Sourced, FromSearch
<1>. HIDE DEF I
<1>. QED
  BY <1>1, <1>2, <1>3, PTL DEF Spec, HwErrorsAreLeftovers
=============================================================================
