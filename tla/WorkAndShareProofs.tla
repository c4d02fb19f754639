------------------------ MODULE WorkAndShareProofs ------------------------
(***************************************************************************)
(* Proofs about the distribution of work, the API server beside it and the *)
(* way of the shares back, for any number of FPGA threads, pools, jobs,    *)
(* extranonces, shares and retries.  The invariant of the distribution is  *)
(* proved part by part, each part from the types and, where it says so,    *)
(* from earlier parts; what is proved about the shares rests on it.        *)
(***************************************************************************)
EXTENDS WorkDistributionProps, ApiServerProps, ShareFlowProps, SequenceTheorems, TLAPS

-----------------------------------------------------------------------------
(***************************************************************************)
(* Types.                                                                  *)
(***************************************************************************)
LEMMA TypeInit == Init => TypeOK
<1>. SUFFICES ASSUME Init PROVE TypeOK
  OBVIOUS
<1>1. <<>> \in Seq(Diffs)
  BY EmptySeq
<1>2. 0 \in 0..X2Size - 1
  BY WorkAssumption
<1>3. /\ fpga \in [Threads -> FpgaPlaces]
      /\ work \in [Threads -> Headers \cup {NoWork}]
      /\ target \in [Threads -> Diffs]
      /\ restart \in [Threads -> BOOLEAN]
  BY WorkAssumption DEF Init, FpgaPlaces
<1>. QED
  BY <1>1, <1>2, <1>3, WorkAssumption DEF Init, TypeOK, StratumPlaces

\* A header built from the current job is a header, and its key is a key.
LEMMA HeaderType ==
    ASSUME TypeOK, job # NoJob
    PROVE  /\ Header \in Headers
           /\ Key(Header) = <<job.xn1, job.id, x2>>
           /\ Key(Header) \in Xn1 \X Ids \X Nat
           /\ job.id \in Ids /\ job.xn1 \in Xn1
           /\ job.prev \in Prevs /\ job.diff \in Diffs /\ job.n \in Nat
<1>1. job \in Jobs /\ x2 \in Nat
  BY WorkAssumption DEF TypeOK
<1>. QED
  BY <1>1 DEF Header, Headers, Jobs, Key

\* Using up an extranonce2 keeps it within its bytes.
LEMMA TakeType ==
    ASSUME TypeOK, job # NoJob, <<job.xn1, job.id>> \in pairs, TakeX2,
           UNCHANGED <<job, pairs>>
    PROVE  /\ x2' \in 0..X2Size - 1
           /\ issued' \subseteq Xn1 \X Ids \X Nat
           /\ wrapped' \subseteq pairs'
<1>1. x2' \in 0..X2Size - 1
  BY WorkAssumption DEF TypeOK, TakeX2
<1>2. issued' \subseteq Xn1 \X Ids \X Nat
  BY HeaderType DEF TypeOK, TakeX2, Issue
<1>3. wrapped' \subseteq pairs'
  BY DEF TypeOK, TakeX2, Issue
<1>. QED
  BY <1>1, <1>2, <1>3

-----------------------------------------------------------------------------
(***************************************************************************)
(* The base of the invariant.  The types need the gate: work_set_target    *)
(* reads the difficulty of a job that has to be there.                     *)
(***************************************************************************)
JobSeen == job # NoJob => <<job.xn1, job.id>> \in pairs

Gate ==
    /\ JobBeforeWork
    /\ gwork # NoWork => job # NoJob
    /\ stratum = "timing" => gwork # NoWork

Base == TypeOK /\ JobSeen /\ Gate

LEMMA BaseInit == Init => Base
<1>1. Init => JobSeen /\ Gate
  BY DEF Init, JobSeen, Gate, JobBeforeWork
<1>. QED
  BY <1>1, TypeInit DEF Base

LEMMA BaseStep == Base /\ [Next]_vars => Base'
<1>. SUFFICES ASSUME TypeOK, JobSeen, Gate, [Next]_vars
              PROVE  TypeOK' /\ JobSeen' /\ Gate'
  BY DEF Base
<1>. USE DEF sessionVars, poolVars, gworkVars, apiVars, fpgaVars, x2Vars
<1>1. CASE Reset
  BY <1>1 DEF Reset, TypeOK, StratumPlaces, JobSeen, Gate, JobBeforeWork
<1>2. CASE Top
  BY <1>2 DEF Top, TypeOK, StratumPlaces, JobSeen, Gate, JobBeforeWork
<1>3. CASE ZeroTime
  BY <1>3 DEF ZeroTime, TypeOK, StratumPlaces, JobSeen, Gate, JobBeforeWork
<1>4. ASSUME NEW x \in Xn1, Connect(x)
       PROVE  TypeOK' /\ JobSeen' /\ Gate'
  <2>1. /\ stratum' = "authorizing" /\ curl' = TRUE
        /\ xn1' = x /\ nextDiff' = FirstDiff
    BY <1>4 DEF Connect
  <2>2. TypeOK'
    BY <1>4, <2>1, WorkAssumption DEF Connect, TypeOK, StratumPlaces
  <2>. QED
    BY <1>4, <2>1, <2>2 DEF Connect, JobSeen, Gate, JobBeforeWork
<1>5. CASE ConnectionFails
  <2>1. /\ stratum' \in {"exited", "flagging"} /\ curl' = FALSE
        /\ failures' \in Nat /\ nextDiff' \in Diffs /\ url' \in Urls
    BY <1>5, WorkAssumption DEF ConnectionFails, TypeOK
  <2>2. TypeOK'
    BY <1>5, <2>1 DEF ConnectionFails, TypeOK, StratumPlaces
  <2>. QED
    BY <1>5, <2>1, <2>2 DEF ConnectionFails, JobSeen, Gate, JobBeforeWork
<1>6. CASE Authorize
  BY <1>6 DEF Authorize, TypeOK, StratumPlaces, JobSeen, Gate, JobBeforeWork
<1>7. CASE NothingNew
  BY <1>7 DEF NothingNew, TypeOK, StratumPlaces, JobSeen, Gate, JobBeforeWork
<1>8. CASE StampTime
  BY <1>8 DEF StampTime, TypeOK, StratumPlaces, JobSeen, Gate, JobBeforeWork
<1>9. CASE RestartThreads
  BY <1>9 DEF RestartThreads, TypeOK, StratumPlaces, JobSeen, Gate, JobBeforeWork
<1>10. CASE \E d \in Diffs : SetDifficulty(d)
  BY <1>10 DEF SetDifficulty, LineHandled, Listening, TypeOK, StratumPlaces, JobSeen, Gate, JobBeforeWork
<1>11. CASE \E x \in Xn1 : SetExtranonce(x)
  BY <1>11 DEF SetExtranonce, LineHandled, Listening, TypeOK, StratumPlaces, JobSeen, Gate, JobBeforeWork
<1>12. CASE OtherLine
  BY <1>12 DEF OtherLine, TypeOK, StratumPlaces, JobSeen, Gate, JobBeforeWork
<1>13. CASE \E u \in Urls : Disconnect(u)
  BY <1>13 DEF Disconnect, TypeOK, StratumPlaces, JobSeen, Gate, JobBeforeWork
<1>14. CASE \E u \in Urls : SetUrl(u)
  BY <1>14 DEF SetUrl, TypeOK, StratumPlaces, JobSeen, Gate, JobBeforeWork
<1>15. CASE Age
  BY <1>15 DEF Age, TypeOK, StratumPlaces, JobSeen, Gate, JobBeforeWork
<1>16. ASSUME NEW t \in Threads, FindFresh(t)
       PROVE  TypeOK' /\ JobSeen' /\ Gate'
  BY <1>16 DEF FindFresh, TypeOK, FpgaPlaces, JobSeen, Gate, JobBeforeWork
<1>17. ASSUME NEW t \in Threads, ClearRestart(t)
       PROVE  TypeOK' /\ JobSeen' /\ Gate'
  BY <1>17 DEF ClearRestart, TypeOK, FpgaPlaces, JobSeen, Gate, JobBeforeWork
<1>18. ASSUME NEW t \in Threads, LeaveOnRestart(t)
       PROVE  TypeOK' /\ JobSeen' /\ Gate'
  BY <1>18 DEF LeaveOnRestart, TypeOK, FpgaPlaces, JobSeen, Gate, JobBeforeWork
<1>19. ASSUME NEW t \in Threads, LeaveOnTimeout(t)
       PROVE  TypeOK' /\ JobSeen' /\ Gate'
  BY <1>19 DEF LeaveOnTimeout, TypeOK, FpgaPlaces, JobSeen, Gate, JobBeforeWork
<1>20. ASSUME NEW t \in Threads, SetTarget(t)
       PROVE  TypeOK' /\ JobSeen' /\ Gate'
  BY <1>20, HeaderType DEF SetTarget, TypeOK, FpgaPlaces, JobSeen, Gate, JobBeforeWork
<1>21. ASSUME NEW t \in Threads, Generate(t)
       PROVE  TypeOK' /\ JobSeen' /\ Gate'
  <2>1. /\ x2' \in 0..X2Size - 1
        /\ issued' \subseteq Xn1 \X Ids \X Nat
        /\ wrapped' \subseteq pairs'
        /\ Header \in Headers
    BY <1>21, TakeType, HeaderType DEF Generate, JobSeen
  <2>2. JobSeen' /\ Gate'
    BY <1>21 DEF Generate, TypeOK, FpgaPlaces, JobSeen, Gate, JobBeforeWork
  <2>3. TypeOK'
    BY <1>21, <2>1 DEF Generate, TypeOK, FpgaPlaces
  <2>. QED
    BY <2>2, <2>3
<1>22. CASE Publish
  <2>1. job # NoJob
    BY <1>22 DEF Publish, JobIsNew
  <2>2. /\ x2' \in 0..X2Size - 1
        /\ issued' \subseteq Xn1 \X Ids \X Nat
        /\ wrapped' \subseteq pairs'
        /\ Header \in Headers
    BY <1>22, <2>1, TakeType, HeaderType DEF Publish, JobSeen
  <2>3. JobSeen' /\ Gate'
    BY <1>22, <2>1, <2>2, NoValueAssumption
       DEF Publish, JobSeen, Gate, JobBeforeWork
  <2>4. TypeOK'
    BY <1>22, <2>2 DEF Publish, TypeOK, StratumPlaces
  <2>. QED
    BY <2>3, <2>4
<1>23. ASSUME NEW i \in Ids, NEW p \in Prevs, NEW c \in BOOLEAN, Notify(i, p, c)
       PROVE  TypeOK' /\ JobSeen' /\ Gate'
  <2>1. /\ job' \in Jobs /\ job' # NoJob
        /\ job'.xn1 = xn1 /\ job'.id = i
    BY <1>23, NoValueAssumption DEF Notify, JobLine, Jobs, TypeOK
  <2>2. /\ pairs' = pairs \cup {<<xn1, i>>}
        /\ diffs' \in Seq(Diffs) /\ notifies' \in Nat /\ moved' \in BOOLEAN
    BY <1>23, AppendProperties DEF Notify, JobLine, TypeOK
  <2>3. x2' \in 0..X2Size - 1
    BY <1>23, WorkAssumption DEF Notify, ResetX2, TypeOK
  <2>4. stratum' \in StratumPlaces /\ stratum' # "timing"
    BY <1>23 DEF Notify, LineHandled, Listening, TypeOK, StratumPlaces
  <2>5. JobSeen' /\ Gate'
    BY <1>23, <2>1, <2>2, <2>4 DEF Notify, JobSeen, Gate, JobBeforeWork
  <2>6. TypeOK'
    BY <1>23, <2>1, <2>2, <2>3, <2>4 DEF Notify, JobLine, TypeOK
  <2>. QED
    BY <2>5, <2>6
<1>24. CASE UNCHANGED vars
  BY <1>24 DEF vars, TypeOK, JobSeen, Gate, JobBeforeWork
<1>25. CASE TakeUrl
  BY <1>25 DEF TakeUrl, TypeOK, StratumPlaces, JobSeen, Gate, JobBeforeWork
<1>26. CASE RaiseReset
  BY <1>26 DEF RaiseReset, TypeOK, StratumPlaces, JobSeen, Gate, JobBeforeWork
<1>. QED
  BY <1>1, <1>2, <1>3, <1>4, <1>5, <1>6, <1>7, <1>8, <1>9, <1>10, <1>11, <1>12, <1>13, <1>14, <1>15, <1>16, <1>17, <1>18, <1>19, <1>20, <1>21, <1>22, <1>23, <1>24, <1>25, <1>26
     DEF Next, StratumStep, FpgaStep

\* Every variable keeps its type, extranonce2 within its bytes, in every
\* reachable state.
THEOREM WorkTypes == Spec => []TypeOK
<1>1. Base => TypeOK
  BY DEF Base
<1>. QED
  BY <1>1, BaseInit, BaseStep, PTL DEF Spec

\* No FPGA thread passes the unlocked gate of g_work_time before there is a
\* job, and a job once received never goes away.
THEOREM JobAlwaysBeforeWork == Spec => []JobBeforeWork
<1>1. Base => JobBeforeWork
  BY DEF Base, Gate
<1>. QED
  BY <1>1, BaseInit, BaseStep, PTL DEF Spec

-----------------------------------------------------------------------------
(***************************************************************************)
(* Uniqueness of work.  Of the current pair of extranonce1 and job id only *)
(* extranonces below the next one have been used, unless it overflowed.    *)
(***************************************************************************)
IssuedSeen == \A k \in issued : <<k[1], k[2]>> \in pairs

IssuedBelow ==
    job # NoJob =>
        \A k \in issued : k[1] = job.xn1 /\ k[2] = job.id =>
            k[3] < x2 \/ <<job.xn1, job.id>> \in wrapped

WorkIssued == \A t \in Threads : Busy(t) => Key(work[t]) \in issued

Unique == IssuedSeen /\ IssuedBelow /\ WorkIssued /\ NoTwoFpgasShareWork

\* The extranonce2 that is taken is new, unless its job's overflowed, and the
\* ones taken stay below the next.
LEMMA TakeUnique ==
    ASSUME Base, IssuedSeen, IssuedBelow, job # NoJob, TakeX2,
           UNCHANGED <<job, pairs>>
    PROVE  /\ IssuedSeen' /\ IssuedBelow'
           /\ issued' = issued \cup {Key(Header)}
           /\ wrapped \subseteq wrapped'
           /\ Key(Header) \notin issued \/ <<job.xn1, job.id>> \in wrapped
<1>1. /\ Key(Header) = <<job.xn1, job.id, x2>>
      /\ x2 \in Nat /\ X2Size \in Nat
      /\ <<job.xn1, job.id>> \in pairs
  BY HeaderType, WorkAssumption DEF Base, TypeOK, JobSeen
<1>2. issued' = issued \cup {Key(Header)} /\ wrapped \subseteq wrapped'
  BY DEF TakeX2, Issue
<1>3. ASSUME NEW k \in issued'
      PROVE  <<k[1], k[2]>> \in pairs'
  <2>1. CASE k = Key(Header)
    <3>1. k[1] = job.xn1 /\ k[2] = job.id
      BY <1>1, <2>1
    <3>. QED
      BY <1>1, <3>1
  <2>2. CASE k \in issued
    BY <2>2 DEF IssuedSeen
  <2>. QED
    BY <1>2, <1>3, <2>1, <2>2
<1>4. ASSUME NEW k \in issued', k[1] = job.xn1, k[2] = job.id
      PROVE  k[3] < x2' \/ <<job.xn1, job.id>> \in wrapped'
  <2>1. CASE x2 + 1 = X2Size
    BY <2>1 DEF TakeX2, Issue
  <2>2. CASE x2 + 1 # X2Size
    <3>1. x2' = x2 + 1
      BY <2>2 DEF TakeX2
    <3>2. CASE k = Key(Header)
      BY <3>1, <3>2, <1>1
    <3>3. CASE k \in issued
      <4>1. k[3] \in Nat
        BY <3>3 DEF Base, TypeOK
      <4>. QED
        BY <3>1, <3>3, <4>1, <1>1, <1>2, <1>4 DEF IssuedBelow
    <3>. QED
      BY <1>2, <3>2, <3>3
  <2>. QED
    BY <2>1, <2>2
<1>5. IssuedBelow'
  BY <1>4 DEF IssuedBelow
<1>6. Key(Header) \notin issued \/ <<job.xn1, job.id>> \in wrapped
  BY <1>1 DEF IssuedBelow
<1>. QED
  BY <1>2, <1>3, <1>5, <1>6 DEF IssuedSeen

\* Steps that issue no header and let no thread become busy.
LEMMA UniqueFrame ==
    ASSUME Unique, UNCHANGED <<job, x2, issued, wrapped, pairs, work>>,
           \A t \in Threads : Busy(t)' => Busy(t)
    PROVE  Unique'
<1>1. IssuedSeen' /\ IssuedBelow'
  BY DEF Unique, IssuedSeen, IssuedBelow
<1>2. WorkIssued'
  BY DEF Unique, WorkIssued
<1>3. NoTwoFpgasShareWork'
  BY DEF Unique, NoTwoFpgasShareWork, Overflowed
<1>. QED
  BY <1>1, <1>2, <1>3 DEF Unique

LEMMA UniqueStep == Base /\ Unique /\ [Next]_vars => Unique'
<1>. SUFFICES ASSUME Base, Unique, [Next]_vars
              PROVE  Unique'
  OBVIOUS
<1>. USE DEF sessionVars, poolVars, gworkVars, apiVars, fpgaVars, x2Vars
<1>1. CASE \/ Reset \/ TakeUrl \/ Top \/ ZeroTime \/ (\E x \in Xn1 : Connect(x))
           \/ ConnectionFails \/ Authorize \/ NothingNew \/ StampTime
           \/ RestartThreads \/ (\E d \in Diffs : SetDifficulty(d))
           \/ (\E x \in Xn1 : SetExtranonce(x)) \/ OtherLine
           \/ (\E u \in Urls : Disconnect(u)) \/ (\E u \in Urls : SetUrl(u)) \/ RaiseReset
           \/ Age
  <2>1. UNCHANGED <<job, x2, issued, wrapped, pairs, work, fpga>>
    BY <1>1 DEF Reset, TakeUrl, Top, ZeroTime, Connect, ConnectionFails, Authorize,
                NothingNew, StampTime, RestartThreads, SetDifficulty,
                SetExtranonce, OtherLine, Disconnect, SetUrl, RaiseReset, Age
  <2>. QED
    BY <2>1, UniqueFrame DEF Busy
<1>2. ASSUME NEW t \in Threads,
             \/ FindFresh(t) \/ SetTarget(t) \/ ClearRestart(t)
             \/ LeaveOnRestart(t) \/ LeaveOnTimeout(t)
      PROVE  Unique'
  <2>1. /\ UNCHANGED <<job, x2, issued, wrapped, pairs, work>>
        /\ \A s \in Threads : Busy(s)' => Busy(s)
    BY <1>2 DEF FindFresh, SetTarget, ClearRestart, LeaveOnRestart,
                LeaveOnTimeout, Busy, Base, TypeOK
  <2>. QED
    BY <2>1, UniqueFrame
<1>3. CASE Publish
  <2>1. job # NoJob /\ TakeX2 /\ UNCHANGED <<job, pairs, work, fpga>>
    BY <1>3 DEF Publish, JobIsNew
  <2>2. /\ IssuedSeen' /\ IssuedBelow'
        /\ issued \subseteq issued' /\ wrapped \subseteq wrapped'
    BY <2>1, TakeUnique DEF Unique
  <2>3. WorkIssued' /\ NoTwoFpgasShareWork'
    BY <2>1, <2>2 DEF Unique, WorkIssued, NoTwoFpgasShareWork, Overflowed, Busy
  <2>. QED
    BY <2>2, <2>3 DEF Unique
<1>4. ASSUME NEW t \in Threads, Generate(t)
      PROVE  Unique'
  <2>1. /\ job # NoJob /\ TakeX2 /\ UNCHANGED <<job, pairs>>
        /\ work' = [work EXCEPT ![t] = Header]
        /\ fpga' = [fpga EXCEPT ![t] = "targeting"]
    BY <1>4 DEF Generate
  <2>2. /\ IssuedSeen' /\ IssuedBelow'
        /\ issued' = issued \cup {Key(Header)}
        /\ wrapped \subseteq wrapped'
        /\ Key(Header) \notin issued \/ <<job.xn1, job.id>> \in wrapped
    BY <2>1, TakeUnique DEF Unique
  <2>3. /\ work'[t] = Header
        /\ \A s \in Threads : s # t => work'[s] = work[s] /\ (Busy(s)' <=> Busy(s))
    BY <2>1 DEF Base, TypeOK, Busy
  <2>4. WorkIssued'
    BY <2>2, <2>3 DEF Unique, WorkIssued
  <2>5. Overflowed(Header) <=> <<job.xn1, job.id>> \in wrapped
    BY DEF Overflowed, Header
  <2>6. ASSUME NEW s \in Threads, s # t, Busy(s), Key(work[s]) = Key(Header)
        PROVE  Overflowed(Header)
    BY <2>2, <2>5, <2>6 DEF Unique, WorkIssued
  <2>7. ASSUME NEW s \in Threads, Key(work[s]) = Key(Header)
        PROVE  Overflowed(work[s]) <=> Overflowed(Header)
    BY <2>7 DEF Key, Overflowed
  <2>8. NoTwoFpgasShareWork'
    BY <2>2, <2>3, <2>6, <2>7 DEF Unique, NoTwoFpgasShareWork, Overflowed
  <2>. QED
    BY <2>2, <2>4, <2>8 DEF Unique
<1>5. ASSUME NEW i \in Ids, NEW p \in Prevs, NEW c \in BOOLEAN, Notify(i, p, c)
      PROVE  Unique'
  <2>1. /\ UNCHANGED <<issued, wrapped, work, fpga>>
        /\ pairs' = pairs \cup {<<xn1, i>>}
        /\ job'.xn1 = xn1 /\ job'.id = i
    BY <1>5 DEF Notify, JobLine
  <2>2. IssuedSeen' /\ WorkIssued' /\ NoTwoFpgasShareWork'
    BY <2>1 DEF Unique, IssuedSeen, WorkIssued, NoTwoFpgasShareWork, Overflowed, Busy
  <2>3. CASE <<xn1, i>> \notin pairs
    <3>1. ASSUME NEW k \in issued, k[1] = xn1, k[2] = i
          PROVE  FALSE
      BY <2>3, <3>1 DEF Unique, IssuedSeen
    <3>2. IssuedBelow'
      BY <2>1, <3>1 DEF IssuedBelow
    <3>. QED
      BY <2>2, <3>2 DEF Unique
  <2>4. CASE <<xn1, i>> \in pairs
    <3>1. job # NoJob /\ i = job.id /\ xn1 = job.xn1 /\ x2' = x2
      BY <1>5, <2>4 DEF Notify, JobLine, ResetX2
    <3>2. job'.xn1 = job.xn1 /\ job'.id = job.id
      BY <2>1, <3>1
    <3>3. IssuedBelow'
      BY <2>1, <3>1, <3>2 DEF Unique, IssuedBelow
    <3>. QED
      BY <2>2, <3>3 DEF Unique
  <2>. QED
    BY <2>3, <2>4
<1>6. CASE UNCHANGED vars
  BY <1>6, UniqueFrame DEF vars, Busy
<1>. QED
  BY <1>1, <1>2, <1>3, <1>4, <1>5, <1>6 DEF Next, StratumStep, FpgaStep

LEMMA UniqueInit == Init => Unique
BY DEF Init, Unique, IssuedSeen, IssuedBelow, WorkIssued, NoTwoFpgasShareWork, Busy

\* However many FPGA threads draw from the job, in whatever order they do and
\* whatever the pool announces, no two search the same header before the
\* job's extranonce2 overflows.
THEOREM FpgasNeverShareWork == Spec => []NoTwoFpgasShareWork
<1>1. Unique => NoTwoFpgasShareWork
  BY DEF Unique
<1>. QED
  BY <1>1, BaseInit, BaseStep, UniqueInit, UniqueStep, PTL DEF Spec

\* A thread that generates a header uses up an extranonce2 that is new.
LEMMA GenerateIsNew ==
    ASSUME Base, Unique, NEW t \in Threads, Generate(t)
    PROVE  Key(work'[t]) \notin issued \/ Overflowed(work'[t])
<1>1. job # NoJob /\ TakeX2 /\ UNCHANGED <<job, pairs>>
  BY DEF Generate, poolVars
<1>2. work'[t] = Header
  BY DEF Generate, Base, TypeOK
<1>3. Key(Header) \notin issued \/ <<job.xn1, job.id>> \in wrapped
  BY <1>1, TakeUnique DEF Unique
<1>4. Overflowed(Header) <=> <<job.xn1, job.id>> \in wrapped
  BY DEF Overflowed, Header
<1>. QED
  BY <1>2, <1>3, <1>4

\* No other step takes a thread from the gate to its target.
LEMMA OnlyGenerate ==
    ASSUME Base, [Next]_vars, NEW t \in Threads,
           fpga[t] = "generating", fpga'[t] = "targeting"
    PROVE  Generate(t)
<1>. USE DEF apiVars, fpgaVars
<1>1. CASE StratumStep \/ (\E u \in Urls : SetUrl(u)) \/ RaiseReset \/ Age
  BY <1>1 DEF StratumStep, Reset, TakeUrl, Top, ZeroTime, Connect, ConnectionFails,
              Authorize, NothingNew, Publish, StampTime, RestartThreads, Notify,
              SetDifficulty, SetExtranonce, OtherLine, Disconnect, SetUrl, RaiseReset, Age
<1>2. ASSUME NEW s \in Threads, FpgaStep(s)
      PROVE  Generate(t)
  BY <1>2 DEF FpgaStep, FindFresh, Generate, SetTarget, ClearRestart,
              LeaveOnRestart, LeaveOnTimeout, Base, TypeOK
<1>3. CASE UNCHANGED vars
  BY <1>3 DEF vars
<1>. QED
  BY <1>1, <1>2, <1>3 DEF Next

\* No header is ever generated twice, by one thread or by two, unless its
\* job's extranonce2 has overflowed.
THEOREM WorkIsAlwaysNew == Spec => EveryWorkIsNew
<1>1. ASSUME Base, Unique, [Next]_vars
      PROVE  [\A t \in Threads :
                fpga[t] = "generating" /\ fpga'[t] = "targeting"
                   => Key(work'[t]) \notin issued \/ Overflowed(work'[t])]_vars
  BY <1>1, OnlyGenerate, GenerateIsNew
<1>. QED
  BY <1>1, BaseInit, BaseStep, UniqueInit, UniqueStep, PTL DEF Spec, EveryWorkIsNew

-----------------------------------------------------------------------------
(***************************************************************************)
(* Publication.  Outside the places where a job line can come, g_work may  *)
(* be a job behind, but equal ids still mean equal previous blocks, unless *)
(* g_work was declared void or the pool gave the id another previous block.*)
(***************************************************************************)
SameBlock == moved \/ gwork.prev = job.prev

SameAsJob == gwork # NoWork /\ gwork.id = job.id /\ SameBlock

Published ==
    /\ stratum \in {"timing", "restarting", "receiving"} /\ job # NoJob => SameAsJob
    /\ job # NoJob /\ gtime # "zero" /\ gwork.id = job.id => SameBlock
    /\ stratum \in {"connecting", "authorizing"} => gtime = "zero"

LEMMA PublishedStep == Base /\ Published /\ [Next]_vars => Published'
<1>. SUFFICES ASSUME Base, Published, [Next]_vars
              PROVE  Published'
  OBVIOUS
<1>. USE DEF sessionVars, poolVars, gworkVars, Published, SameAsJob, SameBlock
<1>1. CASE \/ Reset \/ TakeUrl \/ Top \/ ZeroTime \/ (\E x \in Xn1 : Connect(x))
           \/ ConnectionFails \/ Authorize
  BY <1>1 DEF Reset, TakeUrl, Top, ZeroTime, Connect, ConnectionFails, Authorize
<1>2. CASE NothingNew
  BY <1>2 DEF NothingNew, JobIsNew, Base, Gate, JobBeforeWork
<1>3. CASE Publish
  <2>1. /\ stratum' = "timing" /\ UNCHANGED <<job, gtime>>
        /\ gwork' = Header /\ Header # NoWork
    BY <1>3, HeaderType, NoValueAssumption DEF Publish, JobIsNew, Base
  <2>2. Header.id = job.id /\ Header.prev = job.prev
    BY DEF Header
  <2>. QED
    BY <2>1, <2>2
<1>4. CASE StampTime
  BY <1>4 DEF StampTime
<1>5. CASE RestartThreads \/ OtherLine \/ (\E u \in Urls : Disconnect(u))
  BY <1>5 DEF RestartThreads, OtherLine, Disconnect
<1>6. CASE \/ (\E d \in Diffs : SetDifficulty(d)) \/ (\E x \in Xn1 : SetExtranonce(x))
  BY <1>6 DEF SetDifficulty, SetExtranonce, Listening, LineHandled
<1>7. ASSUME NEW i \in Ids, NEW p \in Prevs, NEW c \in BOOLEAN, Notify(i, p, c)
      PROVE  Published'
  <2>1. UNCHANGED <<gwork, gtime>> /\ job'.id = i /\ job'.prev = p
    BY <1>7 DEF Notify, JobLine
  <2>2. CASE stratum = "authorizing"
    BY <1>7, <2>1, <2>2 DEF Notify, LineHandled
  <2>3. CASE stratum = "receiving"
    <3>1. stratum' = "top"
      BY <1>7, <2>3 DEF Notify, LineHandled
    <3>2. CASE job = NoJob
      BY <2>1, <3>1, <3>2 DEF Base, Gate, JobBeforeWork
    <3>3. CASE job # NoJob
      <4>1. (i = job.id /\ (moved' <=> moved \/ p # job.prev)) \/ i # job.id
        BY <1>7, <3>3 DEF Notify, JobLine
      <4>. QED
        BY <2>1, <2>3, <3>1, <3>3, <4>1
    <3>. QED
      BY <3>2, <3>3
  <2>. QED
    BY <1>7, <2>2, <2>3 DEF Notify, Listening
<1>8. CASE (\E u \in Urls : SetUrl(u)) \/ RaiseReset \/ Age
  BY <1>8 DEF SetUrl, RaiseReset, Age
<1>9. ASSUME NEW t \in Threads, FpgaStep(t)
      PROVE  Published'
  BY <1>9 DEF FpgaStep, FindFresh, Generate, SetTarget, ClearRestart,
              LeaveOnRestart, LeaveOnTimeout
<1>10. CASE UNCHANGED vars
  BY <1>10 DEF vars
<1>. QED
  BY <1>1, <1>2, <1>3, <1>4, <1>5, <1>6, <1>7, <1>8, <1>9, <1>10
     DEF Next, StratumStep

\* Whenever stratum_thread waits for a line, the g_work that stale shares are
\* told by is of the same job as the one the FPGA threads draw from, and, unless
\* the pool announced that job's id for two previous blocks, of the same block.
THEOREM GWorkIsCurrent == Spec => []PublishedIsCurrent
<1>1. Init => Published
  BY DEF Init, Published
<1>2. Published => PublishedIsCurrent
  BY DEF Published, SameAsJob, SameBlock, PublishedIsCurrent
<1>. QED
  BY <1>1, <1>2, BaseInit, BaseStep, PublishedStep, PTL DEF Spec

-----------------------------------------------------------------------------
(***************************************************************************)
(* Targets.  diffs is the history of the jobs' difficulties; the current   *)
(* job is its last entry and a busy thread's header stems from one of it.  *)
(***************************************************************************)
JobIsLast == job # NoJob => job.n = Len(diffs) /\ Len(diffs) > 0 /\ diffs[job.n] = job.diff

WorkIsOlder ==
    \A t \in Threads : Busy(t) => work[t].n \in Nat \ {0} /\ work[t].n <= Len(diffs)

Targets == JobIsLast /\ WorkIsOlder /\ TargetOfSomeJobSince /\ notifies = Len(diffs)

\* Steps that announce no job, set no target and let no thread become busy.
LEMMA TargetsFrame ==
    ASSUME Targets, UNCHANGED <<job, diffs, notifies, work, target>>,
           \A t \in Threads : fpga'[t] = fpga[t] \/ fpga'[t] \in {"waiting", "generating"}
                             \/ (fpga[t] = "arming" /\ fpga'[t] = "mining")
    PROVE  Targets'
BY DEF Targets, JobIsLast, WorkIsOlder, TargetOfSomeJobSince, Busy

LEMMA TargetsStep == Base /\ Targets /\ [Next]_vars => Targets'
<1>. SUFFICES ASSUME Base, Targets, [Next]_vars
              PROVE  Targets'
  OBVIOUS
<1>. USE DEF sessionVars, poolVars, gworkVars, apiVars, fpgaVars, x2Vars
<1>1. CASE \/ Reset \/ TakeUrl \/ Top \/ ZeroTime \/ (\E x \in Xn1 : Connect(x))
           \/ ConnectionFails \/ Authorize \/ NothingNew \/ Publish \/ StampTime
           \/ RestartThreads \/ (\E d \in Diffs : SetDifficulty(d))
           \/ (\E x \in Xn1 : SetExtranonce(x)) \/ OtherLine
           \/ (\E u \in Urls : Disconnect(u)) \/ (\E u \in Urls : SetUrl(u)) \/ RaiseReset
           \/ Age \/ UNCHANGED vars
  <2>1. UNCHANGED <<job, diffs, notifies, work, target, fpga>>
    BY <1>1 DEF Reset, TakeUrl, Top, ZeroTime, Connect, ConnectionFails, Authorize,
                NothingNew, Publish, StampTime, RestartThreads, SetDifficulty,
                SetExtranonce, OtherLine, Disconnect, SetUrl, RaiseReset, Age, vars
  <2>. QED
    BY <2>1, TargetsFrame
<1>2. ASSUME NEW t \in Threads,
             FindFresh(t) \/ ClearRestart(t) \/ LeaveOnRestart(t) \/ LeaveOnTimeout(t)
      PROVE  Targets'
  <2>1. /\ UNCHANGED <<job, diffs, notifies, work, target>>
        /\ \A s \in Threads : fpga'[s] = fpga[s] \/ fpga'[s] \in {"waiting", "generating"}
                              \/ (fpga[s] = "arming" /\ fpga'[s] = "mining")
    BY <1>2 DEF FindFresh, ClearRestart, LeaveOnRestart, LeaveOnTimeout, Base, TypeOK
  <2>. QED
    BY <2>1, TargetsFrame
<1>3. ASSUME NEW t \in Threads, Generate(t)
      PROVE  Targets'
  <2>1. /\ job # NoJob /\ UNCHANGED <<job, diffs, notifies, target>>
        /\ work'[t] = Header /\ fpga'[t] = "targeting"
        /\ \A s \in Threads : s # t => work'[s] = work[s] /\ fpga'[s] = fpga[s]
    BY <1>3 DEF Generate, Base, TypeOK
  <2>2. Header.n \in Nat \ {0} /\ Header.n <= Len(diffs)
    BY <2>1, HeaderType DEF Targets, JobIsLast, Header, Base, TypeOK
  <2>3. WorkIsOlder'
    BY <2>1, <2>2 DEF Targets, WorkIsOlder, Busy
  <2>4. TargetOfSomeJobSince'
    BY <2>1 DEF Targets, TargetOfSomeJobSince
  <2>. QED
    BY <2>1, <2>3, <2>4 DEF Targets, JobIsLast
<1>4. ASSUME NEW t \in Threads, SetTarget(t)
      PROVE  Targets'
  <2>1. /\ UNCHANGED <<job, diffs, notifies, work>>
        /\ fpga[t] = "targeting" /\ target'[t] = job.diff
        /\ \A s \in Threads : s # t => target'[s] = target[s] /\ fpga'[s] = fpga[s]
    BY <1>4 DEF SetTarget, Base, TypeOK
  <2>2. job # NoJob
    BY <2>1 DEF Base, Gate, JobBeforeWork
  <2>3. /\ work[t].n \in Nat \ {0} /\ work[t].n <= Len(diffs)
        /\ Len(diffs) \in Nat /\ diffs[Len(diffs)] = target'[t]
    BY <2>1, <2>2 DEF Targets, JobIsLast, WorkIsOlder, Busy, Base, TypeOK
  <2>4. \E k \in work[t].n..Len(diffs) : diffs[k] = target'[t]
    BY <2>3
  <2>5. TargetOfSomeJobSince'
    BY <2>1, <2>4 DEF Targets, TargetOfSomeJobSince
  <2>6. WorkIsOlder'
    BY <2>1 DEF Targets, WorkIsOlder, Busy
  <2>. QED
    BY <2>1, <2>5, <2>6 DEF Targets, JobIsLast
<1>5. ASSUME NEW i \in Ids, NEW p \in Prevs, NEW c \in BOOLEAN, Notify(i, p, c)
      PROVE  Targets'
  <2>1. /\ UNCHANGED <<fpga, work, target>>
        /\ notifies' = notifies + 1 /\ diffs' = Append(diffs, nextDiff)
        /\ job'.n = notifies + 1 /\ job'.diff = nextDiff
    BY <1>5 DEF Notify, JobLine
  <2>2. /\ Len(diffs) \in Nat /\ Len(diffs') = Len(diffs) + 1
        /\ diffs'[Len(diffs) + 1] = nextDiff
        /\ \A k \in 1..Len(diffs) : diffs'[k] = diffs[k]
    BY <2>1, AppendProperties DEF Base, TypeOK
  <2>3. JobIsLast' /\ notifies' = Len(diffs')
    BY <2>1, <2>2 DEF Targets, JobIsLast
  <2>4. WorkIsOlder'
    BY <2>1, <2>2 DEF Targets, WorkIsOlder, Busy
  <2>5. ASSUME NEW t \in Threads, fpga[t] \in {"arming", "mining"}
        PROVE  \E k \in work[t].n..Len(diffs') : diffs'[k] = target[t]
    <3>1. PICK k \in work[t].n..Len(diffs) : diffs[k] = target[t]
      BY <2>5 DEF Targets, TargetOfSomeJobSince
    <3>2. work[t].n \in Nat \ {0}
      BY <2>5 DEF Targets, WorkIsOlder, Busy
    <3>. QED
      BY <2>2, <3>1, <3>2
  <2>6. TargetOfSomeJobSince'
    BY <2>1, <2>5 DEF TargetOfSomeJobSince
  <2>. QED
    BY <2>3, <2>4, <2>6 DEF Targets
<1>. QED
  BY <1>1, <1>2, <1>3, <1>4, <1>5 DEF Next, StratumStep, FpgaStep

\* The difficulty behind a thread's target, read outside work_lock, belongs to
\* a job announced since its header's job, or to that job itself.
THEOREM TargetIsOfSomeJobSince == Spec => []TargetOfSomeJobSince
<1>1. Init => Targets
  BY EmptySeq DEF Init, Targets, JobIsLast, WorkIsOlder, TargetOfSomeJobSince, Busy
<1>2. Targets => TargetOfSomeJobSince
  BY DEF Targets
<1>. QED
  BY <1>1, <1>2, BaseInit, BaseStep, TargetsStep, PTL DEF Spec

-----------------------------------------------------------------------------
(***************************************************************************)
(* The API server: SessionMatchesSetUrl for any pools, accounts, retries   *)
(* and seturl requests.  It is not inductive: a session begins with what   *)
(* the connection loop reads long before, and goes through the head of the *)
(* loop after every line.                                                  *)
(***************************************************************************)
\* No seturl is under way or waiting to be noticed.
Settled == ~needReset /\ api \notin {"replacing", "raising", "exited"}

\* stratum_authorize has been called on the connection that is open.
Session ==
    \/ stratum \in {"authorizing", "publishing", "timing", "restarting", "receiving"}
    \/ stratum = "top" /\ curl

UrlIsSet  == Settled /\ stratum # "resetting" => url = rpcUrl \/ redirected
UserIsSet == Settled /\ Session => sessionUser = rpcUser

ApiInv == UrlIsSet /\ UserIsSet

\* The invariant says more than the property: exit ends every thread.
LEMMA InvImpliesMatch == ApiInv => SessionMatchesSetUrl
  BY DEF ApiInv, UrlIsSet, UserIsSet, Settled, Session, SessionMatchesSetUrl, Running

LEMMA ApiInvInit == ApiInit => ApiInv
  BY DEF ApiInit, Init, ApiInv, UrlIsSet, UserIsSet, Settled, Session

\* A step of the distribution of work that is not one of seturl leaves the API
\* thread alone, or has it before it raises the flag.
LEMMA ApiWaits ==
  ASSUME Beside, UNCHANGED urlSet
  PROVE  api' = api \/ api' = "raising"
  BY DEF Beside, SetUrlPart

\* seturl itself, in its last two steps.
LEMMA SetUrlUnsettles ==
  ASSUME Beside, (\E u \in Urls : SetUrl(u)) \/ RaiseReset
  PROVE  ~Settled'
<1>1. CASE \E u \in Urls : SetUrl(u)
  <2>1. ~urlSet /\ urlSet'
    BY <1>1 DEF SetUrl
  <2> QED
    BY <2>1 DEF Beside, SetUrlPart, Settled
<1>2. CASE RaiseReset
  BY <1>2 DEF RaiseReset, Settled
<1> QED
  BY <1>1, <1>2

\* What a step of the distribution does to the session, and with what.
LEMMA StratumKeeps ==
  ASSUME ApiInv, Beside, StratumStep
  PROVE  ApiInv'
<1> USE DEF ApiInv, UrlIsSet, UserIsSet, Session, Settled
<1>w. (UNCHANGED urlSet) => (api' = api \/ api' = "raising")
  BY ApiWaits
<1>a. /\ Subscribed => sessionUser' = rpcUser
      /\ ~Subscribed => sessionUser' = sessionUser
      /\ ~TookUrl /\ (redirected \/ url' # url) => redirected'
      /\ rpcUser' = rpcUser
  BY Zenon DEF Beside
<1>1. CASE Reset
  BY <1>1, <1>w, <1>a DEF Reset, apiVars, Subscribed, TookUrl
<1>2. CASE TakeUrl
  BY <1>2, <1>w, <1>a DEF TakeUrl, apiVars, Subscribed, TookUrl
<1>3. CASE Top
  BY <1>3, <1>w, <1>a DEF Top, sessionVars, apiVars, Subscribed, TookUrl
<1>4. CASE ZeroTime
  BY <1>4, <1>w, <1>a DEF ZeroTime, sessionVars, apiVars, Subscribed, TookUrl
<1>5. CASE \E x \in Xn1 : Connect(x)
  BY <1>5, <1>w, <1>a DEF Connect, apiVars, Subscribed, TookUrl
<1>6. CASE ConnectionFails
  BY <1>6, <1>w, <1>a DEF ConnectionFails, apiVars, Subscribed, TookUrl
<1>7. CASE Authorize \/ NothingNew
  BY <1>7, <1>w, <1>a DEF Authorize, NothingNew, sessionVars, apiVars, Subscribed, TookUrl
<1>8. CASE Publish \/ StampTime \/ RestartThreads
  BY <1>8, <1>w, <1>a DEF Publish, StampTime, RestartThreads, sessionVars, apiVars,
                          Subscribed, TookUrl
<1>9. CASE \E i \in Ids, p \in Prevs, c \in BOOLEAN : Notify(i, p, c)
  BY <1>9, <1>w, <1>a DEF Notify, Listening, LineHandled, sessionVars, apiVars,
                          Subscribed, TookUrl
<1>10. CASE \E d \in Diffs : SetDifficulty(d)
  BY <1>10, <1>w, <1>a DEF SetDifficulty, Listening, LineHandled, apiVars, Subscribed, TookUrl
<1>11. CASE \E x \in Xn1 : SetExtranonce(x)
  BY <1>11, <1>w, <1>a DEF SetExtranonce, Listening, LineHandled, apiVars, Subscribed, TookUrl
<1>12. CASE OtherLine
  BY <1>12, <1>w, <1>a DEF OtherLine, sessionVars, apiVars, Subscribed, TookUrl
<1>13. CASE \E u \in Urls : Disconnect(u)
  BY <1>13, <1>w, <1>a DEF Disconnect, apiVars, Subscribed, TookUrl
<1> QED
  BY <1>1, <1>2, <1>3, <1>4, <1>5, <1>6, <1>7, <1>8, <1>9, <1>10, <1>11, <1>12, <1>13
  DEF StratumStep

\* The other threads of the distribution touch none of it.
LEMMA DistributeKeeps ==
  ASSUME ApiInv, DistributeBeside
  PROVE  ApiInv'
<1>1. Beside /\ Next
  BY DEF DistributeBeside
<1>2. CASE StratumStep
  BY <1>1, <1>2, StratumKeeps
<1>3. CASE (\E u \in Urls : SetUrl(u)) \/ RaiseReset
  BY <1>1, <1>3, SetUrlUnsettles DEF ApiInv, UrlIsSet, UserIsSet
<1>4. CASE Age \/ \E t \in Threads : FpgaStep(t)
  <2>1. UNCHANGED <<stratum, curl, url, rpcUrl, needReset, urlSet>>
    BY <1>4 DEF Age, FpgaStep, FindFresh, Generate, SetTarget, ClearRestart,
                LeaveOnRestart, LeaveOnTimeout, sessionVars, apiVars
  <2>2. api' = api \/ api' = "raising"
    BY <1>1, <2>1, ApiWaits
  <2>3. stratum # "connecting" \/ stratum' # "authorizing"
    BY <2>1
  <2>4. ~Subscribed /\ ~TookUrl
    BY <2>1 DEF Subscribed, TookUrl
  <2>5. UNCHANGED <<rpcUser, sessionUser>> /\ (redirected => redirected')
    BY <1>1, <2>4, Zenon DEF Beside
  <2> QED
    BY <2>1, <2>2, <2>5 DEF ApiInv, UrlIsSet, UserIsSet, Session, Settled
<1> QED
  BY <1>1, <1>2, <1>3, <1>4 DEF Next

\* A step of the API thread leaves stratum_thread alone, and may only settle
\* a seturl by ending the process.
LEMMA ApiStepKeeps ==
  ASSUME ApiInv, ApiStep
  PROVE  ApiInv'
<1>1. CASE \E u \in Urls, user \in Users \cup {Keep} : ReplaceUser(u, user)
  BY <1>1 DEF ReplaceUser, ApiInv, UrlIsSet, UserIsSet, Settled
<1>2. CASE RejectUrl
  BY <1>2 DEF RejectUrl, GoesTo, ApiInv, UrlIsSet, UserIsSet, Settled
<1>3. CASE Quit
  BY <1>3 DEF Quit, vars, sessionVars, accounts, ApiInv, UrlIsSet, UserIsSet, Settled, Session
<1>4. CASE \/ Bind \/ BindFails \/ Accept \/ AcceptFails \/ ReadNothing \/ Query \/ Answer
           \/ Leave
  <2>1. api \notin {"replacing", "raising", "exited"}
    BY <1>4 DEF Bind, BindFails, Accept, AcceptFails, ReadNothing, Query, Answer, Leave, GoesTo
  <2>2. UNCHANGED <<vars, accounts>>
    BY <1>4 DEF Bind, BindFails, Accept, AcceptFails, ReadNothing, Query, Answer, Leave, GoesTo
  <2> QED
    BY <2>1, <2>2 DEF vars, sessionVars, accounts, ApiInv, UrlIsSet, UserIsSet, Settled, Session
<1> QED
  BY <1>1, <1>2, <1>3, <1>4 DEF ApiStep

\* Every step preserves the invariant.
LEMMA ApiInvStep == ApiInv /\ [ApiNext]_apiServerVars => ApiInv'
<1> SUFFICES ASSUME ApiInv, [ApiNext]_apiServerVars PROVE ApiInv'
  OBVIOUS
<1>1. CASE DistributeBeside
  BY <1>1, DistributeKeeps
<1>2. CASE ApiStep
  BY <1>2, ApiStepKeeps
<1>3. CASE UNCHANGED apiServerVars
  BY <1>3 DEF apiServerVars, vars, sessionVars, apiState, accounts, ApiInv, UrlIsSet,
              UserIsSet, Settled, Session
<1> QED
  BY <1>1, <1>2, <1>3 DEF ApiNext

\* For any pools, accounts and number of requests: when no seturl is under way
\* an open session is with the url and for the account that were set last,
\* wherever stratum_thread was while they were replaced.
THEOREM SessionAlwaysMatches == ApiSpec => []SessionMatchesSetUrl
<1>1. ApiSpec => []ApiInv
  BY ApiInvInit, ApiInvStep, PTL DEF ApiSpec
<1> QED
  BY <1>1, InvImpliesMatch, PTL

-----------------------------------------------------------------------------
(***************************************************************************)
(* A share is cut from a header: a busy thread has one.                    *)
(***************************************************************************)
HasWork == \A t \in Threads : Busy(t) => work[t] \in Headers

LEMMA HasWorkStep == Base /\ HasWork /\ [Next]_vars => HasWork'
<1>. SUFFICES ASSUME Base, HasWork, [Next]_vars
              PROVE  HasWork'
  OBVIOUS
<1>. USE DEF apiVars, fpgaVars
<1>1. CASE StratumStep \/ (\E u \in Urls : SetUrl(u)) \/ RaiseReset \/ Age \/ UNCHANGED vars
  <2>1. UNCHANGED <<work, fpga>>
    BY <1>1 DEF StratumStep, Reset, TakeUrl, Top, ZeroTime, Connect, ConnectionFails,
                Authorize, NothingNew, Publish, StampTime, RestartThreads, Notify,
                SetDifficulty, SetExtranonce, OtherLine, Disconnect, SetUrl, RaiseReset, Age, vars
  <2>. QED
    BY <2>1 DEF HasWork, Busy
<1>2. ASSUME NEW t \in Threads, FpgaStep(t)
      PROVE  HasWork'
  <2>1. CASE Generate(t)
    <3>1. Header \in Headers
      BY <2>1, HeaderType DEF Generate, Base
    <3>. QED
      BY <2>1, <3>1 DEF Generate, HasWork, Busy, Base, TypeOK
  <2>2. CASE FindFresh(t) \/ SetTarget(t) \/ ClearRestart(t)
               \/ LeaveOnRestart(t) \/ LeaveOnTimeout(t)
    BY <2>2 DEF FindFresh, SetTarget, ClearRestart, LeaveOnRestart, LeaveOnTimeout,
                HasWork, Busy, Base, TypeOK
  <2>. QED
    BY <1>2, <2>1, <2>2 DEF FpgaStep
<1>. QED
  BY <1>1, <1>2 DEF Next

-----------------------------------------------------------------------------
(***************************************************************************)
(* What appending to a sequence and taking its head do to its elements.    *)
(***************************************************************************)
Elements(s) == {s[i] : i \in 1..Len(s)}

LEMMA ElementsOfAppend ==
    ASSUME NEW S, NEW s \in Seq(S), NEW e \in S
    PROVE  /\ Append(s, e) \in Seq(S)
           /\ Len(s) \in Nat /\ Len(Append(s, e)) = Len(s) + 1
           /\ Append(s, e)[Len(s) + 1] = e
           /\ \A i \in 1..Len(s) : Append(s, e)[i] = s[i]
           /\ Elements(Append(s, e)) = Elements(s) \cup {e}
<1>1. /\ Append(s, e) \in Seq(S)
      /\ Len(s) \in Nat /\ Len(Append(s, e)) = Len(s) + 1
      /\ Append(s, e)[Len(s) + 1] = e
      /\ \A i \in 1..Len(s) : Append(s, e)[i] = s[i]
  BY AppendProperties
<1>2. \A i : i \in 1..Len(s) + 1 <=> i \in 1..Len(s) \/ i = Len(s) + 1
  BY <1>1
<1>. QED
  BY <1>1, <1>2 DEF Elements

LEMMA ElementsOfTail ==
    ASSUME NEW S, NEW s \in Seq(S), s # <<>>
    PROVE  /\ Tail(s) \in Seq(S) /\ Head(s) \in S /\ Head(s) = s[1]
           /\ Len(s) \in Nat /\ Len(s) > 0 /\ Len(Tail(s)) = Len(s) - 1
           /\ \A i \in 1..Len(Tail(s)) : Tail(s)[i] = s[i + 1] /\ i + 1 \in 1..Len(s)
           /\ Elements(s) = Elements(Tail(s)) \cup {Head(s)}
<1>1. /\ Tail(s) \in Seq(S) /\ Head(s) \in S /\ Head(s) = s[1]
      /\ Len(s) \in Nat /\ Len(s) > 0 /\ Len(Tail(s)) = Len(s) - 1
      /\ \A i \in 1..Len(Tail(s)) : Tail(s)[i] = s[i + 1]
  BY HeadTailProperties
<1>2. \A i \in 1..Len(Tail(s)) : i + 1 \in 1..Len(s)
  BY <1>1
<1>3. ASSUME NEW i \in 1..Len(s)
      PROVE  i = 1 \/ (i - 1 \in 1..Len(Tail(s)) /\ s[i] = Tail(s)[i - 1])
  BY <1>1
<1>4. Elements(s) \subseteq Elements(Tail(s)) \cup {Head(s)}
  BY <1>1, <1>3 DEF Elements
<1>5. Elements(Tail(s)) \cup {Head(s)} \subseteq Elements(s)
  BY <1>1, <1>2 DEF Elements
<1>. QED
  BY <1>1, <1>2, <1>4, <1>5

-----------------------------------------------------------------------------
(***************************************************************************)
(* The invariant: the types, and that shares are numbered in the order in  *)
(* which they wait, the one in hand first.                                 *)
(***************************************************************************)
Typed == Base /\ HasWork /\ FlowTypeOK

Ordered ==
    /\ held # NoShare => held.n <= found
    /\ \A i \in 1..Len(queue) :
          queue[i] # Stop => /\ queue[i].n <= found
                             /\ held # NoShare => held.n < queue[i].n
    /\ \A i, j \in 1..Len(queue) :
          i < j /\ queue[i] # Stop /\ queue[j] # Stop => queue[i].n < queue[j].n

FlowInv == Typed /\ Ordered

LEMMA FlowInvInit == FlowInit => FlowInv
<1>. SUFFICES ASSUME FlowInit PROVE FlowInv
  OBVIOUS
<1>1. Base /\ HasWork
  BY BaseInit DEF FlowInit, Init, HasWork, Busy
<1>2. <<>> \in Seq(Shares \cup {Stop}) /\ <<>> \in Seq(Shares) /\ Len(<<>>) = 0
  BY EmptySeq
<1>3. FlowTypeOK
  BY <1>2 DEF FlowInit, FlowTypeOK, WorkioPlaces
<1>4. Ordered
  BY <1>2 DEF FlowInit, Ordered
<1>. QED
  BY <1>1, <1>3, <1>4 DEF FlowInv, Typed

\* Every step of the way of the shares is one of the distribution, or leaves it.
LEMMA NextUnderFlow == [FlowNext]_flowVars => [Next]_vars
BY DEF FlowNext, Distribute, Along, Find, WorkioStep, PopShare, PopStop, Discard, PassCheck,
       SendWorks, SendFails, Resume, Freeze, flowVars

\* The distribution's part of the invariant under every step.
LEMMA DistributionStep ==
    Base /\ HasWork /\ [FlowNext]_flowVars => Base' /\ HasWork'
BY NextUnderFlow, BaseStep, HasWorkStep

\* A share that has just been found is one, with the next number.
LEMMA FoundShare ==
    ASSUME Typed, NEW t \in Threads, Find(t)
    PROVE  LET share == [n |-> found + 1, prev |-> work[t].prev] IN
           /\ share \in Shares /\ share # Stop /\ share # NoShare
           /\ found \in Nat /\ found' = found + 1
           /\ \/ queue' = Append(queue, share) /\ UNCHANGED refused
              \/ refused' = refused \cup {share} /\ UNCHANGED queue
           /\ ~Ended => UNCHANGED refused
           /\ UNCHANGED <<held, workio, tries, sent, stale, lost>>
<1>1. work[t] \in Headers
  BY DEF Typed, HasWork, Busy, Find
<1>2. found \in Nat /\ work[t].prev \in Prevs
  BY <1>1 DEF Typed, FlowTypeOK, Headers
<1>3. [n |-> found + 1, prev |-> work[t].prev] \in Shares
  BY <1>2 DEF Shares
<1>. QED
  BY <1>2, <1>3, NoShareAssumption DEF Find, Frozen, Ended

LEMMA TypedStep == Typed /\ [FlowNext]_flowVars => Typed'
<1>. SUFFICES ASSUME Typed, [FlowNext]_flowVars
              PROVE  FlowTypeOK'
  BY DistributionStep DEF Typed
<1>. USE DEF Typed
<1>1. CASE Distribute
  <2>1. queue' \in Seq(Shares \cup {Stop})
    BY <1>1, AppendProperties DEF Distribute, Along, PushStop, FlowTypeOK
  <2>. QED
    BY <1>1, <2>1 DEF Distribute, Along, FlowTypeOK
<1>2. ASSUME NEW t \in Threads, Find(t)
      PROVE  FlowTypeOK'
  <2>. DEFINE share == [n |-> found + 1, prev |-> work[t].prev]
  <2>1. /\ share \in Shares /\ share \in Shares \cup {Stop}
        /\ found \in Nat /\ found' = found + 1
        /\ \/ queue' = Append(queue, share) /\ UNCHANGED refused
           \/ refused' = refused \cup {share} /\ UNCHANGED queue
        /\ UNCHANGED <<held, workio, tries, sent, stale, lost>>
    BY <1>2, FoundShare
  <2>. HIDE DEF share
  <2>2. queue' \in Seq(Shares \cup {Stop})
    BY <2>1, AppendProperties, SMTT(30) DEF FlowTypeOK
  <2>3. refused' \subseteq Shares /\ found' \in Nat
    BY <2>1 DEF FlowTypeOK
  <2>. QED
    BY <2>1, <2>2, <2>3 DEF FlowTypeOK
<1>3. CASE PopShare
  <2>1. /\ queue' \in Seq(Shares \cup {Stop}) /\ held' \in Shares
    BY <1>3, ElementsOfTail DEF PopShare, FlowTypeOK
  <2>. QED
    BY <1>3, <2>1, NoShareAssumption DEF PopShare, FlowTypeOK, WorkioPlaces
<1>4. CASE PopStop
  <2>1. queue' \in Seq(Shares \cup {Stop})
    BY <1>4, ElementsOfTail DEF PopStop, FlowTypeOK
  <2>. QED
    BY <1>4, <2>1 DEF PopStop, FlowTypeOK, WorkioPlaces
<1>5. CASE Discard
  BY <1>5 DEF Discard, FlowTypeOK, WorkioPlaces
<1>6. CASE PassCheck
  BY <1>6 DEF PassCheck, FlowTypeOK, WorkioPlaces
<1>7. CASE SendWorks
  <2>1. sent' \in Seq(Shares)
    BY <1>7, AppendProperties DEF SendWorks, FlowTypeOK
  <2>. QED
    BY <1>7, <2>1 DEF SendWorks, FlowTypeOK, WorkioPlaces
<1>8. CASE SendFails
  BY <1>8, WorkAssumption DEF SendFails, FlowTypeOK, WorkioPlaces
<1>9. CASE Resume
  BY <1>9 DEF Resume, FlowTypeOK, WorkioPlaces
<1>10. CASE UNCHANGED flowVars
  BY <1>10 DEF flowVars, shareVars, FlowTypeOK
<1>11. CASE Freeze
  BY <1>11 DEF Freeze, FlowTypeOK, WorkioPlaces
<1>. QED
  BY <1>1, <1>2, <1>3, <1>4, <1>5, <1>6, <1>7, <1>8, <1>9, <1>10, <1>11 DEF FlowNext, WorkioStep

LEMMA OrderedStep == Typed /\ Ordered /\ [FlowNext]_flowVars => Ordered'
<1>. SUFFICES ASSUME Typed, Ordered, [FlowNext]_flowVars
              PROVE  Ordered'
  OBVIOUS
<1>. DEFINE E == Shares \cup {Stop}
<1>0. queue \in Seq(E) /\ Stop \in E /\ found \in Nat /\ Len(queue) \in Nat
  BY DEF Typed, FlowTypeOK
<1>1. \A i \in 1..Len(queue) : queue[i] # Stop => queue[i].n \in Nat
  BY <1>0 DEF Shares
<1>2. CASE Distribute
  <2>1. CASE UNCHANGED queue
    BY <1>2, <2>1 DEF Distribute, Along, Ordered
  <2>2. CASE queue' = Append(queue, Stop)
    <3>1. /\ Len(queue') = Len(queue) + 1 /\ queue'[Len(queue) + 1] = Stop
          /\ \A i \in 1..Len(queue) : queue'[i] = queue[i]
      BY <1>0, <2>2, ElementsOfAppend
    <3>2. \A i \in 1..Len(queue') : queue'[i] # Stop => i \in 1..Len(queue)
      BY <1>0, <3>1
    <3>. QED
      BY <1>2, <3>1, <3>2 DEF Distribute, Along, Ordered
  <2>. QED
    BY <1>2, <2>1, <2>2 DEF Distribute, Along, PushStop
<1>3. ASSUME NEW t \in Threads, Find(t)
      PROVE  Ordered'
  <2>. DEFINE share == [n |-> found + 1, prev |-> work[t].prev]
  <2>1. share \in E /\ share.n = found + 1 /\ found' = found + 1 /\ UNCHANGED held
    BY <1>3, FoundShare
  <2>2. held # NoShare => held.n \in Nat /\ held.n < found + 1
    BY <1>0 DEF Typed, FlowTypeOK, Shares, Ordered
  <2>3. CASE UNCHANGED queue
    <3>1. held # NoShare => held.n <= found + 1
      BY <1>0, <2>2
    <3>2. \A i \in 1..Len(queue) : queue[i] # Stop => queue[i].n <= found + 1
      BY <1>0, <1>1 DEF Ordered
    <3>3. queue' = queue /\ held' = held /\ found' = found + 1
      BY <2>1, <2>3
    <3>. QED
      BY <3>1, <3>2, <3>3 DEF Ordered
  <2>4. CASE queue' = Append(queue, share)
    <3>1. /\ Len(queue') = Len(queue) + 1 /\ queue'[Len(queue) + 1] = share
          /\ \A i \in 1..Len(queue) : queue'[i] = queue[i]
      BY <1>0, <2>1, <2>4, ElementsOfAppend
    <3>2. \A i \in 1..Len(queue') : i \in 1..Len(queue) \/ i = Len(queue) + 1
      BY <1>0, <3>1
    <3>3. \A i \in 1..Len(queue) :
             queue[i] # Stop => queue[i].n < found + 1
      BY <1>0, <1>1 DEF Ordered
    <3>4. \A i \in 1..Len(queue') :
             queue'[i] # Stop => /\ queue'[i].n <= found'
                                 /\ held' # NoShare => held'.n < queue'[i].n
      BY <1>0, <1>1, <2>1, <2>2, <3>1, <3>2, <3>3 DEF Ordered
    <3>5. \A i, j \in 1..Len(queue') :
             i < j /\ queue'[i] # Stop /\ queue'[j] # Stop => queue'[i].n < queue'[j].n
      BY <1>0, <2>1, <3>1, <3>2, <3>3 DEF Ordered
    <3>. QED
      BY <1>0, <2>1, <2>2, <3>4, <3>5 DEF Ordered
  <2>. QED
    BY <1>3, <2>3, <2>4, FoundShare
<1>4. CASE PopShare \/ PopStop
  <2>1. queue # <<>> /\ queue' = Tail(queue) /\ UNCHANGED found
    BY <1>4 DEF PopShare, PopStop
  <2>2. /\ Head(queue) = queue[1] /\ Len(queue) > 0 /\ Len(queue') = Len(queue) - 1
        /\ \A i \in 1..Len(queue') : queue'[i] = queue[i + 1] /\ i + 1 \in 1..Len(queue)
    BY <1>0, <2>1, ElementsOfTail
  <2>3. \A i, j \in 1..Len(queue') :
           i < j /\ queue'[i] # Stop /\ queue'[j] # Stop => queue'[i].n < queue'[j].n
    BY <1>0, <2>2 DEF Ordered
  <2>4. CASE PopShare
    <3>1. held' = queue[1] /\ queue[1] # Stop /\ 1 \in 1..Len(queue)
      BY <1>0, <2>2, <2>4 DEF PopShare
    <3>2. \A i \in 1..Len(queue') : queue'[i] # Stop => held'.n < queue'[i].n
      BY <1>0, <2>2, <3>1 DEF Ordered
    <3>. QED
      BY <2>1, <2>2, <2>3, <3>1, <3>2 DEF Ordered
  <2>5. CASE PopStop
    BY <2>1, <2>2, <2>3, <2>5 DEF PopStop, Ordered
  <2>. QED
    BY <1>4, <2>4, <2>5
<1>5. CASE Discard \/ SendWorks
  BY <1>5 DEF Discard, SendWorks, Ordered
<1>6. CASE PassCheck \/ SendFails \/ Resume \/ Freeze \/ UNCHANGED flowVars
  <2>1. UNCHANGED <<queue, found>> /\ held' \in {held, NoShare}
    BY <1>6 DEF PassCheck, SendFails, Resume, Freeze, flowVars, shareVars
  <2>. QED
    BY <2>1 DEF Ordered
<1>. QED
  BY <1>2, <1>3, <1>4, <1>5, <1>6 DEF FlowNext, WorkioStep

LEMMA FlowInvStep == FlowInv /\ [FlowNext]_flowVars => FlowInv'
BY TypedStep, OrderedStep DEF FlowInv

\* Every variable of the way of the shares keeps its type, and workio_thread
\* holds a share exactly while it is at work on one.
THEOREM FlowTypes == FlowSpec => []FlowTypeOK
<1>1. FlowInv => FlowTypeOK
  BY DEF FlowInv, Typed
<1>. QED
  BY <1>1, FlowInvInit, FlowInvStep, PTL DEF FlowSpec
-----------------------------------------------------------------------------
(***************************************************************************)
(* The way of the shares implements ShareLife.                             *)
(***************************************************************************)

\* stratum_thread puts no share into the queue.
LEMMA DistributeKeepsQueue == Typed /\ Distribute => UNCHANGED InQueue
<1>. SUFFICES ASSUME Typed, Distribute PROVE UNCHANGED InQueue
  OBVIOUS
<1>1. CASE queue' = Append(queue, Stop)
  <2>1. queue \in Seq(Shares \cup {Stop})
    BY DEF Typed, FlowTypeOK
  <2>2. Elements(queue') = Elements(queue) \cup {Stop}
    BY <1>1, <2>1, ElementsOfAppend
  <2>. QED
    BY <2>2 DEF InQueue, Elements
<1>2. CASE UNCHANGED queue
  BY <1>2 DEF InQueue
<1>. QED
  BY <1>1, <1>2 DEF Distribute, Along, PushStop

\* A step that leaves the queue, the share in hand and what was lost leaves what
\* is pending and what is gone.
LEMMA PendingFrame ==
    UNCHANGED <<InQueue, held, Ended, stale, refused, lost>> => UNCHANGED <<Pending, Gone>>
BY DEF Pending, Gone

LEMMA NumbersOfUnion ==
    ASSUME NEW S, NEW s
    PROVE  Numbers(S \cup {s}) = Numbers(S) \cup {s.n}
BY DEF Numbers

\* The share in hand is the oldest one under way.
LEMMA HeldIsOldest ==
    ASSUME FlowInv, held # NoShare
    PROVE  /\ ~Ended
           /\ Life!Oldest(held.n)
           /\ held.n \in Pending
           /\ Pending \ {held.n} = Numbers(InQueue)
<1>1. held \in Shares /\ held.n \in Nat /\ ~Ended
  BY DEF FlowInv, Typed, FlowTypeOK, Shares, Ended
<1>2. \A i \in 1..Len(queue) : queue[i] # Stop =>
         /\ queue[i].n \in Nat
         /\ held.n < queue[i].n
  <2>1. queue \in Seq(Shares \cup {Stop})
    BY DEF FlowInv, Typed, FlowTypeOK
  <2>2. \A i \in 1..Len(queue) : queue[i] # Stop => queue[i].n \in Nat
    BY <2>1 DEF Shares
  <2>. QED
    BY <2>2 DEF FlowInv, Ordered
<1>3. \A r \in Numbers(InQueue) : r \in Nat /\ held.n < r
  BY <1>2 DEF Numbers, InQueue
<1>4. Pending = Numbers(InQueue) \cup {held.n}
  BY <1>1 DEF Pending
<1>5. \A r \in Pending : held.n <= r
  BY <1>1, <1>3, <1>4
<1>6. held.n \notin Numbers(InQueue)
  BY <1>1, <1>3
<1>. QED
  BY <1>1, <1>4, <1>5, <1>6 DEF Life!Oldest

LEMMA LifeInitLemma == FlowInit => Life!LifeInit
<1>. SUFFICES ASSUME FlowInit PROVE Life!LifeInit
  OBVIOUS
<1>1. Len(<<>>) = 0 /\ 1..0 = {}
  BY EmptySeq
<1>2. InQueue = {} /\ held = NoShare /\ ~Ended
  BY <1>1 DEF FlowInit, InQueue, Ended
<1>3. Pending = {}
  BY <1>2 DEF Pending, Numbers
<1>4. SentNumbers = <<>>
  BY <1>1 DEF FlowInit, SentNumbers
<1>5. Gone = {} /\ found = 0
  BY <1>2 DEF FlowInit, Numbers, Gone
<1>. QED
  BY <1>2, <1>3, <1>4, <1>5 DEF Life!LifeInit

LEMMA LifeStep == FlowInv /\ [FlowNext]_flowVars => [Life!LifeNext]_(Life!lifevars)
<1>. SUFFICES ASSUME FlowInv, [FlowNext]_flowVars
              PROVE  Life!LifeNext \/ UNCHANGED <<Pending, SentNumbers, Gone, found, Ended>>
  BY DEF Life!lifevars
<1>. DEFINE E == Shares \cup {Stop}
<1>0. /\ queue \in Seq(E) /\ Stop \in E /\ found \in Nat /\ sent \in Seq(Shares)
      /\ held \in Shares \cup {NoShare}
      /\ held # NoShare <=> workio \in {"checking", "sending", "pausing"}
  BY DEF FlowInv, Typed, FlowTypeOK
<1>1. CASE Distribute
  <2>2. UNCHANGED InQueue
    BY <1>1, DistributeKeepsQueue DEF FlowInv
  <2>3. UNCHANGED <<Pending, SentNumbers, Gone, found, Ended>>
    BY <1>1, <2>2, PendingFrame DEF Distribute, Along, SentNumbers, Ended
  <2>. QED
    BY <2>3
<1>2. ASSUME NEW t \in Threads, Find(t)
      PROVE  Life!Find
  <2>. DEFINE share == [n |-> found + 1, prev |-> work[t].prev]
  <2>1. /\ share \in E /\ share # Stop /\ share.n = found + 1 /\ found' = found + 1
        /\ \/ queue' = Append(queue, share) /\ UNCHANGED refused
           \/ refused' = refused \cup {share} /\ UNCHANGED queue
        /\ ~Ended => UNCHANGED refused
        /\ UNCHANGED <<held, sent, stale, lost, Ended>>
    BY <1>2, FoundShare DEF FlowInv, Ended
  <2>. HIDE DEF share
  <2>2. UNCHANGED SentNumbers
    BY <2>1 DEF SentNumbers
  <2>3. CASE queue' = Append(queue, share) /\ UNCHANGED refused
    <3>1. Elements(queue') = Elements(queue) \cup {share}
      BY <1>0, <2>1, <2>3, ElementsOfAppend
    <3>2. InQueue' = InQueue \cup {share}
      BY <2>1, <3>1 DEF InQueue, Elements
    <3>3. Numbers(InQueue)' = Numbers(InQueue) \cup {found + 1}
      BY <2>1, <3>2 DEF Numbers
    <3>4. CASE ~Ended
      <4>1. Pending' = Pending \cup {found + 1} /\ UNCHANGED Gone
        BY <2>1, <2>3, <3>3, <3>4 DEF Pending, Gone
      <4>. QED
        BY <2>1, <2>2, <3>4, <4>1 DEF Life!Find
    <3>5. CASE Ended
      <4>1. UNCHANGED Pending /\ Gone' = Gone \cup {found + 1}
        BY <2>1, <2>3, <3>3, <3>5 DEF Pending, Gone
      <4>. QED
        BY <2>1, <2>2, <3>5, <4>1 DEF Life!Find
    <3>. QED
      BY <3>4, <3>5
  <2>4. CASE refused' = refused \cup {share} /\ UNCHANGED queue
    <3>1. CASE ~Ended
      <4>1. refused' = refused /\ FALSE
        BY <2>1, <2>4, <3>1, <1>2 DEF Find, Frozen, Ended
      <4>. QED
        BY <4>1
    <3>2. CASE Ended
      <4>1. UNCHANGED <<Pending, InQueue>>
        BY <2>1, <2>4, <3>2 DEF Pending, InQueue
      <4>2. Numbers(refused)' = Numbers(refused) \cup {found + 1}
        BY <2>1, <2>4 DEF Numbers
      <4>3. Gone' = Gone \cup {found + 1}
        BY <2>1, <3>2, <4>1, <4>2 DEF Gone
      <4>. QED
        BY <2>1, <2>2, <3>2, <4>1, <4>3 DEF Life!Find
    <3>. QED
      BY <3>1, <3>2
  <2>. QED
    BY <2>1, <2>3, <2>4
<1>3. CASE PopShare \/ PopStop
  <2>1. queue # <<>> /\ queue' = Tail(queue) /\ held = NoShare
    BY <1>0, <1>3 DEF PopShare, PopStop
  <2>2. Elements(queue) = Elements(queue') \cup {Head(queue)} /\ Head(queue) \in E
    BY <1>0, <2>1, ElementsOfTail
  <2>3. CASE PopShare
    <3>1. held' = Head(queue) /\ Head(queue) # Stop /\ held' # NoShare
      BY <2>2, <2>3, NoShareAssumption DEF PopShare
    <3>2. InQueue = InQueue' \cup {held'}
      BY <2>2, <3>1 DEF InQueue, Elements
    <3>3. Numbers(InQueue) = Numbers(InQueue)' \cup {held'.n}
      BY <3>2 DEF Numbers
    <3>4. ~Ended /\ ~Ended'
      BY <2>3 DEF PopShare, Ended
    <3>5. UNCHANGED <<Pending, Gone>>
      BY <2>1, <2>3, <3>1, <3>3, <3>4 DEF PopShare, Pending, Gone
    <3>6. UNCHANGED <<SentNumbers, found, Ended>>
      BY <2>3 DEF PopShare, SentNumbers, Ended
    <3>. QED
      BY <3>5, <3>6
  <2>4. CASE PopStop
    <3>1. Head(queue) = Stop /\ ~Ended /\ Ended'
          /\ UNCHANGED <<held, stale, refused, lost, found, sent>>
      BY <2>4 DEF PopStop, Ended
    <3>2. UNCHANGED InQueue
      BY <2>2, <3>1 DEF InQueue, Elements
    <3>3. Pending' = {} /\ Gone' = Gone \cup Pending
      BY <2>1, <3>1, <3>2 DEF Pending, Gone
    <3>4. UNCHANGED <<SentNumbers, found>>
      BY <3>1 DEF SentNumbers
    <3>. QED
      BY <3>1, <3>3, <3>4 DEF Life!End, Life!LifeNext
  <2>. QED
    BY <1>3, <2>3, <2>4
<1>4. CASE Discard
  <2>1. held # NoShare /\ held' = NoShare /\ stale' = stale \cup {held}
        /\ UNCHANGED <<queue, sent, found, refused, lost>>
    BY <1>0, <1>4 DEF Discard
  <2>2. ~Ended /\ ~Ended' /\ UNCHANGED <<InQueue, Ended>>
    BY <1>4, <2>1 DEF Discard, Ended, InQueue
  <2>3. Pending' = Pending \ {held.n}
    BY <2>1, <2>2, HeldIsOldest DEF Pending
  <2>4. Gone' = Gone \cup {held.n} /\ UNCHANGED SentNumbers
    <3>1. Numbers(stale)' = Numbers(stale) \cup {held.n}
      BY <2>1 DEF Numbers
    <3>. QED
      BY <2>1, <2>2, <3>1 DEF Gone, SentNumbers
  <2>5. Life!Drop(held.n) /\ held.n \in Pending
    BY <2>1, <2>2, <2>3, <2>4, HeldIsOldest DEF Life!Drop
  <2>. QED
    BY <2>5 DEF Life!LifeNext
<1>5. CASE SendWorks
  <2>1. held # NoShare /\ held \in Shares /\ held' = NoShare
        /\ UNCHANGED <<queue, found, stale, refused, lost>> /\ sent' = Append(sent, held)
    BY <1>0, <1>5 DEF SendWorks
  <2>5. ~Ended /\ ~Ended' /\ UNCHANGED <<InQueue, Ended>>
    BY <1>5, <2>1 DEF SendWorks, Ended, InQueue
  <2>2. Pending' = Pending \ {held.n} /\ UNCHANGED Gone
    BY <2>1, <2>5, HeldIsOldest DEF Pending, Gone
  <2>3. SentNumbers' = Append(SentNumbers, held.n)
    <3>1. /\ Len(sent) \in Nat /\ Len(sent') = Len(sent) + 1
          /\ sent'[Len(sent) + 1] = held
          /\ \A i \in 1..Len(sent) : sent'[i] = sent[i]
      BY <1>0, <2>1, AppendProperties
    <3>2. SentNumbers' = [i \in 1..Len(sent) + 1 |->
                            IF i = Len(sent) + 1 THEN held.n ELSE sent[i].n]
      <4>1. SentNumbers' = [i \in 1..Len(sent) + 1 |-> sent'[i].n]
        BY <3>1 DEF SentNumbers
      <4>2. \A i \in 1..Len(sent) + 1 : i = Len(sent) + 1 \/ i \in 1..Len(sent)
        BY <3>1
      <4>3. \A i \in 1..Len(sent) + 1 :
               sent'[i].n = IF i = Len(sent) + 1 THEN held.n ELSE sent[i].n
        BY <3>1, <4>2
      <4>. QED
        BY <4>1, <4>3
    <3>3. SentNumbers \in Seq(Nat) /\ Len(SentNumbers) = Len(sent)
      <4>1. \A i \in 1..Len(sent) : sent[i].n \in Nat
        <5>1. \A i \in 1..Len(sent) : sent[i] \in Shares
          BY <1>0, ElementOfSeq
        <5>. QED
          BY <5>1 DEF Shares
      <4>2. SentNumbers \in [1..Len(sent) -> Nat]
        BY <4>1 DEF SentNumbers
      <4>. QED
        BY <3>1, <4>2
    <3>4. \A i \in 1..Len(sent) : SentNumbers[i] = sent[i].n
      BY DEF SentNumbers
    <3>. QED
      BY <3>1, <3>2, <3>3, <3>4
  <2>4. Life!Pass(held.n) /\ held.n \in Pending
    BY <2>1, <2>2, <2>3, <2>5, HeldIsOldest DEF Life!Pass
  <2>. QED
    BY <2>4 DEF Life!LifeNext
<1>6. CASE SendFails /\ workio' = "leaving"
  <2>1. held # NoShare /\ held' = NoShare /\ lost' = lost \cup {held}
        /\ UNCHANGED <<queue, sent, found, stale, refused>>
    BY <1>0, <1>6 DEF SendFails
  <2>2. ~Ended /\ Ended' /\ UNCHANGED <<InQueue, SentNumbers>>
    BY <1>6, <2>1 DEF SendFails, Ended, InQueue, SentNumbers
  <2>3. Numbers(lost)' = Numbers(lost) \cup {held.n}
    BY <2>1 DEF Numbers
  <2>4. Pending = Numbers(InQueue) \cup {held.n}
    BY <2>1, <2>2 DEF Pending
  <2>5. Pending' = {} /\ Gone' = Gone \cup Pending
    <3>1. Pending' = {}
      BY <2>2 DEF Pending
    <3>2. Gone = Numbers(stale) \cup Numbers(refused) \cup Numbers(lost)
      BY <2>2 DEF Gone
    <3>3. Gone' = Numbers(stale) \cup Numbers(refused) \cup Numbers(lost)' \cup Numbers(InQueue)
      BY <2>1, <2>2 DEF Gone
    <3>. QED
      BY <2>3, <2>4, <3>1, <3>2, <3>3
  <2>. QED
    BY <2>1, <2>2, <2>5 DEF Life!End, Life!LifeNext
<1>7. CASE \/ PassCheck \/ Resume \/ Freeze \/ UNCHANGED flowVars
           \/ SendFails /\ workio' # "leaving"
  <2>1. UNCHANGED <<queue, held, found, sent, stale, refused, lost, Ended>>
    BY <1>7 DEF PassCheck, SendFails, Resume, Freeze, flowVars, shareVars, Ended
  <2>2. UNCHANGED <<InQueue, SentNumbers>>
    BY <2>1 DEF InQueue, SentNumbers
  <2>. QED
    BY <2>1, <2>2, PendingFrame
<1>. QED
  BY <1>1, <1>2, <1>3, <1>4, <1>5, <1>6, <1>7 DEF FlowNext, WorkioStep, Life!LifeNext

\* Until workio_thread leaves its loop no share is lost, sent twice or overtaken
\* by a later one, whatever the connection, the jobs and the FPGA threads do;
\* what it could not send and what is queued then, and nothing that was sent, is
\* lost with it: the way of the shares implements ShareLife.
THEOREM WayImplementsShareLife == FlowSpec => ImplementsShareLife
BY LifeInitLemma, LifeStep, FlowInvInit, FlowInvStep, PTL
   DEF FlowSpec, ImplementsShareLife, Life!LifeSpec
-----------------------------------------------------------------------------
(***************************************************************************)
(* When a fresh share can be lost.  What the argument takes from the       *)
(* distribution of work is Published; besides, a share needs a job.        *)
(***************************************************************************)
JobFirst ==
    job = NoJob => /\ \A t \in Threads : ~Busy(t)
                   /\ held = NoShare /\ InQueue = {}

\* stratum.job is never taken back.
LEMMA JobStays == Base /\ [Next]_vars /\ job' = NoJob => job = NoJob
<1>. SUFFICES ASSUME Base, [Next]_vars, job # NoJob PROVE job' # NoJob
  OBVIOUS
<1>. USE DEF poolVars
<1>1. ASSUME NEW i \in Ids, NEW p \in Prevs, NEW c \in BOOLEAN, Notify(i, p, c)
      PROVE  job' # NoJob
  <2>1. notifies + 1 \in Nat /\ xn1 \in Xn1 /\ nextDiff \in Diffs
    BY DEF Base, TypeOK
  <2>2. job' = [n |-> notifies + 1, id |-> i, prev |-> p, xn1 |-> xn1,
                diff |-> nextDiff, clean |-> c]
    BY <1>1 DEF Notify, JobLine
  <2>3. job' \in Jobs
    BY <2>1, <2>2 DEF Jobs
  <2>. QED
    BY <2>3, NoValueAssumption
<1>2. CASE UNCHANGED job
  BY <1>2
<1>. QED
  BY <1>1, <1>2
     DEF Next, StratumStep, Reset, TakeUrl, Top, ZeroTime, Connect, ConnectionFails, Authorize,
         NothingNew, Publish, StampTime, RestartThreads, SetDifficulty, SetExtranonce,
         OtherLine, Disconnect, SetUrl, RaiseReset, Age, FpgaStep, FindFresh, Generate, SetTarget,
         ClearRestart, LeaveOnRestart, LeaveOnTimeout, vars

\* A thread gets busy with the header of a job.
LEMMA BusyStep ==
    Base /\ [Next]_vars /\ job = NoJob /\ (\A t \in Threads : ~Busy(t))
       => \A t \in Threads : ~Busy(t)'
<1>. SUFFICES ASSUME Base, [Next]_vars, job = NoJob, \A t \in Threads : ~Busy(t)
              PROVE  \A t \in Threads : ~Busy(t)'
  OBVIOUS
<1>. USE DEF apiVars, fpgaVars
<1>1. CASE StratumStep \/ (\E u \in Urls : SetUrl(u)) \/ RaiseReset \/ Age \/ UNCHANGED vars
  <2>1. UNCHANGED fpga
    BY <1>1 DEF StratumStep, Reset, TakeUrl, Top, ZeroTime, Connect, ConnectionFails,
                Authorize, NothingNew, Publish, StampTime, RestartThreads, Notify,
                SetDifficulty, SetExtranonce, OtherLine, Disconnect, SetUrl, RaiseReset, Age, vars
  <2>. QED
    BY <2>1 DEF Busy
<1>2. ASSUME NEW t \in Threads, FpgaStep(t)
      PROVE  \A s \in Threads : ~Busy(s)'
  <2>1. FindFresh(t)
    BY <1>2 DEF FpgaStep, Generate, SetTarget, ClearRestart, LeaveOnRestart,
                LeaveOnTimeout, Busy
  <2>. QED
    BY <2>1 DEF FindFresh, Busy, Base, TypeOK
<1>. QED
  BY <1>1, <1>2 DEF Next

LEMMA JobFirstStep == FlowInv /\ JobFirst /\ [FlowNext]_flowVars => JobFirst'
<1>. SUFFICES ASSUME FlowInv, JobFirst, [FlowNext]_flowVars, job' = NoJob
              PROVE  /\ \A t \in Threads : ~Busy(t)'
                     /\ held' = NoShare /\ InQueue' = {}
  BY DEF JobFirst
<1>1. Base /\ [Next]_vars /\ job = NoJob
  BY NextUnderFlow, JobStays DEF FlowInv, Typed
<1>2. (\A t \in Threads : ~Busy(t)) /\ held = NoShare /\ InQueue = {}
  BY <1>1 DEF JobFirst
<1>3. \A t \in Threads : ~Busy(t)'
  BY <1>1, <1>2, BusyStep
<1>4. CASE Distribute
  BY <1>2, <1>3, <1>4, DistributeKeepsQueue DEF Distribute, Along, FlowInv
<1>5. \A t \in Threads : ~Find(t)
  BY <1>2 DEF Find, Busy
<1>6. workio \notin {"checking", "sending", "pausing"}
  BY <1>2 DEF FlowInv, Typed, FlowTypeOK
<1>7. CASE PopShare \/ PopStop
  <2>1. queue # <<>> /\ queue' = Tail(queue) /\ queue \in Seq(Shares \cup {Stop})
    BY <1>7 DEF PopShare, PopStop, FlowInv, Typed, FlowTypeOK
  <2>2. Elements(queue) = Elements(queue') \cup {Head(queue)}
    BY <2>1, ElementsOfTail
  <2>3. Head(queue) = Stop /\ InQueue' = {}
    BY <1>2, <2>2 DEF InQueue, Elements
  <2>. QED
    BY <1>2, <1>3, <1>7, <2>3 DEF PopShare, PopStop
<1>8. CASE Freeze \/ UNCHANGED flowVars
  BY <1>2, <1>3, <1>8 DEF Freeze, flowVars, shareVars, InQueue
<1>. QED
  BY <1>4, <1>5, <1>6, <1>7, <1>8
     DEF FlowNext, WorkioStep, Discard, PassCheck, SendWorks, SendFails, Resume, Freeze

\* A share of the pool's current block is discarded only while stratum_thread
\* has not yet published that block's job as g_work, unless the pool announced
\* the job's id for two previous blocks.
THEOREM FreshSharesAreSafeOncePublished == FlowSpec => FreshShareLostOnlyBeforePublication
<1>. DEFINE Inv == FlowInv /\ JobFirst /\ Published
            Fresh == \A s \in stale' \ stale :
                s.prev = job.prev /\ ~moved => stratum \notin {"timing", "restarting", "receiving"}
<1>1. FlowInit => Inv
  <2>. SUFFICES ASSUME FlowInit PROVE JobFirst /\ Published
    BY FlowInvInit
  <2>1. Len(<<>>) = 0
    BY EmptySeq
  <2>. QED
    BY <2>1 DEF FlowInit, Init, JobFirst, Published, Busy, InQueue
<1>2. Inv /\ [FlowNext]_flowVars => Inv'
  BY FlowInvStep, JobFirstStep, NextUnderFlow, PublishedStep DEF FlowInv, Typed
<1>3. Inv /\ [FlowNext]_flowVars => [Fresh]_flowVars
  <2>. SUFFICES ASSUME Inv, [FlowNext]_flowVars,
                       NEW s \in stale' \ stale, s.prev = job.prev, ~moved
                PROVE  stratum \notin {"timing", "restarting", "receiving"}
    OBVIOUS
  <2>1. Discard
    BY DEF FlowNext, Distribute, Along, Find, WorkioStep, PopShare, PopStop, PassCheck,
           SendWorks, SendFails, Resume, Freeze, flowVars, shareVars
  <2>2. s = held /\ held # NoShare /\ LooksStale
    BY <2>1 DEF Discard, FlowInv, Typed, FlowTypeOK
  <2>3. job # NoJob
    BY <2>2 DEF JobFirst
  <2>4. held.prev # gwork.prev \/ stratum = "publishing"
    BY <2>2 DEF LooksStale, Rewriting
  <2>. QED
    BY <2>2, <2>3, <2>4 DEF Published, SameAsJob, SameBlock
<1>. QED
  BY <1>1, <1>2, <1>3, PTL DEF FlowSpec, FreshShareLostOnlyBeforePublication
=============================================================================
