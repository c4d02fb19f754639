------------------------ MODULE StratumSessionProofs ------------------------
(***************************************************************************)
(* Proofs about the stratum session, for any number of notifies, requests  *)
(* of the pool, shares and connections: its types, that no notify is lost, *)
(* that only authorized sessions mine, that every share is counted once    *)
(* and every request of the pool answered once.                            *)
(***************************************************************************)
EXTENDS StratumSessionProps, SequenceTheorems, FiniteSetTheorems, TLAPS

(***************************************************************************)
(* Lines and requests.  The proofs below know them by these facts only.    *)
(***************************************************************************)
\* What a line of each kind carries, and that it is a line.
LEMMA LineFacts ==
    /\ \A id \in 1..4, res \in Outcomes :
          /\ Answer(id, res) \in Lines
          /\ Answer(id, res).kind = "answer"
          /\ Answer(id, res).id = id
          /\ Answer(id, res).res = res
    /\ \A n \in 1..MaxNotifies :
          Notify(n) \in Lines /\ Notify(n).kind = "notify" /\ Notify(n).n = n
    /\ \A id \in AskIds :
          Ask(id) \in Lines /\ Ask(id).kind = "ask" /\ Ask(id).id = id
    /\ \A id \in {0, 2} : Malformed(id) \in Lines /\ Malformed(id).kind = "malformed"
    /\ Reconnect \in Lines /\ Reconnect.kind = "reconnect"
<1>1. ASSUME NEW id \in 1..4, NEW res \in Outcomes
      PROVE  /\ Answer(id, res) \in Lines
             /\ Answer(id, res).kind = "answer"
             /\ Answer(id, res).id = id
             /\ Answer(id, res).res = res
  BY DEF Lines, Answer
<1>2. ASSUME NEW n \in 1..MaxNotifies
      PROVE  Notify(n) \in Lines /\ Notify(n).kind = "notify" /\ Notify(n).n = n
  BY DEF Lines, Notify
<1>3. ASSUME NEW id \in AskIds
      PROVE  Ask(id) \in Lines /\ Ask(id).kind = "ask" /\ Ask(id).id = id
  BY DEF Lines, Ask
<1>4. Reconnect \in Lines /\ Reconnect.kind = "reconnect"
  BY DEF Lines, Reconnect
<1>5. ASSUME NEW id \in {0, 2}
      PROVE  Malformed(id) \in Lines /\ Malformed(id).kind = "malformed"
  BY DEF Lines, Malformed
<1>. QED
  BY <1>1, <1>2, <1>3, <1>4, <1>5

\* The outcomes, by name.
LEMMA OutcomeFacts ==
    /\ "good" \in Outcomes /\ "bad" \in Outcomes /\ "none" \in Outcomes
    /\ \A res \in Results : res \in Outcomes /\ res # "none"
BY DEF Outcomes, Results

\* The same for one answer, and for the answers that the pool gives.
LEMMA AnswerIsLine ==
    ASSUME NEW id \in 1..4, NEW res \in Outcomes
    PROVE  Answer(id, res) \in Lines
BY LineFacts, Zenon

LEMMA AnswersAreLines ==
    \A res \in Outcomes :
        /\ Answer(1, res) \in Lines /\ Answer(2, res) \in Lines
        /\ Answer(3, res) \in Lines /\ Answer(4, res) \in Lines
<1>1. 1 \in 1..4 /\ 2 \in 1..4 /\ 3 \in 1..4 /\ 4 \in 1..4
  OBVIOUS
<1>. QED
  BY <1>1, AnswerIsLine, Zenon

\* A line is what its kind and its fields say.
LEMMA LineCases ==
    ASSUME NEW l \in Lines
    PROVE  \/ /\ l.kind = "answer" /\ l.id \in 1..4 /\ l.res \in Outcomes
              /\ l = Answer(l.id, l.res)
           \/ l.kind = "notify" /\ l.n \in 1..MaxNotifies /\ l = Notify(l.n)
           \/ l.kind = "ask" /\ l.id \in AskIds /\ l = Ask(l.id)
           \/ l.kind = "malformed"
           \/ l.kind = "reconnect" /\ l = Reconnect
<1>1. ASSUME NEW id \in 1..4, NEW res \in Outcomes, l = Answer(id, res)
      PROVE  /\ l.kind = "answer" /\ l.id \in 1..4 /\ l.res \in Outcomes
             /\ l = Answer(l.id, l.res)
  BY <1>1, LineFacts
<1>2. ASSUME NEW n \in 1..MaxNotifies, l = Notify(n)
      PROVE  l.kind = "notify" /\ l.n \in 1..MaxNotifies /\ l = Notify(l.n)
  BY <1>2, LineFacts
<1>3. ASSUME NEW id \in AskIds, l = Ask(id)
      PROVE  l.kind = "ask" /\ l.id \in AskIds /\ l = Ask(l.id)
  BY <1>3, LineFacts
<1>4. ASSUME NEW id \in {0, 2}, l = Malformed(id)
      PROVE  l.kind = "malformed"
  BY <1>4, LineFacts
<1>. QED
  BY <1>1, <1>2, <1>3, <1>4, LineFacts DEF Lines

\* The requests of the client and the replies to those of the pool.
LEMMA RequestFacts ==
    /\ \A r \in {"subscribe", "resume", "authorize", "extranonce", "submit"} :
          Request(r) \in Requests /\ Request(r).request = r
    /\ \A id \in AskIds \ {0} :
          Reply(id) \in Requests /\ Reply(id).request = "reply" /\ Reply(id).id = id
<1>1. ASSUME NEW r \in {"subscribe", "resume", "authorize", "extranonce", "submit"}
      PROVE  Request(r) \in Requests /\ Request(r).request = r
  BY DEF Requests, Request
<1>2. ASSUME NEW id \in AskIds \ {0}
      PROVE  Reply(id) \in Requests /\ Reply(id).request = "reply" /\ Reply(id).id = id
  BY DEF Requests, Reply
<1>. QED
  BY <1>1, <1>2

\* A request of the client is its name; what is left is a reply.
LEMMA RequestCases ==
    ASSUME NEW r \in Requests
    PROVE  \/ /\ r.request \in {"subscribe", "resume", "authorize", "extranonce", "submit"}
              /\ r = Request(r.request)
           \/ r.request = "reply" /\ r.id \in AskIds \ {0} /\ r = Reply(r.id)
<1>1. ASSUME NEW n \in {"subscribe", "resume", "authorize", "extranonce", "submit"},
             r = Request(n)
      PROVE  /\ r.request \in {"subscribe", "resume", "authorize", "extranonce", "submit"}
             /\ r = Request(r.request)
  BY <1>1, RequestFacts
<1>2. ASSUME NEW id \in AskIds \ {0}, r = Reply(id)
      PROVE  r.request = "reply" /\ r.id \in AskIds \ {0} /\ r = Reply(r.id)
  BY <1>2, RequestFacts
<1>. QED
  BY <1>1, <1>2 DEF Requests

(***************************************************************************)
(* The channels: what is taken off the front and put behind.               *)
(***************************************************************************)
LEMMA TakenOff ==
    ASSUME NEW S, NEW s \in Seq(S), s # <<>>
    PROVE  /\ Tail(s) \in Seq(S) /\ Len(s) \in Nat \ {0} /\ Len(Tail(s)) = Len(s) - 1
           /\ \A i \in 1..Len(Tail(s)) : Tail(s)[i] = s[i + 1] /\ i + 1 \in 1..Len(s)
           /\ Head(s) = s[1] /\ Head(s) \in S /\ 1 \in 1..Len(s)
OBVIOUS

LEMMA PutBehind ==
    ASSUME NEW S, NEW s \in Seq(S), NEW x \in S
    PROVE  /\ Append(s, x) \in Seq(S) /\ Len(s) \in Nat /\ Len(Append(s, x)) = Len(s) + 1
           /\ \A i \in 1..Len(s) : Append(s, x)[i] = s[i] /\ i \in 1..Len(Append(s, x))
           /\ Append(s, x)[Len(s) + 1] = x
           /\ s \o <<x>> = Append(s, x) /\ s \o <<>> = s
OBVIOUS

LEMMA EmptyIsSeq == \A S : <<>> \in Seq(S)
OBVIOUS

LEMMA WiderSeq ==
    ASSUME NEW S, NEW T, NEW s \in Seq(S), \A x \in S : x \in T
    PROVE  s \in Seq(T)
OBVIOUS

\* Behind a channel that is not empty: the head is the same.
LEMMA TailAppend ==
    ASSUME NEW S, NEW T, NEW s \in Seq(S), NEW x \in T, s # <<>>, Tail(s) \in Seq(T)
    PROVE  /\ Append(s, x) # <<>> /\ Head(Append(s, x)) = Head(s)
           /\ Tail(Append(s, x)) \in Seq(T)
<1>1. Tail(Append(s, x)) = Append(Tail(s), x)
  OBVIOUS
<1>. QED
  BY <1>1

\* What the pool does with its next request: it may put an answer behind.
LEMMA Served ==
    ASSUME TypeOK, NEW r, Asks(r)
    PROVE  /\ toPool # <<>> /\ Head(toPool) \in Requests /\ Head(toPool).request = r
           /\ Replies(<<>>) => toPool' = Tail(toPool) /\ toClient' = toClient
           /\ \A l \in Lines :
                 Replies(<<l>>) => toPool' = Tail(toPool) /\ toClient' = Append(toClient, l)
BY TakenOff, PutBehind DEF TypeOK, Asks, Replies

LEMMA ServedTypes ==
    ASSUME TypeOK, NEW r, Asks(r), Replies(<<>>) \/ \E l \in Lines : Replies(<<l>>)
    PROVE  toPool' \in Seq(Requests) /\ toClient' \in Seq(Lines)
<1>1. Tail(toPool) \in Seq(Requests)
  BY TakenOff, Served DEF TypeOK
<1>2. \A l \in Lines : Append(toClient, l) \in Seq(Lines)
  BY PutBehind DEF TypeOK
<1>. QED
  BY <1>1, <1>2, Served DEF TypeOK

\* Of the pool's steps these put at most an answer behind, and those a method.
LEMMA AnswersReplied ==
    ASSUME TypeOK, ServeAuthorize \/ ServeExtranonce \/ ServeShare
    PROVE  \/ toClient' = toClient
           \/ \E l \in Lines : IsAnswer(l) /\ toClient' = Append(toClient, l)
<1>0. 2 \in 1..4 /\ 3 \in 1..4 /\ 4 \in 1..4
  OBVIOUS
<1>1. toClient \in Seq(Lines)
  BY DEF TypeOK
<1>2. ASSUME Replies(<<>>)
      PROVE  toClient' = toClient
  BY <1>1, <1>2 DEF Replies
<1>3. ASSUME NEW id \in 1..4, NEW res \in Outcomes, Replies(<<Answer(id, res)>>)
      PROVE  \E l \in Lines : IsAnswer(l) /\ toClient' = Append(toClient, l)
  <2>1. Answer(id, res) \in Lines /\ IsAnswer(Answer(id, res))
    BY LineFacts, ZenonT(60) DEF IsAnswer
  <2>2. \A l \in Lines : Replies(<<l>>) => toClient' = Append(toClient, l)
    BY <1>1, PutBehind DEF Replies
  <2>. QED
    BY <1>3, <2>1, <2>2, Zenon
<1>. QED
  BY <1>0, <1>2, <1>3, OutcomeFacts, Zenon DEF ServeAuthorize, ServeExtranonce, ServeShare

LEMMA SubscriptionReplied ==
    ASSUME TypeOK, ServeSubscribe
    PROVE  \/ toClient' = Append(toClient, Answer(1, "good"))
           \/ /\ \E res \in Outcomes : toClient' = Append(toClient, Answer(1, res))
              /\ subscribed' = subscribed
<1>1. ASSUME NEW res \in Outcomes, Replies(<<Answer(1, res)>>)
      PROVE  toClient' = Append(toClient, Answer(1, res))
  <2>1. Answer(1, res) \in Lines
    BY AnswersAreLines, Zenon
  <2>2. \A l \in Lines : Replies(<<l>>) => toClient' = Append(toClient, l)
    BY PutBehind DEF Replies, TypeOK
  <2>. QED
    BY <1>1, <2>1, <2>2, Zenon
<1>2. \/ Replies(<<Answer(1, "good")>>)
      \/ /\ \E res \in {"bad", "none"} : Replies(<<Answer(1, res)>>)
         /\ subscribed' = subscribed
  BY Zenon DEF ServeSubscribe
<1>3. \A res \in {"bad", "none"} : res \in Outcomes
  BY OutcomeFacts
<1>. QED
  BY <1>1, <1>2, <1>3, OutcomeFacts, Zenon

LEMMA SubscriptionAnswered ==
    ASSUME TypeOK, ServeSubscribe
    PROVE  \E l \in Lines : IsAnswer(l) /\ toClient' = Append(toClient, l)
<1>1. \E res \in Outcomes : toClient' = Append(toClient, Answer(1, res))
  BY SubscriptionReplied, OutcomeFacts, Zenon
<1>. QED
  BY <1>1, LineFacts, 1 \in 1..4, Zenon DEF IsAnswer

LEMMA MethodsSent ==
    ASSUME TypeOK, PoolSends
    PROVE  \E l \in Lines : ~IsAnswer(l) /\ toClient' = Append(toClient, l)
<1>1. CASE SendNotify
  <2>1. notified + 1 \in 1..MaxNotifies
    BY <1>1, SessionAssumption DEF SendNotify, TypeOK
  <2>2. Notify(notified + 1) \in Lines /\ ~IsAnswer(Notify(notified + 1))
    BY <2>1, LineFacts DEF IsAnswer
  <2>. QED
    BY <1>1, <2>2 DEF SendNotify
<1>2. CASE SendAsk
  BY <1>2, LineFacts DEF SendAsk, IsAnswer
<1>3. CASE SendReconnect
  BY <1>3, LineFacts DEF SendReconnect, IsAnswer
<1>4. CASE SendMalformed
  BY <1>4, LineFacts DEF SendMalformed, IsAnswer
<1>. QED
  BY <1>1, <1>2, <1>3, <1>4 DEF PoolSends

\* What the client does when it has read the answer to the authorization, and
\* when a reply could not be sent.
LEMMA ExtranonceAsked ==
    ASSUME AskExtranonce
    PROVE  /\ place' \in {"extranonce", "receiving"}
           /\ toPool' = toPool \/ toPool' = Append(toPool, Request("extranonce"))
           /\ Request("extranonce") \in Requests
           /\ Request("extranonce").request = "extranonce"
BY RequestFacts DEF AskExtranonce

LEMMA ReplyLost ==
    ASSUME TypeOK, ReplyFails
    PROVE  /\ place \in {"authorizing", "extranonce", "receiving"}
           /\ toClient # <<>> /\ toClient' = Tail(toClient)
           /\ Head(toClient).kind = "ask" /\ Head(toClient).id \in AskIds \ {0}
           /\ Head(toClient) = Ask(Head(toClient).id)
           /\ unsent' = Append(unsent, Head(toClient).id)
           /\ place' \in {"extranonce", "receiving"}
           /\ place = "receiving" => place' = "receiving"
           /\ toPool' = toPool \/ toPool' = Append(toPool, Request("extranonce"))
           /\ faults' = faults + 1
           /\ UNCHANGED <<sid, subscribed, verdict, notified, judged, malformed, asked, replied,
                          seenVars, early, sent>>
<1>1. Head(toClient) \in Lines
  BY TakenOff DEF ReplyFails, NotReplied, TypeOK
<1>2. Head(toClient).kind = "ask" /\ Head(toClient).id # 0
  BY Zenon DEF ReplyFails, NotReplied
<1>3. Head(toClient).id \in AskIds \ {0} /\ Head(toClient) = Ask(Head(toClient).id)
  BY <1>1, <1>2, LineCases
<1>4. /\ place' \in {"extranonce", "receiving"}
      /\ place = "receiving" => place' = "receiving"
      /\ toPool' = toPool \/ toPool' = Append(toPool, Request("extranonce"))
  BY DEF ReplyFails, NotReplied, AskExtranonce
<1>. QED
  BY <1>2, <1>3, <1>4, Zenon DEF ReplyFails, NotReplied, Fault

\* The answer to a share counts if it has a result, and nothing else does.
LEMMA Counted ==
    ASSUME HandleResponse
    PROVE  /\ judged' = judged
           /\ \/ counted' = counted /\ \A res \in Results : Head(toClient) # Answer(4, res)
              \/ \E res \in Results : Head(toClient) = Answer(4, res) /\ ShareResult(res)
<1>1. \A res \in Results : Answer(4, res).res = res
  BY DEF Answer
<1>2. judged' = judged
  BY DEF HandleResponse, poolVars
<1>3. CASE Head(toClient) \in {Answer(4, res) : res \in Results}
  <2>1. ShareResult(Head(toClient).res)
    BY <1>3, Zenon DEF HandleResponse
  <2>2. PICK res \in Results : Head(toClient) = Answer(4, res)
    BY <1>3
  <2>. QED
    BY <1>1, <1>2, <2>1, <2>2, Zenon
<1>4. CASE Head(toClient) \notin {Answer(4, res) : res \in Results}
  BY <1>2, <1>4, Zenon DEF HandleResponse
<1>. QED
  BY <1>3, <1>4

\* A counter per verdict starts at zero, and counts.
LEMMA Counters ==
    /\ NoShares \in [Results -> Nat]
    /\ \A f \in [Results -> Nat], b \in Results : [f EXCEPT ![b] = @ + 1] \in [Results -> Nat]
<1>1. ASSUME NEW S
      PROVE  [x \in S |-> 0] \in [S -> Nat]
  OBVIOUS
<1>2. ASSUME NEW S, NEW f \in [S -> Nat], NEW x \in S
      PROVE  [f EXCEPT ![x] = @ + 1] \in [S -> Nat]
  OBVIOUS
<1>. QED
  BY <1>1, <1>2, Zenon DEF NoShares

-----------------------------------------------------------------------------
(***************************************************************************)
(* Types.                                                                  *)
(***************************************************************************)
LEMMA TypesInit == Init => TypeOK
<1>. SUFFICES ASSUME Init PROVE TypeOK
  OBVIOUS
<1>1. place \in Places /\ sid \in BOOLEAN
  BY DEF Init, Places
<1>2. toPool \in Seq(Requests) /\ toClient \in Seq(Lines)
  BY DEF Init
<1>3. subscribed \in BOOLEAN /\ verdict \in {"none", "accepted", "refused"}
  BY DEF Init
<1>4. notified \in 0..MaxNotifies /\ seen \in 0..MaxNotifies
  BY SessionAssumption DEF Init
<1>5. TalliesOK
  BY Counters DEF Init, TalliesOK
<1>6. /\ asked \in Seq(AskIds) /\ replied \in Seq(AskIds) /\ unsent \in Seq(AskIds)
      /\ malformed \in Nat
  BY DEF Init
<1>7. early \in BOOLEAN /\ sent \in Nat /\ faults \in Nat
  BY DEF Init
<1>. QED
  BY <1>1, <1>2, <1>3, <1>4, <1>5, <1>6, <1>7 DEF TypeOK

\* A step keeps the tallies, empties them or counts one share.
LEMMA TalliesStep == TypeOK /\ [Next]_vars => TalliesOK'
<1>. SUFFICES ASSUME TypeOK, [Next]_vars
              PROVE  TalliesOK'
  OBVIOUS
<1>. USE DEF poolVars, seenVars
<1>1. TalliesOK
  BY DEF TypeOK
<1>2. ASSUME Disconnect
      PROVE  TalliesOK'
  BY <1>2, Counters DEF Disconnect, TalliesOK
<1>3. CASE HandleResponse
  <2>1. judged' = judged /\ (counted' = counted \/ \E res \in Results : ShareResult(res))
    BY <1>3, Counted, Zenon
  <2>2. ASSUME NEW res \in Results, ShareResult(res)
        PROVE  counted' \in [Results -> Nat]
    <3>1. counted' = [counted EXCEPT ![res] = @ + 1]
      BY <2>2, Zenon DEF ShareResult
    <3>2. [counted EXCEPT ![res] = @ + 1] \in [Results -> Nat]
      BY <1>1, Counters DEF TalliesOK
    <3>. QED
      BY <3>1, <3>2, Zenon
  <2>. QED
    BY <1>1, <2>1, <2>2, Zenon DEF TalliesOK
<1>4. CASE ServeShare
  <2>1. judged' = judged \/ \E res \in Results : judged' = [judged EXCEPT ![res] = @ + 1]
    BY <1>4, Zenon DEF ServeShare
  <2>2. counted' = counted
    BY <1>4 DEF ServeShare
  <2>3. \A res \in Results : [judged EXCEPT ![res] = @ + 1] \in [Results -> Nat]
    BY <1>1, Counters DEF TalliesOK
  <2>. QED
    BY <1>1, <2>1, <2>2, <2>3, Zenon DEF TalliesOK
<1>5. CASE SubscribeFails \/ AuthorizeRefused \/ ReplyRefuses \/ HandleReconnect \/ Drop
  BY <1>5, <1>2 DEF SubscribeFails, AuthorizeRefused, ReplyRefuses, HandleReconnect, Drop
<1>6. CASE \/ Connect \/ Subscribe \/ Subscribed \/ RetrySubscribe
           \/ AuthorizeAnswered \/ ExtranonceAnswered \/ ExtranonceTimesOut
           \/ HandleNotify \/ HandleAsk \/ ReplyFails \/ IgnoreReconnect
  <2>1. judged' = judged /\ counted' = counted
    BY <1>6 DEF ReplyFails, IgnoreReconnect, Connect, Subscribe, Subscribed, RetrySubscribe,
                AuthorizeAnswered, AskExtranonce, ExtranonceAnswered, ExtranonceTimesOut,
                HandleNotify, HandleAsk
  <2>. QED
    BY <1>1, <2>1 DEF TalliesOK
<1>7. CASE \/ ServeSubscribe \/ ServeAuthorize \/ ServeExtranonce \/ TakeReply
           \/ PoolSends \/ SendShare \/ UNCHANGED vars
  <2>1. judged' = judged /\ counted' = counted
    BY <1>7 DEF ServeSubscribe, ServeAuthorize, ServeExtranonce, TakeReply,
                SendNotify, SendAsk, SendReconnect, SendMalformed, PoolSends, SendShare, vars
  <2>. QED
    BY <1>1, <2>1 DEF TalliesOK
<1>. QED
  BY <1>3, <1>4, <1>5, <1>6, <1>7 DEF Next, PoolSends, ClientStep, Handshake, HandleMethod, Serve

LEMMA NoSubscription ==
    ASSUME NotSubscribed
    PROVE  toClient # <<>> /\ (sid' = sid \/ sid' = FALSE)
BY DEF NotSubscribed

\* A reply that could not be sent leaves every type.
LEMMA ReplyLostTypes ==
    ASSUME TypeOK, ReplyFails, TalliesOK'
    PROVE  TypeOK'
<1>1. /\ toClient # <<>> /\ toClient' = Tail(toClient)
      /\ Head(toClient).id \in AskIds \ {0}
      /\ unsent' = Append(unsent, Head(toClient).id)
      /\ place' \in {"extranonce", "receiving"}
      /\ toPool' = toPool \/ toPool' = Append(toPool, Request("extranonce"))
      /\ faults' = faults + 1
  BY ReplyLost
<1>2. /\ UNCHANGED <<sid, subscribed, verdict, notified, judged, malformed, asked, replied>>
      /\ UNCHANGED <<seen, counted, early, sent>>
  BY DEF ReplyFails, seenVars
<1>3. toClient' \in Seq(Lines) /\ unsent' \in Seq(AskIds)
  BY <1>1, TakenOff, PutBehind DEF TypeOK
<1>4. Append(toPool, Request("extranonce")) \in Seq(Requests)
  BY RequestFacts, PutBehind DEF TypeOK
<1>5. toPool' \in Seq(Requests)
  BY <1>1, <1>4, Zenon DEF TypeOK
<1>6. place' \in Places /\ faults' \in Nat
  BY <1>1 DEF TypeOK, Places
<1>. QED
  BY <1>2, <1>3, <1>5, <1>6 DEF TypeOK

LEMMA TypesStep == TypeOK /\ [Next]_vars => TypeOK'
<1>. SUFFICES ASSUME TypeOK, [Next]_vars
              PROVE  TypeOK'
  OBVIOUS
<1>. USE SessionAssumption DEF TypeOK, Places, poolVars, askVars, seenVars, loadVars
<1>0. TalliesOK'
  BY TalliesStep
<1>1. ASSUME Disconnect, UNCHANGED sent, faults' \in Nat, sid' \in BOOLEAN
      PROVE  TypeOK'
  <2>1. /\ place' \in Places
        /\ toPool' \in Seq(Requests) /\ toClient' \in Seq(Lines)
        /\ verdict' \in {"none", "accepted", "refused"}
        /\ notified' \in 0..MaxNotifies /\ seen' \in 0..MaxNotifies
        /\ malformed' \in Nat
        /\ asked' \in Seq(AskIds) /\ replied' \in Seq(AskIds) /\ unsent' \in Seq(AskIds)
        /\ sent' \in Nat /\ faults' \in Nat
    BY <1>1 DEF Disconnect
  <2>2. subscribed' \in BOOLEAN /\ sid' \in BOOLEAN /\ early' \in BOOLEAN
    BY <1>1 DEF Disconnect
  <2>. QED
    BY <1>0, <2>1, <2>2
<1>2. CASE Connect
  BY <1>0, <1>2 DEF Connect
<1>3. CASE Subscribe
  BY <1>0, <1>3, PutBehind, RequestFacts DEF Subscribe
<1>4. CASE Subscribed
  BY <1>0, <1>4, PutBehind, TakenOff, RequestFacts DEF Subscribed, Line
<1>5. CASE RetrySubscribe
  <2>1. sid' \in BOOLEAN /\ toClient # <<>>
    BY <1>5, NoSubscription DEF RetrySubscribe
  <2>. QED
    BY <1>0, <1>5, <2>1, PutBehind, TakenOff, RequestFacts DEF RetrySubscribe
<1>6. CASE SubscribeFails
  <2>1. sid' \in BOOLEAN
    BY <1>6, NoSubscription DEF SubscribeFails
  <2>. QED
    BY <1>6, <1>1, <2>1 DEF SubscribeFails
<1>7. CASE AuthorizeAnswered
  <2>1. /\ place' \in Places /\ toPool' \in Seq(Requests)
        /\ Tail(toClient) \in Seq(Lines)
    <3>1. toClient # <<>> /\ AskExtranonce
      BY <1>7, Zenon DEF AuthorizeAnswered
    <3>2. Tail(toClient) \in Seq(Lines) /\ Append(toPool, Request("extranonce")) \in Seq(Requests)
      BY <3>1, ExtranonceAsked, PutBehind, TakenOff
    <3>. QED
      BY <3>1, <3>2, ExtranonceAsked
  <2>. QED
    BY <1>0, <1>7, <2>1 DEF AuthorizeAnswered
<1>8. CASE AuthorizeRefused
  BY <1>0, <1>8, <1>1 DEF AuthorizeRefused
<1>9. CASE ExtranonceAnswered
  BY <1>0, <1>9, TakenOff DEF ExtranonceAnswered, Line
<1>10. CASE ExtranonceTimesOut
  BY <1>0, <1>10 DEF ExtranonceTimesOut
<1>11. CASE HandleNotify
  <2>1. Head(toClient) \in Lines /\ Head(toClient).kind = "notify" /\ Tail(toClient) \in Seq(Lines)
    BY <1>0, <1>11, TakenOff DEF HandleNotify, MethodRead
  <2>2. Head(toClient).n \in 1..MaxNotifies
    BY <2>1, LineCases
  <2>. QED
    BY <1>0, <1>11, <2>1, <2>2 DEF HandleNotify, MethodRead
<1>12. CASE HandleAsk
  <2>1. Head(toClient) \in Lines /\ Head(toClient).kind = "ask" /\ Tail(toClient) \in Seq(Lines)
    BY <1>0, <1>12, TakenOff DEF HandleAsk, MethodRead
  <2>2. Head(toClient).id \in AskIds
    BY <2>1, LineCases
  <2>. QED
    BY <1>0, <1>12, <2>1, <2>2, PutBehind, RequestFacts DEF HandleAsk, MethodRead
<1>13. CASE HandleReconnect
  BY <1>0, <1>13, <1>1 DEF HandleReconnect
<1>14. CASE HandleResponse
  <2>1. Tail(toClient) \in Seq(Lines)
    BY <1>14, TakenOff DEF HandleResponse
  <2>. QED
    BY <1>0, <1>14, <2>1 DEF HandleResponse
<1>15. CASE ReplyRefuses
  BY <1>15, <1>1 DEF ReplyRefuses, NotReplied, Fault
<1>16. CASE ServeSubscribe
  <2>1. toPool' \in Seq(Requests) /\ toClient' \in Seq(Lines)
    <3>1. \E l \in Lines : Replies(<<l>>)
      <4>1. \A res \in {"bad", "none"} : res \in Outcomes
        BY OutcomeFacts
      <4>. QED
        BY <1>16, <4>1, OutcomeFacts, AnswersAreLines, Zenon DEF ServeSubscribe
    <3>. QED
      BY <1>16, <3>1, ServedTypes, Zenon DEF ServeSubscribe
  <2>2. subscribed' \in BOOLEAN
    BY <1>16 DEF ServeSubscribe
  <2>. QED
    BY <1>0, <1>16, <2>1, <2>2 DEF ServeSubscribe
<1>17. CASE ServeAuthorize
  <2>1. \E l \in Lines : Replies(<<l>>)
    BY <1>17, AnswersAreLines, Zenon DEF ServeAuthorize
  <2>2. toPool' \in Seq(Requests) /\ toClient' \in Seq(Lines)
    BY <1>17, <2>1, ServedTypes, Zenon DEF ServeAuthorize
  <2>3. verdict' \in {"none", "accepted", "refused"}
    BY <1>17 DEF ServeAuthorize
  <2>. QED
    BY <1>0, <1>17, <2>2, <2>3 DEF ServeAuthorize
<1>18. CASE ServeExtranonce \/ ServeShare
  <2>1. toPool' \in Seq(Requests) /\ toClient' \in Seq(Lines)
    <3>1. Replies(<<>>) \/ \E l \in Lines : Replies(<<l>>)
      BY <1>18, OutcomeFacts, AnswersAreLines, Zenon DEF ServeExtranonce, ServeShare
    <3>. QED
      BY <1>18, <3>1, ServedTypes, Zenon DEF ServeExtranonce, ServeShare
  <2>. QED
    BY <1>0, <1>18, <2>1 DEF ServeExtranonce, ServeShare
<1>19. CASE TakeReply
  <2>1. Head(toPool) \in Requests /\ Head(toPool).request = "reply"
    BY <1>19, Served DEF TakeReply
  <2>2. Head(toPool).id \in AskIds
    BY <2>1, RequestCases
  <2>3. toPool' \in Seq(Requests) /\ toClient' \in Seq(Lines)
    BY <1>19, ServedTypes DEF TakeReply
  <2>4. replied' \in Seq(AskIds)
    BY <1>19, <2>2, PutBehind DEF TakeReply
  <2>. QED
    BY <1>0, <1>19, <2>3, <2>4 DEF TakeReply
<1>20. CASE SendNotify
  BY <1>0, <1>20, PutBehind, LineFacts DEF SendNotify
<1>21. CASE SendAsk
  BY <1>0, <1>21, PutBehind, LineFacts DEF SendAsk
<1>22. CASE SendReconnect
  BY <1>0, <1>22, PutBehind, LineFacts DEF SendReconnect, Fault
<1>23. CASE Drop
  BY <1>23, <1>1 DEF Drop, Fault
<1>24. CASE SendShare
  BY <1>0, <1>24, PutBehind, RequestFacts DEF SendShare
<1>25. CASE UNCHANGED vars
  BY <1>0, <1>25 DEF vars
<1>26. CASE ReplyFails
  BY <1>0, <1>26, ReplyLostTypes, Zenon DEF TypeOK
<1>27. CASE IgnoreReconnect
  BY <1>0, <1>27, TakenOff DEF IgnoreReconnect, MethodRead
<1>28. CASE SendMalformed
  BY <1>0, <1>28, PutBehind, LineFacts DEF SendMalformed, Fault
<1>. QED
  BY <1>2, <1>3, <1>4, <1>5, <1>6, <1>7, <1>8, <1>9, <1>10, <1>11, <1>12, <1>13,
     <1>14, <1>15, <1>16, <1>17, <1>18, <1>19, <1>20, <1>21, <1>22, <1>23, <1>24, <1>25,
     <1>26, <1>27, <1>28
     DEF Next, PoolSends, ClientStep, Handshake, HandleMethod, Serve

\* Every variable of the two ends of a session and of the lines between them
\* keeps its type.
THEOREM SessionTypes == Spec => []TypeOK
<1>. QED
  BY TypesInit, TypesStep, PTL DEF Spec

-----------------------------------------------------------------------------
(***************************************************************************)
(* Where the methods are.  A connection begins with both channels empty;   *)
(* until the client has read the answer to its subscription every method   *)
(* is behind a good one, so the handshake, which would skip a method here, *)
(* meets none.                                                             *)
(***************************************************************************)
Closed ==
    place = "connecting" =>
        /\ toPool = <<>> /\ toClient = <<>>
        /\ ~subscribed /\ verdict = "none" /\ notified = 0 /\ judged = NoShares
        /\ malformed = 0 /\ asked = <<>> /\ replied = <<>> /\ unsent = <<>>
        /\ seen = 0 /\ counted = NoShares /\ ~early

MethodsFollow ==
    place \in {"opening", "subscribing", "retrying"} =>
        /\ \A i \in 1..Len(toClient) : ~IsAnswer(toClient[i]) =>
              \E j \in 1..(i - 1) : toClient[j] = Answer(1, "good")
        /\ subscribed => \E j \in 1..Len(toClient) : toClient[j] = Answer(1, "good")

LEMMA ClosedStep == TypeOK /\ Closed /\ [Next]_vars => Closed'
<1>. SUFFICES ASSUME TypeOK, Closed, [Next]_vars
              PROVE  Closed'
  OBVIOUS
<1>1. CASE place = "connecting"
  <2>1. ~ (ServeSubscribe \/ ServeAuthorize \/ ServeExtranonce \/ ServeShare \/ TakeReply)
    BY <1>1 DEF Closed, ServeSubscribe, ServeAuthorize, ServeExtranonce, ServeShare, TakeReply,
                Asks
  <2>2. ~ (PoolSends)
    BY <1>1, Zenon DEF Closed, SendNotify, SendAsk, SendReconnect, SendMalformed, PoolSends
  <2>3. CASE Connect
    BY <2>3 DEF Connect, Closed
  <2>4. CASE UNCHANGED vars
    BY <2>4 DEF vars, Closed, poolVars, askVars, seenVars, loadVars
  <2>5. ~ (ClientStep \/ Drop \/ SendShare) \/ Connect
    BY <1>1 DEF ClientStep, Handshake, HandleMethod, Subscribe, Subscribed, RetrySubscribe,
                SubscribeFails, AuthorizeAnswered, AskExtranonce, AuthorizeRefused,
                ExtranonceAnswered, ExtranonceTimesOut, HandleNotify, HandleAsk, ReplyFails,
                ReplyRefuses, HandleReconnect, IgnoreReconnect, MethodRead, HandleResponse,
                Drop, SendShare, NotReplied
  <2>. QED
    BY <2>1, <2>2, <2>3, <2>4, <2>5 DEF Next, Serve
<1>2. CASE Disconnect
  BY <1>2 DEF Disconnect, Closed
<1>3. CASE place # "connecting" /\ ~Disconnect
  <2>1. place' # "connecting"
    BY <1>3 DEF Next, PoolSends, Serve, ClientStep, Handshake, HandleMethod, Connect, Subscribe,
                Subscribed, RetrySubscribe, SubscribeFails, AuthorizeAnswered, AskExtranonce,
                AuthorizeRefused, ExtranonceAnswered, ExtranonceTimesOut, HandleNotify,
                HandleAsk, ReplyFails, ReplyRefuses, NotReplied, HandleReconnect,
                IgnoreReconnect, MethodRead, HandleResponse, Drop, SendShare, ServeSubscribe,
                ServeAuthorize, ServeExtranonce, ServeShare, TakeReply, SendNotify, SendAsk,
                SendReconnect, SendMalformed, vars
  <2>. QED
    BY <2>1 DEF Closed
<1>. QED
  BY <1>1, <1>2, <1>3

\* Of two lines that follow each other in the tail of s, or in s with one more
\* line behind, the same is true as in s.
LEMMA MethodsFollowTail ==
    ASSUME NEW s \in Seq(Lines), s # <<>>, NEW good, Head(s) # good, IsAnswer(good),
           \A i \in 1..Len(s) : ~IsAnswer(s[i]) => \E j \in 1..(i - 1) : s[j] = good
    PROVE  /\ \A i \in 1..Len(Tail(s)) :
                 ~IsAnswer(Tail(s)[i]) => \E j \in 1..(i - 1) : Tail(s)[j] = good
           /\ (\E j \in 1..Len(s) : s[j] = good) => \E j \in 1..Len(Tail(s)) : Tail(s)[j] = good
<1>0. /\ Len(s) \in Nat \ {0} /\ Len(Tail(s)) = Len(s) - 1 /\ Head(s) = s[1]
      /\ \A i \in 1..Len(Tail(s)) : Tail(s)[i] = s[i + 1] /\ i + 1 \in 1..Len(s)
  BY TakenOff
<1>1. ASSUME NEW j \in 1..Len(s), s[j] = good
      PROVE  j - 1 \in 1..Len(Tail(s)) /\ Tail(s)[j - 1] = good
  BY <1>0, <1>1
<1>2. ASSUME NEW i \in 1..Len(Tail(s)), ~IsAnswer(Tail(s)[i])
      PROVE  \E j \in 1..(i - 1) : Tail(s)[j] = good
  <2>1. PICK j \in 1..i : s[j] = good
    BY <1>0, <1>2
  <2>2. j - 1 \in 1..(i - 1) /\ Tail(s)[j - 1] = good
    BY <2>1, <1>0, <1>1
  <2>. QED
    BY <2>2
<1>. QED
  BY <1>1, <1>2

LEMMA MethodsFollowAppend ==
    ASSUME NEW s \in Seq(Lines), NEW l \in Lines, NEW good,
           \A i \in 1..Len(s) : ~IsAnswer(s[i]) => \E j \in 1..(i - 1) : s[j] = good,
           IsAnswer(l) \/ \E j \in 1..Len(s) : s[j] = good
    PROVE  /\ \A i \in 1..Len(Append(s, l)) :
                 ~IsAnswer(Append(s, l)[i]) => \E j \in 1..(i - 1) : Append(s, l)[j] = good
           /\ (\E j \in 1..Len(s) : s[j] = good) =>
                 \E j \in 1..Len(Append(s, l)) : Append(s, l)[j] = good
           /\ l = good => \E j \in 1..Len(Append(s, l)) : Append(s, l)[j] = good
<1>0. /\ Len(s) \in Nat /\ Len(Append(s, l)) = Len(s) + 1 /\ Append(s, l)[Len(s) + 1] = l
      /\ \A i \in 1..Len(s) : Append(s, l)[i] = s[i] /\ i \in 1..Len(Append(s, l))
  BY PutBehind
<1>1. ASSUME NEW i \in 1..Len(Append(s, l)), ~IsAnswer(Append(s, l)[i])
      PROVE  \E j \in 1..(i - 1) : Append(s, l)[j] = good
  <2>1. CASE i = Len(s) + 1
    BY <1>0, <1>1, <2>1
  <2>2. CASE i \in 1..Len(s)
    <3>1. PICK j \in 1..(i - 1) : s[j] = good
      BY <1>0, <1>1, <2>2
    <3>. QED
      BY <3>1, <1>0, <2>2
  <2>. QED
    BY <1>0, <2>1, <2>2
<1>. QED
  BY <1>0, <1>1

LEMMA MethodsFollowStep ==
    TypeOK /\ Closed /\ MethodsFollow /\ [Next]_vars => MethodsFollow'
<1>. SUFFICES ASSUME TypeOK, Closed, MethodsFollow, [Next]_vars,
                     place' \in {"opening", "subscribing", "retrying"}
              PROVE  /\ \A i \in 1..Len(toClient') : ~IsAnswer(toClient'[i]) =>
                            \E j \in 1..(i - 1) : toClient'[j] = Answer(1, "good")
                     /\ subscribed' => \E j \in 1..Len(toClient') : toClient'[j] = Answer(1, "good")
  BY Zenon DEF MethodsFollow
<1>. DEFINE good == Answer(1, "good")
            Follow(s) == \A i \in 1..Len(s) : ~IsAnswer(s[i]) => \E j \in 1..(i - 1) : s[j] = good
            Good(s) == \E j \in 1..Len(s) : s[j] = good
<1>0. good \in Lines /\ IsAnswer(good)
  <2>1. 1 \in 1..4
    OBVIOUS
  <2>. QED
    BY <2>1, LineFacts, OutcomeFacts, Zenon DEF IsAnswer
<1>1. CASE Connect
  <2>1. toClient' = <<>>
    BY <1>1 DEF Connect, Closed
  <2>2. ~subscribed'
    BY <1>1, Zenon DEF Connect, Closed, poolVars
  <2>3. Len(toClient') = 0
    BY <2>1
  <2>. QED
    BY <2>2, <2>3
<1>2. CASE place \in {"opening", "subscribing", "retrying"}
  <2>. HIDE DEF good
  <2>0. toClient \in Seq(Lines) /\ Follow(toClient) /\ (subscribed => Good(toClient))
    BY <1>2, Zenon DEF MethodsFollow, TypeOK, good
  <2>1. ASSUME toClient' = toClient, subscribed' = subscribed
        PROVE  Follow(toClient') /\ (subscribed' => Good(toClient'))
    BY <2>0, <2>1, Zenon
  <2>2. ASSUME NEW l \in Lines, toClient' = Append(toClient, l),
               l = good \/ subscribed' = subscribed,
               IsAnswer(l) \/ subscribed
        PROVE  Follow(toClient') /\ (subscribed' => Good(toClient'))
    <3>1. IsAnswer(l) \/ Good(toClient)
      BY <2>0, <2>2, Zenon
    <3>2. /\ Follow(Append(toClient, l))
          /\ Good(toClient) => Good(Append(toClient, l))
          /\ l = good => Good(Append(toClient, l))
      BY <2>0, <3>1, MethodsFollowAppend
    <3>3. toClient' = Append(toClient, l)
      BY <2>2
    <3>4. subscribed' => Good(Append(toClient, l))
      <4>1. CASE l = good
        BY <3>2, <4>1, Zenon
      <4>2. CASE subscribed' = subscribed
        BY <2>0, <3>2, <4>2, Zenon
      <4>. QED
        BY <2>2, <4>1, <4>2, Zenon
    <3>. QED
      BY <3>2, <3>3, <3>4, Zenon
  <2>3. CASE Subscribe \/ TakeReply \/ SendShare \/ UNCHANGED vars
    <3>1. toClient' = toClient /\ subscribed' = subscribed
      BY <2>3, Served DEF Subscribe, TakeReply, SendShare, vars, poolVars
    <3>. QED
      BY <3>1, <2>1 DEF good
  <2>4. CASE RetrySubscribe
    <3>1. /\ toClient # <<>> /\ Head(toClient) # good /\ toClient' = Tail(toClient)
          /\ subscribed' = subscribed
      BY <2>4 DEF RetrySubscribe, NotSubscribed, poolVars, good
    <3>. QED
      <4>1. Follow(Tail(toClient)) /\ (Good(toClient) => Good(Tail(toClient)))
        BY <3>1, <2>0, <1>0, MethodsFollowTail
      <4>. QED
        BY <3>1, <2>0, <4>1, Zenon DEF good
  <2>5. CASE ServeSubscribe
    <3>1. \/ toClient' = Append(toClient, Answer(1, "good"))
          \/ /\ \E res \in Outcomes : toClient' = Append(toClient, Answer(1, res))
             /\ subscribed' = subscribed
      BY <2>5, SubscriptionReplied
    <3>2. \A res \in Outcomes : Answer(1, res) \in Lines /\ IsAnswer(Answer(1, res))
      BY LineFacts, 1 \in 1..4, Zenon DEF IsAnswer
    <3>. QED
      BY <3>1, <3>2, <1>0, <2>2, Zenon DEF good
  <2>6. CASE ServeAuthorize \/ ServeExtranonce \/ ServeShare
    <3>1. \/ toClient' = toClient
          \/ \E l \in Lines : IsAnswer(l) /\ toClient' = Append(toClient, l)
      BY <2>6, AnswersReplied, Zenon
    <3>2. subscribed' = subscribed
      BY <2>6 DEF ServeAuthorize, ServeExtranonce, ServeShare, poolVars
    <3>. QED
      BY <3>1, <3>2, <2>1, <2>2, Zenon DEF good
  <2>7. CASE PoolSends
    <3>1. subscribed /\ subscribed' = subscribed
      BY <2>7 DEF SendNotify, SendAsk, SendReconnect, SendMalformed, PoolSends, poolVars
    <3>2. \E l \in Lines : toClient' = Append(toClient, l)
      BY <2>7, MethodsSent
    <3>. QED
      BY <3>1, <3>2, <2>2, Zenon DEF good
  <2>8. ~ (AuthorizeAnswered \/ AuthorizeRefused \/ ExtranonceAnswered \/ ExtranonceTimesOut
             \/ HandleMethod \/ HandleResponse \/ Subscribed \/ SubscribeFails \/ Drop \/ Connect)
    BY <1>2 DEF AuthorizeAnswered, AskExtranonce, AuthorizeRefused, ExtranonceAnswered,
                ExtranonceTimesOut, HandleMethod, HandleNotify, HandleAsk, ReplyFails,
                ReplyRefuses, NotReplied, HandleReconnect, IgnoreReconnect, MethodRead,
                HandleResponse, Subscribed, SubscribeFails, Drop, Connect, Disconnect
  <2>. QED
    BY <2>3, <2>4, <2>5, <2>6, <2>7, <2>8 DEF Next, Serve, ClientStep, Handshake
<1>3. CASE place \notin {"opening", "subscribing", "retrying"} /\ ~Connect
  BY <1>3 DEF Next, PoolSends, Serve, ClientStep, Handshake, HandleMethod, Connect, Subscribe,
              Subscribed, RetrySubscribe, SubscribeFails, AuthorizeAnswered, AskExtranonce,
              AuthorizeRefused, ExtranonceAnswered, ExtranonceTimesOut, HandleNotify, HandleAsk,
              ReplyFails, ReplyRefuses, NotReplied, HandleReconnect, IgnoreReconnect,
              MethodRead, HandleResponse, Drop, SendShare, Disconnect, ServeSubscribe,
              ServeAuthorize, ServeExtranonce, ServeShare, TakeReply, SendNotify, SendAsk,
              SendReconnect, SendMalformed, vars
<1>. QED
  BY <1>1, <1>2, <1>3

\* So what the client reads first of all is an answer.
LEMMA FirstIsAnswer ==
    ASSUME TypeOK, MethodsFollow, place \in {"opening", "subscribing", "retrying"},
           toClient # <<>>
    PROVE  IsAnswer(Head(toClient))
<1>. DEFINE good == Answer(1, "good")
<1>0. Head(toClient) = toClient[1] /\ 1 \in 1..Len(toClient)
  BY TakenOff DEF TypeOK
<1>1. \A i \in 1..Len(toClient) :
         ~IsAnswer(toClient[i]) => \E j \in 1..(i - 1) : toClient[j] = good
  BY Zenon DEF MethodsFollow
<1>. HIDE DEF good
<1>2. ~IsAnswer(toClient[1]) => \E j \in 1..(1 - 1) : toClient[j] = good
  BY <1>0, <1>1, Zenon
<1>. QED
  BY <1>0, <1>2

-----------------------------------------------------------------------------
(***************************************************************************)
(* No notify is lost.                                                      *)
(***************************************************************************)
\* Of the notifies up to n those after m are under way, in their order.
UnderWay(s, m, n) ==
    /\ \A k \in (m + 1)..n : \E i \in 1..Len(s) : s[i] = Notify(k)
    /\ \A i \in 1..Len(s) : IsNotify(s[i]) => s[i].n \in (m + 1)..n
    /\ \A i, j \in 1..Len(s) : i < j /\ IsNotify(s[i]) /\ IsNotify(s[j]) => s[i].n < s[j].n

LEMMA UnderWayEmpty == UnderWay(<<>>, 0, 0)
BY DEF UnderWay

\* Reading the first one leaves those after it, reading any other line all.
LEMMA UnderWayTail ==
    ASSUME NEW s \in Seq(Lines), s # <<>>, NEW m \in 0..MaxNotifies, NEW n \in 0..MaxNotifies,
           UnderWay(s, m, n)
    PROVE  /\ IsNotify(Head(s)) => UnderWay(Tail(s), Head(s).n, n)
           /\ ~IsNotify(Head(s)) => UnderWay(Tail(s), m, n)
<1>0. /\ Len(s) \in Nat \ {0} /\ Len(Tail(s)) = Len(s) - 1 /\ Head(s) = s[1] /\ 1 \in 1..Len(s)
      /\ \A i \in 1..Len(Tail(s)) : Tail(s)[i] = s[i + 1] /\ i + 1 \in 1..Len(s)
  BY TakenOff
<1>. DEFINE h == IF IsNotify(Head(s)) THEN Head(s).n ELSE m
<1>1. h \in 0..MaxNotifies /\ h >= m
  BY <1>0, SessionAssumption DEF UnderWay
<1>2. ASSUME NEW k \in (h + 1)..n
      PROVE  \E i \in 1..Len(Tail(s)) : Tail(s)[i] = Notify(k)
  <2>1. PICK i \in 1..Len(s) : s[i] = Notify(k)
    BY <1>1 DEF UnderWay
  <2>2. Notify(k).n = k /\ IsNotify(Notify(k))
    BY DEF Notify, IsNotify
  <2>3. i # 1
    BY <1>0, <2>1, <2>2
  <2>4. i - 1 \in 1..Len(Tail(s)) /\ Tail(s)[i - 1] = s[i]
    BY <1>0, <2>3
  <2>. QED
    BY <2>1, <2>4
<1>3. ASSUME NEW i \in 1..Len(Tail(s)), IsNotify(Tail(s)[i])
      PROVE  Tail(s)[i].n \in (h + 1)..n
  <2>1. Tail(s)[i] = s[i + 1] /\ i + 1 \in 1..Len(s) /\ 1 < i + 1
    BY <1>0
  <2>2. s[i + 1].n \in (m + 1)..n
    BY <2>1, <1>3 DEF UnderWay
  <2>3. IsNotify(Head(s)) => Head(s).n < s[i + 1].n
    BY <1>0, <2>1, <1>3 DEF UnderWay
  <2>. QED
    BY <2>1, <2>2, <2>3, <1>1
<1>4. ASSUME NEW i \in 1..Len(Tail(s)), NEW j \in 1..Len(Tail(s)), i < j,
             IsNotify(Tail(s)[i]), IsNotify(Tail(s)[j])
      PROVE  Tail(s)[i].n < Tail(s)[j].n
  BY <1>0, <1>4 DEF UnderWay
<1>5. UnderWay(Tail(s), h, n)
  BY <1>2, <1>3, <1>4 DEF UnderWay
<1>. QED
  BY <1>5

\* The next one is put behind, or another line.
LEMMA UnderWayAppend ==
    ASSUME NEW s \in Seq(Lines), NEW l \in Lines, NEW m \in 0..MaxNotifies,
           NEW n \in 0..MaxNotifies, m <= n, UnderWay(s, m, n)
    PROVE  /\ l = Notify(n + 1) => UnderWay(Append(s, l), m, n + 1)
           /\ ~IsNotify(l) => UnderWay(Append(s, l), m, n)
<1>0. /\ Len(s) \in Nat /\ Len(Append(s, l)) = Len(s) + 1 /\ Append(s, l)[Len(s) + 1] = l
      /\ Len(s) + 1 \in 1..Len(Append(s, l))
      /\ \A i \in 1..Len(s) : Append(s, l)[i] = s[i] /\ i \in 1..Len(Append(s, l))
      /\ \A i \in 1..Len(Append(s, l)) : i = Len(s) + 1 \/ i \in 1..Len(s)
  BY PutBehind
<1>1. CASE l = Notify(n + 1)
  <2>0. l.n = n + 1 /\ IsNotify(l)
    BY <1>1 DEF Notify, IsNotify
  <2>1. ASSUME NEW k \in (m + 1)..(n + 1)
        PROVE  \E i \in 1..Len(Append(s, l)) : Append(s, l)[i] = Notify(k)
    <3>1. CASE k = n + 1
      BY <3>1, <1>0, <1>1
    <3>2. CASE k \in (m + 1)..n
      <4>1. PICK i \in 1..Len(s) : s[i] = Notify(k)
        BY <3>2 DEF UnderWay
      <4>. QED
        BY <4>1, <1>0
    <3>. QED
      BY <3>1, <3>2, SessionAssumption
  <2>2. ASSUME NEW i \in 1..Len(Append(s, l)), IsNotify(Append(s, l)[i])
        PROVE  Append(s, l)[i].n \in (m + 1)..(n + 1)
    BY <1>0, <2>0, <2>2 DEF UnderWay
  <2>3. ASSUME NEW i \in 1..Len(Append(s, l)), NEW j \in 1..Len(Append(s, l)), i < j,
               IsNotify(Append(s, l)[i]), IsNotify(Append(s, l)[j])
        PROVE  Append(s, l)[i].n < Append(s, l)[j].n
    <3>1. i \in 1..Len(s) /\ s[i].n \in (m + 1)..n
      BY <1>0, <2>3 DEF UnderWay
    <3>2. CASE j = Len(s) + 1
      BY <1>0, <2>0, <3>1, <3>2
    <3>3. CASE j \in 1..Len(s)
      BY <1>0, <2>3, <3>1, <3>3 DEF UnderWay
    <3>. QED
      BY <1>0, <3>2, <3>3
  <2>. QED
    BY <1>1, <2>0, <2>1, <2>2, <2>3 DEF UnderWay
<1>2. CASE ~IsNotify(l)
  <2>1. ASSUME NEW k \in (m + 1)..n
        PROVE  \E i \in 1..Len(Append(s, l)) : Append(s, l)[i] = Notify(k)
    <3>1. PICK i \in 1..Len(s) : s[i] = Notify(k)
      BY DEF UnderWay
    <3>. QED
      BY <3>1, <1>0
  <2>2. l # Notify(n + 1)
    BY <1>2 DEF Notify, IsNotify
  <2>3. \A i \in 1..Len(Append(s, l)) :
           IsNotify(Append(s, l)[i]) => i \in 1..Len(s) /\ Append(s, l)[i] = s[i]
    BY <1>0, <1>2
  <2>. QED
    BY <1>2, <2>1, <2>2, <2>3 DEF UnderWay
<1>. QED
  BY <1>1, <1>2 DEF Notify, IsNotify

Seen == place # "connecting" => seen <= notified /\ UnderWay(toClient, seen, notified)

LEMMA SeenMeans == TypeOK /\ Seen => NoNotifyLost
BY DEF Seen, UnderWay, NoNotifyLost

LEMMA SeenStep ==
    TypeOK /\ Closed /\ MethodsFollow /\ Seen /\ [Next]_vars => Seen'
<1>. SUFFICES ASSUME TypeOK, Closed, MethodsFollow, Seen, [Next]_vars, place' # "connecting"
              PROVE  seen' <= notified' /\ UnderWay(toClient', seen', notified')
  BY DEF Seen
<1>. USE DEF poolVars, seenVars
<1>0. /\ toClient \in Seq(Lines) /\ seen \in 0..MaxNotifies /\ notified \in 0..MaxNotifies
      /\ toClient # <<>> =>
            Head(toClient) = toClient[1] /\ Head(toClient) \in Lines /\ 1 \in 1..Len(toClient)
  BY TakenOff DEF TypeOK
<1>1. CASE place = "connecting"
  <2>1. Connect \/ UNCHANGED vars
    <3>1. ~subscribed /\ toPool = <<>>
      BY <1>1, Zenon DEF Closed
    <3>2. ~ (PoolSends)
      BY <3>1, Zenon DEF SendNotify, SendAsk, SendReconnect, SendMalformed, PoolSends
    <3>3. ~Serve
      BY <3>1 DEF Serve, ServeSubscribe, ServeAuthorize, ServeExtranonce, ServeShare, TakeReply,
                  Asks
    <3>. QED
      BY <1>1, <3>2, <3>3 DEF Next, PoolSends, ClientStep, Handshake, HandleMethod, Subscribe,
                              Subscribed, RetrySubscribe, SubscribeFails, AuthorizeAnswered,
                              AskExtranonce, AuthorizeRefused, ExtranonceAnswered,
                              ExtranonceTimesOut, HandleNotify, HandleAsk, ReplyFails,
                              ReplyRefuses, HandleReconnect, IgnoreReconnect, MethodRead,
                              HandleResponse, Drop, SendShare, NotReplied
  <2>2. toClient' = <<>> /\ seen' = 0 /\ notified' = 0
    BY <1>1, <2>1 DEF Connect, vars, Closed
  <2>. QED
    BY <2>2, UnderWayEmpty
<1>2. CASE place # "connecting"
  <2>0. seen <= notified /\ UnderWay(toClient, seen, notified)
    BY <1>2 DEF Seen
  <2>1. ASSUME UNCHANGED <<toClient, seen, notified>>
        PROVE  seen' <= notified' /\ UnderWay(toClient', seen', notified')
    BY <2>0, <2>1
  <2>2. ASSUME toClient # <<>>, ~IsNotify(Head(toClient)), toClient' = Tail(toClient),
               UNCHANGED <<seen, notified>>
        PROVE  seen' <= notified' /\ UnderWay(toClient', seen', notified')
    BY <1>0, <2>0, <2>2, UnderWayTail
  <2>3. ASSUME NEW l \in Lines, ~IsNotify(l), toClient' = Append(toClient, l),
               UNCHANGED <<seen, notified>>
        PROVE  seen' <= notified' /\ UnderWay(toClient', seen', notified')
    BY <1>0, <2>0, <2>3, UnderWayAppend
  <2>4. CASE HandleNotify
    <3>1. /\ toClient # <<>> /\ IsNotify(Head(toClient)) /\ toClient' = Tail(toClient)
          /\ seen' = Head(toClient).n /\ notified' = notified
      BY <2>4 DEF HandleNotify, MethodRead, IsNotify
    <3>2. Head(toClient).n \in (seen + 1)..notified
      BY <1>0, <2>0, <3>1 DEF UnderWay
    <3>. QED
      BY <1>0, <2>0, <3>1, <3>2, UnderWayTail
  <2>5. CASE SendNotify
    <3>1. Notify(notified + 1) \in Lines
      BY <1>0, <2>5, LineFacts, SessionAssumption DEF SendNotify
    <3>2. UnderWay(Append(toClient, Notify(notified + 1)), seen, notified + 1)
      BY <1>0, <2>0, <3>1, UnderWayAppend
    <3>. QED
      BY <1>0, <2>0, <2>5, <3>2 DEF SendNotify
  <2>6. CASE RetrySubscribe
    <3>1. /\ toClient # <<>> /\ toClient' = Tail(toClient) /\ UNCHANGED <<seen, notified>>
          /\ place = "subscribing"
      BY <2>6 DEF RetrySubscribe, NotSubscribed
    <3>2. IsAnswer(Head(toClient))
      BY <3>1, FirstIsAnswer
    <3>. QED
      BY <2>2, <3>1, <3>2 DEF IsAnswer, IsNotify
  <2>7. CASE \/ Subscribed \/ AuthorizeAnswered \/ ExtranonceAnswered \/ HandleAsk
             \/ IgnoreReconnect \/ HandleResponse
    <3>1. toClient # <<>> /\ toClient' = Tail(toClient) /\ UNCHANGED <<seen, notified>>
      BY <2>7 DEF Subscribed, AuthorizeAnswered, ExtranonceAnswered, HandleAsk, MethodRead,
                  IgnoreReconnect, HandleResponse, Line
    <3>2. ~IsNotify(Head(toClient))
      BY <2>7
         DEF Subscribed, AuthorizeAnswered, EndsWait, ExtranonceAnswered, HandleAsk, MethodRead,
             IgnoreReconnect, HandleResponse, Line, IsNotify, Answer, Ask
    <3>. QED
      BY <2>2, <3>1, <3>2
  <2>8. CASE ServeAuthorize \/ ServeExtranonce \/ ServeShare
    <3>1. UNCHANGED <<seen, notified>>
      BY <2>8 DEF ServeAuthorize, ServeExtranonce, ServeShare
    <3>. QED
      BY <2>8, <3>1, <2>1, <2>3, AnswersReplied DEF IsAnswer, IsNotify
  <2>9. CASE ServeSubscribe
    <3>1. \E l \in Lines : IsAnswer(l) /\ toClient' = Append(toClient, l)
      BY <2>9, SubscriptionAnswered
    <3>. QED
      BY <2>9, <3>1, <2>3 DEF ServeSubscribe, IsAnswer, IsNotify
  <2>10. CASE SendAsk \/ SendReconnect \/ SendMalformed
    <3>1. \E l \in Lines : ~IsNotify(l) /\ toClient' = Append(toClient, l)
      BY <2>10, LineFacts DEF SendAsk, SendReconnect, SendMalformed, IsNotify
    <3>. QED
      BY <2>10, <3>1, <2>3 DEF SendAsk, SendReconnect, SendMalformed
  <2>11. CASE \/ Connect \/ Subscribe \/ ExtranonceTimesOut \/ SendShare \/ TakeReply
              \/ UNCHANGED vars
    <3>1. toClient' = toClient
      BY <2>11, Served DEF Connect, Subscribe, ExtranonceTimesOut, SendShare, TakeReply, vars
    <3>. QED
      BY <2>11, <3>1, <2>1 DEF Connect, Subscribe, ExtranonceTimesOut, SendShare, TakeReply, vars
  <2>12. ~ (SubscribeFails \/ AuthorizeRefused \/ ReplyRefuses \/ HandleReconnect \/ Drop)
    BY DEF SubscribeFails, AuthorizeRefused, ReplyRefuses, HandleReconnect, Drop, Disconnect
  <2>13. CASE ReplyFails
    <3>1. ~IsNotify(Head(toClient))
      BY <2>13, ReplyLost DEF IsNotify
    <3>. QED
      BY <2>2, <2>13, <3>1, ReplyLost
  <2>. QED
    BY <2>4, <2>5, <2>6, <2>7, <2>8, <2>9, <2>10, <2>11, <2>12, <2>13
       DEF Next, PoolSends, Serve, ClientStep, Handshake, HandleMethod
<1>. QED
  BY <1>1, <1>2

\* No notify is lost on the way: those after the last one that was read are all
\* under way, in their order.
THEOREM NotifiesAreRead == Spec => []NoNotifyLost
<1>. DEFINE Inv == TypeOK /\ Closed /\ MethodsFollow /\ Seen
<1>1. Init => Inv
  <2>. SUFFICES ASSUME Init PROVE Closed /\ MethodsFollow /\ Seen
    BY TypesInit
  <2>1. place = "connecting"
    BY DEF Init
  <2>2. Closed
    BY Zenon DEF Init, Closed
  <2>. QED
    BY <2>1, <2>2 DEF MethodsFollow, Seen
<1>2. Inv /\ [Next]_vars => Inv'
  BY TypesStep, ClosedStep, MethodsFollowStep, SeenStep, Zenon
<1>3. Inv => NoNotifyLost
  BY SeenMeans
<1>. QED
  BY <1>1, <1>2, <1>3, PTL DEF Spec

-----------------------------------------------------------------------------
(***************************************************************************)
(* How often something is in a sequence.                                   *)
(***************************************************************************)
LEMMA CountType ==
    ASSUME NEW S, NEW s \in Seq(S), NEW x
    PROVE  /\ IsFiniteSet({i \in 1..Len(s) : s[i] = x}) /\ Count(x, s) \in Nat
           /\ (\A i \in 1..Len(s) : s[i] # x) => Count(x, s) = 0
<1>1. IsFiniteSet(1..Len(s))
  BY FS_Interval
<1>2. IsFiniteSet({i \in 1..Len(s) : s[i] = x})
  BY <1>1, FS_Subset
<1>3. Count(x, s) \in Nat
  BY <1>2, FS_CardinalityType DEF Count
<1>4. ASSUME \A i \in 1..Len(s) : s[i] # x
      PROVE  Count(x, s) = 0
  <2>1. {i \in 1..Len(s) : s[i] = x} = {}
    BY <1>4
  <2>. QED
    BY <2>1, FS_EmptySet DEF Count
<1>. QED
  BY <1>2, <1>3, <1>4

LEMMA CountEmpty == \A x : Count(x, <<>>) = 0
<1>1. <<>> \in Seq({}) /\ Len(<<>>) = 0
  OBVIOUS
<1>2. \A x : \A i \in 1..Len(<<>>) : <<>>[i] # x
  BY <1>1
<1>. QED
  BY <1>1, <1>2, CountType, Zenon

LEMMA CountAppend ==
    ASSUME NEW S, NEW s \in Seq(S), NEW y \in S, NEW x
    PROVE  Count(x, Append(s, y)) = Count(x, s) + (IF y = x THEN 1 ELSE 0)
<1>. DEFINE P == {i \in 1..Len(s) : s[i] = x}
            Q == {i \in 1..Len(Append(s, y)) : Append(s, y)[i] = x}
<1>0. /\ Len(s) \in Nat /\ Len(Append(s, y)) = Len(s) + 1 /\ Append(s, y)[Len(s) + 1] = y
      /\ \A i \in 1..Len(s) : Append(s, y)[i] = s[i] /\ i \in 1..Len(Append(s, y))
  BY PutBehind
<1>1. IsFiniteSet(P) /\ Cardinality(P) \in Nat
  BY CountType DEF Count
<1>2. CASE y = x
  <2>1. Q = P \cup {Len(s) + 1}
    BY <1>0, <1>2
  <2>2. Len(s) + 1 \notin P
    BY <1>0
  <2>. QED
    BY <1>1, <1>2, <2>1, <2>2, FS_AddElement DEF Count
<1>3. CASE y # x
  <2>1. Q = P
    BY <1>0, <1>3
  <2>2. Count(x, Append(s, y)) = Count(x, s)
    BY <2>1, Zenon DEF Count
  <2>3. Count(x, s) \in Nat
    BY CountType
  <2>. QED
    BY <1>3, <2>2, <2>3
<1>. QED
  BY <1>2, <1>3

LEMMA CountTail ==
    ASSUME NEW S, NEW s \in Seq(S), s # <<>>, NEW x
    PROVE  Count(x, s) = Count(x, Tail(s)) + (IF Head(s) = x THEN 1 ELSE 0)
<1>. DEFINE P == {i \in 1..Len(s) : s[i] = x}
            Q == {i \in 1..Len(Tail(s)) : Tail(s)[i] = x}
            f == [i \in Q |-> i + 1]
<1>0. /\ Tail(s) \in Seq(S) /\ Len(s) \in Nat \ {0} /\ Len(Tail(s)) = Len(s) - 1
      /\ \A i \in 1..Len(Tail(s)) : Tail(s)[i] = s[i + 1] /\ i + 1 \in 1..Len(s)
      /\ Head(s) = s[1] /\ 1 \in 1..Len(s)
  BY TakenOff
<1>1. IsFiniteSet(P) /\ Cardinality(P) \in Nat /\ IsFiniteSet(Q) /\ Cardinality(Q) \in Nat
  BY <1>0, CountType, ZenonT(60) DEF Count
<1>2. ExistsBijection(Q, P \ {1})
  <2>1. f \in [Q -> P \ {1}]
    BY <1>0
  <2>2. \A i, j \in Q : f[i] = f[j] => i = j
    BY <1>0
  <2>3. \A k \in P \ {1} : k - 1 \in Q /\ f[k - 1] = k
    BY <1>0
  <2>4. \A k \in P \ {1} : \E i \in Q : f[i] = k
    BY <2>3, Zenon
  <2>5. DOMAIN f = Q
    BY Zenon
  <2>. HIDE DEF P, Q, f
  <2>6. f \in Injection(Q, P \ {1})
    BY <2>1, <2>2, <2>5, Zenon DEF Injection, IsInjective
  <2>7. f \in Surjection(Q, P \ {1})
    BY <2>1, <2>4, Zenon DEF Surjection
  <2>. QED
    BY <2>6, <2>7 DEF ExistsBijection, Bijection
<1>3. Cardinality(P \ {1}) = Cardinality(Q)
  BY <1>1, <1>2, FS_Bijection
<1>4. Cardinality(P \ {1}) = IF 1 \in P THEN Cardinality(P) - 1 ELSE Cardinality(P)
  BY <1>1, FS_RemoveElement
<1>5. Count(x, s) = Cardinality(P) /\ Count(x, Tail(s)) = Cardinality(Q)
  BY Zenon DEF Count
<1>6. 1 \in P <=> Head(s) = x
  BY <1>0
<1>. HIDE DEF P, Q
<1>. QED
  BY <1>1, <1>3, <1>4, <1>5, <1>6

-----------------------------------------------------------------------------
(***************************************************************************)
(* Shares are counted once.  Before the handshake is over no answer to a   *)
(* share is on its way, unless one was sent early, so the handshake, which *)
(* does not count what it reads, reads none.                               *)
(***************************************************************************)
NoSubmits == {r \in Requests : r.request # "submit"}
NoVerdicts == {l \in Lines : ~(IsAnswer(l) /\ l.id = 4)}

NoEarlyShare ==
    ~early /\ place # "receiving" => toPool \in Seq(NoSubmits) /\ toClient \in Seq(NoVerdicts)

LEMMA EarlierAnswers ==
    ASSUME TypeOK, ServeSubscribe \/ ServeAuthorize \/ ServeExtranonce
    PROVE  \/ toClient' = toClient
           \/ \E l \in NoVerdicts : toClient' = Append(toClient, l)
<1>0. 1 \in 1..4 /\ 2 \in 1..4 /\ 3 \in 1..4 /\ 1 # 4 /\ 2 # 4 /\ 3 # 4
  OBVIOUS
<1>1. toClient \in Seq(Lines)
  BY DEF TypeOK
<1>2. ASSUME Replies(<<>>)
      PROVE  toClient' = toClient
  BY <1>1, <1>2 DEF Replies
<1>3. ASSUME NEW id \in 1..4, id # 4, NEW res \in Outcomes, Replies(<<Answer(id, res)>>)
      PROVE  \E l \in NoVerdicts : toClient' = Append(toClient, l)
  <2>1. Answer(id, res) \in NoVerdicts
    BY <1>3, LineFacts, ZenonT(60) DEF NoVerdicts
  <2>2. \A l \in NoVerdicts : Replies(<<l>>) => toClient' = Append(toClient, l)
    BY <1>1, PutBehind DEF Replies, NoVerdicts
  <2>. QED
    BY <1>3, <2>1, <2>2, Zenon
<1>4. \A res \in {"bad", "none"} : res \in Outcomes
  BY OutcomeFacts
<1>. QED
  BY <1>0, <1>2, <1>3, <1>4, OutcomeFacts, Zenon DEF ServeSubscribe, ServeAuthorize,
                                                     ServeExtranonce

LEMMA ShareJudged ==
    ASSUME TypeOK, ServeShare
    PROVE  \/ \E res \in Results : /\ toClient' = Append(toClient, Answer(4, res))
                                   /\ judged' = [judged EXCEPT ![res] = @ + 1]
           \/ toClient' = Append(toClient, Answer(4, "none")) /\ judged' = judged
<1>1. ASSUME NEW res \in Outcomes, Replies(<<Answer(4, res)>>)
      PROVE  toClient' = Append(toClient, Answer(4, res))
  <2>1. Answer(4, res) \in Lines
    BY AnswersAreLines, Zenon
  <2>2. \A l \in Lines : Replies(<<l>>) => toClient' = Append(toClient, l)
    BY PutBehind DEF Replies, TypeOK
  <2>. QED
    BY <1>1, <2>1, <2>2, Zenon
<1>. QED
  BY <1>1, OutcomeFacts, Zenon DEF ServeShare

LEMMA NoEarlyShareStep == TypeOK /\ NoEarlyShare /\ [Next]_vars => NoEarlyShare'
<1>. SUFFICES ASSUME TypeOK, NoEarlyShare, [Next]_vars, ~early', place' # "receiving"
              PROVE  toPool' \in Seq(NoSubmits) /\ toClient' \in Seq(NoVerdicts)
  BY Zenon DEF NoEarlyShare
<1>. USE DEF poolVars, seenVars, loadVars
<1>1. CASE SubscribeFails \/ AuthorizeRefused \/ ReplyRefuses \/ HandleReconnect \/ Drop
  <2>1. toPool' = <<>> /\ toClient' = <<>>
    BY <1>1 DEF SubscribeFails, AuthorizeRefused, ReplyRefuses, HandleReconnect, Drop, Disconnect
  <2>. QED
    BY <2>1
<1>2. CASE ~early /\ place # "receiving"
  <2>0. toPool \in Seq(NoSubmits) /\ toClient \in Seq(NoVerdicts)
    BY <1>2, Zenon DEF NoEarlyShare
  <2>1. /\ toClient # <<>> => Tail(toClient) \in Seq(NoVerdicts)
        /\ \A l \in NoVerdicts : Append(toClient, l) \in Seq(NoVerdicts)
    BY <2>0, TakenOff, PutBehind
  <2>2. /\ toPool # <<>> => Tail(toPool) \in Seq(NoSubmits)
        /\ \A r \in NoSubmits : Append(toPool, r) \in Seq(NoSubmits)
    BY <2>0, TakenOff, PutBehind
  <2>3. \A r \in {"subscribe", "resume", "authorize", "extranonce"} : Request(r) \in NoSubmits
    BY RequestFacts DEF NoSubmits
  <2>4. CASE Connect \/ Subscribe \/ ExtranonceTimesOut \/ UNCHANGED vars
    BY <2>0, <2>2, <2>3, <2>4 DEF Connect, Subscribe, ExtranonceTimesOut, vars
  <2>5. CASE Subscribed \/ RetrySubscribe \/ AuthorizeAnswered \/ ExtranonceAnswered
    <3>1. toClient # <<>> /\ toClient' = Tail(toClient)
      BY <2>5, NoSubscription
         DEF Subscribed, RetrySubscribe, AuthorizeAnswered, ExtranonceAnswered, Line
    <3>2. \/ toPool' = toPool
          \/ \E r \in {"subscribe", "resume", "authorize", "extranonce"} :
                toPool' = Append(toPool, Request(r))
      BY <2>5 DEF Subscribed, RetrySubscribe, AuthorizeAnswered, AskExtranonce,
                  ExtranonceAnswered
    <3>. QED
      BY <2>0, <2>1, <2>2, <2>3, <3>1, <3>2, Zenon
  <2>6. CASE HandleNotify \/ IgnoreReconnect
    BY <2>0, <2>1, <2>6 DEF HandleNotify, IgnoreReconnect, MethodRead
  <2>7. CASE HandleAsk
    <3>1. Head(toClient) \in Lines /\ Head(toClient).kind = "ask" /\ toClient # <<>>
      BY <2>7, TakenOff DEF HandleAsk, MethodRead, TypeOK
    <3>2. Head(toClient).id \in AskIds
      BY <3>1, LineCases
    <3>3. Head(toClient).id # 0 => Reply(Head(toClient).id) \in NoSubmits
      BY <3>2, RequestFacts DEF NoSubmits
    <3>. QED
      BY <2>0, <2>1, <2>2, <2>7, <3>1, <3>3 DEF HandleAsk, MethodRead
  <2>8. CASE ServeSubscribe \/ ServeAuthorize \/ ServeExtranonce
    <3>1. toPool # <<>> /\ toPool' = Tail(toPool)
      BY <2>8, Zenon DEF ServeSubscribe, ServeAuthorize, ServeExtranonce, Asks, Replies
    <3>. QED
      BY <2>0, <2>1, <2>2, <2>8, <3>1, EarlierAnswers
  <2>9. CASE TakeReply
    BY <2>0, <2>2, <2>9, Served DEF TakeReply
  <2>10. CASE PoolSends
    <3>1. toPool' = toPool
      BY <2>10 DEF SendNotify, SendAsk, SendReconnect, SendMalformed, PoolSends
    <3>. QED
      BY <2>0, <2>1, <2>10, <3>1, MethodsSent DEF NoVerdicts
  <2>11. ~ServeShare
    <3>1. toPool # <<>> => Head(toPool) \in NoSubmits
      BY <2>0, TakenOff
    <3>. QED
      BY <3>1 DEF ServeShare, Asks, NoSubmits
  <2>12. ~SendShare /\ ~HandleResponse
    BY <1>2, Zenon DEF SendShare, HandleResponse
  <2>13. CASE ReplyFails
    BY <2>0, <2>1, <2>2, <2>3, <2>13, ReplyLost
  <2>. QED
    BY <1>1, <2>4, <2>5, <2>6, <2>7, <2>8, <2>9, <2>10, <2>11, <2>12, <2>13
       DEF Next, Serve, ClientStep, Handshake, HandleMethod
<1>3. CASE ~ (SubscribeFails \/ AuthorizeRefused \/ ReplyRefuses \/ HandleReconnect \/ Drop)
           /\ ~ (~early /\ place # "receiving")
  <2>1. SendShare \/ early' = early
    BY <1>3 DEF Next, PoolSends, Serve, ClientStep, Handshake, HandleMethod, Connect, Subscribe,
                Subscribed, RetrySubscribe, AuthorizeAnswered, AskExtranonce,
                ExtranonceAnswered, ExtranonceTimesOut, HandleNotify, HandleAsk, ReplyFails,
                IgnoreReconnect, MethodRead, HandleResponse, ServeSubscribe, ServeAuthorize,
                ServeExtranonce, ServeShare, TakeReply, SendNotify, SendAsk, SendReconnect,
                SendMalformed, vars
  <2>2. ~early
    BY <2>1, Zenon DEF SendShare
  <2>3. place = "receiving"
    BY <1>3, <2>2, Zenon
  <2>. QED
    BY <1>3, <2>3 DEF Next, PoolSends, Serve, ClientStep, Handshake, HandleMethod, Connect,
                      Subscribe, Subscribed, RetrySubscribe, AuthorizeAnswered, AskExtranonce,
                      ExtranonceAnswered, ExtranonceTimesOut, HandleNotify, HandleAsk,
                      ReplyFails, IgnoreReconnect, NotReplied, MethodRead, HandleResponse,
                      SendShare, ServeSubscribe, ServeAuthorize, ServeExtranonce, ServeShare,
                      TakeReply, SendNotify, SendAsk, SendReconnect, SendMalformed, vars
<1>. QED
  BY <1>1, <1>2, <1>3, Zenon

LEMMA SharesStep ==
    TypeOK /\ NoEarlyShare /\ SharesAreCounted /\ [Next]_vars => SharesAreCounted'
<1>. SUFFICES ASSUME TypeOK, NoEarlyShare, SharesAreCounted, [Next]_vars, NEW res \in Results
              PROVE  LET known == counted'[res] + Count(Answer(4, res), toClient')
                     IN  known <= judged'[res] /\ (~early' => known = judged'[res])
  BY Zenon DEF SharesAreCounted
<1>. USE DEF poolVars, seenVars, loadVars
<1>. DEFINE a == Answer(4, res)
            c == counted[res]
            n == Count(a, toClient)
            j == judged[res]
<1>0. /\ toClient \in Seq(Lines) /\ TalliesOK
      /\ toClient # <<>> => Head(toClient) \in Lines
  BY TakenOff DEF TypeOK
<1>. 4 \in 1..4
  OBVIOUS
<1>1. a \in Lines /\ IsAnswer(a) /\ a.id = 4 /\ a.res = res
  <2>1. res \in Outcomes
    BY OutcomeFacts, Zenon
  <2>. QED
    BY <2>1, LineFacts, ZenonT(60) DEF IsAnswer
<1>2. c + n <= j /\ (~early => c + n = j)
  BY Zenon DEF SharesAreCounted
<1>3. \A r \in Results : r # res => Answer(4, r) # a
  <2>1. \A r \in Results : Answer(4, r).res = r
    BY DEF Answer
  <2>. QED
    BY <1>1, <2>1, Zenon
<1>4. ASSUME NEW l \in Lines, toClient' = Append(toClient, l)
      PROVE  /\ l = a => n' = n + 1
             /\ l # a => n' = n
  <2>. HIDE DEF a
  <2>1. Count(a, Append(toClient, l)) = n + (IF l = a THEN 1 ELSE 0) /\ n \in Nat
    BY <1>0, CountAppend, CountType
  <2>2. n' = Count(a, Append(toClient, l))
    BY <1>4 DEF a
  <2>. QED
    BY <2>1, <2>2
<1>5. ASSUME toClient # <<>>, toClient' = Tail(toClient)
      PROVE  /\ Head(toClient) = a => n = n' + 1
             /\ Head(toClient) # a => n = n'
  <2>. HIDE DEF a
  <2>1. n = Count(a, Tail(toClient)) + (IF Head(toClient) = a THEN 1 ELSE 0)
    BY <1>0, <1>5, CountTail
  <2>2. n' = Count(a, Tail(toClient)) /\ Count(a, Tail(toClient)) \in Nat
    BY <1>0, <1>5, TakenOff, CountType DEF a
  <2>. QED
    BY <2>1, <2>2
<1>6. c \in Nat /\ n \in Nat /\ j \in Nat /\ c' \in Nat /\ n' \in Nat /\ j' \in Nat
  <2>1. TalliesOK' /\ toClient' \in Seq(Lines)
    BY TypesStep DEF TypeOK
  <2>2. \A s \in Seq(Lines) : Count(a, s) \in Nat
    BY CountType
  <2>. QED
    BY <1>0, <2>1, <2>2, Zenon DEF TalliesOK
<1>7. \/ SubscribeFails \/ AuthorizeRefused \/ ReplyRefuses \/ HandleReconnect \/ Drop
      \/ ~early' => ~early
  <2>1. \/ SubscribeFails \/ AuthorizeRefused \/ ReplyRefuses \/ HandleReconnect \/ Drop
        \/ SendShare \/ early' = early
    BY DEF Next, PoolSends, Serve, ClientStep, Handshake, HandleMethod, Connect, Subscribe,
           Subscribed, RetrySubscribe, AuthorizeAnswered, ExtranonceAnswered,
           ExtranonceTimesOut, HandleNotify, HandleAsk, ReplyFails, IgnoreReconnect,
           HandleResponse, ServeSubscribe, ServeAuthorize, ServeExtranonce, ServeShare,
           TakeReply, SendNotify, SendAsk, SendReconnect, SendMalformed, vars
  <2>. QED
    BY <2>1, Zenon DEF SendShare
<1>. SUFFICES c' + n' <= j' /\ (~early' => c' + n' = j')
  OBVIOUS
<1>8. CASE SubscribeFails \/ AuthorizeRefused \/ ReplyRefuses \/ HandleReconnect \/ Drop
  <2>1. judged' = NoShares /\ counted' = NoShares /\ toClient' = <<>>
    BY <1>8 DEF SubscribeFails, AuthorizeRefused, ReplyRefuses, HandleReconnect, Drop, Disconnect
  <2>2. NoShares[res] = 0
    BY Zenon DEF NoShares
  <2>3. c' = 0 /\ j' = 0 /\ n' = 0
    BY <2>1, <2>2, CountEmpty, Zenon
  <2>. HIDE DEF c, n, j
  <2>. QED
    BY <2>3
<1>9. ASSUME ~early' => ~early, c' = c, n' = n, j' = j
      PROVE  c' + n' <= j' /\ (~early' => c' + n' = j')
  BY <1>2, <1>9, Zenon
<1>10. ASSUME ~early' => ~early, judged' = judged, counted' = counted, toClient' = toClient
       PROVE  c' + n' <= j' /\ (~early' => c' + n' = j')
  BY <1>9, <1>10, Zenon
<1>11. ASSUME ~early' => ~early, judged' = judged, counted' = counted,
              toClient # <<>>, toClient' = Tail(toClient), Head(toClient) # a
       PROVE  c' + n' <= j' /\ (~early' => c' + n' = j')
  BY <1>5, <1>9, <1>11, Zenon
<1>12. ASSUME ~early' => ~early, judged' = judged, counted' = counted,
              NEW l \in Lines, l # a, toClient' = Append(toClient, l)
       PROVE  c' + n' <= j' /\ (~early' => c' + n' = j')
  BY <1>4, <1>9, <1>12, Zenon
<1>13. ASSUME \/ Connect \/ Subscribe \/ ExtranonceTimesOut \/ SendShare \/ TakeReply
              \/ UNCHANGED vars,
              ~early' => ~early
       PROVE  c' + n' <= j' /\ (~early' => c' + n' = j')
  <2>1. toClient' = toClient
    BY <1>13, Served DEF Connect, Subscribe, ExtranonceTimesOut, SendShare, TakeReply, vars
  <2>2. judged' = judged /\ counted' = counted
    BY <1>13 DEF Connect, Subscribe, ExtranonceTimesOut, SendShare, TakeReply, vars
  <2>. QED
    BY <1>10, <1>13, <2>1, <2>2, Zenon
\* In the handshake an answer to a share is lost, but there is none unless it is early.
<1>14. ASSUME Subscribed \/ RetrySubscribe \/ AuthorizeAnswered \/ ExtranonceAnswered,
              ~early' => ~early
       PROVE  c' + n' <= j' /\ (~early' => c' + n' = j')
  <2>1. /\ toClient # <<>> /\ toClient' = Tail(toClient) /\ judged' = judged /\ counted' = counted
        /\ place # "receiving"
    BY <1>14 DEF Subscribed, RetrySubscribe, NotSubscribed, AuthorizeAnswered,
                 ExtranonceAnswered, Line
  <2>2. CASE Head(toClient) # a
    BY <1>11, <1>14, <2>1, <2>2, Zenon
  <2>3. CASE Head(toClient) = a
    <3>1. early
      <4>. SUFFICES ASSUME ~early PROVE FALSE
        OBVIOUS
      <4>1. toClient \in Seq(NoVerdicts)
        BY <2>1, Zenon DEF NoEarlyShare
      <4>2. Head(toClient) \in NoVerdicts
        BY <2>1, <4>1, TakenOff
      <4>. QED
        BY <1>1, <2>3, <4>2, Zenon DEF NoVerdicts
    <3>2. c' = c /\ j' = j /\ n = n' + 1
      BY <1>5, <2>1, <2>3, Zenon
    <3>3. early'
      BY <1>14, <3>1
    <3>4. \A x, y, z \in Nat : x + (y + 1) <= z => x + y <= z
      OBVIOUS
    <3>5. c + (n' + 1) <= j
      BY <1>2, <3>2, Zenon
    <3>6. c + n' <= j
      BY <1>6, <3>4, <3>5, Zenon
    <3>. QED
      BY <3>2, <3>3, <3>6, Zenon
  <2>. QED
    BY <2>2, <2>3, Zenon
<1>15. ASSUME HandleNotify \/ HandleAsk \/ IgnoreReconnect \/ ReplyFails, ~early' => ~early
       PROVE  c' + n' <= j' /\ (~early' => c' + n' = j')
  <2>1. CASE HandleNotify \/ HandleAsk \/ IgnoreReconnect
    <3>1. /\ toClient # <<>> /\ toClient' = Tail(toClient) /\ judged' = judged /\ counted' = counted
          /\ ~IsAnswer(Head(toClient))
      BY <2>1 DEF HandleNotify, HandleAsk, IgnoreReconnect, MethodRead, IsAnswer
    <3>. QED
      BY <1>1, <1>11, <1>15, <3>1, Zenon
  <2>2. CASE ReplyFails
    <3>1. /\ toClient # <<>> /\ toClient' = Tail(toClient) /\ judged' = judged /\ counted' = counted
          /\ ~IsAnswer(Head(toClient))
      BY <2>2, ReplyLost DEF IsAnswer
    <3>. QED
      BY <1>1, <1>11, <1>15, <3>1, Zenon
  <2>. QED
    BY <1>15, <2>1, <2>2
<1>16. ASSUME HandleResponse, ~early' => ~early
       PROVE  c' + n' <= j' /\ (~early' => c' + n' = j')
  <2>1. toClient # <<>> /\ toClient' = Tail(toClient) /\ judged' = judged
    BY <1>16 DEF HandleResponse
  <2>2. CASE counted' = counted /\ \A r \in Results : Head(toClient) # Answer(4, r)
    BY <1>11, <1>16, <2>1, <2>2, Zenon
  <2>3. ASSUME NEW r \in Results, Head(toClient) = Answer(4, r), ShareResult(r)
        PROVE  c' + n' <= j' /\ (~early' => c' + n' = j')
    <3>1. counted \in [Results -> Nat] /\ counted' = [counted EXCEPT ![r] = @ + 1]
      BY <1>0, <2>3 DEF TalliesOK, ShareResult
    <3>2. CASE r = res
      <4>1. c' = c + 1
        BY <3>1, <3>2, Zenon
      <4>2. n = n' + 1 /\ j' = j
        BY <1>5, <2>1, <2>3, <3>2, Zenon
      <4>3. \A x, y \in Nat : (x + 1) + y = x + (y + 1)
        OBVIOUS
      <4>4. c' + n' = c + n
        <5>1. (c + 1) + n' = c + (n' + 1)
          BY <1>6, <4>3, Zenon
        <5>. HIDE DEF c, n
        <5>. QED
          BY <4>1, <4>2, <5>1
      <4>. QED
        BY <1>2, <1>16, <4>2, <4>4, Zenon
    <3>3. CASE r # res
      <4>1. c' = c
        BY <3>1, <3>3, Zenon
      <4>2. n = n' /\ j' = j
        BY <1>3, <1>5, <2>1, <2>3, <3>3, Zenon
      <4>. QED
        BY <1>9, <1>16, <4>1, <4>2, Zenon
    <3>. QED
      BY <3>2, <3>3
  <2>. QED
    BY <1>16, <2>2, <2>3, Counted, Zenon
<1>17. ASSUME ServeSubscribe \/ ServeAuthorize \/ ServeExtranonce, ~early' => ~early
       PROVE  c' + n' <= j' /\ (~early' => c' + n' = j')
  <2>1. judged' = judged /\ counted' = counted
    BY <1>17 DEF ServeSubscribe, ServeAuthorize, ServeExtranonce
  <2>2. \A l \in NoVerdicts : l \in Lines /\ l # a
    BY <1>1, Zenon DEF NoVerdicts
  <2>. QED
    BY <1>10, <1>12, <1>17, <2>1, <2>2, EarlierAnswers, Zenon
<1>18. ASSUME PoolSends, ~early' => ~early
       PROVE  c' + n' <= j' /\ (~early' => c' + n' = j')
  <2>1. judged' = judged /\ counted' = counted
    BY <1>18 DEF SendNotify, SendAsk, SendReconnect, SendMalformed, PoolSends
  <2>. QED
    BY <1>1, <1>12, <1>18, <2>1, MethodsSent, Zenon
<1>19. ASSUME ServeShare, ~early' => ~early
       PROVE  c' + n' <= j' /\ (~early' => c' + n' = j')
  <2>1. counted' = counted
    BY <1>19 DEF ServeShare
  <2>2. CASE toClient' = Append(toClient, Answer(4, "none")) /\ judged' = judged
    <3>1. Answer(4, "none") \in Lines /\ Answer(4, "none").res = "none"
      BY LineFacts, OutcomeFacts, ZenonT(60)
    <3>2. Answer(4, "none") # a
      BY <1>1, <3>1, OutcomeFacts, Zenon
    <3>. QED
      BY <1>12, <1>19, <2>1, <2>2, <3>1, <3>2, Zenon
  <2>3. ASSUME NEW r \in Results, toClient' = Append(toClient, Answer(4, r)),
               judged' = [judged EXCEPT ![r] = @ + 1]
        PROVE  c' + n' <= j' /\ (~early' => c' + n' = j')
    <3>1. judged \in [Results -> Nat] /\ Answer(4, r) \in Lines
      BY <1>0, AnswersAreLines, OutcomeFacts, Zenon DEF TalliesOK
    <3>2. CASE r = res
      <4>1. j' = j + 1
        BY <2>3, <3>1, <3>2, Zenon
      <4>2. n' = n + 1 /\ c' = c
        BY <1>4, <2>1, <2>3, <3>1, <3>2, Zenon
      <4>. HIDE DEF c, n, j
      <4>. QED
        BY <1>2, <1>6, <1>19, <4>1, <4>2
    <3>3. CASE r # res
      <4>1. j' = j
        BY <2>3, <3>1, <3>3, Zenon
      <4>2. n' = n /\ c' = c
        BY <1>3, <1>4, <2>1, <2>3, <3>1, <3>3, Zenon
      <4>. QED
        BY <1>9, <1>19, <4>1, <4>2, Zenon
    <3>. QED
      BY <3>2, <3>3
  <2>. QED
    BY <1>19, <2>2, <2>3, ShareJudged, Zenon
<1>. QED
  BY <1>7, <1>8, <1>13, <1>14, <1>15, <1>16, <1>17, <1>18, <1>19, Zenon
     DEF Next, Serve, ClientStep, Handshake, HandleMethod

\* No answer to a share is counted twice or for what it is not, and none that has
\* a result is lost unless a share was sent before the handshake was over.
THEOREM SharesAreCountedOnce == Spec => []SharesAreCounted
<1>. DEFINE Inv == TypeOK /\ NoEarlyShare /\ SharesAreCounted
<1>1. Init => Inv
  <2>. SUFFICES ASSUME Init PROVE NoEarlyShare /\ SharesAreCounted
    BY TypesInit
  <2>1. toPool = <<>> /\ toClient = <<>> /\ judged = NoShares /\ counted = NoShares
    BY DEF Init
  <2>2. NoEarlyShare
    BY <2>1 DEF NoEarlyShare
  <2>3. ASSUME NEW res \in Results, NEW a
        PROVE  /\ counted[res] + Count(a, toClient) <= judged[res]
               /\ counted[res] + Count(a, toClient) = judged[res]
    <3>1. Count(a, toClient) = 0 /\ judged[res] = 0 /\ counted[res] = 0
      BY <2>1, CountEmpty, Zenon DEF NoShares
    <3>. QED
      BY <3>1
  <2>. QED
    BY <2>2, <2>3, Zenon DEF SharesAreCounted
<1>2. Inv /\ [Next]_vars => Inv'
  BY TypesStep, NoEarlyShareStep, SharesStep, Zenon
<1>. QED
  BY <1>1, <1>2, PTL DEF Spec

-----------------------------------------------------------------------------
(***************************************************************************)
(* Requests of the pool are answered once.                                 *)
(***************************************************************************)
\* Requests with this number that are not, or no longer, on the way to a reply.
Missing(id) ==
    Count(id, asked) - (Count(id, replied) + Count(Reply(id), toPool) + Count(Ask(id), toClient)
                           + Count(id, unsent))

LEMMA AskStep ==
    ASSUME TypeOK, Closed, MethodsFollow, [Next]_vars, NEW id \in AskIds \ {0},
           Missing(id) \in IF id = 3 /\ place = "receiving" THEN {0, 1} ELSE {0}
    PROVE  Missing(id)' \in IF id = 3 /\ place' = "receiving" THEN {0, 1} ELSE {0}
<1>. USE DEF poolVars, askVars, seenVars, loadVars
<1>. DEFINE q == Reply(id)
            l == Ask(id)
            A == Count(id, asked)
            R == Count(id, replied)
            P == Count(q, toPool)
            C == Count(l, toClient)
            U == Count(id, unsent)
<1>1. /\ toPool \in Seq(Requests) /\ toClient \in Seq(Lines)
      /\ asked \in Seq(AskIds) /\ replied \in Seq(AskIds) /\ unsent \in Seq(AskIds)
      /\ toClient # <<>> => Head(toClient) = toClient[1] /\ Head(toClient) \in Lines
                               /\ 1 \in 1..Len(toClient)
      /\ toPool # <<>> => Head(toPool) \in Requests
  BY TakenOff DEF TypeOK
<1>2. /\ l \in Lines /\ l.kind = "ask" /\ l.id = id
      /\ q \in Requests /\ q.request = "reply" /\ q.id = id
  BY LineFacts, RequestFacts
<1>. HIDE DEF q, l
<1>3. A \in Nat /\ R \in Nat /\ P \in Nat /\ C \in Nat /\ U \in Nat
  BY <1>1, CountType
<1>4. Missing(id) = A - (R + P + C + U) /\ Missing(id)' = A' - (R' + P' + C' + U')
  BY DEF Missing, q, l
<1>5. ASSUME NEW r \in Requests, r # q
      PROVE  Count(q, Append(toPool, r)) = P
  BY <1>1, <1>3, <1>5, CountAppend
<1>6. ASSUME toPool # <<>>, Head(toPool) # q
      PROVE  Count(q, Tail(toPool)) = P
  <2>1. P = Count(q, Tail(toPool)) + 0 /\ Count(q, Tail(toPool)) \in Nat
    BY <1>1, <1>6, CountTail, CountType, TakenOff
  <2>. QED
    BY <2>1
<1>7. ASSUME NEW m \in Lines, m # l
      PROVE  Count(l, Append(toClient, m)) = C
  BY <1>1, <1>3, <1>7, CountAppend
<1>8. ASSUME toClient # <<>>, Head(toClient) # l
      PROVE  Count(l, Tail(toClient)) = C
  <2>1. C = Count(l, Tail(toClient)) + 0 /\ Count(l, Tail(toClient)) \in Nat
    BY <1>1, <1>8, CountTail, CountType, TakenOff
  <2>. QED
    BY <2>1
<1>9. ASSUME A' = A, R' = R, P' = P, C' = C, U' = U, place = "receiving" => place' = "receiving"
      PROVE  Missing(id)' \in IF id = 3 /\ place' = "receiving" THEN {0, 1} ELSE {0}
  <2>. HIDE DEF A, R, P, C, U
  <2>. QED
    BY <1>4, <1>9
<1>10. CASE SubscribeFails \/ AuthorizeRefused \/ ReplyRefuses \/ HandleReconnect \/ Drop
  <2>1. /\ asked' = <<>> /\ replied' = <<>> /\ unsent' = <<>>
        /\ toPool' = <<>> /\ toClient' = <<>>
    BY <1>10 DEF SubscribeFails, AuthorizeRefused, ReplyRefuses, HandleReconnect, Drop,
                 Disconnect
  <2>2. A' = 0 /\ R' = 0 /\ P' = 0 /\ C' = 0 /\ U' = 0
    BY <2>1, CountEmpty
  <2>. HIDE DEF A, R, P, C, U
  <2>. QED
    BY <1>4, <2>2
<1>11. CASE \/ Connect \/ Subscribe \/ ExtranonceTimesOut \/ SendShare \/ UNCHANGED vars
  <2>1. /\ asked' = asked /\ replied' = replied /\ unsent' = unsent /\ toClient' = toClient
        /\ place = "receiving" => place' = "receiving"
    BY <1>11 DEF Connect, Subscribe, ExtranonceTimesOut, SendShare, vars
  <2>2. \/ toPool' = toPool
        \/ \E r \in {"subscribe", "resume", "submit"} : toPool' = Append(toPool, Request(r))
    BY <1>11 DEF Connect, Subscribe, ExtranonceTimesOut, SendShare, vars
  <2>3. P' = P
    <3>1. \A r \in {"subscribe", "resume", "submit"} : Request(r) \in Requests /\ Request(r) # q
      BY <1>2, RequestFacts
    <3>2. CASE toPool' = toPool
      BY <3>2
    <3>3. ASSUME NEW r \in {"subscribe", "resume", "submit"}, toPool' = Append(toPool, Request(r))
          PROVE  P' = P
      BY <1>5, <3>1, <3>3
    <3>. QED
      BY <2>2, <3>2, <3>3
  <2>. QED
    BY <1>9, <2>1, <2>3
<1>12. CASE Subscribed \/ RetrySubscribe
  <2>1. /\ asked' = asked /\ replied' = replied /\ unsent' = unsent
        /\ toClient # <<>> /\ toClient' = Tail(toClient)
        /\ place = "receiving" => place' = "receiving"
        /\ \E r \in {"subscribe", "authorize"} : toPool' = Append(toPool, Request(r))
    BY <1>12 DEF Subscribed, RetrySubscribe, NotSubscribed, Line
  <2>2. IsAnswer(Head(toClient))
    BY <1>12, <2>1, FirstIsAnswer DEF Subscribed, RetrySubscribe
  <2>3. P' = P /\ C' = C
    BY <1>2, <1>5, <1>8, <2>1, <2>2, RequestFacts DEF IsAnswer
  <2>. QED
    BY <1>9, <2>1, <2>3
<1>13. CASE AuthorizeAnswered
  <2>1. /\ asked' = asked /\ replied' = replied /\ unsent' = unsent /\ place # "receiving"
        /\ toClient # <<>> /\ toClient' = Tail(toClient)
        /\ Head(toClient).kind \in {"answer", "malformed"} \/ Head(toClient) = Ask(0)
        /\ toPool' = toPool \/ toPool' = Append(toPool, Request("extranonce"))
    BY <1>13 DEF AuthorizeAnswered, EndsWait, AskExtranonce
  <2>2. Head(toClient) # l
    BY <1>2, <2>1, LineFacts DEF AskIds
  <2>3. P' = P /\ C' = C
    BY <1>2, <1>5, <1>8, <2>1, <2>2, RequestFacts
  <2>. QED
    BY <1>9, <2>1, <2>3
<1>14. CASE ExtranonceAnswered
  <2>1. /\ asked' = asked /\ replied' = replied /\ unsent' = unsent /\ toPool' = toPool
        /\ place = "extranonce" /\ place' = "receiving"
        /\ toClient # <<>> /\ toClient' = Tail(toClient)
        /\ Head(toClient).kind \in {"answer", "malformed"} \/ Head(toClient) = Ask(3)
    BY <1>14 DEF ExtranonceAnswered, Line
  <2>2. CASE Head(toClient) # l
    BY <1>8, <1>9, <2>1, <2>2
  <2>3. CASE Head(toClient) = l
    <3>1. id = 3
      BY <1>2, <2>1, <2>3, LineFacts DEF AskIds
    <3>2. C = Count(l, Tail(toClient)) + 1 /\ Count(l, Tail(toClient)) \in Nat
      BY <1>1, <2>1, <2>3, CountTail, CountType, TakenOff
    <3>3. PICK d \in Nat : A' = A /\ R' = R /\ P' = P /\ U' = U /\ C = d + 1 /\ C' = d
      BY <2>1, <3>2
    <3>4. Missing(id) = 0
      BY <2>1
    <3>. HIDE DEF A, R, P, C, U
    <3>5. A - (R + P + (d + 1) + U) = 0 /\ Missing(id)' = A - (R + P + d + U)
      BY <1>4, <3>3, <3>4
    <3>6. Missing(id)' = 1
      BY <1>3, <3>5
    <3>. QED
      BY <2>1, <3>1, <3>6
  <2>. QED
    BY <2>2, <2>3
<1>15. CASE HandleNotify \/ IgnoreReconnect \/ HandleResponse
  <2>1. /\ asked' = asked /\ replied' = replied /\ unsent' = unsent /\ toPool' = toPool
        /\ place = "receiving" => place' = "receiving"
        /\ toClient # <<>> /\ toClient' = Tail(toClient) /\ Head(toClient).kind # "ask"
    BY <1>15 DEF HandleNotify, IgnoreReconnect, MethodRead, HandleResponse
  <2>. QED
    BY <1>2, <1>8, <1>9, <2>1
<1>16. CASE HandleAsk
  <2>. DEFINE h == Head(toClient)
  <2>1. /\ asked' = asked /\ replied' = replied /\ unsent' = unsent
        /\ place = "receiving" => place' = "receiving"
        /\ toClient # <<>> /\ toClient' = Tail(toClient) /\ h.kind = "ask"
        /\ toPool' = IF h.id = 0 THEN toPool ELSE Append(toPool, Reply(h.id))
    BY <1>16 DEF HandleAsk, MethodRead
  <2>2. h.id \in AskIds /\ h = Ask(h.id)
    BY <1>1, <2>1, LineCases
  <2>3. CASE h.id = id
    <3>1. h = l /\ toPool' = Append(toPool, q)
      BY <2>1, <2>2, <2>3 DEF l, q
    <3>2. C = Count(l, Tail(toClient)) + 1 /\ Count(l, Tail(toClient)) \in Nat
      BY <1>1, <2>1, <3>1, CountTail, CountType, TakenOff
    <3>3. Count(q, Append(toPool, q)) = P + 1
      BY <1>1, <1>2, CountAppend
    <3>4. A' = A /\ R' = R /\ P' = P + 1 /\ U' = U /\ C = C' + 1 /\ C' \in Nat
      BY <2>1, <3>1, <3>2, <3>3
    <3>. HIDE DEF A, R, P, C, U
    <3>5. Missing(id)' = Missing(id)
      BY <1>3, <1>4, <3>4
    <3>. QED
      BY <2>1, <3>5
  <2>4. CASE h.id # id
    <3>1. h # l
      BY <1>2, <2>4
    <3>2. h.id # 0 => Reply(h.id) \in Requests /\ Reply(h.id) # q
      BY <1>2, <2>2, <2>4, RequestFacts
    <3>3. P' = P /\ C' = C
      BY <1>5, <1>8, <2>1, <3>1, <3>2
    <3>. QED
      BY <1>9, <2>1, <3>3
  <2>. QED
    BY <2>3, <2>4
<1>17. CASE ServeSubscribe \/ ServeAuthorize \/ ServeExtranonce \/ ServeShare
  <2>1. asked' = asked /\ replied' = replied /\ unsent' = unsent /\ place' = place
    BY <1>17 DEF ServeSubscribe, ServeAuthorize, ServeExtranonce, ServeShare
  <2>2. toPool # <<>> /\ toPool' = Tail(toPool) /\ Head(toPool).request # "reply"
    BY <1>17, Zenon DEF ServeSubscribe, ServeAuthorize, ServeExtranonce, ServeShare, Asks,
                        Replies
  <2>3. toClient' = toClient \/ \E m \in Lines : IsAnswer(m) /\ toClient' = Append(toClient, m)
    BY <1>17, AnswersReplied, SubscriptionAnswered
  <2>4. P' = P /\ C' = C
    BY <1>2, <1>6, <1>7, <2>2, <2>3 DEF IsAnswer
  <2>. QED
    BY <1>9, <2>1, <2>4
<1>18. CASE TakeReply
  <2>. DEFINE h == Head(toPool)
  <2>1. /\ toPool # <<>> /\ toPool' = Tail(toPool) /\ toClient' = toClient /\ h.request = "reply"
        /\ asked' = asked /\ replied' = Append(replied, h.id) /\ unsent' = unsent
        /\ place' = place
    BY <1>18, Served DEF TakeReply
  <2>2. h.id \in AskIds /\ h = Reply(h.id)
    BY <1>1, <2>1, RequestCases
  <2>3. CASE h.id = id
    <3>1. h = q
      BY <2>2, <2>3 DEF q
    <3>2. P = Count(q, Tail(toPool)) + 1 /\ Count(q, Tail(toPool)) \in Nat
      BY <1>1, <2>1, <3>1, CountTail, CountType, TakenOff
    <3>3. Count(id, Append(replied, h.id)) = R + 1
      BY <1>1, <2>2, <2>3, CountAppend
    <3>4. A' = A /\ R' = R + 1 /\ P = P' + 1 /\ C' = C /\ U' = U /\ P' \in Nat
      BY <2>1, <3>2, <3>3
    <3>. HIDE DEF A, R, P, C, U
    <3>5. Missing(id)' = Missing(id)
      BY <1>3, <1>4, <3>4
    <3>. QED
      BY <2>1, <3>5
  <2>4. CASE h.id # id
    <3>1. h # q
      BY <1>2, <2>4
    <3>2. Count(id, Append(replied, h.id)) = R + 0
      BY <1>1, <2>2, <2>4, CountAppend
    <3>3. R' = R /\ P' = P
      BY <1>3, <1>6, <2>1, <3>1, <3>2
    <3>. QED
      BY <1>9, <2>1, <3>3
  <2>. QED
    BY <2>3, <2>4
<1>19. CASE SendNotify \/ SendReconnect \/ SendMalformed
  <2>1. /\ asked' = asked /\ replied' = replied /\ unsent' = unsent /\ toPool' = toPool
        /\ place' = place
    BY <1>19 DEF SendNotify, SendReconnect, SendMalformed
  <2>2. \E m \in Lines : m.kind # "ask" /\ toClient' = Append(toClient, m)
    <3>1. CASE SendNotify
      <4>1. notified + 1 \in 1..MaxNotifies
        BY <3>1, SessionAssumption DEF SendNotify, TypeOK
      <4>. QED
        BY <3>1, <4>1, LineFacts DEF SendNotify
    <3>2. CASE SendReconnect \/ SendMalformed
      BY <3>2, LineFacts DEF SendReconnect, SendMalformed
    <3>. QED
      BY <1>19, <3>1, <3>2
  <2>. QED
    BY <1>2, <1>7, <1>9, <2>1, <2>2
<1>20. CASE SendAsk
  <2>1. replied' = replied /\ unsent' = unsent /\ toPool' = toPool /\ place' = place
    BY <1>20 DEF SendAsk
  <2>2. PICK k \in AskIds : asked' = Append(asked, k) /\ toClient' = Append(toClient, Ask(k))
    BY <1>20 DEF SendAsk
  <2>3. Ask(k) \in Lines /\ Ask(k).id = k
    BY LineFacts
  <2>4. CASE k = id
    <3>1. Count(id, Append(asked, k)) = A + 1 /\ Count(l, Append(toClient, l)) = C + 1
      BY <1>1, <1>2, <2>4, CountAppend
    <3>2. A' = A + 1 /\ R' = R /\ P' = P /\ U' = U /\ C' = C + 1
      BY <2>1, <2>2, <2>4, <3>1 DEF l
    <3>. HIDE DEF A, R, P, C, U
    <3>3. Missing(id)' = Missing(id)
      BY <1>3, <1>4, <3>2
    <3>. QED
      BY <2>1, <3>3
  <2>5. CASE k # id
    <3>1. Count(id, Append(asked, k)) = A + 0
      BY <1>1, <2>5, CountAppend
    <3>2. C' = C
      BY <1>2, <1>7, <2>2, <2>3, <2>5
    <3>. QED
      BY <1>3, <1>9, <2>1, <2>2, <3>1, <3>2
  <2>. QED
    BY <2>4, <2>5
<1>21. CASE ReplyFails
  <2>. DEFINE h == Head(toClient)
  <2>1. /\ asked' = asked /\ replied' = replied /\ unsent' = Append(unsent, h.id)
        /\ place = "receiving" => place' = "receiving"
        /\ toClient # <<>> /\ toClient' = Tail(toClient)
        /\ h.id \in AskIds /\ h = Ask(h.id)
        /\ toPool' = toPool \/ toPool' = Append(toPool, Request("extranonce"))
    BY <1>21, ReplyLost
  <2>2. P' = P
    BY <1>2, <1>5, <2>1, RequestFacts
  <2>3. CASE h.id = id
    <3>1. h = l
      BY <2>1, <2>3 DEF l
    <3>2. C = Count(l, Tail(toClient)) + 1 /\ Count(l, Tail(toClient)) \in Nat
      BY <1>1, <2>1, <3>1, CountTail, CountType, TakenOff
    <3>3. Count(id, Append(unsent, h.id)) = U + 1
      BY <1>1, <2>1, <2>3, CountAppend
    <3>4. A' = A /\ R' = R /\ U' = U + 1 /\ C = C' + 1 /\ C' \in Nat
      BY <2>1, <3>2, <3>3
    <3>. HIDE DEF A, R, P, C, U
    <3>5. Missing(id)' = Missing(id)
      BY <1>3, <1>4, <2>2, <3>4
    <3>. QED
      BY <2>1, <3>5
  <2>4. CASE h.id # id
    <3>1. h # l
      BY <1>2, <2>4
    <3>2. Count(id, Append(unsent, h.id)) = U + 0
      BY <1>1, <2>1, <2>4, CountAppend
    <3>3. U' = U /\ C' = C
      BY <1>3, <1>8, <2>1, <3>1, <3>2
    <3>. QED
      BY <1>9, <2>1, <2>2, <3>3
  <2>. QED
    BY <2>3, <2>4
<1>. QED
  BY <1>10, <1>11, <1>12, <1>13, <1>14, <1>15, <1>16, <1>17, <1>18, <1>19, <1>20, <1>21
     DEF Next, PoolSends, Serve, ClientStep, Handshake, HandleMethod

\* Every request of the pool that has an id is replied to once, in the handshake
\* too, unless the socket does not take the reply; one that is numbered like the
\* extranonce request may be taken for its answer.
THEOREM RequestsAreAnsweredOnce == Spec => []RequestsAreAnswered
<1>. DEFINE Inv == TypeOK /\ Closed /\ MethodsFollow /\ RequestsAreAnswered
<1>1. Init => Inv
  <2>. SUFFICES ASSUME Init PROVE Closed /\ MethodsFollow /\ RequestsAreAnswered
    BY TypesInit
  <2>1. /\ asked = <<>> /\ replied = <<>> /\ unsent = <<>> /\ toPool = <<>> /\ toClient = <<>>
        /\ place = "connecting"
    BY DEF Init
  <2>2. Closed
    BY Zenon DEF Init, Closed
  <2>3. RequestsAreAnswered
    BY <2>1, CountEmpty DEF RequestsAreAnswered
  <2>. QED
    BY <2>1, <2>2, <2>3 DEF MethodsFollow
<1>2. Inv /\ [Next]_vars => Inv'
  <2>. SUFFICES ASSUME Inv, [Next]_vars PROVE RequestsAreAnswered'
    BY TypesStep, ClosedStep, MethodsFollowStep, Zenon
  <2>1. ASSUME NEW id \in AskIds \ {0}
        PROVE  Missing(id)' \in IF id = 3 /\ place' = "receiving" THEN {0, 1} ELSE {0}
    BY AskStep, Zenon DEF RequestsAreAnswered, Missing
  <2>. QED
    BY <2>1, Zenon DEF RequestsAreAnswered, Missing
<1>. QED
  BY <1>1, <1>2, PTL DEF Spec

-----------------------------------------------------------------------------
(***************************************************************************)
(* Only authorized sessions mine.  Without an early share the client has   *)
(* one request on its way at a time, and there is one answer to it.        *)
(***************************************************************************)
Methods      == {l \in Lines : ~IsAnswer(l)}
Refusals     == {l \in Lines : IsAnswer(l) => l \in {Answer(2, "bad"), Answer(2, "none")}}
NamedLines   == {l \in Lines : l # Ask(0) /\ l.kind # "malformed"}
PoolReplies  == {r \in Requests : r.request = "reply"}
NoAuthorizes == {r \in Requests : r.request # "authorize"}

\* A method without an id or a malformed line is not under way unless the pool has
\* sent one.
AsksAreAsked == Undisturbed => toClient \in Seq(NamedLines)

Opening == place = "opening" /\ ~early => toPool = <<>> /\ toClient = <<>>

Subscribing ==
    place \in {"subscribing", "retrying"} /\ ~early =>
        \/ /\ \E r \in {"subscribe", "resume"} : toPool = <<Request(r)>>
           /\ toClient \in Seq(Methods)
        \/ /\ toPool = <<>>
           /\ toClient # <<>> /\ Tail(toClient) \in Seq(Methods)

Authorizing ==
    place = "authorizing" /\ ~early =>
        \/ /\ toPool # <<>> /\ Head(toPool) = Request("authorize")
           /\ Tail(toPool) \in Seq(PoolReplies)
           /\ toClient \in Seq(Methods)
        \/ /\ toPool \in Seq(PoolReplies)
           /\ verdict = "accepted" \/ toClient \in Seq(Refusals)

Authorized ==
    place \in {"extranonce", "receiving"} /\ ~early /\ Undisturbed =>
        toPool \in Seq(NoAuthorizes) /\ verdict = "accepted"

\* The steps that keep the connection.
LEMMA Connected ==
    ASSUME [Next]_vars, place' # "connecting"
    PROVE  /\ \/ Connect \/ Subscribe \/ Subscribed \/ RetrySubscribe
              \/ AuthorizeAnswered \/ ExtranonceAnswered \/ ExtranonceTimesOut
              \/ HandleNotify \/ HandleAsk \/ ReplyFails \/ IgnoreReconnect
              \/ HandleResponse \/ Serve \/ PoolSends \/ SendShare \/ UNCHANGED vars
           /\ ~early' => ~early
           /\ ~early' /\ place' # "receiving" => ~SendShare
<1>1. ~ (SubscribeFails \/ AuthorizeRefused \/ ReplyRefuses \/ HandleReconnect \/ Drop)
  BY DEF SubscribeFails, AuthorizeRefused, ReplyRefuses, HandleReconnect, Drop, Disconnect
<1>2. SendShare \/ early' = early
  BY <1>1 DEF Next, PoolSends, Serve, ClientStep, Handshake, HandleMethod, Connect, Subscribe,
              Subscribed, RetrySubscribe, AuthorizeAnswered, AskExtranonce, ExtranonceAnswered,
              ExtranonceTimesOut, HandleNotify, HandleAsk, ReplyFails, IgnoreReconnect,
              MethodRead, HandleResponse, ServeSubscribe, ServeAuthorize, ServeExtranonce,
              ServeShare, TakeReply, SendNotify, SendAsk, SendReconnect, SendMalformed, vars,
              loadVars
<1>3. ~early' => ~early
  BY <1>2, Zenon DEF SendShare
<1>4. ~early' /\ place' # "receiving" => ~SendShare
  BY Zenon DEF SendShare
<1>. QED
  BY <1>1, <1>3, <1>4, Zenon DEF Next, PoolSends, ClientStep, Handshake, HandleMethod

\* What has disturbed this connection has disturbed it.
LEMMA StillUndisturbed ==
    ASSUME TypeOK, Undisturbed',
           \/ UNCHANGED <<asked, malformed, unsent>>
           \/ SendAsk \/ SendMalformed \/ ReplyFails
    PROVE  Undisturbed /\ ~SendMalformed /\ ~ReplyFails
<1>1. malformed' = 0 /\ unsent' = <<>> /\ malformed \in Nat /\ unsent \in Seq(AskIds)
  BY DEF Undisturbed, TypeOK
<1>2. ~SendMalformed
  BY <1>1 DEF SendMalformed
<1>3. ~ReplyFails
  <2>. SUFFICES ASSUME ReplyFails PROVE FALSE
    OBVIOUS
  <2>1. unsent' = Append(unsent, Head(toClient).id) /\ Head(toClient).id \in AskIds
    BY ReplyLost
  <2>2. Append(unsent, Head(toClient).id) # <<>>
    <3>1. Len(Append(unsent, Head(toClient).id)) # 0
      BY <1>1, <2>1, PutBehind
    <3>. QED
      BY <3>1
  <2>. QED
    BY <1>1, <2>1, <2>2
<1>4. CASE SendAsk
  <2>1. PICK id \in AskIds : asked' = Append(asked, id)
    BY <1>4 DEF SendAsk
  <2>2. \A i \in 1..Len(asked) : i \in 1..Len(asked') /\ asked'[i] = asked[i]
    BY <2>1, PutBehind DEF TypeOK
  <2>3. malformed' = malformed /\ unsent' = unsent
    BY <1>4 DEF SendAsk
  <2>. QED
    BY <1>2, <1>3, <2>2, <2>3 DEF Undisturbed, NoneAnonymous
<1>5. CASE UNCHANGED <<asked, malformed, unsent>>
  BY <1>2, <1>3, <1>5 DEF Undisturbed, NoneAnonymous
<1>. QED
  BY <1>2, <1>3, <1>4, <1>5

LEMMA UndisturbedStep ==
    ASSUME TypeOK, [Next]_vars, place' # "connecting", Undisturbed'
    PROVE  Undisturbed /\ ~ReplyFails
<1>1. \/ UNCHANGED <<asked, malformed, unsent>>
      \/ SendAsk \/ SendMalformed \/ ReplyFails
  BY Connected
     DEF Serve, Connect, Subscribe, Subscribed, RetrySubscribe, AuthorizeAnswered,
         ExtranonceAnswered, ExtranonceTimesOut, HandleNotify, HandleAsk, IgnoreReconnect,
         HandleResponse, ServeSubscribe, ServeAuthorize, ServeExtranonce, ServeShare, TakeReply,
         PoolSends, SendNotify, SendReconnect, SendShare, vars, poolVars, askVars
<1>. QED
  BY <1>1, StillUndisturbed

LEMMA AsksAreAskedStep == TypeOK /\ AsksAreAsked /\ [Next]_vars => AsksAreAsked'
<1>. SUFFICES ASSUME TypeOK, AsksAreAsked, [Next]_vars, Undisturbed'
              PROVE  toClient' \in Seq(NamedLines)
  BY DEF AsksAreAsked
<1>. USE DEF poolVars, askVars
<1>. DEFINE known == UNCHANGED <<asked, malformed, unsent>>
<1>1. CASE SubscribeFails \/ AuthorizeRefused \/ ReplyRefuses \/ HandleReconnect \/ Drop
  <2>1. toClient' = <<>>
    BY <1>1 DEF SubscribeFails, AuthorizeRefused, ReplyRefuses, HandleReconnect, Drop, Disconnect
  <2>. QED
    BY <2>1
<1>2. ASSUME toClient' = toClient, known
      PROVE  toClient' \in Seq(NamedLines)
  BY <1>2, StillUndisturbed DEF AsksAreAsked
<1>3. ASSUME toClient # <<>>, toClient' = Tail(toClient), known
      PROVE  toClient' \in Seq(NamedLines)
  BY <1>3, StillUndisturbed, TakenOff DEF AsksAreAsked
<1>4. ASSUME NEW l \in NamedLines, toClient' = Append(toClient, l), known \/ SendAsk
      PROVE  toClient' \in Seq(NamedLines)
  BY <1>4, StillUndisturbed, PutBehind DEF AsksAreAsked
<1>5. CASE Subscribed \/ RetrySubscribe \/ AuthorizeAnswered \/ ExtranonceAnswered
             \/ HandleNotify \/ HandleAsk \/ IgnoreReconnect \/ HandleResponse
  BY <1>3, <1>5
     DEF Subscribed, RetrySubscribe, NotSubscribed, AuthorizeAnswered, ExtranonceAnswered,
         HandleNotify, HandleAsk, IgnoreReconnect, MethodRead, HandleResponse, Line
<1>6. CASE ServeSubscribe \/ ServeAuthorize \/ ServeExtranonce \/ ServeShare
  <2>1. known
    BY <1>6 DEF ServeSubscribe, ServeAuthorize, ServeExtranonce, ServeShare
  <2>2. toClient' = toClient \/ \E l \in Lines : IsAnswer(l) /\ toClient' = Append(toClient, l)
    BY <1>6, AnswersReplied, SubscriptionAnswered
  <2>3. \A l \in Lines : IsAnswer(l) => l \in NamedLines
    BY DEF IsAnswer, Ask, NamedLines
  <2>. QED
    BY <1>2, <1>4, <2>1, <2>2, <2>3
<1>7. CASE SendNotify \/ SendReconnect
  <2>1. known
    BY <1>7 DEF SendNotify, SendReconnect
  <2>2. CASE SendNotify
    <3>1. notified + 1 \in 1..MaxNotifies
      BY <2>2, SessionAssumption DEF SendNotify, TypeOK
    <3>2. Notify(notified + 1) \in NamedLines
      BY <3>1, LineFacts DEF Notify, Ask, NamedLines
    <3>. QED
      BY <1>4, <2>1, <2>2, <3>2 DEF SendNotify
  <2>3. CASE SendReconnect
    <3>1. Reconnect \in NamedLines
      BY LineFacts DEF Reconnect, Ask, NamedLines
    <3>. QED
      BY <1>4, <2>1, <2>3, <3>1 DEF SendReconnect
  <2>. QED
    BY <1>7, <2>2, <2>3
<1>8. CASE SendAsk
  <2>1. PICK id \in AskIds : asked' = Append(asked, id) /\ toClient' = Append(toClient, Ask(id))
    BY <1>8 DEF SendAsk
  <2>2. asked'[Len(asked) + 1] = id /\ Len(asked) + 1 \in 1..Len(asked')
    BY <2>1, PutBehind DEF TypeOK
  <2>3. id # 0
    BY <2>2 DEF Undisturbed, NoneAnonymous
  <2>4. Ask(id) \in Lines /\ Ask(id).kind = "ask" /\ Ask(id).id = id /\ Ask(0).id = 0
    BY LineFacts DEF AskIds
  <2>5. Ask(id) \in NamedLines
    BY <2>3, <2>4 DEF NamedLines
  <2>. QED
    BY <1>4, <1>8, <2>1, <2>5
<1>9. CASE Connect \/ Subscribe \/ ExtranonceTimesOut \/ SendShare \/ TakeReply \/ UNCHANGED vars
  <2>1. toClient' = toClient
    BY <1>9, Served DEF Connect, Subscribe, ExtranonceTimesOut, SendShare, TakeReply, vars
  <2>2. CASE ~TakeReply
    BY <1>2, <1>9, <2>1, <2>2 DEF Connect, Subscribe, ExtranonceTimesOut, SendShare, vars
  <2>3. CASE TakeReply
    BY <1>2, <2>1, <2>3 DEF TakeReply
  <2>. QED
    BY <2>2, <2>3
<1>10. ~SendMalformed /\ ~ReplyFails
  BY StillUndisturbed
<1>. QED
  BY <1>1, <1>5, <1>6, <1>7, <1>8, <1>9, <1>10
     DEF Next, PoolSends, Serve, ClientStep, Handshake, HandleMethod

\* The pool says nothing on its own before it has answered the subscription.
LEMMA Silent ==
    ASSUME TypeOK, MethodsFollow, place \in {"opening", "subscribing", "retrying"},
           toClient \in Seq(Methods)
    PROVE  toClient = <<>> /\ ~subscribed
<1>1. toClient = <<>>
  <2>. SUFFICES ASSUME toClient # <<>> PROVE FALSE
    OBVIOUS
  <2>1. Head(toClient) \in Methods
    BY TakenOff
  <2>. QED
    BY <2>1, FirstIsAnswer DEF Methods
<1>2. subscribed => \E j \in 1..Len(toClient) : TRUE
  BY Zenon DEF MethodsFollow
<1>3. 1..Len(toClient) = {}
  BY <1>1
<1>. QED
  BY <1>1, <1>2, <1>3, Zenon

LEMMA OpeningStep ==
    TypeOK /\ Closed /\ MethodsFollow /\ Opening /\ [Next]_vars => Opening'
<1>. SUFFICES ASSUME TypeOK, Closed, MethodsFollow, Opening, [Next]_vars,
                     place' = "opening", ~early'
              PROVE  toPool' = <<>> /\ toClient' = <<>>
  BY Zenon DEF Opening
<1>0. ~early /\ ~SendShare
  BY Connected
<1>1. CASE Connect
  BY <1>1 DEF Connect, Closed
<1>2. CASE place = "opening"
  <2>1. toPool = <<>> /\ toClient = <<>>
    BY <1>0, <1>2, Zenon DEF Opening
  <2>2. ~subscribed
    BY <1>2, <2>1, Silent
  <2>3. ~ (PoolSends)
    BY <2>2, Zenon DEF SendNotify, SendAsk, SendReconnect, SendMalformed, PoolSends
  <2>4. ~Serve
    BY <2>1 DEF Serve, ServeSubscribe, ServeAuthorize, ServeExtranonce, ServeShare, TakeReply,
                Asks
  <2>5. UNCHANGED vars
    BY <1>0, <1>2, <2>3, <2>4, Connected
       DEF Connect, Subscribe, Subscribed, RetrySubscribe, AuthorizeAnswered, AskExtranonce,
           ExtranonceAnswered, ExtranonceTimesOut, HandleNotify, HandleAsk, ReplyFails,
           NotReplied, IgnoreReconnect, MethodRead, HandleResponse
  <2>. QED
    BY <2>1, <2>5 DEF vars
<1>3. CASE place # "opening" /\ ~Connect
  BY <1>0, <1>3, Connected
     DEF Serve, Subscribe, Subscribed, RetrySubscribe, AuthorizeAnswered, AskExtranonce,
         ExtranonceAnswered, ExtranonceTimesOut, HandleNotify, HandleAsk, ReplyFails,
         NotReplied, IgnoreReconnect, MethodRead, HandleResponse, ServeSubscribe,
         ServeAuthorize, ServeExtranonce, ServeShare, TakeReply, SendNotify, SendAsk,
         SendReconnect, SendMalformed, PoolSends, vars
<1>. QED
  BY <1>1, <1>2, <1>3

LEMMA SubscribingStep ==
    TypeOK /\ MethodsFollow /\ Opening /\ Subscribing /\ [Next]_vars => Subscribing'
<1>. SUFFICES ASSUME TypeOK, MethodsFollow, Opening, Subscribing, [Next]_vars,
                     place' \in {"subscribing", "retrying"}, ~early'
              PROVE  \/ /\ \E r \in {"subscribe", "resume"} : toPool' = <<Request(r)>>
                        /\ toClient' \in Seq(Methods)
                     \/ /\ toPool' = <<>>
                        /\ toClient' # <<>> /\ Tail(toClient') \in Seq(Methods)
  BY Zenon DEF Subscribing
<1>0. ~early /\ ~SendShare
  BY Connected
<1>1. CASE Subscribe
  <2>1. toPool = <<>> /\ toClient = <<>>
    BY <1>0, <1>1, Zenon DEF Opening, Subscribe
  <2>2. /\ toClient' = toClient
        /\ \E r \in {"subscribe", "resume"} : toPool' = Append(toPool, Request(r))
    BY <1>1 DEF Subscribe
  <2>. QED
    BY <2>1, <2>2
<1>2. CASE place \in {"subscribing", "retrying"}
  <2>1. \/ /\ \E r \in {"subscribe", "resume"} : toPool = <<Request(r)>>
           /\ toClient \in Seq(Methods)
        \/ /\ toPool = <<>>
           /\ toClient # <<>> /\ Tail(toClient) \in Seq(Methods)
    BY <1>0, <1>2, Zenon DEF Subscribing
  <2>2. CASE RetrySubscribe
    <3>1. toClient # <<>> /\ toClient' = Tail(toClient)
          /\ toPool' = Append(toPool, Request("subscribe"))
      BY <2>2 DEF RetrySubscribe, NotSubscribed
    <3>2. toClient \notin Seq(Methods)
      BY <1>2, <3>1, Silent
    <3>. QED
      BY <2>1, <3>1, <3>2
  <2>3. CASE UNCHANGED vars
    BY <2>1, <2>3 DEF vars
  <2>4. CASE Serve
    <3>1. CASE toPool = <<>>
      BY <2>4, <3>1
         DEF Serve, ServeSubscribe, ServeAuthorize, ServeExtranonce, ServeShare, TakeReply, Asks
    <3>2. CASE /\ toClient \in Seq(Methods)
               /\ \E r \in {"subscribe", "resume"} : toPool = <<Request(r)>>
      <4>1. Head(toPool).request \in {"subscribe", "resume"} /\ Tail(toPool) = <<>>
        BY <3>2, RequestFacts
      <4>2. ServeSubscribe
        BY <2>4, <4>1 DEF Serve, ServeAuthorize, ServeExtranonce, ServeShare, TakeReply, Asks
      <4>3. PICK l \in Lines : toClient' = Append(toClient, l)
        BY <4>2, SubscriptionAnswered
      <4>4. toPool' = <<>>
        BY <4>1, <4>2, Zenon DEF ServeSubscribe, Replies
      <4>5. toClient = <<>>
        BY <1>2, <3>2, Silent
      <4>6. toClient' # <<>> /\ Tail(toClient') = <<>>
        BY <4>3, <4>5
      <4>7. Tail(toClient') \in Seq(Methods)
        BY <4>6, EmptyIsSeq, Zenon
      <4>. QED
        BY <4>4, <4>6, <4>7, Zenon
    <3>. QED
      BY <2>1, <3>1, <3>2
  <2>5. CASE PoolSends
    <3>1. PICK l \in Lines : ~IsAnswer(l) /\ toClient' = Append(toClient, l)
      BY <2>5, MethodsSent
    <3>2. l \in Methods
      BY <3>1 DEF Methods
    <3>3. subscribed /\ toPool' = toPool
      BY <2>5 DEF SendNotify, SendAsk, SendReconnect, SendMalformed, PoolSends
    <3>4. toClient \notin Seq(Methods)
      BY <1>2, <3>3, Silent
    <3>5. toPool = <<>> /\ toClient # <<>> /\ Tail(toClient) \in Seq(Methods)
      BY <2>1, <3>4
    <3>6. toClient' # <<>> /\ Tail(toClient') \in Seq(Methods)
      BY <3>1, <3>2, <3>5, TailAppend DEF TypeOK
    <3>. QED
      BY <3>3, <3>5, <3>6
  <2>. QED
    BY <1>0, <1>2, <2>2, <2>3, <2>4, <2>5, Connected
       DEF Connect, Subscribe, Subscribed, AuthorizeAnswered, AskExtranonce, ExtranonceAnswered,
           ExtranonceTimesOut, HandleNotify, HandleAsk, ReplyFails, NotReplied, IgnoreReconnect,
           MethodRead, HandleResponse
<1>3. CASE place \notin {"subscribing", "retrying"} /\ ~Subscribe
  BY <1>0, <1>3, Connected
     DEF Serve, Connect, Subscribed, RetrySubscribe, AuthorizeAnswered, AskExtranonce,
         ExtranonceAnswered, ExtranonceTimesOut, HandleNotify, HandleAsk, ReplyFails,
         NotReplied, IgnoreReconnect, MethodRead, HandleResponse, ServeSubscribe,
         ServeAuthorize, ServeExtranonce, ServeShare, TakeReply, SendNotify, SendAsk,
         SendReconnect, SendMalformed, PoolSends, vars
<1>. QED
  BY <1>1, <1>2, <1>3

LEMMA AuthorizingStep ==
    TypeOK /\ MethodsFollow /\ Subscribing /\ Authorizing /\ [Next]_vars => Authorizing'
<1>. SUFFICES ASSUME TypeOK, MethodsFollow, Subscribing, Authorizing, [Next]_vars,
                     place' = "authorizing", ~early'
              PROVE  \/ /\ toPool' # <<>> /\ Head(toPool') = Request("authorize")
                        /\ Tail(toPool') \in Seq(PoolReplies)
                        /\ toClient' \in Seq(Methods)
                     \/ /\ toPool' \in Seq(PoolReplies)
                        /\ verdict' = "accepted" \/ toClient' \in Seq(Refusals)
  BY Zenon DEF Authorizing
<1>. USE DEF poolVars
<1>0. ~early /\ ~SendShare
  BY Connected
<1>1. CASE Subscribed
  <2>1. /\ toClient # <<>> /\ toClient' = Tail(toClient)
        /\ toPool' = Append(toPool, Request("authorize"))
        /\ place \in {"subscribing", "retrying"}
    BY <1>1 DEF Subscribed, Line
  <2>2. toPool = <<>> /\ Tail(toClient) \in Seq(Methods)
    BY <1>0, <2>1, Silent DEF Subscribing
  <2>3. toPool' = <<Request("authorize")>>
    BY <2>1, <2>2
  <2>4. toPool' # <<>> /\ Head(toPool') = Request("authorize") /\ Tail(toPool') = <<>>
    BY <2>3
  <2>5. Tail(toPool') \in Seq(PoolReplies)
    BY <2>4, EmptyIsSeq, Zenon
  <2>. QED
    BY <2>1, <2>2, <2>4, <2>5
<1>2. CASE place = "authorizing"
  <2>. DEFINE Waiting(p, c) == /\ p # <<>> /\ Head(p) = Request("authorize")
                              /\ Tail(p) \in Seq(PoolReplies) /\ c \in Seq(Methods)
              Told(p, c, v) == p \in Seq(PoolReplies) /\ (v = "accepted" \/ c \in Seq(Refusals))
  <2>1. Waiting(toPool, toClient) \/ Told(toPool, toClient, verdict)
    BY <1>0, <1>2, Zenon DEF Authorizing
  <2>2. /\ \A l \in Methods : l \in Refusals /\ l \in Lines
        /\ \A c \in Seq(Methods), l \in Methods : Append(c, l) \in Seq(Methods)
        /\ \A c \in Seq(Refusals), l \in Refusals : Append(c, l) \in Seq(Refusals)
    BY PutBehind DEF Methods, Refusals
  <2>3. CASE UNCHANGED <<toPool, toClient, verdict>>
    BY <2>1, <2>3
  <2>4. ASSUME NEW l \in Methods, toClient' = Append(toClient, l), UNCHANGED <<toPool, verdict>>
        PROVE  Waiting(toPool', toClient') \/ Told(toPool', toClient', verdict')
    <3>1. CASE Waiting(toPool, toClient)
      BY <2>2, <2>4, <3>1
    <3>2. CASE Told(toPool, toClient, verdict)
      BY <2>2, <2>4, <3>2
    <3>. QED
      BY <2>1, <3>1, <3>2
  <2>5. CASE PoolSends
    <3>1. \E l \in Methods : toClient' = Append(toClient, l)
      BY <2>5, MethodsSent DEF Methods
    <3>2. UNCHANGED <<toPool, verdict>>
      BY <2>5 DEF SendNotify, SendAsk, SendReconnect, SendMalformed, PoolSends
    <3>. QED
      BY <2>4, <3>1, <3>2
  <2>6. CASE HandleNotify \/ HandleAsk \/ IgnoreReconnect
    <3>1. /\ toClient # <<>> /\ toClient' = Tail(toClient) /\ verdict' = verdict
          /\ toPool' = toPool \/ \E id \in AskIds \ {0} : toPool' = Append(toPool, Reply(id))
      <4>1. /\ toClient # <<>> /\ toClient' = Tail(toClient) /\ verdict' = verdict
            /\ \/ toPool' = toPool
               \/ /\ toPool' = Append(toPool, Reply(Head(toClient).id))
                  /\ Head(toClient).kind = "ask" /\ Head(toClient).id # 0
        BY <2>6 DEF HandleNotify, HandleAsk, IgnoreReconnect, MethodRead
      <4>2. Head(toClient) \in Lines
        BY <4>1, TakenOff DEF TypeOK
      <4>. QED
        BY <4>1, <4>2, LineCases
    <3>2. /\ toClient \in Seq(Methods) => toClient' \in Seq(Methods)
          /\ toClient \in Seq(Refusals) => toClient' \in Seq(Refusals)
      BY <3>1, TakenOff
    <3>3. CASE toPool' = toPool
      BY <2>1, <3>1, <3>2, <3>3
    <3>4. ASSUME NEW r \in PoolReplies, toPool' = Append(toPool, r)
          PROVE  Waiting(toPool', toClient') \/ Told(toPool', toClient', verdict')
      <4>1. CASE Waiting(toPool, toClient)
        <5>1. toPool \in Seq(Requests) /\ toPool # <<>> /\ Tail(toPool) \in Seq(PoolReplies)
          BY <4>1 DEF TypeOK
        <5>2. /\ Append(toPool, r) # <<>> /\ Head(Append(toPool, r)) = Head(toPool)
              /\ Tail(Append(toPool, r)) \in Seq(PoolReplies)
          BY <3>4, <5>1, TailAppend
        <5>. QED
          BY <3>2, <3>4, <4>1, <5>2, Zenon
      <4>2. CASE Told(toPool, toClient, verdict)
        BY <3>1, <3>2, <3>4, <4>2, PutBehind
      <4>. QED
        BY <2>1, <4>1, <4>2
    <3>5. \A id \in AskIds \ {0} : Reply(id) \in PoolReplies
      BY RequestFacts DEF PoolReplies
    <3>. QED
      BY <3>1, <3>3, <3>4, <3>5
  <2>7. CASE Serve
    <3>1. toPool # <<>>
      BY <2>7
         DEF Serve, ServeSubscribe, ServeAuthorize, ServeExtranonce, ServeShare, TakeReply, Asks
    <3>2. CASE Waiting(toPool, toClient)
      <4>1. Head(toPool).request = "authorize"
        BY <3>2, RequestFacts
      <4>2. ServeAuthorize
        BY <2>7, <4>1
           DEF Serve, ServeSubscribe, ServeExtranonce, ServeShare, TakeReply, Asks
      <4>3. toPool' \in Seq(PoolReplies)
        BY <3>2, <4>2, Zenon DEF ServeAuthorize, Replies
      <4>4. CASE verdict' = "accepted"
        BY <4>3, <4>4
      <4>5. CASE verdict' # "accepted"
        <5>1. PICK res \in Outcomes : /\ verdict' = IF res = "good" THEN "accepted" ELSE "refused"
                                      /\ Replies(<<Answer(2, res)>>)
          BY <4>2, Zenon DEF ServeAuthorize
        <5>2. res \in {"bad", "none"}
          BY <4>5, <5>1 DEF Outcomes, Results
        <5>. DEFINE no == Answer(2, res)
        <5>3. no \in Lines /\ no \in Refusals
          <6>1. no \in Lines
            BY AnswersAreLines, Zenon
          <6>2. no \in {Answer(2, "bad"), Answer(2, "none")}
            BY <5>2
          <6>. QED
            BY <6>1, <6>2, Zenon DEF Refusals
        <5>4. Replies(<<no>>)
          BY <5>1
        <5>. HIDE DEF no
        <5>5. toClient' = Append(toClient, no)
          BY <5>3, <5>4, PutBehind DEF Replies, TypeOK
        <5>6. toClient \in Seq(Refusals)
          BY <2>2, <3>2, WiderSeq
        <5>7. toClient' \in Seq(Refusals)
          BY <5>3, <5>5, <5>6, PutBehind
        <5>. QED
          BY <4>3, <5>7, Zenon
      <4>. QED
        BY <4>4, <4>5
    <3>3. CASE Told(toPool, toClient, verdict)
      <4>1. Head(toPool) \in PoolReplies /\ Tail(toPool) \in Seq(PoolReplies)
        BY <3>1, <3>3, TakenOff
      <4>2. TakeReply
        BY <2>7, <4>1
           DEF Serve, ServeSubscribe, ServeAuthorize, ServeExtranonce, ServeShare, Asks,
               PoolReplies
      <4>3. toPool' = Tail(toPool) /\ toClient' = toClient /\ verdict' = verdict
        BY <4>2, Served DEF TakeReply
      <4>. QED
        BY <3>3, <4>1, <4>3
    <3>. QED
      BY <2>1, <3>2, <3>3
  <2>8. CASE UNCHANGED vars
    BY <2>3, <2>8 DEF vars
  <2>9. ~ReplyFails
    BY ReplyLost
  <2>. QED
    BY <1>0, <1>2, <2>5, <2>6, <2>7, <2>8, <2>9, Connected
       DEF Connect, Subscribe, Subscribed, RetrySubscribe, AuthorizeAnswered, AskExtranonce,
           ExtranonceAnswered, ExtranonceTimesOut, HandleResponse
<1>3. CASE place # "authorizing" /\ ~Subscribed
  BY <1>0, <1>3, Connected
     DEF Serve, Connect, Subscribe, RetrySubscribe, AuthorizeAnswered, AskExtranonce,
         ExtranonceAnswered, ExtranonceTimesOut, HandleNotify, HandleAsk, ReplyFails,
         NotReplied, IgnoreReconnect, MethodRead, HandleResponse, ServeSubscribe,
         ServeAuthorize, ServeExtranonce, ServeShare, TakeReply, SendNotify, SendAsk,
         SendReconnect, SendMalformed, PoolSends, vars
<1>. QED
  BY <1>1, <1>2, <1>3

LEMMA AuthorizedStep ==
    TypeOK /\ AsksAreAsked /\ Authorizing /\ Authorized /\ [Next]_vars => Authorized'
<1>. SUFFICES ASSUME TypeOK, AsksAreAsked, Authorizing, Authorized, [Next]_vars,
                     place' \in {"extranonce", "receiving"}, ~early', Undisturbed'
              PROVE  toPool' \in Seq(NoAuthorizes) /\ verdict' = "accepted"
  BY Zenon DEF Authorized
<1>. USE DEF poolVars
<1>0. ~early /\ Undisturbed /\ ~ReplyFails
  BY Connected, UndisturbedStep
<1>1. CASE AuthorizeAnswered
  <2>1. /\ place = "authorizing" /\ toClient # <<>>
        /\ Head(toClient) \notin {Answer(2, "bad"), Answer(2, "none")}
        /\ \/ IsAnswer(Head(toClient)) \/ Head(toClient) = Ask(0)
           \/ Head(toClient).kind = "malformed"
        /\ toPool' = toPool \/ toPool' = Append(toPool, Request("extranonce"))
        /\ verdict' = verdict
    BY <1>1 DEF AuthorizeAnswered, EndsWait, Refuses, AskExtranonce, IsAnswer
  <2>2. Head(toClient) \in NamedLines
    BY <1>0, <2>1, TakenOff DEF AsksAreAsked
  <2>3. IsAnswer(Head(toClient))
    BY <2>1, <2>2 DEF NamedLines
  <2>4. toClient \notin Seq(Methods) /\ toClient \notin Seq(Refusals)
    <3>1. \A S : toClient \in Seq(S) => Head(toClient) \in S
      BY <2>1, TakenOff
    <3>. QED
      BY <2>1, <2>3, <3>1, Zenon DEF Methods, Refusals
  <2>5. toPool \in Seq(PoolReplies) /\ verdict = "accepted"
    BY <1>0, <2>1, <2>4, Zenon DEF Authorizing
  <2>6. toPool \in Seq(NoAuthorizes) /\ Request("extranonce") \in NoAuthorizes
    <3>1. \A r \in PoolReplies : r \in NoAuthorizes
      BY DEF PoolReplies, NoAuthorizes
    <3>2. Request("extranonce") \in NoAuthorizes
      BY RequestFacts DEF NoAuthorizes
    <3>. QED
      BY <2>5, <3>1, <3>2, WiderSeq
  <2>. QED
    BY <2>1, <2>5, <2>6, PutBehind
<1>2. CASE place \in {"extranonce", "receiving"}
  <2>1. toPool \in Seq(NoAuthorizes) /\ verdict = "accepted"
    BY <1>0, <1>2, Zenon DEF Authorized
  <2>2. \A r \in NoAuthorizes : Append(toPool, r) \in Seq(NoAuthorizes)
    BY <2>1, PutBehind
  <2>3. toPool # <<>> =>
            Tail(toPool) \in Seq(NoAuthorizes) /\ Head(toPool) \in NoAuthorizes
    BY <2>1, TakenOff
  <2>4. CASE Serve
    <3>1. toPool # <<>>
      BY <2>4
         DEF Serve, ServeSubscribe, ServeAuthorize, ServeExtranonce, ServeShare, TakeReply, Asks
    <3>2. ~ServeAuthorize
      BY <2>3, <3>1 DEF ServeAuthorize, Asks, NoAuthorizes
    <3>3. toPool' = Tail(toPool) /\ verdict' = verdict
      BY <2>4, <3>2, Zenon
         DEF Serve, ServeSubscribe, ServeExtranonce, ServeShare, TakeReply, Replies
    <3>. QED
      BY <2>1, <2>3, <3>1, <3>3
  <2>5. CASE HandleAsk
    <3>1. /\ toClient # <<>> /\ verdict' = verdict
          /\ \/ toPool' = toPool
             \/ /\ toPool' = Append(toPool, Reply(Head(toClient).id))
                /\ Head(toClient).kind = "ask" /\ Head(toClient).id # 0
      BY <2>5 DEF HandleAsk, MethodRead
    <3>2. Head(toClient) \in Lines
      BY <3>1, TakenOff DEF TypeOK
    <3>3. \A id \in AskIds \ {0} : Reply(id) \in NoAuthorizes
      BY RequestFacts DEF NoAuthorizes
    <3>. QED
      BY <2>1, <2>2, <3>1, <3>2, <3>3, LineCases
  <2>6. CASE SendShare
    <3>1. Request("submit") \in NoAuthorizes
      BY RequestFacts DEF NoAuthorizes
    <3>. QED
      BY <2>1, <2>2, <2>6, <3>1 DEF SendShare
  <2>7. CASE \/ ExtranonceAnswered \/ ExtranonceTimesOut \/ HandleNotify \/ IgnoreReconnect
             \/ HandleResponse \/ PoolSends \/ UNCHANGED vars
    <3>1. toPool' = toPool /\ verdict' = verdict
      BY <2>7 DEF ExtranonceAnswered, ExtranonceTimesOut, HandleNotify, IgnoreReconnect,
                  HandleResponse, SendNotify, SendAsk, SendReconnect, SendMalformed, PoolSends,
                  vars
    <3>. QED
      BY <2>1, <3>1
  <2>. QED
    BY <1>0, <1>2, <2>4, <2>5, <2>6, <2>7, Connected
       DEF Connect, Subscribe, Subscribed, RetrySubscribe, AuthorizeAnswered
<1>3. CASE place \notin {"extranonce", "receiving"} /\ ~AuthorizeAnswered
  BY <1>0, <1>3, Connected
     DEF Serve, Connect, Subscribe, Subscribed, RetrySubscribe, ExtranonceAnswered,
         ExtranonceTimesOut, HandleNotify, HandleAsk, ReplyFails, NotReplied, AskExtranonce,
         IgnoreReconnect, MethodRead, HandleResponse, ServeSubscribe, ServeAuthorize,
         ServeExtranonce, ServeShare, TakeReply, SendNotify, SendAsk, SendReconnect,
         SendMalformed, PoolSends, SendShare, vars
<1>. QED
  BY <1>1, <1>2, <1>3

\* The handshake succeeds only with a user that the pool has accepted, whatever
\* methods come in between, unless one of four things on the connection ended the
\* wait for the answer: a share sent early, a request without an id, a malformed
\* line, or a reply that the socket did not take.
THEOREM SessionsAreAuthorized == Spec => []SessionIsAuthorized
<1>. DEFINE Inv == /\ TypeOK /\ Closed /\ MethodsFollow /\ AsksAreAsked
                   /\ Opening /\ Subscribing /\ Authorizing /\ Authorized
<1>1. Init => Inv
  <2>. SUFFICES ASSUME Init
                PROVE  /\ Closed /\ MethodsFollow /\ AsksAreAsked
                       /\ Opening /\ Subscribing /\ Authorizing /\ Authorized
    BY TypesInit
  <2>1. place = "connecting" /\ toClient = <<>>
    BY DEF Init
  <2>2. Closed
    BY Zenon DEF Init, Closed
  <2>3. MethodsFollow /\ Opening /\ Subscribing /\ Authorizing /\ Authorized
    BY <2>1 DEF MethodsFollow, Opening, Subscribing, Authorizing, Authorized
  <2>. QED
    BY <2>1, <2>2, <2>3, EmptyIsSeq DEF AsksAreAsked
<1>2. Inv /\ [Next]_vars => Inv'
  <2>. SUFFICES ASSUME Inv, [Next]_vars PROVE Inv'
    OBVIOUS
  <2>1. TypeOK' /\ Closed' /\ MethodsFollow' /\ AsksAreAsked'
    BY TypesStep, ClosedStep, MethodsFollowStep, AsksAreAskedStep, Zenon
  <2>2. Opening' /\ Subscribing' /\ Authorizing' /\ Authorized'
    BY OpeningStep, SubscribingStep, AuthorizingStep, AuthorizedStep, Zenon
  <2>. QED
    BY <2>1, <2>2, Zenon
<1>3. Inv => SessionIsAuthorized
  BY Zenon DEF Authorized, SessionIsAuthorized
<1>. QED
  BY <1>1, <1>2, <1>3, PTL DEF Spec

=============================================================================
