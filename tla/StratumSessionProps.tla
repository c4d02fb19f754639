------------------------ MODULE StratumSessionProps ------------------------
(***************************************************************************)
(* What the handshake and the reading of lines have to guarantee.          *)
(***************************************************************************)
EXTENDS StratumSession, FiniteSets

IsNotify(l) == l.kind = "notify"
IsAnswer(l) == l.kind = "answer"

\* How often x occurs in s.
Count(x, s) == Cardinality({i \in 1..Len(s) : s[i] = x})

\* The counters of shares, one for each verdict.
TalliesOK == judged \in [Results -> Nat] /\ counted \in [Results -> Nat]

\* The types of the two ends and of the lines between them.
TypeOK ==
    /\ place \in Places /\ sid \in BOOLEAN
    /\ toPool \in Seq(Requests) /\ toClient \in Seq(Lines)
    /\ subscribed \in BOOLEAN /\ verdict \in {"none", "accepted", "refused"}
    /\ notified \in 0..MaxNotifies /\ seen \in 0..MaxNotifies
    /\ malformed \in Nat
    /\ asked \in Seq(AskIds) /\ replied \in Seq(AskIds) /\ unsent \in Seq(AskIds)
    /\ TalliesOK
    /\ early \in BOOLEAN /\ sent \in Nat /\ faults \in Nat

\* The handshake reads lines in three places and in the order in which they
\* come, not in the order of its requests; no notify is lost on the way: those
\* after the last one that was read are all under way, in their order, so the
\* job is always the last one that was read.
NoNotifyLost ==
    place # "connecting" =>
        /\ \A k \in (seen + 1)..notified : \E i \in 1..Len(toClient) : toClient[i] = Notify(k)
        /\ \A i \in 1..Len(toClient) :
              IsNotify(toClient[i]) => toClient[i].n \in (seen + 1)..notified
        /\ \A i, j \in 1..Len(toClient) :
              i < j /\ IsNotify(toClient[i]) /\ IsNotify(toClient[j])
                 => toClient[i].n < toClient[j].n

\* No request of the pool on this connection was without an id.
NoneAnonymous == \A i \in 1..Len(asked) : asked[i] # 0

\* Nothing on this connection but an answer can end the wait for the authorization.
Undisturbed == NoneAnonymous /\ malformed = 0 /\ unsent = <<>>

\* The handshake succeeds only with a user that the pool has accepted, whatever
\* methods come in between and whatever earlier connections left behind.  Four
\* things on the same connection can be taken for the answer to the authorization
\* and let any user in: the answer to a share sent early, a request without an id
\* that the client does not know, a malformed line, and a request whose reply the
\* socket does not take.  Nothing else does.
SessionIsAuthorized ==
    place \in {"extranonce", "receiving"} /\ ~early /\ Undisturbed
        => verdict = "accepted"

\* No answer to a share is counted twice or for what it is not, and no other
\* answer is counted, late ones of the handshake included.  None that has a result
\* is lost either, unless a share was sent before the handshake was over.
SharesAreCounted ==
    \A res \in Results :
        LET known == counted[res] + Count(Answer(4, res), toClient) IN
        known <= judged[res] /\ (~early => known = judged[res])

\* Every request of the pool that has an id, whether the client knows it or not,
\* is replied to once, also when it comes during the handshake, unless the socket
\* does not take the reply; only one that is numbered like the extranonce request
\* may be taken for its answer, and only one of those.
RequestsAreAnswered ==
    \A id \in AskIds \ {0} :
        Count(id, asked) - (Count(id, replied) + Count(Reply(id), toPool)
                               + Count(Ask(id), toClient) + Count(id, unsent))
            \in IF id = 3 /\ place = "receiving" THEN {0, 1} ELSE {0}

\* A pool that has forgotten the session does not keep the miner out: once
\* connections hold, every handshake ends with a session or a refused user.
HandshakeEnds ==
    place = "opening" ~> place = "receiving" \/ verdict = "refused"
=============================================================================
