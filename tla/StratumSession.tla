--------------------------- MODULE StratumSession ---------------------------
(***************************************************************************)
(* One stratum connection after the other: the handshake of stratum_thread *)
(* (stratum_subscribe, stratum_authorize with its extranonce request), the *)
(* reading of lines that follows it, and the shares that the workio thread *)
(* writes to the same socket whenever it is open, be the handshake over or *)
(* not.  The pool is external.                                             *)
(*                                                                         *)
(* Lines carry what the client tells them apart by: an answer the id of    *)
(* the request and whether its result is good, bad or missing, a notify    *)
(* its number on the connection, a request of the pool its id (0 when it   *)
(* has none).  set_difficulty and set_extranonce are handled like a        *)
(* notify.  A malformed line is a method whose handler fails over its      *)
(* parameters (a notify, set_difficulty, set_extranonce or reconnect       *)
(* without what it needs) or a line that is no JSON; the latter counts as  *)
(* one that has the id of the authorization, since both end it.            *)
(***************************************************************************)
EXTENDS Integers, Sequences

CONSTANTS
    MaxNotifies,  \* bound: notifies on one connection
    MaxAsks,      \* bound: requests of the pool on one connection
    MaxShares,    \* bound: shares sent
    MaxFaults,    \* bound: connections lost, timed out or redirected, malformed
                  \* lines, and replies that a full socket does not take
    MaxLoad       \* bound: all of these together

ASSUME SessionAssumption ==
    /\ MaxNotifies \in Nat /\ MaxAsks \in Nat
    /\ MaxShares \in Nat /\ MaxFaults \in Nat /\ MaxLoad \in Nat

VARIABLES
    place,       \* where stratum_thread is
    sid,         \* whether it has a session id to resume
    toPool,      \* requests on their way, by name
    toClient,    \* lines on their way, sockbuf included
    subscribed,  \* pool: a subscription was answered on this connection
    verdict,     \* pool: its answer to the authorization
    notified,    \* pool: notifies sent on this connection
    judged,      \* pool: shares accepted and rejected on this connection
    malformed,   \* pool: malformed lines sent on this connection
    asked,       \* pool: ids of its requests on this connection, in order
    replied,     \* pool: ids of the replies to them, in order
    unsent,      \* history: ids of those whose reply could not be sent
    seen,        \* the last notify that stratum_notify got on this connection
    counted,     \* shares that share_result counted on this connection
    early,       \* history: a share was sent before the handshake was over
    sent,        \* number of shares sent
    faults       \* number of faults

askVars  == <<asked, replied, unsent>>
poolVars == <<subscribed, verdict, notified, judged, malformed, askVars>>
seenVars == <<seen, counted>>
loadVars == <<early, sent, faults>>
vars == <<place, sid, toPool, toClient, poolVars, seenVars, loadVars>>

Places == {"connecting", "opening", "subscribing", "retrying", "authorizing",
           "extranonce", "receiving"}

\* The pool numbers its requests as it likes: not at all, or like the client its
\* authorization or its extranonce request; another number is treated as the
\* latter is everywhere but in the place of the extranonce answer, where the
\* former is treated alike.
AskIds == {0, 2, 3}

\* What an answer says of a share, and what there is where an answer has no result.
Results  == {"good", "bad"}
Outcomes == Results \cup {"none"}

Reply(id) == [request |-> "reply", id |-> id]
Request(r) == [request |-> r, id |-> 0]

Requests == {Request(r) : r \in {"subscribe", "resume", "authorize", "extranonce", "submit"}}
               \cup {Reply(id) : id \in AskIds \ {0}}

Answer(id, res) == [kind |-> "answer", id |-> id, res |-> res]
Notify(n)       == [kind |-> "notify", n |-> n]
Ask(id)         == [kind |-> "ask", id |-> id]
Malformed(id)   == [kind |-> "malformed", id |-> id]
Reconnect       == [kind |-> "reconnect"]

Lines == {Answer(id, res) : id \in 1..4, res \in Outcomes}
            \cup {Notify(n) : n \in 1..MaxNotifies}
            \cup {Ask(id) : id \in AskIds}
            \cup {Malformed(id) : id \in {0, 2}} \cup {Reconnect}

NoShares == [res \in Results |-> 0]

\* The bound on what happens besides the handshake.
Light == notified + Len(asked) + sent + faults < MaxLoad

Init ==
    /\ place = "connecting" /\ sid = FALSE
    /\ toPool = <<>> /\ toClient = <<>>
    /\ subscribed = FALSE /\ verdict = "none" /\ notified = 0 /\ judged = NoShares
    /\ malformed = 0 /\ asked = <<>> /\ replied = <<>> /\ unsent = <<>>
    /\ seen = 0 /\ counted = NoShares
    /\ early = FALSE /\ sent = 0 /\ faults = 0

-----------------------------------------------------------------------------
(***************************************************************************)
(* The pool answers requests in their order.  It may have forgotten a      *)
(* session, refuse a user, and know nothing of extranonce subscriptions.   *)
(***************************************************************************)
Asks(request) == toPool # <<>> /\ Head(toPool).request = request

Replies(lines) == toPool' = Tail(toPool) /\ toClient' = toClient \o lines

ServeSubscribe ==
    /\ \/ /\ Asks("subscribe") \/ Asks("resume")
          /\ Replies(<<Answer(1, "good")>>) /\ subscribed' = TRUE
       \/ /\ Asks("resume")
          /\ \E res \in {"bad", "none"} : Replies(<<Answer(1, res)>>)
          /\ UNCHANGED subscribed
    /\ UNCHANGED <<place, sid, verdict, notified, judged, malformed, askVars, seenVars,
                   loadVars>>

ServeAuthorize ==
    /\ Asks("authorize")
    /\ \E res \in Outcomes :
        /\ verdict' = IF res = "good" THEN "accepted" ELSE "refused"
        /\ Replies(<<Answer(2, res)>>)
    /\ UNCHANGED <<place, sid, subscribed, notified, judged, malformed, askVars, seenVars,
                   loadVars>>

ServeExtranonce ==
    /\ Asks("extranonce")
    /\ Replies(<<>>) \/ \E res \in Results : Replies(<<Answer(3, res)>>)
    /\ UNCHANGED <<place, sid, poolVars, seenVars, loadVars>>

\* An answer without a result is no verdict on the share.
ServeShare ==
    /\ Asks("submit")
    /\ \/ \E res \in Results :
            /\ res = "good" => verdict = "accepted"
            /\ Replies(<<Answer(4, res)>>)
            /\ judged' = [judged EXCEPT ![res] = @ + 1]
       \/ Replies(<<Answer(4, "none")>>) /\ UNCHANGED judged
    /\ UNCHANGED <<place, sid, subscribed, verdict, notified, malformed, askVars, seenVars,
                   loadVars>>

SendNotify ==
    /\ subscribed /\ notified < MaxNotifies /\ Light
    /\ notified' = notified + 1
    /\ toClient' = Append(toClient, Notify(notified + 1))
    /\ UNCHANGED <<place, sid, toPool, subscribed, verdict, judged, malformed, askVars,
                   seenVars, loadVars>>

\* A ping, get_version, get_algo, get_stats, show_message or unknown method.
SendAsk ==
    /\ subscribed /\ Len(asked) < MaxAsks /\ Light
    /\ \E id \in AskIds :
        /\ asked' = Append(asked, id)
        /\ toClient' = Append(toClient, Ask(id))
    /\ UNCHANGED <<place, sid, toPool, subscribed, verdict, notified, judged, malformed,
                   replied, unsent, seenVars, loadVars>>

\* The pool gets the reply to a request of its own.
TakeReply ==
    /\ Asks("reply")
    /\ replied' = Append(replied, Head(toPool).id)
    /\ Replies(<<>>)
    /\ UNCHANGED <<place, sid, subscribed, verdict, notified, judged, malformed, asked,
                   unsent, seenVars, loadVars>>

Fault == faults < MaxFaults /\ Light /\ faults' = faults + 1

\* A request to connect elsewhere.
SendReconnect ==
    /\ subscribed /\ Fault
    /\ toClient' = Append(toClient, Reconnect)
    /\ UNCHANGED <<place, sid, toPool, poolVars, seenVars, early, sent>>

SendMalformed ==
    /\ subscribed /\ Fault
    /\ malformed' = malformed + 1
    /\ \E id \in {0, 2} : toClient' = Append(toClient, Malformed(id))
    /\ UNCHANGED <<place, sid, toPool, subscribed, verdict, notified, judged, askVars,
                   seenVars, early, sent>>

Serve ==
    ServeSubscribe \/ ServeAuthorize \/ ServeExtranonce \/ ServeShare \/ TakeReply

-----------------------------------------------------------------------------
(***************************************************************************)
(* The client.                                                             *)
(***************************************************************************)
Line(l) == toClient # <<>> /\ Head(toClient) = l

\* stratum_disconnect: what is under way is lost.
Disconnect ==
    /\ place' = "connecting"
    /\ toPool' = <<>> /\ toClient' = <<>>
    /\ subscribed' = FALSE /\ verdict' = "none" /\ notified' = 0 /\ judged' = NoShares
    /\ malformed' = 0 /\ asked' = <<>> /\ replied' = <<>> /\ unsent' = <<>>
    /\ seen' = 0 /\ counted' = NoShares /\ early' = FALSE

\* stratum_connect has opened the socket.
Connect ==
    /\ place = "connecting"
    /\ place' = "opening"
    /\ UNCHANGED <<sid, toPool, toClient, poolVars, seenVars, loadVars>>

\* The first request of stratum_subscribe, with the session id if there is one.
Subscribe ==
    /\ place = "opening"
    /\ toPool' = Append(toPool, Request(IF sid THEN "resume" ELSE "subscribe"))
    /\ place' = "subscribing"
    /\ UNCHANGED <<sid, toClient, poolVars, seenVars, loadVars>>

\* A good answer, with a session id or without one; on to stratum_authorize.
Subscribed ==
    /\ place \in {"subscribing", "retrying"}
    /\ Line(Answer(1, "good"))
    /\ sid' \in BOOLEAN
    /\ toClient' = Tail(toClient)
    /\ toPool' = Append(toPool, Request("authorize"))
    /\ place' = "authorizing"
    /\ UNCHANGED <<poolVars, seenVars, loadVars>>

\* Any other line is not a subscription: no result, an error, or a result without
\* session id and extranonce, which ends the session.
NotSubscribed ==
    /\ toClient # <<>> /\ Head(toClient) # Answer(1, "good")
    /\ \/ sid' = sid /\ Head(toClient) \notin {Answer(id, "good") : id \in 2..4}
       \/ sid' = FALSE /\ Head(toClient) \in {Answer(id, res) : id \in 1..4, res \in Results}

\* Mutant of RetrySubscribe: the session id is sent again.
RetryResuming ==
    /\ place = "subscribing"
    /\ NotSubscribed
    /\ toClient' = Tail(toClient)
    /\ toPool' = Append(toPool, Request(IF sid' THEN "resume" ELSE "subscribe"))
    /\ place' = "retrying"
    /\ UNCHANGED <<poolVars, seenVars, loadVars>>

\* The second request goes without parameters.
RetrySubscribe ==
    /\ place = "subscribing"
    /\ NotSubscribed
    /\ toClient' = Tail(toClient)
    /\ toPool' = Append(toPool, Request("subscribe"))
    /\ place' = "retrying"
    /\ UNCHANGED <<poolVars, seenVars, loadVars>>

SubscribeFails ==
    /\ place = "retrying"
    /\ NotSubscribed
    /\ Disconnect
    /\ UNCHANGED <<sent, faults>>

\* stratum_authorize handles methods until one fails or a line is none: an
\* answer, a request without an id that the client does not know, or a malformed
\* line.  That line it takes for its answer.
EndsWait(l) == l.kind \in {"answer", "malformed"} \/ l = Ask(0)

\* It fails if the line has the id of the authorization and no good result.
Refuses(l) == l \in {Answer(2, "bad"), Answer(2, "none"), Malformed(2)}

\* Then the extranonce subscription, without which the handshake has succeeded
\* too: opt_extranonce may be off, or the socket full.
AskExtranonce ==
    \/ toPool' = Append(toPool, Request("extranonce")) /\ place' = "extranonce"
    \/ place' = "receiving" /\ UNCHANGED toPool

\* Mutant of AuthorizeAnswered: the result is not looked at.
AuthorizeBelieves ==
    /\ place = "authorizing"
    /\ toClient # <<>> /\ EndsWait(Head(toClient))
    /\ toClient' = Tail(toClient)
    /\ AskExtranonce
    /\ UNCHANGED <<sid, poolVars, seenVars, loadVars>>

AuthorizeAnswered ==
    /\ place = "authorizing"
    /\ toClient # <<>> /\ EndsWait(Head(toClient)) /\ ~Refuses(Head(toClient))
    /\ toClient' = Tail(toClient)
    /\ AskExtranonce
    /\ UNCHANGED <<sid, poolVars, seenVars, loadVars>>

AuthorizeRefused ==
    /\ place = "authorizing"
    /\ toClient # <<>> /\ Refuses(Head(toClient))
    /\ Disconnect
    /\ UNCHANGED <<sid, sent, faults>>

\* The line that follows the extranonce request, if it is an answer; a request
\* of the pool with the same number is taken for one.  A malformed line does no
\* more than an answer.
ExtranonceAnswered ==
    /\ place = "extranonce"
    /\ toClient # <<>>
    /\ Head(toClient).kind \in {"answer", "malformed"} \/ Head(toClient) = Ask(3)
    /\ toClient' = Tail(toClient)
    /\ place' = "receiving"
    /\ UNCHANGED <<sid, toPool, poolVars, seenVars, loadVars>>

\* Three seconds without anything on the socket; a line may still come, or be
\* in sockbuf, which is not looked at here.
ExtranonceTimesOut ==
    /\ place = "extranonce"
    /\ place' = "receiving"
    /\ UNCHANGED <<sid, toPool, toClient, poolVars, seenVars, loadVars>>

\* In three places a line may be a method; the extranonce request waits for one
\* line only.
MethodRead(kind) ==
    /\ place \in {"authorizing", "extranonce", "receiving"}
    /\ toClient # <<>> /\ Head(toClient).kind = kind
    /\ toClient' = Tail(toClient)
    /\ place' = IF place = "extranonce" THEN "receiving" ELSE place

\* Mutant of HandleNotify: a notify in place of the extranonce answer is lost.
HandleNotifyNotThere ==
    /\ MethodRead("notify")
    /\ seen' = IF place = "extranonce" THEN seen ELSE Head(toClient).n
    /\ UNCHANGED <<sid, toPool, poolVars, counted, loadVars>>

\* stratum_handle_method: a notify, or a new difficulty or extranonce.
HandleNotify ==
    /\ MethodRead("notify")
    /\ seen' = Head(toClient).n
    /\ UNCHANGED <<sid, toPool, poolVars, counted, loadVars>>

\* Mutant of HandleAsk: no reply before the session is established.
HandleAskLater ==
    /\ MethodRead("ask")
    /\ Head(toClient).id = 3 => place # "extranonce"
    /\ toPool' = IF Head(toClient).id = 0 \/ place # "receiving" THEN toPool
                 ELSE Append(toPool, Reply(Head(toClient).id))
    /\ UNCHANGED <<sid, poolVars, seenVars, loadVars>>

\* stratum_handle_method: a request of the pool is replied to if it has an id,
\* in every place, known or not.  A message to show needs no id.
HandleAsk ==
    /\ MethodRead("ask")
    /\ Head(toClient).id = 3 => place # "extranonce"
    /\ toPool' = IF Head(toClient).id = 0 THEN toPool
                 ELSE Append(toPool, Reply(Head(toClient).id))
    /\ UNCHANGED <<sid, poolVars, seenVars, loadVars>>

\* The socket does not take the reply, although the connection lives.
NotReplied ==
    /\ place \in {"authorizing", "extranonce", "receiving"}
    /\ toClient # <<>> /\ Head(toClient).kind = "ask" /\ Head(toClient).id # 0
    /\ Head(toClient).id = 3 => place # "extranonce"
    /\ Fault

\* So the method has failed, which stratum_authorize takes for its answer.
ReplyFails ==
    /\ NotReplied /\ (place = "authorizing" => Head(toClient).id # 2)
    /\ toClient' = Tail(toClient)
    /\ unsent' = Append(unsent, Head(toClient).id)
    /\ IF place = "authorizing" THEN AskExtranonce ELSE place' = "receiving" /\ UNCHANGED toPool
    /\ UNCHANGED <<sid, subscribed, verdict, notified, judged, malformed, asked, replied,
                   seenVars, early, sent>>

\* With the id of the authorization and no result it is a refusal there.
ReplyRefuses ==
    /\ NotReplied /\ place = "authorizing" /\ Head(toClient).id = 2
    /\ Disconnect
    /\ UNCHANGED <<sid, sent>>

\* stratum_reconnect: in stratum_authorize the next read fails.
HandleReconnect ==
    /\ place \in {"authorizing", "extranonce", "receiving"}
    /\ Line(Reconnect)
    /\ Disconnect
    /\ UNCHANGED <<sid, sent, faults>>

\* The same without opt_redirect.
IgnoreReconnect ==
    /\ MethodRead("reconnect")
    /\ UNCHANGED <<sid, toPool, poolVars, seenVars, loadVars>>

\* Mutant of ShareResult: every answer is an accepted share.
ShareResultAccepts(res) == counted' = [counted EXCEPT !["good"] = @ + 1]

\* share_result: accepted_count and rejected_count.
ShareResult(res) == counted' = [counted EXCEPT ![res] = @ + 1]

\* stratum_handle_response: an answer of a share counts if it has a result; late
\* answers of the handshake and malformed lines do not.
HandleResponse ==
    /\ place = "receiving"
    /\ toClient # <<>> /\ Head(toClient).kind \in {"answer", "malformed"}
    /\ toClient' = Tail(toClient)
    /\ IF Head(toClient) \in {Answer(4, res) : res \in Results}
       THEN ShareResult(Head(toClient).res)
       ELSE UNCHANGED counted
    /\ UNCHANGED <<place, sid, toPool, poolVars, seen, loadVars>>

\* A timeout of 30 s, 60 s or opt_timeout, a failing send, a closed connection.
Drop ==
    /\ place # "connecting"
    /\ Fault
    /\ Disconnect
    /\ UNCHANGED <<sid, sent>>

\* submit_upstream_work, in the workio thread, on an open socket.
SendShare ==
    /\ place # "connecting"
    /\ sent < MaxShares /\ Light
    /\ sent' = sent + 1
    /\ early' = (early \/ place # "receiving")
    /\ toPool' = Append(toPool, Request("submit"))
    /\ UNCHANGED <<place, sid, toClient, poolVars, seenVars, faults>>

Handshake ==
    \/ Connect \/ Subscribe \/ Subscribed \/ RetrySubscribe \/ SubscribeFails
    \/ AuthorizeAnswered \/ AuthorizeRefused
    \/ ExtranonceAnswered \/ ExtranonceTimesOut

HandleMethod ==
    \/ HandleNotify \/ HandleAsk \/ ReplyFails \/ ReplyRefuses
    \/ HandleReconnect \/ IgnoreReconnect

ClientStep == Handshake \/ HandleMethod \/ HandleResponse

PoolSends == SendNotify \/ SendAsk \/ SendReconnect \/ SendMalformed

Next == ClientStep \/ Serve \/ PoolSends \/ Drop \/ SendShare

Spec == Init /\ [][Next]_vars

\* Both ends run, and the pool answers.
FairSpec == Spec /\ WF_vars(ClientStep) /\ WF_vars(Serve)
=============================================================================
