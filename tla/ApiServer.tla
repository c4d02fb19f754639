------------------------------ MODULE ApiServer ------------------------------
(***************************************************************************)
(* The API thread (api.c) and what its commands do to stratum_thread: the  *)
(* url and the user of the pool are globals that parse_arg replaces one    *)
(* after the other and that stratum_thread reads without a lock, the user  *)
(* when it authorizes a session, the url when it resets the connection.    *)
(* Composed with the distribution of work, whose rpc_url, flag and head of *)
(* the loop these are.                                                     *)
(*                                                                         *)
(* A client is external: it connects from an address that check_connect    *)
(* accepts or ignores, sends one command or nothing, and need not do       *)
(* either.                                                                 *)
(***************************************************************************)
EXTENDS WorkDistribution

CONSTANTS
    Users,      \* the user and password of an account
    FirstUser,  \* those of the command line
    Keep,       \* a seturl without user and password
    Remote      \* opt_api_remote: --api-remote was given

ASSUME ApiAssumption ==
    /\ FirstUser \in Users /\ Keep \notin Users
    /\ Remote \in BOOLEAN

VARIABLES
    api,          \* where the API thread is
    newUrl,       \* the url of the seturl under way
    rpcUser,      \* rpc_user and rpc_pass
    sessionUser,  \* those with which the session was authorized
    redirected,   \* history: stratum.url is from client.reconnect
    bye           \* the quit command was executed

apiState == <<api, newUrl, bye>>
accounts == <<rpcUser, sessionUser, redirected>>
apiServerVars == <<vars, apiState, accounts>>

ApiPlaces == {"binding", "accepting", "reading", "replacing", "raising",
              "answering", "over", "exited"}

\* exit, called by any thread, ends all of them.
Running == api # "exited"

ApiInit ==
    /\ Init
    /\ api = "binding" /\ newUrl = FirstUrl /\ bye = FALSE
    /\ rpcUser = FirstUser /\ sessionUser = FirstUser /\ redirected = FALSE

(***************************************************************************)
(* The socket.                                                             *)
(***************************************************************************)
GoesTo(from, to) ==
    /\ api = from /\ Running
    /\ api' = to
    /\ UNCHANGED <<vars, newUrl, bye, accounts>>

\* socket, bind and listen; bind is tried for a minute.
Bind      == GoesTo("binding", "accepting")
BindFails == GoesTo("binding", "over")

\* accept, for a client with an allowed address; the descriptor of another
\* one stays open.
Accept == ~bye /\ GoesTo("accepting", "reading")

\* An error of accept ends the API thread, not the process.
AcceptFails == ~bye /\ GoesTo("accepting", "over")

\* recv fails, or has not the name of a command: no answer.
ReadNothing == GoesTo("reading", "accepting")

\* summary, threads and help; seturl and quit without --api-remote
Query == GoesTo("reading", "answering")

\* The result is sent and the connection closed.
Answer == GoesTo("answering", "accepting")

(***************************************************************************)
(* The commands with an effect.                                            *)
(***************************************************************************)
\* remote_quit
Quit ==
    /\ api = "reading" /\ Remote
    /\ bye' = TRUE
    /\ api' = "answering"
    /\ UNCHANGED <<vars, newUrl, accounts>>

\* remote_seturl: parse_arg puts user and password of the argument, if it has
\* any, in the place of the current ones,
ReplaceUser(u, user) ==
    /\ api = "reading" /\ Remote
    /\ resets < MaxResets
    /\ newUrl' = u
    /\ rpcUser' = IF user = Keep THEN rpcUser ELSE user
    /\ api' = "replacing"
    /\ UNCHANGED <<vars, bye, sessionUser, redirected>>

\* and may then find an unknown protocol in the url, which ends the process.
RejectUrl == GoesTo("replacing", "exited")

\* Mutant of Leave: the loop is left, the process goes on.
LeaveQuietly == bye /\ GoesTo("accepting", "over")

\* The end of the loop after quit: tq_freeze, then proper_exit.
Leave == bye /\ GoesTo("accepting", "exited")

(***************************************************************************)
(* Beside a step of the distribution of work: remote_seturl goes on where  *)
(* that step is its own, and stratum_authorize is called with rpc_user and *)
(* rpc_pass as soon as the session is subscribed.                          *)
(***************************************************************************)
SetUrlPart ==
    \/ urlSet' = urlSet /\ api' = api
    \/ urlSet' /\ api = "replacing" /\ rpcUrl' = newUrl /\ api' = "raising"
    \/ urlSet /\ ~urlSet' /\ api' = "answering"

Subscribed == stratum = "connecting" /\ stratum' = "authorizing"
TookUrl    == stratum = "resetting" /\ stratum' = "flagging"

Beside ==
    /\ SetUrlPart
    /\ sessionUser' = IF Subscribed THEN rpcUser ELSE sessionUser
    /\ redirected' = (~TookUrl /\ (redirected \/ url' # url))
    /\ UNCHANGED <<newUrl, bye, rpcUser>>

DistributeBeside == Running /\ Next /\ Beside

ApiStep ==
    \/ Bind \/ BindFails \/ Accept \/ AcceptFails \/ ReadNothing \/ Query \/ Answer
    \/ Quit \/ Leave
    \/ \E u \in Urls, user \in Users \cup {Keep} : ReplaceUser(u, user)
    \/ RejectUrl

ApiNext == DistributeBeside \/ ApiStep

ApiSpec == ApiInit /\ [][ApiNext]_apiServerVars

(***************************************************************************)
(* The threads run; clients need not send anything.  A pool that accepts   *)
(* connections accepts one in the end.                                     *)
(***************************************************************************)
ApiFairSpec ==
    /\ ApiSpec
    /\ WF_apiServerVars(Running /\ StratumStep /\ Beside)
    /\ SF_apiServerVars(Running /\ (\E x \in Xn1 : Connect(x)) /\ Beside)
    /\ SF_apiServerVars(Running /\ Authorize /\ Beside)
    /\ WF_apiServerVars(Answer \/ Leave)
    /\ WF_apiServerVars(Running /\ (RaiseReset \/ \E u \in Urls : SetUrl(u)) /\ Beside)
=============================================================================
