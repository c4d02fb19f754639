--------------------------- MODULE ApiServerProps ---------------------------
(***************************************************************************)
(* What the commands of the API promise.                                   *)
(***************************************************************************)
EXTENDS ApiServer

\* While no seturl is under way or waiting to be noticed, an open session is
\* with the pool that the last seturl has named, unless the pool has sent the
\* client elsewhere, and was authorized for the account that rpc_user names:
\* the one that shares are submitted for, as submit_upstream_work reads the
\* same global.  Url and account are replaced one after the other, without a
\* lock, while stratum_thread resets, retries and authorizes.
SessionMatchesSetUrl ==
    /\ Running /\ ~needReset /\ api \notin {"replacing", "raising"}
    /\ stratum \in {"publishing", "timing", "restarting", "receiving"}
    => sessionUser = rpcUser /\ (url = rpcUrl \/ redirected)

\* "Change pool url": once seturl has set another url and raised the flag,
\* stratum_thread gets a session at it and authorizes the new account there,
\* or the user has changed one of them again, or ended the miner.
SetUrlTakesEffect ==
    \A u \in Urls, user \in Users :
        needReset /\ rpcUrl = u /\ rpcUser = user
            ~> \/ stratum = "authorizing" /\ url = u /\ sessionUser = user
               \/ rpcUrl # u \/ rpcUser # user \/ ~Running

\* "Ask the miner to quit": once the API has answered "bye" the process ends,
\* whatever stratum_thread is at.
QuitEndsTheProcess == bye ~> ~Running
=============================================================================
