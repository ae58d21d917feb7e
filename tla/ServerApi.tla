------------------------------ MODULE ServerApi ------------------------------
(***************************************************************************)
(* The server's REST endpoints that do work for a client: package queries  *)
(* (server/api/packages.py), builds (server/api/builds.py with BuildService *)
(* of server/services/build_service.py) and executions                     *)
(* (server/api/execution.py).  Each of them asks the rate limiter first.   *)
(*                                                                         *)
(* Handlers run on one asyncio loop, and none of them is suspended between *)
(* the check and its last change of the state modelled here, so a request  *)
(* is one step.  Build ids may come from the client: a retried request is  *)
(* submitted twice.  The clock behind the limiter is assumed not to be set *)
(* back.                                                                   *)
(***************************************************************************)
EXTENDS RateLimiter, Sequences

CONSTANTS Builds,    \* build ids
          MaxListed  \* a bound on the length of the service's queue

ASSUME KindsAssumption == Kinds = {"packages", "build", "exec"}
ASSUME ListedAssumption == MaxListed \in Nat

VARIABLES
  status,  \* BuildService._builds: the status of each build, if there is one
  listed   \* BuildService._queue

serviceVars == <<status, listed>>
serverVars == <<limiterVars, serviceVars>>

ServerInit ==
  /\ LimiterInit
  /\ status = [b \in Builds |-> "none"]
  /\ listed = << >>

\* A mutation: a build that is known already is not listed again.
SubmitBuildOnce(b) ==
  /\ status' = [status EXCEPT ![b] = "queued"]
  /\ listed' = IF status[b] = "none" THEN Append(listed, b) ELSE listed

\* submit_build: the result of an earlier submission is replaced, and the id
\* is appended to the queue.
SubmitBuild(b) ==
  /\ status' = [status EXCEPT ![b] = "queued"]
  /\ listed' = Append(listed, b)

\* create_build: a request over the limit is answered 429.
CreateBuild(c, r, b) ==
  /\ Len(listed) < MaxListed
  /\ Check(c, "build", r)
  /\ IF Allowed(c, "build") THEN SubmitBuild(b) ELSE UNCHANGED serviceVars

\* list.remove: the first occurrence goes.
RemoveFirst(s, b) ==
  LET i == CHOOSE n \in DOMAIN s : s[n] = b /\ \A m \in 1 .. n - 1 : s[m] # b
  IN  SubSeq(s, 1, i - 1) \o SubSeq(s, i + 1, Len(s))

\* cancel_build, which is not limited: a build that has not ended (none ever
\* does) is cancelled, possibly again, and leaves the queue if it is there.
CancelBuild(b) ==
  /\ status[b] # "none"
  /\ status' = [status EXCEPT ![b] = "cancelled"]
  /\ listed' = IF \E i \in DOMAIN listed : listed[i] = b THEN RemoveFirst(listed, b) ELSE listed
  /\ UNCHANGED limiterVars

\* submit_execution and the package queries: what they do once they are let
\* through changes nothing that is modelled here.
Ask(c, k, r) ==
  /\ k \in {"packages", "exec"}
  /\ Check(c, k, r)
  /\ UNCHANGED serviceVars

ServerNext ==
  \/ Tick /\ UNCHANGED serviceVars
  \/ \E b \in Builds : CancelBuild(b)
  \/ \E c \in Clients, r \in Requests :
       \/ \E b \in Builds : CreateBuild(c, r, b)
       \/ \E k \in Kinds : Ask(c, k, r)

ServerSpec == ServerInit /\ [][ServerNext]_serverVars

-----------------------------------------------------------------------------

\* The service's state is well typed.
ServerTypeOK ==
  /\ LimiterTypeOK
  /\ status \in [Builds -> {"none", "queued", "cancelled"}]
  /\ listed \in Seq(Builds) /\ Len(listed) <= MaxListed

\* A build that a client sees as queued is in the service's queue, through any
\* sequence of submissions, retries under the same id and cancellations.
QueuedIsListed ==
  \A b \in Builds : status[b] = "queued" => \E i \in DOMAIN listed : listed[i] = b
=============================================================================
