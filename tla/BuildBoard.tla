------------------------------ MODULE BuildBoard ------------------------------
(***************************************************************************)
(* What the build farm of builder/queue.py and builder/worker.py promises, *)
(* without its list, its timestamps and its workers: each request is at    *)
(* any time new, waiting, taken or done, and so never lost, doubled or     *)
(* built by two; the most urgent one is taken first, and among equals the  *)
(* one that was filed first; one whose build fails is filed again, behind  *)
(* its new equals and one step less urgent.                                *)
(***************************************************************************)
EXTENDS Naturals

CONSTANTS Requests,    \* build requests
          MaxPriority  \* the lowest priority; 1 is the highest

VARIABLES
  stage,    \* of each request: "new", "waiting", "taken" or "done"
  urgency,  \* its priority
  earlier   \* <<a, b>>: both wait with the same priority, and a was filed before b

boardVars == <<stage, urgency, earlier>>

Waiting == {r \in Requests : stage[r] = "waiting"}

BoardInit ==
  /\ stage = [r \in Requests |-> "new"]
  /\ urgency = [r \in Requests |-> 1]
  /\ earlier = {}

\* A request is filed under priority p, behind those that wait with the same.
File(r, p) ==
  /\ stage' = [stage EXCEPT ![r] = "waiting"]
  /\ urgency' = [urgency EXCEPT ![r] = p]
  /\ earlier' = earlier \union {<<a, r>> : a \in {b \in Waiting : urgency[b] = p}}

\* A new request arrives.
Enter(r) ==
  /\ stage[r] = "new"
  /\ \E p \in 1 .. MaxPriority : File(r, p)

\* The most urgent request, and the first of them, is taken.
Take(r) ==
  /\ r \in Waiting
  /\ \A a \in Waiting : urgency[r] <= urgency[a] /\ <<a, r>> \notin earlier
  /\ stage' = [stage EXCEPT ![r] = "taken"]
  /\ earlier' = {e \in earlier : e[1] # r}
  /\ UNCHANGED urgency

\* Its build fails.
PutBack(r) ==
  /\ stage[r] = "taken"
  /\ File(r, IF urgency[r] < MaxPriority THEN urgency[r] + 1 ELSE MaxPriority)

\* Its build succeeds.
Deliver(r) ==
  /\ stage[r] = "taken"
  /\ stage' = [stage EXCEPT ![r] = "done"]
  /\ UNCHANGED <<urgency, earlier>>

BoardNext == \E r \in Requests : Enter(r) \/ Take(r) \/ PutBack(r) \/ Deliver(r)

BoardSpec == BoardInit /\ [][BoardNext]_boardVars
=============================================================================
