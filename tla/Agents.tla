------------------------------- MODULE Agents -------------------------------
(***************************************************************************)
(* The Orchestrator of agent/orchestrator.py: agents register and leave    *)
(* while pipelines of tasks run; a pipeline hands every task the results   *)
(* of the tasks before it and stops at the first one that fails.  A task   *)
(* submitted on its own is a pipeline of one.                              *)
(*                                                                         *)
(* A step is the code between two awaits: run_pipeline goes from the end   *)
(* of one handler to the call of the next without giving up the loop.      *)
(***************************************************************************)
EXTENDS Naturals, Sequences

CONSTANTS AgentObjects,
          IdOf,       \* Agent.id of each
          CapsOf,     \* Agent.capabilities of each
          Handling,   \* the agents that have a handler
          Pipelines,  \* runs of run_pipeline
          TaskOf,     \* the name and the required capability of every task of a pipeline
          NoAgent,
          AnyCap      \* no capability required

ASSUME AgentAssumption ==
  /\ NoAgent \notin AgentObjects
  /\ TaskOf # << >> /\ Len(TaskOf) \in Nat /\ DOMAIN TaskOf = 1 .. Len(TaskOf)

VARIABLES
  agents,     \* Orchestrator._agents, in the order of the dict
  statusOf,   \* AgentTask.status of the tasks each pipeline has submitted so far
  runner,     \* the agent whose handler the pipeline awaits
  context,    \* run_pipeline: which task's result is kept under each name
  handed,     \* the context as the running task was given it
  cancelled   \* pipelines whose asyncio task was cancelled

agentVars == <<agents, statusOf, runner, context, handed, cancelled>>

TaskSteps == DOMAIN TaskOf

AgentsInit ==
  /\ agents = << >>
  /\ statusOf = [p \in Pipelines |-> << >>]
  /\ runner = [p \in Pipelines |-> NoAgent]
  /\ context = [p \in Pipelines |-> << >>]
  /\ handed = [p \in Pipelines |-> << >>]
  /\ cancelled = {}

\* The places in the dict under which an agent is found by its id: one or none.
PlacesOf(a) == {i \in DOMAIN agents : IdOf[agents[i]] = IdOf[a]}

\* register_agent: an id that is there keeps its place, and has a new agent.
RegisterAgent(a) ==
  /\ agents' = IF PlacesOf(a) = {} THEN Append(agents, a)
               ELSE [i \in DOMAIN agents |-> IF i \in PlacesOf(a) THEN a ELSE agents[i]]
  /\ UNCHANGED <<statusOf, runner, context, handed, cancelled>>

\* unregister_agent: a handler of the agent that is running is not stopped.
UnregisterAgent(a) ==
  /\ \E i \in PlacesOf(a) : agents' = SubSeq(agents, 1, i - 1) \o SubSeq(agents, i + 1, Len(agents))
  /\ UNCHANGED <<statusOf, runner, context, handed, cancelled>>

\* _find_agent: the first one, or the first one with the capability.
FindAgent(cap) ==
  LET able == {i \in DOMAIN agents : cap \in CapsOf[agents[i]] \union {AnyCap}}
  IN  IF able = {} THEN NoAgent ELSE agents[CHOOSE i \in able : \A k \in able : i <= k]

\* submit_task for the pipeline's next task, when `before` is what has become of
\* the tasks before it and `known` their context.
SubmitNext(p, before, known) ==
  LET a == FindAgent(TaskOf[Len(before) + 1].cap)
      ready == a # NoAgent /\ a \in Handling
  IN  /\ statusOf' = [statusOf EXCEPT ![p] = Append(before, IF ready THEN "running" ELSE "failed")]
      /\ runner' = [runner EXCEPT ![p] = IF ready THEN a ELSE NoAgent]
      /\ context' = [context EXCEPT ![p] = known]
      /\ handed' = [handed EXCEPT ![p] = known]

StartPipeline(p) ==
  /\ statusOf[p] = << >>
  /\ SubmitNext(p, << >>, [name \in {TaskOf[i].name : i \in TaskSteps} |-> 0])
  /\ UNCHANGED <<agents, cancelled>>

Awaiting(p) == statusOf[p] # << >> /\ statusOf[p][Len(statusOf[p])] = "running" /\ p \notin cancelled

Ended(p, outcome) == [statusOf[p] EXCEPT ![Len(statusOf[p])] = outcome]

\* The pipeline is over.
Close(p, outcome, known) ==
  /\ statusOf' = [statusOf EXCEPT ![p] = Ended(p, outcome)]
  /\ runner' = [runner EXCEPT ![p] = NoAgent]
  /\ context' = [context EXCEPT ![p] = known]
  /\ UNCHANGED handed

\* The handler returns: its result goes into the context under the task's
\* name, and the next task is submitted.
HandlerReturns(p) ==
  LET i == Len(statusOf[p])
      known == [context[p] EXCEPT ![TaskOf[i].name] = i]
  IN  /\ Awaiting(p)
      /\ IF i = Len(TaskOf) THEN Close(p, "completed", known)
         ELSE SubmitNext(p, Ended(p, "completed"), known)
      /\ UNCHANGED <<agents, cancelled>>

\* A mutation: the pipeline goes on after a failure.
HandlerRaisesOn(p) ==
  /\ Awaiting(p)
  /\ IF Len(statusOf[p]) = Len(TaskOf) THEN Close(p, "failed", context[p])
     ELSE SubmitNext(p, Ended(p, "failed"), context[p])
  /\ UNCHANGED <<agents, cancelled>>

\* The handler raises: the task has failed and the pipeline stops.
HandlerRaises(p) ==
  /\ Awaiting(p)
  /\ Close(p, "failed", context[p])
  /\ UNCHANGED <<agents, cancelled>>

\* The caller's asyncio task is cancelled; CancelledError passes by the except
\* clause, so the AgentTask keeps its status.
CancelPipeline(p) ==
  /\ Awaiting(p)
  /\ cancelled' = cancelled \union {p}
  /\ runner' = [runner EXCEPT ![p] = NoAgent]
  /\ UNCHANGED <<agents, statusOf, context, handed>>

AgentsNext ==
  \/ \E a \in AgentObjects : RegisterAgent(a) \/ UnregisterAgent(a)
  \/ \E p \in Pipelines :
       StartPipeline(p) \/ HandlerReturns(p) \/ HandlerRaises(p) \/ CancelPipeline(p)

AgentsSpec == AgentsInit /\ [][AgentsNext]_agentVars

-----------------------------------------------------------------------------

\* A pipeline passes results forward: a task that runs was given, under every name,
\* the result of the last task of that name before it, all of which completed,
\* whoever registered or left meanwhile.
ContextIsForwarded ==
  \A p \in Pipelines : Awaiting(p) =>
    /\ \A j \in 1 .. Len(statusOf[p]) - 1 : statusOf[p][j] = "completed"
    /\ \A name \in DOMAIN handed[p] :
         LET before == {j \in 1 .. Len(statusOf[p]) - 1 : TaskOf[j].name = name} IN
         handed[p][name] = IF before = {} THEN 0 ELSE CHOOSE j \in before : \A k \in before : k <= j

\* A task is reported as running only while a capable agent's handler is awaited for
\* it, or for ever once its pipeline was cancelled.
RunningIsAwaited ==
  \A p \in Pipelines, i \in TaskSteps :
    i \in DOMAIN statusOf[p] /\ statusOf[p][i] = "running" =>
      \/ p \in cancelled
      \/ /\ i = Len(statusOf[p])
         /\ runner[p] \in Handling
         /\ TaskOf[i].cap \in CapsOf[runner[p]] \union {AnyCap}

\* What is known of a pipeline is true: the results handed on and the tasks shown as running.
PipelinesHonest == ContextIsForwarded /\ RunningIsAwaited
=============================================================================
