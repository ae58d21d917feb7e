------------------------------- MODULE Sandbox -------------------------------
(***************************************************************************)
(* The executor: ExecutionPool.execute of executor/pool.py routes a job to *)
(* the GPU, browser or general runtime, each of which runs a container     *)
(* through Sandbox.execute of executor/sandbox.py.  Both docker run and    *)
(* the docker kill after a timeout need a thread of asyncio.to_thread's    *)
(* pool, whose queue is first in, first out.                               *)
(***************************************************************************)
EXTENDS Naturals, Sequences, FiniteSets

CONSTANTS Jobs,
          MethodOf,   \* the kind of method each job calls
          ModeOf,     \* the mode it asks for
          MaxThreads  \* threads of the default executor

ASSUME ThreadAssumption == MaxThreads \in Nat \ {0}

VARIABLES
  jobAt,    \* where each job is
  work,     \* docker commands that wait for a thread
  threads,  \* docker commands that a thread runs
  box,      \* the container of each job: none, asked for, up, or gone
  config,   \* the SandboxConfig of each job
  unkilled  \* ghost: jobs whose docker kill failed

sandboxVars == <<jobAt, work, threads, box, config, unkilled>>

General == [gpu |-> FALSE, network |-> FALSE]

SandboxInit ==
  /\ jobAt = [j \in Jobs |-> "new"]
  /\ work = << >>
  /\ threads = {}
  /\ box = [j \in Jobs |-> "none"]
  /\ config = [j \in Jobs |-> General]
  /\ unkilled = {}

\* _needs_gpu; a method that starts with tf does not count.
NeedsGpu(method) == method \in {"torch", "tensorflow", "jax", "cuda", "cupy"}
HasGpuRuntime(method) == method \in {"torch", "tensorflow", "tf"}

\* ExecutionPool.execute: what needs a GPU and has no GPU runtime falls through.
Route(mode, method) ==
  IF (mode = "gpu" \/ NeedsGpu(method)) /\ HasGpuRuntime(method)
  THEN [gpu |-> TRUE, network |-> FALSE]
  ELSE [gpu |-> FALSE, network |-> mode = "browser" \/ method = "playwright"]

\* asyncio.to_thread, and the end of the thread's command
ToThread(cmd, j) == work' = Append(work, <<cmd, j>>)
Free(cmd, j) == <<cmd, j>> \in threads /\ threads' = threads \ {<<cmd, j>>}

Goes(j, where) == jobAt' = [jobAt EXCEPT ![j] = where]

SubmitJob(j) ==
  /\ jobAt[j] = "new"
  /\ config' = [config EXCEPT ![j] = Route(ModeOf[j], MethodOf[j])]
  /\ Goes(j, "run")
  /\ ToThread("run", j)
  /\ UNCHANGED <<threads, box, unkilled>>

\* A thread takes the next command.
TakeUp ==
  /\ work # << >>
  /\ Cardinality(threads) < MaxThreads
  /\ threads' = threads \union {Head(work)}
  /\ work' = Tail(work)
  /\ UNCHANGED <<jobAt, box, config, unkilled>>

\* docker run asks the daemon for the container ...
AskBox(j) ==
  /\ <<"run", j>> \in threads /\ box[j] = "none"
  /\ box' = [box EXCEPT ![j] = "asked"]
  /\ UNCHANGED <<jobAt, work, threads, config, unkilled>>

\* ... which starts it, even if the client is gone by then, or cannot.
StartBox(j) ==
  /\ box[j] = "asked"
  /\ \E b \in {"up", "gone"} : box' = [box EXCEPT ![j] = b]
  /\ UNCHANGED <<jobAt, work, threads, config, unkilled>>

\* The program in the container ends, and --rm removes it.
Exit(j) ==
  /\ box[j] = "up"
  /\ box' = [box EXCEPT ![j] = "gone"]
  /\ UNCHANGED <<jobAt, work, threads, config, unkilled>>

\* docker run ends with its container, or without having asked for one.
RunEnds(j) ==
  /\ Free("run", j) /\ box[j] \in {"none", "gone"}
  /\ IF jobAt[j] = "run" THEN Goes(j, "returned") ELSE UNCHANGED jobAt
  /\ UNCHANGED <<work, box, config, unkilled>>

\* A mutation: a timeout returns without docker kill.
RunTimeoutOnly(j) ==
  /\ Free("run", j)
  /\ IF jobAt[j] = "run" THEN Goes(j, "returned") ELSE UNCHANGED jobAt
  /\ UNCHANGED <<work, box, config, unkilled>>

\* subprocess.run times out: the docker client is gone, its container is not, and
\* the job, unless it was cancelled, asks for a thread to kill it.
RunTimeout(j) ==
  /\ Free("run", j)
  /\ IF jobAt[j] = "run" THEN Goes(j, "kill") /\ ToThread("kill", j) ELSE UNCHANGED <<jobAt, work>>
  /\ UNCHANGED <<box, config, unkilled>>

\* A mutation: the thread waits for the container to end by itself.
KillEndsLate(j) ==
  /\ Free("kill", j) /\ box[j] \notin {"asked", "up"}
  /\ IF jobAt[j] = "kill" THEN Goes(j, "returned") ELSE UNCHANGED jobAt
  /\ UNCHANGED <<work, box, config, unkilled>>

\* docker kill is over: it has killed the container, or it failed, as it does on one that
\* has not started.  The job returns "Execution timed out" in both cases.
KillEnds(j) ==
  /\ Free("kill", j)
  /\ \/ box[j] = "up" /\ box' = [box EXCEPT ![j] = "gone"] /\ UNCHANGED unkilled
     \/ unkilled' = unkilled \union {j} /\ UNCHANGED box
  /\ IF jobAt[j] = "kill" THEN Goes(j, "returned") ELSE UNCHANGED jobAt
  /\ UNCHANGED <<work, config>>

\* The awaiting task is cancelled: the command it waits for is withdrawn if no thread has
\* taken it, and otherwise goes on with nobody waiting for it.
CancelJob(j) ==
  /\ jobAt[j] \in {"run", "kill"}
  /\ Goes(j, "cancelled")
  /\ IF \E i \in DOMAIN work : work[i] = <<jobAt[j], j>>
     THEN \E i \in DOMAIN work :
            work[i] = <<jobAt[j], j>> /\ work' = SubSeq(work, 1, i - 1) \o SubSeq(work, i + 1, Len(work))
     ELSE UNCHANGED work
  /\ UNCHANGED <<threads, box, config, unkilled>>

\* Every job is over.
AllDone == (\A j \in Jobs : jobAt[j] \in {"returned", "cancelled"}) /\ UNCHANGED sandboxVars

JobStep(j) == RunEnds(j) \/ RunTimeout(j) \/ KillEnds(j)

SandboxNext ==
  \/ TakeUp \/ AllDone
  \/ \E j \in Jobs : SubmitJob(j) \/ AskBox(j) \/ StartBox(j) \/ Exit(j) \/ CancelJob(j) \/ JobStep(j)

\* Threads work through their queue, and a docker command ends or times out.
SandboxFairness == /\ WF_sandboxVars(TakeUp)
                   /\ \A j \in Jobs : WF_sandboxVars(JobStep(j))

SandboxSpec == SandboxInit /\ [][SandboxNext]_sandboxVars /\ SandboxFairness

-----------------------------------------------------------------------------

\* The container of a job, once the daemon was asked for it, is ended before the job
\* returns, whatever the timeout, the start and other jobs' commands for the threads do
\* meanwhile.  It is left behind only where docker kill was tried and failed, or where the
\* awaiting task was cancelled.
NoOrphanContainer ==
  \A j \in Jobs : box[j] \in {"asked", "up"} => jobAt[j] \in {"run", "kill", "cancelled"} \/ j \in unkilled

\* Every job that is submitted returns or is cancelled, although the kill of one that
\* timed out waits behind other jobs for a thread.
JobReturns == \A j \in Jobs : jobAt[j] = "run" ~> jobAt[j] \in {"returned", "cancelled"}
=============================================================================
