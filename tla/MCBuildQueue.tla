---------------------------- MODULE MCBuildQueue ----------------------------
(***************************************************************************)
(* Small instances of the build queue and of the sandbox, which share no   *)
(* state: `part` says which of them a behaviour is about, and the other    *)
(* rests in its initial state.                                             *)
(***************************************************************************)
EXTENDS BuildQueue, Sandbox, TLC

VARIABLE part

workVars == <<part, queueVars, sandboxVars>>

(* Request r1 is for "torch", r2 for "torchvision", whose wheel the        *)
(* pattern "torch*.whl" matches too, and r3 for an unrelated package.      *)

CONSTANTS r1, r2, r3, f1, f2, f3

MCWheelOf == (r1 :> f1) @@ (r2 :> f2) @@ (r3 :> f3)
MCGlobOf == (r1 :> {f1, f2}) @@ (r2 :> {f2}) @@ (r3 :> {f3})

(* Jobs for three runtimes that compete for two threads.                   *)

JobMethod == [j1 |-> "torch", j2 |-> "playwright", j3 |-> "tf"]
JobMode == [j1 |-> "browser", j2 |-> "cloud", j3 |-> "gpu"]

-----------------------------------------------------------------------------

InQueue(A) == part = "queue" /\ A /\ UNCHANGED <<part, sandboxVars>>
InSandbox(A) == part = "sandbox" /\ A /\ UNCHANGED <<part, queueVars>>

WorkInit == QueueInit /\ SandboxInit /\ part \in {"queue", "sandbox"}

WorkNext == InQueue(QueueNext) \/ InSandbox(SandboxNext)

\* With QueueFairness and SandboxFairness.
WorkSpec ==
  /\ WorkInit /\ [][WorkNext]_workVars
  /\ \A w \in Workers : WF_workVars(InQueue(WorkerStep(w)))
  /\ WF_workVars(InSandbox(TakeUp))
  /\ \A j \in Jobs : WF_workVars(InSandbox(JobStep(j)))
=============================================================================
