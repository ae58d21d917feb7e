----------------------------- MODULE BuildQueue -----------------------------
(***************************************************************************)
(* The build farm: the priority queue of builder/queue.py and the workers  *)
(* of builder/worker.py that compile, scan and sign what they pop from it  *)
(* (builder/compiler.py, scanner.py, signer.py).                           *)
(*                                                                         *)
(* The workers share one asyncio loop and give it up only while a compiler *)
(* subprocess runs, so popping a request is one step and everything after  *)
(* the subprocess is another.  All compilers write to one directory, in    *)
(* which the worker then looks for its wheel by name prefix.               *)
(***************************************************************************)
EXTENDS Integers, Sequences

CONSTANTS Requests,     \* build requests (their ids)
          Workers,      \* BuildWorker instances
          NoReq,        \* "the worker has no job"
          MaxPriority,  \* the lowest priority: 10 in the code; 1 is the highest
          NoWheel,      \* "no wheel signed"
          Wheels,       \* wheel files
          WheelOf,      \* the wheel that building a request produces
          GlobOf        \* the wheels whose file name the request's pattern matches

ASSUME NoReqAssumption == NoReq \notin Requests
ASSUME PriorityAssumption == MaxPriority \in Nat \ {0}
ASSUME WheelAssumption == /\ NoWheel \notin Wheels
                          /\ WheelOf \in [Requests -> Wheels]
                          /\ GlobOf \in [Requests -> SUBSET Wheels]
                          /\ \A r \in Requests : WheelOf[r] \in GlobOf[r]

Priorities == 1 .. MaxPriority

VARIABLES
  queue,       \* BuildQueue._queue: sequence of [id, prio], sorted
  processing,  \* the keys of BuildQueue._processing
  prio,        \* BuildRequest.priority
  submitted,   \* the requests pushed so far
  job,         \* the request each worker is building
  phase,       \* where each worker is: idle, building, built, stopped
  stopping,    \* workers whose _running has been cleared
  dir,         \* the wheels in the output directory
  signed       \* the wheel signed for each request

queueVars == <<queue, processing, prio, submitted, job, phase, stopping, dir, signed>>

Entries == [id : Requests, prio : Priorities]

QueueInit ==
  /\ queue = << >>
  /\ processing = {}
  /\ prio = [r \in Requests |-> 1]
  /\ submitted = {}
  /\ job = [w \in Workers |-> NoReq]
  /\ phase = [w \in Workers |-> "idle"]
  /\ stopping = {}
  /\ dir = {}
  /\ signed = [r \in Requests |-> NoWheel]

-----------------------------------------------------------------------------

\* The sequence q with e after its first i elements.
Insert(q, i, e) ==
  [j \in 1 .. Len(q) + 1 |-> IF j <= i THEN q[j] ELSE IF j = i + 1 THEN e ELSE q[j - 1]]

\* A mutation: the entry ends up before the others of its priority.
PushFirst(q, e) ==
  LET i == CHOOSE n \in 0 .. Len(q) :
             /\ \A j \in 1 .. n : q[j].prio < e.prio
             /\ \A j \in n + 1 .. Len(q) : q[j].prio >= e.prio
  IN  Insert(q, i, e)

\* BuildQueue.push: append, then a stable sort by (priority, time).  On a
\* sorted queue the new entry ends up behind the last one of its priority.
PushEntry(q, e) ==
  LET i == CHOOSE n \in 0 .. Len(q) :
             /\ \A j \in 1 .. n : q[j].prio <= e.prio
             /\ \A j \in n + 1 .. Len(q) : q[j].prio > e.prio
  IN  Insert(q, i, e)

\* A request enters the queue.
Submit(r, p) ==
  /\ r \notin submitted
  /\ submitted' = submitted \union {r}
  /\ prio' = [prio EXCEPT ![r] = p]
  /\ queue' = PushEntry(queue, [id |-> r, prio |-> p])
  /\ UNCHANGED <<processing, job, phase, stopping, dir, signed>>

\* BuildWorker.start: the loop pops the first request and starts its compiler.
Pop(w) ==
  /\ phase[w] = "idle"
  /\ w \notin stopping
  /\ queue # << >>
  /\ LET r == Head(queue).id IN
       /\ processing' = processing \union {r}
       /\ job' = [job EXCEPT ![w] = r]
  /\ queue' = Tail(queue)
  /\ phase' = [phase EXCEPT ![w] = "building"]
  /\ UNCHANGED <<prio, submitted, stopping, dir, signed>>

\* A mutation: a failure does not change the priority.
FailSamePriority(p) == p

\* A mutation: a failed request is not pushed again.
FailDrops(w) ==
  /\ processing' = processing \ {job[w]}
  /\ UNCHANGED <<prio, queue>>

\* The priority after a failure: one step less urgent, down to the lowest.
Demoted(p) == IF p + 1 < MaxPriority THEN p + 1 ELSE MaxPriority

\* BuildQueue.fail: the request goes back to the queue, one step less urgent.
Fail(w) ==
  LET r == job[w]  p == Demoted(prio[r]) IN
  /\ processing' = processing \ {r}
  /\ prio' = [prio EXCEPT ![r] = p]
  /\ queue' = PushEntry(queue, [id |-> r, prio |-> p])

\* The worker is done with its job, and looks for the next one.
Release(w) ==
  /\ job' = [job EXCEPT ![w] = NoReq]
  /\ phase' = [phase EXCEPT ![w] = "idle"]

\* The subprocess writes its wheel into the shared directory.
Emit(w) ==
  /\ phase[w] = "building"
  /\ dir' = dir \union {WheelOf[job[w]]}
  /\ phase' = [phase EXCEPT ![w] = "built"]
  /\ UNCHANGED <<queue, processing, prio, submitted, job, stopping, signed>>

\* The subprocess fails, times out, cannot be started, or leaves nothing the
\* pattern matches.
CompileFail(w) ==
  /\ phase[w] = "building"
  /\ Fail(w)
  /\ Release(w)
  /\ UNCHANGED <<submitted, stopping, dir, signed>>

\* The subprocess ends without a wheel of its own but with exit code 0, and
\* the pattern finds an earlier one: the worker goes on with that.
CompileEmpty(w) ==
  /\ phase[w] = "building"
  /\ dir \intersect GlobOf[job[w]] # {}
  /\ phase' = [phase EXCEPT ![w] = "built"]
  /\ UNCHANGED <<queue, processing, prio, submitted, job, stopping, dir, signed>>

\* wheels[0] of the glob, in directory order; the scan passes it; it is
\* signed and the request is complete.
Finish(w) ==
  /\ phase[w] = "built"
  /\ \E f \in dir \intersect GlobOf[job[w]] :
        signed' = [signed EXCEPT ![job[w]] = f]
  /\ processing' = processing \ {job[w]}
  /\ Release(w)
  /\ UNCHANGED <<queue, prio, submitted, stopping, dir>>

\* The scan finds the wheel unclean, or scanning or signing it raises.
ScanFail(w) ==
  /\ phase[w] = "built"
  /\ Fail(w)
  /\ Release(w)
  /\ UNCHANGED <<submitted, stopping, dir, signed>>

\* BuildWorker.stop: takes effect when the loop looks at _running again.
Stop(w) ==
  /\ w \notin stopping
  /\ stopping' = stopping \union {w}
  /\ UNCHANGED <<queue, processing, prio, submitted, job, phase, dir, signed>>

\* The loop of a stopped worker ends.
Leave(w) ==
  /\ phase[w] = "idle"
  /\ w \in stopping
  /\ phase' = [phase EXCEPT ![w] = "stopped"]
  /\ UNCHANGED <<queue, processing, prio, submitted, job, stopping, dir, signed>>

\* The steps of a worker.  (One that finds the queue empty sleeps.)
WorkerStep(w) ==
  \/ Pop(w) \/ Emit(w) \/ CompileFail(w) \/ CompileEmpty(w)
  \/ Finish(w) \/ ScanFail(w) \/ Leave(w)

QueueNext ==
  \/ \E r \in Requests, p \in Priorities : Submit(r, p)
  \/ \E w \in Workers : WorkerStep(w) \/ Stop(w)

\* A worker that can move does: a compiler ends within its timeout.  Which
\* way a build ends is not assumed.
QueueFairness == \A w \in Workers : WF_queueVars(WorkerStep(w))

QueueSafety == QueueInit /\ [][QueueNext]_queueVars
QueueSpec == QueueSafety /\ QueueFairness

-----------------------------------------------------------------------------

\* The state is well typed.
QueueTypeOK ==
  /\ queue \in Seq(Entries)
  /\ processing \subseteq Requests
  /\ prio \in [Requests -> Priorities]
  /\ submitted \subseteq Requests
  /\ job \in [Workers -> Requests \union {NoReq}]
  /\ phase \in [Workers -> {"idle", "building", "built", "stopped"}]
  /\ stopping \subseteq Workers
  /\ dir \subseteq Wheels
  /\ signed \in [Requests -> Wheels \union {NoWheel}]

Queued == {queue[i].id : i \in DOMAIN queue}
Done == {r \in Requests : signed[r] # NoWheel}

\* No request is lost or doubled, through any number of failures and
\* re-queueings by any number of workers: one that was pushed and is not
\* finished is in the queue, once, or being processed, never both.
Conserved ==
  /\ submitted = Queued \union processing \union Done
  /\ Queued \intersect processing = {}
  /\ (Queued \union processing) \intersect Done = {}
  /\ \A i, j \in DOMAIN queue : queue[i].id = queue[j].id => i = j

\* What the queue calls "processing" is what the workers really hold, and no
\* two workers build the same request.
ProcessingHeld ==
  /\ processing = {job[w] : w \in Workers} \ {NoReq}
  /\ \A v, w \in Workers : job[v] = job[w] /\ job[v] # NoReq => v = w

\* The queue is ordered by priority, and the priority an entry was filed
\* under is still the request's own.
Ordered ==
  /\ \A i, j \in DOMAIN queue : i <= j => queue[i].prio <= queue[j].prio
  /\ \A i \in DOMAIN queue : queue[i].prio = prio[queue[i].id]

\* Nobody starves: even if every build of every other request fails and is
\* retried for ever, a queued request is built some day, because failures
\* lose priority; unless all workers are told to stop.
NoStarvation ==
  \A r \in Requests : (r \in Queued) ~> (r \in processing \/ stopping = Workers)

\* What becomes of a request: it is never lost, doubled, or built twice at once, and it is in its place.
RequestsKept == QueueTypeOK /\ Conserved /\ ProcessingHeld /\ Ordered

-----------------------------------------------------------------------------
(* The farm implements the board of requests.                              *)

\* Where a request is.
StageOf == [r \in Requests |->
              CASE r \notin submitted -> "new"
                [] r \in Queued -> "waiting"
                [] r \in processing -> "taken"
                [] OTHER -> "done"]

\* In queue q, request a is ahead of request b with the same priority.
AheadOf(q, a, b) ==
  \E i, j \in DOMAIN q : i < j /\ q[i].prio = q[j].prio /\ q[i].id = a /\ q[j].id = b

EarlierOf == {e \in Requests \X Requests : AheadOf(queue, e[1], e[2])}

Board == INSTANCE BuildBoard WITH stage <- StageOf, urgency <- prio, earlier <- EarlierOf

\* Every step of the queue and of its workers is a step of the board or leaves it
\* alone: with any number of workers that pop, fail and push again, and are stopped,
\* the next request built is the one filed first among the most urgent.
ImplementsBoard == Board!BoardSpec
=============================================================================
