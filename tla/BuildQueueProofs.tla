-------------------------- MODULE BuildQueueProofs --------------------------
(***************************************************************************)
(* The build farm for every number of requests, workers and priorities,    *)
(* jobs and worker threads: the queue neither loses nor doubles a request  *)
(* and stays sorted, and no container outlives its job.                    *)
(***************************************************************************)
EXTENDS BuildQueue, Sandbox, SequenceFacts

-----------------------------------------------------------------------------
(* The queue.                                                              *)

\* A queue in priority order.
Sorted(q) == \A i, j \in 1 .. Len(q) : i <= j => q[i].prio <= q[j].prio

\* The ids in a queue, and that none occurs twice.
Ids(q) == {q[i].id : i \in 1 .. Len(q)}

\* A queue without a request twice.
Distinct(q) == \A i, j \in 1 .. Len(q) : q[i].id = q[j].id => i = j

\* A place in q where an entry of priority p keeps the order.
Place(q, p, n) ==
  /\ n \in 0 .. Len(q)
  /\ \A j \in 1 .. n : q[j].prio <= p
  /\ \A j \in n + 1 .. Len(q) : q[j].prio > p

\* A non-empty set of natural numbers has a least element.
LEMMA LeastElement ==
  ASSUME NEW T \in SUBSET Nat, T # {}
  PROVE  \E x \in T : \A y \in T : x <= y
<1> DEFINE R == OpToRel(<, Nat)
<1>1. IsWellFoundedOn(R, Nat)
  BY NatLessThanWellFounded
<1>2. PICK x \in T : \A y \in T : ~ (<<y, x>> \in R)
  <2> HIDE DEF R
  <2> QED
    BY <1>1, WFMin
<1>3. ASSUME NEW y \in T PROVE x <= y
  <2>1. <<y, x>> \in Nat \X Nat /\ ~(<<y, x>> \in R)
    BY <1>2
  <2>2. ~(y < x)
    BY <2>1 DEF OpToRel
  <2> QED
    BY <2>2
<1> QED
  BY <1>3

\* The fields of an entry.
LEMMA EntryFacts ==
  \A e \in Entries : e.id \in Requests /\ e.prio \in Priorities /\ e.prio \in Int
BY PriorityAssumption DEF Entries, Priorities

\* The elements of a queue.
LEMMA ElementFacts ==
  ASSUME NEW q \in Seq(Entries)
  PROVE  /\ Len(q) \in Nat
         /\ \A i \in 1 .. Len(q) :
               q[i] \in Entries /\ q[i].prio \in Int /\ q[i].id \in Requests
<1>1. Len(q) \in Nat /\ \A i \in 1 .. Len(q) : q[i] \in Entries
  OBVIOUS
<1> QED
  BY <1>1, EntryFacts

\* A sorted queue has a place for every priority.
LEMMA PlaceExists ==
  ASSUME NEW q \in Seq(Entries), Sorted(q), NEW p \in Priorities
  PROVE  \E n \in 0 .. Len(q) : Place(q, p, n)
<1> DEFINE T == {n \in 0 .. Len(q) : \A j \in n + 1 .. Len(q) : q[j].prio > p}
<1>1. Len(q) \in Nat /\ \A i \in 1 .. Len(q) : q[i] \in Entries /\ q[i].prio \in Int
  BY ElementFacts
<1>p. p \in Int
  BY DEF Priorities
<1>2. Len(q) \in T
  BY <1>1
<1>3. PICK n \in T : \A m \in T : n <= m
  <2>1. T \in SUBSET Nat /\ T # {}
    BY <1>1, <1>2
  <2> HIDE DEF T
  <2> QED
    BY <2>1, LeastElement
<1>4. ASSUME NEW j \in 1 .. n PROVE q[j].prio <= p
  <2>0. n \in Nat /\ n >= 1 /\ n <= Len(q)
    BY <1>1, <1>3
  <2>1. n - 1 \in 0 .. Len(q) /\ n - 1 \notin T
    <3>1. n - 1 \in 0 .. Len(q)
      BY <1>1, <2>0
    <3>2. ~(n <= n - 1)
      BY <2>0
    <3> HIDE DEF T
    <3> QED
      BY <1>3, <3>1, <3>2
  <2>2. PICK k \in n .. Len(q) : ~(q[k].prio > p)
    <3>1. (n - 1) + 1 = n
      BY <2>0
    <3> QED
      BY <2>1, <3>1
  <2>3. k = n
    BY <1>1, <1>3, <2>2
  <2>4. q[n].prio <= p
    BY <1>1, <1>p, <2>2, <2>3
  <2>5. q[j].prio <= q[n].prio
    BY <1>1, <1>3 DEF Sorted
  <2> QED
    BY <1>1, <1>3, <1>p, <2>4, <2>5
<1>5. Place(q, p, n)
  BY <1>3, <1>4 DEF Place
<1> QED
  BY <1>3, <1>5

\* Inserting an entry at its place keeps a queue a queue, and in order.
LEMMA InsertFacts ==
  ASSUME NEW q \in Seq(Entries), Sorted(q), NEW e \in Entries,
         NEW n \in 0 .. Len(q), Place(q, e.prio, n)
  PROVE  /\ Insert(q, n, e) \in Seq(Entries)
         /\ Sorted(Insert(q, n, e))
         /\ Ids(Insert(q, n, e)) = Ids(q) \union {e.id}
         /\ Distinct(q) /\ e.id \notin Ids(q) => Distinct(Insert(q, n, e))
         /\ \A i \in 1 .. Len(Insert(q, n, e)) :
               \/ Insert(q, n, e)[i] = e
               \/ \E j \in 1 .. Len(q) : Insert(q, n, e)[i] = q[j]
<1> DEFINE s == Insert(q, n, e)
<1>1. Len(q) \in Nat /\ n \in Nat /\ n <= Len(q) /\ e.prio \in Int
      /\ \A i \in 1 .. Len(q) : q[i] \in Entries /\ q[i].prio \in Int
  BY ElementFacts, EntryFacts
<1>2. s = [j \in 1 .. Len(q) + 1 |->
             IF j <= n THEN q[j] ELSE IF j = n + 1 THEN e ELSE q[j - 1]]
  BY DEF Insert
<1> HIDE DEF s
<1>3. \A j \in 1 .. Len(q) + 1 : s[j] \in Entries
  BY <1>1, <1>2
<1>4. s \in Seq(Entries) /\ Len(s) = Len(q) + 1
  BY <1>1, <1>2, <1>3
<1>5. /\ \A j \in 1 .. n : s[j] = q[j]
      /\ s[n + 1] = e
      /\ \A j \in n + 2 .. Len(q) + 1 : s[j] = q[j - 1] /\ j - 1 \in n + 1 .. Len(q)
  BY <1>1, <1>2
<1>6. Sorted(s)
  <2>0. \A j \in 1 .. Len(q) + 1 : s[j].prio \in Int
    BY <1>3, EntryFacts
  <2> SUFFICES ASSUME NEW i \in 1 .. Len(q) + 1, NEW j \in 1 .. Len(q) + 1, i < j
               PROVE  s[i].prio <= s[j].prio
    <3> SUFFICES ASSUME NEW i \in 1 .. Len(q) + 1, NEW j \in 1 .. Len(q) + 1, i <= j
                 PROVE  s[i].prio <= s[j].prio
      BY <1>4 DEF Sorted
    <3>1. CASE i = j
      BY <2>0, <3>1
    <3>2. CASE i < j
      BY <3>2
    <3> QED
      BY <1>1, <3>1, <3>2
  <2>1. CASE j <= n
    BY <1>1, <1>5, <2>1 DEF Sorted
  <2>2. CASE j = n + 1
    BY <1>1, <1>5, <2>2 DEF Place
  <2>3. CASE j > n + 1 /\ i <= n
    <3>1. i \in 1 .. n /\ i \in 1 .. Len(q) /\ j \in n + 2 .. Len(q) + 1
          /\ j - 1 \in 1 .. Len(q) /\ i <= j - 1
      BY <1>1, <2>3
    <3>2. s[i] = q[i] /\ s[j] = q[j - 1]
      BY <1>5, <3>1
    <3> QED
      BY <3>1, <3>2 DEF Sorted
  <2>4. CASE j > n + 1 /\ i = n + 1
    <3>1. j \in n + 2 .. Len(q) + 1 /\ j - 1 \in n + 1 .. Len(q) /\ j - 1 \in 1 .. Len(q)
      BY <1>1, <2>4
    <3>2. s[i] = e /\ s[j] = q[j - 1]
      BY <1>5, <2>4, <3>1
    <3>3. q[j - 1].prio > e.prio /\ q[j - 1].prio \in Int /\ e.prio \in Int
      BY <1>1, <3>1 DEF Place
    <3> QED
      BY <3>2, <3>3
  <2>5. CASE j > n + 1 /\ i > n + 1
    <3>1. /\ i \in n + 2 .. Len(q) + 1 /\ j \in n + 2 .. Len(q) + 1
          /\ i - 1 \in 1 .. Len(q) /\ j - 1 \in 1 .. Len(q) /\ i - 1 <= j - 1
      BY <1>1, <2>5
    <3>2. s[i] = q[i - 1] /\ s[j] = q[j - 1]
      BY <1>5, <3>1
    <3> QED
      BY <3>1, <3>2 DEF Sorted
  <2> QED
    BY <1>1, <2>1, <2>2, <2>3, <2>4, <2>5
<1>7. \A i \in 1 .. Len(s) : s[i] = e \/ \E j \in 1 .. Len(q) : s[i] = q[j]
  <2> SUFFICES ASSUME NEW i \in 1 .. Len(q) + 1
               PROVE  s[i] = e \/ \E j \in 1 .. Len(q) : s[i] = q[j]
    BY <1>4
  <2>1. CASE i <= n
    BY <1>1, <1>5, <2>1
  <2>2. CASE i = n + 1
    BY <1>5, <2>2
  <2>3. CASE i > n + 1
    <3>0. i \in n + 2 .. Len(q) + 1 /\ i - 1 \in 1 .. Len(q)
      BY <1>1, <2>3
    <3>1. i - 1 \in 1 .. Len(q) /\ s[i] = q[i - 1]
      BY <1>5, <3>0
    <3> QED
      BY <3>1
  <2> QED
    BY <1>1, <2>1, <2>2, <2>3
<1>8. Ids(s) = Ids(q) \union {e.id}
  <2>1. Ids(s) \subseteq Ids(q) \union {e.id}
    BY <1>7 DEF Ids
  <2>2. e.id \in Ids(s)
    BY <1>1, <1>4, <1>5 DEF Ids
  <2>3. ASSUME NEW j \in 1 .. Len(q) PROVE q[j].id \in Ids(s)
    <3>1. CASE j <= n
      BY <1>1, <1>4, <1>5, <3>1 DEF Ids
    <3>2. CASE j > n
      <4>1. j + 1 \in 1 .. Len(s) /\ s[j + 1] = q[j]
        BY <1>1, <1>2, <1>4, <3>2
      <4> QED
        BY <4>1 DEF Ids
    <3> QED
      BY <1>1, <3>1, <3>2
  <2> QED
    BY <2>1, <2>2, <2>3 DEF Ids
<1>9. ASSUME Distinct(q), e.id \notin Ids(q) PROVE Distinct(s)
  <2>1. \A j \in 1 .. Len(q) : q[j].id # e.id
    BY <1>9 DEF Ids
  <2> SUFFICES ASSUME NEW i \in 1 .. Len(q) + 1, NEW j \in 1 .. Len(q) + 1, i < j
               PROVE  s[i].id # s[j].id
    BY <1>1, <1>4 DEF Distinct
  <2>2. CASE j <= n
    BY <1>1, <1>5, <1>9, <2>2 DEF Distinct
  <2>3. CASE j = n + 1
    BY <1>1, <1>5, <2>1, <2>3
  <2>4. CASE j > n + 1 /\ i = n + 1
    <3>1. j \in n + 2 .. Len(q) + 1 /\ j - 1 \in 1 .. Len(q)
      BY <1>1, <2>4
    <3>2. s[i] = e /\ s[j] = q[j - 1]
      BY <1>5, <2>4, <3>1
    <3> QED
      BY <2>1, <3>1, <3>2
  <2>5. CASE j > n + 1 /\ i <= n
    <3>1. /\ i \in 1 .. n /\ i \in 1 .. Len(q) /\ j \in n + 2 .. Len(q) + 1
          /\ j - 1 \in 1 .. Len(q) /\ i # j - 1
      BY <1>1, <2>5
    <3>2. s[i] = q[i] /\ s[j] = q[j - 1]
      BY <1>5, <3>1
    <3> QED
      BY <1>9, <3>1, <3>2 DEF Distinct
  <2>6. CASE j > n + 1 /\ i > n + 1
    <3>1. /\ i - 1 \in 1 .. Len(q) /\ j - 1 \in 1 .. Len(q) /\ i - 1 # j - 1
          /\ s[i] = q[i - 1] /\ s[j] = q[j - 1]
      BY <1>1, <1>5, <2>6
    <3> QED
      BY <1>9, <3>1 DEF Distinct
  <2> QED
    BY <1>1, <2>2, <2>3, <2>4, <2>5, <2>6
<1> QED
  BY <1>4, <1>6, <1>7, <1>8, <1>9 DEF s

\* BuildQueue.push keeps the queue sorted and adds exactly the new request.
LEMMA PushFacts ==
  ASSUME NEW q \in Seq(Entries), Sorted(q), NEW e \in Entries
  PROVE  /\ PushEntry(q, e) \in Seq(Entries)
         /\ Sorted(PushEntry(q, e))
         /\ Ids(PushEntry(q, e)) = Ids(q) \union {e.id}
         /\ Distinct(q) /\ e.id \notin Ids(q) => Distinct(PushEntry(q, e))
         /\ \A i \in 1 .. Len(PushEntry(q, e)) :
               \/ PushEntry(q, e)[i] = e
               \/ \E j \in 1 .. Len(q) : PushEntry(q, e)[i] = q[j]
<1> DEFINE n == CHOOSE m \in 0 .. Len(q) :
                  /\ \A j \in 1 .. m : q[j].prio <= e.prio
                  /\ \A j \in m + 1 .. Len(q) : q[j].prio > e.prio
<1>1. e.prio \in Priorities
  BY DEF Entries
<1>2. \E m \in 0 .. Len(q) : Place(q, e.prio, m)
  BY <1>1, PlaceExists
<1>3. n \in 0 .. Len(q) /\ Place(q, e.prio, n)
  BY <1>2 DEF Place
<1>4. PushEntry(q, e) = Insert(q, n, e)
  BY DEF PushEntry
<1> HIDE DEF n
<1> QED
  BY <1>3, <1>4, InsertFacts

\* BuildQueue.pop removes exactly the first request.
LEMMA TailFacts ==
  ASSUME NEW q \in Seq(Entries), q # << >>, Sorted(q), Distinct(q)
  PROVE  /\ Tail(q) \in Seq(Entries) /\ Head(q) \in Entries
         /\ Sorted(Tail(q)) /\ Distinct(Tail(q))
         /\ Ids(q) = Ids(Tail(q)) \union {Head(q).id}
         /\ Head(q).id \notin Ids(Tail(q))
         /\ \A i \in 1 .. Len(Tail(q)) : \E j \in 1 .. Len(q) : Tail(q)[i] = q[j]
<1> DEFINE t == Tail(q)
<1>1. /\ Len(q) \in Nat /\ Len(q) >= 1 /\ t \in Seq(Entries)
      /\ Len(t) = Len(q) - 1 /\ Head(q) = q[1] /\ Head(q) \in Entries
      /\ \A i \in 1 .. Len(t) : t[i] = q[i + 1]
  OBVIOUS
<1> HIDE DEF t
<1>2. \A i \in 1 .. Len(t) : i + 1 \in 1 .. Len(q) /\ i + 1 # 1
  BY <1>1
<1>3. Sorted(t)
  BY <1>1, <1>2 DEF Sorted
<1>4. Distinct(t)
  BY <1>1, <1>2 DEF Distinct
<1>5. Head(q).id \notin Ids(t)
  BY <1>1, <1>2 DEF Ids, Distinct
<1>6. Ids(q) = Ids(t) \union {Head(q).id}
  <2>1. Ids(t) \union {Head(q).id} \subseteq Ids(q)
    BY <1>1, <1>2 DEF Ids
  <2>2. ASSUME NEW j \in 1 .. Len(q) PROVE q[j].id \in Ids(t) \union {Head(q).id}
    <3>1. CASE j = 1
      BY <1>1, <3>1
    <3>2. CASE j # 1
      <4>1. j - 1 \in 1 .. Len(t) /\ t[j - 1] = q[j]
        BY <1>1, <3>2
      <4> QED
        BY <4>1 DEF Ids
    <3> QED
      BY <3>1, <3>2
  <2> QED
    BY <2>1, <2>2 DEF Ids
<1> QED
  BY <1>1, <1>2, <1>3, <1>4, <1>5, <1>6 DEF t

-----------------------------------------------------------------------------

\* A worker has a job exactly while it is building.
Busy ==
  \A w \in Workers : job[w] # NoReq <=> phase[w] \in {"building", "built"}

\* What the invariants say of the queue, in terms of Ids, Sorted and Distinct.
QueueCore ==
  /\ Sorted(queue) /\ Distinct(queue)
  /\ submitted = Ids(queue) \union processing \union Done
  /\ Ids(queue) \intersect processing = {}
  /\ (Ids(queue) \union processing) \intersect Done = {}
  /\ \A i \in 1 .. Len(queue) : queue[i].prio = prio[queue[i].id]

\* The inductive invariant.
QueueInv == QueueTypeOK /\ QueueCore /\ ProcessingHeld /\ Busy

\* The inductive invariant implies the properties of the queue.
LEMMA QueueInvImplies == QueueInv => QueueTypeOK /\ Conserved /\ ProcessingHeld /\ Ordered
<1> SUFFICES ASSUME QueueInv PROVE Conserved /\ Ordered
  BY DEF QueueInv
<1>1. DOMAIN queue = 1 .. Len(queue)
  BY DEF QueueInv, QueueTypeOK
<1>2. Queued = Ids(queue)
  BY <1>1 DEF Queued, Ids
<1> QED
  BY <1>1, <1>2 DEF QueueInv, QueueCore, Conserved, Ordered, Sorted, Distinct

\* The initial state satisfies the invariant.
LEMMA QueueInitInv == QueueInit => QueueInv
<1> SUFFICES ASSUME QueueInit PROVE QueueInv
  OBVIOUS
<1>1. QueueTypeOK
  BY PriorityAssumption DEF QueueInit, QueueTypeOK, Priorities
<1>2. Len(queue) = 0 /\ 1 .. Len(queue) = {}
  BY DEF QueueInit
<1>3. QueueCore
  BY <1>2 DEF QueueInit, QueueCore, Sorted, Distinct, Ids, Done
<1>4. ProcessingHeld /\ Busy
  BY DEF QueueInit, ProcessingHeld, Busy
<1> QED
  BY <1>1, <1>3, <1>4 DEF QueueInv

\* A new request.
LEMMA SubmitInv ==
  ASSUME QueueInv, NEW r \in Requests, NEW p \in Priorities, Submit(r, p)
  PROVE  QueueInv'
<1> DEFINE e == [id |-> r, prio |-> p]
<1>1. e \in Entries /\ e.id = r /\ e.prio = p
  BY DEF Entries
<1> HIDE DEF e
<1>2. /\ r \notin submitted /\ submitted' = submitted \union {r}
      /\ prio' = [prio EXCEPT ![r] = p]
      /\ queue' = PushEntry(queue, e)
      /\ UNCHANGED <<processing, job, phase, stopping, dir, signed>>
  BY DEF Submit, e
<1>3. queue \in Seq(Entries) /\ Sorted(queue) /\ Distinct(queue) /\ r \notin Ids(queue)
  BY <1>2 DEF QueueInv, QueueTypeOK, QueueCore
<1>4. /\ queue' \in Seq(Entries) /\ Sorted(queue') /\ Distinct(queue')
      /\ Ids(queue') = Ids(queue) \union {r}
      /\ \A i \in 1 .. Len(queue') :
            queue'[i] = e \/ \E j \in 1 .. Len(queue) : queue'[i] = queue[j]
  BY <1>1, <1>2, <1>3, PushFacts
<1>5. QueueTypeOK'
  BY <1>2, <1>4 DEF QueueInv, QueueTypeOK
<1>6. Done' = Done
  BY <1>2 DEF Done
<1>7. \A i \in 1 .. Len(queue') : queue'[i].prio = prio'[queue'[i].id]
  <2> TAKE i \in 1 .. Len(queue')
  <2>1. CASE queue'[i] = e
    BY <1>1, <1>2, <2>1 DEF QueueInv, QueueTypeOK
  <2>2. ASSUME NEW j \in 1 .. Len(queue), queue'[i] = queue[j]
        PROVE  queue'[i].prio = prio'[queue'[i].id]
    <3>1. queue[j].id # r /\ queue[j].prio = prio[queue[j].id]
      BY <1>3 DEF QueueInv, QueueCore, Ids
    <3>2. queue[j].id \in Requests
      BY <1>3, ElementFacts
    <3> QED
      BY <1>2, <2>2, <3>1, <3>2 DEF QueueInv, QueueTypeOK
  <2> QED
    BY <1>4, <2>1, <2>2
<1>8. QueueCore'
  BY <1>2, <1>4, <1>6, <1>7 DEF QueueInv, QueueCore
<1>9. ProcessingHeld' /\ Busy'
  BY <1>2 DEF QueueInv, ProcessingHeld, Busy
<1> QED
  BY <1>5, <1>8, <1>9 DEF QueueInv

\* A worker takes the first request.
LEMMA PopInv ==
  ASSUME QueueInv, NEW w \in Workers, Pop(w)
  PROVE  QueueInv'
<1> DEFINE r == Head(queue).id
<1>1. /\ phase[w] = "idle" /\ queue # << >>
      /\ processing' = processing \union {r}
      /\ job' = [job EXCEPT ![w] = r]
      /\ queue' = Tail(queue)
      /\ phase' = [phase EXCEPT ![w] = "building"]
      /\ UNCHANGED <<prio, submitted, stopping, dir, signed>>
  BY DEF Pop
<1>2. queue \in Seq(Entries) /\ Sorted(queue) /\ Distinct(queue)
  BY DEF QueueInv, QueueTypeOK, QueueCore
<1>3. /\ queue' \in Seq(Entries) /\ Head(queue) \in Entries
      /\ Sorted(queue') /\ Distinct(queue')
      /\ Ids(queue) = Ids(queue') \union {r} /\ r \notin Ids(queue')
      /\ \A i \in 1 .. Len(queue') : \E j \in 1 .. Len(queue) : queue'[i] = queue[j]
  BY <1>1, <1>2, TailFacts
<1>4. r \in Requests /\ r # NoReq
  BY <1>3, EntryFacts, NoReqAssumption
<1> HIDE DEF r
<1>6. QueueTypeOK'
  BY <1>1, <1>3, <1>4 DEF QueueInv, QueueTypeOK
<1>7. Done' = Done
  BY <1>1 DEF Done
<1>8. QueueCore'
  BY <1>1, <1>3, <1>7 DEF QueueInv, QueueCore
<1>9. job[w] = NoReq /\ r \notin processing
  BY <1>1, <1>3 DEF QueueInv, QueueCore, Busy
<1>10. ProcessingHeld'
  BY <1>1, <1>4, <1>9 DEF QueueInv, QueueTypeOK, ProcessingHeld
<1>11. Busy'
  BY <1>1, <1>4 DEF QueueInv, QueueTypeOK, Busy
<1> QED
  BY <1>6, <1>8, <1>10, <1>11 DEF QueueInv

\* A failed build goes back to the queue.
LEMMA FailInv ==
  ASSUME QueueInv, NEW w \in Workers, phase[w] \in {"building", "built"},
         Fail(w), Release(w), UNCHANGED <<submitted, stopping, dir, signed>>
  PROVE  QueueInv'
<1> DEFINE r == job[w]  p == Demoted(prio[r])  e == [id |-> r, prio |-> p]
<1>1. r \in Requests /\ r # NoReq /\ r \in processing
  BY DEF QueueInv, QueueTypeOK, Busy, ProcessingHeld
<1>2. p \in Priorities
  BY <1>1, PriorityAssumption DEF QueueInv, QueueTypeOK, Demoted, Priorities
<1>3. e \in Entries /\ e.id = r /\ e.prio = p
  BY <1>1, <1>2 DEF Entries
<1>4. /\ processing' = processing \ {r}
      /\ prio' = [prio EXCEPT ![r] = p]
      /\ queue' = PushEntry(queue, e)
      /\ job' = [job EXCEPT ![w] = NoReq]
      /\ phase' = [phase EXCEPT ![w] = "idle"]
  BY DEF Fail, Release
<1>5. job[w] = r
  OBVIOUS
<1> HIDE DEF r, p, e
<1>6. queue \in Seq(Entries) /\ Sorted(queue) /\ Distinct(queue) /\ r \notin Ids(queue)
  BY <1>1 DEF QueueInv, QueueTypeOK, QueueCore
<1>7. /\ queue' \in Seq(Entries) /\ Sorted(queue') /\ Distinct(queue')
      /\ Ids(queue') = Ids(queue) \union {r}
      /\ \A i \in 1 .. Len(queue') :
            queue'[i] = e \/ \E j \in 1 .. Len(queue) : queue'[i] = queue[j]
  BY <1>3, <1>4, <1>6, PushFacts
<1>8. QueueTypeOK'
  BY <1>2, <1>4, <1>7 DEF QueueInv, QueueTypeOK
<1>9. Done' = Done
  BY DEF Done
<1>10. \A i \in 1 .. Len(queue') : queue'[i].prio = prio'[queue'[i].id]
  <2> TAKE i \in 1 .. Len(queue')
  <2>1. CASE queue'[i] = e
    BY <1>1, <1>3, <1>4, <2>1 DEF QueueInv, QueueTypeOK
  <2>2. ASSUME NEW j \in 1 .. Len(queue), queue'[i] = queue[j]
        PROVE  queue'[i].prio = prio'[queue'[i].id]
    <3>1. queue[j].id # r /\ queue[j].prio = prio[queue[j].id]
      BY <1>6 DEF QueueInv, QueueCore, Ids
    <3>2. queue[j].id \in Requests
      BY <1>6, ElementFacts
    <3> QED
      BY <1>4, <2>2, <3>1, <3>2 DEF QueueInv, QueueTypeOK
  <2> QED
    BY <1>7, <2>1, <2>2
<1>11. QueueCore'
  BY <1>1, <1>4, <1>7, <1>9, <1>10 DEF QueueInv, QueueCore
<1>12. ProcessingHeld'
  BY <1>1, <1>4, <1>5 DEF QueueInv, QueueTypeOK, ProcessingHeld
<1>13. Busy'
  BY <1>4 DEF QueueInv, QueueTypeOK, Busy
<1> QED
  BY <1>8, <1>11, <1>12, <1>13 DEF QueueInv

\* A build is signed and complete.
LEMMA FinishInv ==
  ASSUME QueueInv, NEW w \in Workers, Finish(w)
  PROVE  QueueInv'
<1> DEFINE r == job[w]
<1>1. r \in Requests /\ r # NoReq /\ r \in processing
  BY DEF Finish, QueueInv, QueueTypeOK, Busy, ProcessingHeld
<1>2. PICK f \in dir \intersect GlobOf[r] : signed' = [signed EXCEPT ![r] = f]
  BY DEF Finish
<1>3. f \in Wheels /\ f # NoWheel
  BY <1>2, WheelAssumption DEF QueueInv, QueueTypeOK
<1>4. /\ processing' = processing \ {r}
      /\ job' = [job EXCEPT ![w] = NoReq]
      /\ phase' = [phase EXCEPT ![w] = "idle"]
      /\ UNCHANGED <<queue, prio, submitted, stopping, dir>>
  BY DEF Finish, Release
<1>5. job[w] = r
  OBVIOUS
<1> HIDE DEF r
<1>6. QueueTypeOK'
  BY <1>1, <1>2, <1>3, <1>4 DEF QueueInv, QueueTypeOK
<1>7. Done' = Done \union {r}
  BY <1>1, <1>2, <1>3 DEF Done, QueueInv, QueueTypeOK
<1>8. QueueCore'
  BY <1>1, <1>4, <1>7 DEF QueueInv, QueueCore
<1>9. ProcessingHeld'
  BY <1>1, <1>4, <1>5 DEF QueueInv, QueueTypeOK, ProcessingHeld
<1>10. Busy'
  BY <1>4 DEF QueueInv, QueueTypeOK, Busy
<1> QED
  BY <1>6, <1>8, <1>9, <1>10 DEF QueueInv

\* The steps that leave the queue and the jobs alone.
LEMMA QuietInv ==
  ASSUME QueueInv, NEW w \in Workers,
         Emit(w) \/ CompileEmpty(w) \/ Stop(w) \/ Leave(w)
  PROVE  QueueInv'
<1>1. /\ UNCHANGED <<queue, processing, prio, submitted, job, signed>>
      /\ \/ phase' = phase
         \/ phase' = [phase EXCEPT ![w] = "built"] /\ phase[w] = "building"
         \/ phase' = [phase EXCEPT ![w] = "stopped"] /\ phase[w] = "idle"
      /\ dir' \subseteq dir \union {WheelOf[job[w]]}
      /\ dir' # dir => phase[w] = "building"
      /\ stopping' \subseteq Workers
  BY DEF Emit, CompileEmpty, Stop, Leave, QueueInv, QueueTypeOK
<1>2. dir' \subseteq Wheels
  BY <1>1, WheelAssumption DEF QueueInv, QueueTypeOK, Busy
<1>3. QueueTypeOK'
  BY <1>1, <1>2 DEF QueueInv, QueueTypeOK
<1>4. QueueCore' /\ ProcessingHeld'
  BY <1>1 DEF QueueInv, QueueCore, ProcessingHeld, Done
<1>5. Busy'
  BY <1>1 DEF QueueInv, QueueTypeOK, Busy
<1> QED
  BY <1>3, <1>4, <1>5 DEF QueueInv

\* Every step preserves the invariant.
LEMMA QueueNextInv == QueueInv /\ [QueueNext]_queueVars => QueueInv'
<1> SUFFICES ASSUME QueueInv, [QueueNext]_queueVars PROVE QueueInv'
  OBVIOUS
<1>1. ASSUME NEW r \in Requests, NEW p \in Priorities, Submit(r, p) PROVE QueueInv'
  BY <1>1, SubmitInv
<1>2. ASSUME NEW w \in Workers, WorkerStep(w) \/ Stop(w) PROVE QueueInv'
  <2>1. CASE CompileFail(w) \/ ScanFail(w)
    BY <2>1, FailInv DEF CompileFail, ScanFail
  <2>2. CASE Pop(w)
    BY <2>2, PopInv
  <2>3. CASE Finish(w)
    BY <2>3, FinishInv
  <2>4. CASE Emit(w) \/ CompileEmpty(w) \/ Stop(w) \/ Leave(w)
    BY <2>4, QuietInv
  <2> QED
    BY <1>2, <2>1, <2>2, <2>3, <2>4 DEF WorkerStep
<1>3. CASE UNCHANGED queueVars
  BY <1>3 DEF queueVars, QueueInv, QueueTypeOK, QueueCore, ProcessingHeld, Busy, Done
<1> QED
  BY <1>1, <1>2, <1>3 DEF QueueNext

\* Every variable of the build farm keeps its type.
THEOREM QueueTypeCorrect == QueueSafety => []QueueTypeOK
BY QueueInitInv, QueueNextInv, QueueInvImplies, PTL DEF QueueSafety

\* No request is lost or doubled by push, pop, complete and fail.
THEOREM QueueConserves == QueueSafety => []Conserved
BY QueueInitInv, QueueNextInv, QueueInvImplies, PTL DEF QueueSafety

\* The processing table is what the workers hold, each request once.
THEOREM QueueProcessingHeld == QueueSafety => []ProcessingHeld
BY QueueInitInv, QueueNextInv, QueueInvImplies, PTL DEF QueueSafety

\* The queue stays sorted by the priorities the requests have now.
THEOREM QueueOrdered == QueueSafety => []Ordered
BY QueueInitInv, QueueNextInv, QueueInvImplies, PTL DEF QueueSafety

\* For any number of requests and workers a request is never lost, doubled, or built by two
\* workers at once, and the queue is in order, through push, pop, complete, fail and the stopping of workers.
THEOREM QueueRequestsKept == QueueSafety => []RequestsKept
BY QueueTypeCorrect, QueueConserves, QueueProcessingHeld, QueueOrdered, PTL DEF RequestsKept

-----------------------------------------------------------------------------
(* The farm implements the board.                                          *)

\* An entry that is inserted at its place is behind its equals, and nobody is behind it.
LEMMA InsertAhead ==
  ASSUME NEW q \in Seq(Entries), NEW e \in Entries, NEW n \in 0 .. Len(q), Place(q, e.prio, n), NEW a, NEW b
  PROVE  AheadOf(Insert(q, n, e), a, b) <=>
           AheadOf(q, a, b) \/ (b = e.id /\ \E i \in DOMAIN q : q[i].id = a /\ q[i].prio = e.prio)
<1>1. /\ Len(q) \in Nat /\ n \in Nat /\ n <= Len(q) /\ e.prio \in Int /\ DOMAIN q = 1 .. Len(q)
      /\ \A i \in 1 .. Len(q) : q[i].prio \in Int
  BY ElementFacts, EntryFacts
<1>2. PICK s : s = Insert(q, n, e)
  OBVIOUS
<1>3. DOMAIN s = 1 .. Len(q) + 1
  BY <1>2 DEF Insert
<1>4. /\ \A j \in 1 .. n : s[j] = q[j]
      /\ s[n + 1] = e
      /\ \A j \in n + 2 .. Len(q) + 1 : s[j] = q[j - 1] /\ j - 1 \in n + 1 .. Len(q)
      /\ \A j \in n + 1 .. Len(q) : s[j + 1] = q[j]
  BY <1>1, <1>2 DEF Insert
<1>5. /\ \A j \in 1 .. n : q[j].prio <= e.prio
      /\ \A j \in n + 1 .. Len(q) : q[j].prio > e.prio
  BY DEF Place
<1>6. ASSUME AheadOf(q, a, b) PROVE AheadOf(s, a, b)
  <2>1. PICK i \in DOMAIN q, j \in DOMAIN q : i < j /\ q[i].prio = q[j].prio /\ q[i].id = a /\ q[j].id = b
    BY <1>6 DEF AheadOf
  <2>2. PICK k \in DOMAIN s : s[k] = q[i] /\ k = IF i <= n THEN i ELSE i + 1
    BY <1>1, <1>3, <1>4, <2>1
  <2>3. PICK l \in DOMAIN s : s[l] = q[j] /\ l = IF j <= n THEN j ELSE j + 1
    BY <1>1, <1>3, <1>4, <2>1
  <2>4. k < l
    BY <1>1, <2>1, <2>2, <2>3
  <2> QED BY <2>1, <2>2, <2>3, <2>4 DEF AheadOf
<1>7. ASSUME NEW i \in DOMAIN q, q[i].id = a, q[i].prio = e.prio, b = e.id PROVE AheadOf(s, a, b)
  <2>1. i <= n
    BY <1>1, <1>5, <1>7
  <2>2. i \in DOMAIN s /\ n + 1 \in DOMAIN s /\ i < n + 1 /\ s[i] = q[i] /\ s[n + 1] = e
    BY <1>1, <1>3, <1>4, <2>1
  <2> QED BY <1>7, <2>2 DEF AheadOf
<1>8. ASSUME AheadOf(s, a, b)
      PROVE  AheadOf(q, a, b) \/ (b = e.id /\ \E i \in DOMAIN q : q[i].id = a /\ q[i].prio = e.prio)
  <2>1. PICK i \in DOMAIN s, j \in DOMAIN s : i < j /\ s[i].prio = s[j].prio /\ s[i].id = a /\ s[j].id = b
    BY <1>8 DEF AheadOf
  <2>2. CASE j = n + 1
    <3>1. i \in DOMAIN q /\ s[i] = q[i] /\ s[j] = e
      BY <1>1, <1>3, <1>4, <2>1, <2>2
    <3> QED BY <2>1, <3>1
  <2>3. CASE i = n + 1
    <3>1. s[i] = e /\ s[j] = q[j - 1] /\ j - 1 \in n + 1 .. Len(q) /\ j - 1 \in 1 .. Len(q)
      BY <1>1, <1>3, <1>4, <2>1, <2>3
    <3>2. q[j - 1].prio > e.prio /\ q[j - 1].prio \in Int
      BY <1>1, <1>5, <3>1
    <3> QED BY <1>1, <2>1, <3>1, <3>2
  <2>4. CASE i # n + 1 /\ j # n + 1
    <3>1. PICK k \in DOMAIN q : s[i] = q[k] /\ k = IF i <= n THEN i ELSE i - 1
      BY <1>1, <1>3, <1>4, <2>1, <2>4
    <3>2. PICK l \in DOMAIN q : s[j] = q[l] /\ l = IF j <= n THEN j ELSE j - 1
      BY <1>1, <1>3, <1>4, <2>1, <2>4
    <3>3. k < l
      BY <1>1, <1>3, <2>1, <2>4, <3>1, <3>2
    <3> QED BY <2>1, <3>1, <3>2, <3>3 DEF AheadOf
  <2> QED BY <2>2, <2>3, <2>4
<1> QED BY <1>2, <1>6, <1>7, <1>8

\* BuildQueue.push files a request behind its equals.
LEMMA PushAhead ==
  ASSUME NEW q \in Seq(Entries), Sorted(q), NEW e \in Entries
  PROVE  \A a, b : AheadOf(PushEntry(q, e), a, b) <=>
           AheadOf(q, a, b) \/ (b = e.id /\ \E i \in DOMAIN q : q[i].id = a /\ q[i].prio = e.prio)
<1> DEFINE n == CHOOSE m \in 0 .. Len(q) :
                  /\ \A j \in 1 .. m : q[j].prio <= e.prio
                  /\ \A j \in m + 1 .. Len(q) : q[j].prio > e.prio
<1>1. e.prio \in Priorities
  BY DEF Entries
<1>2. \E m \in 0 .. Len(q) : Place(q, e.prio, m)
  BY <1>1, PlaceExists
<1>3. n \in 0 .. Len(q) /\ Place(q, e.prio, n)
  BY <1>2 DEF Place
<1>4. PushEntry(q, e) = Insert(q, n, e)
  BY DEF PushEntry
<1> HIDE DEF n
<1> QED
  BY <1>3, <1>4, InsertAhead

\* BuildQueue.pop takes the request that nobody is ahead of.
LEMMA TailAhead ==
  ASSUME NEW q \in Seq(Entries), q # << >>, Sorted(q), Distinct(q)
  PROVE  /\ \A a, b : AheadOf(Tail(q), a, b) <=> AheadOf(q, a, b) /\ a # Head(q).id
         /\ \A a : ~AheadOf(q, a, Head(q).id)
         /\ \A i \in 1 .. Len(q) : Head(q).prio <= q[i].prio
<1>1. /\ Len(q) \in Nat /\ Len(q) >= 1 /\ DOMAIN q = 1 .. Len(q) /\ Head(q) = q[1]
      /\ DOMAIN Tail(q) = 1 .. Len(q) - 1 /\ \A i \in DOMAIN Tail(q) : Tail(q)[i] = q[i + 1]
  OBVIOUS
<1>2. PICK t : t = Tail(q)
  OBVIOUS
<1>3. DOMAIN t = 1 .. Len(q) - 1 /\ \A i \in DOMAIN t : t[i] = q[i + 1] /\ i + 1 \in DOMAIN q /\ i + 1 # 1
  BY <1>1, <1>2
<1>4. \A i \in DOMAIN q : q[i].id = Head(q).id => i = 1
  BY <1>1 DEF Distinct
<1>5. ASSUME NEW a, NEW b, AheadOf(t, a, b) PROVE AheadOf(q, a, b) /\ a # Head(q).id
  <2>1. PICK i \in DOMAIN t, j \in DOMAIN t : i < j /\ t[i].prio = t[j].prio /\ t[i].id = a /\ t[j].id = b
    BY <1>5 DEF AheadOf
  <2>2. i + 1 \in DOMAIN q /\ j + 1 \in DOMAIN q /\ i + 1 < j + 1 /\ i + 1 # 1 /\ t[i] = q[i + 1] /\ t[j] = q[j + 1]
    BY <1>3, <2>1
  <2> QED BY <1>4, <2>1, <2>2 DEF AheadOf
<1>6. ASSUME NEW a, NEW b, AheadOf(q, a, b), a # Head(q).id PROVE AheadOf(t, a, b)
  <2>1. PICK i \in DOMAIN q, j \in DOMAIN q : i < j /\ q[i].prio = q[j].prio /\ q[i].id = a /\ q[j].id = b
    BY <1>6 DEF AheadOf
  <2>2. i # 1
    BY <1>1, <1>6, <2>1
  <2>3. /\ i - 1 \in DOMAIN t /\ j - 1 \in DOMAIN t /\ i - 1 < j - 1 /\ (i - 1) + 1 = i /\ (j - 1) + 1 = j
    BY <1>1, <1>3, <2>1, <2>2
  <2>4. t[i - 1] = q[i] /\ t[j - 1] = q[j]
    BY <1>3, <2>3
  <2> QED BY <2>1, <2>3, <2>4 DEF AheadOf
<1>7. ASSUME NEW a, AheadOf(q, a, Head(q).id) PROVE FALSE
  <2>1. PICK i \in DOMAIN q, j \in DOMAIN q : i < j /\ q[j].id = Head(q).id
    BY <1>7 DEF AheadOf
  <2> QED BY <1>1, <1>4, <2>1
<1>8. \A i \in 1 .. Len(q) : Head(q).prio <= q[i].prio
  BY <1>1 DEF Sorted
<1> QED BY <1>2, <1>5, <1>6, <1>7, <1>8

\* Where a request is, before a step.
LEMMA StageNow ==
  ASSUME QueueInv, NEW r \in Requests
  PROVE  /\ StageOf[r] = "new" <=> r \notin submitted
         /\ StageOf[r] = "waiting" <=> r \in Ids(queue)
         /\ StageOf[r] = "taken" <=> r \in processing
         /\ StageOf[r] = "done" <=> r \in Done
         /\ StageOf[r] \in {"new", "waiting", "taken", "done"}
<1>1. Queued = Ids(queue)
  BY DEF QueueInv, QueueTypeOK, Queued, Ids
<1>2. /\ r \in submitted <=> r \in Ids(queue) \/ r \in processing \/ r \in Done
      /\ ~(r \in Ids(queue) /\ r \in processing) /\ ~(r \in Ids(queue) /\ r \in Done) /\ ~(r \in processing /\ r \in Done)
  BY DEF QueueInv, QueueCore
<1>3. StageOf[r] = CASE r \notin submitted -> "new" [] r \in Ids(queue) -> "waiting"
                     [] r \in processing -> "taken" [] OTHER -> "done"
  BY <1>1 DEF StageOf
<1>4. CASE r \notin submitted
  BY <1>2, <1>3, <1>4
<1>5. CASE r \in Ids(queue)
  BY <1>2, <1>3, <1>5
<1>6. CASE r \in processing
  BY <1>2, <1>3, <1>6
<1>7. CASE r \in Done
  BY <1>2, <1>3, <1>7
<1> QED BY <1>2, <1>4, <1>5, <1>6, <1>7

\* Where a request is, after a step.
LEMMA StageNext ==
  ASSUME QueueInv', NEW r \in Requests
  PROVE  /\ r \notin submitted' => StageOf'[r] = "new"
         /\ r \in Ids(queue') => StageOf'[r] = "waiting"
         /\ r \in processing' => StageOf'[r] = "taken"
         /\ r \in Done' => StageOf'[r] = "done"
<1>1. Queued' = Ids(queue')
  BY DEF QueueInv, QueueTypeOK, Queued, Ids
<1>2. /\ r \in submitted' <=> r \in Ids(queue') \/ r \in processing' \/ r \in Done'
      /\ ~(r \in Ids(queue') /\ r \in processing') /\ ~(r \in Ids(queue') /\ r \in Done') /\ ~(r \in processing' /\ r \in Done')
  BY DEF QueueInv, QueueCore
<1>3. StageOf'[r] = CASE r \notin submitted' -> "new" [] r \in Ids(queue') -> "waiting"
                     [] r \in processing' -> "taken" [] OTHER -> "done"
  BY <1>1 DEF StageOf
<1>4. CASE r \notin submitted'
  BY <1>2, <1>3, <1>4
<1>5. CASE r \in Ids(queue')
  BY <1>2, <1>3, <1>5
<1>6. CASE r \in processing'
  BY <1>2, <1>3, <1>6
<1>7. CASE r \in Done'
  BY <1>2, <1>3, <1>7
<1> QED BY <1>2, <1>4, <1>5, <1>6, <1>7

\* The stage of one request changes.
LEMMA OneStage ==
  ASSUME NEW r \in Requests, NEW g, StageOf'[r] = g, \A x \in Requests \ {r} : StageOf'[x] = StageOf[x]
  PROVE  StageOf' = [StageOf EXCEPT ![r] = g]
<1>1. StageOf' = [x \in Requests |-> StageOf'[x]] /\ StageOf = [x \in Requests |-> StageOf[x]]
  BY DEF StageOf
<1> QED BY <1>1

\* A step of the board, or one that leaves it alone.
BoardStep == [Board!BoardNext]_(Board!boardVars)

\* A request that is not waiting is pushed: it is filed on the board.
LEMMA PushFiles ==
  ASSUME QueueInv, QueueInv', NEW r \in Requests, NEW p \in Priorities, r \notin Ids(queue),
         queue' = PushEntry(queue, [id |-> r, prio |-> p]), prio' = [prio EXCEPT ![r] = p],
         \A x \in Requests \ {r} : (x \in processing' <=> x \in processing) /\ (x \in submitted' <=> x \in submitted),
         UNCHANGED signed
  PROVE  Board!File(r, p)
<1>0. PICK e \in Entries : e = [id |-> r, prio |-> p] /\ e.id = r /\ e.prio = p
  BY DEF Entries
<1>1. queue \in Seq(Entries) /\ Sorted(queue) /\ DOMAIN queue = 1 .. Len(queue)
  BY DEF QueueInv, QueueTypeOK, QueueCore
<1>2. Ids(queue') = Ids(queue) \union {r}
  BY <1>0, <1>1, PushFacts
<1>3. \A a, b : AheadOf(queue', a, b) <=>
         AheadOf(queue, a, b) \/ (b = r /\ \E i \in DOMAIN queue : queue[i].id = a /\ queue[i].prio = p)
  BY <1>0, <1>1, PushAhead
<1>4. Done' = Done
  BY DEF Done
<1>5. StageOf'[r] = "waiting"
  BY <1>2, StageNext
<1>6. ASSUME NEW x \in Requests \ {r} PROVE StageOf'[x] = StageOf[x]
  <2>1. x \in Ids(queue') <=> x \in Ids(queue)
    BY <1>2
  <2>2. \/ x \notin submitted \/ x \in Ids(queue) \/ x \in processing \/ x \in Done
    BY DEF QueueInv, QueueCore
  <2> QED BY <1>4, <2>1, <2>2, StageNow, StageNext
<1>7. StageOf' = [StageOf EXCEPT ![r] = "waiting"]
  BY <1>5, <1>6, OneStage
<1>8. \A a \in Requests : (\E i \in DOMAIN queue : queue[i].id = a /\ queue[i].prio = p) <=>
                          a \in Board!Waiting /\ prio[a] = p
  <2>1. \A i \in DOMAIN queue : queue[i].prio = prio[queue[i].id]
    BY <1>1 DEF QueueInv, QueueCore
  <2>2. \A a \in Requests : a \in Ids(queue) <=> \E i \in DOMAIN queue : queue[i].id = a
    BY <1>1 DEF Ids
  <2>3. \A a \in Requests : a \in Board!Waiting <=> a \in Ids(queue)
    BY StageNow DEF Board!Waiting
  <2> QED BY <2>1, <2>2, <2>3
<1>9. EarlierOf' = EarlierOf \union {<<a, r>> : a \in {b \in Board!Waiting : prio[b] = p}}
  <2>0. Board!Waiting \subseteq Requests
    BY DEF Board!Waiting
  <2>1. ASSUME NEW a \in Requests, NEW b \in Requests
        PROVE  AheadOf(queue', a, b) <=> AheadOf(queue, a, b) \/ (b = r /\ a \in Board!Waiting /\ prio[a] = p)
    BY <1>3, <1>8
  <2>2. EarlierOf' = {pair \in Requests \X Requests : AheadOf(queue', pair[1], pair[2])}
    BY DEF EarlierOf
  <2> HIDE DEF Board!Waiting
  <2>3. ASSUME NEW a \in Requests, NEW b \in Requests
        PROVE  <<a, b>> \in EarlierOf' <=>
               <<a, b>> \in EarlierOf \union {<<x, r>> : x \in {y \in Board!Waiting : prio[y] = p}}
    BY <2>1, <2>2 DEF EarlierOf
  <2>4. EarlierOf' \subseteq Requests \X Requests
        /\ EarlierOf \union {<<x, r>> : x \in {y \in Board!Waiting : prio[y] = p}} \subseteq Requests \X Requests
    BY <2>0, <2>2 DEF EarlierOf
  <2> QED BY <2>3, <2>4
<1> QED BY <1>7, <1>9 DEF Board!File

\* A new request enters the board.
LEMMA SubmitBoard ==
  ASSUME QueueInv, QueueInv', NEW r \in Requests, NEW p \in Priorities, Submit(r, p)
  PROVE  BoardStep
<1>1. /\ r \notin submitted /\ submitted' = submitted \union {r} /\ prio' = [prio EXCEPT ![r] = p]
      /\ queue' = PushEntry(queue, [id |-> r, prio |-> p]) /\ UNCHANGED <<processing, signed>>
  BY DEF Submit
<1>2. r \notin Ids(queue) /\ StageOf[r] = "new"
  BY <1>1, StageNow DEF QueueInv, QueueCore
<1>3. Board!File(r, p)
  BY <1>1, <1>2, PushFiles
<1>4. Board!Enter(r)
  BY <1>2, <1>3 DEF Board!Enter, Priorities
<1> QED BY <1>4 DEF BoardStep, Board!BoardNext

\* A failed build is put back on the board.
LEMMA FailBoard ==
  ASSUME QueueInv, QueueInv', NEW w \in Workers, phase[w] \in {"building", "built"},
         Fail(w), UNCHANGED <<submitted, signed>>
  PROVE  BoardStep
<1>1. PICK r \in Requests : r = job[w] /\ r \in processing
  BY DEF QueueInv, QueueTypeOK, Busy, ProcessingHeld
<1>2. prio[r] \in Nat /\ prio[r] <= MaxPriority /\ MaxPriority \in Nat /\ prio[r] >= 1
  BY PriorityAssumption DEF QueueInv, QueueTypeOK, Priorities
<1>3. PICK p \in Priorities : p = Demoted(prio[r]) /\ p = IF prio[r] < MaxPriority THEN prio[r] + 1 ELSE MaxPriority
  BY <1>2 DEF Demoted, Priorities
<1>4. processing' = processing \ {r} /\ prio' = [prio EXCEPT ![r] = p] /\ queue' = PushEntry(queue, [id |-> r, prio |-> p])
  BY <1>1, <1>3 DEF Fail
<1>5. r \notin Ids(queue) /\ StageOf[r] = "taken"
  BY <1>1, StageNow DEF QueueInv, QueueCore
<1>6. Board!File(r, p)
  BY <1>4, <1>5, PushFiles
<1>7. Board!PutBack(r)
  BY <1>3, <1>5, <1>6 DEF Board!PutBack
<1> QED BY <1>7 DEF BoardStep, Board!BoardNext

\* A worker takes the most urgent request.
LEMMA PopBoard ==
  ASSUME QueueInv, QueueInv', NEW w \in Workers, Pop(w)
  PROVE  BoardStep
<1>1. /\ queue \in Seq(Entries) /\ Sorted(queue) /\ Distinct(queue) /\ queue # << >> /\ DOMAIN queue = 1 .. Len(queue)
      /\ \A i \in 1 .. Len(queue) : queue[i].prio = prio[queue[i].id]
  BY DEF QueueInv, QueueTypeOK, QueueCore, Pop
<1>2. PICK r \in Requests : r = Head(queue).id
  BY <1>1, EntryFacts
<1>3. /\ processing' = processing \union {r} /\ queue' = Tail(queue) /\ UNCHANGED <<prio, submitted, signed>>
  BY <1>2 DEF Pop
<1>4. Ids(queue) = Ids(queue') \union {r} /\ r \notin Ids(queue')
  BY <1>1, <1>2, <1>3, TailFacts
<1>5. /\ \A a, b : AheadOf(queue', a, b) <=> AheadOf(queue, a, b) /\ a # r
      /\ \A a : ~AheadOf(queue, a, r)
      /\ \A i \in 1 .. Len(queue) : Head(queue).prio <= queue[i].prio
  BY <1>1, <1>2, <1>3, TailAhead
<1>6. Done' = Done
  BY <1>3 DEF Done
<1>7. StageOf' = [StageOf EXCEPT ![r] = "taken"]
  <2>1. StageOf'[r] = "taken"
    BY <1>3, StageNext
  <2>2. ASSUME NEW x \in Requests \ {r} PROVE StageOf'[x] = StageOf[x]
    <3>1. (x \in Ids(queue') <=> x \in Ids(queue)) /\ (x \in processing' <=> x \in processing)
      BY <1>3, <1>4
    <3>2. \/ x \notin submitted \/ x \in Ids(queue) \/ x \in processing \/ x \in Done
      BY DEF QueueInv, QueueCore
    <3> QED BY <1>3, <1>6, <3>1, <3>2, StageNow, StageNext
  <2> QED BY <2>1, <2>2, OneStage
<1>8. r \in Board!Waiting /\ \A a \in Board!Waiting : prio[r] <= prio[a] /\ <<a, r>> \notin EarlierOf
  <2>1. \A a \in Requests : a \in Board!Waiting <=> a \in Ids(queue)
    BY StageNow DEF Board!Waiting
  <2>2. r \in Board!Waiting
    BY <1>4, <2>1
  <2>3. prio[r] = Head(queue).prio
    BY <1>1, <1>2
  <2>4. ASSUME NEW a \in Board!Waiting PROVE prio[r] <= prio[a] /\ <<a, r>> \notin EarlierOf
    <3>1. a \in Requests
      BY DEF Board!Waiting
    <3>2. PICK i \in 1 .. Len(queue) : queue[i].id = a
      BY <2>1, <2>4, <3>1 DEF Ids
    <3>3. prio[r] <= prio[a]
      BY <1>1, <1>5, <2>3, <3>2
    <3>4. ~AheadOf(queue, a, r)
      BY <1>5
    <3> QED BY <3>3, <3>4 DEF EarlierOf
  <2> QED BY <2>2, <2>4
<1>9. EarlierOf' = {e \in EarlierOf : e[1] # r}
  <2>1. EarlierOf' = {e \in Requests \X Requests : AheadOf(queue', e[1], e[2])}
    BY DEF EarlierOf
  <2> QED BY <1>5, <2>1 DEF EarlierOf
<1>10. Board!Take(r)
  BY <1>3, <1>7, <1>8, <1>9 DEF Board!Take
<1> QED BY <1>10 DEF BoardStep, Board!BoardNext

\* A request is signed and complete.
LEMMA FinishBoard ==
  ASSUME QueueInv, QueueInv', NEW w \in Workers, Finish(w)
  PROVE  BoardStep
<1>1. PICK r \in Requests : r = job[w] /\ r \in processing
  BY DEF QueueInv, QueueTypeOK, Busy, ProcessingHeld, Finish
<1>2. PICK f \in dir \intersect GlobOf[r] : signed' = [signed EXCEPT ![r] = f]
  BY <1>1 DEF Finish
<1>3. processing' = processing \ {r} /\ UNCHANGED <<queue, prio, submitted>>
  BY <1>1 DEF Finish
<1>4. Done' = Done \union {r}
  <2>1. f # NoWheel
    BY <1>2, WheelAssumption DEF QueueInv, QueueTypeOK
  <2> QED BY <1>2, <2>1 DEF Done, QueueInv, QueueTypeOK
<1>5. StageOf' = [StageOf EXCEPT ![r] = "done"]
  <2>1. StageOf'[r] = "done"
    BY <1>4, StageNext
  <2>2. ASSUME NEW x \in Requests \ {r} PROVE StageOf'[x] = StageOf[x]
    <3>1. \/ x \notin submitted \/ x \in Ids(queue) \/ x \in processing \/ x \in Done
      BY DEF QueueInv, QueueCore
    <3> QED BY <1>3, <1>4, <3>1, StageNow, StageNext
  <2> QED BY <2>1, <2>2, OneStage
<1>6. EarlierOf' = EarlierOf /\ StageOf[r] = "taken"
  BY <1>1, <1>3, StageNow DEF EarlierOf
<1>7. Board!Deliver(r)
  BY <1>3, <1>5, <1>6 DEF Board!Deliver
<1> QED BY <1>7 DEF BoardStep, Board!BoardNext

\* Every step of the farm is a step of the board.
LEMMA QueueBoardStep == QueueInv /\ QueueInv' /\ [QueueNext]_queueVars => BoardStep
<1> SUFFICES ASSUME QueueInv, QueueInv', [QueueNext]_queueVars PROVE BoardStep
  OBVIOUS
<1>1. ASSUME NEW r \in Requests, NEW p \in Priorities, Submit(r, p) PROVE BoardStep
  BY <1>1, SubmitBoard
<1>2. CASE UNCHANGED <<queue, processing, prio, submitted, signed>>
  <2>1. StageOf' = StageOf /\ EarlierOf' = EarlierOf
    BY <1>2 DEF StageOf, EarlierOf, Queued, Done
  <2> QED BY <1>2, <2>1 DEF BoardStep, Board!boardVars
<1>3. ASSUME NEW w \in Workers, WorkerStep(w) \/ Stop(w) PROVE BoardStep
  <2>1. CASE CompileFail(w) \/ ScanFail(w)
    BY <2>1, FailBoard DEF CompileFail, ScanFail
  <2>2. CASE Pop(w)
    BY <2>2, PopBoard
  <2>3. CASE Finish(w)
    BY <2>3, FinishBoard
  <2>4. CASE Emit(w) \/ CompileEmpty(w) \/ Stop(w) \/ Leave(w)
    BY <1>2, <2>4 DEF Emit, CompileEmpty, Stop, Leave
  <2> QED BY <1>3, <2>1, <2>2, <2>3, <2>4 DEF WorkerStep
<1>4. CASE UNCHANGED queueVars
  BY <1>2, <1>4 DEF queueVars
<1> QED BY <1>1, <1>3, <1>4 DEF QueueNext

\* For any number of requests, workers and priorities the queue, its workers and their failures implement the
\* board: a request is new, waiting, taken or done, the most urgent one is taken first, and among equals the one
\* filed first, also after any number of failures and re-queueings.
THEOREM QueueImplementsBoard == QueueSafety => ImplementsBoard
<1>1. QueueInit => Board!BoardInit
  <2> SUFFICES ASSUME QueueInit PROVE Board!BoardInit
    OBVIOUS
  <2>1. DOMAIN queue = {} /\ submitted = {} /\ prio = [r \in Requests |-> 1]
    BY DEF QueueInit
  <2>2. StageOf = [r \in Requests |-> "new"]
    BY <2>1 DEF QueueInit, StageOf, Queued, Done
  <2>3. EarlierOf = {}
    BY <2>1 DEF EarlierOf, AheadOf
  <2> QED BY <2>1, <2>2, <2>3 DEF Board!BoardInit
<1>2. QueueInv /\ QueueInv' /\ [QueueNext]_queueVars => [Board!BoardNext]_(Board!boardVars)
  BY QueueBoardStep DEF BoardStep
<1> QED BY <1>1, <1>2, QueueInitInv, QueueNextInv, PTL DEF QueueSafety, ImplementsBoard, Board!BoardSpec

-----------------------------------------------------------------------------
(* The sandbox.                                                            *)

\* The safety part of the specification.
SandboxSafety == SandboxInit /\ [][SandboxNext]_sandboxVars

\* The commands a worker runs for a job.
DockerCommands == {"run", "kill"} \X Jobs

\* The types of the state.
SandboxTypes ==
  /\ jobAt \in [Jobs -> {"new", "run", "kill", "returned", "cancelled"}]
  /\ work \in Seq(DockerCommands)
  /\ threads \subseteq DockerCommands
  /\ box \in [Jobs -> {"none", "asked", "up", "gone"}]

\* docker run of a job is in one place at most: once in the queue or with a thread.
RunOnce ==
  \A j \in Jobs :
    /\ jobAt[j] \in {"new", "kill", "returned"} =>
         <<"run", j>> \notin threads /\ \A i \in DOMAIN work : work[i] # <<"run", j>>
    /\ <<"run", j>> \in threads => \A i \in DOMAIN work : work[i] # <<"run", j>>
    /\ \A i, k \in DOMAIN work : work[i] = <<"run", j>> /\ work[k] = <<"run", j>> => i = k

\* The inductive invariant of the sandbox.
SandboxInv == SandboxTypes /\ RunOnce /\ NoOrphanContainer

\* What asyncio.to_thread adds to the queue.
LEMMA CommandQueued ==
  ASSUME work \in Seq(DockerCommands), NEW e \in DockerCommands, work' = Append(work, e)
  PROVE  /\ work' \in Seq(DockerCommands)
         /\ DOMAIN work' = DOMAIN work \union {Len(work) + 1} /\ Len(work) + 1 \notin DOMAIN work
         /\ \A i \in DOMAIN work' : work'[i] = IF i \in DOMAIN work THEN work[i] ELSE e
BY AppendedFacts

\* Every step of the sandbox keeps it.
LEMMA SandboxInvStep == SandboxInv /\ [SandboxNext]_sandboxVars => SandboxInv'
<1> SUFFICES ASSUME SandboxInv, [SandboxNext]_sandboxVars PROVE SandboxInv'
  OBVIOUS
<1> USE DEF SandboxInv, SandboxTypes, RunOnce, NoOrphanContainer
<1>a. \A j \in Jobs : <<"run", j>> \in DockerCommands /\ <<"kill", j>> \in DockerCommands
  BY DEF DockerCommands
<1>1. CASE TakeUp
  <2>1. threads' = threads \union {Head(work)} /\ work' = Tail(work) /\ work # << >> /\ UNCHANGED <<jobAt, box, unkilled>>
    BY <1>1 DEF TakeUp
  <2>2. work' \in Seq(DockerCommands) /\ Head(work) = work[1] /\ 1 \in DOMAIN work /\ Head(work) \in DockerCommands
    BY <2>1
  <2>3. \A i \in DOMAIN work' : i + 1 \in DOMAIN work /\ work'[i] = work[i + 1] /\ i + 1 # 1
    BY <2>1
  <2>4. RunOnce'
    <3> SUFFICES ASSUME NEW j \in Jobs
                 PROVE /\ jobAt[j] \in {"new", "kill", "returned"} =>
                            <<"run", j>> \notin threads' /\ \A i \in DOMAIN work' : work'[i] # <<"run", j>>
                       /\ <<"run", j>> \in threads' => \A i \in DOMAIN work' : work'[i] # <<"run", j>>
                       /\ \A i, k \in DOMAIN work' : work'[i] = <<"run", j>> /\ work'[k] = <<"run", j>> => i = k
      BY <2>1
    <3>1. jobAt[j] \in {"new", "kill", "returned"} =>
             <<"run", j>> \notin threads' /\ \A i \in DOMAIN work' : work'[i] # <<"run", j>>
      BY <2>1, <2>2, <2>3
    <3>2. <<"run", j>> \in threads' => \A i \in DOMAIN work' : work'[i] # <<"run", j>>
      BY <2>1, <2>2, <2>3
    <3>3. ASSUME NEW i \in DOMAIN work', NEW k \in DOMAIN work', work'[i] = <<"run", j>>, work'[k] = <<"run", j>>
          PROVE  i = k
      <4>1. i + 1 = k + 1
        BY <2>3, <3>3
      <4>2. i \in Nat /\ k \in Nat
        BY <2>2
      <4> QED BY <4>1, <4>2
    <3> QED BY <3>1, <3>2, <3>3
  <2> QED BY <2>1, <2>2, <2>4
<1>2. ASSUME NEW j \in Jobs, SubmitJob(j) PROVE SandboxInv'
  <2>1. /\ jobAt[j] = "new" /\ jobAt' = [jobAt EXCEPT ![j] = "run"] /\ work' = Append(work, <<"run", j>>)
        /\ UNCHANGED <<threads, box, unkilled>>
    BY <1>2 DEF SubmitJob, Goes, ToThread
  <2>2. /\ work' \in Seq(DockerCommands)
        /\ DOMAIN work' = DOMAIN work \union {Len(work) + 1} /\ Len(work) + 1 \notin DOMAIN work
        /\ \A i \in DOMAIN work' : work'[i] = IF i \in DOMAIN work THEN work[i] ELSE <<"run", j>>
    BY <1>a, <2>1, CommandQueued
  <2>4. SandboxTypes'
    BY <2>1, <2>2
  <2>5. RunOnce'
    <3>1. \A k \in Jobs : <<"run", k>> = <<"run", j>> => k = j
      OBVIOUS
    <3>2. ASSUME NEW k \in Jobs \ {j}
          PROVE  /\ jobAt'[k] = jobAt[k]
                 /\ \A i \in DOMAIN work' : work'[i] = <<"run", k>> => i \in DOMAIN work /\ work[i] = <<"run", k>>
      BY <2>1, <2>2, <3>1
    <3>3. jobAt'[j] = "run" /\ <<"run", j>> \notin threads'
          /\ \A i \in DOMAIN work' : work'[i] = <<"run", j>> => i = Len(work) + 1
      BY <2>1, <2>2
    <3>4. ASSUME NEW k \in Jobs
          PROVE  /\ jobAt'[k] \in {"new", "kill", "returned"} =>
                      <<"run", k>> \notin threads' /\ \A i \in DOMAIN work' : work'[i] # <<"run", k>>
                 /\ <<"run", k>> \in threads' => \A i \in DOMAIN work' : work'[i] # <<"run", k>>
                 /\ \A i, l \in DOMAIN work' : work'[i] = <<"run", k>> /\ work'[l] = <<"run", k>> => i = l
      <4>1. CASE k = j
        BY <3>3, <4>1
      <4>2. CASE k # j
        <5>1. /\ jobAt'[k] = jobAt[k] /\ threads' = threads
              /\ \A i \in DOMAIN work' : work'[i] = <<"run", k>> => i \in DOMAIN work /\ work[i] = <<"run", k>>
          BY <2>1, <3>2, <4>2
        <5> QED BY <5>1
      <4> QED BY <4>1, <4>2
    <3> QED BY <3>4
  <2>6. NoOrphanContainer'
    BY <2>1
  <2> QED BY <2>4, <2>5, <2>6
<1>3. ASSUME NEW j \in Jobs, AskBox(j) \/ StartBox(j) PROVE SandboxInv'
  BY <1>3 DEF AskBox, StartBox
<1>4. ASSUME NEW j \in Jobs, Exit(j) PROVE SandboxInv'
  BY <1>4 DEF Exit
<1>5. ASSUME NEW j \in Jobs, RunEnds(j) PROVE SandboxInv'
  BY <1>5 DEF RunEnds, Free, Goes
<1>6. ASSUME NEW j \in Jobs, KillEnds(j) PROVE SandboxInv'
  <2>1. /\ threads' \subseteq threads /\ UNCHANGED work
        /\ jobAt' = [jobAt EXCEPT ![j] = IF jobAt[j] = "kill" THEN "returned" ELSE jobAt[j]]
    BY <1>6 DEF KillEnds, Free, Goes
  <2>2. \A k \in Jobs : jobAt'[k] \in {"new", "kill", "returned"} => jobAt[k] \in {"new", "kill", "returned"}
    BY <2>1
  <2>3. \/ box' = [box EXCEPT ![j] = "gone"] /\ UNCHANGED unkilled
        \/ unkilled' = unkilled \union {j} /\ UNCHANGED box
    BY <1>6 DEF KillEnds
  <2>4. SandboxTypes' /\ RunOnce'
    BY <2>1, <2>2, <2>3
  <2> QED BY <2>1, <2>3, <2>4
<1>7. ASSUME NEW j \in Jobs, RunTimeout(j) PROVE SandboxInv'
  <2>1. CASE jobAt[j] # "run"
    BY <1>7, <2>1 DEF RunTimeout, Free
  <2>2. CASE jobAt[j] = "run"
    <3>1. /\ jobAt' = [jobAt EXCEPT ![j] = "kill"] /\ work' = Append(work, <<"kill", j>>)
          /\ <<"run", j>> \in threads /\ threads' = threads \ {<<"run", j>>} /\ UNCHANGED <<box, unkilled>>
      BY <1>7, <2>2 DEF RunTimeout, Free, Goes, ToThread
    <3>2. /\ work' \in Seq(DockerCommands)
          /\ DOMAIN work' = DOMAIN work \union {Len(work) + 1}
          /\ \A i \in DOMAIN work' : work'[i] = IF i \in DOMAIN work THEN work[i] ELSE <<"kill", j>>
      BY <1>a, <3>1, CommandQueued
    <3>4. \A k \in Jobs : \A i \in DOMAIN work' : work'[i] = <<"run", k>> => i \in DOMAIN work /\ work[i] = <<"run", k>>
      BY <3>2
    <3>5. RunOnce'
      <4>1. \A k \in Jobs \ {j} : jobAt'[k] = jobAt[k] /\ (<<"run", k>> \in threads' => <<"run", k>> \in threads)
        BY <3>1
      <4>2. <<"run", j>> \notin threads' /\ \A i \in DOMAIN work' : work'[i] # <<"run", j>>
        BY <3>1, <3>4
      <4>3. ASSUME NEW k \in Jobs
            PROVE  /\ jobAt'[k] \in {"new", "kill", "returned"} =>
                        <<"run", k>> \notin threads' /\ \A i \in DOMAIN work' : work'[i] # <<"run", k>>
                   /\ <<"run", k>> \in threads' => \A i \in DOMAIN work' : work'[i] # <<"run", k>>
                   /\ \A i, l \in DOMAIN work' : work'[i] = <<"run", k>> /\ work'[l] = <<"run", k>> => i = l
        <5>1. CASE k = j
          BY <4>2, <5>1
        <5>2. CASE k # j
          BY <3>4, <4>1, <5>2
        <5> QED BY <5>1, <5>2
      <4> QED BY <4>3
    <3> QED BY <2>2, <3>1, <3>2, <3>5
  <2> QED BY <2>1, <2>2
<1>8. ASSUME NEW j \in Jobs, CancelJob(j) PROVE SandboxInv'
  <2>1. jobAt' = [jobAt EXCEPT ![j] = "cancelled"] /\ UNCHANGED <<threads, box, unkilled>> /\ jobAt[j] \in {"run", "kill"}
    BY <1>8 DEF CancelJob, Goes
  <2>2. CASE work' = work
    BY <2>1, <2>2
  <2>3. ASSUME NEW i \in DOMAIN work, work' = SubSeq(work, 1, i - 1) \o SubSeq(work, i + 1, Len(work))
        PROVE  SandboxInv'
    <3>1. work' = Popped(work, i) /\ work' \in Seq(DockerCommands)
      BY <2>3, PoppedFacts DEF Popped
    <3>2. PICK from \in [DOMAIN work' -> DOMAIN work \ {i}] :
             /\ \A k \in DOMAIN work' : work'[k] = work[from[k]]
             /\ \A k, l \in DOMAIN work' : from[k] = from[l] => k = l
      <4> DEFINE q == Popped(work, i)
      <4>1. \E from \in [DOMAIN q -> DOMAIN work \ {i}] :
               /\ \A k \in DOMAIN q : q[k] = work[from[k]]
               /\ \A k, l \in DOMAIN q : from[k] = from[l] => k = l
        BY PoppedFrom
      <4> HIDE DEF q
      <4>2. work' = q
        BY <3>1 DEF q
      <4> QED BY <4>1, <4>2
    <3>3. RunOnce'
      <4>1. \A n \in Jobs : <<"run", n>> \in threads \/ jobAt'[n] \in {"new", "kill", "returned"}
                              => \A k \in DOMAIN work' : work'[k] # <<"run", n>>
        BY <2>1, <3>2
      <4>2. \A n \in Jobs, k, l \in DOMAIN work' : work'[k] = <<"run", n>> /\ work'[l] = <<"run", n>> => k = l
        BY <3>2
      <4>3. \A n \in Jobs : jobAt'[n] \in {"new", "kill", "returned"} => jobAt[n] = jobAt'[n]
        BY <2>1
      <4> QED BY <2>1, <4>1, <4>2, <4>3
    <3> QED BY <2>1, <3>1, <3>3
  <2> QED BY <1>8, <2>2, <2>3 DEF CancelJob
<1>9. CASE UNCHANGED sandboxVars
  BY <1>9 DEF sandboxVars
<1> QED BY <1>1, <1>2, <1>3, <1>4, <1>5, <1>6, <1>7, <1>8, <1>9 DEF SandboxNext, JobStep, AllDone

\* However the timeout, the cancellation and the docker commands of other jobs race for the
\* threads of Sandbox.execute, a job returns with its container ended, or after a docker kill
\* that failed.
THEOREM SandboxJobsContained == SandboxSafety => []NoOrphanContainer
<1>1. SandboxInit => SandboxInv
  BY DEF SandboxInit, SandboxInv, SandboxTypes, RunOnce, NoOrphanContainer
<1>2. SandboxInv => NoOrphanContainer
  BY DEF SandboxInv
<1> QED BY <1>1, <1>2, SandboxInvStep, PTL DEF SandboxSafety
=============================================================================
