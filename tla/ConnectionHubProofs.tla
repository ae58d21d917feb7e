------------------------- MODULE ConnectionHubProofs -------------------------
(***************************************************************************)
(* Proofs that the safety invariants of ConnectionHub hold for every set   *)
(* of devices and sockets and every heartbeat interval.                    *)
(***************************************************************************)
EXTENDS ConnectionHub, TLAPS

\* The old connection a connect is waiting to see closed is still registered,
\* and its socket is closed: this is what makes overwriting the entry safe.
ClosingOld ==
  \A s \in Socks : pc[s] = "closeOld" =>
      /\ conns[dev[s]] # NoSock
      /\ sock[conns[dev[s]]] = "closed"

\* The part of the type invariant the critical sections write.
CoreType ==
  /\ conns \in [Devices -> Socks \union {NoSock}]
  /\ lock \in Tasks \union {NoTask}
  /\ pc \in [Tasks -> HandlerStates \union MessengerStates]
  /\ \A s \in Socks : pc[s] \in HandlerStates
  /\ \A m \in Messengers : pc[m] \in MessengerStates
  /\ dev \in [Tasks -> Devices]
  /\ sock \in [Socks -> {"open", "closed"}]

\* The part of the type invariant they leave alone.
RestType ==
  /\ waiting \in Seq(Tasks)
  /\ age \in [Socks -> 0 .. Limit + 1]
  /\ late \subseteq Socks
  /\ rest \in 0 .. Interval
  /\ todo \in [Messengers -> SUBSET Devices]
  /\ conn \in [Messengers -> Socks \union {NoSock}]

Core == CoreType /\ LockExclusive /\ NoDeadRegistration /\ NoOrphan /\ ClosingOld

\* The inductive invariant.
HubInv == Core /\ RestType

-----------------------------------------------------------------------------

\* The tasks are the handlers and the two messengers, all different.
LEMMA TaskFacts ==
  /\ Tasks = Socks \union {Beat, Send}
  /\ Messengers = {Beat, Send}
  /\ \A s \in Socks : s \in Tasks /\ s \notin Messengers /\ s # NoTask /\ s # NoSock
  /\ \A m \in Messengers : m \in Tasks /\ m \notin Socks /\ m # NoTask
BY SockAssumption, TaskAssumption DEF Tasks, Messengers

\* The limit is a natural number.
LEMMA LimitFacts == Interval \in Nat /\ Interval > 0 /\ Limit \in Nat
BY IntervalAssumption DEF Limit

\* A free lock means that no task is inside a critical section.
LEMMA FreeLock ==
  ASSUME Core, lock = NoTask
  PROVE  \A t \in Tasks : pc[t] \notin {"closeOld", "closePopped"}
BY TaskAssumption DEF Core, LockExclusive, Tasks, Messengers

\* The connect section preserves the invariant.
LEMMA ConnectSectionInv ==
  ASSUME Core, NEW s \in Socks, lock = NoTask, pc[s] \in {"accept", "connect"},
         ConnectSection(s, dev[s]), dev' = dev
  PROVE  Core'
<1> DEFINE d == dev[s]
<1>1. d \in Devices /\ s \in Tasks
  BY TaskFacts DEF Core, CoreType
<1>2. CASE conns[d] = NoSock
  <2>1. /\ conns' = [conns EXCEPT ![d] = s]
        /\ pc' = [pc EXCEPT ![s] = "serve"]
        /\ lock' = NoTask
        /\ sock' = sock
    BY <1>2 DEF ConnectSection
  <2>2. CoreType'
    BY <1>1, <2>1, TaskFacts DEF Core, CoreType, HandlerStates
  <2>3. LockExclusive'
    BY <1>1, <2>1, TaskFacts, FreeLock DEF Core, CoreType, LockExclusive
  <2>4. NoDeadRegistration'
    BY <1>1, <2>1, TaskFacts DEF Core, CoreType, NoDeadRegistration
  <2>5. NoOrphan'
    BY <1>1, <1>2, <2>1, TaskFacts DEF Core, CoreType, NoOrphan
  <2>6. ClosingOld'
    BY <1>1, <2>1, TaskFacts, FreeLock DEF Core, CoreType, ClosingOld
  <2> QED
    BY <2>2, <2>3, <2>4, <2>5, <2>6 DEF Core
<1>3. CASE conns[d] # NoSock
  <2>1. /\ sock' = [sock EXCEPT ![conns[d]] = "closed"]
        /\ pc' = [pc EXCEPT ![s] = "closeOld"]
        /\ lock' = s
        /\ conns' = conns
    BY <1>3 DEF ConnectSection
  <2>a. conns[d] \in Socks /\ pc[conns[d]] \in {"serve", "disconnect"}
    BY <1>1, <1>3 DEF Core, CoreType, NoDeadRegistration
  <2>2. CoreType'
    BY <1>1, <2>1, <2>a, TaskFacts DEF Core, CoreType, HandlerStates
  <2>3. LockExclusive'
    BY <1>1, <2>1, TaskFacts, FreeLock DEF Core, CoreType, LockExclusive
  <2>4. NoDeadRegistration'
    BY <1>1, <2>1, TaskFacts DEF Core, CoreType, NoDeadRegistration
  <2>5. NoOrphan'
    BY <1>1, <2>1, <2>a, TaskFacts DEF Core, CoreType, NoOrphan
  <2>6. ClosingOld'
    BY <1>1, <1>3, <2>1, <2>a, TaskFacts, FreeLock DEF Core, CoreType, ClosingOld
  <2> QED
    BY <2>2, <2>3, <2>4, <2>5, <2>6 DEF Core
<1> QED
  BY <1>2, <1>3

\* The disconnect section preserves the invariant, whichever connection the
\* device id stands for by then.
LEMMA DisconnectSectionInv ==
  ASSUME Core, NEW t \in Tasks, NEW d \in Devices, lock = NoTask,
         t \in Socks => d = dev[t],
         dev' \in [Tasks -> Devices], \A s \in Socks : dev'[s] = dev[s],
         DisconnectSection(t, d)
  PROVE  Core'
<1>1. Return(t) \in {"idle", "round"} /\ (t \in Socks => Return(t) = "idle")
      /\ (t \in Messengers => Return(t) = "round")
  BY TaskFacts DEF Return
<1>2. CASE conns[d] = NoSock
  <2>1. /\ pc' = [pc EXCEPT ![t] = Return(t)]
        /\ lock' = NoTask
        /\ conns' = conns
        /\ sock' = sock
    BY <1>2 DEF DisconnectSection
  <2>2. CoreType'
    BY <1>1, <2>1, TaskFacts DEF Core, CoreType, HandlerStates, MessengerStates
  <2>3. LockExclusive'
    BY <1>1, <2>1, TaskFacts, FreeLock DEF Core, CoreType, LockExclusive
  <2>4. NoDeadRegistration'
    BY <1>1, <1>2, <2>1, TaskFacts DEF Core, CoreType, NoDeadRegistration
  <2>5. NoOrphan'
    BY <1>1, <2>1, TaskFacts DEF Core, CoreType, NoOrphan
  <2>6. ClosingOld'
    BY <1>1, <2>1, TaskFacts, FreeLock DEF Core, CoreType, ClosingOld
  <2> QED
    BY <2>2, <2>3, <2>4, <2>5, <2>6 DEF Core
<1>3. CASE conns[d] # NoSock
  <2>1. /\ conns' = [conns EXCEPT ![d] = NoSock]
        /\ sock' = [sock EXCEPT ![conns[d]] = "closed"]
        /\ pc' = [pc EXCEPT ![t] = "closePopped"]
        /\ lock' = t
    BY <1>3 DEF DisconnectSection
  <2>a. conns[d] \in Socks /\ dev[conns[d]] = d
    BY <1>3 DEF Core, CoreType, NoDeadRegistration
  <2>2. CoreType'
    BY <2>1, <2>a, TaskFacts DEF Core, CoreType, HandlerStates, MessengerStates
  <2>3. LockExclusive'
    BY <2>1, TaskFacts, FreeLock DEF Core, CoreType, LockExclusive
  <2>4. NoDeadRegistration'
    BY <2>1, TaskFacts DEF Core, CoreType, NoDeadRegistration
  <2>5. NoOrphan'
    BY <2>1, <2>a, TaskFacts DEF Core, CoreType, NoOrphan
  <2>6. ClosingOld'
    BY <2>1, TaskFacts, FreeLock DEF Core, CoreType, ClosingOld
  <2> QED
    BY <2>2, <2>3, <2>4, <2>5, <2>6 DEF Core
<1> QED
  BY <1>2, <1>3

\* Queueing for the lock preserves the invariant.
LEMMA QueueInv ==
  ASSUME Core, NEW t \in Tasks,
         NEW k \in {"connect", "disconnect"},
         pc[t] \notin {"closeOld", "closePopped"},
         k = "connect" => t \in Socks /\ pc[t] = "accept",
         dev' \in [Tasks -> Devices], \A s \in Socks : dev'[s] = dev[s],
         pc' = [pc EXCEPT ![t] = k],
         UNCHANGED <<conns, lock, sock>>
  PROVE  Core'
<1>1. CoreType'
  BY TaskFacts DEF Core, CoreType, HandlerStates, MessengerStates
<1>2. LockExclusive'
  BY TaskFacts DEF Core, CoreType, LockExclusive
<1>3. NoDeadRegistration'
  BY TaskFacts DEF Core, CoreType, NoDeadRegistration
<1>4. NoOrphan'
  BY TaskFacts DEF Core, CoreType, NoOrphan
<1>5. ClosingOld'
  BY TaskFacts DEF Core, CoreType, ClosingOld
<1> QED
  BY <1>1, <1>2, <1>3, <1>4, <1>5 DEF Core

\* Asking for the lock to disconnect preserves the invariant.
LEMMA RequestDisconnectInv ==
  ASSUME Core, waiting \in Seq(Tasks), NEW t \in Tasks, NEW d \in Devices,
         pc[t] \notin {"closeOld", "closePopped"},
         t \in Socks => d = dev[t],
         dev' \in [Tasks -> Devices], \A s \in Socks : dev'[s] = dev[s],
         Request(t, d, "disconnect")
  PROVE  Core' /\ waiting' \in Seq(Tasks)
<1>1. CASE lock = NoTask /\ waiting = << >>
  <2>1. DisconnectSection(t, d) /\ waiting' = waiting
    BY <1>1 DEF Request, Section
  <2> QED
    BY <1>1, <2>1, DisconnectSectionInv
<1>2. CASE ~(lock = NoTask /\ waiting = << >>)
  <2>1. /\ waiting' = Append(waiting, t)
        /\ pc' = [pc EXCEPT ![t] = "disconnect"]
        /\ UNCHANGED <<conns, lock, sock>>
    BY <1>2, Zenon DEF Request
  <2>2. Core'
    BY <2>1, QueueInv
  <2> QED
    BY <2>1, <2>2
<1> QED
  BY <1>1, <1>2

\* Asking for the lock to connect preserves the invariant.
LEMMA RequestConnectInv ==
  ASSUME Core, waiting \in Seq(Tasks), NEW s \in Socks, pc[s] = "accept",
         dev' = dev, Request(s, dev[s], "connect")
  PROVE  Core' /\ waiting' \in Seq(Tasks)
<1>0. s \in Tasks /\ dev' \in [Tasks -> Devices]
  BY TaskFacts DEF Core, CoreType
<1>1. CASE lock = NoTask /\ waiting = << >>
  <2>1. ConnectSection(s, dev[s]) /\ waiting' = waiting
    BY <1>1 DEF Request, Section
  <2> QED
    BY <1>1, <2>1, ConnectSectionInv
<1>2. CASE ~(lock = NoTask /\ waiting = << >>)
  <2>1. /\ waiting' = Append(waiting, s)
        /\ pc' = [pc EXCEPT ![s] = "connect"]
        /\ UNCHANGED <<conns, lock, sock>>
    BY <1>2, Zenon DEF Request
  <2>2. Core'
    BY <1>0, <2>1, QueueInv
  <2> QED
    BY <1>0, <2>1, <2>2
<1> QED
  BY <1>1, <1>2

-----------------------------------------------------------------------------

\* The initial state satisfies the invariant.
LEMMA HubInitInv == HubInit => HubInv
<1> SUFFICES ASSUME HubInit PROVE HubInv
  OBVIOUS
<1>1. CoreType
  BY TaskFacts DEF HubInit, CoreType, HandlerStates, MessengerStates
<1>2. LockExclusive /\ NoDeadRegistration /\ NoOrphan /\ ClosingOld
  BY TaskFacts DEF HubInit, LockExclusive, NoDeadRegistration, NoOrphan, ClosingOld
<1>3. RestType
  BY LimitFacts DEF HubInit, RestType
<1> QED
  BY <1>1, <1>2, <1>3 DEF HubInv, Core

\* The tasks that get the lock from the queue preserve the invariant.
LEMMA GrantInv ==
  ASSUME HubInv, NEW t \in Tasks, Grant(t)
  PROVE  HubInv'
<1>1. /\ lock = NoTask /\ waiting # << >> /\ waiting' = Tail(waiting)
      /\ pc[t] \in {"connect", "disconnect"}
      /\ Section(t, dev[t], pc[t])
      /\ UNCHANGED <<dev, age, late, rest, todo, conn>>
  BY DEF Grant
<1>2. RestType'
  BY <1>1 DEF HubInv, RestType
<1>3. dev \in [Tasks -> Devices]
  BY DEF HubInv, Core, CoreType
<1>4. CASE pc[t] = "connect"
  <2>1. t \in Socks
    BY <1>4, TaskFacts DEF HubInv, Core, CoreType, MessengerStates
  <2>2. ConnectSection(t, dev[t])
    BY <1>1, <1>4 DEF Section
  <2>3. Core'
    BY <1>1, <1>4, <2>1, <2>2, ConnectSectionInv DEF HubInv
  <2> QED
    BY <1>2, <2>3 DEF HubInv
<1>5. CASE pc[t] = "disconnect"
  <2>1. DisconnectSection(t, dev[t])
    BY <1>1, <1>5 DEF Section
  <2>2. Core'
    BY <1>1, <1>3, <2>1, DisconnectSectionInv DEF HubInv
  <2> QED
    BY <1>2, <2>2 DEF HubInv
<1> QED
  BY <1>1, <1>4, <1>5

\* The end of a disconnect releases the lock.
LEMMA ClosedInv ==
  ASSUME HubInv, NEW t \in Tasks, Closed(t)
  PROVE  HubInv'
<1>1. /\ pc[t] = "closePopped"
      /\ pc' = [pc EXCEPT ![t] = Return(t)]
      /\ lock' = NoTask
      /\ UNCHANGED <<conns, waiting, dev, sock, age, late, rest, todo, conn>>
  BY DEF Closed
<1>2. /\ t \in Socks => Return(t) = "idle"
      /\ t \in Messengers => Return(t) = "round"
      /\ lock = t
  BY <1>1, TaskFacts DEF Return, HubInv, Core, LockExclusive
<1>3. CoreType'
  BY <1>1, <1>2, TaskFacts DEF HubInv, Core, CoreType, HandlerStates, MessengerStates
<1>4. LockExclusive'
  BY <1>1, <1>2, TaskFacts DEF HubInv, Core, CoreType, LockExclusive
<1>5. NoDeadRegistration'
  BY <1>1, <1>2, TaskFacts DEF HubInv, Core, CoreType, NoDeadRegistration
<1>6. NoOrphan'
  BY <1>1, <1>2, TaskFacts DEF HubInv, Core, CoreType, NoOrphan
<1>7. ClosingOld'
  BY <1>1, <1>2, TaskFacts DEF HubInv, Core, CoreType, ClosingOld
<1>8. RestType'
  BY <1>1 DEF HubInv, RestType
<1> QED
  BY <1>3, <1>4, <1>5, <1>6, <1>7, <1>8 DEF HubInv, Core

\* The registration that follows the close of the old connection: the entry
\* it overwrites is a closed socket, and nobody else is in the section.
LEMMA RegisterInv ==
  ASSUME HubInv, NEW s \in Socks, Register(s)
  PROVE  HubInv'
<1>1. /\ pc[s] = "closeOld"
      /\ conns' = [conns EXCEPT ![dev[s]] = s]
      /\ pc' = [pc EXCEPT ![s] = "serve"]
      /\ lock' = NoTask
      /\ UNCHANGED <<waiting, dev, sock, age, late, rest, todo, conn>>
  BY DEF Register
<1>2. s \in Tasks /\ dev[s] \in Devices /\ lock = s
  BY <1>1, TaskFacts DEF HubInv, Core, CoreType, LockExclusive
<1>3. CoreType'
  BY <1>1, <1>2, TaskFacts DEF HubInv, Core, CoreType, HandlerStates
<1>4. LockExclusive'
  BY <1>1, <1>2, TaskFacts DEF HubInv, Core, CoreType, LockExclusive
<1>5. NoDeadRegistration'
  BY <1>1, <1>2, TaskFacts DEF HubInv, Core, CoreType, NoDeadRegistration
<1>6. NoOrphan'
  <2> SUFFICES ASSUME NEW x \in Socks, x # s, pc[x] = "serve", sock[x] = "open"
               PROVE  dev[x] # dev[s] /\ conns[dev[x]] = x
    BY <1>1, <1>2, TaskFacts DEF HubInv, Core, CoreType, NoOrphan
  <2>1. conns[dev[x]] = x
    BY DEF HubInv, Core, NoOrphan
  <2>2. sock[conns[dev[s]]] = "closed"
    BY <1>1 DEF HubInv, Core, ClosingOld
  <2> QED
    BY <2>1, <2>2
<1>7. ClosingOld'
  BY <1>1, <1>2, TaskFacts DEF HubInv, Core, CoreType, LockExclusive, ClosingOld
<1>8. RestType'
  BY <1>1 DEF HubInv, RestType
<1> QED
  BY <1>3, <1>4, <1>5, <1>6, <1>7, <1>8 DEF HubInv, Core

\* The other steps of a handler.
LEMMA HandlerInv ==
  ASSUME HubInv, NEW s \in Socks,
         AcceptOk(s) \/ AcceptFail(s) \/ EndServe(s)
  PROVE  HubInv'
<1>0. s \in Tasks /\ dev[s] \in Devices /\ dev \in [Tasks -> Devices]
  BY TaskFacts DEF HubInv, Core, CoreType
<1>1. CASE AcceptOk(s)
  <2>1. Core' /\ waiting' \in Seq(Tasks)
    BY <1>1, RequestConnectInv DEF AcceptOk, HubInv, RestType
  <2>2. RestType'
    BY <1>1, <2>1, LimitFacts DEF AcceptOk, HubInv, RestType
  <2> QED
    BY <2>1, <2>2 DEF HubInv
<1>2. CASE AcceptFail(s) \/ EndServe(s)
  <2>1. /\ pc[s] \in {"accept", "serve"}
        /\ Request(s, dev[s], "disconnect")
        /\ UNCHANGED <<dev, age, late, rest, todo, conn>>
    BY <1>2 DEF AcceptFail, EndServe
  <2>2. Core' /\ waiting' \in Seq(Tasks)
    BY <1>0, <2>1, RequestDisconnectInv DEF HubInv, RestType
  <2>3. RestType'
    BY <2>1, <2>2 DEF HubInv, RestType
  <2> QED
    BY <2>2, <2>3 DEF HubInv
<1> QED
  BY <1>1, <1>2

\* What the peers do.
LEMMA PeerInv ==
  ASSUME HubInv, NEW s \in Socks,
         Ack(s) \/ PeerClose(s) \/ \E d \in Devices : Open(s, d)
  PROVE  HubInv'
<1>0. s \in Tasks
  BY TaskFacts
<1>1. CASE Ack(s)
  <2>1. Core'
    BY <1>1 DEF Ack, HubInv, Core, CoreType, LockExclusive, NoDeadRegistration,
                NoOrphan, ClosingOld
  <2>2. RestType'
    BY <1>1, LimitFacts DEF Ack, HubInv, RestType
  <2> QED
    BY <2>1, <2>2 DEF HubInv
<1>2. CASE PeerClose(s)
  <2>1. /\ sock' = [sock EXCEPT ![s] = "closed"]
        /\ UNCHANGED <<conns, lock, waiting, pc, dev, age, late, rest, todo, conn>>
    BY <1>2 DEF PeerClose
  <2>2. CoreType' /\ LockExclusive' /\ NoDeadRegistration' /\ RestType'
    BY <2>1 DEF HubInv, Core, CoreType, LockExclusive, NoDeadRegistration, RestType
  <2>3. NoOrphan' /\ ClosingOld'
    BY <2>1, TaskFacts DEF HubInv, Core, CoreType, NoOrphan, ClosingOld
  <2> QED
    BY <2>2, <2>3 DEF HubInv, Core
<1>3. CASE \E d \in Devices : Open(s, d)
  <2> PICK d \in Devices : Open(s, d)
    BY <1>3
  <2>1. /\ pc[s] = "idle"
        /\ pc' = [pc EXCEPT ![s] = "accept"]
        /\ dev' = [dev EXCEPT ![s] = d]
        /\ sock' = [sock EXCEPT ![s] = "open"]
        /\ age' = [age EXCEPT ![s] = 0]
        /\ UNCHANGED <<conns, lock, waiting, late, rest, todo, conn>>
    BY DEF Open
  <2>2. \A e \in Devices : conns[e] # s
    BY <2>1, TaskFacts DEF HubInv, Core, NoDeadRegistration
  <2>3. CoreType'
    BY <1>0, <2>1, TaskFacts DEF HubInv, Core, CoreType, HandlerStates
  <2>4. LockExclusive'
    BY <1>0, <2>1, TaskFacts DEF HubInv, Core, CoreType, LockExclusive
  <2>5. NoDeadRegistration'
    BY <1>0, <2>1, <2>2, TaskFacts DEF HubInv, Core, CoreType, NoDeadRegistration
  <2>6. NoOrphan'
    BY <1>0, <2>1, TaskFacts DEF HubInv, Core, CoreType, NoOrphan
  <2>7. ClosingOld'
    BY <1>0, <2>1, <2>2, TaskFacts DEF HubInv, Core, CoreType, ClosingOld
  <2>8. RestType'
    BY <2>1, LimitFacts DEF HubInv, RestType
  <2> QED
    BY <2>3, <2>4, <2>5, <2>6, <2>7, <2>8 DEF HubInv, Core
<1> QED
  BY <1>1, <1>2, <1>3

\* A step that moves only a messenger, outside the critical sections,
\* preserves what the critical sections rely on.
LEMMA MessengerMoves ==
  ASSUME Core, NEW m \in Messengers, NEW p \in {"idle", "round", "send"},
         pc[m] \notin {"closePopped"}, pc' = [pc EXCEPT ![m] = p],
         dev' \in [Tasks -> Devices], \A s \in Socks : dev'[s] = dev[s],
         UNCHANGED <<conns, lock, sock>>
  PROVE  Core'
<1>0. m \in Tasks /\ m \notin Socks /\ pc[m] \notin {"closeOld", "closePopped"}
  BY TaskFacts DEF Core, CoreType, MessengerStates
<1>1. CoreType'
  BY <1>0, TaskFacts DEF Core, CoreType, MessengerStates, HandlerStates
<1>2. LockExclusive'
  BY <1>0, TaskFacts DEF Core, CoreType, LockExclusive
<1>3. NoDeadRegistration' /\ NoOrphan' /\ ClosingOld'
  BY <1>0, TaskFacts DEF Core, CoreType, NoDeadRegistration, NoOrphan, ClosingOld
<1> QED
  BY <1>1, <1>2, <1>3 DEF Core

\* The round of a messenger reaches a device.
LEMMA VisitInv ==
  ASSUME HubInv, NEW m \in Messengers, NEW d \in Devices, Visit(m, d)
  PROVE  HubInv'
<1>0. m \in Tasks /\ m \notin Socks
  BY TaskFacts
<1>1. /\ pc[m] = "round"
      /\ todo' = [todo EXCEPT ![m] = @ \ {d}]
      /\ dev' = [dev EXCEPT ![m] = d]
      /\ UNCHANGED <<age, late, rest>>
  BY DEF Visit
<1>2. dev' \in [Tasks -> Devices] /\ \A s \in Socks : dev'[s] = dev[s]
  BY <1>0, <1>1, TaskFacts DEF HubInv, Core, CoreType
<1>3. todo' \in [Messengers -> SUBSET Devices]
  BY <1>1 DEF HubInv, RestType
<1>4. CASE conns[d] = NoSock /\ UNCHANGED <<conns, lock, waiting, pc, sock, conn>>
  <2>1. pc' = [pc EXCEPT ![m] = "round"]
    BY <1>0, <1>1, <1>4 DEF HubInv, Core, CoreType
  <2>2. Core'
    BY <1>1, <1>2, <1>4, <2>1, MessengerMoves DEF HubInv
  <2>3. RestType'
    BY <1>1, <1>3, <1>4 DEF HubInv, RestType
  <2> QED
    BY <2>2, <2>3 DEF HubInv
<1>5. CASE Request(m, d, "disconnect") /\ UNCHANGED conn
  <2>1. Core' /\ waiting' \in Seq(Tasks)
    BY <1>0, <1>1, <1>2, <1>5, RequestDisconnectInv DEF HubInv, RestType
  <2>2. RestType'
    BY <1>1, <1>3, <1>5, <2>1 DEF HubInv, RestType
  <2> QED
    BY <2>1, <2>2 DEF HubInv
<1>6. CASE /\ pc' = [pc EXCEPT ![m] = "send"]
           /\ conn' = [conn EXCEPT ![m] = conns[d]]
           /\ UNCHANGED <<conns, lock, waiting, sock>>
  <2>1. Core'
    BY <1>1, <1>2, <1>6, MessengerMoves DEF HubInv
  <2>2. RestType'
    BY <1>1, <1>3, <1>6 DEF HubInv, RestType, Core, CoreType
  <2> QED
    BY <2>1, <2>2 DEF HubInv
<1> QED
  BY <1>4, <1>5, <1>6, Zenon DEF Visit

\* The other steps of a messenger.
LEMMA MessengerInv ==
  ASSUME HubInv, NEW m \in Messengers,
         SendOk(m) \/ SendFail(m) \/ EndRound(m)
  PROVE  HubInv'
<1>0. /\ m \in Tasks /\ m \notin Socks
      /\ dev \in [Tasks -> Devices] /\ dev[m] \in Devices
  BY TaskFacts DEF HubInv, Core, CoreType
<1>1. CASE SendOk(m)
  <2>1. Core'
    BY <1>0, <1>1, MessengerMoves DEF SendOk, HubInv
  <2>2. RestType'
    BY <1>1 DEF SendOk, HubInv, RestType
  <2> QED
    BY <2>1, <2>2 DEF HubInv
<1>2. CASE SendFail(m)
  <2>1. Core' /\ waiting' \in Seq(Tasks)
    BY <1>0, <1>2, RequestDisconnectInv DEF SendFail, HubInv, RestType
  <2>2. RestType'
    BY <1>2, <2>1 DEF SendFail, HubInv, RestType
  <2> QED
    BY <2>1, <2>2 DEF HubInv
<1>3. CASE EndRound(m)
  <2>1. Core'
    BY <1>0, <1>3, MessengerMoves DEF EndRound, HubInv
  <2>2. RestType'
    BY <1>3, LimitFacts DEF EndRound, HubInv, RestType
  <2> QED
    BY <2>1, <2>2 DEF HubInv
<1> QED
  BY <1>1, <1>2, <1>3

\* Time, and the steps that start a round.
LEMMA TimeInv ==
  ASSUME HubInv, Tick \/ Wake \/ StartSend
  PROVE  HubInv'
<1>0. Beat \in Messengers /\ Send \in Messengers /\ dev \in [Tasks -> Devices]
  BY DEF Messengers, HubInv, Core, CoreType
<1>1. CASE Tick
  <2>1. Core'
    BY <1>1 DEF Tick, HubInv, Core, CoreType, LockExclusive, NoDeadRegistration,
                NoOrphan, ClosingOld
  <2>2. age' \in [Socks -> 0 .. Limit + 1] /\ rest' \in 0 .. Interval
    BY <1>1, LimitFacts DEF Tick, HubInv, RestType
  <2>3. RestType'
    BY <1>1, <2>2 DEF Tick, HubInv, RestType
  <2> QED
    BY <2>1, <2>3 DEF HubInv
<1>2. CASE Wake
  <2>1. Core'
    BY <1>0, <1>2, MessengerMoves DEF Wake, HubInv
  <2>2. late' \subseteq Socks
    BY <1>2 DEF Wake, HubInv, Core, CoreType, Registered
  <2>3. todo' \in [Messengers -> SUBSET Devices]
    BY <1>2 DEF Wake, HubInv, RestType, Registered
  <2>4. RestType'
    BY <1>2, <2>2, <2>3 DEF Wake, HubInv, RestType
  <2> QED
    BY <2>1, <2>4 DEF HubInv
<1>3. CASE StartSend
  <2>1. Core'
    BY <1>0, <1>3, MessengerMoves DEF StartSend, HubInv
  <2>a. PICK targets \in {Registered} \union {{d} : d \in Devices} :
            todo' = [todo EXCEPT ![Send] = targets]
    BY <1>3 DEF StartSend
  <2>b. targets \in SUBSET Devices
    BY <2>a DEF Registered
  <2>2. todo' \in [Messengers -> SUBSET Devices]
    BY <2>a, <2>b DEF HubInv, RestType
  <2>3. RestType'
    BY <1>3, <2>2 DEF StartSend, HubInv, RestType
  <2> QED
    BY <2>1, <2>3 DEF HubInv
<1> QED
  BY <1>1, <1>2, <1>3

\* Every step preserves the invariant.
LEMMA HubNextInv == HubInv /\ [HubNext]_hubVars => HubInv'
<1> SUFFICES ASSUME HubInv, [HubNext]_hubVars PROVE HubInv'
  OBVIOUS
<1>1. CASE Tick \/ Wake \/ StartSend
  BY <1>1, TimeInv
<1>2. ASSUME NEW m \in Messengers, MessengerStep(m) PROVE HubInv'
  <2>1. m \in Tasks
    BY TaskFacts
  <2> QED
    BY <1>2, <2>1, GrantInv, ClosedInv, MessengerInv, VisitInv DEF MessengerStep
<1>3. ASSUME NEW s \in Socks, HandlerStep(s) PROVE HubInv'
  <2>1. s \in Tasks
    BY TaskFacts
  <2> QED
    BY <1>3, <2>1, GrantInv, RegisterInv, ClosedInv, HandlerInv DEF HandlerStep
<1>4. ASSUME NEW s \in Socks, Ack(s) \/ PeerClose(s) \/ \E d \in Devices : Open(s, d)
      PROVE HubInv'
  BY <1>4, PeerInv
<1>5. CASE UNCHANGED hubVars
  BY <1>5 DEF hubVars, HubInv, Core, CoreType, RestType, LockExclusive,
              NoDeadRegistration, NoOrphan, ClosingOld
<1> QED
  BY <1>1, <1>2, <1>3, <1>4, <1>5 DEF HubNext

\* The invariant holds in every reachable state of the hub.
THEOREM HubInvariant == HubSafety => []HubInv
<1> QED
  BY HubInitInv, HubNextInv, PTL DEF HubSafety

\* Every variable of the hub keeps its type.
THEOREM HubTypeCorrect == HubSafety => []TypeOK
<1>1. HubInv => TypeOK
  BY DEF HubInv, Core, CoreType, RestType, TypeOK
<1> QED
  BY <1>1, HubInvariant, PTL

\* The registry never holds a connection whose handler is gone or works for
\* another device (ConnectionHub.connect and disconnect).
THEOREM HubNoDeadRegistration == HubSafety => []NoDeadRegistration
<1>1. HubInv => NoDeadRegistration
  BY DEF HubInv, Core
<1> QED
  BY <1>1, HubInvariant, PTL

\* An open socket in its receive loop is the one registered for its device.
THEOREM HubNoOrphan == HubSafety => []NoOrphan
<1>1. HubInv => NoOrphan
  BY DEF HubInv, Core
<1> QED
  BY <1>1, HubInvariant, PTL

\* The lock is held exactly by the one task that is waiting for a close.
THEOREM HubLockExclusive == HubSafety => []LockExclusive
<1>1. HubInv => LockExclusive
  BY DEF HubInv, Core
<1> QED
  BY <1>1, HubInvariant, PTL

\* Together: at any time the hub's lock has one holder, every registered connection is still
\* being served, and every open connection that is served is registered, for any number of
\* devices, sockets and tasks that wait for the lock.
THEOREM HubIsSafe == HubSafety => []HubSafe
BY HubTypeCorrect, HubNoDeadRegistration, HubNoOrphan, HubLockExclusive, PTL DEF HubSafe
-----------------------------------------------------------------------------
(* The hub implements the registry of live connections.                    *)

\* A step of the registry, or one that leaves it alone.
RegistryStep == [Registry!RegistryNext]_(Registry!registryVars)

\* A step that changes neither which connections are live nor which are
\* coming leaves the registry alone.
LEMMA StutterStep ==
  ASSUME LiveOf' = LiveOf, Coming' = Coming
  PROVE  RegistryStep
BY DEF RegistryStep, Registry!registryVars

\* The four steps of the registry.
LEMMA RegistrySteps ==
  /\ \A s \in Socks : Registry!Arrive(s) => RegistryStep
  /\ \A s \in Socks : Registry!GiveUp(s) => RegistryStep
  /\ \A d \in Devices : Registry!Detach(d) => RegistryStep
  /\ \A d \in Devices, s \in Socks : Registry!Attach(d, s) => RegistryStep
BY DEF RegistryStep, Registry!RegistryNext

\* Registering an accepted socket for a device without a live connection is an
\* Attach when the socket is open, and nothing when its peer has left.
LEMMA RegisterStep ==
  ASSUME Core, NEW s \in Socks, NEW d \in Devices, d = dev[s],
         pc[s] \in {"accept", "connect", "closeOld"}, LiveOf[d] = NoSock,
         conns' = [conns EXCEPT ![d] = s], pc' = [pc EXCEPT ![s] = "serve"], sock' = sock
  PROVE  RegistryStep
<1>1. s \in Tasks /\ s # NoSock
  BY TaskFacts
<1>2. CASE sock[s] = "open"
  <2>1. LiveOf' = [LiveOf EXCEPT ![d] = s]
    BY <1>1, <1>2 DEF LiveOf, Core, CoreType
  <2>2. s \in Coming /\ Coming' = Coming \ {s}
    BY <1>1, <1>2, TaskFacts DEF Coming, Core, CoreType
  <2>3. Registry!Attach(d, s)
    BY <2>1, <2>2 DEF Registry!Attach
  <2> QED
    BY <2>3, RegistrySteps
<1>3. CASE sock[s] # "open"
  <2>1. LiveOf' = LiveOf
    BY <1>1, <1>3 DEF LiveOf, Core, CoreType
  <2>2. Coming' = Coming
    BY <1>1, <1>3, TaskFacts DEF Coming, Core, CoreType
  <2> QED
    BY <2>1, <2>2, StutterStep
<1> QED
  BY <1>2, <1>3

\* Closing the connection registered for a device, whether its entry is kept or
\* dropped, is a Detach when it was open, and nothing otherwise.
LEMMA CloseStep ==
  ASSUME Core, NEW d \in Devices, NEW t \in Tasks, conns[d] # NoSock,
         sock' = [sock EXCEPT ![conns[d]] = "closed"],
         conns' \in {conns, [conns EXCEPT ![d] = NoSock]},
         NEW label, pc' = [pc EXCEPT ![t] = label],
         t \in Socks /\ sock[t] = "open" =>
            (pc[t] \in {"accept", "connect", "closeOld"} <=>
             label \in {"accept", "connect", "closeOld"})
  PROVE  RegistryStep
<1>1. conns[d] \in Socks /\ pc[conns[d]] \in {"serve", "disconnect"} /\ conns[d] \in Tasks
  BY TaskFacts DEF Core, CoreType, NoDeadRegistration
<1>2. \A e \in Devices : e # d => conns[e] # conns[d]
  BY <1>1, SockAssumption DEF Core, CoreType, NoDeadRegistration
<1>3. Coming' = Coming
  <2>1. \A s \in Socks : s # t => pc'[s] = pc[s]
    BY TaskFacts DEF Core, CoreType
  <2>2. \A s \in Socks : s # conns[d] => sock'[s] = sock[s]
    BY <1>1 DEF Core, CoreType
  <2>3. pc'[t] = label /\ sock'[conns[d]] = "closed"
    BY <1>1, TaskFacts DEF Core, CoreType
  <2>4. ASSUME NEW s \in Socks
        PROVE  (sock'[s] = "open" /\ pc'[s] \in {"accept", "connect", "closeOld"})
                 <=> (sock[s] = "open" /\ pc[s] \in {"accept", "connect", "closeOld"})
    BY <1>1, <2>1, <2>2, <2>3
  <2> QED
    BY <2>4 DEF Coming
<1>4. CASE sock[conns[d]] = "open"
  <2>0. /\ \A s \in Socks : sock'[s] = IF s = conns[d] THEN "closed" ELSE sock[s]
        /\ \A e \in Devices : conns'[e] = conns[e] \/ (e = d /\ conns'[e] = NoSock)
        /\ \A e \in Devices : conns[e] \in Socks \union {NoSock}
    BY <1>1 DEF Core, CoreType
  <2>a. \A e \in Devices : LiveOf'[e] = IF e = d THEN NoSock ELSE LiveOf[e]
    BY <1>1, <1>2, <1>4, <2>0 DEF LiveOf
  <2>1. LiveOf' = [LiveOf EXCEPT ![d] = NoSock] /\ LiveOf[d] # NoSock
    BY <1>1, <1>4, <2>a DEF LiveOf
  <2>2. Registry!Detach(d)
    BY <1>3, <2>1 DEF Registry!Detach
  <2> QED
    BY <2>2, RegistrySteps
<1>5. CASE sock[conns[d]] # "open"
  <2>1. LiveOf' = LiveOf
    BY <1>1, <1>2, <1>5 DEF LiveOf, Core, CoreType
  <2> QED
    BY <1>3, <2>1, StutterStep
<1> QED
  BY <1>4, <1>5

\* A step that moves one task without touching a socket or the table, and not
\* across the point of registration, leaves the registry alone.
LEMMA MoveStep ==
  ASSUME Core, NEW t \in Tasks, conns' = conns, sock' = sock,
         NEW label, pc' = [pc EXCEPT ![t] = label],
         t \in Socks /\ sock[t] = "open" =>
            (pc[t] \in {"accept", "connect", "closeOld"} <=>
             label \in {"accept", "connect", "closeOld"})
  PROVE  RegistryStep
<1>1. LiveOf' = LiveOf
  BY DEF LiveOf
<1>2. \A s \in Socks : pc'[s] = IF s = t THEN label ELSE pc[s]
  BY TaskFacts DEF Core, CoreType
<1>3. Coming' = Coming
  BY <1>2 DEF Coming
<1> QED
  BY <1>1, <1>3, StutterStep

\* The connect section.
LEMMA ConnectSectionStep ==
  ASSUME Core, NEW s \in Socks, pc[s] \in {"accept", "connect"}, ConnectSection(s, dev[s])
  PROVE  RegistryStep
<1>1. dev[s] \in Devices /\ s \in Tasks
  BY TaskFacts DEF Core, CoreType
<1>2. CASE conns[dev[s]] = NoSock
  <2>1. LiveOf[dev[s]] = NoSock
    BY <1>1, <1>2 DEF LiveOf
  <2> QED
    BY <1>1, <1>2, <2>1, RegisterStep DEF ConnectSection
<1>3. CASE conns[dev[s]] # NoSock
  <2>1. /\ sock' = [sock EXCEPT ![conns[dev[s]]] = "closed"]
        /\ pc' = [pc EXCEPT ![s] = "closeOld"]
        /\ conns' = conns
    BY <1>3 DEF ConnectSection
  <2> QED
    BY <1>1, <1>3, <2>1, CloseStep
<1> QED
  BY <1>2, <1>3
\* The disconnect section, whoever runs it.
LEMMA DisconnectSectionStep ==
  ASSUME Core, NEW t \in Tasks, NEW d \in Devices, DisconnectSection(t, d),
         t \in Socks /\ sock[t] = "open" => pc[t] \notin {"accept", "connect", "closeOld"}
  PROVE  RegistryStep
<1>1. Return(t) \notin {"accept", "connect", "closeOld"}
  BY DEF Return
<1>2. CASE conns[d] = NoSock
  <2>1. pc' = [pc EXCEPT ![t] = Return(t)] /\ conns' = conns /\ sock' = sock
    BY <1>2 DEF DisconnectSection
  <2> QED
    BY <1>1, <2>1, MoveStep
<1>3. CASE conns[d] # NoSock
  <2>1. /\ conns' = [conns EXCEPT ![d] = NoSock]
        /\ sock' = [sock EXCEPT ![conns[d]] = "closed"]
        /\ pc' = [pc EXCEPT ![t] = "closePopped"]
    BY <1>3 DEF DisconnectSection
  <2> QED
    BY <1>3, <2>1, CloseStep
<1> QED
  BY <1>2, <1>3

\* Asking for the lock, granted at once or not.
LEMMA RequestStep ==
  /\ \A t \in Tasks, d \in Devices :
       Core /\ Request(t, d, "disconnect")
         /\ (t \in Socks /\ sock[t] = "open" => pc[t] \notin {"accept", "connect", "closeOld"})
       => RegistryStep
  /\ \A s \in Socks :
       Core /\ Request(s, dev[s], "connect") /\ pc[s] = "accept" => RegistryStep
<1>1. ASSUME NEW t \in Tasks, NEW d \in Devices, Core, Request(t, d, "disconnect"),
             t \in Socks /\ sock[t] = "open" => pc[t] \notin {"accept", "connect", "closeOld"}
      PROVE  RegistryStep
  <2>1. CASE DisconnectSection(t, d)
    BY <1>1, <2>1, DisconnectSectionStep
  <2>2. CASE pc' = [pc EXCEPT ![t] = "disconnect"] /\ conns' = conns /\ sock' = sock
    BY <1>1, <2>2, MoveStep
  <2> QED
    BY <1>1, <2>1, <2>2 DEF Request, Section
<1>2. ASSUME NEW s \in Socks, Core, Request(s, dev[s], "connect"), pc[s] = "accept"
      PROVE  RegistryStep
  <2>1. CASE ConnectSection(s, dev[s])
    BY <1>2, <2>1, ConnectSectionStep
  <2>2. CASE pc' = [pc EXCEPT ![s] = "connect"] /\ conns' = conns /\ sock' = sock
    BY <1>2, <2>2, MoveStep, TaskFacts
  <2> QED
    BY <1>2, <2>1, <2>2 DEF Request, Section
<1> QED
  BY <1>1, <1>2

\* A peer that leaves takes its connection out of the registry, wherever its
\* handler is.
LEMMA PeerCloseStep ==
  ASSUME Core, NEW s \in Socks, PeerClose(s)
  PROVE  RegistryStep
<1>1. /\ sock[s] = "open" /\ sock' = [sock EXCEPT ![s] = "closed"]
      /\ conns' = conns /\ pc' = pc /\ s # NoSock
  BY TaskFacts DEF PeerClose
<1>2. CASE \E d \in Devices : conns[d] = s
  <2>1. PICK d \in Devices : conns[d] = s
    BY <1>2
  <2>2. pc' = [pc EXCEPT ![s] = pc[s]] /\ s \in Tasks
    BY <1>1, TaskFacts DEF Core, CoreType
  <2> QED
    BY <1>1, <2>1, <2>2, CloseStep
<1>3. CASE \A d \in Devices : conns[d] # s
  <2>1. LiveOf' = LiveOf
    BY <1>1, <1>3 DEF LiveOf, Core, CoreType
  <2>2. CASE s \in Coming
    <3>1. Coming' = Coming \ {s}
      BY <1>1 DEF Coming, Core, CoreType
    <3>2. Registry!GiveUp(s)
      BY <2>1, <2>2, <3>1 DEF Registry!GiveUp
    <3> QED
      BY <3>2, RegistrySteps
  <2>3. CASE s \notin Coming
    <3>1. Coming' = Coming
      BY <1>1, <2>3 DEF Coming, Core, CoreType
    <3> QED
      BY <2>1, <3>1, StutterStep
  <2> QED
    BY <2>2, <2>3
<1> QED
  BY <1>2, <1>3

\* A socket that is opened arrives.
LEMMA OpenStep ==
  ASSUME Core, NEW s \in Socks, NEW d \in Devices, Open(s, d)
  PROVE  RegistryStep
<1>1. /\ pc[s] = "idle" /\ pc' = [pc EXCEPT ![s] = "accept"]
      /\ sock' = [sock EXCEPT ![s] = "open"] /\ conns' = conns /\ s \in Tasks /\ s # NoSock
  BY TaskFacts DEF Open
<1>2. \A e \in Devices : conns[e] # s
  BY <1>1 DEF Core, NoDeadRegistration
<1>3. LiveOf' = LiveOf /\ \A e \in Devices : LiveOf[e] # s
  BY <1>1, <1>2 DEF LiveOf, Core, CoreType
<1>4. s \notin Coming /\ Coming' = Coming \union {s}
  BY <1>1, TaskFacts DEF Coming, Core, CoreType
<1>5. Registry!Arrive(s)
  BY <1>3, <1>4 DEF Registry!Arrive
<1> QED
  BY <1>5, RegistrySteps

\* The end of the close of an old connection registers the new one.
LEMMA RegisterActionStep ==
  ASSUME Core, NEW s \in Socks, Register(s)
  PROVE  RegistryStep
<1>1. dev[s] \in Devices
  BY TaskFacts DEF Core, CoreType
<1>2. pc[s] = "closeOld" /\ LiveOf[dev[s]] = NoSock
  BY <1>1 DEF Register, LiveOf, Core, ClosingOld
<1> QED
  BY <1>1, <1>2, RegisterStep DEF Register

\* Every step of the hub is a step of the registry or leaves it alone.
LEMMA HubNextStep == HubInv /\ [HubNext]_hubVars => RegistryStep
<1> SUFFICES ASSUME HubInv, [HubNext]_hubVars PROVE RegistryStep
  OBVIOUS
<1>0. Core /\ \A t \in Tasks : dev[t] \in Devices
  BY DEF HubInv, Core, CoreType
<1>1. ASSUME NEW t \in Tasks, Grant(t) PROVE RegistryStep
  <2>1. CASE pc[t] = "connect"
    <3>1. t \in Socks
      BY <1>0, <2>1, TaskFacts DEF Core, CoreType, MessengerStates, Tasks, Messengers
    <3> QED
      BY <1>0, <1>1, <2>1, <3>1, ConnectSectionStep DEF Grant, Section
  <2>2. CASE pc[t] = "disconnect"
    BY <1>0, <1>1, <2>2, DisconnectSectionStep DEF Grant, Section
  <2> QED
    BY <1>1, <2>1, <2>2 DEF Grant
<1>2. ASSUME NEW t \in Tasks, Closed(t) PROVE RegistryStep
  <2>1. pc[t] = "closePopped" /\ pc' = [pc EXCEPT ![t] = Return(t)] /\ conns' = conns /\ sock' = sock
    BY <1>2 DEF Closed
  <2>2. Return(t) \notin {"accept", "connect", "closeOld"}
    BY DEF Return
  <2> QED
    BY <1>0, <2>1, <2>2, MoveStep
<1>3. ASSUME NEW s \in Socks, HandlerStep(s) PROVE RegistryStep
  <2>1. s \in Tasks
    BY TaskFacts
  <2>2. CASE AcceptOk(s)
    BY <1>0, <2>2, RequestStep DEF AcceptOk
  <2>3. CASE AcceptFail(s) \/ EndServe(s)
    BY <1>0, <2>1, <2>3, RequestStep DEF AcceptFail, EndServe
  <2> QED
    BY <1>0, <1>1, <1>2, <1>3, <2>1, <2>2, <2>3, RegisterActionStep DEF HandlerStep
<1>4. ASSUME NEW m \in Messengers, MessengerStep(m) PROVE RegistryStep
  <2>1. m \in Tasks /\ m \notin Socks
    BY TaskFacts
  <2>2. CASE SendOk(m) \/ EndRound(m)
    BY <1>0, <2>1, <2>2, MoveStep DEF SendOk, EndRound
  <2>3. CASE SendFail(m)
    BY <1>0, <2>1, <2>3, RequestStep DEF SendFail
  <2>4. ASSUME NEW d \in Devices, Visit(m, d) PROVE RegistryStep
    <3>1. CASE conns' = conns /\ sock' = sock /\ (pc' = pc \/ pc' = [pc EXCEPT ![m] = "send"])
      <4>1. pc' = [pc EXCEPT ![m] = pc[m]] \/ pc' = [pc EXCEPT ![m] = "send"]
        BY <1>0, <3>1 DEF Core, CoreType
      <4> QED
        BY <1>0, <2>1, <3>1, <4>1, MoveStep
    <3>2. CASE Request(m, d, "disconnect")
      BY <1>0, <2>1, <3>2, RequestStep
    <3> QED
      BY <2>4, <3>1, <3>2 DEF Visit
  <2> QED
    BY <1>1, <1>2, <1>4, <2>1, <2>2, <2>3, <2>4 DEF MessengerStep
<1>5. ASSUME NEW s \in Socks, Ack(s) \/ PeerClose(s) \/ \E d \in Devices : Open(s, d)
      PROVE  RegistryStep
  <2>1. CASE Ack(s)
    BY <2>1, StutterStep DEF Ack, LiveOf, Coming
  <2> QED
    BY <1>0, <1>5, <2>1, PeerCloseStep, OpenStep
<1>6. CASE Tick \/ Wake \/ StartSend \/ UNCHANGED hubVars
  <2>1. CASE Tick \/ UNCHANGED hubVars
    BY <2>1, StutterStep DEF Tick, hubVars, LiveOf, Coming
  <2>2. CASE Wake \/ StartSend
    <3>1. Beat \in Tasks /\ Send \in Tasks /\ Beat \notin Socks /\ Send \notin Socks
      BY TaskFacts DEF Messengers
    <3> QED
      BY <1>0, <2>2, <3>1, MoveStep DEF Wake, StartSend
  <2> QED
    BY <1>6, <2>1, <2>2
<1> QED
  BY <1>3, <1>4, <1>5, <1>6 DEF HubNext

\* The hub of server/ws/hub.py, with its lock, its awaits and the heartbeat, implements
\* the registry of live connections for every set of devices and sockets.
THEOREM HubImplementsRegistry == HubSafety => ImplementsRegistry
<1>1. HubInit => Registry!RegistryInit
  BY DEF HubInit, Registry!RegistryInit, LiveOf, Coming, Tasks
<1>2. HubInv /\ [HubNext]_hubVars => [Registry!RegistryNext]_(Registry!registryVars)
  BY HubNextStep DEF RegistryStep
<1> QED
  BY <1>1, <1>2, HubInvariant, PTL DEF HubSafety, ImplementsRegistry, Registry!RegistrySpec
=============================================================================
