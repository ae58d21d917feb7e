---------------------------- MODULE ConnectionHub ----------------------------
(***************************************************************************)
(* The WebSocket side of the cpip server: the ConnectionHub of             *)
(* server/ws/hub.py, the handler task that server/app.py runs for every    *)
(* accepted socket, and the heartbeat task started at server start-up.     *)
(*                                                                         *)
(* Everything runs on one asyncio loop, so a step of the model is the code *)
(* a task runs between two awaits.  The hub's asyncio.Lock is FIFO: a task *)
(* that finds it free and nobody waiting enters its critical section       *)
(* without giving up the loop; otherwise it queues in `waiting`.           *)
(*                                                                         *)
(* Time is kept as ages: age[s] is the time since conn.last_heartbeat of   *)
(* s, saturated just above the limit the code compares it with.  `late` is *)
(* what the heartbeat loop's `now` can still tell when it comes to a       *)
(* device: the connections, registered or not, that were over the limit    *)
(* when the round started and have not beaten since.                       *)
(***************************************************************************)
EXTENDS Naturals, Sequences

CONSTANTS Devices,    \* device ids
          Socks,      \* socket identities; one that is finished may be reused
          NoSock,     \* "no connection registered"
          NoTask,     \* "the lock is free"
          Beat,       \* the heartbeat task
          Send,       \* a task calling send_to_device or broadcast
          Interval,   \* the heartbeat interval, in clock ticks
          Misses      \* intervals of silence tolerated: 3 in the code

ASSUME SockAssumption == NoSock \notin Socks
ASSUME TaskAssumption == /\ Beat # Send
                         /\ Beat \notin Socks
                         /\ Send \notin Socks
                         /\ NoTask \notin Socks \union {Beat, Send}
ASSUME IntervalAssumption == Interval \in Nat \ {0} /\ Misses \in Nat

Messengers == {Beat, Send}
Tasks == Socks \union Messengers

\* A connection is stale when it is silent for longer than this.
Limit == Interval * Misses

VARIABLES
  conns,    \* hub._connections: the socket registered for each device
  lock,     \* the holder of hub._lock
  waiting,  \* the tasks waiting for hub._lock, in order
  pc,       \* what each task does next
  dev,      \* the device each task works for
  sock,     \* whether each socket is open
  age,      \* time since last_heartbeat of each connection
  late,     \* connections that are stale as the current heartbeat round sees them
  rest,     \* ticks the heartbeat task still sleeps
  todo,     \* devices the current round of a messenger has not reached
  conn      \* the connection object a messenger is sending on

hubVars == <<conns, lock, waiting, pc, dev, sock, age, late, rest, todo, conn>>

Registered == {d \in Devices : conns[d] # NoSock}

HubInit ==
  /\ conns = [d \in Devices |-> NoSock]
  /\ lock = NoTask
  /\ waiting = << >>
  /\ pc = [t \in Tasks |-> "idle"]
  /\ dev \in [Tasks -> Devices]
  /\ \A t, u \in Tasks : dev[t] = dev[u]
  /\ sock = [s \in Socks |-> "closed"]
  /\ age = [s \in Socks |-> 0]
  /\ late = {}
  /\ rest = Interval
  /\ todo = [m \in Messengers |-> {}]
  /\ conn = [m \in Messengers |-> NoSock]

-----------------------------------------------------------------------------
(* The two critical sections.  Each runs up to its first await; a section  *)
(* that has a socket to close keeps the lock while the close is under way. *)

\* A mutation: the old connection is overwritten and not closed.
ConnectNoClose(s, d) ==
  /\ conns' = [conns EXCEPT ![d] = s]
  /\ pc' = [pc EXCEPT ![s] = "serve"]
  /\ lock' = NoTask
  /\ UNCHANGED sock

\* ConnectionHub.connect, from the lock on: the device's previous connection
\* is closed first, and stays registered until the close is over.
ConnectSection(s, d) ==
  IF conns[d] = NoSock
  THEN /\ conns' = [conns EXCEPT ![d] = s]
       /\ pc' = [pc EXCEPT ![s] = "serve"]
       /\ lock' = NoTask
       /\ UNCHANGED sock
  ELSE /\ sock' = [sock EXCEPT ![conns[d]] = "closed"]
       /\ pc' = [pc EXCEPT ![s] = "closeOld"]
       /\ lock' = s
       /\ UNCHANGED conns

\* Where a task goes on after disconnect: a handler ends, a messenger turns
\* to the next device of its round.
Return(t) == IF t \in Messengers THEN "round" ELSE "idle"

\* ConnectionHub.disconnect, from the lock on.  The entry popped is whatever
\* is registered for the device id by now.
DisconnectSection(t, d) ==
  IF conns[d] = NoSock
  THEN /\ pc' = [pc EXCEPT ![t] = Return(t)]
       /\ lock' = NoTask
       /\ UNCHANGED <<conns, sock>>
  ELSE /\ conns' = [conns EXCEPT ![d] = NoSock]
       /\ sock' = [sock EXCEPT ![conns[d]] = "closed"]
       /\ pc' = [pc EXCEPT ![t] = "closePopped"]
       /\ lock' = t

Section(t, d, kind) ==
  IF kind = "connect" THEN ConnectSection(t, d) ELSE DisconnectSection(t, d)

\* `async with self._lock`: enter at once, or queue.
Request(t, d, kind) ==
  IF lock = NoTask /\ waiting = << >>
  THEN Section(t, d, kind) /\ UNCHANGED waiting
  ELSE /\ waiting' = Append(waiting, t)
       /\ pc' = [pc EXCEPT ![t] = kind]
       /\ UNCHANGED <<conns, lock, sock>>

\* A mutation: the lock is handed to the last task in the queue.
GrantLast(t) ==
  /\ lock = NoTask
  /\ waiting # << >>
  /\ t = waiting[Len(waiting)]
  /\ pc[t] \in {"connect", "disconnect"}
  /\ waiting' = SubSeq(waiting, 1, Len(waiting) - 1)
  /\ Section(t, dev[t], pc[t])
  /\ UNCHANGED <<dev, age, late, rest, todo, conn>>

\* The lock has been released and is handed to the first task in the queue.
Grant(t) ==
  /\ lock = NoTask
  /\ waiting # << >>
  /\ t = Head(waiting)
  /\ pc[t] \in {"connect", "disconnect"}
  /\ waiting' = Tail(waiting)
  /\ Section(t, dev[t], pc[t])
  /\ UNCHANGED <<dev, age, late, rest, todo, conn>>

\* connect: the close of the old connection is over, the new one takes its
\* place and the lock is released.
Register(s) ==
  /\ pc[s] = "closeOld"
  /\ conns' = [conns EXCEPT ![dev[s]] = s]
  /\ pc' = [pc EXCEPT ![s] = "serve"]
  /\ lock' = NoTask
  /\ UNCHANGED <<waiting, dev, sock, age, late, rest, todo, conn>>

\* disconnect: the close is over, the lock is released.
Closed(t) ==
  /\ pc[t] = "closePopped"
  /\ pc' = [pc EXCEPT ![t] = Return(t)]
  /\ lock' = NoTask
  /\ UNCHANGED <<conns, waiting, dev, sock, age, late, rest, todo, conn>>

-----------------------------------------------------------------------------
(* The handler task of a socket: websocket_endpoint.                       *)

\* A socket arrives and its credentials name device d (in debug mode every
\* anonymous client is device "local"): the handler starts to accept it.
\* A socket identity is free again once nothing refers to it.
Open(s, d) ==
  /\ pc[s] = "idle"
  /\ \A m \in Messengers : conn[m] # s
  /\ pc' = [pc EXCEPT ![s] = "accept"]
  /\ dev' = [dev EXCEPT ![s] = d]
  /\ sock' = [sock EXCEPT ![s] = "open"]
  /\ age' = [age EXCEPT ![s] = 0]
  /\ UNCHANGED <<conns, lock, waiting, late, rest, todo, conn>>

\* accept() returned: the DeviceConnection is created, its last_heartbeat is
\* now, and the handler asks for the lock.
AcceptOk(s) ==
  /\ pc[s] = "accept"
  /\ age' = [age EXCEPT ![s] = 0]
  /\ late' = late \ {s}
  /\ Request(s, dev[s], "connect")
  /\ UNCHANGED <<dev, rest, todo, conn>>

\* accept() raised, the peer being gone: the handler's finally runs.
AcceptFail(s) ==
  /\ pc[s] = "accept"
  /\ sock[s] = "closed"
  /\ Request(s, dev[s], "disconnect")
  /\ UNCHANGED <<dev, age, late, rest, todo, conn>>

\* A HEARTBEAT_ACK is read.
Ack(s) ==
  /\ pc[s] = "serve"
  /\ sock[s] = "open"
  /\ age' = [age EXCEPT ![s] = 0]
  /\ late' = late \ {s}
  /\ UNCHANGED <<conns, lock, waiting, pc, dev, sock, rest, todo, conn>>

\* The peer goes away.
PeerClose(s) ==
  /\ pc[s] # "idle"
  /\ sock[s] = "open"
  /\ sock' = [sock EXCEPT ![s] = "closed"]
  /\ UNCHANGED <<conns, lock, waiting, pc, dev, age, late, rest, todo, conn>>

\* The receive loop ends with the socket; finally: hub.disconnect(device_id).
EndServe(s) ==
  /\ pc[s] = "serve"
  /\ sock[s] = "closed"
  /\ Request(s, dev[s], "disconnect")
  /\ UNCHANGED <<dev, age, late, rest, todo, conn>>

-----------------------------------------------------------------------------
(* The heartbeat task, and callers of send_to_device and broadcast.        *)

\* Time passes.
Tick ==
  /\ age' = [s \in Socks |-> IF pc[s] \in {"idle", "accept"} \/ age[s] > Limit
                             THEN age[s] ELSE age[s] + 1]
  /\ rest' = IF rest = 0 THEN 0 ELSE rest - 1
  /\ UNCHANGED <<conns, lock, waiting, pc, dev, sock, late, todo, conn>>

\* A mutation: the limit is off by one, and out of the reach of age.
StaleOneLater(s) == age[s] > Limit + 1

\* now - conn.last_heartbeat > interval * 3
Stale(s) == age[s] > Limit

\* heartbeat_loop: the sleep is over; `now` and the device ids are read.
Wake ==
  /\ pc[Beat] = "idle"
  /\ rest = 0
  /\ late' = {s \in Socks : pc[s] \notin {"idle", "accept"} /\ Stale(s)}
  /\ todo' = [todo EXCEPT ![Beat] = Registered]
  /\ pc' = [pc EXCEPT ![Beat] = "round"]
  /\ UNCHANGED <<conns, lock, waiting, dev, sock, age, rest, conn>>

\* send_to_device(d), or broadcast to every device registered now.
StartSend ==
  /\ pc[Send] = "idle"
  /\ \E targets \in {Registered} \union {{d} : d \in Devices} :
        todo' = [todo EXCEPT ![Send] = targets]
  /\ pc' = [pc EXCEPT ![Send] = "round"]
  /\ UNCHANGED <<conns, lock, waiting, dev, sock, age, late, rest, conn>>

\* The round reaches device d: nobody registered any more, or (heartbeat
\* only) a stale connection to drop, or a connection to send on.
Visit(m, d) ==
  /\ pc[m] = "round"
  /\ d \in todo[m]
  /\ todo' = [todo EXCEPT ![m] = @ \ {d}]
  /\ dev' = [dev EXCEPT ![m] = d]
  /\ \/ /\ conns[d] = NoSock
        /\ UNCHANGED <<conns, lock, waiting, pc, sock, conn>>
     \/ /\ m = Beat
        /\ conns[d] \in late
        /\ Request(m, d, "disconnect")
        /\ UNCHANGED conn
     \/ /\ conns[d] # NoSock
        /\ m = Beat => conns[d] \notin late
        /\ pc' = [pc EXCEPT ![m] = "send"]
        /\ conn' = [conn EXCEPT ![m] = conns[d]]
        /\ UNCHANGED <<conns, lock, waiting, sock>>
  /\ UNCHANGED <<age, late, rest>>

\* send_text returned.  On a socket whose peer is gone it may do so too.
SendOk(m) ==
  /\ pc[m] = "send"
  /\ pc' = [pc EXCEPT ![m] = "round"]
  /\ conn' = [conn EXCEPT ![m] = NoSock]
  /\ UNCHANGED <<conns, lock, waiting, dev, sock, age, late, rest, todo>>

\* send_text raised, which takes a closed socket: disconnect(device_id).
SendFail(m) ==
  /\ pc[m] = "send"
  /\ sock[conn[m]] = "closed"
  /\ conn' = [conn EXCEPT ![m] = NoSock]
  /\ Request(m, dev[m], "disconnect")
  /\ UNCHANGED <<dev, age, late, rest, todo>>

\* The round is over; the heartbeat task sleeps again.
EndRound(m) ==
  /\ pc[m] = "round"
  /\ todo[m] = {}
  /\ pc' = [pc EXCEPT ![m] = "idle"]
  /\ rest' = IF m = Beat THEN Interval ELSE rest
  /\ UNCHANGED <<conns, lock, waiting, dev, sock, age, late, todo, conn>>

-----------------------------------------------------------------------------

\* The steps of handler s that the environment does not decide.
HandlerStep(s) ==
  Grant(s) \/ Register(s) \/ Closed(s) \/ AcceptOk(s) \/ AcceptFail(s) \/ EndServe(s)

\* The steps of the heartbeat task or of a sender once it has started.
MessengerStep(m) ==
  \/ Grant(m) \/ Closed(m) \/ SendOk(m) \/ SendFail(m) \/ EndRound(m)
  \/ \E d \in Devices : Visit(m, d)

HubNext ==
  \/ Tick \/ Wake \/ StartSend
  \/ \E m \in Messengers : MessengerStep(m)
  \/ \E s \in Socks :
       \/ HandlerStep(s) \/ Ack(s) \/ PeerClose(s)
       \/ \E d \in Devices : Open(s, d)

\* The loop runs every task that can run, close() and accept() end, and time
\* passes.  Nothing is assumed of the peers or of the callers of send.
HubFairness ==
  /\ WF_hubVars(Tick)
  /\ WF_hubVars(Wake)
  /\ \A s \in Socks : WF_hubVars(HandlerStep(s))
  /\ \A m \in Messengers : WF_hubVars(MessengerStep(m))

HubSafety == HubInit /\ [][HubNext]_hubVars
HubSpec == HubSafety /\ HubFairness

-----------------------------------------------------------------------------

HandlerStates == {"idle", "accept", "connect", "closeOld", "serve",
                  "disconnect", "closePopped"}
MessengerStates == {"idle", "round", "send", "disconnect", "closePopped"}

\* The state is well typed: in particular a messenger never reaches a state
\* only a handler has, and only queued tasks' ids are in the lock's queue.
TypeOK ==
  /\ conns \in [Devices -> Socks \union {NoSock}]
  /\ lock \in Tasks \union {NoTask}
  /\ waiting \in Seq(Tasks)
  /\ pc \in [Tasks -> HandlerStates \union MessengerStates]
  /\ \A s \in Socks : pc[s] \in HandlerStates
  /\ \A m \in Messengers : pc[m] \in MessengerStates
  /\ dev \in [Tasks -> Devices]
  /\ sock \in [Socks -> {"open", "closed"}]
  /\ age \in [Socks -> 0 .. Limit + 1]
  /\ late \subseteq Socks
  /\ rest \in 0 .. Interval
  /\ todo \in [Messengers -> SUBSET Devices]
  /\ conn \in [Messengers -> Socks \union {NoSock}]

\* The hub's registry never holds a connection nobody looks after: the handler
\* of a registered connection works for that very device and is still in
\* its receive loop or on its way to disconnect (connect and disconnect run in any
\* order, awaiting inside their critical sections).
NoDeadRegistration ==
  \A d \in Devices : conns[d] # NoSock =>
      /\ dev[conns[d]] = d
      /\ pc[conns[d]] \in {"serve", "disconnect"}

\* A socket that is being served and is open is the one registered for its
\* device: no live connection is left that send_to_device and the heartbeat
\* cannot see, hence a device has at most one.
NoOrphan ==
  \A s \in Socks : pc[s] = "serve" /\ sock[s] = "open" => conns[dev[s]] = s

\* Whoever holds the hub's lock is inside a critical section waiting for a
\* close, and nobody else is.
LockExclusive ==
  \A t \in Tasks : lock = t <=> pc[t] \in {"closeOld", "closePopped"}

\* A handler whose socket is closed gets through hub.disconnect and ends, however
\* the lock is contended.
HandlerCleansUp ==
  \A s \in Socks : (pc[s] = "serve" /\ sock[s] = "closed") ~> (pc[s] = "idle")

\* A connection that stays silent beyond the limit of
\* three intervals is closed by the
\* heartbeat loop, unless it answers after all.
SilentIsReaped ==
  \A d \in Devices, s \in Socks :
     (conns[d] = s /\ age[s] > Limit) ~> (sock[s] = "closed" \/ age[s] <= Limit)

\* What connect's comment "Close existing connection for this device" promises: the new
\* connection replaces the old one.  An open connection is not
\* dropped from the registry by the end of another socket's handler.
ReplacementStays ==
  [][\A d \in Devices : LET s == conns[d] IN
       (s # NoSock /\ conns'[d] = NoSock /\ sock[s] = "open")
          => \A h \in Socks \ {s} : ~(pc[h] = "serve" /\ pc'[h] = "closePopped")]_hubVars

\* What holds of the registry at any time: the lock has one holder, every entry is served,
\* and no open connection is left out.
HubSafe == TypeOK /\ LockExclusive /\ NoDeadRegistration /\ NoOrphan

-----------------------------------------------------------------------------
(* The hub implements the registry of live connections.                    *)

\* The connection a device can be reached on: registered, and open.
LiveOf == [d \in Devices |->
             IF conns[d] # NoSock /\ sock[conns[d]] = "open" THEN conns[d] ELSE NoSock]

\* The open sockets whose handler has not registered them yet.
Coming == {s \in Socks : sock[s] = "open" /\ pc[s] \in {"accept", "connect", "closeOld"}}

Registry == INSTANCE DeviceRegistry
              WITH Conns <- Socks, NoConn <- NoSock, live <- LiveOf, coming <- Coming

\* Every step of the hub, its handlers, the heartbeat and the senders is a step
\* of the registry or leaves it alone: replacing a connection over two awaits
\* under the lock looks like its end followed by the start of the new one.
ImplementsRegistry == Registry!RegistrySpec
=============================================================================
