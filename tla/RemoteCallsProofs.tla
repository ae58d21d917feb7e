------------------------- MODULE RemoteCallsProofs --------------------------
(***************************************************************************)
(* The two ways a remote call can go wrong, for any number of sessions,    *)
(* calls and sockets: the bridge of runtime/interceptor.py over the        *)
(* server's hub, and the retries and the circuit breaker of                *)
(* runtime/fallback.py around it. The bridge is shown to take only steps   *)
(* of the hub, so that what ConnectionHubProofs says of the hub holds      *)
(* under it; its own invariant needs that a socket being dialled is nobody *)
(* else's, and that the receive loop of a connected session reads its      *)
(* socket as long as that is open. The breaker's needs that whoever sleeps *)
(* has an attempt left.                                                    *)
(***************************************************************************)
EXTENDS CloudBridge, Resilience, ConnectionHubProofs, SequenceFacts

-----------------------------------------------------------------------------
(* The bridge.                                                             *)

\* A handler that is on its way out, or has ended.
Over == {"idle", "disconnect", "closePopped"}

\* A handler leaves only when its socket is closed.
EndsClosed == \A s \in Socks : pc[s] \in Over => sock[s] = "closed"

\* A step reopens no socket, and sends no handler with an open socket on its way out.
NoReopen ==
  \A s \in Socks :
    /\ sock'[s] = "open" => sock[s] = "open"
    /\ pc'[s] \in Over => pc[s] \in Over \/ sock[s] = "closed"

\* The hub's critical sections close sockets and open none.
LEMMA SectionNoReopen ==
  ASSUME HubInv, NEW t \in Tasks, NEW d \in Devices, NEW kind \in {"connect", "disconnect"},
         Section(t, d, kind),
         kind = "disconnect" /\ t \in Socks => pc[t] \in Over \/ sock[t] = "closed"
  PROVE  NoReopen
<1>1. /\ conns \in [Devices -> Socks \union {NoSock}] /\ pc \in [Tasks -> HandlerStates \union MessengerStates]
      /\ sock \in [Socks -> {"open", "closed"}]
  BY DEF HubInv, Core, CoreType
<1>2. \A s \in Socks : s \in Tasks
  BY TaskFacts
<1>3. sock' = sock \/ (conns[d] \in Socks /\ sock' = [sock EXCEPT ![conns[d]] = "closed"])
  BY <1>1 DEF Section, ConnectSection, DisconnectSection
<1>4. PICK p : pc' = [pc EXCEPT ![t] = p] /\ (p \in Over => kind = "disconnect")
  BY DEF Section, ConnectSection, DisconnectSection, Over
<1>5. \A s \in Socks : sock'[s] = "open" => sock[s] = "open"
  BY <1>1, <1>3
<1>6. \A s \in Socks : pc'[s] \in Over => pc[s] \in Over \/ sock[s] = "closed"
  BY <1>1, <1>2, <1>4
<1> QED BY <1>5, <1>6 DEF NoReopen

\* The same for a task that asks for the lock, and gets it or queues.
LEMMA RequestNoReopen ==
  ASSUME HubInv, NEW t \in Tasks, NEW d \in Devices, NEW kind \in {"connect", "disconnect"},
         Request(t, d, kind),
         kind = "disconnect" /\ t \in Socks => pc[t] \in Over \/ sock[t] = "closed"
  PROVE  NoReopen
<1>1. CASE Section(t, d, kind)
  BY <1>1, SectionNoReopen
<1>2. CASE pc' = [pc EXCEPT ![t] = kind] /\ UNCHANGED <<conns, lock, sock>>
  BY <1>2, TaskFacts DEF HubInv, Core, CoreType, NoReopen, Over
<1> QED BY <1>1, <1>2 DEF Request

\* A step of a messenger or of the clock that moves no handler.
LEMMA MessengerNoReopen ==
  ASSUME HubInv, NEW m \in Messengers, NEW p, UNCHANGED sock, pc' = [pc EXCEPT ![m] = p] \/ UNCHANGED pc
  PROVE  NoReopen
BY TaskFacts DEF HubInv, Core, CoreType, NoReopen

\* No step of the hub reopens a socket, but for the arrival of a new one.
LEMMA HubNoReopen ==
  ASSUME HubInv,
         \/ Tick \/ Wake \/ StartSend
         \/ \E m \in Messengers : MessengerStep(m)
         \/ \E s \in Socks : HandlerStep(s) \/ Ack(s) \/ PeerClose(s)
  PROVE  NoReopen
<1>0. dev \in [Tasks -> Devices] /\ Beat \in Messengers /\ Send \in Messengers
  BY DEF HubInv, Core, CoreType, Messengers
<1>1. CASE Tick \/ Wake \/ StartSend
  BY <1>0, <1>1, MessengerNoReopen DEF Tick, Wake, StartSend
<1>2. ASSUME NEW t \in Tasks, Grant(t) PROVE NoReopen
  <2>1. pc[t] \in {"connect", "disconnect"} /\ Section(t, dev[t], pc[t]) /\ dev[t] \in Devices
    BY <1>0, <1>2 DEF Grant
  <2> QED BY <2>1, SectionNoReopen DEF Over
<1>3. ASSUME NEW t \in Tasks, Closed(t) PROVE NoReopen
  BY <1>3, TaskFacts DEF Closed, Return, HubInv, Core, CoreType, NoReopen, Over
<1>4. ASSUME NEW m \in Messengers, MessengerStep(m) PROVE NoReopen
  <2>1. m \in Tasks /\ m \notin Socks /\ dev[m] \in Devices
    BY <1>0, TaskFacts
  <2>2. CASE SendOk(m) \/ EndRound(m)
    BY <2>2, MessengerNoReopen DEF SendOk, EndRound
  <2>3. CASE SendFail(m)
    BY <2>1, <2>3, RequestNoReopen DEF SendFail
  <2>4. ASSUME NEW d \in Devices, Visit(m, d) PROVE NoReopen
    <3>1. CASE Request(m, d, "disconnect")
      BY <2>1, <3>1, RequestNoReopen
    <3>2. CASE UNCHANGED sock /\ (pc' = [pc EXCEPT ![m] = "send"] \/ UNCHANGED pc)
      BY <3>2, MessengerNoReopen
    <3> QED BY <2>4, <3>1, <3>2 DEF Visit
  <2> QED BY <1>2, <1>3, <1>4, <2>1, <2>2, <2>3, <2>4 DEF MessengerStep
<1>5. ASSUME NEW s \in Socks, HandlerStep(s) PROVE NoReopen
  <2>1. s \in Tasks /\ dev[s] \in Devices
    BY <1>0, TaskFacts
  <2>2. CASE Register(s)
    BY <2>1, <2>2, TaskFacts DEF Register, HubInv, Core, CoreType, NoReopen, Over
  <2>3. CASE AcceptOk(s)
    BY <2>1, <2>3, RequestNoReopen DEF AcceptOk
  <2>4. CASE AcceptFail(s) \/ EndServe(s)
    BY <2>1, <2>4, RequestNoReopen DEF AcceptFail, EndServe
  <2> QED BY <1>2, <1>3, <1>5, <2>1, <2>2, <2>3, <2>4 DEF HandlerStep
<1>6. ASSUME NEW s \in Socks, Ack(s) \/ PeerClose(s) PROVE NoReopen
  BY <1>6, TaskFacts DEF Ack, PeerClose, HubInv, Core, CoreType, NoReopen
<1> QED BY <1>1, <1>4, <1>5, <1>6

\* Every step of the hub leaves the handlers that are on their way out with closed sockets.
LEMMA EndsClosedStep ==
  ASSUME HubInv, EndsClosed, HubNext PROVE EndsClosed'
<1>1. CASE NoReopen
  <2>1. \A s \in Socks : sock'[s] \in {"open", "closed"}
    BY HubNextInv DEF HubInv, Core, CoreType
  <2> QED BY <1>1, <2>1 DEF NoReopen, EndsClosed
<1>2. ASSUME NEW s \in Socks, NEW d \in Devices, Open(s, d) PROVE EndsClosed'
  BY <1>2, TaskFacts DEF Open, HubInv, Core, CoreType, EndsClosed, Over
<1> QED BY <1>1, <1>2, HubNoReopen DEF HubNext

\* A handler task of the hub ends only when its socket is closed: no connection is left open without one.
THEOREM HubEndsClosed == HubSafety => []EndsClosed
<1>1. HubInit => EndsClosed
  BY TaskFacts DEF HubInit, EndsClosed
<1>2. HubInv /\ EndsClosed /\ [HubNext]_hubVars => EndsClosed'
  <2>1. ASSUME EndsClosed, UNCHANGED hubVars PROVE EndsClosed'
    BY <2>1 DEF hubVars, EndsClosed
  <2> QED BY <2>1, EndsClosedStep
<1> QED BY <1>1, <1>2, HubInvariant, PTL DEF HubSafety

\* Every step of the bridge is a step of the hub, or one that the hub does not see: a session's close is,
\* for the hub, a peer that goes away.
LEMMA BridgeStepIsHubStep ==
  ASSUME HubInv, EndsClosed, BridgeNext, ws \in [Sessions -> Socks \union {NoSock}]
  PROVE  [HubNext]_hubVars
<1>1. CASE HubStep
  <2>1. Beat \in Messengers
    BY DEF Messengers
  <2> QED BY <1>1, <2>1 DEF HubStep, HubNext
<1>2. ASSUME NEW k \in Calls, DialOk(k) \/ DialFail(k) \/ Timeout(k) PROVE UNCHANGED hubVars
  BY <1>2 DEF DialOk, DialFail, Timeout
<1>3. ASSUME NEW k \in Calls, NEW c \in Sessions, Execute(k, c) PROVE UNCHANGED hubVars
  BY <1>3 DEF Execute
<1>4. ASSUME NEW k \in Calls, NEW c \in Sessions, NEW s \in Socks, Dial(k, c, s) PROVE HubNext
  BY <1>4, LocalAssumption DEF Dial, HubNext
<1>5. ASSUME NEW s \in Socks, Receive(s) \/ ReceiveEnd(s) \/ Dispatch(s) PROVE UNCHANGED hubVars
  BY <1>5 DEF Receive, ReceiveEnd, Dispatch
<1>6. ASSUME NEW s \in Socks, NetworkDrop(s) PROVE HubNext
  BY <1>6 DEF NetworkDrop, HubNext
<1>7. ASSUME NEW c \in Sessions, CloseSession(c) PROVE [HubNext]_hubVars
  <2>1. /\ sock' = [s \in Socks |-> IF s = ws[c] THEN "closed" ELSE sock[s]]
        /\ UNCHANGED <<conns, lock, waiting, pc, dev, age, late, rest, todo, conn>>
    BY <1>7 DEF CloseSession
  <2>2. sock \in [Socks -> {"open", "closed"}]
    BY DEF HubInv, Core, CoreType
  <2>3. CASE ws[c] \notin Socks \/ sock[ws[c]] = "closed"
    <3>1. sock' = sock
      BY <2>1, <2>2, <2>3
    <3> QED BY <2>1, <3>1 DEF hubVars
  <2>4. CASE ws[c] \in Socks /\ sock[ws[c]] = "open"
    <3>1. pc[ws[c]] # "idle"
      BY <2>1, <2>4 DEF EndsClosed, Over
    <3>2. sock' = [sock EXCEPT ![ws[c]] = "closed"]
      BY <2>1, <2>2
    <3>3. PeerClose(ws[c])
      BY <2>1, <2>4, <3>1, <3>2 DEF PeerClose
    <3> QED BY <2>4, <3>3 DEF HubNext
  <2> QED BY <2>2, <2>3, <2>4
<1> QED BY <1>1, <1>2, <1>3, <1>4, <1>5, <1>6, <1>7 DEF BridgeNext

\* The types of the client's state.
ClientType ==
  /\ call \in [Calls -> {"idle", "dial", "wait", "stuck"} \union Ended]
  /\ via \in [Calls -> Sessions \union {NoSession}]
  /\ dial \in [Calls -> Socks \union {NoSock}]
  /\ ws \in [Sessions -> Socks \union {NoSock}]
  /\ connected \in [Sessions -> BOOLEAN]
  /\ pending \subseteq Calls
  /\ rx \in [Socks -> Sessions \union {NoSession}]
  /\ req \in [Socks -> Seq(Calls)]
  /\ rep \in [Socks -> Seq(Calls \X {"result", "unknown"})]
  /\ lost \subseteq Socks

\* A call that dials has a session and a socket, and that socket is nobody else's: no session uses it yet
\* and no other call dials it.
DialsApart ==
  \A k \in Calls :
    /\ call[k] = "dial" => via[k] \in Sessions /\ dial[k] \in Socks
    /\ dial[k] # NoSock => /\ \A c \in Sessions : ws[c] # dial[k]
                           /\ \A j \in Calls : dial[j] = dial[k] => j = k

\* As long as the socket of a connected session is open, that session's receive loop reads it.
OpenIsRead ==
  \A c \in Sessions : connected[c] =>
    /\ ws[c] # NoSock
    /\ sock[ws[c]] = "open" \/ ws[c] \in lost => rx[ws[c]] = c

\* The inductive invariant of the bridge.
BridgeInv == HubInv /\ EndsClosed /\ ClientType /\ WaitersFindable /\ DialsApart /\ OpenIsRead

\* The sessions' part of the invariant.
ClientInv == ClientType /\ WaitersFindable /\ DialsApart /\ OpenIsRead

\* Steps of the hub leave the client alone, and only close sockets.
LEMMA ClientHubStep ==
  ASSUME BridgeInv, NoReopen, UNCHANGED clientVars
  PROVE  ClientInv'
BY DEF BridgeInv, NoReopen, clientVars, ClientInv, ClientType, WaitersFindable, DialsApart, OpenIsRead

\* Filing a call and sending it: execute, on a session's socket w.
LEMMA IssueKeeps ==
  ASSUME ClientType, NEW k \in Calls, NEW w \in Socks \union {NoSock}, Issue(k, w)
  PROVE  /\ pending' = pending \union {k}
         /\ req' \in [Socks -> Seq(Calls)]
         /\ \E o \in {"wait", "failed"} : call' = [call EXCEPT ![k] = o]
<1>1. ASSUME NEW s \in Socks PROVE [req EXCEPT ![s] = Append(@, k)] \in [Socks -> Seq(Calls)]
  BY DEF ClientType
<1>2. CASE w = NoSock \/ rx[w] # NoSession
  BY <1>1, <1>2 DEF Issue, ClientType
<1>3. CASE ~(w = NoSock \/ rx[w] # NoSession)
  BY <1>3 DEF Issue, ClientType
<1> QED BY <1>2, <1>3

\* execute on a session that believes it is connected.
LEMMA ExecuteStep ==
  ASSUME BridgeInv, NEW k \in Calls, NEW c \in Sessions, Execute(k, c)
  PROVE  ClientInv'
<1>0. ClientType /\ WaitersFindable /\ DialsApart /\ OpenIsRead /\ ws[c] \in Socks \union {NoSock}
  BY DEF BridgeInv, ClientType
<1>1. PICK o \in {"wait", "failed"} : call' = [call EXCEPT ![k] = o]
  BY <1>0, IssueKeeps DEF Execute
<1>2. pending' = pending \union {k} /\ req' \in [Socks -> Seq(Calls)]
  BY <1>0, IssueKeeps DEF Execute
<1>3. /\ via' = [via EXCEPT ![k] = c] /\ UNCHANGED <<dial, ws, connected, rx, rep, lost>> /\ UNCHANGED sock
  BY DEF Execute, hubVars
<1>4. ClientType'
  BY <1>0, <1>1, <1>2, <1>3 DEF ClientType, Ended
<1>5. WaitersFindable'
  BY <1>0, <1>1, <1>2 DEF ClientType, WaitersFindable
<1>6. DialsApart'
  BY <1>0, <1>1, <1>3 DEF ClientType, DialsApart
<1>7. OpenIsRead'
  BY <1>0, <1>3 DEF OpenIsRead
<1> QED BY <1>4, <1>5, <1>6, <1>7 DEF ClientInv

\* _connect dials on a socket that nobody refers to.
LEMMA DialStep ==
  ASSUME BridgeInv, NEW k \in Calls, NEW c \in Sessions, NEW s \in Socks, Dial(k, c, s)
  PROVE  ClientInv'
<1>0. ClientType /\ WaitersFindable /\ DialsApart /\ OpenIsRead
  BY DEF BridgeInv
<1>1. /\ call' = [call EXCEPT ![k] = "dial"] /\ via' = [via EXCEPT ![k] = c] /\ dial' = [dial EXCEPT ![k] = s]
      /\ req' = [req EXCEPT ![s] = << >>] /\ rep' = [rep EXCEPT ![s] = << >>] /\ lost' = lost \ {s}
      /\ UNCHANGED <<ws, connected, pending, rx>>
  BY DEF Dial
<1>2. /\ \A d \in Sessions : ws[d] # s
      /\ \A j \in Calls : dial[j] # s
      /\ sock' = [sock EXCEPT ![s] = "open"] /\ sock \in [Socks -> {"open", "closed"}]
  BY DEF Dial, Fresh, Open, BridgeInv, HubInv, Core, CoreType
<1>3. ClientType'
  <2>1. << >> \in Seq(Calls) /\ << >> \in Seq(Calls \X {"result", "unknown"})
    OBVIOUS
  <2>2. req' \in [Socks -> Seq(Calls)] /\ rep' \in [Socks -> Seq(Calls \X {"result", "unknown"})]
    BY <1>0, <1>1, <2>1 DEF ClientType
  <2> QED BY <1>0, <1>1, <2>2 DEF ClientType
<1>4. WaitersFindable'
  BY <1>0, <1>1 DEF ClientType, WaitersFindable
<1>5. DialsApart'
  BY <1>0, <1>1, <1>2, SockAssumption DEF ClientType, DialsApart
<1>6. OpenIsRead'
  BY <1>0, <1>1, <1>2 DEF ClientType, OpenIsRead
<1> QED BY <1>3, <1>4, <1>5, <1>6 DEF ClientInv

\* The dial succeeds: the socket becomes the session's, and only its.
LEMMA DialOkStep ==
  ASSUME BridgeInv, NEW k \in Calls, DialOk(k)
  PROVE  ClientInv'
<1> DEFINE c == via[k]
           s == dial[k]
<1>0. ClientType /\ WaitersFindable /\ DialsApart /\ OpenIsRead /\ c \in Sessions /\ s \in Socks
  BY DEF BridgeInv, DialOk, DialsApart
<1>1. /\ dial' = [dial EXCEPT ![k] = NoSock] /\ ws' = [ws EXCEPT ![c] = s]
      /\ connected' = [connected EXCEPT ![c] = TRUE] /\ rx' = [rx EXCEPT ![s] = c]
      /\ pending' = pending \union {k} /\ call' = [call EXCEPT ![k] = "wait"]
      /\ req' \in {[req EXCEPT ![s] = Append(@, k)], req}
      /\ UNCHANGED <<via, rep, lost>> /\ UNCHANGED sock
  BY DEF DialOk, hubVars
<1>2. /\ \A d \in Sessions : ws[d] # s
      /\ \A j \in Calls \ {k} : dial[j] # s
  BY <1>0, SockAssumption DEF DialsApart
<1> HIDE DEF c, s
<1>3. ClientType'
  <2>a. req \in [Socks -> Seq(Calls)] /\ Append(req[s], k) \in Seq(Calls)
    BY <1>0 DEF ClientType
  <2>1. req' \in [Socks -> Seq(Calls)]
    BY <1>0, <1>1, <2>a
  <2> QED BY <1>0, <1>1, <2>1 DEF ClientType
<1>4. WaitersFindable'
  BY <1>0, <1>1 DEF ClientType, WaitersFindable
<1>5. DialsApart'
  <2>1. \A j \in Calls : call'[j] = "dial" => j # k /\ via'[j] \in Sessions /\ dial'[j] \in Socks
    BY <1>0, <1>1 DEF ClientType, DialsApart
  <2>2. \A j \in Calls : dial'[j] # NoSock => j # k /\ dial'[j] = dial[j] /\ dial[j] # s
    BY <1>0, <1>1, <1>2 DEF ClientType
  <2>3. \A d \in Sessions : ws'[d] \in {ws[d], s}
    BY <1>0, <1>1 DEF ClientType
  <2> QED BY <1>0, <2>1, <2>2, <2>3 DEF DialsApart
<1>6. OpenIsRead'
  <2>1. ASSUME NEW d \in Sessions, connected'[d], d # c
        PROVE  /\ ws'[d] # NoSock
               /\ sock[ws'[d]] = "open" \/ ws'[d] \in lost => rx'[ws'[d]] = d
    <3>1. connected[d] /\ ws'[d] = ws[d] /\ ws[d] # s
      BY <1>0, <1>1, <1>2, <2>1 DEF ClientType
    <3>2. ws[d] \in Socks /\ (sock[ws[d]] = "open" \/ ws[d] \in lost => rx[ws[d]] = d)
      BY <1>0, <3>1 DEF ClientType, OpenIsRead
    <3> QED BY <1>0, <1>1, <3>1, <3>2, SockAssumption DEF ClientType
  <2>2. ws'[c] = s /\ rx'[s] = c
    BY <1>0, <1>1 DEF ClientType
  <2> QED BY <1>0, <1>1, <2>1, <2>2, SockAssumption DEF OpenIsRead
<1> QED BY <1>3, <1>4, <1>5, <1>6 DEF ClientInv

\* The dial fails, and the call goes on with the socket the session has.
LEMMA DialFailStep ==
  ASSUME BridgeInv, NEW k \in Calls, DialFail(k)
  PROVE  ClientInv'
<1>0. ClientType /\ WaitersFindable /\ DialsApart /\ OpenIsRead /\ via[k] \in Sessions
  BY DEF BridgeInv, DialFail, DialsApart
<1>a. ws[via[k]] \in Socks \union {NoSock}
  BY <1>0 DEF ClientType
<1>1. PICK o \in {"wait", "failed"} : call' = [call EXCEPT ![k] = o]
  BY <1>0, <1>a, IssueKeeps DEF DialFail
<1>2. pending' = pending \union {k} /\ req' \in [Socks -> Seq(Calls)]
  BY <1>0, <1>a, IssueKeeps DEF DialFail
<1>3. /\ dial' = [dial EXCEPT ![k] = NoSock] /\ connected' = [connected EXCEPT ![via[k]] = FALSE]
      /\ UNCHANGED <<via, ws, rx, rep, lost>> /\ UNCHANGED sock
  BY DEF DialFail, hubVars
<1>4. ClientType'
  BY <1>0, <1>1, <1>2, <1>3 DEF ClientType, Ended
<1>5. WaitersFindable'
  BY <1>0, <1>1, <1>2 DEF ClientType, WaitersFindable
<1>6. DialsApart'
  BY <1>0, <1>1, <1>3 DEF ClientType, DialsApart
<1>7. OpenIsRead'
  BY <1>0, <1>3 DEF ClientType, OpenIsRead
<1> QED BY <1>4, <1>5, <1>6, <1>7 DEF ClientInv

\* _receive_loop completes a future only while its caller waits for it.
LEMMA ReceiveStep ==
  ASSUME BridgeInv, NEW s \in Socks, Receive(s)
  PROVE  /\ ClientInv'
         /\ \A j \in Calls : call'[j] # call[j] => call[j] = "wait"
<1> DEFINE k == Head(rep[s])[1]
           outcome == Head(rep[s])[2]
<1>0. ClientType /\ WaitersFindable /\ DialsApart /\ OpenIsRead
  BY DEF BridgeInv
<1>1. rep[s] \in Seq(Calls \X {"result", "unknown"}) /\ rep[s] # << >>
  BY <1>0 DEF ClientType, Receive
<1>2. Head(rep[s]) \in Calls \X {"result", "unknown"} /\ Tail(rep[s]) \in Seq(Calls \X {"result", "unknown"})
  BY <1>1
<1>3. k \in Calls /\ outcome \in {"result", "unknown"}
  BY <1>2
<1>4. /\ rep' = [rep EXCEPT ![s] = Tail(rep[s])] /\ pending' = pending \ {k}
      /\ call' = (IF k \in pending /\ call[k] = "wait" THEN [call EXCEPT ![k] = outcome] ELSE call)
      /\ UNCHANGED <<via, dial, ws, connected, rx, req, lost>> /\ UNCHANGED sock
  BY DEF Receive, hubVars
<1> HIDE DEF k, outcome
<1>5. ClientType'
  <2>1. rep' \in [Socks -> Seq(Calls \X {"result", "unknown"})]
    BY <1>0, <1>2, <1>4 DEF ClientType
  <2>2. call' \in [Calls -> {"idle", "dial", "wait", "stuck"} \union Ended]
    BY <1>0, <1>3, <1>4 DEF ClientType, Ended
  <2> QED BY <1>0, <1>4, <2>1, <2>2 DEF ClientType
<1>6. \A j \in Calls : call'[j] # call[j] => call[j] = "wait" /\ call'[j] \in {"result", "unknown"}
  BY <1>0, <1>3, <1>4 DEF ClientType
<1>7. WaitersFindable'
  <2>1. ASSUME NEW j \in Calls, call'[j] = "wait" PROVE j \in pending'
    <3>1. call[j] = "wait" /\ j \in pending
      BY <1>0, <1>6, <2>1 DEF WaitersFindable
    <3>2. j # k
      BY <1>0, <1>3, <1>4, <2>1, <3>1 DEF ClientType
    <3> QED BY <1>4, <3>1, <3>2
  <2> QED BY <2>1 DEF WaitersFindable
<1>8. DialsApart'
  BY <1>0, <1>4, <1>6 DEF DialsApart
<1>9. OpenIsRead'
  BY <1>0, <1>4 DEF OpenIsRead
<1> QED BY <1>5, <1>6, <1>7, <1>8, <1>9 DEF ClientInv

\* _receive_loop ends: after a failure the session it served is no longer connected.
LEMMA ReceiveEndStep ==
  ASSUME BridgeInv, NEW s \in Socks, ReceiveEnd(s)
  PROVE  ClientInv'
<1>0. ClientType /\ WaitersFindable /\ DialsApart /\ OpenIsRead /\ sock[s] = "closed" /\ rx[s] \in Sessions
  BY DEF BridgeInv, ReceiveEnd, ClientType
<1>1. /\ rx' = [rx EXCEPT ![s] = NoSession] /\ rep' = [rep EXCEPT ![s] = << >>]
      /\ connected' = (IF s \in lost THEN [connected EXCEPT ![rx[s]] = FALSE] ELSE connected)
      /\ UNCHANGED <<call, via, dial, ws, pending, req, lost>> /\ UNCHANGED sock
  BY DEF ReceiveEnd, hubVars
<1>2. ClientType'
  <2>1. << >> \in Seq(Calls \X {"result", "unknown"})
    OBVIOUS
  <2>2. rep' \in [Socks -> Seq(Calls \X {"result", "unknown"})]
    BY <1>0, <1>1, <2>1 DEF ClientType
  <2>3. connected' \in [Sessions -> BOOLEAN] /\ rx' \in [Socks -> Sessions \union {NoSession}]
    BY <1>0, <1>1 DEF ClientType
  <2> QED BY <1>0, <1>1, <2>2, <2>3 DEF ClientType
<1>3. WaitersFindable' /\ DialsApart'
  BY <1>0, <1>1 DEF WaitersFindable, DialsApart
<1>4. OpenIsRead'
  <2>1. ASSUME NEW c \in Sessions, connected'[c]
        PROVE  /\ ws[c] # NoSock
               /\ sock[ws[c]] = "open" \/ ws[c] \in lost => rx'[ws[c]] = c
    <3>1. connected[c] /\ (s \in lost => rx[s] # c)
      BY <1>0, <1>1, <2>1 DEF ClientType
    <3>2. ws[c] \in Socks /\ (sock[ws[c]] = "open" \/ ws[c] \in lost => rx[ws[c]] = c)
      BY <1>0, <3>1 DEF ClientType, OpenIsRead
    <3>3. sock[ws[c]] = "open" \/ ws[c] \in lost => ws[c] # s
      BY <1>0, <3>1, <3>2
    <3> QED BY <1>0, <1>1, <3>2, <3>3, SockAssumption DEF ClientType
  <2> QED BY <1>1, <2>1 DEF OpenIsRead
<1> QED BY <1>2, <1>3, <1>4 DEF ClientInv

\* The caller gives up.
LEMMA TimeoutStep ==
  ASSUME BridgeInv, NEW k \in Calls, Timeout(k)
  PROVE  ClientInv'
<1>0. ClientType /\ WaitersFindable /\ DialsApart /\ OpenIsRead
  BY DEF BridgeInv
<1>1. call' = [call EXCEPT ![k] = "timeout"] /\ UNCHANGED <<via, dial, ws, connected, pending, rx, req, rep, lost>>
      /\ UNCHANGED sock
  BY DEF Timeout, hubVars
<1>2. ClientType'
  BY <1>0, <1>1 DEF ClientType, Ended
<1>3. WaitersFindable' /\ DialsApart' /\ OpenIsRead'
  BY <1>0, <1>1 DEF ClientType, WaitersFindable, DialsApart, OpenIsRead
<1> QED BY <1>2, <1>3 DEF ClientInv

\* CloudSession.close: the session is not connected, and reads no socket.
LEMMA CloseSessionStep ==
  ASSUME BridgeInv, NEW c \in Sessions, CloseSession(c)
  PROVE  ClientInv'
<1>0. ClientType /\ WaitersFindable /\ DialsApart /\ OpenIsRead
  BY DEF BridgeInv
<1>1. /\ sock' = [s \in Socks |-> IF s = ws[c] THEN "closed" ELSE sock[s]] /\ connected' = [connected EXCEPT ![c] = FALSE]
      /\ rx' = [s \in Socks |-> IF rx[s] = c THEN NoSession ELSE rx[s]]
      /\ call' = [k \in Calls |-> IF via[k] = c /\ call[k] \in {"dial", "wait"} THEN "stuck" ELSE call[k]]
      /\ dial' = [k \in Calls |-> IF via[k] = c THEN NoSock ELSE dial[k]]
      /\ UNCHANGED <<via, ws, pending, req, rep, lost>>
  BY DEF CloseSession
<1>2. sock \in [Socks -> {"open", "closed"}]
  BY DEF BridgeInv, HubInv, Core, CoreType
<1>3. ClientType'
  BY <1>0, <1>1 DEF ClientType
<1>4. WaitersFindable'
  BY <1>0, <1>1 DEF WaitersFindable
<1>5. DialsApart'
  BY <1>0, <1>1 DEF DialsApart
<1>6. OpenIsRead'
  <2>1. ASSUME NEW d \in Sessions, connected'[d]
        PROVE  /\ ws[d] # NoSock
               /\ sock'[ws[d]] = "open" \/ ws[d] \in lost => rx'[ws[d]] = d
    <3>1. connected[d] /\ d # c
      BY <1>0, <1>1, <2>1 DEF ClientType
    <3>2. ws[d] \in Socks /\ (sock[ws[d]] = "open" \/ ws[d] \in lost => rx[ws[d]] = d)
      BY <1>0, <3>1 DEF ClientType, OpenIsRead
    <3>3. sock'[ws[d]] = "open" => sock[ws[d]] = "open"
      BY <1>0, <1>1, <1>2, <3>2
    <3>4. rx[ws[d]] = d => rx'[ws[d]] = d
      BY <1>1, <3>1, <3>2
    <3> QED BY <3>2, <3>3, <3>4, SockAssumption
  <2> QED BY <1>1, <2>1 DEF OpenIsRead
<1> QED BY <1>3, <1>4, <1>5, <1>6 DEF ClientInv

\* A connection that breaks was open, hence read by the session that uses it.
LEMMA NetworkDropStep ==
  ASSUME BridgeInv, NEW s \in Socks, NetworkDrop(s)
  PROVE  ClientInv'
<1>0. ClientType /\ WaitersFindable /\ DialsApart /\ OpenIsRead /\ sock[s] = "open"
  BY DEF BridgeInv, NetworkDrop, PeerClose
<1>1. /\ sock' = [sock EXCEPT ![s] = "closed"] /\ lost' = lost \union {s}
      /\ UNCHANGED <<call, via, dial, ws, connected, pending, rx, req, rep>>
  BY DEF NetworkDrop, PeerClose
<1>2. sock \in [Socks -> {"open", "closed"}]
  BY DEF BridgeInv, HubInv, Core, CoreType
<1>3. ClientType' /\ WaitersFindable' /\ DialsApart'
  BY <1>0, <1>1 DEF ClientType, WaitersFindable, DialsApart
<1>4. OpenIsRead'
  BY <1>0, <1>1, <1>2 DEF ClientType, OpenIsRead
<1> QED BY <1>3, <1>4 DEF ClientInv

\* The server answers a call on the socket it came on.
LEMMA DispatchStep ==
  ASSUME BridgeInv, NEW s \in Socks, Dispatch(s)
  PROVE  ClientInv'
<1> DEFINE answer == IF SessionMethod \in Handlers THEN "result" ELSE "unknown"
<1>0. ClientType /\ WaitersFindable /\ DialsApart /\ OpenIsRead
  BY DEF BridgeInv
<1>1. req[s] \in Seq(Calls) /\ req[s] # << >> /\ rep[s] \in Seq(Calls \X {"result", "unknown"})
  BY <1>0 DEF ClientType, Dispatch
<1>2. Head(req[s]) \in Calls /\ Tail(req[s]) \in Seq(Calls) /\ answer \in {"result", "unknown"}
  BY <1>1
<1>3. /\ req' = [req EXCEPT ![s] = Tail(req[s])]
      /\ rep' = [rep EXCEPT ![s] = Append(rep[s], <<Head(req[s]), answer>>)]
      /\ UNCHANGED <<call, via, dial, ws, connected, pending, rx, lost>> /\ UNCHANGED sock
  BY DEF Dispatch, hubVars
<1> HIDE DEF answer
<1>4. <<Head(req[s]), answer>> \in Calls \X {"result", "unknown"}
  BY <1>2
<1>5. Append(rep[s], <<Head(req[s]), answer>>) \in Seq(Calls \X {"result", "unknown"})
  BY <1>1, <1>4, AppendProperties
<1>6. ClientType'
  BY <1>0, <1>2, <1>3, <1>5 DEF ClientType
<1>7. WaitersFindable' /\ DialsApart' /\ OpenIsRead'
  BY <1>0, <1>3 DEF WaitersFindable, DialsApart, OpenIsRead
<1> QED BY <1>6, <1>7 DEF ClientInv

\* The invariant holds when nothing is connected.
LEMMA BridgeInitInv == BridgeInit => BridgeInv
<1> SUFFICES ASSUME BridgeInit PROVE BridgeInv
  OBVIOUS
<1>1. HubInv /\ EndsClosed
  BY HubInitInv, TaskFacts DEF BridgeInit, HubInit, EndsClosed
<1>2. ClientType
  <2>1. << >> \in Seq(Calls) /\ << >> \in Seq(Calls \X {"result", "unknown"})
    OBVIOUS
  <2> QED BY <2>1 DEF BridgeInit, ClientType
<1>3. WaitersFindable /\ DialsApart /\ OpenIsRead
  BY DEF BridgeInit, WaitersFindable, DialsApart, OpenIsRead
<1> QED BY <1>1, <1>2, <1>3 DEF BridgeInv

\* The hub's own steps in the bridge are steps of its handlers, its heartbeat and the clock.
LEMMA BridgeHubStep ==
  ASSUME BridgeInv, HubStep, UNCHANGED clientVars
  PROVE  ClientInv'
<1>1. Beat \in Messengers
  BY DEF Messengers
<1>2. NoReopen
  BY <1>1, HubNoReopen DEF HubStep, BridgeInv
<1> QED BY <1>2, ClientHubStep

\* Every step of the bridge keeps its invariant.
LEMMA BridgeInvStep ==
  ASSUME BridgeInv, BridgeNext
  PROVE  BridgeInv' /\ [HubNext]_hubVars
<1>1. [HubNext]_hubVars
  BY BridgeStepIsHubStep DEF BridgeInv, ClientType
<1>2. HubInv' /\ EndsClosed'
  <2>1. CASE UNCHANGED hubVars
    BY <2>1, HubNextInv DEF BridgeInv, EndsClosed, hubVars
  <2>2. CASE HubNext
    BY <2>2, HubNextInv, EndsClosedStep DEF BridgeInv
  <2> QED BY <1>1, <2>1, <2>2
<1>3. ClientInv'
  <2>1. ASSUME NEW k \in Calls, DialOk(k) \/ DialFail(k) \/ Timeout(k) PROVE ClientInv'
    BY <2>1, DialOkStep, DialFailStep, TimeoutStep
  <2>2. ASSUME NEW k \in Calls, NEW c \in Sessions, Execute(k, c) \/ \E s \in Socks : Dial(k, c, s) PROVE ClientInv'
    BY <2>2, ExecuteStep, DialStep
  <2>3. ASSUME NEW s \in Socks, Receive(s) \/ ReceiveEnd(s) \/ NetworkDrop(s) \/ Dispatch(s) PROVE ClientInv'
    BY <2>3, ReceiveStep, ReceiveEndStep, NetworkDropStep, DispatchStep
  <2> QED BY <2>1, <2>2, <2>3, BridgeHubStep, CloseSessionStep DEF BridgeNext
<1> QED BY <1>1, <1>2, <1>3 DEF BridgeInv, ClientInv

\* The inductive invariant holds in every reachable state of the bridge.
LEMMA BridgeInductive == BridgeSafety => []BridgeInv
<1>1. BridgeInv /\ [BridgeNext]_bridgeVars => BridgeInv'
  <2>1. ASSUME BridgeInv, UNCHANGED bridgeVars PROVE BridgeInv'
    <3>1. UNCHANGED hubVars /\ UNCHANGED clientVars
      BY <2>1 DEF bridgeVars
    <3>2. HubInv'
      BY <2>1, <3>1, HubNextInv DEF BridgeInv
    <3>3. NoReopen
      BY <3>1, TaskFacts DEF hubVars, NoReopen
    <3> QED BY <2>1, <3>1, <3>2, <3>3, ClientHubStep DEF BridgeInv, ClientInv, EndsClosed, hubVars
  <2> QED BY <2>1, BridgeInvStep
<1> QED BY <1>1, BridgeInitInv, PTL DEF BridgeSafety

\* The bridge uses the hub as the hub is: whatever the sessions dial, send, lose and close, the hub's part of
\* the bridge behaves as the hub's own specification allows, so that all that is proved of the hub
\* (no dead registration, no orphan, the lock, the registry it implements) holds with live sessions on its sockets.
THEOREM BridgeImplementsHub == BridgeSafety => HubSafety
<1>1. BridgeInit => HubInit
  BY DEF BridgeInit
<1>2. BridgeInv /\ [BridgeNext]_bridgeVars => [HubNext]_hubVars
  BY BridgeInvStep DEF bridgeVars
<1> QED BY <1>1, <1>2, BridgeInductive, PTL DEF BridgeSafety, HubSafety

\* At any time, a call that waits is on file in _pending, and a session that believes it is connected has a
\* socket that has not failed, or a receive loop that is about to find out.
THEOREM BridgeIsSafe == BridgeSafety => []BridgeSafe
<1>1. BridgeInv => BridgeSafe
  BY DEF BridgeInv, HubInv, Core, CoreType, RestType, TypeOK, ClientType, OpenIsRead, BridgeSafe, BridgeTypeOK, FailureIsNoticed
<1> QED BY <1>1, BridgeInductive, PTL

\* The outcome a caller was given is final: no late reply, timeout, dial or close changes it.
THEOREM CallOutcomesFinal == BridgeSafety => OutcomeFinal
<1>1. ASSUME BridgeInv, BridgeNext, NEW k \in Calls, call[k] \in Ended PROVE call'[k] = call[k]
  <2>0. ClientType
    BY <1>1 DEF BridgeInv
  <2>1. ASSUME NEW j \in Calls, NEW o, call' = [call EXCEPT ![j] = o], call[j] \in {"idle", "dial", "wait", "stuck"}
        PROVE  call'[k] = call[k]
    BY <1>1, <2>0, <2>1 DEF ClientType, Ended
  <2>2. CASE UNCHANGED call
    BY <2>2
  <2>3. ASSUME NEW j \in Calls, NEW w, Issue(j, w) PROVE \E o : call' = [call EXCEPT ![j] = o]
    BY <2>3 DEF Issue
  <2>4. ASSUME NEW j \in Calls, DialOk(j) \/ DialFail(j) \/ Timeout(j) PROVE call'[k] = call[k]
    BY <2>1, <2>3, <2>4 DEF DialOk, DialFail, Timeout
  <2>5. ASSUME NEW j \in Calls, NEW c \in Sessions, Execute(j, c) PROVE call'[k] = call[k]
    BY <2>1, <2>3, <2>5 DEF Execute
  <2>6. ASSUME NEW j \in Calls, NEW c \in Sessions, NEW s \in Socks, Dial(j, c, s) PROVE call'[k] = call[k]
    BY <2>1, <2>6 DEF Dial
  <2>7. ASSUME NEW s \in Socks, Receive(s) PROVE call'[k] = call[k]
    BY <1>1, <2>7, ReceiveStep DEF Ended
  <2>8. ASSUME NEW s \in Socks, ReceiveEnd(s) \/ NetworkDrop(s) \/ Dispatch(s) PROVE call'[k] = call[k]
    BY <2>8 DEF ReceiveEnd, NetworkDrop, Dispatch
  <2>9. ASSUME NEW c \in Sessions, CloseSession(c) PROVE call'[k] = call[k]
    BY <1>1, <2>9 DEF CloseSession, Ended
  <2>10. CASE UNCHANGED clientVars
    BY <2>10 DEF clientVars
  <2> QED BY <1>1, <2>4, <2>5, <2>6, <2>7, <2>8, <2>9, <2>10 DEF BridgeNext
<1>2. BridgeInv /\ [BridgeNext]_bridgeVars => [\A k \in Calls : call[k] \in Ended => call'[k] = call[k]]_bridgeVars
  BY <1>1
<1> QED BY <1>2, BridgeInductive, PTL DEF BridgeSafety, OutcomeFinal

-----------------------------------------------------------------------------
(* The bridge implements remote calls.                                     *)

\* A list has an element, has each element once, or each first component of its pairs once.
Has(q, e) == \E i \in DOMAIN q : q[i] = e
Once(q) == \A i, j \in DOMAIN q : q[i] = q[j] => i = j
OnceByFirst(q) == \A i, j \in DOMAIN q : q[i][1] = q[j][1] => i = j

\* What Head and Tail of a list are, by position.
LEMMA TailPositions ==
  ASSUME NEW S, NEW q \in Seq(S), q # << >>
  PROVE  /\ Len(q) \in Nat /\ Len(q) > 0 /\ DOMAIN q = 1 .. Len(q) /\ Head(q) = q[1] /\ 1 \in DOMAIN q
         /\ Head(q) \in S /\ Tail(q) \in Seq(S) /\ DOMAIN Tail(q) = 1 .. Len(q) - 1
         /\ \A i \in DOMAIN Tail(q) : i \in Nat /\ Tail(q)[i] = q[i + 1] /\ i + 1 \in DOMAIN q /\ i + 1 # 1
<1>1. /\ Len(q) \in Nat /\ Len(q) > 0 /\ DOMAIN q = 1 .. Len(q) /\ Head(q) = q[1] /\ Head(q) \in S
      /\ Tail(q) \in Seq(S) /\ Len(Tail(q)) = Len(q) - 1
      /\ \A i \in 1 .. Len(q) - 1 : Tail(q)[i] = q[i + 1]
  BY HeadTailProperties
<1>2. DOMAIN Tail(q) = 1 .. Len(q) - 1
  BY <1>1
<1> QED BY <1>1, <1>2

\* Taking the first of several different elements leaves the others, each once.
LEMMA TailOnce ==
  ASSUME NEW S, NEW q \in Seq(S), q # << >>, Once(q)
  PROVE  /\ Once(Tail(q))
         /\ \A e : Has(Tail(q), e) <=> Has(q, e) /\ e # Head(q)
<1>1. /\ Len(q) \in Nat /\ Len(q) > 0 /\ DOMAIN q = 1 .. Len(q) /\ Head(q) = q[1] /\ 1 \in DOMAIN q
      /\ DOMAIN Tail(q) = 1 .. Len(q) - 1
      /\ \A i \in DOMAIN Tail(q) : i \in Nat /\ Tail(q)[i] = q[i + 1] /\ i + 1 \in DOMAIN q /\ i + 1 # 1
  BY TailPositions
<1>2. ASSUME NEW i \in DOMAIN Tail(q), NEW j \in DOMAIN Tail(q), Tail(q)[i] = Tail(q)[j] PROVE i = j
  <2>1. i + 1 = j + 1 /\ i \in Nat /\ j \in Nat
    BY <1>1, <1>2 DEF Once
  <2> QED BY <2>1
<1>3. ASSUME NEW i \in DOMAIN q, q[i] # Head(q) PROVE Has(Tail(q), q[i])
  <2>1. i - 1 \in DOMAIN Tail(q) /\ (i - 1) + 1 = i
    BY <1>1, <1>3
  <2> QED BY <1>1, <2>1 DEF Has
<1>4. ASSUME NEW i \in DOMAIN Tail(q) PROVE Has(q, Tail(q)[i]) /\ Tail(q)[i] # Head(q)
  BY <1>1 DEF Has, Once
<1>5. \A e : Has(Tail(q), e) <=> Has(q, e) /\ e # Head(q)
  BY <1>3, <1>4 DEF Has
<1> QED BY <1>2, <1>5 DEF Once

\* The same for pairs that differ in their first component.
LEMMA TailOnceByFirst ==
  ASSUME NEW S, NEW q \in Seq(S), q # << >>, OnceByFirst(q)
  PROVE  /\ OnceByFirst(Tail(q))
         /\ \A e : Has(Tail(q), e) <=> Has(q, e) /\ e # Head(q)
<1>1. \A i \in DOMAIN Tail(q) : i \in Nat /\ Tail(q)[i] = q[i + 1] /\ i + 1 \in DOMAIN q
  BY TailPositions
<1>2. ASSUME NEW i \in DOMAIN Tail(q), NEW j \in DOMAIN Tail(q), Tail(q)[i][1] = Tail(q)[j][1] PROVE i = j
  <2>1. i + 1 \in DOMAIN q /\ j + 1 \in DOMAIN q /\ q[i + 1][1] = q[j + 1][1] /\ i \in Nat /\ j \in Nat
    BY <1>1, <1>2
  <2>2. i + 1 = j + 1
    BY <2>1 DEF OnceByFirst
  <2> QED BY <2>1, <2>2
<1>3. Once(q)
  BY DEF Once, OnceByFirst
<1>4. \A e : Has(Tail(q), e) <=> Has(q, e) /\ e # Head(q)
  BY <1>3, TailOnce
<1> QED BY <1>2, <1>4 DEF OnceByFirst

\* Adding an element keeps the others.
LEMMA AppendHas ==
  ASSUME NEW S, NEW q \in Seq(S), NEW x \in S
  PROVE  \A e : Has(Append(q, x), e) <=> Has(q, e) \/ e = x
BY AppendedFacts DEF Has

\* No list of requests or replies names a call twice.
ListedOnce ==
  /\ \A s \in Socks : Once(req[s])
  /\ \A s \in Socks : OnceByFirst(rep[s])

\* What the server may answer.
Answers == {"result", "unknown"}

\* A call has one message at most, on one socket, and none before it was issued.
OneMessage ==
  \A k \in Calls, s, t \in Socks :
    /\ RequestOn(k, s) /\ RequestOn(k, t) => s = t
    /\ \A a, b \in Answers : ReplyOn(k, a, s) /\ ReplyOn(k, b, t) => s = t /\ a = b
    /\ \A a \in Answers : ~(RequestOn(k, s) /\ ReplyOn(k, a, t))
    /\ RequestOn(k, s) => call[k] \notin {"idle", "dial"}
    /\ \A a \in Answers : ReplyOn(k, a, s) => call[k] \notin {"idle", "dial"}

\* Nothing is under way on a socket that is still being dialled.
DialsQuiet ==
  \A k \in Calls : dial[k] # NoSock => req[dial[k]] = << >> /\ rep[dial[k]] = << >>

\* What is under way.
WireInv == ListedOnce /\ OneMessage /\ DialsQuiet


\* What is under way on a socket, in terms of its lists.
LEMMA OnHas ==
  /\ \A j, s : RequestOn(j, s) <=> Has(req[s], j)
  /\ \A j, s : RequestOn(j, s)' <=> Has(req'[s], j)
  /\ \A j, a, s : ReplyOn(j, a, s) <=> Has(rep[s], <<j, a>>)
  /\ \A j, a, s : ReplyOn(j, a, s)' <=> Has(rep'[s], <<j, a>>)
BY DEF RequestOn, ReplyOn, Has

\* A message is appended to the requests on socket w.
LEMMA RequestAdded ==
  ASSUME ClientType, ListedOnce, NEW k \in Calls, NEW w \in Socks, ~RequestOn(k, w),
         req' = [req EXCEPT ![w] = Append(@, k)]
  PROVE  /\ \A j \in Calls, s \in Socks : RequestOn(j, s)' <=> RequestOn(j, s) \/ (j = k /\ s = w)
         /\ \A s \in Socks : Once(req'[s])
<1>1. req'[w] = Append(req[w], k) /\ \A s \in Socks \ {w} : req'[s] = req[s]
  BY DEF ClientType
<1>2. PICK q \in Seq(Calls) : q = req[w]
  BY DEF ClientType
<1>3. Once(q) /\ ~Has(q, k)
  BY <1>2, OnHas DEF ListedOnce
<1>4. \A e : Has(Append(q, k), e) <=> Has(q, e) \/ e = k
  BY AppendHas
<1>5. Once(Append(q, k))
  <2>1. /\ DOMAIN Append(q, k) = DOMAIN q \union {Len(q) + 1} /\ Len(q) + 1 \notin DOMAIN q
        /\ \A i \in DOMAIN Append(q, k) : Append(q, k)[i] = IF i \in DOMAIN q THEN q[i] ELSE k
    BY AppendedFacts
  <2> QED BY <1>3, <2>1 DEF Has, Once
<1>6. \A s \in Socks : Once(req'[s])
  BY <1>1, <1>2, <1>5 DEF ListedOnce
<1>7. \A j \in Calls, s \in Socks : Has(req'[s], j) <=> Has(req[s], j) \/ (j = k /\ s = w)
  BY <1>1, <1>2, <1>4
<1> QED BY <1>6, <1>7, OnHas

\* The first request on socket w is taken.
LEMMA RequestTaken ==
  ASSUME ClientType, ListedOnce, NEW w \in Socks, req[w] # << >>, req' = [req EXCEPT ![w] = Tail(@)]
  PROVE  /\ \A j \in Calls, s \in Socks : RequestOn(j, s)' <=> RequestOn(j, s) /\ ~(j = Head(req[w]) /\ s = w)
         /\ \A s \in Socks : Once(req'[s])
         /\ Head(req[w]) \in Calls /\ RequestOn(Head(req[w]), w)
<1>1. req'[w] = Tail(req[w]) /\ \A s \in Socks \ {w} : req'[s] = req[s]
  BY DEF ClientType
<1>2. PICK q \in Seq(Calls) : q = req[w]
  BY DEF ClientType
<1>3. Once(q) /\ q # << >>
  BY <1>2 DEF ListedOnce
<1>4. Once(Tail(q)) /\ \A e : Has(Tail(q), e) <=> Has(q, e) /\ e # Head(q)
  BY <1>3, TailOnce
<1>5. Head(q) \in Calls /\ Has(q, Head(q))
  BY <1>3, TailPositions DEF Has
<1>6. \A s \in Socks : Once(req'[s])
  BY <1>1, <1>2, <1>4 DEF ListedOnce
<1>7. \A j \in Calls, s \in Socks : Has(req'[s], j) <=> Has(req[s], j) /\ ~(j = Head(req[w]) /\ s = w)
  BY <1>1, <1>2, <1>4
<1> QED BY <1>2, <1>5, <1>6, <1>7, OnHas

\* A reply is appended to those on socket w.
LEMMA ReplyAdded ==
  ASSUME ClientType, ListedOnce, NEW k \in Calls, NEW a \in Answers, NEW w \in Socks,
         \A b \in Answers : ~ReplyOn(k, b, w), rep' = [rep EXCEPT ![w] = Append(@, <<k, a>>)]
  PROVE  /\ \A j \in Calls, b \in Answers, s \in Socks :
              ReplyOn(j, b, s)' <=> ReplyOn(j, b, s) \/ (j = k /\ b = a /\ s = w)
         /\ \A s \in Socks : OnceByFirst(rep'[s])
<1>1. rep'[w] = Append(rep[w], <<k, a>>) /\ \A s \in Socks \ {w} : rep'[s] = rep[s]
  BY DEF ClientType
<1>2. PICK q \in Seq(Calls \X Answers) : q = rep[w]
  BY DEF ClientType, Answers
<1>3. PICK p \in Calls \X Answers : p = <<k, a>>
  OBVIOUS
<1>4. OnceByFirst(q) /\ \A b \in Answers : ~Has(q, <<k, b>>)
  BY <1>2, OnHas DEF ListedOnce
<1>5. \A e : Has(Append(q, p), e) <=> Has(q, e) \/ e = p
  BY AppendHas
<1>6. OnceByFirst(Append(q, p))
  <2>1. /\ DOMAIN Append(q, p) = DOMAIN q \union {Len(q) + 1} /\ Len(q) + 1 \notin DOMAIN q
        /\ \A i \in DOMAIN Append(q, p) : Append(q, p)[i] = IF i \in DOMAIN q THEN q[i] ELSE p
    BY AppendedFacts
  <2>2. ASSUME NEW i \in DOMAIN q PROVE q[i][1] # k
    <3>1. PICK j \in Calls, b \in Answers : q[i] = <<j, b>>
      OBVIOUS
    <3> QED BY <1>4, <3>1 DEF Has
  <2>3. p[1] = k
    BY <1>3
  <2> QED BY <1>4, <2>1, <2>2, <2>3 DEF OnceByFirst
<1>7. \A s \in Socks : OnceByFirst(rep'[s])
  BY <1>1, <1>2, <1>3, <1>6 DEF ListedOnce
<1>8. \A j \in Calls, b \in Answers : <<j, b>> = p <=> j = k /\ b = a
  BY <1>3
<1>9. \A j \in Calls, b \in Answers, s \in Socks : Has(rep'[s], <<j, b>>) <=> Has(rep[s], <<j, b>>) \/ (j = k /\ b = a /\ s = w)
  BY <1>1, <1>2, <1>3, <1>5, <1>8
<1> QED BY <1>7, <1>9, OnHas

\* The first reply on socket w is taken.
LEMMA ReplyTaken ==
  ASSUME ClientType, ListedOnce, NEW w \in Socks, rep[w] # << >>, rep' = [rep EXCEPT ![w] = Tail(@)]
  PROVE  \E k \in Calls, a \in Answers :
         /\ Head(rep[w])[1] = k /\ Head(rep[w])[2] = a /\ ReplyOn(k, a, w)
         /\ \A j \in Calls, b \in Answers, s \in Socks :
              ReplyOn(j, b, s)' <=> ReplyOn(j, b, s) /\ ~(j = k /\ b = a /\ s = w)
         /\ \A s \in Socks : OnceByFirst(rep'[s])
<1>1. rep'[w] = Tail(rep[w]) /\ \A s \in Socks \ {w} : rep'[s] = rep[s]
  BY DEF ClientType
<1>2. PICK q \in Seq(Calls \X Answers) : q = rep[w]
  BY DEF ClientType, Answers
<1>3. OnceByFirst(q) /\ q # << >>
  BY <1>2 DEF ListedOnce
<1>4. OnceByFirst(Tail(q)) /\ \A e : Has(Tail(q), e) <=> Has(q, e) /\ e # Head(q)
  BY <1>3, TailOnceByFirst
<1>5. PICK p \in Calls \X Answers : p = Head(q) /\ Has(q, p)
  BY <1>3, TailPositions DEF Has
<1>6. PICK k \in Calls, a \in Answers : p = <<k, a>> /\ p[1] = k /\ p[2] = a
  OBVIOUS
<1>7. \A j \in Calls, b \in Answers : <<j, b>> = p <=> j = k /\ b = a
  BY <1>6
<1>8. ReplyOn(k, a, w)
  BY <1>2, <1>5, <1>6, OnHas
<1>9. \A j \in Calls, b \in Answers, s \in Socks : Has(rep'[s], <<j, b>>) <=> Has(rep[s], <<j, b>>) /\ ~(j = k /\ b = a /\ s = w)
  BY <1>1, <1>2, <1>4, <1>5, <1>7
<1>10. \A s \in Socks : OnceByFirst(rep'[s])
  BY <1>1, <1>2, <1>4 DEF ListedOnce
<1>11. \A j \in Calls, b \in Answers, s \in Socks : ReplyOn(j, b, s)' <=> ReplyOn(j, b, s) /\ ~(j = k /\ b = a /\ s = w)
  BY <1>9, OnHas
<1>12. Head(rep[w])[1] = k /\ Head(rep[w])[2] = a
  BY <1>2, <1>5, <1>6
<1> QED BY <1>8, <1>10, <1>11, <1>12

\* Lists that are emptied name nobody.
LEMMA RequestsCleared ==
  ASSUME ClientType, ListedOnce, NEW w \in Socks, req' = [req EXCEPT ![w] = << >>]
  PROVE  /\ \A j \in Calls, s \in Socks : RequestOn(j, s)' <=> RequestOn(j, s) /\ s # w
         /\ \A s \in Socks : Once(req'[s])
<1>1. req'[w] = << >> /\ \A s \in Socks \ {w} : req'[s] = req[s]
  BY DEF ClientType
<1>2. DOMAIN << >> = {}
  OBVIOUS
<1> QED BY <1>1, <1>2 DEF RequestOn, ListedOnce, Once

\* The same for replies.
LEMMA RepliesCleared ==
  ASSUME ClientType, ListedOnce, NEW w \in Socks, rep' = [rep EXCEPT ![w] = << >>]
  PROVE  /\ \A j \in Calls, b \in Answers, s \in Socks : ReplyOn(j, b, s)' <=> ReplyOn(j, b, s) /\ s # w
         /\ \A s \in Socks : OnceByFirst(rep'[s])
<1>1. rep'[w] = << >> /\ \A s \in Socks \ {w} : rep'[s] = rep[s]
  BY DEF ClientType
<1>2. DOMAIN << >> = {}
  OBVIOUS
<1> QED BY <1>1, <1>2 DEF ReplyOn, ListedOnce, OnceByFirst

\* Lists that are left alone.
LEMMA RequestsSame ==
  ASSUME ListedOnce, req' = req
  PROVE  /\ \A j \in Calls, s \in Socks : RequestOn(j, s)' <=> RequestOn(j, s)
         /\ \A s \in Socks : Once(req'[s])
BY DEF RequestOn, ListedOnce

\* The same for replies.
LEMMA RepliesSame ==
  ASSUME ListedOnce, rep' = rep
  PROVE  /\ \A j \in Calls, b \in Answers, s \in Socks : ReplyOn(j, b, s)' <=> ReplyOn(j, b, s)
         /\ \A s \in Socks : OnceByFirst(rep'[s])
BY DEF ReplyOn, ListedOnce

\* A step of the remote calls, or one that leaves them alone.
RemoteStep == [Remote!CallsNext]_(Remote!callsVars)

\* A call that has not been issued yet.
Early == {"idle", "dial"}

\* A call whose message is where it was.
LEMMA Unmoved ==
  ASSUME NEW j \in Calls, call[j] \in Early <=> call'[j] \in Early,
         Requested(j)' <=> Requested(j), \A a \in Answers : Replied(j, a)' <=> Replied(j, a)
  PROVE  MessageOf'[j] = MessageOf[j]
<1>1. /\ Replied(j, "result")' <=> Replied(j, "result")
      /\ Replied(j, "unknown")' <=> Replied(j, "unknown")
  BY DEF Answers
<1> QED BY <1>1 DEF MessageOf, Early

\* Where a message is.
LEMMA Whereabouts ==
  ASSUME OneMessage, NEW j \in Calls
  PROVE  /\ call[j] \in Early => MessageOf[j] = "unsent"
         /\ Requested(j) => MessageOf[j] = "request"
         /\ \A a \in Answers : Replied(j, a) => MessageOf[j] = a
         /\ call[j] \notin Early /\ ~Requested(j) /\ (\A a \in Answers : ~Replied(j, a)) => MessageOf[j] = "gone"
         /\ Requested(j) => call[j] \notin Early /\ \A a \in Answers : ~Replied(j, a)
         /\ \A a \in Answers : Replied(j, a) => call[j] \notin Early
<1>1. Requested(j) => call[j] \notin Early /\ \A a \in Answers : ~Replied(j, a)
  BY DEF OneMessage, Requested, Replied, Early
<1>2. \A a \in Answers : Replied(j, a) => call[j] \notin Early /\ \A b \in Answers : Replied(j, b) => a = b
  BY DEF OneMessage, Replied, Early
<1>3. "result" \in Answers /\ "unknown" \in Answers /\ \A a \in Answers : a = "result" \/ a = "unknown"
  BY DEF Answers
<1> QED BY <1>1, <1>2, <1>3 DEF MessageOf, Early

\* A step that brings no message keeps each call's messages to one.
LEMMA FewerMessages ==
  ASSUME OneMessage,
         \A j \in Calls : call[j] \notin Early => call'[j] \notin Early,
         \A j \in Calls, s \in Socks : RequestOn(j, s)' => RequestOn(j, s),
         \A j \in Calls, b \in Answers, s \in Socks : ReplyOn(j, b, s)' => ReplyOn(j, b, s)
  PROVE  OneMessage'
BY DEF OneMessage, Early

\* A step that brings no message and tells no caller anything loses some messages, or none.
LEMMA QuietStep ==
  ASSUME ClientType, OneMessage,
         call' \in [Calls -> {"idle", "dial", "wait", "stuck"} \union Ended],
         \A j \in Calls : call'[j] = call[j] \/ (call[j] \in {"dial", "wait"} /\ call'[j] = "stuck"),
         \A s \in Socks : (sock'[s] = "open" => sock[s] = "open") /\ (rx'[s] # NoSession => rx[s] # NoSession),
         \A j \in Calls, s \in Socks : RequestOn(j, s)' => RequestOn(j, s),
         \A j \in Calls, b \in Answers, s \in Socks : ReplyOn(j, b, s)' => ReplyOn(j, b, s)
  PROVE  OneMessage' /\ RemoteStep
<1>1. OneMessage'
  BY FewerMessages DEF Early
<1>2. ASSUME NEW j \in Calls PROVE ToldOf'[j] = ToldOf[j]
  BY DEF ToldOf
<1>3. ToldOf' = ToldOf
  BY <1>2 DEF ToldOf
<1>4. ASSUME NEW j \in Calls PROVE MessageOf'[j] = MessageOf[j] \/ (MessageOf'[j] = "gone" /\ ToldOf[j] # "idle")
  <2>1. Requested(j)' => Requested(j)
    BY DEF Requested
  <2>2. \A a \in Answers : Replied(j, a)' => Replied(j, a)
    BY DEF Replied
  <2>3. CASE call'[j] \in Early
    <3>1. call[j] = call'[j] /\ call[j] \in Early
      BY <2>3 DEF Early
    <3>2. ~Requested(j) /\ \A a \in Answers : ~Replied(j, a)
      BY <3>1, Whereabouts
    <3> QED BY <2>1, <2>2, <2>3, <3>1, <3>2, Unmoved
  <2>4. CASE call'[j] \notin Early /\ Requested(j)'
    <3>1. \A a \in Answers : ~Replied(j, a)
      BY <2>1, <2>4, Whereabouts
    <3>2. call[j] \notin Early
      BY <2>1, <2>4, Whereabouts
    <3> QED BY <2>1, <2>2, <2>4, <3>1, <3>2, Unmoved
  <2>5. ASSUME call'[j] \notin Early, NEW a \in Answers, Replied(j, a)' PROVE MessageOf'[j] = MessageOf[j]
    <3>1. Replied(j, a) /\ call[j] \notin Early /\ ~Requested(j)
      BY <2>2, <2>5, Whereabouts
    <3>2. \A b \in Answers : b # a => ~Replied(j, b)
      BY <3>1 DEF OneMessage, Replied
    <3> QED BY <2>1, <2>2, <2>5, <3>1, <3>2, Unmoved
  <2>6. CASE call'[j] \notin Early /\ ~Requested(j)' /\ \A a \in Answers : ~Replied(j, a)'
    <3>1. MessageOf'[j] = "gone"
      <4>1. ~Replied(j, "result")' /\ ~Replied(j, "unknown")'
        BY <2>6 DEF Answers
      <4> QED BY <2>6, <4>1 DEF MessageOf, Early
    <3>2. call[j] # "idle"
      BY <2>6 DEF Early
    <3>3. ToldOf[j] # "idle"
      BY <3>2 DEF ToldOf
    <3> QED BY <3>1, <3>3
  <2> QED BY <2>3, <2>4, <2>5, <2>6
<1>5. PICK K \in SUBSET Calls : \A j \in Calls : j \in K <=> MessageOf'[j] = "gone" /\ ToldOf[j] # "idle"
  <2>1. {j \in Calls : MessageOf'[j] = "gone" /\ ToldOf[j] # "idle"} \in SUBSET Calls
    OBVIOUS
  <2> QED BY <2>1
<1>6. MessageOf' = [j \in Calls |-> IF j \in K THEN "gone" ELSE MessageOf[j]]
  <2>1. \A j \in Calls : MessageOf'[j] = IF j \in K THEN "gone" ELSE MessageOf[j]
    BY <1>4, <1>5
  <2>2. MessageOf' = [j \in Calls |-> MessageOf'[j]]
    BY DEF MessageOf
  <2> QED BY <2>1, <2>2
<1>7. Remote!Lose(K)
  BY <1>3, <1>5, <1>6 DEF Remote!Lose
<1> QED BY <1>1, <1>5, <1>7 DEF RemoteStep, Remote!CallsNext

\* The state of one call changes, and with it where its message is, but no other call's.
LEMMA OneCall ==
  ASSUME NEW k \in Calls, NEW o, NEW told, NEW m, call \in [Calls -> {"idle", "dial", "wait", "stuck"} \union Ended],
         call' = [call EXCEPT ![k] = o],
         told = (IF o \in {"dial", "wait", "stuck"} THEN "open" ELSE o),
         MessageOf'[k] = m,
         \A j \in Calls \ {k} : Requested(j)' <=> Requested(j),
         \A j \in Calls \ {k}, a \in Answers : Replied(j, a)' <=> Replied(j, a)
  PROVE  /\ ToldOf' = [ToldOf EXCEPT ![k] = told]
         /\ MessageOf' = [MessageOf EXCEPT ![k] = m]
<1>1. \A j \in Calls : ToldOf'[j] = IF j = k THEN told ELSE ToldOf[j]
  BY DEF ToldOf
<1>2. \A j \in Calls \ {k} : MessageOf'[j] = MessageOf[j]
  BY Unmoved
<1>3. ToldOf' = [j \in Calls |-> ToldOf'[j]] /\ ToldOf = [j \in Calls |-> ToldOf[j]]
  BY DEF ToldOf
<1>4. MessageOf' = [j \in Calls |-> MessageOf'[j]] /\ MessageOf = [j \in Calls |-> MessageOf[j]]
  BY DEF MessageOf
<1>5. ToldOf' = [ToldOf EXCEPT ![k] = told]
  BY <1>1, <1>3
<1>6. MessageOf' = [MessageOf EXCEPT ![k] = m]
  BY <1>2, <1>4
<1> QED BY <1>5, <1>6

\* The messages that are nowhere else: what a call that has not been issued has under way.
LEMMA NothingYet ==
  ASSUME OneMessage, NEW k \in Calls, call[k] \in Early
  PROVE  \A s \in Socks : ~RequestOn(k, s) /\ \A a \in Answers : ~ReplyOn(k, a, s)
BY DEF OneMessage, Early

\* A call that has not been issued is sent on socket w.
LEMMA SentStep ==
  ASSUME ClientType, ListedOnce, OneMessage, NEW k \in Calls, NEW w \in Socks, call[k] \in Early,
         sock[w] = "open", UNCHANGED sock, UNCHANGED rep,
         req' = [req EXCEPT ![w] = Append(@, k)], call' = [call EXCEPT ![k] = "wait"],
         \A j \in Calls, a \in Answers : Replied(j, a)' <=> Replied(j, a)
  PROVE  ListedOnce' /\ OneMessage' /\ RemoteStep
<1>1. \A s \in Socks : ~RequestOn(k, s) /\ \A a \in Answers : ~ReplyOn(k, a, s)
  BY NothingYet
<1>2. /\ \A j \in Calls, s \in Socks : RequestOn(j, s)' <=> RequestOn(j, s) \/ (j = k /\ s = w)
      /\ \A s \in Socks : Once(req'[s])
  BY <1>1, RequestAdded
<1>3. /\ \A j \in Calls, b \in Answers, s \in Socks : ReplyOn(j, b, s)' <=> ReplyOn(j, b, s)
      /\ \A s \in Socks : OnceByFirst(rep'[s])
  BY RepliesSame
<1>4. call'[k] = "wait" /\ \A j \in Calls \ {k} : call'[j] = call[j]
  BY DEF ClientType
<1>5. OneMessage'
  BY <1>1, <1>2, <1>3, <1>4 DEF OneMessage
<1>6. \A j \in Calls \ {k} : Requested(j)' <=> Requested(j)
  BY <1>2 DEF Requested
<1>7. Requested(k)' /\ ~Replied(k, "result")' /\ ~Replied(k, "unknown")'
  BY <1>1, <1>2 DEF Requested, Replied, Answers
<1>8. MessageOf'[k] = "request"
  BY <1>4, <1>7 DEF MessageOf
<1>9. ToldOf' = [ToldOf EXCEPT ![k] = "open"] /\ MessageOf' = [MessageOf EXCEPT ![k] = "request"]
  BY <1>6, <1>8, OneCall DEF ClientType
<1>10. ToldOf[k] \in {"idle", "open"} /\ MessageOf[k] = "unsent"
  BY Whereabouts DEF ToldOf, Early
<1>11. Remote!Transmit(k)
  BY <1>9, <1>10 DEF Remote!Transmit
<1>12. ListedOnce'
  BY <1>2, <1>3 DEF ListedOnce
<1> QED BY <1>5, <1>11, <1>12 DEF RemoteStep, Remote!CallsNext

\* A call that has not been issued is not sent: its caller waits in vain, or is told.
LEMMA UnsentStep ==
  ASSUME ClientType, ListedOnce, OneMessage, NEW k \in Calls, call[k] \in Early, NEW o \in {"wait", "failed"},
         UNCHANGED sock, UNCHANGED rep, UNCHANGED req, call' = [call EXCEPT ![k] = o],
         \A j \in Calls, a \in Answers : Replied(j, a)' <=> Replied(j, a)
  PROVE  ListedOnce' /\ OneMessage' /\ RemoteStep
<1>2. /\ \A j \in Calls, s \in Socks : RequestOn(j, s)' <=> RequestOn(j, s)
      /\ \A s \in Socks : Once(req'[s])
  BY RequestsSame
<1>3. /\ \A j \in Calls, b \in Answers, s \in Socks : ReplyOn(j, b, s)' <=> ReplyOn(j, b, s)
      /\ \A s \in Socks : OnceByFirst(rep'[s])
  BY RepliesSame
<1>4. call'[k] = o /\ \A j \in Calls \ {k} : call'[j] = call[j]
  BY DEF ClientType
<1>5. OneMessage'
  BY <1>2, <1>3, <1>4, FewerMessages DEF Early
<1>6. \A j \in Calls : Requested(j)' <=> Requested(j)
  BY <1>2 DEF Requested
<1>7. ~Requested(k)' /\ ~Replied(k, "result")' /\ ~Replied(k, "unknown")'
  BY <1>6, Whereabouts DEF Answers
<1>8. MessageOf'[k] = "gone"
  BY <1>4, <1>7 DEF MessageOf
<1>9. /\ ToldOf' = [ToldOf EXCEPT ![k] = IF o = "wait" THEN "open" ELSE "failed"]
      /\ MessageOf' = [MessageOf EXCEPT ![k] = "gone"]
  BY <1>6, <1>8, OneCall DEF ClientType
<1>10. ToldOf[k] \in {"idle", "open"} /\ MessageOf[k] = "unsent"
  BY Whereabouts DEF ToldOf, Early
<1>11. Remote!Transmit(k) \/ Remote!Refuse(k)
  BY <1>9, <1>10 DEF Remote!Transmit, Remote!Refuse
<1>12. ListedOnce'
  BY <1>2, <1>3 DEF ListedOnce
<1> QED BY <1>5, <1>11, <1>12 DEF RemoteStep, Remote!CallsNext

\* Filing a call and sending it, on whatever socket the session has.
LEMMA IssueRemote ==
  ASSUME ClientType, ListedOnce, OneMessage, NEW k \in Calls, NEW w \in Socks \union {NoSock}, call[k] \in Early,
         Issue(k, w), UNCHANGED sock, UNCHANGED rep, UNCHANGED rx
  PROVE  /\ ListedOnce' /\ OneMessage' /\ RemoteStep
         /\ \A s \in Socks \ {w} : req'[s] = req[s]
<1>1. \A j \in Calls, a \in Answers : Replied(j, a)' <=> Replied(j, a)
  BY DEF Replied, ReplyOn
<1>2. CASE /\ w # NoSock /\ rx[w] # NoSession /\ sock[w] = "open"
  <2>1. req' = [req EXCEPT ![w] = Append(@, k)] /\ call' = [call EXCEPT ![k] = "wait"] /\ w \in Socks
    BY <1>2 DEF Issue
  <2> QED BY <1>1, <1>2, <2>1, SentStep DEF ClientType
<1>3. CASE ~(w # NoSock /\ rx[w] # NoSession /\ sock[w] = "open")
  <2>1. UNCHANGED req /\ (call' = [call EXCEPT ![k] = "wait"] \/ call' = [call EXCEPT ![k] = "failed"])
    BY <1>3 DEF Issue
  <2> QED BY <1>1, <2>1, UnsentStep
<1> QED BY <1>2, <1>3

\* execute on a connected session sends the call, once.
LEMMA ExecuteCalls ==
  ASSUME BridgeInv, WireInv, NEW k \in Calls, NEW c \in Sessions, Execute(k, c)
  PROVE  WireInv' /\ RemoteStep
<1>1. /\ ClientType /\ DialsApart /\ ListedOnce /\ OneMessage /\ DialsQuiet /\ ws[c] \in Socks \union {NoSock}
      /\ call[k] \in Early /\ Issue(k, ws[c]) /\ UNCHANGED <<sock, rep, rx, dial>>
  BY DEF BridgeInv, WireInv, ClientType, Execute, Early, hubVars
<1>2. PICK w \in Socks \union {NoSock} : w = ws[c]
  BY <1>1
<1>3. /\ ListedOnce' /\ OneMessage' /\ RemoteStep
      /\ \A s \in Socks \ {w} : req'[s] = req[s]
  BY <1>1, <1>2, IssueRemote
<1>4. DialsQuiet'
  BY <1>1, <1>2, <1>3 DEF DialsQuiet, DialsApart, ClientType
<1> QED BY <1>3, <1>4 DEF WireInv

\* A call whose dial failed is sent on the socket its session has, if any.
LEMMA DialFailCalls ==
  ASSUME BridgeInv, WireInv, NEW k \in Calls, DialFail(k)
  PROVE  WireInv' /\ RemoteStep
<1>1. /\ ClientType /\ DialsApart /\ ListedOnce /\ OneMessage /\ DialsQuiet
      /\ call[k] \in Early /\ Issue(k, ws[via[k]]) /\ UNCHANGED <<sock, rep, rx>>
      /\ dial' = [dial EXCEPT ![k] = NoSock] /\ via[k] \in Sessions
  BY DEF BridgeInv, WireInv, DialFail, Early, hubVars, DialsApart
<1>2. PICK w \in Socks \union {NoSock} : w = ws[via[k]]
  BY <1>1 DEF ClientType
<1>3. /\ ListedOnce' /\ OneMessage' /\ RemoteStep
      /\ \A s \in Socks \ {w} : req'[s] = req[s]
  BY <1>1, <1>2, IssueRemote
<1>4. ASSUME NEW j \in Calls, dial'[j] # NoSock PROVE req'[dial'[j]] = << >> /\ rep'[dial'[j]] = << >>
  <2>1. dial'[j] = dial[j] /\ dial[j] \in Socks
    BY <1>1, <1>4 DEF ClientType
  <2>2. dial[j] # w
    BY <1>1, <1>2, <1>4, <2>1 DEF DialsApart
  <2> QED BY <1>1, <1>3, <1>4, <2>1, <2>2 DEF DialsQuiet
<1>5. DialsQuiet'
  BY <1>4 DEF DialsQuiet
<1> QED BY <1>3, <1>5 DEF WireInv

\* A call whose dial succeeded is sent on the new socket, on which nothing is under way.
LEMMA DialOkCalls ==
  ASSUME BridgeInv, WireInv, NEW k \in Calls, DialOk(k)
  PROVE  WireInv' /\ RemoteStep
<1>1. /\ ClientType /\ DialsApart /\ ListedOnce /\ OneMessage /\ DialsQuiet /\ call[k] \in Early
      /\ dial[k] \in Socks /\ via[k] \in Sessions
  BY DEF BridgeInv, WireInv, DialOk, Early, DialsApart
<1>2. PICK s \in Socks : s = dial[k]
  BY <1>1
<1>3. PICK c \in Sessions : c = via[k]
  BY <1>1
<1>4. /\ dial' = [dial EXCEPT ![k] = NoSock] /\ rx' = [rx EXCEPT ![s] = c] /\ call' = [call EXCEPT ![k] = "wait"]
      /\ req' = (IF sock[s] = "open" THEN [req EXCEPT ![s] = Append(@, k)] ELSE req)
      /\ UNCHANGED <<rep, sock>>
  BY <1>2, <1>3 DEF DialOk, hubVars
<1>5. rep[s] = << >>
  BY <1>1, <1>2, SockAssumption DEF DialsQuiet
<1>6. \A j \in Calls, a \in Answers : Replied(j, a)' <=> Replied(j, a)
  <2>1. \A j \in Calls, a \in Answers : ~ReplyOn(j, a, s)
    BY <1>5 DEF ReplyOn
  <2>2. \A j \in Calls, a \in Answers, t \in Socks : ReplyOn(j, a, t)' <=> ReplyOn(j, a, t)
    BY <1>1, <1>4, RepliesSame
  <2>3. \A t \in Socks \ {s} : rx'[t] = rx[t]
    BY <1>1, <1>4 DEF ClientType
  <2> QED BY <2>1, <2>2, <2>3 DEF Replied
<1>7. ListedOnce' /\ OneMessage' /\ RemoteStep
  <2>1. CASE sock[s] = "open"
    <3>1. req' = [req EXCEPT ![s] = Append(@, k)]
      BY <1>4, <2>1
    <3> QED BY <1>1, <1>4, <1>6, <2>1, <3>1, SentStep
  <2>2. CASE sock[s] # "open"
    <3>1. UNCHANGED req
      BY <1>4, <2>2
    <3> QED BY <1>1, <1>4, <1>6, <2>2, <3>1, UnsentStep
  <2> QED BY <2>1, <2>2
<1>8. ASSUME NEW j \in Calls, dial'[j] # NoSock PROVE req'[dial'[j]] = << >> /\ rep'[dial'[j]] = << >>
  <2>1. dial'[j] = dial[j] /\ dial[j] \in Socks /\ j # k
    BY <1>1, <1>4, <1>8 DEF ClientType
  <2>2. dial[j] # s
    BY <1>1, <1>2, <2>1, SockAssumption DEF DialsApart
  <2>3. \A t \in Socks \ {s} : req'[t] = req[t]
    BY <1>1, <1>4 DEF ClientType
  <2> QED BY <1>1, <1>4, <1>8, <2>1, <2>2, <2>3 DEF DialsQuiet
<1>9. DialsQuiet'
  BY <1>8 DEF DialsQuiet
<1> QED BY <1>7, <1>9 DEF WireInv

\* A call starts to dial: on a socket that was closed and that nobody read, so that no message is lost by its reuse.
LEMMA DialCalls ==
  ASSUME BridgeInv, WireInv, NEW k \in Calls, NEW c \in Sessions, NEW s \in Socks, Dial(k, c, s)
  PROVE  WireInv' /\ RemoteStep
<1>1. /\ ClientType /\ ListedOnce /\ OneMessage /\ DialsQuiet /\ call[k] = "idle"
      /\ sock \in [Socks -> {"open", "closed"}]
  BY DEF BridgeInv, WireInv, Dial, HubInv, Core, CoreType
<1>2. /\ call' = [call EXCEPT ![k] = "dial"] /\ dial' = [dial EXCEPT ![k] = s]
      /\ req' = [req EXCEPT ![s] = << >>] /\ rep' = [rep EXCEPT ![s] = << >>] /\ UNCHANGED rx
      /\ sock' = [sock EXCEPT ![s] = "open"] /\ sock[s] = "closed" /\ rx[s] = NoSession
      /\ \A j \in Calls : dial[j] # s
  BY DEF Dial, Open, Fresh, BridgeInv, EndsClosed, Over
<1>3. /\ \A j \in Calls, t \in Socks : RequestOn(j, t)' <=> RequestOn(j, t) /\ t # s
      /\ \A t \in Socks : Once(req'[t])
  BY <1>1, <1>2, RequestsCleared
<1>4. /\ \A j \in Calls, b \in Answers, t \in Socks : ReplyOn(j, b, t)' <=> ReplyOn(j, b, t) /\ t # s
      /\ \A t \in Socks : OnceByFirst(rep'[t])
  BY <1>1, <1>2, RepliesCleared
<1>5. call'[k] = "dial" /\ \A j \in Calls \ {k} : call'[j] = call[j]
  BY <1>1, <1>2 DEF ClientType
<1>6. OneMessage'
  BY <1>1, <1>3, <1>4, <1>5, FewerMessages DEF Early
<1>7. ListedOnce'
  BY <1>3, <1>4 DEF ListedOnce
<1>8. DialsQuiet'
  BY <1>1, <1>2 DEF DialsQuiet, ClientType
<1>9. \A j \in Calls : Requested(j)' <=> Requested(j)
  <2>1. \A t \in Socks \ {s} : sock'[t] = sock[t]
    BY <1>1, <1>2
  <2> QED BY <1>2, <1>3, <2>1 DEF Requested
<1>10. \A j \in Calls, a \in Answers : Replied(j, a)' <=> Replied(j, a)
  BY <1>2, <1>4 DEF Replied
<1>11. MessageOf'[k] = MessageOf[k]
  BY <1>1, <1>5, <1>9, <1>10, Unmoved DEF Early
<1>12. PICK m : m = MessageOf[k]
  OBVIOUS
<1>13. ToldOf' = [ToldOf EXCEPT ![k] = "open"] /\ MessageOf' = [MessageOf EXCEPT ![k] = m]
  BY <1>1, <1>2, <1>9, <1>10, <1>11, <1>12, OneCall DEF ClientType
<1>14. MessageOf' = MessageOf
  BY <1>12, <1>13 DEF MessageOf
<1>15. ToldOf[k] = "idle"
  BY <1>1 DEF ToldOf
<1>16. Remote!Begin(k)
  BY <1>13, <1>14, <1>15 DEF Remote!Begin
<1> QED BY <1>6, <1>7, <1>8, <1>16 DEF WireInv, RemoteStep, Remote!CallsNext

\* A caller gives up; the message goes its way.
LEMMA TimeoutCalls ==
  ASSUME BridgeInv, WireInv, NEW k \in Calls, Timeout(k)
  PROVE  WireInv' /\ RemoteStep
<1>1. /\ ClientType /\ ListedOnce /\ OneMessage /\ DialsQuiet /\ call[k] \in {"wait", "stuck"}
      /\ call' = [call EXCEPT ![k] = "timeout"] /\ UNCHANGED <<sock, rx, req, rep, dial>>
  BY DEF BridgeInv, WireInv, Timeout, hubVars
<1>2. /\ \A j \in Calls, t \in Socks : RequestOn(j, t)' <=> RequestOn(j, t)
      /\ \A t \in Socks : Once(req'[t])
  BY <1>1, RequestsSame
<1>3. /\ \A j \in Calls, b \in Answers, t \in Socks : ReplyOn(j, b, t)' <=> ReplyOn(j, b, t)
      /\ \A t \in Socks : OnceByFirst(rep'[t])
  BY <1>1, RepliesSame
<1>4. call'[k] = "timeout" /\ \A j \in Calls \ {k} : call'[j] = call[j]
  BY <1>1 DEF ClientType
<1>5. OneMessage'
  BY <1>1, <1>2, <1>3, <1>4, FewerMessages DEF Early
<1>6. ListedOnce' /\ DialsQuiet'
  BY <1>1, <1>2, <1>3 DEF ListedOnce, DialsQuiet
<1>7. \A j \in Calls : Requested(j)' <=> Requested(j)
  BY <1>1, <1>2 DEF Requested
<1>8. \A j \in Calls, a \in Answers : Replied(j, a)' <=> Replied(j, a)
  BY <1>1, <1>3 DEF Replied
<1>9. MessageOf'[k] = MessageOf[k]
  BY <1>1, <1>4, <1>7, <1>8, Unmoved DEF Early
<1>10. PICK m : m = MessageOf[k]
  OBVIOUS
<1>11. ToldOf' = [ToldOf EXCEPT ![k] = "timeout"] /\ MessageOf' = [MessageOf EXCEPT ![k] = m]
  BY <1>1, <1>7, <1>8, <1>9, <1>10, OneCall DEF ClientType
<1>12. MessageOf' = MessageOf
  BY <1>10, <1>11 DEF MessageOf
<1>13. ToldOf[k] = "open"
  BY <1>1 DEF ToldOf
<1>14. MessageOf[k] # "unsent"
  <2>1. CASE Requested(k)
    BY <1>1, <2>1, Whereabouts
  <2>2. ASSUME NEW a \in Answers, Replied(k, a) PROVE MessageOf[k] # "unsent"
    BY <1>1, <2>2, Whereabouts DEF Answers
  <2>3. CASE ~Requested(k) /\ \A a \in Answers : ~Replied(k, a)
    <3>1. call[k] \notin Early
      BY <1>1 DEF Early
    <3>2. MessageOf[k] = "gone"
      BY <1>1, <2>3, <3>1, Whereabouts
    <3> QED BY <3>2
  <2> QED BY <2>1, <2>2, <2>3
<1>15. Remote!Expire(k)
  BY <1>11, <1>12, <1>13, <1>14 DEF Remote!Expire
<1> QED BY <1>5, <1>6, <1>15 DEF WireInv, RemoteStep, Remote!CallsNext

\* _receive_loop: the reply reaches its own caller, if that one still waits, and is gone.
LEMMA ReceiveCalls ==
  ASSUME BridgeInv, WireInv, NEW s \in Socks, Receive(s)
  PROVE  WireInv' /\ RemoteStep
<1>1. /\ ClientType /\ ListedOnce /\ OneMessage /\ DialsQuiet /\ rx[s] # NoSession /\ rep[s] # << >>
      /\ rep' = [rep EXCEPT ![s] = Tail(@)] /\ UNCHANGED <<sock, rx, req, dial>>
  BY DEF BridgeInv, WireInv, Receive, hubVars
<1>2. PICK k \in Calls, a \in Answers :
         /\ Head(rep[s])[1] = k /\ Head(rep[s])[2] = a /\ ReplyOn(k, a, s)
         /\ \A j \in Calls, b \in Answers, t \in Socks :
              ReplyOn(j, b, t)' <=> ReplyOn(j, b, t) /\ ~(j = k /\ b = a /\ t = s)
         /\ \A t \in Socks : OnceByFirst(rep'[t])
  BY <1>1, ReplyTaken
<1>3. /\ \A j \in Calls, t \in Socks : RequestOn(j, t)' <=> RequestOn(j, t)
      /\ \A t \in Socks : Once(req'[t])
  BY <1>1, RequestsSame
<1>4. call' = IF k \in pending /\ call[k] = "wait" THEN [call EXCEPT ![k] = a] ELSE call
  BY <1>2 DEF Receive
<1>5. ListedOnce'
  BY <1>2, <1>3 DEF ListedOnce
<1>6. DialsQuiet'
  <2>1. \A j \in Calls : dial[j] # NoSock => dial[j] # s /\ dial[j] \in Socks
    BY <1>1 DEF DialsQuiet, ClientType
  <2>2. \A t \in Socks \ {s} : rep'[t] = rep[t]
    BY <1>1 DEF ClientType
  <2> QED BY <1>1, <2>1, <2>2 DEF DialsQuiet
<1>7. CASE ~(k \in pending /\ call[k] = "wait")
  <2>1. call' = call
    BY <1>4, <1>7
  <2>2. OneMessage' /\ RemoteStep
    BY <1>1, <1>2, <1>3, <2>1, QuietStep DEF ClientType
  <2> QED BY <1>5, <1>6, <2>2 DEF WireInv
<1>8. CASE k \in pending /\ call[k] = "wait"
  <2>1. call' = [call EXCEPT ![k] = a]
    BY <1>4, <1>8
  <2>2. call'[k] = a /\ \A j \in Calls \ {k} : call'[j] = call[j]
    BY <1>1, <2>1 DEF ClientType
  <2>3. OneMessage'
    BY <1>1, <1>2, <1>3, <2>2, FewerMessages DEF Early, Answers
  <2>4. Replied(k, a) /\ ToldOf[k] = "open"
    BY <1>1, <1>2, <1>8 DEF Replied, ToldOf
  <2>5. MessageOf[k] = a
    BY <1>1, <2>4, Whereabouts
  <2>6. \A j \in Calls : Requested(j)' <=> Requested(j)
    BY <1>1, <1>3 DEF Requested
  <2>7. \A j \in Calls \ {k}, b \in Answers : Replied(j, b)' <=> Replied(j, b)
    BY <1>1, <1>2 DEF Replied
  <2>8. ~Requested(k) /\ \A b \in Answers : ~Replied(k, b)'
    BY <1>1, <1>2, <2>4 DEF Requested, Replied, OneMessage
  <2>9. MessageOf'[k] = "gone"
    <3>1. ~Requested(k)' /\ ~Replied(k, "result")' /\ ~Replied(k, "unknown")' /\ call'[k] \notin {"idle", "dial"}
      BY <2>2, <2>6, <2>8 DEF Answers
    <3> QED BY <3>1 DEF MessageOf
  <2>10. a \notin {"dial", "wait", "stuck"}
    BY DEF Answers
  <2>11. ToldOf' = [ToldOf EXCEPT ![k] = a] /\ MessageOf' = [MessageOf EXCEPT ![k] = "gone"]
    BY <1>1, <2>1, <2>6, <2>7, <2>9, <2>10, OneCall DEF ClientType
  <2>12. Remote!Answer(k)
    BY <2>4, <2>5, <2>11 DEF Remote!Answer, Answers
  <2> QED BY <1>5, <1>6, <2>3, <2>12 DEF WireInv, RemoteStep, Remote!CallsNext
<1> QED BY <1>7, <1>8

\* The end of a receive loop loses the replies on its socket.
LEMMA ReceiveEndCalls ==
  ASSUME BridgeInv, WireInv, NEW s \in Socks, ReceiveEnd(s)
  PROVE  WireInv' /\ RemoteStep
<1>1. /\ ClientType /\ ListedOnce /\ OneMessage /\ DialsQuiet
      /\ rx' = [rx EXCEPT ![s] = NoSession] /\ rep' = [rep EXCEPT ![s] = << >>] /\ UNCHANGED <<sock, req, dial, call>>
  BY DEF BridgeInv, WireInv, ReceiveEnd, hubVars
<1>2. /\ \A j \in Calls, t \in Socks : RequestOn(j, t)' <=> RequestOn(j, t)
      /\ \A t \in Socks : Once(req'[t])
  BY <1>1, RequestsSame
<1>3. /\ \A j \in Calls, b \in Answers, t \in Socks : ReplyOn(j, b, t)' <=> ReplyOn(j, b, t) /\ t # s
      /\ \A t \in Socks : OnceByFirst(rep'[t])
  BY <1>1, RepliesCleared
<1>4. ListedOnce'
  BY <1>2, <1>3 DEF ListedOnce
<1>5. DialsQuiet'
  BY <1>1 DEF DialsQuiet, ClientType
<1>6. \A t \in Socks : rx'[t] # NoSession => rx[t] # NoSession
  BY <1>1 DEF ClientType
<1>7. OneMessage' /\ RemoteStep
  BY <1>1, <1>2, <1>3, <1>6, QuietStep DEF ClientType
<1> QED BY <1>4, <1>5, <1>7 DEF WireInv

\* Steps that leave what is under way alone, and reopen no socket.
LEMMA UntouchedCalls ==
  ASSUME BridgeInv, WireInv, UNCHANGED <<req, rep>>,
         call' \in [Calls -> {"idle", "dial", "wait", "stuck"} \union Ended],
         \A j \in Calls : call'[j] = call[j] \/ (call[j] \in {"dial", "wait"} /\ call'[j] = "stuck"),
         \A s \in Socks : (sock'[s] = "open" => sock[s] = "open") /\ (rx'[s] # NoSession => rx[s] # NoSession),
         \A j \in Calls : dial'[j] \in {dial[j], NoSock}
  PROVE  WireInv' /\ RemoteStep
<1>1. ClientType /\ ListedOnce /\ OneMessage /\ DialsQuiet
  BY DEF BridgeInv, WireInv
<1>2. /\ \A j \in Calls, t \in Socks : RequestOn(j, t)' <=> RequestOn(j, t)
      /\ \A t \in Socks : Once(req'[t])
  BY <1>1, RequestsSame
<1>3. /\ \A j \in Calls, b \in Answers, t \in Socks : ReplyOn(j, b, t)' <=> ReplyOn(j, b, t)
      /\ \A t \in Socks : OnceByFirst(rep'[t])
  BY <1>1, RepliesSame
<1>4. ListedOnce'
  BY <1>2, <1>3 DEF ListedOnce
<1>5. DialsQuiet'
  BY <1>1 DEF DialsQuiet
<1>6. OneMessage' /\ RemoteStep
  BY <1>1, <1>2, <1>3, QuietStep
<1> QED BY <1>4, <1>5, <1>6 DEF WireInv

\* CloudSession.close loses what is under way for the session.
LEMMA CloseSessionCalls ==
  ASSUME BridgeInv, WireInv, NEW c \in Sessions, CloseSession(c)
  PROVE  WireInv' /\ RemoteStep
<1>1. /\ ClientType /\ sock \in [Socks -> {"open", "closed"}]
      /\ sock' = [s \in Socks |-> IF s = ws[c] THEN "closed" ELSE sock[s]]
      /\ rx' = [s \in Socks |-> IF rx[s] = c THEN NoSession ELSE rx[s]]
      /\ call' = [k \in Calls |-> IF via[k] = c /\ call[k] \in {"dial", "wait"} THEN "stuck" ELSE call[k]]
      /\ dial' = [k \in Calls |-> IF via[k] = c THEN NoSock ELSE dial[k]]
      /\ UNCHANGED <<req, rep>>
  BY DEF BridgeInv, CloseSession, ClientType, HubInv, Core, CoreType
<1>2. \A s \in Socks : (sock'[s] = "open" => sock[s] = "open") /\ (rx'[s] # NoSession => rx[s] # NoSession)
  BY <1>1
<1>3. \A j \in Calls : call'[j] = call[j] \/ (call[j] \in {"dial", "wait"} /\ call'[j] = "stuck")
  BY <1>1
<1>4. call' \in [Calls -> {"idle", "dial", "wait", "stuck"} \union Ended] /\ \A j \in Calls : dial'[j] \in {dial[j], NoSock}
  BY <1>1 DEF ClientType
<1> QED BY <1>1, <1>2, <1>3, <1>4, UntouchedCalls

\* A broken connection loses the requests on it.
LEMMA NetworkDropCalls ==
  ASSUME BridgeInv, WireInv, NEW s \in Socks, NetworkDrop(s)
  PROVE  WireInv' /\ RemoteStep
<1>1. /\ ClientType /\ sock \in [Socks -> {"open", "closed"}]
      /\ sock' = [sock EXCEPT ![s] = "closed"] /\ UNCHANGED <<req, rep, call, rx, dial>>
  BY DEF BridgeInv, NetworkDrop, PeerClose, HubInv, Core, CoreType
<1>2. \A t \in Socks : sock'[t] = "open" => sock[t] = "open"
  BY <1>1
<1> QED BY <1>1, <1>2, UntouchedCalls DEF ClientType

\* The hub only closes sockets: the requests on them are lost.
LEMMA HubCalls ==
  ASSUME BridgeInv, WireInv, NoReopen, UNCHANGED clientVars
  PROVE  WireInv' /\ RemoteStep
<1>1. ClientType /\ UNCHANGED <<req, rep, call, rx, dial>> /\ \A t \in Socks : sock'[t] = "open" => sock[t] = "open"
  BY DEF BridgeInv, clientVars, NoReopen
<1> QED BY <1>1, UntouchedCalls DEF ClientType

\* The server serves the first request on a socket, once.
LEMMA DispatchCalls ==
  ASSUME BridgeInv, WireInv, NEW s \in Socks, Dispatch(s)
  PROVE  WireInv' /\ RemoteStep
<1>1. /\ ClientType /\ ListedOnce /\ OneMessage /\ DialsQuiet /\ sock[s] = "open" /\ req[s] # << >>
      /\ req' = [req EXCEPT ![s] = Tail(@)] /\ UNCHANGED <<sock, rx, call, dial>>
  BY DEF BridgeInv, WireInv, Dispatch, hubVars
<1>2. PICK k \in Calls :
         /\ k = Head(req[s]) /\ RequestOn(k, s)
         /\ \A j \in Calls, t \in Socks : RequestOn(j, t)' <=> RequestOn(j, t) /\ ~(j = k /\ t = s)
         /\ \A t \in Socks : Once(req'[t])
  BY <1>1, RequestTaken
<1>3. PICK a \in Answers : a = IF SessionMethod \in Handlers THEN "result" ELSE "unknown"
  BY DEF Answers
<1>4. rep' = [rep EXCEPT ![s] = Append(@, <<k, a>>)]
  BY <1>2, <1>3 DEF Dispatch
<1>5. \A t \in Socks, b \in Answers : ~ReplyOn(k, b, t)
  BY <1>1, <1>2 DEF OneMessage
<1>6. /\ \A j \in Calls, b \in Answers, t \in Socks :
           ReplyOn(j, b, t)' <=> ReplyOn(j, b, t) \/ (j = k /\ b = a /\ t = s)
      /\ \A t \in Socks : OnceByFirst(rep'[t])
  BY <1>1, <1>4, <1>5, ReplyAdded
<1>7. ListedOnce'
  BY <1>2, <1>6 DEF ListedOnce
<1>8. DialsQuiet'
  <2>1. \A j \in Calls : dial[j] # NoSock => dial[j] # s /\ dial[j] \in Socks
    BY <1>1 DEF DialsQuiet, ClientType
  <2>2. \A t \in Socks \ {s} : rep'[t] = rep[t] /\ req'[t] = req[t]
    BY <1>1, <1>4 DEF ClientType
  <2> QED BY <1>1, <2>1, <2>2 DEF DialsQuiet
<1>9. OneMessage'
  <2>1. \A t \in Socks : ~RequestOn(k, t)'
    BY <1>1, <1>2 DEF OneMessage
  <2>2. \A t \in Socks, b \in Answers : ReplyOn(k, b, t)' <=> b = a /\ t = s
    BY <1>5, <1>6
  <2>3. call[k] \notin {"idle", "dial"}
    BY <1>1, <1>2 DEF OneMessage
  <2>4. \A j \in Calls \ {k}, t \in Socks : RequestOn(j, t)' <=> RequestOn(j, t)
    BY <1>2
  <2>5. \A j \in Calls \ {k}, b \in Answers, t \in Socks : ReplyOn(j, b, t)' <=> ReplyOn(j, b, t)
    BY <1>6
  <2> QED BY <1>1, <2>1, <2>2, <2>3, <2>4, <2>5 DEF OneMessage
<1>10. Requested(k) /\ \A j \in Calls \ {k} : Requested(j)' <=> Requested(j)
  BY <1>1, <1>2 DEF Requested
<1>11. ~Requested(k)'
  BY <1>1, <1>2 DEF Requested, OneMessage
<1>12. \A j \in Calls \ {k}, b \in Answers : Replied(j, b)' <=> Replied(j, b)
  BY <1>1, <1>6 DEF Replied
<1>13. MessageOf[k] = "request" /\ call[k] \notin Early
  BY <1>1, <1>10, Whereabouts
<1>14. ToldOf[k] # "idle"
  BY <1>13 DEF ToldOf, Early
<1>15. PICK m \in Answers \union {"gone"} : MessageOf'[k] = m
  BY <1>1, <1>11, <1>13 DEF MessageOf, Answers, Early
<1>16. ToldOf' = ToldOf
  BY <1>1 DEF ToldOf
<1>17. MessageOf' = [MessageOf EXCEPT ![k] = m]
  <2>1. \A j \in Calls \ {k} : MessageOf'[j] = MessageOf[j]
    BY <1>1, <1>10, <1>12, Unmoved
  <2>2. MessageOf' = [j \in Calls |-> MessageOf'[j]] /\ MessageOf = [j \in Calls |-> MessageOf[j]]
    BY DEF MessageOf
  <2> QED BY <1>15, <2>1, <2>2
<1>18. CASE m \in Answers
  <2>1. Remote!Serve(k)
    BY <1>13, <1>16, <1>17, <1>18 DEF Remote!Serve, Answers
  <2> QED BY <1>7, <1>8, <1>9, <2>1 DEF WireInv, RemoteStep, Remote!CallsNext
<1>19. CASE m = "gone"
  <2>1. MessageOf' = [j \in Calls |-> IF j \in {k} THEN "gone" ELSE MessageOf[j]]
    BY <1>17, <1>19 DEF MessageOf
  <2>2. Remote!Lose({k}) /\ {k} \in SUBSET Calls
    BY <1>14, <1>16, <2>1 DEF Remote!Lose
  <2> QED BY <1>7, <1>8, <1>9, <2>2 DEF WireInv, RemoteStep, Remote!CallsNext
<1> QED BY <1>18, <1>19

\* Every step of the bridge keeps the messages single, and is a step of the remote calls.
LEMMA BridgeCallsStep ==
  ASSUME BridgeInv, WireInv, [BridgeNext]_bridgeVars
  PROVE  WireInv' /\ RemoteStep
<1>1. CASE HubStep /\ UNCHANGED clientVars
  <2>1. Beat \in Messengers
    BY DEF Messengers
  <2>2. NoReopen
    BY <1>1, <2>1, HubNoReopen DEF HubStep, BridgeInv
  <2> QED BY <1>1, <2>2, HubCalls
<1>2. CASE UNCHANGED bridgeVars
  <2>1. UNCHANGED hubVars /\ UNCHANGED clientVars
    BY <1>2 DEF bridgeVars
  <2>2. NoReopen
    BY <2>1, TaskFacts DEF hubVars, NoReopen
  <2> QED BY <2>1, <2>2, HubCalls
<1>3. ASSUME NEW k \in Calls, DialOk(k) \/ DialFail(k) \/ Timeout(k) PROVE WireInv' /\ RemoteStep
  BY <1>3, DialOkCalls, DialFailCalls, TimeoutCalls
<1>4. ASSUME NEW k \in Calls, NEW c \in Sessions, Execute(k, c) \/ \E s \in Socks : Dial(k, c, s)
      PROVE  WireInv' /\ RemoteStep
  BY <1>4, ExecuteCalls, DialCalls
<1>5. ASSUME NEW s \in Socks, Receive(s) \/ ReceiveEnd(s) \/ NetworkDrop(s) \/ Dispatch(s) PROVE WireInv' /\ RemoteStep
  BY <1>5, ReceiveCalls, ReceiveEndCalls, NetworkDropCalls, DispatchCalls
<1> QED BY <1>1, <1>2, <1>3, <1>4, <1>5, CloseSessionCalls DEF BridgeNext

\* Nothing is under way at first.
LEMMA CallsInitially == BridgeInit => WireInv /\ Remote!CallsInit
<1> SUFFICES ASSUME BridgeInit PROVE WireInv /\ Remote!CallsInit
  OBVIOUS
<1>1. /\ \A s \in Socks : req[s] = << >> /\ rep[s] = << >>
      /\ \A k \in Calls : call[k] = "idle" /\ dial[k] = NoSock
  BY DEF BridgeInit
<1>2. DOMAIN << >> = {}
  OBVIOUS
<1>3. ListedOnce /\ DialsQuiet /\ \A k \in Calls, s \in Socks : ~RequestOn(k, s) /\ \A a \in Answers : ~ReplyOn(k, a, s)
  BY <1>1, <1>2 DEF ListedOnce, DialsQuiet, Once, OnceByFirst, RequestOn, ReplyOn
<1>4. OneMessage
  BY <1>3 DEF OneMessage
<1>5. ~ (\E k \in Calls : Requested(k) \/ Replied(k, "result") \/ Replied(k, "unknown"))
  BY <1>3 DEF Requested, Replied, Answers
<1>6. Remote!CallsInit
  BY <1>1, <1>5 DEF Remote!CallsInit, ToldOf, MessageOf
<1> QED BY <1>3, <1>4, <1>6 DEF WireInv

\* What is under way is single at any time.
LEMMA WireInductive == BridgeSafety => []WireInv
<1>1. BridgeInv /\ WireInv /\ [BridgeNext]_bridgeVars => WireInv'
  BY BridgeCallsStep
<1> QED BY <1>1, CallsInitially, BridgeInductive, PTL DEF BridgeSafety

\* A call has at any time at most one message on all the sockets together, request or reply: no redial and no
\* reuse of a socket ever has the server run a call twice.
THEOREM NoCallTwiceOnWire == BridgeSafety => []OneMessage
<1>1. WireInv => OneMessage
  BY DEF WireInv
<1> QED BY <1>1, WireInductive, PTL

\* Over redials, sockets that change hands, late replies, broken connections and sessions that are closed under
\* their callers, the calls of any number of sessions are remote calls in the sense of RemoteCall: a message is
\* sent, served and answered at most once, it may be lost but never comes twice, and a caller is told the server's
\* answer to its own call, a failure or a timeout, and only one of them.
THEOREM BridgeImplementsCalls == BridgeSafety => ImplementsCalls
<1>1. BridgeInit => Remote!CallsInit
  BY CallsInitially
<1>2. BridgeInv /\ WireInv /\ [BridgeNext]_bridgeVars => [Remote!CallsNext]_(Remote!callsVars)
  BY BridgeCallsStep DEF RemoteStep
<1> QED BY <1>1, <1>2, BridgeInductive, WireInductive, PTL DEF BridgeSafety, ImplementsCalls, Remote!CallsSpec

-----------------------------------------------------------------------------
(* The circuit breaker.                                                    *)

\* retry_async sleeps only if there is an attempt left.
AttemptLeft == \A c \in Callers : at[c] = "sleep" => attempt[c] < MaxRetries

\* The inductive invariant.
ResilienceInv == ResilienceTypeOK /\ AttemptLeft /\ StateMatchesCount /\ OpenShedsLoad

\* It holds before any call.
LEMMA ResilienceInitially == ResilienceInit => ResilienceInv
BY BreakerAssumption, RetryAssumption, DelayAssumption
   DEF ResilienceInit, ResilienceInv, ResilienceTypeOK, AttemptLeft, StateMatchesCount,
       OpenShedsLoad, Under

\* min(delay * backoff_factor, max_delay) is a natural number again.
LEMMA BackedOffType == ASSUME NEW d \in Nat PROVE BackedOff(d) \in Nat
BY DelayAssumption, SMT DEF BackedOff

\* A failed attempt only moves its caller, and not into a call.
LEMMA AttemptFailedFacts ==
  ASSUME ResilienceTypeOK, AttemptLeft, NEW c \in Callers, AttemptFailed(c)
  PROVE  /\ at' \in [Callers -> {"idle", "enter", "call", "sleep", "local", "answered", "raised"}]
         /\ attempt' = attempt /\ delay' = delay
         /\ AttemptLeft'
         /\ Under' = Under \ {c}
BY RetryAssumption DEF ResilienceTypeOK, AttemptLeft, AttemptFailed, OutOfAttempts, Goto, Under

\* record_failure keeps state and counter in step, and notes the calls that are
\* under way when it opens the circuit.
LEMMA RecordFailureFacts ==
  ASSUME ResilienceInv, NEW c \in Callers, RecordFailure(c), Under' = Under \ {c}
  PROVE  /\ state' \in {"closed", "open", "half-open"}
         /\ failures' \in 0 .. Threshold
         /\ since' \in 0 .. ResetTimeout + 1
         /\ admitted' \subseteq Callers
         /\ StateMatchesCount'
         /\ OpenShedsLoad'
<1>1. failures \in 0 .. Threshold /\ Threshold \in Nat \ {0} /\ ResetTimeout \in Nat
  BY BreakerAssumption DEF ResilienceInv, ResilienceTypeOK
<1> DEFINE n == IF failures < Threshold THEN failures + 1 ELSE Threshold
<1>2. n \in 0 .. Threshold
  BY <1>1
<1>3. failures' = n /\ since' = 0 /\ state' = (IF n >= Threshold THEN "open" ELSE state)
      /\ admitted' = (IF n >= Threshold /\ state # "open" THEN Under \ {c} ELSE admitted)
  BY DEF RecordFailure
<1>4. n < Threshold => failures < Threshold
  BY <1>1
<1> HIDE DEF n
<1>5. StateMatchesCount'
  BY <1>1, <1>2, <1>3, <1>4 DEF ResilienceInv, StateMatchesCount
<1>6. OpenShedsLoad'
  BY <1>1, <1>2, <1>3, <1>4 DEF ResilienceInv, OpenShedsLoad
<1>7. admitted' \subseteq Callers
  BY <1>3 DEF ResilienceInv, ResilienceTypeOK, Under
<1> QED
  BY <1>1, <1>2, <1>3, <1>5, <1>6, <1>7 DEF ResilienceInv, ResilienceTypeOK

\* Every step keeps it.
LEMMA ResilienceStep == ResilienceInv /\ [ResilienceNext]_resilienceVars => ResilienceInv'
<1> SUFFICES ASSUME ResilienceInv, [ResilienceNext]_resilienceVars PROVE ResilienceInv'
  OBVIOUS
<1> USE BreakerAssumption, RetryAssumption, DelayAssumption
<1> USE DEF ResilienceInv
<1>1. ASSUME Elapse PROVE ResilienceInv'
  BY <1>1 DEF Elapse, callerVars, ResilienceTypeOK, AttemptLeft, StateMatchesCount, OpenShedsLoad, Under
<1>2. ASSUME NEW c \in Callers, Begin(c) PROVE ResilienceInv'
  BY <1>2 DEF Begin, Goto, breakerVars, ResilienceTypeOK, AttemptLeft, StateMatchesCount, OpenShedsLoad, Under
<1>3. ASSUME NEW c \in Callers, Enter(c) PROVE ResilienceInv'
  <2>1. CASE IsOpen
    <3>1. AttemptFailed(c) /\ UNCHANGED <<breakerVars, admitted>>
      BY <1>3, <2>1 DEF Enter, EnterCall
    <3>2. Under' = Under \ {c}
      BY <3>1, AttemptFailedFacts
    <3>3. ResilienceTypeOK' /\ AttemptLeft'
      BY <3>1, AttemptFailedFacts DEF ResilienceTypeOK, breakerVars
    <3> QED
      BY <3>1, <3>2, <3>3 DEF StateMatchesCount, OpenShedsLoad, breakerVars
  <2>2. CASE ~IsOpen
    <3>1. /\ at' = [at EXCEPT ![c] = "call"]
          /\ state' = (IF state = "open" THEN "half-open" ELSE state)
          /\ UNCHANGED <<failures, since, attempt, delay, admitted>>
      BY <1>3, <2>2 DEF Enter, EnterCall, Goto
    <3> QED
      BY <3>1 DEF ResilienceTypeOK, AttemptLeft, StateMatchesCount, OpenShedsLoad
  <2> QED
    BY <2>1, <2>2
<1>4. ASSUME NEW c \in Callers, CallOk(c) PROVE ResilienceInv'
  BY <1>4 DEF CallOk, RecordSuccess, Goto, ResilienceTypeOK, AttemptLeft, StateMatchesCount, OpenShedsLoad
<1>5. ASSUME NEW c \in Callers, CallRaises(c) PROVE ResilienceInv'
  <2>1. RecordFailure(c) /\ AttemptFailed(c)
    BY <1>5 DEF CallRaises
  <2>2. Under' = Under \ {c}
    BY <2>1, AttemptFailedFacts
  <2> QED
    BY <2>1, <2>2, AttemptFailedFacts, RecordFailureFacts DEF ResilienceTypeOK
<1>6. ASSUME NEW c \in Callers, CallRefused(c) PROVE ResilienceInv'
  <2>1. RecordFailure(c) /\ Goto(c, "local") /\ UNCHANGED <<attempt, delay>>
    BY <1>6 DEF CallRefused
  <2>2. Under' = Under \ {c}
    BY <2>1 DEF Goto, Under, ResilienceTypeOK
  <2> QED
    BY <2>1, <2>2, RecordFailureFacts DEF Goto, ResilienceTypeOK, AttemptLeft
<1>7. ASSUME NEW c \in Callers, Leave(c) PROVE ResilienceInv'
  BY <1>7 DEF Leave, Goto, breakerVars, ResilienceTypeOK, AttemptLeft, StateMatchesCount, OpenShedsLoad, Under
<1>8. ASSUME NEW c \in Callers, WakeUp(c) PROVE ResilienceInv'
  <2>1. attempt[c] + 1 \in 0 .. MaxRetries /\ BackedOff(delay[c]) \in Nat
    BY <1>8, BackedOffType DEF WakeUp, ResilienceTypeOK, AttemptLeft
  <2> QED
    BY <1>8, <2>1
       DEF WakeUp, Goto, breakerVars, ResilienceTypeOK, AttemptLeft, StateMatchesCount, OpenShedsLoad, Under
<1>9. ASSUME NEW c \in Callers, RunLocal(c) PROVE ResilienceInv'
  BY <1>9 DEF RunLocal, Goto, breakerVars, ResilienceTypeOK, AttemptLeft, StateMatchesCount, OpenShedsLoad, Under
<1>10. ASSUME UNCHANGED resilienceVars PROVE ResilienceInv'
  BY <1>10 DEF resilienceVars, breakerVars, callerVars, ResilienceTypeOK, AttemptLeft, StateMatchesCount,
               OpenShedsLoad, Under
<1> QED
  BY <1>1, <1>2, <1>3, <1>4, <1>5, <1>6, <1>7, <1>8, <1>9, <1>10
     DEF ResilienceNext, CallerStep, Cancel, ChainReturns

\* It holds in every reachable state.
LEMMA ResilienceInductive == ResilienceSafety => []ResilienceInv
BY ResilienceInitially, ResilienceStep, PTL DEF ResilienceSafety

\* The state of breaker and callers stays well typed for any number of callers; the
\* loop of retry_async never counts beyond max_retries.
THEOREM ResilienceTypeCorrect == ResilienceSafety => []ResilienceTypeOK
<1>1. ResilienceInv => ResilienceTypeOK
  BY DEF ResilienceInv
<1> QED
  BY <1>1, ResilienceInductive, PTL

\* For any threshold the circuit is closed exactly while fewer calls than that have
\* failed in a row, through any interleaving of late results and probes.
THEOREM BreakerStateMatchesCount == ResilienceSafety => []StateMatchesCount
<1>1. ResilienceInv => StateMatchesCount
  BY DEF ResilienceInv
<1> QED
  BY <1>1, ResilienceInductive, PTL

\* For any number of callers an open circuit lets no new call through.
THEOREM BreakerShedsLoad == ResilienceSafety => []OpenShedsLoad
<1>1. ResilienceInv => OpenShedsLoad
  BY DEF ResilienceInv
<1> QED
  BY <1>1, ResilienceInductive, PTL

\* Together: for any number of overlapping calls no caller makes more attempts than it may,
\* and the breaker neither forgets failures nor lets a call through an open circuit.
THEOREM BreakerIsSafe == ResilienceSafety => []BreakerSafe
BY ResilienceTypeCorrect, BreakerStateMatchesCount, BreakerShedsLoad, PTL DEF BreakerSafe
=============================================================================
