----------------------------- MODULE CloudBridge -----------------------------
(***************************************************************************)
(* The remote-execution bridge: CloudSession of runtime/interceptor.py,    *)
(* whose calls travel over a WebSocket to the server's handler task and    *)
(* its RPCDispatcher (server/ws/rpc.py), composed with the ConnectionHub   *)
(* that accepts, heartbeats, replaces and closes those sockets.            *)
(*                                                                         *)
(* A proxy module owns one session; several threads may call through it,   *)
(* and all coroutines of a session run on the session's own loop, so that  *)
(* a step is what a coroutine does between two awaits.  No session sends   *)
(* credentials, so the server (in debug mode) takes each of them for the   *)
(* device Local.  A session never answers heartbeats.                      *)
(***************************************************************************)
EXTENDS ConnectionHub

CONSTANTS Sessions,   \* CloudSession objects
          NoSession,  \* "no receive loop reads this socket"
          Calls,      \* remote calls, i.e. message ids
          Local       \* the device id of an anonymous client in debug mode

ASSUME SessionAssumption == NoSession \notin Sessions
ASSUME LocalAssumption == Local \in Devices

VARIABLES
  call,       \* progress of each call
  via,        \* the session each call goes through
  dial,       \* the socket a call is waiting to see accepted
  ws,         \* CloudSession._ws
  connected,  \* CloudSession._connected
  pending,    \* the keys of all CloudSession._pending
  rx,         \* the session whose _receive_loop reads a socket
  req,        \* requests on the way to the server, per socket
  rep,        \* replies on the way to the client, per socket
  lost        \* sockets that ended by a network failure, not a closing handshake

clientVars == <<call, via, dial, ws, connected, pending, rx, req, rep, lost>>
bridgeVars == <<hubVars, clientVars>>

Ended == {"result", "unknown", "failed", "timeout"}

BridgeInit ==
  /\ HubInit
  /\ call = [k \in Calls |-> "idle"]
  /\ via = [k \in Calls |-> NoSession]
  /\ dial = [k \in Calls |-> NoSock]
  /\ ws = [c \in Sessions |-> NoSock]
  /\ connected = [c \in Sessions |-> FALSE]
  /\ pending = {}
  /\ rx = [s \in Socks |-> NoSession]
  /\ req = [s \in Socks |-> << >>]
  /\ rep = [s \in Socks |-> << >>]
  /\ lost = {}

-----------------------------------------------------------------------------
(* The client. *)

\* A mutation: the future is not filed.
IssueUntracked(k, w) ==
  IF w = NoSock \/ rx[w] # NoSession
  THEN /\ call' = [call EXCEPT ![k] = "wait"]
       /\ req' = IF w # NoSock /\ sock[w] = "open"
                 THEN [req EXCEPT ![w] = Append(@, k)] ELSE req
       /\ UNCHANGED pending
  ELSE /\ call' = [call EXCEPT ![k] = "failed"]
       /\ UNCHANGED <<req, pending>>

\* _async_execute after _connect: the future is filed under the message id and
\* the message is sent on w, if there is a socket at all.  On one that is
\* closed, send raises as soon as the client has noticed; until then the
\* message is lost.
Issue(k, w) ==
  /\ pending' = pending \union {k}
  /\ IF w = NoSock \/ rx[w] # NoSession
     THEN /\ call' = [call EXCEPT ![k] = "wait"]
          /\ req' = IF w # NoSock /\ sock[w] = "open"
                    THEN [req EXCEPT ![w] = Append(@, k)] ELSE req
     ELSE /\ call' = [call EXCEPT ![k] = "failed"]
          /\ UNCHANGED req

\* execute on a session that believes it is connected.
Execute(k, c) ==
  /\ call[k] = "idle"
  /\ connected[c]
  /\ via' = [via EXCEPT ![k] = c]
  /\ Issue(k, ws[c])
  /\ UNCHANGED <<hubVars, dial, ws, connected, rx, rep, lost>>

\* No session refers to socket s any more.
Fresh(s) ==
  /\ \A c \in Sessions : ws[c] # s
  /\ \A k \in Calls : dial[k] # s
  /\ rx[s] = NoSession

\* execute on a session that is not connected: _connect dials the server.
Dial(k, c, s) ==
  /\ call[k] = "idle"
  /\ ~connected[c]
  /\ Fresh(s)
  /\ Open(s, Local)
  /\ call' = [call EXCEPT ![k] = "dial"]
  /\ via' = [via EXCEPT ![k] = c]
  /\ dial' = [dial EXCEPT ![k] = s]
  /\ req' = [req EXCEPT ![s] = << >>]
  /\ rep' = [rep EXCEPT ![s] = << >>]
  /\ lost' = lost \ {s}
  /\ UNCHANGED <<ws, connected, pending, rx>>

\* The server accepted: _ws and _connected are set, the receive loop starts,
\* and the call is issued.  (That loop is a task of its own, and takes to be
\* its socket what _ws holds when it first runs; the model has it run before
\* another dial of the same session comes back.)
DialOk(k) ==
  LET c == via[k]  s == dial[k] IN
  /\ call[k] = "dial"
  /\ pc[s] \notin {"idle", "accept"}
  /\ s \notin lost
  /\ dial' = [dial EXCEPT ![k] = NoSock]
  /\ ws' = [ws EXCEPT ![c] = s]
  /\ connected' = [connected EXCEPT ![c] = TRUE]
  /\ rx' = [rx EXCEPT ![s] = c]
  /\ pending' = pending \union {k}
  /\ call' = [call EXCEPT ![k] = "wait"]
  /\ req' = IF sock[s] = "open" THEN [req EXCEPT ![s] = Append(@, k)] ELSE req
  /\ UNCHANGED <<hubVars, via, rep, lost>>

\* websockets.connect raised (refused, failed or timed out): _connected is
\* cleared, and the call goes on with whatever _ws holds.
DialFail(k) ==
  LET c == via[k] IN
  /\ call[k] = "dial"
  /\ dial' = [dial EXCEPT ![k] = NoSock]
  /\ connected' = [connected EXCEPT ![c] = FALSE]
  /\ Issue(k, ws[c])
  /\ UNCHANGED <<hubVars, via, ws, rx, rep, lost>>

\* A mutation: the reply completes the future whether or not it is done.
ReceiveUnguarded(s) ==
  LET k == Head(rep[s])[1]  outcome == Head(rep[s])[2] IN
  /\ rx[s] # NoSession
  /\ rep[s] # << >>
  /\ rep' = [rep EXCEPT ![s] = Tail(@)]
  /\ pending' = pending \ {k}
  /\ call' = [call EXCEPT ![k] = outcome]
  /\ UNCHANGED <<hubVars, via, dial, ws, connected, rx, req, lost>>

\* _receive_loop: a reply removes its future and completes it, unless it is
\* done already.  (Heartbeats are ignored.)
Receive(s) ==
  LET k == Head(rep[s])[1]  outcome == Head(rep[s])[2] IN
  /\ rx[s] # NoSession
  /\ rep[s] # << >>
  /\ rep' = [rep EXCEPT ![s] = Tail(@)]
  /\ pending' = pending \ {k}
  /\ call' = IF k \in pending /\ call[k] = "wait"
             THEN [call EXCEPT ![k] = outcome] ELSE call
  /\ UNCHANGED <<hubVars, via, dial, ws, connected, rx, req, lost>>

\* A mutation: only a network failure ends the loop.
ReceiveEndLost(s) ==
  /\ rx[s] # NoSession
  /\ s \in lost
  /\ rx' = [rx EXCEPT ![s] = NoSession]
  /\ connected' = [connected EXCEPT ![rx[s]] = FALSE]
  /\ rep' = [rep EXCEPT ![s] = << >>]
  /\ UNCHANGED <<hubVars, call, via, dial, ws, pending, req, lost>>

\* _receive_loop ends with its socket.  A closing handshake just ends the
\* iteration; only a failure raises, and clears _connected.
ReceiveEnd(s) ==
  /\ rx[s] # NoSession
  /\ sock[s] = "closed"
  /\ rep[s] = << >> \/ s \in lost
  /\ rx' = [rx EXCEPT ![s] = NoSession]
  /\ connected' = IF s \in lost THEN [connected EXCEPT ![rx[s]] = FALSE] ELSE connected
  /\ rep' = [rep EXCEPT ![s] = << >>]
  /\ UNCHANGED <<hubVars, call, via, dial, ws, pending, req, lost>>

\* A mutation: only the coroutine has a timeout, not the caller.
TimeoutWaiting(k) ==
  /\ call[k] = "wait"
  /\ call' = [call EXCEPT ![k] = "timeout"]
  /\ UNCHANGED <<hubVars, via, dial, ws, connected, pending, rx, req, rep, lost>>

\* The 300 seconds of wait_for and future.result are over.  The entry in
\* _pending stays.  (They cover the dial too, which websockets ends long
\* before, with its own open_timeout.)
Timeout(k) ==
  /\ call[k] \in {"wait", "stuck"}
  /\ call' = [call EXCEPT ![k] = "timeout"]
  /\ UNCHANGED <<hubVars, via, dial, ws, connected, pending, rx, req, rep, lost>>

\* CloudSession.close: the socket, if there is one yet, is closed, and the
\* session's loop stopped, which strands every coroutine on it.
CloseSession(c) ==
  /\ sock' = [s \in Socks |-> IF s = ws[c] THEN "closed" ELSE sock[s]]
  /\ connected' = [connected EXCEPT ![c] = FALSE]
  /\ rx' = [s \in Socks |-> IF rx[s] = c THEN NoSession ELSE rx[s]]
  /\ call' = [k \in Calls |-> IF via[k] = c /\ call[k] \in {"dial", "wait"}
                              THEN "stuck" ELSE call[k]]
  /\ dial' = [k \in Calls |-> IF via[k] = c THEN NoSock ELSE dial[k]]
  /\ UNCHANGED <<conns, lock, waiting, pc, dev, age, late, rest, todo, conn>>
  /\ UNCHANGED <<via, ws, pending, req, rep, lost>>

-----------------------------------------------------------------------------
(* The network and the server. *)

\* The connection breaks.
NetworkDrop(s) ==
  /\ PeerClose(s)
  /\ lost' = lost \union {s}
  /\ UNCHANGED <<call, via, dial, ws, connected, pending, rx, req, rep>>

\* The methods registered with the dispatcher, and the one a session calls.
Handlers == {"ping", "echo"}
SessionMethod == "exec.call"

\* The handler reads a CALL, dispatches it and sends the response on its own
\* socket: METHOD_NOT_FOUND when no handler is registered for the method.
Dispatch(s) ==
  /\ pc[s] = "serve"
  /\ sock[s] = "open"
  /\ req[s] # << >>
  /\ req' = [req EXCEPT ![s] = Tail(@)]
  /\ rep' = [rep EXCEPT ![s] =
               Append(@, <<Head(req[s]), IF SessionMethod \in Handlers
                                         THEN "result" ELSE "unknown">>)]
  /\ UNCHANGED <<hubVars, call, via, dial, ws, connected, pending, rx, lost>>

\* The hub's own steps: time, heartbeats, and the handler of each socket.
HubStep ==
  \/ Tick \/ Wake \/ MessengerStep(Beat)
  \/ \E s \in Socks : HandlerStep(s)

BridgeNext ==
  \/ HubStep /\ UNCHANGED clientVars
  \/ \E k \in Calls : DialOk(k) \/ DialFail(k) \/ Timeout(k)
  \/ \E k \in Calls, c \in Sessions :
        Execute(k, c) \/ \E s \in Socks : Dial(k, c, s)
  \/ \E s \in Socks : Receive(s) \/ ReceiveEnd(s) \/ NetworkDrop(s) \/ Dispatch(s)
  \/ \E c \in Sessions : CloseSession(c)

\* Both loops run what can run, messages on an open socket arrive, and a timer
\* fires some day.  No assumption on callers or on the network.
BridgeFairness ==
  /\ WF_bridgeVars(Tick /\ UNCHANGED clientVars)
  /\ WF_bridgeVars(Wake /\ UNCHANGED clientVars)
  /\ WF_bridgeVars(MessengerStep(Beat) /\ UNCHANGED clientVars)
  /\ \A s \in Socks :
        /\ WF_bridgeVars(HandlerStep(s) /\ UNCHANGED clientVars)
        /\ WF_bridgeVars(Receive(s) \/ ReceiveEnd(s))
        /\ WF_bridgeVars(Dispatch(s))
  /\ \A k \in Calls :
        /\ WF_bridgeVars(DialOk(k) \/ DialFail(k))
        /\ WF_bridgeVars(Timeout(k))

BridgeSafety == BridgeInit /\ [][BridgeNext]_bridgeVars
BridgeSpec == BridgeSafety /\ BridgeFairness

-----------------------------------------------------------------------------

\* The client state is well typed.
BridgeTypeOK ==
  /\ TypeOK
  /\ call \in [Calls -> {"idle", "dial", "wait", "stuck"} \union Ended]
  /\ via \in [Calls -> Sessions \union {NoSession}]
  /\ dial \in [Calls -> Socks \union {NoSock}]
  /\ ws \in [Sessions -> Socks \union {NoSock}]
  /\ connected \in [Sessions -> BOOLEAN]
  /\ pending \subseteq Calls
  /\ rx \in [Socks -> Sessions \union {NoSession}]
  /\ req \in [Socks -> Seq(Calls)]
  /\ rep \in [Socks -> Seq(Calls \X {"result", "unknown"})]
  /\ lost \subseteq Socks

\* A call that waits for its reply is on file, so that the reply, whenever
\* and over whichever of the session's sockets it comes, can complete it.
WaitersFindable ==
  \A k \in Calls : call[k] = "wait" => k \in pending

\* What a caller was told is final: a reply that comes after the timeout, or
\* after a failure to send, does not touch the finished future.
OutcomeFinal ==
  [][\A k \in Calls : call[k] \in Ended => call'[k] = call[k]]_bridgeVars

\* execute always comes back to its caller: with a result, an error or a
\* timeout, whatever became of the dial, the socket, the request or the reply,
\* and also when another thread's close has stopped the session's loop and with it
\* the coroutine the call was waiting for.
EveryCallReturns ==
  \A k \in Calls : (call[k] \in {"dial", "wait", "stuck"}) ~> (call[k] \in Ended)

\* A closed connection is noticed: the receive loop of a closed socket ends.
ClosedIsNoticed ==
  \A s \in Socks : (rx[s] # NoSession /\ sock[s] = "closed") ~> (rx[s] = NoSession)

\* A session that believes it is connected, when _connect would return early,
\* has not lost its socket to a failure, or its receive loop is about to find
\* out, also with several dials under way.  (Only a closing handshake goes unnoticed.)
FailureIsNoticed ==
  \A c \in Sessions : connected[c] =>
     /\ ws[c] # NoSock
     /\ ws[c] \in lost => rx[ws[c]] = c

\* What holds of the sessions at any time.
BridgeSafe == BridgeTypeOK /\ WaitersFindable /\ FailureIsNoticed

-----------------------------------------------------------------------------
(* The bridge implements remote calls whose messages are never repeated.   *)

\* A session still waits for a call's outcome, or has given it to the caller.
ToldOf == [k \in Calls |-> IF call[k] \in {"dial", "wait", "stuck"} THEN "open" ELSE call[k]]

\* The request of call k is under way on socket s.
RequestOn(k, s) == \E i \in DOMAIN req[s] : req[s][i] = k

\* The reply a to call k is under way on socket s.
ReplyOn(k, a, s) == \E i \in DOMAIN rep[s] : rep[s][i] = <<k, a>>

\* The server can still read the request of call k, or a receive loop the reply to it.
Requested(k) == \E s \in Socks : sock[s] = "open" /\ RequestOn(k, s)
Replied(k, a) == \E s \in Socks : rx[s] # NoSession /\ ReplyOn(k, a, s)

\* Where the message of a call is.
MessageOf == [k \in Calls |->
                CASE call[k] \in {"idle", "dial"} -> "unsent"
                  [] Requested(k) -> "request"
                  [] Replied(k, "result") -> "result"
                  [] Replied(k, "unknown") -> "unknown"
                  [] OTHER -> "gone"]

Remote == INSTANCE RemoteCall
            WITH Answers <- {"result", "unknown"}, told <- ToldOf, message <- MessageOf

\* Every step of the sessions, the hub, the server and the network is a step of the
\* remote calls or leaves them alone: over redials, reused session sockets, replies
\* that come late, broken connections and sessions that are closed, no request is
\* served twice, no reply reaches another call, and no caller is told two things.
ImplementsCalls == Remote!CallsSpec
=============================================================================
