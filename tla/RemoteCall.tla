----------------------------- MODULE RemoteCall -----------------------------
(***************************************************************************)
(* What CloudSession.execute of runtime/interceptor.py promises its        *)
(* callers, without sessions, sockets, dials, futures and the server's     *)
(* handler tasks: the message of a call is sent at most once, served at    *)
(* most once and answered at most once; it may be lost at any point of its *)
(* way, but is never repeated; a caller is told the server's answer only   *)
(* if the server gave it to this very call, and is told one thing only.    *)
(***************************************************************************)
CONSTANTS Calls,    \* remote calls, i.e. message ids
          Answers   \* what the server may answer

VARIABLES
  told,     \* "idle" before the call, "open" while its caller waits, then what it was told
  message   \* "unsent", "request", the server's answer on its way back, or "gone"

callsVars == <<told, message>>

CallsInit ==
  /\ told = [k \in Calls |-> "idle"]
  /\ message = [k \in Calls |-> "unsent"]

\* A caller starts to wait, for a connection first.
Begin(k) ==
  /\ told[k] = "idle"
  /\ told' = [told EXCEPT ![k] = "open"]
  /\ UNCHANGED message

\* The message is sent, perhaps into a connection that is no more.
Transmit(k) ==
  /\ told[k] \in {"idle", "open"}
  /\ message[k] = "unsent"
  /\ told' = [told EXCEPT ![k] = "open"]
  /\ \E m \in {"request", "gone"} : message' = [message EXCEPT ![k] = m]

\* The message cannot be sent, and its caller is told so.
Refuse(k) ==
  /\ told[k] \in {"idle", "open"}
  /\ message[k] = "unsent"
  /\ told' = [told EXCEPT ![k] = "failed"]
  /\ message' = [message EXCEPT ![k] = "gone"]

\* The server takes the request and answers it.
Serve(k) ==
  /\ message[k] = "request"
  /\ \E a \in Answers : message' = [message EXCEPT ![k] = a]
  /\ UNCHANGED told

\* The answer reaches a caller that still waits.
Answer(k) ==
  /\ told[k] = "open"
  /\ message[k] \in Answers
  /\ told' = [told EXCEPT ![k] = message[k]]
  /\ message' = [message EXCEPT ![k] = "gone"]

\* A connection or a session ends, or nobody waits: the messages of some calls that
\* have started get no further.
Lose(K) ==
  /\ UNCHANGED told
  /\ \A k \in K : told[k] # "idle"
  /\ message' = [k \in Calls |-> IF k \in K THEN "gone" ELSE message[k]]

\* A caller gives up on a call that is no longer dialling.
Expire(k) ==
  /\ told[k] = "open"
  /\ message[k] # "unsent"
  /\ told' = [told EXCEPT ![k] = "timeout"]
  /\ UNCHANGED message

CallsNext ==
  \/ \E K \in SUBSET Calls : Lose(K)
  \/ \E k \in Calls : Begin(k) \/ Transmit(k) \/ Refuse(k) \/ Serve(k) \/ Answer(k) \/ Expire(k)

CallsSpec == CallsInit /\ [][CallsNext]_callsVars
=============================================================================
