---------------------------- MODULE DeviceRegistry ----------------------------
(***************************************************************************)
(* What the connection hub of server/ws/hub.py promises, without its lock, *)
(* its queue of waiting tasks and its awaits: a device has at most one     *)
(* live connection, the live connection of a device is never swapped for   *)
(* another in one go, and a connection that has been let go never becomes  *)
(* the live one again without arriving anew.                               *)
(***************************************************************************)
CONSTANTS Devices,  \* device ids
          Conns,    \* connections
          NoConn    \* "no live connection"

VARIABLES
  live,    \* the live connection of each device, if it has one
  coming   \* connections that have arrived and are not registered yet

registryVars == <<live, coming>>

RegistryInit ==
  /\ live = [d \in Devices |-> NoConn]
  /\ coming = {}

\* A connection arrives; it is not the live one of any device.
Arrive(c) ==
  /\ c \notin coming
  /\ \A d \in Devices : live[d] # c
  /\ coming' = coming \union {c}
  /\ UNCHANGED live

\* A connection becomes the live one of a device that has none.
Attach(d, c) ==
  /\ c \in coming
  /\ live[d] = NoConn
  /\ live' = [live EXCEPT ![d] = c]
  /\ coming' = coming \ {c}

\* The live connection of a device ends: the peer left, it was silent for
\* too long, a send on it failed, or a newer one is about to take its place.
Detach(d) ==
  /\ live[d] # NoConn
  /\ live' = [live EXCEPT ![d] = NoConn]
  /\ UNCHANGED coming

\* A connection ends before it was registered.
GiveUp(c) ==
  /\ c \in coming
  /\ coming' = coming \ {c}
  /\ UNCHANGED live

RegistryNext ==
  \/ \E c \in Conns : Arrive(c) \/ GiveUp(c)
  \/ \E d \in Devices : Detach(d) \/ \E c \in Conns : Attach(d, c)

RegistrySpec == RegistryInit /\ [][RegistryNext]_registryVars
=============================================================================
