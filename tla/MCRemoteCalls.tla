---------------------------- MODULE MCRemoteCalls ----------------------------
(***************************************************************************)
(* Small instances of a remote call's way to its end: over the cloud       *)
(* bridge, and through retries and the circuit breaker.  They share no     *)
(* state: `part` says which of them a behaviour is about, and the other    *)
(* rests in its initial state.                                             *)
(***************************************************************************)
EXTENDS CloudBridge, Resilience

VARIABLE part

remoteVars == <<part, bridgeVars, resilienceVars>>

InBridge(A) == part = "bridge" /\ A /\ UNCHANGED <<part, resilienceVars>>
InHub(A) == InBridge(A /\ UNCHANGED clientVars)
InChain(A) == part = "resilience" /\ A /\ UNCHANGED <<part, bridgeVars>>

\* BridgeFairness, and that of the callers.
RemoteFairness ==
  /\ WF_remoteVars(InHub(Tick))
  /\ WF_remoteVars(InHub(Wake))
  /\ WF_remoteVars(InHub(MessengerStep(Beat)))
  /\ \A s \in Socks :
        /\ WF_remoteVars(InHub(HandlerStep(s)))
        /\ WF_remoteVars(InBridge(Receive(s) \/ ReceiveEnd(s)))
        /\ WF_remoteVars(InBridge(Dispatch(s)))
  /\ \A k \in Calls :
        /\ WF_remoteVars(InBridge(DialOk(k) \/ DialFail(k)))
        /\ WF_remoteVars(InBridge(Timeout(k)))
  /\ \A c \in Callers : WF_remoteVars(InChain(CallerStep(c)))

RemoteInit == BridgeInit /\ ResilienceInit /\ part \in {"bridge", "resilience"}

RemoteNext == InBridge(BridgeNext) \/ InChain(ResilienceNext)

RemoteSpec == RemoteInit /\ [][RemoteNext]_remoteVars /\ RemoteFairness
=============================================================================
