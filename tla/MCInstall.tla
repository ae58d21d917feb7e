------------------------------ MODULE MCInstall ------------------------------
(***************************************************************************)
(* Small instances of installing, of the messages, values and streams of a *)
(* remote call, and of the orchestrator and the container pool.  They      *)
(* share no state; `part` says which of them a behaviour is about, and the *)
(* others rest in an initial state.                                        *)
(***************************************************************************)
EXTENDS Install, JsonText, Serialization, Streaming, Agents, ContainerPool

VARIABLE part

partVars == <<part, installVars, wireVars, streamVars, agentVars, poolVars>>

CONSTANTS a1, a2, a3

(* Two streams: text in two chunks, one of them None, and an empty stream. *)

StreamData == ("c1" :> <<Str("a"), None>>) @@ ("c2" :> << >>)
StreamMeta == ("c1" :> Dict([content_type |-> Str("text")])) @@ ("c2" :> None)

(* Three agents, one of them without a handler, and a pipeline in which a  *)
(* name occurs twice.                                                      *)

\* The third is the first, registered anew.
Identities == (a1 :> 1) @@ (a2 :> 2) @@ (a3 :> 1)
Capabilities == (a1 :> {"gpu"}) @@ (a2 :> {"web", "gpu"}) @@ (a3 :> {})
PipelineTasks == <<[name |-> "load", cap |-> AnyCap], [name |-> "run", cap |-> "gpu"],
                   [name |-> "load", cap |-> "web"], [name |-> "end", cap |-> AnyCap]>>

(* Values up to three levels deep, with keys that look like a tag, and     *)
(* strings that name one.                                                  *)

Atoms == {None, Str("x"), Str("bytes"), Num(0), Other("bytes"), Other("complex"),
          Other("ndarray"), Other("datetime"), Other("object"), Other("tensor"),
          Other("objects"), Other("lambda")}
Keys == {"a", "__type__", "1", IntKey, TupleKey}
Dicts == {Dict(f) : f \in UNION {[D -> {None, Str("bytes"), Other("bytes")}] :
                                   D \in {E \in SUBSET Keys : Cardinality(E) <= 2}}}
Hashable == Atoms \ {Other("ndarray"), Other("objects")}
Flat == Atoms \union Dicts
        \union {List(s) : s \in UNION {[1 .. n -> Atoms] : n \in 0 .. 2}}
        \union {Tuple(s) : s \in UNION {[1 .. n -> Hashable] : n \in 0 .. 1}}
        \union {SetOf(S) : S \in {E \in SUBSET Hashable : Cardinality(E) <= 2}}
Nested == Flat \union {List(<<v>>) : v \in Flat} \union {Tuple(<<v, None>>) : v \in Flat}
          \union {Dict(k :> v) : k \in Keys, v \in Flat}
          \union {SetOf({v}) : v \in {x \in Flat : x.t = "tuple"}}

(* Messages from every constructor, with falsy and empty contents.         *)

Payloads == {None, Num(0), Str(""), List(<< >>), Empty, Str("x"), Dict([a |-> None])}
Posted ==
  {MakeHeartbeat, MakeHeartbeatAck(Str("i")), MakeStreamEnd(Str("i")), MakeLog("info", "", "")}
  \union {MakeProgress("t", n, k, "") : n \in 0 .. 3, k \in 0 .. 3}
  \union {MakeStreamChunk(Str("i"), p, n) : p \in Payloads, n \in 0 .. 1}
  \union UNION {{MakeCall("m", p), MakeResult(Str("i"), p), MakeError(Str("i"), "c", "m", p),
                 MakeStreamStart(Str("i"), p), MakeNotification("m", p), MakeSessionInit(p)} :
                p \in Payloads}

(* Containers of two images.                                               *)

ImageOf == [c1 |-> "plain", c2 |-> "plain", c3 |-> "plain", c4 |-> "gpu", c5 |-> "gpu"]

-----------------------------------------------------------------------------

\* One of the initial states of the messages, for the behaviours about the other parts.
WireAtRest == WireInit /\ stage = "post" /\ given = MakeHeartbeat

PartsInit ==
  /\ InstallInit /\ StreamInit /\ AgentsInit /\ PoolInit
  /\ \/ part = "wire" /\ WireInit
     \/ part \in {"install", "streams", "agents", "pool"} /\ WireAtRest

\* The parts other than p do not move.
Only(p) ==
  /\ part = p /\ UNCHANGED part
  /\ IF p = "install" THEN TRUE ELSE UNCHANGED installVars
  /\ IF p = "wire" THEN TRUE ELSE UNCHANGED wireVars
  /\ IF p = "streams" THEN TRUE ELSE UNCHANGED streamVars
  /\ IF p = "agents" THEN TRUE ELSE UNCHANGED agentVars
  /\ IF p = "pool" THEN TRUE ELSE UNCHANGED poolVars

PartsNext ==
  \/ Only("install") /\ InstallNext
  \/ Only("wire") /\ WireNext
  \/ Only("streams") /\ StreamNext
  \/ Only("agents") /\ AgentsNext
  \/ Only("pool") /\ PoolNext

\* With InstallFairness.
PartsSpec ==
  /\ PartsInit /\ [][PartsNext]_partVars
  /\ \A p \in Procs : WF_partVars(Only("install") /\ InstallStep(p))
=============================================================================
