---------------------------- MODULE MCLayerStore ----------------------------
(***************************************************************************)
(* Small instances of package virtualization: layers and mounts, downloads *)
(* and lazy modules.  They share no state; `part` says which of them a     *)
(* behaviour is about, and the others rest in their initial state.         *)
(***************************************************************************)
EXTENDS LayerStore, Download, LazyModule, TLC

CONSTANT MaxOperations \* a bound on the operations on directories of all processes

ASSUME OperationAssumption == MaxOperations \in Nat

VARIABLES part,
          operations \* begun so far

virtualVars == <<part, operations, layerVars, downloadVars, lazyVars>>

(* Three packages of which two have the same layers, and so share a        *)
(* composed directory, and one is made of their second layer.              *)

CONSTANTS l1, l2, n1, n2, n3

Overlapping == (n1 :> <<l1, l2>>) @@ (n2 :> <<l1, l2>>) @@ (n3 :> <<l2>>)

-----------------------------------------------------------------------------

VirtualInit ==
  /\ LayerInit /\ DownloadInit /\ LazyInit
  /\ part \in {"layers", "download", "lazy"}
  /\ operations = 0

Begun == {p \in Procs : pc[p] = "idle" /\ pc'[p] # "idle"}

VirtualNext ==
  \/ /\ part = "layers" /\ LayerNext
     /\ operations' = operations + Cardinality(Begun) /\ operations' <= MaxOperations
     /\ UNCHANGED <<part, downloadVars, lazyVars>>
  \/ /\ part = "download" /\ DownloadNext
     /\ UNCHANGED <<part, operations, layerVars, lazyVars>>
  \/ /\ part = "lazy" /\ LazyNext
     /\ UNCHANGED <<part, operations, layerVars, downloadVars>>

VirtualSpec == VirtualInit /\ [][VirtualNext]_virtualVars

\* Processes are alike, so are threads, and the two packages with the same layers.
Symmetry == Permutations(Procs) \union Permutations({n1, n2}) \union Permutations(Threads)
=============================================================================
