---------------------------- MODULE MCWheelCache ----------------------------
(***************************************************************************)
(* Small instances of what the commands and the daemon keep on the device: *)
(* the wheel and layer cache, the package metadata and the settings.  They *)
(* share no state; `part` says which of them a behaviour is about, and the *)
(* others rest in their initial state.                                     *)
(***************************************************************************)
EXTENDS WheelCache, CatalogSync, Settings, TLC

VARIABLE part

deviceVars == <<part, cacheVars, syncVars, settingVars>>

(* Wheel k1 and layers k2 and k3, each with a path of its own, of sizes    *)
(* that make an eviction drop one, several or all entries.                 *)

CONSTANTS k1, k2, k3, f1, f2, f3

PathsOfKeys == (k1 :> f1) @@ (k2 :> f2) @@ (k3 :> f3)
SizesOfPaths == (f1 :> 8) @@ (f2 :> 4) @@ (f3 :> 4)

(* One terminal has no overrides, the other has both.                      *)

UrlVariable == [t1 |-> Unset, t2 |-> "env"]
OfflineVariable == [t1 |-> FALSE, t2 |-> TRUE]

-----------------------------------------------------------------------------

DeviceInit ==
  /\ CacheInit /\ SyncInit /\ SettingsInit
  /\ part \in {"cache", "sync", "settings"}

DeviceNext ==
  \/ part = "cache" /\ CacheNext /\ UNCHANGED <<part, syncVars, settingVars>>
  \/ part = "sync" /\ SyncNext /\ UNCHANGED <<part, cacheVars, settingVars>>
  \/ part = "settings" /\ SettingsNext /\ UNCHANGED <<part, cacheVars, syncVars>>

DeviceSpec == DeviceInit /\ [][DeviceNext]_deviceVars

\* Processes are alike, and so are file contents and the two layers.
Swap == (k2 :> k3) @@ (k3 :> k2) @@ (f2 :> f3) @@ (f3 :> f2)
Symmetry == Permutations(Procs) \union Permutations(Contents \ {Dir}) \union {Swap}
=============================================================================
