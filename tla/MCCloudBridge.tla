---------------------------- MODULE MCCloudBridge ----------------------------
(* Small instances of CloudBridge for TLC. *)
EXTENDS CloudBridge, TLC

Symmetry == Permutations(Socks) \union Permutations(Calls) \union Permutations(Sessions)
=============================================================================
