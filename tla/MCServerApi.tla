----------------------------- MODULE MCServerApi -----------------------------
(***************************************************************************)
(* A small instance of ServerApi for TLC: a build costs a client's whole   *)
(* allowance for builds, two requests that for everything else.            *)
(***************************************************************************)
EXTENDS ServerApi, TLC

Limits == ("packages" :> 2) @@ ("build" :> 1) @@ ("exec" :> 2)

\* Clients are alike, and so are the identities of requests.
Symmetry == Permutations(Clients) \union Permutations(Requests)
=============================================================================
