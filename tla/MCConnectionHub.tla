--------------------------- MODULE MCConnectionHub ---------------------------
(* Small instances of ConnectionHub for TLC. *)
EXTENDS ConnectionHub
=============================================================================
