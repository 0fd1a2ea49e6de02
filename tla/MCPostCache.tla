----------------------------- MODULE MCPostCache -----------------------------
(* A small instance of PostCache for TLC. *)
EXTENDS PostCache

=============================================================================
