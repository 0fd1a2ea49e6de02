----------------------------- MODULE MCRateLimit -----------------------------
(* A small instance of RateLimit for TLC: a tick is half a minute. *)
EXTENDS RateLimit, TLC

Symmetry == Permutations(Handlers)
=============================================================================
