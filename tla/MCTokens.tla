------------------------------- MODULE MCTokens -------------------------------
(* A small instance of Tokens for TLC. *)
EXTENDS Tokens, TLC

Symmetry == Permutations(People) \cup Permutations(Requests)
=============================================================================
