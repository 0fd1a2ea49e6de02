---------------------------- MODULE MCInteraction ----------------------------
(* A small instance of Interaction for TLC. *)
EXTENDS Interaction, TLC

MCHeatWeight == [like |-> 1, comment |-> 2]
Symmetry == Permutations(Users) \cup Permutations(Requests)
=============================================================================
