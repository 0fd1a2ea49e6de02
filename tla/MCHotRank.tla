------------------------------ MODULE MCHotRank ------------------------------
(* A small instance of HotRank for TLC. *)
EXTENDS HotRank

CONSTANT u1

\* The viewer likes the post with the larger id.
MCLikes == {<<u1, 2>>}
=============================================================================
