------------------------------- MODULE MCBloom -------------------------------
(* Small instances of Bloom for TLC: 24 bits in three bytes. *)
EXTENDS Bloom

\* Keys that share bytes, share a bit, wrap around the end, and one whose second
\* hash is a multiple of M, so that its positions collapse.
MCHash1 == [x \in Items |-> CASE x = 1 -> 2 [] x = 2 -> 29 [] x = 3 -> 11 [] OTHER -> 24]
MCHash2 == [x \in Items |-> CASE x = 1 -> 11 [] x = 2 -> 30 [] x = 3 -> 24 [] OTHER -> 5]
=============================================================================
