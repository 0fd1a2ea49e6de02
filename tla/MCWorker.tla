------------------------------ MODULE MCWorker ------------------------------
(* Small instances of Worker for TLC. *)
EXTENDS Worker, TLC

CONSTANT post1

\* A like, and the unlike of the same user, of one post.
TwoEvents == {Event(1, "like_count", post1, 1), Event(2, "like_count", post1, -1)}
OneEvent == {Event(1, "like_count", post1, 1)}

\* Any kind of fault, a confirm timeout even twice.
AnyFault == [k \in Faults |-> IF k = "timeout" THEN 2 ELSE 1]
TimeoutCrash == [k \in Faults |-> IF k \in {"timeout", "crash"} THEN 1 ELSE 0]
Symmetry == Permutations(Workers)
=============================================================================
