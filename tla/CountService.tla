----------------------------- MODULE CountService -----------------------------
(***************************************************************************)
(* What the two processes together promise of like_count, without outbox,  *)
(* broker, relay or retries: a change of the likes table owes the counter  *)
(* exactly one event of the same size, in the same step, and each owed     *)
(* event is settled exactly once, at any later time and in any order.      *)
(***************************************************************************)
EXTENDS CountEvents

CONSTANT Users

VARIABLES
  likes,          \* <<post, user>> pairs
  owed,           \* events committed but not yet counted
  count           \* like_count of each post

vars == <<likes, owed, count>>

Init ==
  /\ likes = {}
  /\ owed = {}
  /\ count = [p \in Posts |-> 0]

Owe(p, d) ==
  \E e \in owed' \ owed : /\ owed' = owed \cup {e}
                          /\ e.post = p
                          /\ e.delta = d
Like(p, u) ==
  /\ <<p, u>> \notin likes
  /\ likes' = likes \cup {<<p, u>>}
  /\ Owe(p, 1)
  /\ UNCHANGED count

Unlike(p, u) ==
  /\ <<p, u>> \in likes
  /\ likes' = likes \ {<<p, u>>}
  /\ Owe(p, -1)
  /\ UNCHANGED count

Settle(e) ==
  /\ owed' = owed \ {e}
  /\ count' = [count EXCEPT ![e.post] = @ + e.delta]
  /\ UNCHANGED likes

Next ==
  \/ \E p \in Posts, u \in Users : Like(p, u) \/ Unlike(p, u)
  \/ \E e \in owed : Settle(e)

Spec == Init /\ [][Next]_vars
=============================================================================
