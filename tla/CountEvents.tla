----------------------------- MODULE CountEvents -----------------------------
(***************************************************************************)
(* The count events both processes exchange: a row the API writes into the *)
(* outbox table inside a business transaction, and the message the worker  *)
(* publishes, consumes and applies to posts.like_count and                 *)
(* posts.comment_count.  The id is the row's auto-increment key; it is     *)
(* also the message id and the key of the de-duplication table.            *)
(***************************************************************************)
EXTENDS Integers, FiniteSets

CONSTANT Posts          \* post ids

\* The white list of counters: two columns of posts.
Fields == {"like_count", "comment_count"}

CountEvent == [id : Nat \ {0}, field : Fields, post : Posts, delta : {1, -1}]

Event(id, f, p, d) == [id |-> id, field |-> f, post |-> p, delta |-> d]

Ids(S) == {e.id : e \in S}

Of(S, f, p, d) == {e \in S : e.field = f /\ e.post = p /\ e.delta = d}

\* What a set of events adds to field f of post p.
Net(S, f, p) == Cardinality(Of(S, f, p, 1)) - Cardinality(Of(S, f, p, -1))
=============================================================================
