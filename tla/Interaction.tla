----------------------------- MODULE Interaction -----------------------------
(***************************************************************************)
(* The API process as far as likes and comments go: InteractionService and *)
(* its repository.  A request handler checks its target, opens a database  *)
(* transaction that changes one business row and inserts the matching      *)
(* count event into the outbox, commits, and then touches Redis.           *)
(*                                                                         *)
(* posts.like_count and posts.comment_count are not written here: only the *)
(* outbox says what they must become.  The ledger properties below say     *)
(* that the outbox says the right thing.                                   *)
(*                                                                         *)
(* Uncommitted work is kept in the handler (call[r].event) until Commit    *)
(* makes it visible; the row lock InnoDB holds from the row change to the  *)
(* commit is RowFree.  Ids are taken when the row is inserted, so they are *)
(* not in commit order.                                                    *)
(***************************************************************************)
EXTENDS CountEvents

CONSTANTS
  Users,
  Requests,       \* handler goroutines of the API processes
  Entries,        \* what Redis may hold of a post; module Worker tells them apart
  HeatWeight,     \* [{"like", "comment"} -> Nat]: hotLikeWeight, hotCommentWeight
  MaxEvents,      \* bound: outbox ids handed out
  MaxHeat         \* bound: heat saturates here

ASSUME InteractionAssumption ==
  /\ "absent" \in Entries
  /\ MaxEvents \in Nat
  /\ MaxHeat \in Nat
  /\ HeatWeight \in [{"like", "comment"} -> Nat]

VARIABLES
  live,           \* posts whose deleted_at is NULL
  likes,          \* table likes: <<post, user>>, the primary key
  comments,       \* table comments
  outbox,         \* table outbox: the committed events
  nextEvent,      \* outbox.AUTO_INCREMENT
  nextComment,    \* comments.AUTO_INCREMENT
  cache,          \* the detail entry of each post in Redis
  heat,           \* the hot list score of each post
  pc,             \* where each handler is
  call            \* its arguments and its uncommitted event row

tables == <<live, likes, comments, outbox, nextEvent, nextComment>>
redis == <<cache, heat>>
vars == <<live, likes, comments, outbox, nextEvent, nextComment, cache, heat,
          pc, call>>

Comment == [id : Nat, post : Posts, user : Users]
Ops == {"like", "unlike", "comment", "delete_comment"}
Call == [op : Ops, user : Users, post : Posts, comment : Nat,
         event : SUBSET CountEvent]
NoCall == [op |-> "none"]

Init ==
  /\ live = Posts
  /\ likes = {}
  /\ comments = {}
  /\ outbox = {}
  /\ nextEvent = 1
  /\ nextComment = 1
  /\ cache = [p \in Posts |-> "absent"]
  /\ heat = [p \in Posts |-> 0]
  /\ pc = [r \in Requests |-> "idle"]
  /\ call = [r \in Requests |-> NoCall]

-----------------------------------------------------------------------------
(* The checks before the transaction. *)

Accept(r, op, u, p, c) ==
  /\ pc[r] = "idle"
  /\ pc' = [pc EXCEPT ![r] = "checked"]
  /\ call' = [call EXCEPT ![r] = [op |-> op, user |-> u, post |-> p,
                                  comment |-> c, event |-> {}]]
  /\ UNCHANGED <<tables, redis>>

\* mustGetPost: the post exists now; nothing holds it until the transaction.
CheckPost(r) ==
  \E op \in {"like", "unlike", "comment"}, u \in Users, p \in live :
    Accept(r, op, u, p, 0)

\* GetComment and the owner check; the post may be deleted already.
CheckComment(r) ==
  \E c \in comments : Accept(r, "delete_comment", c.user, c.post, c.id)

-----------------------------------------------------------------------------
(* The transaction. *)

\* The row a handler's transaction changes, and that no other open one holds.
Row(k) == IF k.op = "delete_comment" THEN <<"comments", k.comment>>
                                     ELSE <<"likes", k.post, k.user>>
RowFree(r) ==
  \A s \in Requests \ {r} :
    pc[s] = "open" /\ call[s].op # "comment" => Row(call[s]) # Row(call[r])

\* enqueueCountEvent: the outbox row takes its id now, and shows at Commit.
Enqueue(r, f, d) ==
  /\ nextEvent <= MaxEvents
  /\ call' = [call EXCEPT ![r].event = {Event(nextEvent, f, call[r].post, d)}]
  /\ nextEvent' = nextEvent + 1

NoEnqueue == UNCHANGED <<call, nextEvent>>

Opens(r, op, at) ==
  /\ pc[r] = at
  /\ call[r].op = op
  /\ pc' = [pc EXCEPT ![r] = "open"]
  /\ UNCHANGED <<live, likes, comments, outbox, redis>>

\* Mutant: Like does not look at RowsAffected.
InsertLikeAlways(r) ==
  /\ Opens(r, "like", "checked")
  /\ RowFree(r)
  /\ Enqueue(r, "like_count", 1)
  /\ UNCHANGED nextComment

\* INSERT IGNORE: RowsAffected = 0 for a like that is there; no event then.
InsertLike(r) ==
  /\ Opens(r, "like", "checked")
  /\ RowFree(r)
  /\ IF <<call[r].post, call[r].user>> \in likes
       THEN NoEnqueue ELSE Enqueue(r, "like_count", 1)
  /\ UNCHANGED nextComment

\* Mutant: Unlike takes no row lock (SELECT, then DELETE in autocommit).
DeleteLikeUnlocked(r) ==
  /\ Opens(r, "unlike", "checked")
  /\ IF <<call[r].post, call[r].user>> \in likes
       THEN Enqueue(r, "like_count", -1) ELSE NoEnqueue
  /\ UNCHANGED nextComment

DeleteLike(r) ==
  /\ Opens(r, "unlike", "checked")
  /\ RowFree(r)
  /\ IF <<call[r].post, call[r].user>> \in likes
       THEN Enqueue(r, "like_count", -1) ELSE NoEnqueue
  /\ UNCHANGED nextComment

InsertComment(r) ==
  /\ Opens(r, "comment", "checked")
  /\ nextEvent <= MaxEvents
  /\ call' = [call EXCEPT ![r].event =
                {Event(nextEvent, "comment_count", call[r].post, 1)},
                          ![r].comment = nextComment]
  /\ nextEvent' = nextEvent + 1
  /\ nextComment' = nextComment + 1

\* tx.First: a consistent read, which takes no lock.
ReadComment(r) ==
  /\ pc[r] = "checked"
  /\ call[r].op = "delete_comment"
  /\ \E c \in comments : c.id = call[r].comment
  /\ pc' = [pc EXCEPT ![r] = "read"]
  /\ UNCHANGED <<tables, redis, call>>

\* Mutant: DeleteComment forgets the event.
DeleteCommentSilently(r) ==
  /\ Opens(r, "delete_comment", "read")
  /\ RowFree(r)
  /\ NoEnqueue
  /\ UNCHANGED nextComment

\* tx.Delete waits for the row and may find it gone: RowsAffected is not
\* looked at, the event is enqueued either way.
DeleteComment(r) ==
  /\ Opens(r, "delete_comment", "read")
  /\ RowFree(r)
  /\ Enqueue(r, "comment_count", -1)
  /\ UNCHANGED nextComment

\* What the open transaction does to the business tables.
CommitRows(k) ==
  /\ likes' = CASE k.op = "like"   -> likes \cup {<<k.post, k.user>>}
                [] k.op = "unlike" -> likes \ {<<k.post, k.user>>}
                [] OTHER           -> likes
  /\ comments' =
       CASE k.op = "comment" ->
              comments \cup {[id |-> k.comment, post |-> k.post, user |-> k.user]}
         [] k.op = "delete_comment" -> {c \in comments : c.id # k.comment}
         [] OTHER -> comments

\* Mutant: the event is written outside the transaction, and may be missing.
CommitApart(r) ==
  /\ pc[r] = "open"
  /\ CommitRows(call[r])
  /\ outbox' \in {outbox, outbox \cup call[r].event}
  /\ pc' = [pc EXCEPT ![r] = "after"]
  /\ UNCHANGED <<live, nextEvent, nextComment, redis, call>>

\* The business row and the event row become visible together.
Commit(r) ==
  /\ pc[r] = "open"
  /\ CommitRows(call[r])
  /\ outbox' = outbox \cup call[r].event
  /\ pc' = [pc EXCEPT ![r] = "after"]
  /\ UNCHANGED <<live, nextEvent, nextComment, redis, call>>

\* Mutant: afterInteraction is deferred, and runs for a failed request too.
AbortAddsHeat(r) ==
  /\ pc[r] \in {"checked", "read", "open"}
  /\ heat' = [heat EXCEPT ![call[r].post] = MaxHeat]
  /\ pc' = [pc EXCEPT ![r] = "idle"]
  /\ call' = [call EXCEPT ![r] = NoCall]
  /\ UNCHANGED <<tables, cache>>

\* Before the commit the handler gives up: a failed statement, a deadlock
\* victim, a cancelled request, a crash.  InnoDB rolls back; ids are not reused.
Abort(r) ==
  /\ pc[r] \in {"checked", "read", "open"}
  /\ pc' = [pc EXCEPT ![r] = "idle"]
  /\ call' = [call EXCEPT ![r] = NoCall]
  /\ UNCHANGED <<tables, redis>>

-----------------------------------------------------------------------------
(* After the commit: Redis. *)

Heat(op) == IF op \in DOMAIN HeatWeight THEN HeatWeight[op] ELSE 0
Saturate(n) == IF n > MaxHeat THEN MaxHeat ELSE n

\* afterInteraction.  Either Redis call may fail (the error is logged), and
\* both are missing when the process dies here or when Comment cannot load
\* the author for its answer.  A repeated like still adds heat.
AfterInteraction(r) ==
  LET p == call[r].post IN
  /\ pc[r] = "after"
  /\ cache' \in {cache, [cache EXCEPT ![p] = "absent"]}
  /\ heat' \in {heat,
                [heat EXCEPT ![p] = Saturate(heat[p] + Heat(call[r].op))]}
  /\ pc' = [pc EXCEPT ![r] = "idle"]
  /\ call' = [call EXCEPT ![r] = NoCall]
  /\ UNCHANGED tables

-----------------------------------------------------------------------------
(* The rest of the system, seen from here: modules PostCache and Worker have  *)
(* the detail.                                                             *)

\* PostService.Delete in one step; the invalidation may fail.
DeletePost(p) ==
  /\ p \in live
  /\ live' = live \ {p}
  /\ cache' \in {cache, [cache EXCEPT ![p] = "absent"]}
  /\ UNCHANGED <<likes, comments, outbox, nextEvent, nextComment, heat, pc, call>>

\* Whatever readers, the worker and a TTL do to the entry.
ChangeCache(p) ==
  /\ \E c \in Entries \ {cache[p]} : cache' = [cache EXCEPT ![p] = c]
  /\ UNCHANGED <<tables, heat, pc, call>>

-----------------------------------------------------------------------------
Handler(r) ==
  \/ CheckPost(r) \/ CheckComment(r)
  \/ InsertLike(r) \/ DeleteLike(r) \/ InsertComment(r)
  \/ ReadComment(r) \/ DeleteComment(r)
  \/ Commit(r) \/ Abort(r) \/ AfterInteraction(r)

Next ==
  \/ \E r \in Requests : Handler(r)
  \/ \E p \in Posts : DeletePost(p) \/ ChangeCache(p)

Spec == Init /\ [][Next]_vars

-----------------------------------------------------------------------------
TypeOK ==
  /\ live \subseteq Posts
  /\ likes \subseteq Posts \X Users
  /\ comments \subseteq Comment
  /\ outbox \subseteq CountEvent
  /\ nextEvent \in Nat \ {0}
  /\ nextComment \in Nat \ {0}
  /\ cache \in [Posts -> Entries]
  /\ heat \in [Posts -> 0 .. MaxHeat]
  /\ pc \in [Requests -> {"idle", "checked", "read", "open", "after"}]
  /\ call \in [Requests -> Call \cup {NoCall}]
  /\ \A r \in Requests : pc[r] = "idle" <=> call[r] = NoCall

LikesOf(p) == {l \in likes : l[1] = p}
CommentsOf(p) == {c \in comments : c.post = p}

(***************************************************************************)
(* The committed like events of a post add up to its rows in likes, at     *)
(* every moment and however likes and unlikes of the same user race: the   *)
(* RowsAffected test of Like and Unlike and the row lock make one event of *)
(* every change of the table, and none of a repeated click.                *)
(***************************************************************************)
LikeLedger ==
  \A p \in Posts : Net(outbox, "like_count", p) = Cardinality(LikesOf(p))

(***************************************************************************)
(* The same for comments, the claim behind the re-read in DeleteComment.   *)
(* It does not hold: two requests that delete one comment both read it,    *)
(* the second DELETE affects no row, and both enqueue -1.                  *)
(***************************************************************************)
CommentLedger ==
  \A p \in Posts :
    Net(outbox, "comment_count", p) = Cardinality(CommentsOf(p))

(***************************************************************************)
(* What does hold for comments: the events never promise more comments     *)
(* than there are, so every committed comment row that goes away has taken *)
(* at least its own +1 back.                                               *)
(***************************************************************************)
CommentNeverOver ==
  \A p \in Posts :
    Net(outbox, "comment_count", p) <= Cardinality(CommentsOf(p))

(***************************************************************************)
(* Replayed in id order, the like events never drive a count below zero:   *)
(* an unlike takes its id only after the like it undoes has committed.     *)
(* Ids are handed out before the commit, so this rests on the row lock.    *)
(***************************************************************************)
LikeIdOrder ==
  \A p \in Posts, e \in outbox :
    Net({f \in outbox : f.id <= e.id}, "like_count", p) >= 0

(***************************************************************************)
(* Heat is earned: a post is on the hot list only after a like or comment  *)
(* of it has been committed, whatever repeated or failed requests do.      *)
(***************************************************************************)
HeatEarned ==
  \A p \in Posts :
    heat[p] > 0 => \E e \in outbox : e.post = p /\ e.delta = 1
=============================================================================
