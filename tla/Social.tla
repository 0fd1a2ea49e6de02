-------------------------------- MODULE Social --------------------------------
(***************************************************************************)
(* Follow and Unfollow: one transaction changes a row of follows and the   *)
(* two counters in users, statement by statement; then the cache entries   *)
(* of both users are dropped.                                              *)
(*                                                                         *)
(* InnoDB locks each row from the statement that changes it to the end of  *)
(* the transaction, lets the others wait and rolls back a transaction of   *)
(* every deadlock.  What a transaction has done so far follows from its pc *)
(* and is seen by others at Commit.                                        *)
(***************************************************************************)
EXTENDS Integers, FiniteSets

CONSTANTS
  Users,
  Requests        \* handler goroutines of the API processes

VARIABLES
  follows,        \* table follows: <<follower, followee>>, the primary key
  following,      \* users.following_count
  followers,      \* users.follower_count
  entry,          \* Redis: the entry of each user
  fill,           \* what a reader of each user has read and not yet cached
  pc,             \* where each handler is
  call            \* its arguments

counters == <<following, followers>>
cache == <<entry, fill>>
vars == <<follows, counters, cache, pc, call>>

Call == [op : {"follow", "unfollow"}, from : Users, to : Users]
NoCall == [op |-> "none"]

Init ==
  /\ follows = {}
  /\ following = [u \in Users |-> 0]
  /\ followers = [u \in Users |-> 0]
  /\ entry = [u \in Users |-> "absent"]
  /\ fill = [u \in Users |-> "none"]
  /\ pc = [r \in Requests |-> "idle"]
  /\ call = [r \in Requests |-> NoCall]

Edge(r) == <<call[r].from, call[r].to>>
Both(r) == {call[r].from, call[r].to}
At(r, place) == pc' = [pc EXCEPT ![r] = place]
Leave(r) == At(r, "idle") /\ call' = [call EXCEPT ![r] = NoCall]

-----------------------------------------------------------------------------
(* Row locks. *)

\* The rows a transaction has changed, and the one its next statement changes.
Locks(r) == CASE pc[r] = "edited" -> {Edge(r)}
              [] pc[r] = "bumped" -> {Edge(r), call[r].from}
              [] pc[r] = "open" -> {Edge(r), call[r].from, call[r].to}
              [] OTHER -> {}
Wants(r) == CASE pc[r] = "checked" -> {Edge(r)}
              [] pc[r] = "edited" -> {call[r].from}
              [] pc[r] = "bumped" -> {call[r].to}
              [] OTHER -> {}

WaitsFor(r, s) == s # r /\ Wants(r) \cap Locks(s) # {}
Granted(r) == \A s \in Requests : ~WaitsFor(r, s)

\* Every row has one holder, so a cycle is a set in which each waits for one
\* of the set and is waited for by one.
Deadlocked(r) ==
  \E C \in SUBSET Requests :
    /\ r \in C
    /\ \A q \in C : (\E s \in C : WaitsFor(q, s)) /\ (\E s \in C : WaitsFor(s, q))

-----------------------------------------------------------------------------
(* The handler. *)

CheckTarget(r) ==
  /\ pc[r] = "idle"
  /\ \E c \in Call :
       /\ c.from # c.to
       /\ call' = [call EXCEPT ![r] = c]
  /\ At(r, "checked")
  /\ UNCHANGED <<follows, counters, cache>>

\* Does INSERT IGNORE or DELETE change a row?
RowsAffected(r) == (call[r].op = "follow") = (Edge(r) \notin follows)

\* Mutant: RowsAffected is not looked at.
EditFollowsAlways(r) ==
  /\ pc[r] = "checked"
  /\ Granted(r)
  /\ At(r, "edited")
  /\ UNCHANGED <<follows, counters, cache, call>>

\* Mutant: the early return leaves the transaction open.
EditFollowsLeaves(r) ==
  /\ pc[r] = "checked"
  /\ Granted(r)
  /\ At(r, IF RowsAffected(r) THEN "edited" ELSE "returned")
  /\ UNCHANGED <<follows, counters, cache, call>>

\* A transaction that changes nothing ends here.
EditFollows(r) ==
  /\ pc[r] = "checked"
  /\ Granted(r)
  /\ At(r, IF RowsAffected(r) THEN "edited" ELSE "after")
  /\ UNCHANGED <<follows, counters, cache, call>>

BumpFollowing(r) ==
  /\ pc[r] = "edited"
  /\ Granted(r)
  /\ At(r, "bumped")
  /\ UNCHANGED <<follows, counters, cache, call>>

BumpFollowers(r) ==
  /\ pc[r] = "bumped"
  /\ Granted(r)
  /\ At(r, "open")
  /\ UNCHANGED <<follows, counters, cache, call>>

\* What a copy of a user's row is worth after the commit.
Outdated(r, u, copy) == IF u \in Both(r) /\ copy = "current" THEN "stale" ELSE copy

Commit(r) ==
  LET delta == IF call[r].op = "follow" THEN 1 ELSE -1 IN
  /\ pc[r] = "open"
  /\ follows' = IF call[r].op = "follow" THEN follows \cup {Edge(r)}
                                         ELSE follows \ {Edge(r)}
  /\ following' = [following EXCEPT ![call[r].from] = @ + delta]
  /\ followers' = [followers EXCEPT ![call[r].to] = @ + delta]
  /\ entry' = [u \in Users |-> Outdated(r, u, entry[u])]
  /\ fill' = [u \in Users |-> Outdated(r, u, fill[u])]
  /\ At(r, "after")
  /\ UNCHANGED call

\* Any failure of a statement or of the commit; the client gets an error.
Rollback(r) ==
  /\ pc[r] \in {"checked", "edited", "bumped", "open"}
  /\ Leave(r)
  /\ UNCHANGED <<follows, counters, cache>>

Victim(r) == Deadlocked(r) /\ Rollback(r)

\* A failed DEL is logged, and a handler that dies here leaves no trace at all.
KeepEntries(r) ==
  entry' = [u \in Users |->
    IF u \in Both(r) /\ entry[u] = "stale" THEN "forgotten" ELSE entry[u]]

\* Mutant: only the follower's entry is dropped.
AfterSocialHalf(r) ==
  /\ pc[r] = "after"
  /\ entry' = [entry EXCEPT ![call[r].from] = "absent"] \/ KeepEntries(r)
  /\ Leave(r)
  /\ UNCHANGED <<follows, counters, fill>>

\* One DEL of both entries, after a repeated request too.
AfterSocial(r) ==
  /\ pc[r] = "after"
  /\ \/ entry' = [u \in Users |-> IF u \in Both(r) THEN "absent" ELSE entry[u]]
     \/ KeepEntries(r)
  /\ Leave(r)
  /\ UNCHANGED <<follows, counters, fill>>

-----------------------------------------------------------------------------
(* getUserCached, for the author of a post: one reader of each user.         *)

\* No entry, or Redis does not answer.
ReadUser(u) ==
  /\ fill[u] = "none"
  /\ fill' = [fill EXCEPT ![u] = "current"]
  /\ UNCHANGED <<follows, counters, entry, pc, call>>

\* A row that has changed since is cached like any other; a SET may fail.
SetUser(u) ==
  /\ fill[u] # "none"
  /\ entry' \in {entry, [entry EXCEPT ![u] =
                           IF fill[u] = "current" THEN "current" ELSE "overtaken"]}
  /\ fill' = [fill EXCEPT ![u] = "none"]
  /\ UNCHANGED <<follows, counters, pc, call>>

\* The end of its TTL.
ExpireUser(u) ==
  /\ entry' = [entry EXCEPT ![u] = "absent"]
  /\ UNCHANGED <<follows, counters, fill, pc, call>>

-----------------------------------------------------------------------------
Handle(r) == EditFollows(r) \/ BumpFollowing(r) \/ BumpFollowers(r)
             \/ Commit(r) \/ AfterSocial(r)

Next ==
  \/ \E r \in Requests : CheckTarget(r) \/ Handle(r) \/ Rollback(r)
  \/ \E u \in Users : ReadUser(u) \/ SetUser(u) \/ ExpireUser(u)

Spec == Init /\ [][Next]_vars

\* A handler goes on.  A lock that is free again and again is granted in the
\* end (waiters queue for a row), and a deadlock is detected.
FairSpec ==
  /\ Spec
  /\ \A r \in Requests : SF_vars(Handle(r)) /\ WF_vars(Victim(r))

-----------------------------------------------------------------------------
TypeOK ==
  /\ follows \subseteq {e \in Users \X Users : e[1] # e[2]}
  /\ following \in [Users -> Int]
  /\ followers \in [Users -> Int]
  /\ entry \in [Users -> {"absent", "current", "stale", "overtaken", "forgotten"}]
  /\ fill \in [Users -> {"none", "current", "stale"}]
  /\ pc \in [Requests -> {"idle", "checked", "edited", "bumped", "open", "after"}]
  /\ call \in [Requests -> {c \in Call : c.from # c.to} \cup {NoCall}]
  /\ \A r \in Requests : pc[r] = "idle" <=> call[r] = NoCall

(***************************************************************************)
(* The two redundant counters of a user are its degrees in the follow      *)
(* graph, whatever requests repeat, undo, interleave with or roll back one *)
(* another.                                                                *)
(***************************************************************************)
Degrees ==
  \A u \in Users :
    /\ following[u] = Cardinality({e \in follows : e[1] = u})
    /\ followers[u] = Cardinality({e \in follows : e[2] = u})

(***************************************************************************)
(* Two users who follow each other at the same moment lock the two rows of *)
(* users in opposite orders and deadlock; nobody hangs for it: every       *)
(* request ends, committed or rolled back.                                 *)
(***************************************************************************)
RequestsEnd ==
  \A r \in Requests : pc[r] # "idle" ~> pc[r] = "idle"

(***************************************************************************)
(* A cached user shows counters that are no longer true only while the     *)
(* handler that changed them is about to drop the entry.  The ways round   *)
(* it, until the TTL ends them, are two: the reader that filled the entry  *)
(* was overtaken by a commit, or the DEL was lost.                         *)
(***************************************************************************)
StaleUserCovered ==
  \A u \in Users : entry[u] = "stale" =>
    \E r \in Requests : pc[r] = "after" /\ u \in Both(r)
=============================================================================
