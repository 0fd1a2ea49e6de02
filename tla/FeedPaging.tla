------------------------------ MODULE FeedPaging ------------------------------
(***************************************************************************)
(* Cursor paging, while the list changes between two pages.  One client    *)
(* follows next_cursor through one list: the feed of all posts, the feed   *)
(* of the users it follows, the comments of a post, a user's follows or a  *)
(* user's posts.  Every page is a query of its own; nothing but the cursor *)
(* is kept between them.                                                   *)
(*                                                                         *)
(* Rows carry their sort key (created_at, id).  created_at is a time of    *)
(* the API process, so a row may appear with an older key than rows that   *)
(* are already there.                                                      *)
(***************************************************************************)
EXTENDS Integers, FiniteSets

CONSTANTS
  Rows,               \* what may be inserted: [time, id, author]
  Limits,             \* the limits a client may ask for
  DefaultPageSize, MaxPageSize,
  MaxFollowingFeedIDs

Authors == {p.author : p \in Rows}
Lists == {"feed", "following", "comments", "follows", "profile"}

ASSUME PagingAssumption ==
  /\ \A p \in Rows : p.time \in Int /\ p.id \in Int
  /\ \A p, q \in Rows : p.time = q.time /\ p.id = q.id => p = q
  /\ Limits \subseteq Int
  /\ DefaultPageSize \in Nat \ {0}
  /\ MaxPageSize \in Nat \ {0} /\ DefaultPageSize <= MaxPageSize
  /\ MaxFollowingFeedIDs \in Nat

VARIABLES
  present,        \* rows of the list that a query finds
  born,           \* rows that were ever inserted
  post,           \* the post whose comments are read has not been deleted
  followed,       \* authors the client follows
  stage,          \* the client: "ready" to ask for a page, "asked", "done"
  list,           \* which list it reads
  ids,            \* the authors its query is restricted to
  cursor,         \* the row of next_cursor, or none
  page,           \* the page it got last
  shown,          \* what earlier pages have shown
  kept            \* history: rows that were in the list all the time

table == <<present, born, post, followed>>
client == <<stage, list, ids, cursor, page, shown>>
pagingVars == <<table, client, kept>>

PagingInit ==
  /\ present = {} /\ born = {}
  /\ post = TRUE
  /\ followed = {}
  /\ stage = "idle" /\ list = "feed" /\ ids = {}
  /\ cursor = {} /\ page = {} /\ shown = {}
  /\ kept = {}

-----------------------------------------------------------------------------
(* The query. *)

\* ORDER BY created_at DESC, id DESC.
Newer(p, q) == p.time > q.time \/ (p.time = q.time /\ p.id > q.id)

\* Mutants: rows of one time are not told apart; the cursor's row is found again.
OlderByTime(p, c) == p.time < c.time
OlderOrSame(p, c) == Newer(c, p) \/ p = c

Older(p, c) == Newer(c, p)

Find(authors, c) ==
  {p \in present : p.author \in authors /\ \A q \in c : Older(p, q)}

First(S, n) == {p \in S : Cardinality({q \in S : Newer(q, p)}) < n}
Last(S) == {p \in S : \A q \in S : q = p \/ Newer(q, p)}

\* A limit that is not positive is the default, and none is above the maximum.
Clamp(n) == IF n <= 0 THEN DefaultPageSize
            ELSE IF n > MaxPageSize THEN MaxPageSize ELSE n

\* Mutant: the cursor is the row that was fetched to see if there is more.
BuildPageBeyond(found, limit) ==
  /\ shown' = shown \cup page
  /\ page' = First(found, limit)
  /\ cursor' = IF Cardinality(found) > limit THEN Last(First(found, limit + 1)) ELSE {}
  /\ stage' = IF Cardinality(found) > limit THEN "ready" ELSE "done"

\* buildPage, from the limit + 1 rows it asked for: one more row than the page
\* holds means another page, and the page's last row is its cursor.
BuildPage(found, limit) ==
  LET posts == First(found, limit + 1)
      hasMore == Cardinality(posts) > limit
  IN /\ shown' = shown \cup page
     /\ page' = First(posts, limit)
     /\ cursor' = IF hasMore THEN Last(page') ELSE {}
     /\ stage' = IF hasMore THEN "ready" ELSE "done"

-----------------------------------------------------------------------------
(* The client. *)

InList(l, p) == l = "following" => p.author \in followed

Start ==
  /\ stage \in {"idle", "done", "failed"}
  /\ stage' = "ready"
  /\ \E l \in Lists : list' = l /\ kept' = {p \in present : InList(l, p)}
  /\ ids' = {} /\ cursor' = {} /\ page' = {} /\ shown' = {}
  /\ UNCHANGED table

Query(authors) ==
  /\ \E n \in Limits : BuildPage(Find(authors, cursor), Clamp(n))
  /\ UNCHANGED <<table, list, ids, kept>>

List == stage = "ready" /\ list = "feed" /\ Query(Authors)

\* The list of one user's follows, by time and the other user's id.
ListFollows == stage = "ready" /\ list = "follows" /\ Query(Authors)

\* The posts on a profile; their number is a query of its own.
GetProfile == stage = "ready" /\ list = "profile" /\ Query(Authors)

\* ListFollowingFeed: first whom the client follows, then the posts.  Without anybody the page
\* is empty and the last; with too many the request is refused.
FollowingIDs ==
  /\ stage = "ready" /\ list = "following"
  /\ IF followed = {}
       THEN /\ BuildPage({}, DefaultPageSize)
            /\ ids' = {}
       ELSE /\ stage' = IF Cardinality(followed) > MaxFollowingFeedIDs THEN "failed"
                     ELSE "asked"
            /\ ids' = followed
            /\ UNCHANGED <<cursor, page, shown>>
  /\ UNCHANGED <<table, list, kept>>

ListByUserIDs == stage = "asked" /\ list = "following" /\ Query(ids)

\* ListComments: the post must be there, then one query.
MustGetPost ==
  /\ stage = "ready" /\ list = "comments"
  /\ stage' = IF post THEN "asked" ELSE "failed"
  /\ UNCHANGED <<table, list, ids, cursor, page, shown, kept>>

ListComments == stage = "asked" /\ list = "comments" /\ Query(Authors)

-----------------------------------------------------------------------------
(* Everybody else. *)

Insert ==
  /\ \E p \in Rows \ born : present' = present \cup {p} /\ born' = born \cup {p}
  /\ UNCHANGED <<post, followed, client, kept>>

Remove ==
  /\ \E p \in present : present' = present \ {p} /\ kept' = kept \ {p}
  /\ UNCHANGED <<born, post, followed, client>>

RemovePost ==
  /\ post' = FALSE
  /\ UNCHANGED <<present, born, followed, client, kept>>

Follow ==
  /\ \E a \in Authors : followed' = followed \cup {a}
  /\ UNCHANGED <<present, born, post, client, kept>>

Unfollow ==
  /\ \E a \in followed :
       /\ followed' = followed \ {a}
       /\ kept' = IF list = "following" THEN {p \in kept : p.author # a} ELSE kept
  /\ UNCHANGED <<present, born, post, client>>

Page == \/ List \/ ListFollows \/ GetProfile
        \/ FollowingIDs \/ ListByUserIDs
        \/ MustGetPost \/ ListComments

PagingNext == Start \/ Page \/ Insert \/ Remove \/ RemovePost \/ Follow \/ Unfollow

PagingSpec == PagingInit /\ [][PagingNext]_pagingVars

\* The client asks for the next page while there is one.
FairPagingSpec == PagingSpec /\ WF_pagingVars(Page)

-----------------------------------------------------------------------------
PagingTypeOK ==
  /\ present \subseteq born /\ born \subseteq Rows
  /\ post \in BOOLEAN
  /\ followed \subseteq Authors
  /\ stage \in {"idle", "ready", "asked", "done", "failed"}
  /\ list \in Lists
  /\ ids \subseteq Authors
  /\ cursor \subseteq page /\ page \subseteq born /\ shown \subseteq born
  /\ kept \subseteq present

(***************************************************************************)
(* Pages go strictly backwards in time: no row is shown twice, and none    *)
(* out of order, whatever is inserted and removed between two pages and    *)
(* however many rows share a time.                                         *)
(***************************************************************************)
InOrder == \A p \in shown, q \in page : Newer(p, q)

(***************************************************************************)
(* No row is skipped: a row that was in the list all the time has been     *)
(* shown, or still lies behind the cursor; at the end all were shown.      *)
(***************************************************************************)
NothingSkipped ==
  /\ \A p \in kept, c \in cursor : p \in shown \cup page \/ Newer(c, p)
  /\ stage = "done" => kept \subseteq shown \cup page

(***************************************************************************)
(* Paging ends: a client that follows next_cursor comes to a last page,    *)
(* also while others post, since only finitely many rows have older keys.  *)
(***************************************************************************)
PagingEnds == stage = "ready" ~> stage \in {"done", "failed"}
=============================================================================
