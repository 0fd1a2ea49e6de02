------------------------------- MODULE HotRank -------------------------------
(***************************************************************************)
(* The hot list.  Likes and comments add heat to the Redis bucket of their *)
(* minute; ListHot adds up the buckets of a window, one command each, and  *)
(* keeps the ranking for a while; flags of the viewer go on top of it.     *)
(*                                                                         *)
(* Minutes are counted backwards from now: bucket a is the one of a        *)
(* minutes ago, and a tick moves every bucket on by one.  A TTL of n ends  *)
(* with the minute that the n-th tick begins.                              *)
(***************************************************************************)
EXTENDS Integers, Sequences, FiniteSetsExt

CONSTANTS
  Posts,          \* post ids
  Viewers,        \* users that are logged in
  Guest,          \* anybody else
  Likes,          \* table likes: <<viewer, post>>; it stays as it is
  Handlers,       \* interaction handlers
  Readers,        \* handlers of ListHot
  Weights,        \* heat of a like and of a comment
  Limit,          \* length of the list
  Window,         \* minutes HotTopN adds up
  BucketTTL,      \* minutes a bucket lives after its last EXPIRE
  ResultTTL,      \* minutes a ranking is kept
  MaxLate,        \* bound: ticks between taking the time and using it
  MaxHeat         \* bound: heat in all buckets together

ASSUME HotAssumption ==
  /\ Posts \subseteq Int /\ IsFiniteSet(Posts) /\ Guest \notin Viewers
  /\ Likes \subseteq Viewers \X Posts
  /\ Weights \subseteq Nat \ {0}
  /\ {Limit, Window, BucketTTL, ResultTTL} \subseteq Nat \ {0}
  /\ {MaxLate, MaxHeat} \subseteq Nat

VARIABLES
  live,           \* posts that are not deleted
  heat,           \* Redis: the sorted set of each bucket
  ttl,            \* Redis: minutes a bucket has left, or Forever
  result,         \* Redis: the ranking that is kept
  bump,           \* where each interaction handler is
  reader          \* where each ListHot is

redis == <<heat, ttl, result>>
hotVars == <<live, redis, bump, reader>>

Ages == 0 .. Window - 1 + MaxLate
Forever == -1
Cold == [p \in Posts |-> 0]
Plus(f, g) == [p \in Posts |-> f[p] + g[p]]

\* The heat of p in the first n of the buckets from one on, and in a window.
Sums(buckets, from, p) ==
  LET sums[n \in 0 .. Window] ==
        IF n = 0 THEN 0 ELSE sums[n - 1] + buckets[from + n - 1][p]
  IN sums
Sum(buckets, from, p) == Sums(buckets, from, p)[Window]

Absent == [kind |-> "absent", ttl |-> Forever]
Ranking(items, liked, left) ==
  [kind |-> "list", items |-> items, liked |-> liked, ttl |-> left]
Listed(items) == {items[k] : k \in 1 .. Len(items)}

IdleHandler == [pc |-> "idle"]

\* todo: ids still to be looked up; base: heat in the window at the start, or
\* Cold after a bucket of the window failed or expired.
IdleReader == [pc |-> "idle", viewer |-> Guest, items |-> <<>>, liked |-> {},
               todo |-> <<>>, i |-> 0, late |-> 0, acc |-> Cold, base |-> Cold]

\* A request that has its ranking, whatever it added up.
Request(me, pc) == [IdleReader EXCEPT !.pc = pc, !.viewer = me.viewer]

LikesOf(v) == {p \in Posts : <<v, p>> \in Likes}

HotInit ==
  /\ live = Posts
  /\ heat = [a \in Ages |-> Cold]
  /\ ttl = [a \in Ages |-> Forever]
  /\ result = Absent
  /\ bump = [h \in Handlers |-> IdleHandler]
  /\ reader = [r \in Readers |-> IdleReader]

-----------------------------------------------------------------------------
(* afterInteraction: HotBucket(now), then ZINCRBY and EXPIRE. *)

TotalHeat ==
  MapThenSumSet(LAMBDA a : MapThenSumSet(LAMBDA p : heat[a][p], Posts), Ages)

HotBucket(h) ==
  /\ bump[h].pc = "idle"
  /\ \E p \in live, w \in Weights :
       /\ TotalHeat + w <= MaxHeat
       /\ bump' = [bump EXCEPT ![h] = [pc |-> "zincrby", post |-> p,
                                       weight |-> w, age |-> 0]]
  /\ UNCHANGED <<live, redis, reader>>

\* An error ends the handler: no heat, no EXPIRE.
ZIncrBy(h) ==
  LET b == bump[h] IN
  /\ b.pc = "zincrby"
  /\ \/ /\ heat' = [heat EXCEPT ![b.age][b.post] = @ + b.weight]
        /\ bump' = [bump EXCEPT ![h].pc = "expire"]
     \/ /\ bump' = [bump EXCEPT ![h] = IdleHandler]
        /\ UNCHANGED heat
  /\ UNCHANGED <<live, ttl, result, reader>>

\* EXPIRE does nothing to a bucket that is gone already; it may fail, or the
\* handler dies before it.
Expire(h) ==
  LET a == bump[h].age IN
  /\ bump[h].pc = "expire"
  /\ ttl' \in {ttl, IF heat[a] = Cold THEN ttl ELSE [ttl EXCEPT ![a] = BucketTTL]}
  /\ bump' = [bump EXCEPT ![h] = IdleHandler]
  /\ UNCHANGED <<live, heat, result, reader>>

-----------------------------------------------------------------------------
(* ListHot. *)

StartHot(r) ==
  /\ reader[r].pc \in {"idle", "done"}
  /\ \E v \in Viewers \cup {Guest} :
       reader' = [reader EXCEPT ![r] = [IdleReader EXCEPT
                    !.pc = "get", !.viewer = v]]
  /\ UNCHANGED <<live, redis, bump>>

\* A ranking that is kept will do, an empty one too.  Without one, or when
\* Redis fails, the buckets are added up from the minute that is now.
GetResult(r) ==
  /\ reader[r].pc = "get"
  /\ \/ /\ result # Absent
        /\ reader' = [reader EXCEPT ![r].pc = "cached",
                        ![r].items = result.items, ![r].liked = result.liked]
     \/ reader' = [reader EXCEPT ![r].pc = "read",
                     ![r].base = [p \in Posts |-> Sum(heat, 0, p)]]
  /\ UNCHANGED <<live, redis, bump>>

\* Score descending, then id descending.
Above(score, p, q) == score[p] > score[q] \/ (score[p] = score[q] /\ p > q)

Ranked(score) ==
  LET hot == {p \in Posts : score[p] > 0}
      rank == [p \in hot |-> Cardinality({q \in hot : Above(score, q, p)}) + 1]
  IN [k \in 1 .. Cardinality(hot) |-> CHOOSE p \in hot : rank[p] = k]

\* Mutant: the list is not cut off.
TopAll(score) == Ranked(score)

Top(score) == SubSeq(Ranked(score), 1, Min({Limit, Cardinality(Listed(Ranked(score)))}))

\* One more bucket; after the last one the ranking is ready to be looked up.
AddBucket(r, a) ==
  LET me == reader[r]
      Go(acc, base) ==
        reader' = [reader EXCEPT ![r] =
          IF me.i + 1 < Window
            THEN [me EXCEPT !.i = @ + 1, !.acc = acc, !.base = base]
            ELSE [Request(me, IF Top(acc) = <<>> THEN "liked" ELSE "hydrate")
                    EXCEPT !.todo = Top(acc), !.base = base]]
  IN /\ me.pc = "read"
     /\ Go(Plus(me.acc, heat[a]), me.base) \/ Go(me.acc, Cold)

ReadAge(r, a) == AddBucket(r, a) /\ UNCHANGED <<live, redis, bump>>

\* Mutant: each bucket is counted back from the time it is read at.
ReadBucketMoving(r) == ReadAge(r, reader[r].i)

\* Mutant: a bucket that is read gets its expiry anew, as a session would.
ReadBucketTouches(r) ==
  LET a == reader[r].i + reader[r].late IN
  /\ AddBucket(r, a)
  /\ ttl' = IF ttl[a] = Forever THEN ttl ELSE [ttl EXCEPT ![a] = BucketTTL]
  /\ UNCHANGED <<live, heat, result, bump>>

\* The time was taken once; a bucket that cannot be read is left out.
ReadBucket(r) == ReadAge(r, reader[r].i + reader[r].late)

\* One post after the other: a deleted one, or one whose query fails, is
\* skipped; if its author cannot be read, the request fails.
Hydrate(r) ==
  LET me == reader[r]
      p == Head(me.todo)
      Go(items) == reader' = [reader EXCEPT ![r] =
        [Request(me, IF Len(me.todo) > 1 THEN "hydrate" ELSE "liked")
           EXCEPT !.items = items, !.todo = Tail(me.todo)]]
  IN /\ me.pc = "hydrate"
     /\ \/ p \in live /\ Go(Append(me.items, p))
        \/ Go(me.items)
        \/ p \in live /\ reader' = [reader EXCEPT ![r] = IdleReader]
     /\ UNCHANGED <<live, redis, bump>>

\* One query for the flags of a viewer who is logged in; after an error they
\* stay as they were.
FillLiked(r) ==
  LET me == reader[r]
      Go(liked) == reader' = [reader EXCEPT ![r].liked = liked,
                     ![r].pc = IF me.pc = "cached" THEN "done" ELSE "set"]
  IN /\ me.pc \in {"cached", "liked"}
     /\ \/ me.viewer # Guest /\ Go(LikesOf(me.viewer) \cap Listed(me.items))
        \/ Go(me.liked)
     /\ UNCHANGED <<live, redis, bump>>

SetJSON(r, kept) ==
  /\ reader[r].pc = "set"
  /\ result' \in {result, kept}
  /\ reader' = [reader EXCEPT ![r].pc = "done"]
  /\ UNCHANGED <<live, heat, ttl, bump>>

\* Mutant: the page is kept as it was served.
SetResultAsServed(r) ==
  SetJSON(r, Ranking(reader[r].items, reader[r].liked, ResultTTL))

\* The ranking is kept without the viewer's flags.
SetResult(r) == SetJSON(r, Ranking(reader[r].items, {}, ResultTTL))

-----------------------------------------------------------------------------
(* Time, and everybody else. *)

\* A key whose last minute is over is gone.
Aged(n) == IF n \in {Forever, 0} THEN Forever ELSE n - 1
Shifted ==
  [a \in Ages |-> IF a = 0 \/ ttl[a - 1] = 0 THEN Cold ELSE heat[a - 1]]

\* A request that still adds up is a minute late; it may miss a bucket now.
Wait(me) ==
  IF me.pc # "read" THEN me
  ELSE [me EXCEPT !.late = @ + 1,
                  !.base = IF \E j \in 0 .. Window - 1 : ttl[j + me.late] = 0
                             THEN Cold ELSE @]

\* The next minute begins.
Tick ==
  /\ \A r \in Readers : reader[r].pc = "read" => reader[r].late < MaxLate
  /\ \A h \in Handlers : bump[h].pc # "idle" => bump[h].age < MaxLate
  /\ heat' = Shifted
  /\ ttl' = [a \in Ages |-> IF a = 0 THEN Forever ELSE Aged(ttl[a - 1])]
  /\ result' = IF result.ttl = 0 THEN Absent ELSE [result EXCEPT !.ttl = Aged(@)]
  /\ reader' = [r \in Readers |-> Wait(reader[r])]
  /\ bump' = [h \in Handlers |->
       IF bump[h].pc # "idle" THEN [bump[h] EXCEPT !.age = @ + 1] ELSE bump[h]]
  /\ UNCHANGED <<live>>

Delete ==
  /\ \E p \in live : live' = live \ {p}
  /\ UNCHANGED <<redis, bump, reader>>

-----------------------------------------------------------------------------
AfterInteraction(h) == ZIncrBy(h) \/ Expire(h)
ListHot(r) == GetResult(r) \/ ReadBucket(r) \/ Hydrate(r) \/ FillLiked(r) \/ SetResult(r)

HotNext ==
  \/ \E h \in Handlers : HotBucket(h) \/ AfterInteraction(h)
  \/ \E r \in Readers : StartHot(r) \/ ListHot(r)
  \/ Tick \/ Delete

HotSpec == HotInit /\ [][HotNext]_hotVars

-----------------------------------------------------------------------------
HotTypeOK ==
  /\ live \subseteq Posts
  /\ heat \in [Ages -> [Posts -> Nat]]
  /\ ttl \in [Ages -> Forever .. BucketTTL]
  /\ result # Absent => /\ result.ttl \in 0 .. ResultTTL
                        /\ Len(result.items) <= Limit
  /\ \A h \in Handlers : bump[h].pc \in {"idle", "zincrby", "expire"}
  /\ \A r \in Readers :
       /\ reader[r].pc \in {"idle", "get", "read", "hydrate", "cached", "liked",
                            "set", "done"}
       /\ Len(reader[r].items) + Len(reader[r].todo) <= Limit

(***************************************************************************)
(* Nobody sees another's likes: a flag in a list that was served is a like *)
(* of its own viewer, although rankings are kept for everybody and the     *)
(* query for the flags may fail.                                           *)
(***************************************************************************)
OwnLikes ==
  \A r \in Readers : reader[r].pc = "done" => reader[r].liked \subseteq LikesOf(reader[r].viewer)

(***************************************************************************)
(* Nothing hot is older than a bucket's TTL: every increment moves the end *)
(* of its bucket, handlers come late, and still a bucket with an expiry is *)
(* gone BucketTTL minutes after the last handler that may have its name.   *)
(* That is the hot window of cache.go:95 (ten minutes and one to spare),   *)
(* and not the list of feed_service.go:255, which asks for "the last 60    *)
(* minutes": heat between 11 and 60 minutes old is asked for and is gone.  *)
(***************************************************************************)
HotIsRecent ==
  \A a \in Ages :
    heat[a] # Cold /\ ttl[a] # Forever => a <= BucketTTL + MaxLate

Finishes(r) == reader[r].pc = "read" /\ reader'[r].pc # "read"

(***************************************************************************)
(* A place in the ranking is earned: buckets are read one after another    *)
(* while minutes pass and heat comes in, but unless a bucket was missed, a *)
(* post is listed above another, or instead of it, only if all its heat of *)
(* the window is not less than what the other had at the start.            *)
(***************************************************************************)
RankIsEarned ==
  [][\A r \in Readers : Finishes(r) /\ reader'[r].base # Cold =>
       LET top == reader'[r].todo
           mine(p) == Sum(heat, reader[r].late, p)
       IN \A k \in 1 .. Len(top), q \in Posts :
            q \notin {top[m] : m \in 1 .. k} =>
              \/ mine(top[k]) > reader'[r].base[q]
              \/ mine(top[k]) = reader'[r].base[q] /\ top[k] > q]_hotVars
=============================================================================
