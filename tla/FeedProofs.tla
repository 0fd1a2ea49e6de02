----------------------------- MODULE FeedProofs ------------------------------
(***************************************************************************)
(* What the lists show, for any rows, posts, users and limits, and any     *)
(* number of handlers: pages of a list that changes lose no row and repeat *)
(* none (FeedPaging), the hot list shows nobody another's likes and no     *)
(* heat from minutes ago that should be gone, and its places are earned    *)
(* (HotRank), and the counters beside a profile are the degrees of the     *)
(* follow graph (Social).                                                  *)
(*                                                                         *)
(* ORDER BY ... LIMIT and the ranking of the hot list choose by position   *)
(* in an order; that every position is taken, by one row, is proved once.  *)
(* The sum of a window is a recursive function; what is needed of it is    *)
(* proved from the least length at which it would fail.                    *)
(***************************************************************************)
EXTENDS Social, FeedPaging, HotRank, FiniteSetTheorems, SequenceTheorems, TLAPS

-----------------------------------------------------------------------------
(* Ranks in a strict order R of a finite set S. *)

Orders(R, S) ==
  /\ \A p \in S : <<p, p>> \notin R
  /\ \A p, q \in S : p = q \/ <<p, q>> \in R \/ <<q, p>> \in R
  /\ \A p, q, r \in S : <<p, q>> \in R /\ <<q, r>> \in R => <<p, r>> \in R

\* How many of S come before p.
Rank(R, S, p) == Cardinality({q \in S : <<q, p>> \in R})

LEMMA RankIs ==
  ASSUME NEW S, IsFiniteSet(S), NEW R, Orders(R, S)
  PROVE  /\ Cardinality(S) \in Nat
         /\ \A p \in S : Rank(R, S, p) \in 0 .. Cardinality(S) - 1
         /\ \A p, q \in S : <<p, q>> \in R => Rank(R, S, p) < Rank(R, S, q)
<1> DEFINE N(p) == {q \in S : <<q, p>> \in R}
<1>1. Cardinality(S) \in Nat
  BY FS_CardinalityType
<1>2. ASSUME NEW p \in S PROVE IsFiniteSet(N(p)) /\ Rank(R, S, p) \in Nat
  BY FS_Subset, FS_CardinalityType DEF Rank
<1>3. ASSUME NEW p \in S PROVE Rank(R, S, p) < Cardinality(S)
  <2>1. N(p) \subseteq S /\ p \in S /\ p \notin N(p)
    BY DEF Orders
  <2>2. Cardinality(N(p)) <= Cardinality(S) /\ Cardinality(N(p)) # Cardinality(S)
    BY <2>1, FS_Subset
  <2> QED  BY <1>1, <1>2, <2>2 DEF Rank
<1>4. ASSUME NEW p \in S, NEW q \in S, <<p, q>> \in R
      PROVE  Rank(R, S, p) < Rank(R, S, q)
  <2>1. N(p) \subseteq N(q)
    BY <1>4 DEF Orders
  <2>2. p \in N(q) /\ p \notin N(p)
    BY <1>4 DEF Orders
  <2>3. Rank(R, S, p) <= Rank(R, S, q) /\ Rank(R, S, p) # Rank(R, S, q)
    <3>1. IsFiniteSet(N(q))
      BY <1>2
    <3> HIDE DEF N
    <3>2. Cardinality(N(p)) <= Cardinality(N(q)) /\ Cardinality(N(p)) # Cardinality(N(q))
      BY <2>1, <2>2, <3>1, FS_Subset
    <3> QED  BY <3>2 DEF Rank, N
  <2>4. Rank(R, S, p) \in Nat /\ Rank(R, S, q) \in Nat
    BY <1>2
  <2> QED  BY <2>3, <2>4
<1> HIDE DEF N
<1>5. ASSUME NEW p \in S PROVE Rank(R, S, p) \in 0 .. Cardinality(S) - 1
  <2>1. Rank(R, S, p) \in Nat /\ Rank(R, S, p) < Cardinality(S)
    BY <1>2, <1>3
  <2> QED  BY <1>1, <2>1
<1> QED  BY <1>1, <1>4, <1>5

\* Every rank below the size of S is taken.
LEMMA RankTaken ==
  ASSUME NEW S, IsFiniteSet(S), NEW R, Orders(R, S), NEW n \in 0 .. Cardinality(S) - 1
  PROVE  \E p \in S : Rank(R, S, p) = n
<1> DEFINE T == 0 .. Cardinality(S) - 1
           rank == [p \in S |-> Rank(R, S, p)]
<1>1. Cardinality(S) \in Nat
  BY FS_CardinalityType
<1>2. IsFiniteSet(T) /\ Cardinality(T) = Cardinality(S)
  BY <1>1, FS_Interval
<1>3. rank \in [S -> T]
  BY RankIs
<1>4. \A p, q \in S : Rank(R, S, p) = Rank(R, S, q) => p = q
  <2> SUFFICES ASSUME NEW p \in S, NEW q \in S, Rank(R, S, p) = Rank(R, S, q), p # q
               PROVE  FALSE
    OBVIOUS
  <2>1. <<p, q>> \in R \/ <<q, p>> \in R
    BY DEF Orders
  <2>2. Rank(R, S, p) \in Nat /\ Rank(R, S, q) \in Nat
    BY <1>1, RankIs
  <2> QED  BY <2>1, <2>2, RankIs
<1>5. rank \in Injection(S, T)
  BY <1>3, <1>4 DEF Injection, IsInjective
<1>6. rank \in Surjection(S, T)
  BY <1>2, <1>5, FS_Injection
<1> QED  BY <1>6 DEF Surjection

\* Induction over numbers is by the least counterexample, the one of rank 0.
LEMMA Least ==
  ASSUME NEW n \in Nat, NEW T \in SUBSET (0 .. n), T # {}
  PROVE  \E m \in T : \A k \in T : m <= k
<1>1. PICK R : R = {e \in T \X T : e[1] < e[2]}
  OBVIOUS
<1>2. IsFiniteSet(T) /\ Cardinality(T) \in Nat /\ Cardinality(T) # 0
  <2>1. IsFiniteSet(0 .. n)
    BY FS_Interval
  <2>2. IsFiniteSet(T)
    BY <2>1, FS_Subset
  <2> QED  BY <2>2, FS_CardinalityType, FS_EmptySet
<1>3. \A k, m \in T : <<k, m>> \in R <=> k < m
  BY <1>1
<1>4. Orders(R, T)
  <2>1. \A k, l, m \in T : k \in Int /\ l \in Int /\ m \in Int
    OBVIOUS
  <2> QED  BY <1>3, <2>1 DEF Orders
<1>5. PICK m \in T : Rank(R, T, m) = 0
  <2>1. PICK z \in 0 .. Cardinality(T) - 1 : z = 0
    BY <1>2
  <2>2. PICK U : U = T
    OBVIOUS
  <2>3. IsFiniteSet(U) /\ Orders(R, U) /\ z \in 0 .. Cardinality(U) - 1
    BY <1>2, <1>4, <2>1, <2>2
  <2>4. \E m \in U : Rank(R, U, m) = z
    BY <2>3, RankTaken
  <2> QED  BY <2>1, <2>2, <2>4
<1>6. {k \in T : <<k, m>> \in R} = {}
  <2>1. IsFiniteSet({k \in T : <<k, m>> \in R})
    BY <1>2, FS_Subset
  <2> QED  BY <1>5, <2>1, FS_EmptySet DEF Rank
<1>7. ASSUME NEW k \in T PROVE ~(k < m) /\ k \in Int /\ m \in Int
  <2>1. <<k, m>> \notin R
    BY <1>6
  <2> QED  BY <1>3, <2>1
<1> QED  BY <1>7

-----------------------------------------------------------------------------
(* The query of a page, and buildPage. *)

\* Newer orders the rows.
LEMMA NewerOrder ==
  ASSUME NEW p \in Rows, NEW q \in Rows
  PROVE  /\ ~Newer(p, p)
         /\ p = q \/ Newer(p, q) \/ Newer(q, p)
         /\ \A r \in Rows : Newer(p, q) /\ Newer(q, r) => Newer(p, r)
<1>1. \A r \in Rows : r.time \in Int /\ r.id \in Int
  BY PagingAssumption
<1>2. p.time = q.time /\ p.id = q.id => p = q
  BY PagingAssumption
<1> QED  BY <1>1, <1>2 DEF Newer

NewerThan == {e \in Rows \X Rows : Newer(e[1], e[2])}

LEMMA NewerOrders == ASSUME NEW S \in SUBSET Rows PROVE Orders(NewerThan, S)
BY NewerOrder DEF Orders, NewerThan

\* First(S, n) holds the rows that fewer than n others are newer than.
LEMMA FirstByRank ==
  ASSUME NEW S \in SUBSET Rows, NEW n
  PROVE  First(S, n) = {p \in S : Rank(NewerThan, S, p) < n}
<1>1. \A p \in S : {q \in S : Newer(q, p)} = {q \in S : <<q, p>> \in NewerThan}
  BY DEF NewerThan
<1> QED  BY <1>1 DEF First, Rank

\* What ORDER BY and LIMIT n return: all there is, or n rows that nothing left
\* out is newer than, and the last of these.
LEMMA FirstIs ==
  ASSUME NEW S \in SUBSET Rows, IsFiniteSet(S), NEW n \in Nat
  PROVE  /\ First(S, n) \subseteq S
         /\ \A p \in First(S, n), q \in S \ First(S, n) : Newer(p, q)
         /\ Cardinality(S) <= n => First(S, n) = S
         /\ Cardinality(S) > n => Cardinality(First(S, n)) >= n
         /\ n > 0 /\ Cardinality(S) >= n => Last(First(S, n)) # {}
<1>1. First(S, n) = {p \in S : Rank(NewerThan, S, p) < n}
  BY FirstByRank
<1>2. /\ Cardinality(S) \in Nat
      /\ \A p \in S : Rank(NewerThan, S, p) \in 0 .. Cardinality(S) - 1
      /\ \A p, q \in S : Newer(p, q) => Rank(NewerThan, S, p) < Rank(NewerThan, S, q)
  <2>1. \A p, q \in S : Newer(p, q) => <<p, q>> \in NewerThan
    BY DEF NewerThan
  <2> QED  BY <2>1, NewerOrders, RankIs
<1>3. ASSUME NEW p \in First(S, n), NEW q \in S \ First(S, n) PROVE Newer(p, q)
  <2>1. p \in S /\ q \in S /\ Rank(NewerThan, S, p) < n /\ ~(Rank(NewerThan, S, q) < n) /\ p # q
    BY <1>1
  <2>2. ~Newer(q, p)
    BY <1>2, <2>1
  <2> QED  BY <2>1, <2>2, NewerOrder
<1>4. Cardinality(S) <= n => First(S, n) = S
  BY <1>1, <1>2
<1>5. ASSUME Cardinality(S) > n PROVE Cardinality(First(S, n)) >= n
  <2> DEFINE T == 0 .. n - 1
             rank == [p \in First(S, n) |-> Rank(NewerThan, S, p)]
  <2>1. IsFiniteSet(First(S, n)) /\ IsFiniteSet(T) /\ Cardinality(T) = n
    BY <1>1, FS_Subset, FS_Interval
  <2>2. rank \in [First(S, n) -> T]
    BY <1>1, <1>2
  <2>3. ASSUME NEW k \in T PROVE \E p \in First(S, n) : rank[p] = k
    <3>1. k \in 0 .. Cardinality(S) - 1
      BY <1>2, <1>5
    <3>2. PICK p \in S : Rank(NewerThan, S, p) = k
      BY <3>1, NewerOrders, RankTaken
    <3> QED  BY <1>1, <3>2
  <2>4. rank \in Surjection(First(S, n), T)
    BY <2>2, <2>3 DEF Surjection
  <2>5. Cardinality(T) <= Cardinality(First(S, n))
    BY <2>1, <2>4, FS_Surjection
  <2>6. Cardinality(First(S, n)) \in Nat
    BY <2>1, FS_CardinalityType
  <2> QED  BY <2>1, <2>5, <2>6
<1>6. ASSUME n > 0, Cardinality(S) >= n PROVE Last(First(S, n)) # {}
  <2>1. n - 1 \in 0 .. Cardinality(S) - 1
    BY <1>2, <1>6
  <2>2. PICK p \in S : Rank(NewerThan, S, p) = n - 1
    BY <2>1, NewerOrders, RankTaken
  <2>3. ASSUME NEW q \in First(S, n), q # p PROVE Newer(q, p)
    <3>1. q \in S /\ Rank(NewerThan, S, q) \in Nat /\ Rank(NewerThan, S, q) < n
      BY <1>1, <1>2
    <3>2. ~Newer(p, q)
      BY <1>2, <2>2, <3>1
    <3> QED  BY <2>3, <3>1, <3>2, NewerOrder
  <2>4. p \in First(S, n)
    BY <1>1, <2>2
  <2> QED  BY <2>3, <2>4 DEF Last
<1> QED  BY <1>1, <1>3, <1>4, <1>5, <1>6

\* The first n of the first n + 1.
LEMMA FirstOfFirst ==
  ASSUME NEW S \in SUBSET Rows, IsFiniteSet(S), NEW n \in Nat
  PROVE  First(First(S, n + 1), n) = First(S, n)
<1> DEFINE F == First(S, n + 1)
<1>1. F \subseteq S /\ \A p \in F, q \in S \ F : Newer(p, q)
  BY FirstIs
<1>2. \A p \in F, q \in S : Newer(q, p) => q \in F
  BY <1>1, NewerOrder
<1>3. \A p \in F : {q \in F : Newer(q, p)} = {q \in S : Newer(q, p)}
  BY <1>1, <1>2
<1>4. \A p \in S : Rank(NewerThan, S, p) \in Nat
  BY NewerOrders, RankIs
<1>5. First(S, n) \subseteq F
  BY <1>4, FirstByRank
<1> HIDE DEF F
<1>6. First(F, n) = {p \in F : Rank(NewerThan, S, p) < n}
  <2>1. \A p \in F : {q \in F : Newer(q, p)} = {q \in S : <<q, p>> \in NewerThan}
    BY <1>1, <1>3 DEF NewerThan
  <2> QED  BY <2>1 DEF First, Rank
<1>7. First(S, n) = {p \in S : Rank(NewerThan, S, p) < n}
  BY FirstByRank
<1> QED  BY <1>1, <1>5, <1>6, <1>7 DEF F

\* What buildPage makes of the rows a query finds: the last page holds all of
\* them; any other ends with its cursor, and what it leaves out is behind that.
LEMMA PageIs ==
  ASSUME NEW found \in SUBSET Rows, IsFiniteSet(found), NEW limit \in Nat \ {0},
         BuildPage(found, limit)
  PROVE  /\ shown' = shown \cup page
         /\ page' \subseteq found /\ cursor' \subseteq page'
         /\ \/ stage' = "done" /\ page' = found /\ cursor' = {}
            \/ stage' = "ready" /\ cursor' # {}
         /\ \A c \in cursor' : /\ \A p \in page' : p = c \/ Newer(p, c)
                               /\ \A p \in found \ page' : Newer(c, p)
<1> DEFINE posts == First(found, limit + 1)
           hasMore == Cardinality(posts) > limit
<1>1. /\ shown' = shown \cup page
      /\ page' = First(posts, limit)
      /\ cursor' = IF hasMore THEN Last(page') ELSE {}
      /\ stage' = IF hasMore THEN "ready" ELSE "done"
  BY DEF BuildPage
<1>2. page' = First(found, limit)
  BY <1>1, FirstOfFirst
<1>3. Cardinality(found) \in Nat /\ Cardinality(posts) \in Nat
  BY FirstIs, FS_Subset, FS_CardinalityType
<1>4. page' \subseteq found /\ \A p \in page', q \in found \ page' : Newer(p, q)
  BY <1>2, FirstIs
<1>5. CASE ~hasMore
  <2>1. Cardinality(found) <= limit
    <3> SUFFICES ASSUME Cardinality(found) > limit PROVE FALSE
      BY <1>3
    <3>1. CASE Cardinality(found) > limit + 1
      <4>1. Cardinality(posts) >= limit + 1
        BY <3>1, FirstIs
      <4> QED  BY <1>3, <1>5, <4>1
    <3>2. CASE Cardinality(found) = limit + 1
      <4>1. posts = found
        BY <3>2, FirstIs
      <4> QED  BY <1>5, <3>2, <4>1
    <3> QED  BY <1>3, <3>1, <3>2
  <2>2. page' = found
    BY <1>2, <2>1, FirstIs
  <2> QED  BY <1>1, <1>5, <2>2
<1>6. CASE hasMore
  <2>1. Cardinality(found) > limit
    <3>1. posts \subseteq found
      BY FirstIs
    <3>2. Cardinality(posts) <= Cardinality(found)
      BY <3>1, FS_Subset
    <3> QED  BY <1>3, <1>6, <3>2
  <2>2. cursor' = Last(page') /\ cursor' # {}
    BY <1>1, <1>2, <1>3, <1>6, <2>1, FirstIs
  <2>3. \A c \in cursor' : c \in page' /\ \A p \in page' : p = c \/ Newer(p, c)
    BY <2>2 DEF Last
  <2> QED  BY <1>1, <1>4, <1>6, <2>2, <2>3
<1> QED  BY <1>5, <1>6

-----------------------------------------------------------------------------
\* Only a client that has shown nothing has no cursor, and the query of a feed
\* of followed users is restricted to no fewer than those it has to show.
Begun ==
  /\ stage \in {"ready", "asked"} /\ cursor = {} => page = {} /\ shown = {}
  /\ \A c \in cursor, p \in page : p = c \/ Newer(p, c)
ToShow ==
  list = "following" => \A p \in kept : /\ p.author \in followed
                                        /\ stage = "asked" => p.author \in ids
PagingInv == PagingTypeOK /\ IsFiniteSet(born) /\ Begun /\ ToShow /\ InOrder /\ NothingSkipped

\* One page more, over the authors who may have anything to show.
LEMMA QueryKeeps ==
  ASSUME PagingInv, stage \in {"ready", "asked"}, NEW authors \in SUBSET Authors,
         \A p \in kept : p.author \in authors, NEW limit \in Nat \ {0},
         BuildPage(Find(authors, cursor), limit),
         UNCHANGED <<table, list, kept>>, ids' \subseteq Authors
  PROVE  PagingInv'
<1> USE DEF PagingInv, table
<1> DEFINE found == Find(authors, cursor)
<1>1. /\ born \subseteq Rows /\ present \subseteq born /\ kept \subseteq present
      /\ page \subseteq born /\ shown \subseteq born /\ cursor \subseteq page
  BY DEF PagingTypeOK
<1>2. found \subseteq present /\ found \in SUBSET Rows /\ IsFiniteSet(found)
  BY <1>1, FS_Subset DEF Find
<1>3. /\ shown' = shown \cup page
      /\ page' \subseteq found /\ cursor' \subseteq page'
      /\ \/ stage' = "done" /\ page' = found /\ cursor' = {}
         \/ stage' = "ready" /\ cursor' # {}
      /\ \A c \in cursor' : /\ \A p \in page' : p = c \/ Newer(p, c)
                            /\ \A p \in found \ page' : Newer(c, p)
  <2> HIDE DEF found
  <2> QED  BY <1>2, PageIs DEF found
<1>4. PagingTypeOK'
  BY <1>1, <1>2, <1>3 DEF PagingTypeOK
<1>5. Begun' /\ ToShow'
  BY <1>3 DEF Begun, ToShow
<1>6. InOrder'
  <2> SUFFICES ASSUME NEW p \in shown \cup page, NEW q \in page' PROVE Newer(p, q)
    BY <1>3 DEF InOrder
  <2>1. q \in found /\ p \in Rows /\ q \in Rows
    BY <1>1, <1>2, <1>3
  <2>2. PICK c \in cursor : TRUE
    BY DEF Begun
  <2>3. Newer(c, q) /\ c \in page /\ c \in Rows
    BY <1>1, <2>1 DEF Find, Older
  <2>4. p = c \/ Newer(p, c)
    BY <2>3 DEF InOrder, Begun
  <2> QED  BY <2>1, <2>3, <2>4, NewerOrder
<1>7. NothingSkipped'
  <2>1. ASSUME NEW p \in kept, p \notin shown', p \notin page'
        PROVE  p \in found \ page'
    <3>1. \A c \in cursor : Newer(c, p)
      BY <1>3, <2>1 DEF NothingSkipped
    <3> QED  BY <1>1, <2>1, <3>1 DEF Find, Older
  <2>2. \A p \in kept, c \in cursor' : p \in shown' \cup page' \/ Newer(c, p)
    BY <1>3, <2>1
  <2>3. stage' = "done" => kept \subseteq shown' \cup page'
    BY <1>3, <2>1
  <2> QED  BY <2>2, <2>3 DEF NothingSkipped
<1>8. IsFiniteSet(born')
  OBVIOUS
<1> QED  BY <1>4, <1>5, <1>6, <1>7, <1>8

LEMMA ClampIs == ASSUME NEW n \in Limits PROVE Clamp(n) \in Nat \ {0}
BY PagingAssumption DEF Clamp

LEMMA PageKeeps == ASSUME PagingInv, Page PROVE PagingInv'
<1> USE DEF table, client
<1>1. \A p \in kept : p.author \in Authors
  BY DEF PagingInv, PagingTypeOK, Authors
<1>2. ASSUME List \/ ListFollows \/ GetProfile \/ ListComments PROVE PagingInv'
  <2>1. PICK n \in Limits : BuildPage(Find(Authors, cursor), Clamp(n))
    BY <1>2 DEF List, ListFollows, GetProfile, ListComments, Query
  <2>2. stage \in {"ready", "asked"} /\ UNCHANGED <<table, list, ids, kept>>
    BY <1>2 DEF List, ListFollows, GetProfile, ListComments, Query
  <2>3. ids' \subseteq Authors
    BY <2>2 DEF PagingInv, PagingTypeOK
  <2> QED  BY <1>1, <2>1, <2>2, <2>3, ClampIs, QueryKeeps
<1>3. ASSUME ListByUserIDs PROVE PagingInv'
  <2>1. PICK n \in Limits : BuildPage(Find(ids, cursor), Clamp(n))
    BY <1>3 DEF ListByUserIDs, Query
  <2>2. stage = "asked" /\ list = "following" /\ UNCHANGED <<table, list, ids, kept>>
    BY <1>3 DEF ListByUserIDs, Query
  <2>3. ids \in SUBSET Authors /\ ids' \subseteq Authors /\ \A p \in kept : p.author \in ids
    BY <2>2 DEF PagingInv, PagingTypeOK, ToShow
  <2> QED  BY <2>1, <2>2, <2>3, ClampIs, QueryKeeps
<1>4. ASSUME FollowingIDs, followed = {} PROVE PagingInv'
  <2>1. /\ stage = "ready" /\ list = "following" /\ UNCHANGED <<table, list, kept>>
        /\ BuildPage({}, DefaultPageSize) /\ ids' = {}
    BY <1>4 DEF FollowingIDs
  <2>2. Find({}, cursor) = {} /\ \A p \in kept : p.author \in {}
    BY <1>4, <2>1 DEF Find, PagingInv, ToShow
  <2> QED  BY <2>1, <2>2, QueryKeeps, PagingAssumption
<1>5. ASSUME FollowingIDs, followed # {} PROVE PagingInv'
  <2>1. /\ stage = "ready" /\ list = "following" /\ UNCHANGED <<table, list, kept>>
        /\ stage' \in {"asked", "failed"} /\ ids' = followed
        /\ UNCHANGED <<cursor, page, shown>>
    BY <1>5 DEF FollowingIDs
  <2> QED  BY <2>1 DEF PagingInv, PagingTypeOK, Begun, ToShow, InOrder, NothingSkipped
<1>6. ASSUME MustGetPost PROVE PagingInv'
  <2>1. /\ stage = "ready" /\ list = "comments" /\ stage' \in {"asked", "failed"}
        /\ UNCHANGED <<table, list, ids, cursor, page, shown, kept>>
    BY <1>6 DEF MustGetPost
  <2> QED  BY <2>1 DEF PagingInv, PagingTypeOK, Begun, ToShow, InOrder, NothingSkipped
<1> QED  BY <1>2, <1>3, <1>4, <1>5, <1>6 DEF Page

LEMMA PagingNextKeeps == PagingInv /\ [PagingNext]_pagingVars => PagingInv'
<1> SUFFICES ASSUME PagingInv, [PagingNext]_pagingVars PROVE PagingInv'
  OBVIOUS
<1> USE DEF PagingInv, PagingTypeOK, Begun, ToShow, InOrder, NothingSkipped, table, client
<1>1. CASE Start
  BY <1>1 DEF Start, InList
<1>2. CASE Insert
  <2>1. PICK p \in Rows \ born : present' = present \cup {p} /\ born' = born \cup {p}
    BY <1>2 DEF Insert
  <2>2. IsFiniteSet(born')
    BY <2>1, FS_AddElement
  <2> QED  BY <1>2, <2>1, <2>2 DEF Insert
<1>3. CASE Remove
  BY <1>3 DEF Remove
<1>4. CASE RemovePost
  BY <1>4 DEF RemovePost
<1>5. CASE Follow
  BY <1>5 DEF Follow
<1>6. CASE Unfollow
  BY <1>6 DEF Unfollow
<1>7. CASE UNCHANGED pagingVars
  BY <1>7 DEF pagingVars
<1> HIDE DEF PagingInv
<1> QED  BY <1>1, <1>2, <1>3, <1>4, <1>5, <1>6, <1>7, PageKeeps DEF PagingNext

LEMMA PagingHolds == PagingSpec => []PagingInv
<1>1. PagingInit => PagingInv
  BY FS_EmptySet DEF PagingInit, PagingInv, PagingTypeOK, Begun, ToShow, InOrder,
                     NothingSkipped, Lists
<1> QED  BY <1>1, PagingNextKeeps, PTL DEF PagingSpec

(***************************************************************************)
(* The variables of a client that pages have their types.                  *)
(***************************************************************************)
THEOREM PagingType == PagingSpec => []PagingTypeOK
<1>1. PagingInv => PagingTypeOK
  BY DEF PagingInv
<1> QED  BY <1>1, PagingHolds, PTL

(***************************************************************************)
(* A client that follows next_cursor never sees a row twice, or one above  *)
(* a row it has seen, whatever is inserted, deleted, followed or           *)
(* unfollowed between two of its pages.                                    *)
(***************************************************************************)
THEOREM PagingInOrder == PagingSpec => []InOrder
<1>1. PagingInv => InOrder
  BY DEF PagingInv
<1> QED  BY <1>1, PagingHolds, PTL

(***************************************************************************)
(* A row that stayed in the list all the time is on a page the client has  *)
(* got, or behind its cursor: no page boundary loses it, whichever limit   *)
(* each page is asked with.                                                *)
(***************************************************************************)
THEOREM PagingNothingSkipped == PagingSpec => []NothingSkipped
<1>1. PagingInv => NothingSkipped
  BY DEF PagingInv
<1> QED  BY <1>1, PagingHolds, PTL

-----------------------------------------------------------------------------
(* The list that ReadBucket hands on. *)

Hot(score) == {p \in Posts : score[p] > 0}
Higher(score) == {e \in Posts \X Posts : Above(score, e[1], e[2])}

LEMMA RankedIs ==
  ASSUME NEW score \in [Posts -> Nat]
  PROVE  /\ IsFiniteSet(Hot(score)) /\ Cardinality(Hot(score)) \in Nat
         /\ Orders(Higher(score), Hot(score))
         /\ Ranked(score) \in [1 .. Cardinality(Hot(score)) -> Hot(score)]
         /\ \A k \in 1 .. Cardinality(Hot(score)) :
              Rank(Higher(score), Hot(score), Ranked(score)[k]) = k - 1
<1> DEFINE hot == Hot(score)
           rank == [p \in hot |-> Cardinality({q \in hot : Above(score, q, p)}) + 1]
<1>1. IsFiniteSet(hot) /\ Cardinality(hot) \in Nat
  BY HotAssumption, FS_Subset, FS_CardinalityType DEF Hot
<1>2. Orders(Higher(score), hot)
  BY HotAssumption DEF Orders, Higher, Above, Hot
<1>3. ASSUME NEW p \in hot PROVE rank[p] = Rank(Higher(score), hot, p) + 1
  <2>1. {q \in hot : Above(score, q, p)} = {q \in hot : <<q, p>> \in Higher(score)}
    BY DEF Higher, Hot
  <2> QED  BY <2>1 DEF Rank
<1>4. ASSUME NEW k \in 1 .. Cardinality(hot)
      PROVE  LET p == CHOOSE p \in hot : rank[p] = k
             IN  p \in hot /\ rank[p] = k
  <2>1. k - 1 \in 0 .. Cardinality(hot) - 1
    BY <1>1
  <2>2. PICK p \in hot : Rank(Higher(score), hot, p) = k - 1
    BY <1>1, <1>2, <2>1, RankTaken
  <2>3. rank[p] = k
    BY <1>3, <2>2
  <2> HIDE DEF rank
  <2> QED  BY <2>3
<1>5. Ranked(score) = [k \in 1 .. Cardinality(hot) |-> CHOOSE p \in hot : rank[p] = k]
  BY DEF Ranked, Hot
<1> HIDE DEF rank
<1>6. Ranked(score) \in [1 .. Cardinality(hot) -> hot]
  BY <1>4, <1>5
<1>7. ASSUME NEW k \in 1 .. Cardinality(hot)
      PROVE  Rank(Higher(score), hot, Ranked(score)[k]) = k - 1
  <2>1. Ranked(score)[k] \in hot /\ rank[Ranked(score)[k]] = k
    BY <1>4, <1>5
  <2>2. Rank(Higher(score), hot, Ranked(score)[k]) \in Int
    BY <1>1, <1>2, <2>1, RankIs
  <2> QED  BY <1>3, <2>1, <2>2
<1> QED  BY <1>1, <1>2, <1>6, <1>7

\* Top returns posts, the first of Ranked, and no more of them than the limit.
LEMMA TopIs ==
  ASSUME NEW score \in [Posts -> Nat]
  PROVE  /\ Top(score) \in Seq(Posts) /\ Len(Top(score)) <= Limit
         /\ Len(Top(score)) <= Cardinality(Hot(score))
         /\ \A k \in 1 .. Len(Top(score)) : Top(score)[k] = Ranked(score)[k]
<1> DEFINE s == Ranked(score)
           c == Cardinality(Listed(s))
           n == Min({Limit, c})
<1>1. PICK h : h = Hot(score)
  OBVIOUS
<1>2. /\ h \subseteq Posts /\ IsFiniteSet(h) /\ Cardinality(h) \in Nat
      /\ s \in [1 .. Cardinality(h) -> h]
  BY <1>1, RankedIs DEF Hot
<1>3. s \in Seq(h) /\ Len(s) = Cardinality(h)
  BY <1>2, SeqDef, LenProperties
<1>4. c \in Nat /\ c <= Cardinality(h)
  <2>1. Listed(s) \subseteq h
    BY <1>2, <1>3 DEF Listed
  <2>2. Cardinality(Listed(s)) <= Cardinality(h) /\ IsFiniteSet(Listed(s))
    BY <1>2, <2>1, FS_Subset
  <2> QED  BY <2>2, FS_CardinalityType
<1>5. Limit \in Nat
  BY HotAssumption
<1>6. n \in Nat /\ n <= Limit /\ n <= Cardinality(h)
  <2> HIDE DEF c
  <2>1. \E x \in {Limit, c} : \A y \in {Limit, c} : x =< y
    BY <1>4, <1>5
  <2>2. n \in {Limit, c} /\ \A y \in {Limit, c} : n =< y
    BY <2>1 DEF Min
  <2> QED  BY <1>2, <1>4, <1>5, <2>2
<1>7. Top(score) = SubSeq(s, 1, n)
  BY DEF Top
<1> HIDE DEF n, s, c
<1>8. \A k \in 1 .. n : s[k] \in Posts
  BY <1>2, <1>6
<1>9. SubSeq(s, 1, n) \in Seq(Posts) /\ Len(SubSeq(s, 1, n)) = n
  BY <1>6, <1>8, SubSeqProperties
<1>10. ASSUME NEW k \in 1 .. n PROVE SubSeq(s, 1, n)[k] = s[k]
  <2>1. n - 1 + 1 = n /\ 1 + k - 1 = k
    BY <1>6
  <2> QED  BY <1>6, <1>8, <2>1, SubSeqProperties
<1> QED  BY <1>1, <1>6, <1>7, <1>9, <1>10 DEF s

\* What Top lists is above everything that it does not list before it.
LEMMA TopOrder ==
  ASSUME NEW score \in [Posts -> Nat], NEW k \in 1 .. Len(Top(score)), NEW q \in Posts,
         q \notin {Top(score)[m] : m \in 1 .. k}
  PROVE  Top(score)[k] \in Posts /\ Above(score, Top(score)[k], q)
<1> PICK h : h = Hot(score)
  OBVIOUS
<1> PICK p : p = Top(score)[k]
  OBVIOUS
<1>1. /\ h \subseteq Posts /\ IsFiniteSet(h) /\ Cardinality(h) \in Nat
      /\ Orders(Higher(score), h)
      /\ Ranked(score) \in [1 .. Cardinality(h) -> h]
      /\ \A j \in 1 .. Cardinality(h) : Rank(Higher(score), h, Ranked(score)[j]) = j - 1
  BY RankedIs DEF Hot
<1>2. /\ Len(Top(score)) \in Nat /\ Len(Top(score)) <= Cardinality(h)
      /\ \A j \in 1 .. Len(Top(score)) : Top(score)[j] = Ranked(score)[j]
  BY TopIs, LenProperties
<1>3. k \in Nat /\ \A j \in 1 .. k : j \in 1 .. Len(Top(score)) /\ j \in 1 .. Cardinality(h)
  BY <1>1, <1>2
<1>4. p \in h /\ p \in Posts /\ Rank(Higher(score), h, p) = k - 1
  <2>1. k \in 1 .. Cardinality(h) /\ p = Ranked(score)[k]
    BY <1>2, <1>3
  <2> QED  BY <1>1, <2>1
<1>5. score[p] \in Nat /\ score[p] > 0 /\ score[q] \in Nat
  BY <1>4 DEF Hot
<1>6. CASE q \notin h
  BY <1>4, <1>5, <1>6 DEF Hot, Above
<1>7. CASE q \in h
  <2>1. Rank(Higher(score), h, q) \in 0 .. Cardinality(h) - 1
    BY <1>1, <1>7, RankIs
  <2>2. PICK i \in 1 .. Cardinality(h) : Rank(Higher(score), h, q) = i - 1
    <3>1. PICK n \in 0 .. Cardinality(h) - 1 : n = Rank(Higher(score), h, q)
      BY <2>1
    <3>2. n + 1 \in 1 .. Cardinality(h) /\ n = n + 1 - 1
      BY <1>1, <3>1
    <3> QED  BY <3>1, <3>2
  <2>3. \A a, b \in h : Rank(Higher(score), h, a) = Rank(Higher(score), h, b) => a = b
    <3>1. \A a \in h : Rank(Higher(score), h, a) \in Int
      BY <1>1, RankIs
    <3>2. \A a, b \in h : <<a, b>> \in Higher(score) =>
            Rank(Higher(score), h, a) < Rank(Higher(score), h, b)
      BY <1>1, RankIs
    <3>3. \A a, b \in h : a = b \/ <<a, b>> \in Higher(score) \/ <<b, a>> \in Higher(score)
      BY <1>1 DEF Orders
    <3>4. SUFFICES ASSUME NEW a \in h, NEW b \in h, a # b,
                          Rank(Higher(score), h, a) = Rank(Higher(score), h, b)
                   PROVE  FALSE
      OBVIOUS
    <3>5. Rank(Higher(score), h, a) < Rank(Higher(score), h, b)
          \/ Rank(Higher(score), h, b) < Rank(Higher(score), h, a)
      BY <3>2, <3>3, <3>4
    <3>6. Rank(Higher(score), h, a) \in Int /\ Rank(Higher(score), h, b) \in Int
      BY <3>1
    <3> QED  BY <3>4, <3>5, <3>6
  <2>4. Ranked(score)[i] = q
    <3>1. Ranked(score)[i] \in h /\ Rank(Higher(score), h, Ranked(score)[i]) = i - 1
      BY <1>1
    <3> QED  BY <1>7, <2>2, <2>3, <3>1
  <2>5. ~(i <= k)
    <3> SUFFICES ASSUME i <= k PROVE FALSE
      OBVIOUS
    <3>1. i \in 1 .. k
      BY <1>3
    <3>2. Top(score)[i] = q
      BY <1>2, <1>3, <2>4, <3>1
    <3> QED  BY <3>1, <3>2
  <2>6. <<p, q>> \in Higher(score)
    <3>1. ~(Rank(Higher(score), h, q) < Rank(Higher(score), h, p)) /\ p # q
      BY <1>3, <1>4, <2>2, <2>5
    <3>2. <<q, p>> \in Higher(score) =>
            Rank(Higher(score), h, q) < Rank(Higher(score), h, p)
      BY <1>1, <1>4, <1>7, RankIs
    <3> QED  BY <1>1, <1>4, <1>7, <3>1, <3>2 DEF Orders
  <2> QED  BY <1>4, <2>6 DEF Higher
<1> QED  BY <1>6, <1>7

-----------------------------------------------------------------------------
(* Between steps. *)

HandlerOK(b) ==
  \/ b = IdleHandler
  \/ b \in [pc : {"zincrby", "expire"}, post : Posts, weight : Nat, age : 0 .. MaxLate]

\* A bucket with an expiry does not outlive the last handler that may have its
\* name by more than its TTL.
BucketsEnd ==
  /\ heat \in [Ages -> [Posts -> Nat]]
  /\ ttl \in [Ages -> Forever .. BucketTTL]
  /\ \A a \in Ages : ttl[a] # Forever => a + ttl[a] <= BucketTTL + MaxLate

\* The ranking that is kept has nobody's flags.
ResultOK ==
  \/ result = Absent
  \/ /\ result \in [kind : {"list"}, items : Seq(Posts), liked : {{}}, ttl : 0 .. ResultTTL]
     /\ Len(result.items) <= Limit

\* Flags are only there once the query for the reader's own was made.
ReaderOK(me) ==
  /\ me \in [pc : {"idle", "get", "read", "hydrate", "cached", "liked", "set", "done"},
             viewer : Viewers \cup {Guest}, items : Seq(Posts), liked : SUBSET Posts,
             todo : Seq(Posts), i : 0 .. Window - 1, late : 0 .. MaxLate,
             acc : [Posts -> Nat], base : {me.base}]
  /\ Len(me.items) + Len(me.todo) <= Limit
  /\ me.pc = "hydrate" <=> me.todo # <<>>
  /\ me.pc \notin {"set", "done"} => me.liked = {}
  /\ me.liked \subseteq LikesOf(me.viewer)

HotInv ==
  /\ live \subseteq Posts
  /\ BucketsEnd
  /\ ResultOK
  /\ DOMAIN bump = Handlers /\ \A h \in Handlers : HandlerOK(bump[h])
  /\ DOMAIN reader = Readers /\ \A r \in Readers : ReaderOK(reader[r])

LEMMA IdleOK == ReaderOK(IdleReader)
BY HotAssumption DEF ReaderOK, IdleReader, Cold, LikesOf

\* The fields of a reader.
Reader(step, v, items, liked, todo, i, late, acc, base) ==
  [pc |-> step, viewer |-> v, items |-> items, liked |-> liked, todo |-> todo,
   i |-> i, late |-> late, acc |-> acc, base |-> base]

LEMMA ReaderIs ==
  ASSUME NEW me, ReaderOK(me)
  PROVE  me = Reader(me.pc, me.viewer, me.items, me.liked, me.todo, me.i, me.late,
                     me.acc, me.base)
BY DEF ReaderOK, Reader

LEMMA WaitOK ==
  ASSUME NEW me, ReaderOK(me), me.pc = "read" => me.late < MaxLate
  PROVE  ReaderOK(Wait(me))
<1>1. CASE me.pc # "read"
  BY <1>1 DEF Wait
<1>2. CASE me.pc = "read"
  <2>1. PICK b : b = IF \E j \in 0 .. Window - 1 : ttl[j + me.late] = 0 THEN Cold ELSE me.base
    OBVIOUS
  <2>2. Wait(me) = Reader("read", me.viewer, me.items, me.liked, me.todo, me.i,
                          me.late + 1, me.acc, b)
    <3>1. Wait(me) = [me EXCEPT !.late = me.late + 1, !.base = b]
      BY <1>2, <2>1 DEF Wait
    <3>2. PICK p, v, items, liked, todo, i, late, f, b0 :
        /\ me = [pc |-> p, viewer |-> v, items |-> items, liked |-> liked, todo |-> todo,
                 i |-> i, late |-> late, acc |-> f, base |-> b0]
        /\ p = me.pc /\ v = me.viewer /\ items = me.items /\ liked = me.liked
        /\ todo = me.todo /\ i = me.i /\ late = me.late /\ f = me.acc /\ b0 = me.base
      BY DEF ReaderOK
    <3>3. PICK n : n = late + 1
      OBVIOUS
    <3>4. PICK g : g = [me EXCEPT !.late = n]
      OBVIOUS
    <3>5. g = Reader(p, v, items, liked, todo, i, n, f, b0)
      BY <3>2, <3>4 DEF Reader
    <3>6. [g EXCEPT !.base = b] = Reader(p, v, items, liked, todo, i, n, f, b)
      BY <3>5 DEF Reader
    <3> QED  BY <1>2, <3>1, <3>2, <3>3, <3>4, <3>6
  <2>3. me.late + 1 \in 0 .. MaxLate
    BY <1>2, HotAssumption DEF ReaderOK
  <2> QED  BY <1>2, <2>2, <2>3 DEF ReaderOK, Reader
<1> QED  BY <1>1, <1>2

LEMMA RequestOK ==
  ASSUME NEW me, ReaderOK(me),
         NEW to \in {"hydrate", "liked"}, NEW items \in Seq(Posts), NEW todo \in Seq(Posts),
         Len(items) + Len(todo) <= Limit, to = "hydrate" <=> todo # <<>>, NEW base
  PROVE  ReaderOK(Reader(to, me.viewer, items, {}, todo, 0, 0, Cold, base))
<1>1. Cold \in [Posts -> Nat] /\ 0 \in 0 .. Window - 1 /\ 0 \in 0 .. MaxLate
  BY HotAssumption DEF Cold
<1>2. me.viewer \in Viewers \cup {Guest}
  BY DEF ReaderOK
<1> QED  BY <1>1, <1>2 DEF ReaderOK, Reader, LikesOf

LEMMA ReadBucketOK ==
  ASSUME HotInv, NEW r \in Readers, ReadBucket(r)
  PROVE  ReaderOK(reader'[r])
<1> PICK me : me = reader[r]
  OBVIOUS
<1>1. ReaderOK(me) /\ me.pc = "read" /\ DOMAIN reader = Readers
  BY DEF HotInv, ReadBucket, ReadAge, AddBucket
<1>2. PICK a : a = me.i + me.late
  OBVIOUS
<1>3. a \in Ages /\ heat[a] \in [Posts -> Nat]
  <2>1. me.i \in 0 .. Window - 1 /\ me.late \in 0 .. MaxLate
    BY <1>1 DEF ReaderOK
  <2>2. a \in Ages
    BY <1>2, <2>1, HotAssumption DEF Ages
  <2> QED  BY <2>2 DEF HotInv, BucketsEnd
<1>4. PICK acc \in {Plus(me.acc, heat[a]), me.acc}, base \in {me.base, Cold} :
        reader' = [reader EXCEPT ![r] =
          IF me.i + 1 < Window
            THEN [me EXCEPT !.i = @ + 1, !.acc = acc, !.base = base]
            ELSE [Request(me, IF Top(acc) = <<>> THEN "liked" ELSE "hydrate")
                    EXCEPT !.todo = Top(acc), !.base = base]]
  BY <1>2 DEF ReadBucket, ReadAge, AddBucket
<1>5. acc \in [Posts -> Nat]
  BY <1>1, <1>3, <1>4 DEF Plus, ReaderOK
<1>6. CASE me.i + 1 < Window
  <2>1. reader'[r] = Reader("read", me.viewer, me.items, me.liked, me.todo, me.i + 1,
                            me.late, acc, base)
    <3>1. reader'[r] = [me EXCEPT !.i = me.i + 1, !.acc = acc, !.base = base]
      BY <1>1, <1>4, <1>6
    <3>2. PICK p, v, items, liked, todo, i, late, f, b0 :
        /\ me = [pc |-> p, viewer |-> v, items |-> items, liked |-> liked, todo |-> todo,
                 i |-> i, late |-> late, acc |-> f, base |-> b0]
        /\ p = me.pc /\ v = me.viewer /\ items = me.items /\ liked = me.liked
        /\ todo = me.todo /\ i = me.i /\ late = me.late /\ f = me.acc /\ b0 = me.base
      BY <1>1 DEF ReaderOK
    <3>3. PICK n : n = i + 1
      OBVIOUS
    <3>4. PICK g : g = [me EXCEPT !.i = n]
      OBVIOUS
    <3>5. g = Reader(p, v, items, liked, todo, n, late, f, b0)
      BY <3>2, <3>4 DEF Reader
    <3>6. PICK h : h = [g EXCEPT !.acc = acc]
      OBVIOUS
    <3>7. h = Reader(p, v, items, liked, todo, n, late, acc, b0)
      BY <3>5, <3>6 DEF Reader
    <3>8. [h EXCEPT !.base = base] = Reader(p, v, items, liked, todo, n, late, acc, base)
      BY <3>7 DEF Reader
    <3> QED  BY <1>1, <3>1, <3>2, <3>3, <3>4, <3>6, <3>8
  <2>2. me.i + 1 \in 0 .. Window - 1
    BY <1>1, <1>6, HotAssumption DEF ReaderOK
  <2> QED  BY <1>1, <1>5, <2>1, <2>2 DEF ReaderOK, Reader
<1>7. CASE ~(me.i + 1 < Window)
  <2>1. PICK to : to = IF Top(acc) = <<>> THEN "liked" ELSE "hydrate"
    OBVIOUS
  <2>2. reader'[r] = [Request(me, to) EXCEPT !.todo = Top(acc), !.base = base]
    BY <1>1, <1>4, <1>7, <2>1
  <2>3. reader'[r] = Reader(to, me.viewer, <<>>, {}, Top(acc), 0, 0, Cold, base)
    BY <2>2 DEF Request, IdleReader, Reader
  <2>4. /\ Top(acc) \in Seq(Posts) /\ Len(Top(acc)) <= Limit
        /\ <<>> \in Seq(Posts) /\ Len(<<>>) = 0
    BY <1>5, TopIs
  <2>5. Len(<<>>) + Len(Top(acc)) <= Limit
    BY <2>4, LenProperties, HotAssumption
  <2> QED  BY <1>1, <2>1, <2>3, <2>4, <2>5, RequestOK
<1> QED  BY <1>6, <1>7

LEMMA HydrateOK ==
  ASSUME HotInv, NEW r \in Readers, Hydrate(r)
  PROVE  ReaderOK(reader'[r])
<1> PICK me : me = reader[r]
  OBVIOUS
<1>1. ReaderOK(me) /\ me.pc = "hydrate" /\ DOMAIN reader = Readers
  BY DEF HotInv, Hydrate
<1>2. me.todo \in Seq(Posts) /\ me.items \in Seq(Posts) /\ me.todo # <<>>
  BY <1>1 DEF ReaderOK
<1>3. /\ Head(me.todo) \in Posts /\ Tail(me.todo) \in Seq(Posts)
      /\ Len(Tail(me.todo)) = Len(me.todo) - 1 /\ Len(me.todo) \in Nat
  BY <1>2, HeadTailProperties, LenProperties
<1>4. CASE reader' = [reader EXCEPT ![r] = IdleReader]
  BY <1>1, <1>4, IdleOK
<1>5. CASE \E items \in {me.items, Append(me.items, Head(me.todo))} :
             reader' = [reader EXCEPT ![r] =
               [Request(me, IF Len(me.todo) > 1 THEN "hydrate" ELSE "liked")
                  EXCEPT !.items = items, !.todo = Tail(me.todo)]]
  <2>1. PICK items \in {me.items, Append(me.items, Head(me.todo))} :
             reader' = [reader EXCEPT ![r] =
               [Request(me, IF Len(me.todo) > 1 THEN "hydrate" ELSE "liked")
                  EXCEPT !.items = items, !.todo = Tail(me.todo)]]
    BY <1>5
  <2>2. items \in Seq(Posts) /\ Len(items) <= Len(me.items) + 1 /\ Len(items) \in Nat
    <3>1. Len(me.items) \in Nat
      BY <1>2, LenProperties
    <3>2. PICK p \in Posts : p = Head(me.todo)
      BY <1>3
    <3>3. Append(me.items, p) \in Seq(Posts) /\ Len(Append(me.items, p)) = Len(me.items) + 1
      BY <1>2, AppendProperties
    <3>4. items = me.items \/ items = Append(me.items, p)
      BY <2>1, <3>2
    <3>5. CASE items = me.items
      BY <1>2, <3>1, <3>5
    <3>6. CASE items = Append(me.items, p)
      <4>1. Len(items) = Len(me.items) + 1
        BY <3>3, <3>6
      <4> QED  BY <3>1, <3>3, <3>6, <4>1
    <3> QED  BY <3>4, <3>5, <3>6
  <2>3. PICK to : to = IF Len(me.todo) > 1 THEN "hydrate" ELSE "liked"
    OBVIOUS
  <2>4. reader'[r] = Reader(to, me.viewer, items, {}, Tail(me.todo), 0, 0, Cold, Cold)
    BY <1>1, <2>1, <2>3 DEF Request, IdleReader, Reader
  <2>5. to = "hydrate" <=> Tail(me.todo) # <<>>
    <3>1. Len(me.todo) > 1 <=> Len(Tail(me.todo)) # 0
      <4>1. PICK n \in Nat \ {0} : n = Len(me.todo)
        BY <1>2, EmptySeq
      <4>2. n > 1 <=> n - 1 # 0
        OBVIOUS
      <4> QED  BY <1>3, <4>1, <4>2
    <3>2. Tail(me.todo) = <<>> <=> Len(Tail(me.todo)) = 0
      BY <1>3, EmptySeq
    <3> QED  BY <2>3, <3>1, <3>2
  <2>6. Len(items) + Len(Tail(me.todo)) <= Limit
    <3>1. Len(me.items) \in Nat /\ Len(me.items) + Len(me.todo) <= Limit /\ Limit \in Nat
      BY <1>1, <1>2, LenProperties, HotAssumption DEF ReaderOK
    <3>2. PICK a \in Nat, b \in Nat, c \in Nat, d \in Nat :
            a = Len(me.items) /\ b = Len(me.todo) /\ c = Len(items) /\ d = Len(Tail(me.todo))
      BY <1>3, <2>2, <3>1, LenProperties
    <3>3. c <= a + 1 /\ d = b - 1 /\ a + b <= Limit
      BY <1>3, <2>2, <3>1, <3>2
    <3>4. c + d <= Limit
      BY <3>1, <3>3
    <3> QED  BY <3>2, <3>4
  <2> QED  BY <1>1, <1>3, <2>2, <2>3, <2>4, <2>5, <2>6, RequestOK
<1> QED  BY <1>4, <1>5 DEF Hydrate

LEMMA FillLikedOK ==
  ASSUME HotInv, NEW r \in Readers, FillLiked(r)
  PROVE  ReaderOK(reader'[r])
<1> PICK me : me = reader[r]
  OBVIOUS
<1>1. ReaderOK(me) /\ me.pc \in {"cached", "liked"} /\ DOMAIN reader = Readers
  BY DEF HotInv, FillLiked
<1>2. PICK liked : /\ liked \in {LikesOf(me.viewer) \cap Listed(me.items), me.liked}
                   /\ reader' = [reader EXCEPT ![r].liked = liked,
                        ![r].pc = IF me.pc = "cached" THEN "done" ELSE "set"]
  BY DEF FillLiked
<1>3. PICK to : to = IF me.pc = "cached" THEN "done" ELSE "set"
  OBVIOUS
<1>4. reader'[r] = Reader(to, me.viewer, me.items, liked, me.todo, me.i, me.late,
                          me.acc, me.base)
  BY <1>1, <1>2, <1>3, ReaderIs DEF Reader
<1>5. liked \subseteq LikesOf(me.viewer) /\ liked \subseteq Posts
  BY <1>1, <1>2 DEF ReaderOK, LikesOf
<1> QED  BY <1>1, <1>3, <1>4, <1>5 DEF ReaderOK, Reader

LEMMA ReaderKeeps ==
  ASSUME HotInv, NEW r \in Readers, ReaderOK(reader'[r]),
         DOMAIN reader' = Readers, \A s \in Readers \ {r} : reader'[s] = reader[s],
         UNCHANGED <<live, redis, bump>>
  PROVE  HotInv'
<1>1. \A s \in Readers : ReaderOK(reader'[s])
  BY DEF HotInv
<1>2. (\A s \in Readers : ReaderOK(reader[s]))'
  BY <1>1 DEF ReaderOK, LikesOf
<1> QED  BY <1>2 DEF HotInv, redis, BucketsEnd, ResultOK, HandlerOK, Ages

LEMMA ListHotKeeps ==
  ASSUME HotInv, NEW r \in Readers, StartHot(r) \/ ListHot(r)
  PROVE  HotInv'
<1>1. ReaderOK(reader[r]) /\ DOMAIN reader = Readers
  BY DEF HotInv
<1>2. CASE StartHot(r)
  <2>1. PICK v \in Viewers \cup {Guest} :
          reader' = [reader EXCEPT ![r] = [IdleReader EXCEPT !.pc = "get", !.viewer = v]]
    BY <1>2 DEF StartHot
  <2>2. reader'[r] = Reader("get", v, <<>>, {}, <<>>, 0, 0, Cold, Cold)
    BY <1>1, <2>1 DEF IdleReader, Reader
  <2>3. ReaderOK(reader'[r])
    BY <2>2, HotAssumption DEF ReaderOK, Reader, Cold, LikesOf
  <2> QED  BY <1>1, <1>2, <2>1, <2>3, ReaderKeeps DEF StartHot
<1>3. CASE GetResult(r)
  <2>1. PICK me : me = reader[r]
    OBVIOUS
  <2>2. ReaderOK(me) /\ me.pc = "get"
    BY <1>1, <1>3, <2>1 DEF GetResult
  <2>3. CASE /\ result # Absent
             /\ reader' = [reader EXCEPT ![r].pc = "cached",
                             ![r].items = result.items, ![r].liked = result.liked]
    <3>1. result.items \in Seq(Posts) /\ Len(result.items) <= Limit /\ result.liked = {}
      BY <2>3 DEF HotInv, ResultOK
    <3>2. PICK items, g, h : /\ items \in Seq(Posts) /\ items = result.items
                             /\ g = [me EXCEPT !.pc = "cached"]
                             /\ h = [g EXCEPT !.items = items]
      BY <3>1
    <3>3. reader'[r] = [h EXCEPT !.liked = {}]
      BY <1>1, <2>1, <2>3, <3>1, <3>2
    <3>4. h = Reader("cached", me.viewer, items, me.liked, me.todo, me.i, me.late,
                     me.acc, me.base)
      <4>1. g = Reader("cached", me.viewer, me.items, me.liked, me.todo, me.i, me.late,
                       me.acc, me.base)
        BY <2>2, <3>2, ReaderIs DEF Reader
      <4> QED  BY <3>2, <4>1 DEF Reader
    <3>5. reader'[r] = Reader("cached", me.viewer, items, {}, me.todo, me.i, me.late,
                              me.acc, me.base)
      BY <3>3, <3>4 DEF Reader
    <3>6. me.todo = <<>> /\ Len(items) + Len(<<>>) <= Limit
      BY <2>2, <3>1, <3>2, EmptySeq, LenProperties, HotAssumption DEF ReaderOK
    <3>7. ReaderOK(reader'[r])
      BY <2>2, <3>2, <3>5, <3>6 DEF ReaderOK, Reader, LikesOf
    <3> QED  BY <1>1, <1>3, <2>3, <3>7, ReaderKeeps DEF GetResult
  <2>4. CASE reader' = [reader EXCEPT ![r].pc = "read",
                          ![r].base = [p \in Posts |-> Sum(heat, 0, p)]]
    <3>1. PICK base : base = [p \in Posts |-> Sum(heat, 0, p)]
      OBVIOUS
    <3>2. reader'[r] = Reader("read", me.viewer, me.items, me.liked, me.todo, me.i,
                              me.late, me.acc, base)
      <4>1. PICK g : g = [me EXCEPT !.pc = "read"]
        OBVIOUS
      <4>2. g = Reader("read", me.viewer, me.items, me.liked, me.todo, me.i, me.late,
                       me.acc, me.base)
        BY <2>2, <4>1, ReaderIs DEF Reader
      <4>3. reader'[r] = [g EXCEPT !.base = base]
        BY <1>1, <2>1, <2>4, <3>1, <4>1
      <4> QED  BY <4>2, <4>3 DEF Reader
    <3>3. ReaderOK(reader'[r])
      BY <2>2, <3>2 DEF ReaderOK, Reader
    <3> QED  BY <1>1, <1>3, <2>4, <3>3, ReaderKeeps DEF GetResult
  <2> QED  BY <1>3, <2>3, <2>4 DEF GetResult
<1>4. CASE ReadBucket(r)
  <2>1. ReaderOK(reader'[r])
    BY <1>4, ReadBucketOK
  <2> QED  BY <1>1, <1>4, <2>1, ReaderKeeps DEF ReadBucket, ReadAge, AddBucket
<1>5. CASE Hydrate(r)
  <2>1. ReaderOK(reader'[r])
    BY <1>5, HydrateOK
  <2> QED  BY <1>1, <1>5, <2>1, ReaderKeeps DEF Hydrate
<1>6. CASE FillLiked(r)
  <2>1. ReaderOK(reader'[r])
    BY <1>6, FillLikedOK
  <2> QED  BY <1>1, <1>6, <2>1, ReaderKeeps DEF FillLiked
<1>7. CASE SetResult(r)
  <2>1. PICK me : me = reader[r]
    OBVIOUS
  <2>2. /\ ReaderOK(me) /\ me.pc = "set"
        /\ result' \in {result, Ranking(me.items, {}, ResultTTL)}
        /\ reader' = [reader EXCEPT ![r].pc = "done"]
        /\ UNCHANGED <<live, heat, ttl, bump>>
    BY <1>1, <1>7, <2>1 DEF SetResult, SetJSON
  <2>3. reader'[r] = Reader("done", me.viewer, me.items, me.liked, me.todo, me.i,
                            me.late, me.acc, me.base)
    BY <1>1, <2>1, <2>2, ReaderIs DEF Reader
  <2>4. ReaderOK(reader'[r])
    <3>1. PICK v, items, liked, i, late, f, b0 :
            me = Reader("set", v, items, liked, <<>>, i, late, f, b0)
      BY <2>2 DEF ReaderOK, Reader
    <3>2. reader'[r] = Reader("done", v, items, liked, <<>>, i, late, f, b0)
      BY <2>3, <3>1 DEF Reader
    <3>3. ReaderOK(Reader("set", v, items, liked, <<>>, i, late, f, b0))
      BY <2>2, <3>1
    <3>4. ReaderOK(Reader("done", v, items, liked, <<>>, i, late, f, b0))
      BY <3>3 DEF ReaderOK, Reader
    <3> QED  BY <3>2, <3>4
  <2>5. (\A s \in Readers : ReaderOK(reader[s]))' /\ DOMAIN reader' = Readers
    <3>1. \A s \in Readers : ReaderOK(reader'[s])
      BY <1>1, <2>2, <2>4 DEF HotInv
    <3> QED  BY <1>1, <2>2, <3>1 DEF ReaderOK, LikesOf
  <2>6. ResultOK'
    <3>1. CASE result' = result
      BY <3>1 DEF HotInv, ResultOK, Absent
    <3>2. CASE result' = Ranking(me.items, {}, ResultTTL)
      <4>1. me.items \in Seq(Posts) /\ Len(me.items) <= Limit
        <5>1. PICK a \in Nat, b \in Nat : a = Len(me.items) /\ b = Len(me.todo)
          BY <2>2, LenProperties DEF ReaderOK
        <5>2. a + b <= Limit /\ Limit \in Nat
          BY <2>2, <5>1, HotAssumption DEF ReaderOK
        <5> QED  BY <2>2, <5>1, <5>2 DEF ReaderOK
      <4>2. ResultTTL \in 0 .. ResultTTL
        BY HotAssumption
      <4> QED  BY <3>2, <4>1, <4>2 DEF ResultOK, Ranking
    <3> QED  BY <2>2, <3>1, <3>2
  <2> QED  BY <2>2, <2>5, <2>6 DEF HotInv, BucketsEnd, HandlerOK, Ages
<1> QED  BY <1>2, <1>3, <1>4, <1>5, <1>6, <1>7 DEF ListHot

LEMMA InteractKeeps ==
  ASSUME HotInv, NEW h \in Handlers, HotBucket(h) \/ AfterInteraction(h)
  PROVE  HotInv'
<1> PICK b : b = bump[h]
  OBVIOUS
<1>1. HandlerOK(b) /\ DOMAIN bump = Handlers
  BY DEF HotInv
<1>2. UNCHANGED <<live, result, reader>> /\ ResultOK'
      /\ (\A s \in Readers : ReaderOK(reader[s]))' /\ DOMAIN reader' = Readers
  <2>1. live' = live /\ result' = result /\ reader' = reader
    BY DEF HotBucket, AfterInteraction, ZIncrBy, Expire, redis
  <2>2. ResultOK'
    BY <2>1 DEF HotInv, ResultOK, Absent
  <2>3. (\A s \in Readers : ReaderOK(reader[s]))' /\ DOMAIN reader' = Readers
    BY <2>1 DEF HotInv, ReaderOK, LikesOf
  <2> QED  BY <2>1, <2>2, <2>3
<1> SUFFICES /\ BucketsEnd' /\ DOMAIN bump' = Handlers
             /\ (\A s \in Handlers : HandlerOK(bump[s]))'
  BY <1>2 DEF HotInv
<1>3. CASE HotBucket(h)
  <2>1. PICK p \in live, w \in Weights :
          bump' = [bump EXCEPT ![h] = [pc |-> "zincrby", post |-> p, weight |-> w, age |-> 0]]
    BY <1>3 DEF HotBucket
  <2>2. HandlerOK(bump'[h])
    BY <1>1, <2>1, HotAssumption DEF HandlerOK, HotInv
  <2>3. BucketsEnd'
    BY <1>3 DEF HotBucket, redis, HotInv, BucketsEnd, Ages
  <2> QED  BY <1>1, <2>1, <2>2, <2>3 DEF HotInv, HandlerOK
<1>4. CASE ZIncrBy(h)
  <2>1. b \in [pc : {"zincrby", "expire"}, post : Posts, weight : Nat, age : 0 .. MaxLate]
    BY <1>1, <1>4 DEF ZIncrBy, HandlerOK, IdleHandler
  <2>2. HandlerOK(bump'[h]) /\ DOMAIN bump' = Handlers
        /\ \A s \in Handlers \ {h} : bump'[s] = bump[s]
    BY <1>1, <1>4, <2>1 DEF ZIncrBy, HandlerOK
  <2>3. heat' \in [Ages -> [Posts -> Nat]]
    <3>1. b.age \in Ages
      BY <2>1, HotAssumption DEF Ages
    <3>2. heat[b.age][b.post] + b.weight \in Nat
      BY <2>1, <3>1 DEF HotInv, BucketsEnd
    <3> QED  BY <1>4, <2>1, <3>1, <3>2 DEF ZIncrBy, HotInv, BucketsEnd
  <2>4. BucketsEnd'
    BY <1>4, <2>3 DEF ZIncrBy, HotInv, BucketsEnd, Ages
  <2> QED  BY <2>2, <2>4 DEF HotInv, HandlerOK
<1>5. CASE Expire(h)
  <2>1. b \in [pc : {"zincrby", "expire"}, post : Posts, weight : Nat, age : 0 .. MaxLate]
    BY <1>1, <1>5 DEF Expire, HandlerOK, IdleHandler
  <2>2. HandlerOK(bump'[h]) /\ DOMAIN bump' = Handlers
        /\ \A s \in Handlers \ {h} : bump'[s] = bump[s]
    BY <1>1, <1>5 DEF Expire, HandlerOK
  <2>3. ttl' = ttl \/ ttl' = [ttl EXCEPT ![b.age] = BucketTTL]
    BY <1>5 DEF Expire
  <2>4. b.age \in 0 .. MaxLate /\ BucketTTL \in Forever .. BucketTTL
    BY <2>1, HotAssumption DEF Forever
  <2>5. ttl' \in [Ages -> Forever .. BucketTTL]
    BY <2>3, <2>4 DEF HotInv, BucketsEnd
  <2>6. ASSUME NEW a \in Ages, ttl'[a] # Forever PROVE a + ttl'[a] <= BucketTTL + MaxLate
    <3>1. CASE ttl'[a] = ttl[a]
      BY <2>6, <3>1 DEF HotInv, BucketsEnd
    <3>2. CASE a = b.age /\ ttl'[a] = BucketTTL
      BY <2>4, <3>2, HotAssumption
    <3> QED  BY <2>3, <3>1, <3>2 DEF HotInv, BucketsEnd
  <2>7. BucketsEnd'
    BY <1>5, <2>5, <2>6 DEF Expire, HotInv, BucketsEnd, Ages, Forever
  <2> QED  BY <2>2, <2>7 DEF HotInv, HandlerOK
<1> QED  BY <1>3, <1>4, <1>5 DEF AfterInteraction

LEMMA TickKeeps == ASSUME HotInv, Tick PROVE HotInv'
<1>1. (\A r \in Readers : ReaderOK(reader[r]))' /\ DOMAIN reader' = Readers
  <2>1. ASSUME NEW r \in Readers PROVE ReaderOK(reader'[r])
    <3>1. ReaderOK(reader[r]) /\ (reader[r].pc = "read" => reader[r].late < MaxLate)
      BY DEF HotInv, Tick
    <3>2. reader'[r] = Wait(reader[r])
      BY DEF Tick
    <3> QED  BY <3>1, <3>2, WaitOK
  <2> QED  BY <2>1 DEF Tick, ReaderOK, LikesOf
<1>2. (\A h \in Handlers : HandlerOK(bump[h]))' /\ DOMAIN bump' = Handlers
  <2>1. ASSUME NEW h \in Handlers PROVE HandlerOK(bump'[h])
    <3> PICK b : b = bump[h]
      OBVIOUS
    <3>1. HandlerOK(b) /\ (b.pc # "idle" => b.age < MaxLate)
      BY DEF HotInv, Tick
    <3>2. bump'[h] = IF b.pc # "idle" THEN [b EXCEPT !.age = @ + 1] ELSE b
      BY DEF Tick
    <3>3. CASE b.pc = "idle"
      BY <3>1, <3>2, <3>3
    <3>4. CASE b.pc # "idle"
      <4>1. b \in [pc : {"zincrby", "expire"}, post : Posts, weight : Nat, age : 0 .. MaxLate]
        BY <3>1, <3>4 DEF HandlerOK, IdleHandler
      <4>2. b.age + 1 \in 0 .. MaxLate
        BY <3>1, <3>4, <4>1, HotAssumption
      <4>3. bump'[h] = [b EXCEPT !.age = b.age + 1]
        BY <3>2, <3>4
      <4> QED  BY <4>1, <4>2, <4>3 DEF HandlerOK
    <3> QED  BY <3>3, <3>4
  <2> QED  BY <2>1 DEF Tick, HandlerOK
<1>3. ResultOK'
  <2>1. CASE result = Absent
    <3>1. result.ttl = -1
      BY <2>1 DEF Absent, Forever
    <3>2. result' = [Absent EXCEPT !.ttl = Aged(-1)]
      BY <2>1, <3>1 DEF Tick
    <3> QED  BY <3>2 DEF ResultOK, Absent, Aged, Forever
  <2>2. CASE result # Absent /\ result.ttl = 0
    BY <2>2 DEF Tick, ResultOK
  <2>3. CASE result # Absent /\ result.ttl # 0
    <3>1. /\ result \in [kind : {"list"}, items : Seq(Posts), liked : {{}}, ttl : 0 .. ResultTTL]
          /\ Len(result.items) <= Limit
      BY <2>3 DEF HotInv, ResultOK
    <3>2. result.ttl - 1 \in 0 .. ResultTTL /\ Aged(result.ttl) = result.ttl - 1
      BY <2>3, <3>1, HotAssumption DEF Aged, Forever
    <3>3. result' = [result EXCEPT !.ttl = result.ttl - 1]
      BY <2>3, <3>2 DEF Tick
    <3> QED  BY <3>1, <3>2, <3>3 DEF ResultOK
  <2> QED  BY <2>1, <2>2, <2>3
<1>4. BucketsEnd'
  <2>1. /\ heat \in [Ages -> [Posts -> Nat]] /\ ttl \in [Ages -> Forever .. BucketTTL]
        /\ \A a \in Ages : ttl[a] # Forever => a + ttl[a] <= BucketTTL + MaxLate
    BY DEF HotInv, BucketsEnd
  <2>2. \A a \in Ages : a # 0 => a - 1 \in Ages
    BY HotAssumption DEF Ages
  <2>3. heat' \in [Ages -> [Posts -> Nat]]
    BY <2>1, <2>2 DEF Tick, Shifted, Cold
  <2>4. ASSUME NEW a \in Ages
        PROVE  /\ ttl'[a] \in Forever .. BucketTTL
               /\ ttl'[a] # Forever => a + ttl'[a] <= BucketTTL + MaxLate
    <3>1. CASE a = 0
      BY <3>1, HotAssumption DEF Tick, Forever
    <3>2. CASE a # 0
      <4>1. PICK n \in Forever .. BucketTTL : n = ttl[a - 1]
        BY <2>1, <2>2, <3>2
      <4>2. ttl'[a] = IF n \in {Forever, 0} THEN Forever ELSE n - 1
        BY <3>2, <4>1 DEF Tick, Aged
      <4>3. n # Forever => (a - 1) + n <= BucketTTL + MaxLate
        BY <2>1, <2>2, <3>2, <4>1
      <4>4. a \in Int /\ n \in Int /\ BucketTTL \in Nat /\ MaxLate \in Nat
        BY <4>1, HotAssumption DEF Ages, Forever
      <4> QED  BY <4>1, <4>2, <4>3, <4>4 DEF Forever
    <3> QED  BY <3>1, <3>2
  <2>5. ttl' \in [Ages -> Forever .. BucketTTL]
    BY <2>4 DEF Tick
  <2> QED  BY <2>3, <2>4, <2>5 DEF BucketsEnd, Ages, Forever
<1> QED  BY <1>1, <1>2, <1>3, <1>4 DEF HotInv, Tick

LEMMA HotNextKeeps == HotInv /\ [HotNext]_hotVars => HotInv'
<1> SUFFICES ASSUME HotInv, [HotNext]_hotVars PROVE HotInv'
  OBVIOUS
<1>1. CASE Delete
  BY <1>1 DEF Delete, redis, HotInv, BucketsEnd, ResultOK, HandlerOK, ReaderOK, LikesOf, Ages
<1>2. CASE UNCHANGED hotVars
  BY <1>2 DEF hotVars, redis, HotInv, BucketsEnd, ResultOK, HandlerOK, ReaderOK, LikesOf, Ages
<1> QED  BY <1>1, <1>2, TickKeeps, ListHotKeeps, InteractKeeps DEF HotNext

LEMMA HotHolds == HotSpec => []HotInv
<1>1. HotInit => HotInv
  <2> SUFFICES ASSUME HotInit PROVE HotInv
    OBVIOUS
  <2>1. BucketsEnd
    BY HotAssumption DEF HotInit, BucketsEnd, Cold, Forever
  <2> QED  BY <2>1, IdleOK DEF HotInit, HotInv, ResultOK, HandlerOK
<1> QED  BY <1>1, HotNextKeeps, PTL DEF HotSpec

-----------------------------------------------------------------------------
(* What follows for the three invariants. *)

(***************************************************************************)
(* The buckets, the kept ranking and the readers have their types; no list *)
(* is longer than the limit, at any point of a request.                    *)
(***************************************************************************)
THEOREM HotType == HotSpec => []HotTypeOK
<1>1. HotInv => HotTypeOK
  <2> SUFFICES ASSUME HotInv PROVE HotTypeOK
    OBVIOUS
  <2>1. result # Absent => result.ttl \in 0 .. ResultTTL /\ Len(result.items) <= Limit
    BY DEF HotInv, ResultOK
  <2>2. \A h \in Handlers : bump[h].pc \in {"idle", "zincrby", "expire"}
    BY DEF HotInv, HandlerOK, IdleHandler
  <2> QED  BY <2>1, <2>2 DEF HotInv, HotTypeOK, BucketsEnd, ReaderOK
<1> QED  BY <1>1, HotHolds, PTL

(***************************************************************************)
(* Nobody sees another's likes in the hot list: what SetResult keeps for   *)
(* everybody is without flags, so a flag a request serves comes from its   *)
(* own query.                                                              *)
(***************************************************************************)
THEOREM HotOwnLikes == HotSpec => []OwnLikes
<1>1. HotInv => OwnLikes
  BY DEF HotInv, ReaderOK, OwnLikes
<1> QED  BY <1>1, HotHolds, PTL

(***************************************************************************)
(* A bucket that ever got its expiry is gone BucketTTL minutes after the   *)
(* last handler that may have its name, though every increment may move    *)
(* its end; heat is never as old as a Window longer than that asks for.    *)
(***************************************************************************)
THEOREM HotRecent == HotSpec => []HotIsRecent
<1>1. HotInv => HotIsRecent
  <2> SUFFICES ASSUME HotInv, NEW a \in Ages, ttl[a] # Forever
               PROVE  a <= BucketTTL + MaxLate
    BY DEF HotIsRecent
  <2>1. ttl[a] \in Forever .. BucketTTL /\ a + ttl[a] <= BucketTTL + MaxLate
    BY DEF HotInv, BucketsEnd
  <2>2. a \in Int /\ BucketTTL \in Nat /\ MaxLate \in Nat
    BY HotAssumption DEF Ages
  <2> QED  BY <2>1, <2>2 DEF Forever
<1> QED  BY <1>1, HotHolds, PTL

-----------------------------------------------------------------------------
(* Sums of buckets, while the buckets move on. *)

\* s[n] is the sum of the first n numbers of g.
Adds(s, g) ==
  /\ s \in [0 .. Window -> Nat]
  /\ s[0] = 0
  /\ \A n \in 1 .. Window : s[n] = s[n - 1] + g[n - 1]

Numbers == [0 .. Window - 1 -> Nat]

LEMMA AddsExists == ASSUME NEW g \in Numbers PROVE \E s : Adds(s, g)
<1> DEFINE Upto(m) == {s \in [0 .. Window -> Nat] :
                         s[0] = 0 /\ \A n \in 1 .. m : s[n] = s[n - 1] + g[n - 1]}
           T == {m \in 0 .. Window : Upto(m) = {}}
<1>1. Window \in Nat
  BY HotAssumption
<1>2. SUFFICES ASSUME T # {} PROVE FALSE
  <2>1. Window \in 0 .. Window
    BY <1>1
  <2>2. Upto(Window) # {}
    BY <1>2, <2>1
  <2> QED  BY <2>2 DEF Adds
<1>3. PICK m \in T : \A k \in T : m <= k
  BY <1>1, <1>2, Least
<1>4. CASE m = 0
  <2>1. [n \in 0 .. Window |-> 0] \in Upto(m)
    BY <1>1, <1>4
  <2> QED  BY <2>1
<1>5. CASE m # 0
  <2>1. m \in 1 .. Window /\ m - 1 \in 0 .. Window
    BY <1>1, <1>5
  <2>2. Upto(m - 1) # {}
    <3> HIDE DEF Upto
    <3>1. ~(m <= m - 1)
      BY <1>1
    <3> QED  BY <1>3, <2>1, <3>1
  <2>3. PICK s \in [0 .. Window -> Nat] :
          s[0] = 0 /\ \A n \in 1 .. m - 1 : s[n] = s[n - 1] + g[n - 1]
    BY <2>2
  <2>4. PICK x \in Nat : x = s[m - 1] + g[m - 1]
    BY <1>1, <2>1, <2>3 DEF Numbers
  <2>5. PICK t \in [0 .. Window -> Nat] : t = [s EXCEPT ![m] = x]
    BY <2>3, <2>4
  <2>6. t[0] = 0
    BY <2>1, <2>3, <2>5
  <2>7. ASSUME NEW n \in 1 .. m PROVE t[n] = t[n - 1] + g[n - 1]
    <3>1. CASE n = m
      BY <1>1, <2>1, <2>3, <2>4, <2>5, <3>1
    <3>2. CASE n # m
      BY <1>1, <2>1, <2>3, <2>5, <3>2
    <3> QED  BY <3>1, <3>2
  <2>8. t \in Upto(m)
    BY <2>6, <2>7
  <2> QED  BY <2>8
<1> QED  BY <1>4, <1>5

\* With no number of h smaller than that of g, no step of the sums is smaller.
LEMMA AddsGrow ==
  ASSUME NEW g \in Numbers, NEW h \in Numbers, NEW s, NEW t, Adds(s, g), Adds(t, h),
         \A j \in 0 .. Window - 1 : g[j] <= h[j],
         NEW from \in 0 .. Window, NEW to \in 0 .. Window, from <= to
  PROVE  s[to] - s[from] <= t[to] - t[from]
<1> DEFINE T == {m \in 0 .. Window : from <= m /\ ~(s[m] - s[from] <= t[m] - t[from])}
<1>1. Window \in Nat
  BY HotAssumption
<1>2. SUFFICES ASSUME T # {} PROVE FALSE
  BY <1>2
<1>3. PICK m \in T : \A k \in T : m <= k
  BY <1>1, <1>2, Least
<1>4. s \in [0 .. Window -> Nat] /\ t \in [0 .. Window -> Nat]
  BY DEF Adds
<1>5. m # from
  BY <1>1, <1>4
<1>6. m \in 1 .. Window /\ m - 1 \in 0 .. Window /\ from <= m - 1 /\ m - 1 \in 0 .. Window - 1
  BY <1>1, <1>5
<1>7. s[m - 1] - s[from] <= t[m - 1] - t[from]
  BY <1>1, <1>3, <1>6
<1>8. s[m] = s[m - 1] + g[m - 1] /\ t[m] = t[m - 1] + h[m - 1]
  BY <1>6 DEF Adds
<1>9. PICK a \in Nat, b \in Nat, c \in Nat, d \in Nat, x \in Nat, y \in Nat :
        /\ a = s[m - 1] /\ b = t[m - 1] /\ c = s[from] /\ d = t[from]
        /\ x = g[m - 1] /\ y = h[m - 1]
  BY <1>4, <1>6 DEF Numbers
<1>10. x <= y /\ a - c <= b - d
  BY <1>6, <1>7, <1>9
<1>11. (a + x) - c <= (b + y) - d
  BY <1>10
<1> QED  BY <1>8, <1>9, <1>11

\* What the numbers of heat of p are, from one bucket on.
HeatOf(buckets, from, p) == [j \in 0 .. Window - 1 |-> buckets[from + j][p]]

LEMMA SumAdds ==
  ASSUME NEW buckets, NEW from \in Int, NEW p, HeatOf(buckets, from, p) \in Numbers
  PROVE  /\ Adds(Sums(buckets, from, p), HeatOf(buckets, from, p))
         /\ Sum(buckets, from, p) = Sums(buckets, from, p)[Window]
<1> DEFINE D(s) == [n \in 0 .. Window |->
                      IF n = 0 THEN 0 ELSE s[n - 1] + buckets[from + n - 1][p]]
<1>1. Window \in Nat \ {0}
  BY HotAssumption
<1>2. PICK t : Adds(t, HeatOf(buckets, from, p))
  BY AddsExists
<1>3. t = D(t)
  <2>1. t \in [0 .. Window -> Nat] /\ t[0] = 0
    BY <1>2 DEF Adds
  <2>2. ASSUME NEW n \in 0 .. Window PROVE t[n] = D(t)[n]
    <3>1. CASE n = 0
      BY <2>1, <3>1
    <3>2. CASE n # 0
      <4>1. n \in 1 .. Window /\ n - 1 \in 0 .. Window - 1 /\ from + (n - 1) = from + n - 1
        BY <1>1, <3>2
      <4>2. t[n] = t[n - 1] + HeatOf(buckets, from, p)[n - 1]
        BY <1>2, <4>1 DEF Adds
      <4>3. HeatOf(buckets, from, p)[n - 1] = buckets[from + n - 1][p]
        BY <4>1 DEF HeatOf
      <4> QED  BY <3>2, <4>2, <4>3
    <3> QED  BY <3>1, <3>2
  <2> QED  BY <2>1, <2>2
<1>4. PICK s : s = Sums(buckets, from, p)
  OBVIOUS
<1>5. s = D(s)
  BY <1>3, <1>4 DEF Sums
<1> DEFINE T == {n \in 0 .. Window : s[n] # t[n]}
<1>6. T = {}
  <2> SUFFICES ASSUME T # {} PROVE FALSE
    OBVIOUS
  <2>1. PICK m \in T : \A k \in T : m <= k
    BY <1>1, Least
  <2>2. s[m] = D(s)[m] /\ t[m] = D(t)[m]
    BY <1>3, <1>5
  <2>3. m # 0
    BY <2>2
  <2>4. m - 1 \in 0 .. Window /\ ~(m <= m - 1)
    BY <1>1, <2>3
  <2>5. s[m - 1] = t[m - 1]
    BY <2>1, <2>4
  <2> QED  BY <2>2, <2>3, <2>5
<1>7. s = t
  <2>1. DOMAIN t = 0 .. Window /\ t = [n \in 0 .. Window |-> t[n]]
    BY <1>2 DEF Adds
  <2>2. DOMAIN D(s) = 0 .. Window /\ D(s) = [n \in 0 .. Window |-> D(s)[n]]
    OBVIOUS
  <2>3. s = [n \in 0 .. Window |-> s[n]]
    BY <1>5, <2>2
  <2> QED  BY <1>6, <2>1, <2>3
<1> QED  BY <1>2, <1>4, <1>7 DEF Sum

LEMMA HeatType ==
  ASSUME NEW h \in [Ages -> [Posts -> Nat]], NEW from \in 0 .. MaxLate, NEW p \in Posts
  PROVE  HeatOf(h, from, p) \in Numbers
<1>1. \A j \in 0 .. Window - 1 : from + j \in Ages
  BY HotAssumption DEF Ages
<1> QED  BY <1>1 DEF HeatOf, Numbers

\* What was added up is no more than there is in the buckets that were read,
\* and with the buckets to come no less than the base.
Tallied(h, i, late, acc, base) ==
  \A p \in Posts : \E s :
    /\ Adds(s, HeatOf(h, late, p))
    /\ acc[p] <= s[i]
    /\ base[p] \in Nat /\ base[p] <= acc[p] + (s[Window] - s[i])

LEMMA TallyStart ==
  ASSUME NEW h \in [Ages -> [Posts -> Nat]]
  PROVE  Tallied(h, 0, 0, Cold, [p \in Posts |-> Sum(h, 0, p)])
<1> SUFFICES ASSUME NEW p \in Posts
             PROVE  \E s : /\ Adds(s, HeatOf(h, 0, p)) /\ 0 <= s[0]
                           /\ Sum(h, 0, p) \in Nat
                           /\ Sum(h, 0, p) <= 0 + (s[Window] - s[0])
  BY DEF Tallied, Cold
<1>1. Window \in 0 .. Window /\ 0 \in 0 .. MaxLate
  BY HotAssumption
<1>2. HeatOf(h, 0, p) \in Numbers
  BY <1>1, HeatType
<1>3. PICK s : s = Sums(h, 0, p)
  OBVIOUS
<1>4. Adds(s, HeatOf(h, 0, p)) /\ Sum(h, 0, p) = s[Window]
  BY <1>2, <1>3, SumAdds
<1>5. s[Window] \in Nat /\ s[0] = 0
  BY <1>1, <1>4 DEF Adds
<1> QED  BY <1>4, <1>5

\* Minutes may pass and heat come in, as long as no bucket loses any.
LEMMA TallyGrows ==
  ASSUME NEW h \in [Ages -> [Posts -> Nat]], NEW g \in [Ages -> [Posts -> Nat]],
         NEW late \in 0 .. MaxLate, NEW later \in 0 .. MaxLate,
         NEW i \in 0 .. Window - 1, NEW acc \in [Posts -> Nat], NEW base,
         Tallied(h, i, late, acc, base),
         \A j \in 0 .. Window - 1, p \in Posts : h[late + j][p] <= g[later + j][p]
  PROVE  Tallied(g, i, later, acc, base)
<1> SUFFICES ASSUME NEW p \in Posts
             PROVE  \E t : /\ Adds(t, HeatOf(g, later, p)) /\ acc[p] <= t[i]
                           /\ base[p] \in Nat
                           /\ base[p] <= acc[p] + (t[Window] - t[i])
  BY DEF Tallied
<1>1. HeatOf(h, late, p) \in Numbers /\ HeatOf(g, later, p) \in Numbers
  BY HeatType
<1>2. PICK s : /\ Adds(s, HeatOf(h, late, p)) /\ acc[p] <= s[i]
               /\ base[p] \in Nat
               /\ base[p] <= acc[p] + (s[Window] - s[i])
  BY DEF Tallied
<1>3. PICK t : Adds(t, HeatOf(g, later, p))
  BY <1>1, AddsExists
<1>4. \A j \in 0 .. Window - 1 : HeatOf(h, late, p)[j] <= HeatOf(g, later, p)[j]
  BY DEF HeatOf
<1>5. /\ 0 \in 0 .. Window /\ i \in 0 .. Window /\ Window \in 0 .. Window
      /\ 0 <= i /\ i <= Window
  BY HotAssumption
<1>6. s[i] - s[0] <= t[i] - t[0]
  BY <1>1, <1>2, <1>3, <1>4, <1>5, AddsGrow
<1>7. s[Window] - s[i] <= t[Window] - t[i]
  BY <1>1, <1>2, <1>3, <1>4, <1>5, AddsGrow
<1>8. PICK a \in Nat, b \in Nat, c \in Nat, d \in Nat, x \in Nat, y \in Nat :
        /\ a = s[i] /\ b = t[i] /\ c = s[Window] /\ d = t[Window]
        /\ x = acc[p] /\ y = base[p]
  BY <1>2, <1>3, <1>5 DEF Adds
<1>9. s[0] = 0 /\ t[0] = 0
  BY <1>2, <1>3 DEF Adds
<1>10. x <= b /\ y <= x + (d - b)
  BY <1>2, <1>6, <1>7, <1>8, <1>9
<1> QED  BY <1>2, <1>3, <1>8, <1>10

\* One more bucket.
LEMMA TallyReads ==
  ASSUME NEW h \in [Ages -> [Posts -> Nat]], NEW late \in 0 .. MaxLate,
         NEW i \in 0 .. Window - 1, NEW acc \in [Posts -> Nat], NEW base,
         Tallied(h, i, late, acc, base)
  PROVE  Tallied(h, i + 1, late, Plus(acc, h[i + late]), base)
<1> PICK sum : sum = Plus(acc, h[i + late])
  OBVIOUS
<1> SUFFICES ASSUME NEW p \in Posts
             PROVE  \E s : /\ Adds(s, HeatOf(h, late, p)) /\ sum[p] <= s[i + 1]
                           /\ base[p] \in Nat
                           /\ base[p] <= sum[p] + (s[Window] - s[i + 1])
  BY DEF Tallied
<1>1. PICK s : /\ Adds(s, HeatOf(h, late, p)) /\ acc[p] <= s[i]
               /\ base[p] \in Nat
               /\ base[p] <= acc[p] + (s[Window] - s[i])
  BY DEF Tallied
<1>2. /\ i \in 0 .. Window /\ i + 1 \in 1 .. Window /\ Window \in 0 .. Window
      /\ i + 1 \in 0 .. Window /\ i + 1 - 1 = i /\ late + i = i + late
      /\ i + late \in Ages
  BY HotAssumption DEF Ages
<1>3. s[i + 1] = s[i] + h[i + late][p]
  <2>1. s[i + 1] = s[i + 1 - 1] + HeatOf(h, late, p)[i + 1 - 1]
    BY <1>1, <1>2 DEF Adds
  <2>2. HeatOf(h, late, p)[i] = h[i + late][p]
    BY <1>2 DEF HeatOf
  <2> QED  BY <1>2, <2>1, <2>2
<1>4. PICK a \in Nat, b \in Nat, c \in Nat, x \in Nat, y \in Nat, z \in Nat :
        /\ a = s[i] /\ b = s[i + 1] /\ c = s[Window]
        /\ x = acc[p] /\ y = base[p] /\ z = h[i + late][p]
  BY <1>1, <1>2 DEF Adds
<1>5. sum[p] = x + z
  BY <1>4 DEF Plus
<1>6. b = a + z /\ x <= a /\ y <= x + (c - a)
  BY <1>1, <1>3, <1>4
<1>7. x + z <= b /\ y <= (x + z) + (c - b)
  BY <1>6
<1> QED  BY <1>1, <1>4, <1>5, <1>7

\* After the last one.
LEMMA TallyEnds ==
  ASSUME NEW h \in [Ages -> [Posts -> Nat]], NEW late \in 0 .. MaxLate,
         NEW acc \in [Posts -> Nat], NEW base, Tallied(h, Window, late, acc, base),
         NEW p \in Posts
  PROVE  /\ Sum(h, late, p) \in Nat /\ base[p] \in Nat
         /\ base[p] <= acc[p] /\ acc[p] <= Sum(h, late, p)
<1>1. HeatOf(h, late, p) \in Numbers /\ late \in Int
  BY HeatType
<1>2. PICK s : /\ Adds(s, HeatOf(h, late, p)) /\ acc[p] <= s[Window]
               /\ base[p] \in Nat
               /\ base[p] <= acc[p] + (s[Window] - s[Window])
  BY DEF Tallied
<1>3. PICK t : t = Sums(h, late, p)
  OBVIOUS
<1>4. Adds(t, HeatOf(h, late, p)) /\ Sum(h, late, p) = t[Window]
  BY <1>1, <1>3, SumAdds
<1>5. 0 \in 0 .. Window /\ Window \in 0 .. Window /\ 0 <= Window
  BY HotAssumption
<1>6. \A j \in 0 .. Window - 1 : HeatOf(h, late, p)[j] <= HeatOf(h, late, p)[j]
  BY <1>1 DEF Numbers
<1>7. s[Window] - s[0] <= t[Window] - t[0]
  BY <1>1, <1>2, <1>4, <1>5, <1>6, AddsGrow
<1>8. PICK a \in Nat, b \in Nat, x \in Nat, y \in Nat :
        a = s[Window] /\ b = t[Window] /\ x = acc[p] /\ y = base[p]
  BY <1>2, <1>4, <1>5 DEF Adds
<1>9. a <= b
  BY <1>2, <1>4, <1>7, <1>8 DEF Adds
<1>10. y <= x /\ x <= b
  BY <1>2, <1>8, <1>9
<1> QED  BY <1>2, <1>4, <1>8, <1>10

\* A reader that has missed no bucket.
Fair(h, me) ==
  /\ me.pc = "get" => me.i = 0 /\ me.late = 0 /\ me.acc = Cold
  /\ me.pc = "read" /\ me.base # Cold => Tallied(h, me.i, me.late, me.acc, me.base)

AllFair == \A r \in Readers : Fair(heat, reader[r])

LEMMA FairReads ==
  ASSUME HotInv, NEW r \in Readers, Fair(heat, reader[r]), ReadBucket(r)
  PROVE  \/ reader'[r].pc = "read" /\ Fair(heat, reader'[r])
         \/ /\ Finishes(r) /\ reader'[r].pc \in {"liked", "hydrate"}
            /\ \E acc \in [Posts -> Nat] :
                 /\ reader'[r].todo = Top(acc)
                 /\ reader'[r].base # Cold =>
                      Tallied(heat, Window, reader[r].late, acc, reader'[r].base)
<1> PICK me : me = reader[r]
  OBVIOUS
<1>1. ReaderOK(me) /\ me.pc = "read" /\ DOMAIN reader = Readers
  BY DEF HotInv, ReadBucket, ReadAge, AddBucket
<1>2. me.i \in 0 .. Window - 1 /\ me.late \in 0 .. MaxLate /\ me.acc \in [Posts -> Nat]
  BY <1>1 DEF ReaderOK
<1>3. heat \in [Ages -> [Posts -> Nat]]
  BY DEF HotInv, BucketsEnd
<1>4. PICK a : a = me.i + me.late
  OBVIOUS
<1>5. a \in Ages /\ heat[a] \in [Posts -> Nat]
  <2>1. a \in Ages
    BY <1>2, <1>4, HotAssumption DEF Ages
  <2> QED  BY <1>3, <2>1
<1>6. PICK acc, base :
        /\ \/ acc = Plus(me.acc, heat[a]) /\ base = me.base
           \/ acc = me.acc /\ base = Cold
        /\ reader' = [reader EXCEPT ![r] =
             IF me.i + 1 < Window
               THEN [me EXCEPT !.i = @ + 1, !.acc = acc, !.base = base]
               ELSE [Request(me, IF Top(acc) = <<>> THEN "liked" ELSE "hydrate")
                       EXCEPT !.todo = Top(acc), !.base = base]]
  BY <1>4 DEF ReadBucket, ReadAge, AddBucket
<1>7. acc \in [Posts -> Nat]
  BY <1>2, <1>5, <1>6 DEF Plus
<1>8. base # Cold => Tallied(heat, me.i + 1, me.late, acc, base)
  BY <1>1, <1>2, <1>3, <1>4, <1>6, TallyReads DEF Fair
<1>9. CASE me.i + 1 < Window
  <2>1. reader'[r] = [me EXCEPT !.i = me.i + 1, !.acc = acc, !.base = base]
    BY <1>1, <1>6, <1>9
  <2>2. /\ reader'[r].pc = "read" /\ reader'[r].i = me.i + 1
        /\ reader'[r].late = me.late /\ reader'[r].acc = acc /\ reader'[r].base = base
    BY <1>1, <2>1 DEF ReaderOK
  <2> QED  BY <1>8, <2>2 DEF Fair
<1>10. CASE ~(me.i + 1 < Window)
  <2>1. PICK to : to = IF Top(acc) = <<>> THEN "liked" ELSE "hydrate"
    OBVIOUS
  <2>2. reader'[r] = [Request(me, to) EXCEPT !.todo = Top(acc), !.base = base]
    BY <1>1, <1>6, <1>10, <2>1
  <2>3. reader'[r] = Reader(to, me.viewer, <<>>, {}, Top(acc), 0, 0, Cold, base)
    BY <2>2 DEF Request, IdleReader, Reader
  <2>4. reader'[r].pc = to /\ reader'[r].todo = Top(acc) /\ reader'[r].base = base
    BY <2>3 DEF Reader
  <2>5. me.i + 1 = Window
    BY <1>2, <1>10, HotAssumption
  <2> QED  BY <1>1, <1>7, <1>8, <2>1, <2>4, <2>5 DEF Finishes
<1> QED  BY <1>9, <1>10

LEMMA FairKeeps ==
  ASSUME HotInv, NEW r \in Readers, Fair(heat, reader[r]), StartHot(r) \/ ListHot(r)
  PROVE  Fair(heat, reader'[r]) /\ (Finishes(r) => ReadBucket(r))
<1>1. ReaderOK(reader[r]) /\ DOMAIN reader = Readers
  BY DEF HotInv
<1>2. heat \in [Ages -> [Posts -> Nat]]
  BY DEF HotInv, BucketsEnd
<1>3. CASE StartHot(r)
  <2>1. PICK v : reader'[r] = [IdleReader EXCEPT !.pc = "get", !.viewer = v]
    BY <1>1, <1>3 DEF StartHot
  <2>2. reader'[r] = Reader("get", v, <<>>, {}, <<>>, 0, 0, Cold, Cold)
    BY <2>1 DEF IdleReader, Reader
  <2>3. reader'[r].pc = "get" /\ reader'[r].i = 0 /\ reader'[r].late = 0 /\ reader'[r].acc = Cold
    BY <2>2 DEF Reader
  <2>4. reader[r].pc # "read"
    BY <1>3 DEF StartHot
  <2> QED  BY <2>3, <2>4 DEF Fair, Finishes
<1>4. CASE GetResult(r)
  <2>1. ~Finishes(r)
    BY <1>4 DEF GetResult, Finishes
  <2>2. CASE reader' = [reader EXCEPT ![r].pc = "cached",
                          ![r].items = result.items, ![r].liked = result.liked]
    <3>1. reader'[r].pc = "cached"
      BY <1>1, <2>2 DEF ReaderOK
    <3> QED  BY <2>1, <3>1 DEF Fair
  <2>3. CASE reader' = [reader EXCEPT ![r].pc = "read",
                          ![r].base = [p \in Posts |-> Sum(heat, 0, p)]]
    <3>1. PICK base : base = [p \in Posts |-> Sum(heat, 0, p)]
      OBVIOUS
    <3>2. reader[r].pc = "get" /\ reader[r].i = 0 /\ reader[r].late = 0 /\ reader[r].acc = Cold
      BY <1>4 DEF GetResult, Fair
    <3>3. reader'[r] = [reader[r] EXCEPT !.pc = "read", !.base = base]
      BY <1>1, <2>3, <3>1
    <3>4. /\ reader'[r].pc = "read" /\ reader'[r].i = 0 /\ reader'[r].late = 0
          /\ reader'[r].acc = Cold /\ reader'[r].base = base
      BY <1>1, <3>2, <3>3 DEF ReaderOK
    <3>5. Tallied(heat, 0, 0, Cold, base)
      BY <1>2, <3>1, TallyStart
    <3> QED  BY <2>1, <3>4, <3>5 DEF Fair
  <2> QED  BY <1>4, <2>2, <2>3 DEF GetResult
<1>5. CASE ReadBucket(r)
  <2>1. reader'[r].pc \in {"liked", "hydrate"} => Fair(heat, reader'[r])
    BY DEF Fair
  <2> QED  BY <1>5, <2>1, FairReads
<1>6. CASE Hydrate(r)
  <2>1. PICK to : to = IF Len(reader[r].todo) > 1 THEN "hydrate" ELSE "liked"
    OBVIOUS
  <2>2. PICK me : me = Request(reader[r], to)
    OBVIOUS
  <2>3. DOMAIN me = {"pc", "viewer", "items", "liked", "todo", "i", "late", "acc", "base"}
        /\ me.pc = to
    BY <2>2 DEF Request, IdleReader
  <2>4. \/ reader'[r] = IdleReader
        \/ \E items : reader'[r] = [me EXCEPT !.items = items, !.todo = Tail(reader[r].todo)]
    <3>1. CASE reader' = [reader EXCEPT ![r] = IdleReader]
      BY <1>1, <3>1
    <3>2. CASE \E items : reader' = [reader EXCEPT ![r] =
                            [me EXCEPT !.items = items, !.todo = Tail(reader[r].todo)]]
      BY <1>1, <3>2
    <3>3. CASE \E items : reader' = [reader EXCEPT ![r] =
                 [Request(reader[r], IF Len(reader[r].todo) > 1 THEN "hydrate" ELSE "liked")
                    EXCEPT !.items = items, !.todo = Tail(reader[r].todo)]]
      BY <2>1, <2>2, <3>2, <3>3
    <3> QED  BY <1>6, <3>1, <3>3 DEF Hydrate
  <2>5. reader'[r].pc \in {"idle", "hydrate", "liked"}
    <3>1. CASE reader'[r] = IdleReader
      BY <3>1 DEF IdleReader
    <3>2. ASSUME NEW items, reader'[r] = [me EXCEPT !.items = items, !.todo = Tail(reader[r].todo)]
          PROVE  reader'[r].pc = to
      <4>1. PICK todo : todo = Tail(reader[r].todo)
        OBVIOUS
      <4> QED  BY <2>3, <3>2, <4>1
    <3> QED  BY <2>1, <2>4, <3>1, <3>2
  <2> QED  BY <1>6, <2>5 DEF Fair, Hydrate, Finishes
<1>7. CASE FillLiked(r)
  <2>1. reader'[r].pc \in {"done", "set"}
    BY <1>1, <1>7 DEF FillLiked, ReaderOK
  <2> QED  BY <1>7, <2>1 DEF Fair, FillLiked, Finishes
<1>8. CASE SetResult(r)
  <2>1. reader'[r].pc = "done" /\ reader[r].pc = "set"
    BY <1>1, <1>8 DEF SetResult, SetJSON, ReaderOK
  <2> QED  BY <2>1 DEF Fair, Finishes
<1> QED  BY <1>3, <1>4, <1>5, <1>6, <1>7, <1>8 DEF ListHot

\* A minute passes: each bucket the reader counts has another name now, and
\* all of its heat, unless it is gone.
LEMMA FairTick ==
  ASSUME HotInv, NEW r \in Readers, Fair(heat, reader[r]), Tick
  PROVE  Fair(heat', reader'[r]) /\ ~Finishes(r)
<1> PICK me : me = reader[r]
  OBVIOUS
<1>1. ReaderOK(me) /\ reader'[r] = Wait(me) /\ (me.pc = "read" => me.late < MaxLate)
  BY DEF HotInv, Tick
<1>2. CASE me.pc # "read"
  BY <1>1, <1>2 DEF Wait, Fair, Finishes
<1>3. CASE me.pc = "read"
  <2>1. PICK base : base = IF \E j \in 0 .. Window - 1 : ttl[j + me.late] = 0 THEN Cold ELSE me.base
    OBVIOUS
  <2>2. reader'[r] = [me EXCEPT !.late = me.late + 1, !.base = base]
    BY <1>1, <1>3, <2>1 DEF Wait
  <2>3. /\ reader'[r].pc = "read" /\ reader'[r].i = me.i /\ reader'[r].late = me.late + 1
        /\ reader'[r].acc = me.acc /\ reader'[r].base = base
    BY <1>1, <1>3, <2>2 DEF ReaderOK
  <2>4. ASSUME base # Cold PROVE Tallied(heat', me.i, me.late + 1, me.acc, base)
    <3>0. me.i \in 0 .. Window - 1 /\ me.late \in 0 .. MaxLate /\ me.acc \in [Posts -> Nat]
      BY <1>1 DEF ReaderOK
    <3>1. /\ me.i \in 0 .. Window - 1 /\ me.late \in 0 .. MaxLate /\ me.acc \in [Posts -> Nat]
          /\ me.late + 1 \in 0 .. MaxLate
      BY <1>1, <1>3, <3>0, HotAssumption
    <3>2. heat \in [Ages -> [Posts -> Nat]] /\ heat' \in [Ages -> [Posts -> Nat]]
      BY TickKeeps DEF HotInv, BucketsEnd, Ages
    <3>3. base = me.base /\ \A j \in 0 .. Window - 1 : ttl[j + me.late] # 0
      BY <2>1, <2>4
    <3>4. Tallied(heat, me.i, me.late, me.acc, base)
      BY <1>3, <2>4, <3>3 DEF Fair
    <3>5. ASSUME NEW j \in 0 .. Window - 1, NEW p \in Posts
          PROVE  heat[me.late + j][p] <= heat'[me.late + 1 + j][p]
      <4>1. PICK a \in Int : a = me.late + j
        BY <3>1
      <4>2. a \in Ages /\ a + 1 \in Ages /\ a + 1 # 0 /\ a + 1 - 1 = a
            /\ me.late + 1 + j = a + 1 /\ j + me.late = a
        BY <3>1, <4>1, HotAssumption DEF Ages
      <4>3. heat'[a + 1] = heat[a]
        <5>1. ttl[a] # 0
          BY <3>3, <4>2
        <5>2. \A b \in Ages : heat'[b] = IF b = 0 \/ ttl[b - 1] = 0 THEN Cold ELSE heat[b - 1]
          BY DEF Tick, Shifted
        <5> QED  BY <4>2, <5>1, <5>2
      <4>4. heat[a][p] \in Nat
        BY <3>2, <4>2
      <4> QED  BY <4>1, <4>2, <4>3, <4>4
    <3> QED  BY <3>1, <3>2, <3>4, <3>5, TallyGrows
  <2> QED  BY <2>3, <2>4 DEF Fair, Finishes
<1> QED  BY <1>2, <1>3

\* Heat comes in.
LEMMA FairHeats ==
  ASSUME HotInv, HotInv', NEW r \in Readers, Fair(heat, reader[r]), NEW k \in Handlers,
         HotBucket(k) \/ AfterInteraction(k)
  PROVE  Fair(heat', reader'[r]) /\ ~Finishes(r)
<1> PICK me : me = reader[r]
  OBVIOUS
<1>1. ReaderOK(me) /\ reader' = reader
  BY DEF HotInv, HotBucket, AfterInteraction, ZIncrBy, Expire
<1>2. /\ me.i \in 0 .. Window - 1 /\ me.late \in 0 .. MaxLate /\ me.acc \in [Posts -> Nat]
  BY <1>1 DEF ReaderOK
<1>3. heat \in [Ages -> [Posts -> Nat]] /\ heat' \in [Ages -> [Posts -> Nat]]
  BY DEF HotInv, BucketsEnd, Ages
<1>4. ASSUME NEW a \in Ages, NEW p \in Posts PROVE heat[a][p] <= heat'[a][p]
  <2>1. heat[a][p] \in Nat
    BY <1>3
  <2>2. CASE heat' = heat
    BY <2>1, <2>2
  <2>3. CASE ZIncrBy(k) /\ heat' # heat
    <3>1. PICK b : b = bump[k]
      OBVIOUS
    <3>2. b \in [pc : {"zincrby", "expire"}, post : Posts, weight : Nat, age : 0 .. MaxLate]
      BY <2>3, <3>1 DEF ZIncrBy, HotInv, HandlerOK, IdleHandler
    <3>3. heat' = [heat EXCEPT ![b.age][b.post] = @ + b.weight]
      BY <2>3, <3>1 DEF ZIncrBy
    <3>4. heat'[a][p] = heat[a][p] \/ heat'[a][p] = heat[a][p] + b.weight
      BY <1>3, <3>3
    <3> QED  BY <2>1, <3>2, <3>4
  <2> QED  BY <2>2, <2>3 DEF HotBucket, AfterInteraction, Expire, redis
<1>5. \A j \in 0 .. Window - 1 : me.late + j \in Ages
  BY <1>2, HotAssumption DEF Ages
<1>6. me.pc = "read" /\ me.base # Cold =>
        Tallied(heat', me.i, me.late, me.acc, me.base)
  BY <1>2, <1>3, <1>4, <1>5, TallyGrows DEF Fair
<1> QED  BY <1>1, <1>6 DEF Fair, Finishes

LEMMA FairStep ==
  ASSUME HotInv, AllFair, [HotNext]_hotVars
  PROVE  AllFair' /\ \A r \in Readers : Finishes(r) => ReadBucket(r)
<1> SUFFICES ASSUME NEW r \in Readers
             PROVE  Fair(heat', reader'[r]) /\ (Finishes(r) => ReadBucket(r))
  BY DEF AllFair, Fair, Tallied, Adds, HeatOf, Cold
<1>1. Fair(heat, reader[r]) /\ HotInv'
  BY HotNextKeeps DEF AllFair
<1>2. CASE UNCHANGED hotVars \/ Delete
  BY <1>1, <1>2 DEF hotVars, redis, Delete, Finishes
<1>3. CASE \E k \in Handlers : HotBucket(k) \/ AfterInteraction(k)
  BY <1>1, <1>3, FairHeats
<1>4. CASE Tick
  BY <1>1, <1>4, FairTick
<1>5. CASE StartHot(r) \/ ListHot(r)
  <2>1. heat' = heat
    BY <1>5 DEF StartHot, ListHot, GetResult, ReadBucket, ReadAge, AddBucket, Hydrate,
                FillLiked, SetResult, SetJSON, redis
  <2> QED  BY <1>1, <1>5, <2>1, FairKeeps
<1>6. ASSUME NEW q \in Readers, q # r, StartHot(q) \/ ListHot(q)
      PROVE  Fair(heat', reader'[r]) /\ (Finishes(r) => ReadBucket(r))
  <2>1. heat' = heat /\ reader'[r] = reader[r]
    BY <1>6 DEF StartHot, ListHot, GetResult, ReadBucket, ReadAge, AddBucket, Hydrate,
                FillLiked, SetResult, SetJSON, redis, HotInv
  <2> QED  BY <1>1, <2>1 DEF Finishes
<1> QED  BY <1>2, <1>3, <1>4, <1>5, <1>6 DEF HotNext

LEMMA FairHolds == HotSpec => []AllFair
<1>1. HotInit => AllFair
  BY DEF HotInit, AllFair, Fair, IdleReader
<1>2. HotInv /\ AllFair /\ [HotNext]_hotVars => AllFair'
  BY FairStep
<1> QED  BY <1>1, <1>2, HotHolds, PTL DEF HotSpec

(***************************************************************************)
(* A place in the ranking is earned, however many minutes pass and however *)
(* much heat comes in between the buckets: what ReadBucket has added up at *)
(* the end lies, for each post, between the heat of the window at the      *)
(* start and the heat of the same minutes now.                             *)
(***************************************************************************)
THEOREM HotEarned == HotSpec => RankIsEarned
<1>1. ASSUME HotInv, AllFair, [HotNext]_hotVars, NEW r \in Readers,
             Finishes(r), reader'[r].base # Cold,
             NEW k \in 1 .. Len(reader'[r].todo), NEW q \in Posts,
             q \notin {reader'[r].todo[m] : m \in 1 .. k}
      PROVE  LET p == reader'[r].todo[k] IN
             \/ Sum(heat, reader[r].late, p) > reader'[r].base[q]
             \/ Sum(heat, reader[r].late, p) = reader'[r].base[q] /\ p > q
  <2>1. ReadBucket(r) /\ Fair(heat, reader[r])
    BY <1>1, FairStep DEF AllFair
  <2>2. PICK acc \in [Posts -> Nat] :
          /\ reader'[r].todo = Top(acc)
          /\ Tallied(heat, Window, reader[r].late, acc, reader'[r].base)
    BY <1>1, <2>1, FairReads DEF Finishes
  <2>3. PICK p : p = Top(acc)[k]
    OBVIOUS
  <2>4. p \in Posts /\ Above(acc, p, q)
    BY <1>1, <2>2, <2>3, TopOrder
  <2>5. heat \in [Ages -> [Posts -> Nat]] /\ reader[r].late \in 0 .. MaxLate
    BY <1>1 DEF HotInv, BucketsEnd, ReaderOK
  <2>6. PICK x \in Nat, y \in Nat, a \in Nat, b \in Nat :
          /\ x = Sum(heat, reader[r].late, p) /\ y = reader'[r].base[q]
          /\ a = acc[p] /\ b = acc[q]
    BY <1>1, <2>2, <2>4, <2>5, TallyEnds
  <2>7. a <= x /\ y <= b
    BY <1>1, <2>2, <2>4, <2>5, <2>6, TallyEnds
  <2>8. a > b \/ (a = b /\ p > q)
    BY <2>4, <2>6 DEF Above
  <2>9. x > y \/ (x = y /\ p > q)
    BY <2>7, <2>8
  <2> QED  BY <2>2, <2>3, <2>6, <2>9
<1>2. HotInv /\ AllFair /\ [HotNext]_hotVars =>
        [\A r \in Readers : Finishes(r) /\ reader'[r].base # Cold =>
           LET top == reader'[r].todo
               mine(p) == Sum(heat, reader[r].late, p)
           IN \A k \in 1 .. Len(top), q \in Posts :
                q \notin {top[m] : m \in 1 .. k} =>
                  \/ mine(top[k]) > reader'[r].base[q]
                  \/ mine(top[k]) = reader'[r].base[q] /\ top[k] > q]_hotVars
  BY <1>1
<1> QED  BY <1>2, HotHolds, FairHolds, PTL DEF HotSpec, RankIsEarned

-----------------------------------------------------------------------------
(* The follow graph.  Degrees is not inductive: Commit counts what an      *)
(* earlier statement found.  The row lock keeps that true (EdgeLocked): no *)
(* two transactions have changed the same edge, and the edge a transaction *)
(* has changed is still as it found it in the committed table.             *)

InTx(r) == pc[r] \in {"edited", "bumped", "open"}

EdgeLocked ==
  /\ \A r \in Requests : InTx(r) => RowsAffected(r)
  /\ \A r, s \in Requests : InTx(r) /\ InTx(s) /\ Edge(r) = Edge(s) => r = s

SocialInv == TypeOK /\ EdgeLocked /\ IsFiniteSet(follows) /\ Degrees

-----------------------------------------------------------------------------
(* Out- and in-degrees of a set of edges. *)

Out(S, u) == {e \in S : e[1] = u}
In(S, u) == {e \in S : e[2] = u}

LEMMA DegreeAdd ==
  ASSUME NEW S, IsFiniteSet(S), NEW a, NEW b, <<a, b>> \notin S, NEW u
  PROVE  /\ Cardinality(Out(S, u)) \in Nat /\ Cardinality(In(S, u)) \in Nat
         /\ Cardinality(Out(S \cup {<<a, b>>}, u)) =
              IF u = a THEN Cardinality(Out(S, u)) + 1 ELSE Cardinality(Out(S, u))
         /\ Cardinality(In(S \cup {<<a, b>>}, u)) =
              IF u = b THEN Cardinality(In(S, u)) + 1 ELSE Cardinality(In(S, u))
<1>1. IsFiniteSet(Out(S, u)) /\ IsFiniteSet(In(S, u))
  BY FS_Subset DEF Out, In
<1>2. <<a, b>> \notin Out(S, u) /\ <<a, b>> \notin In(S, u)
  BY DEF Out, In
<1>3. Out(S \cup {<<a, b>>}, u) = IF u = a THEN Out(S, u) \cup {<<a, b>>} ELSE Out(S, u)
  BY DEF Out
<1>4. In(S \cup {<<a, b>>}, u) = IF u = b THEN In(S, u) \cup {<<a, b>>} ELSE In(S, u)
  BY DEF In
<1>5. /\ Cardinality(Out(S, u) \cup {<<a, b>>}) = Cardinality(Out(S, u)) + 1
      /\ Cardinality(In(S, u) \cup {<<a, b>>}) = Cardinality(In(S, u)) + 1
  BY <1>1, <1>2, FS_AddElement
<1>6. Cardinality(Out(S, u)) \in Nat /\ Cardinality(In(S, u)) \in Nat
  BY <1>1, FS_CardinalityType
<1> QED  BY <1>3, <1>4, <1>5, <1>6

LEMMA DegreeRemove ==
  ASSUME NEW S, IsFiniteSet(S), NEW a, NEW b, <<a, b>> \in S, NEW u
  PROVE  /\ Cardinality(Out(S, u)) \in Nat /\ Cardinality(In(S, u)) \in Nat
         /\ Cardinality(Out(S \ {<<a, b>>}, u)) =
              IF u = a THEN Cardinality(Out(S, u)) - 1 ELSE Cardinality(Out(S, u))
         /\ Cardinality(In(S \ {<<a, b>>}, u)) =
              IF u = b THEN Cardinality(In(S, u)) - 1 ELSE Cardinality(In(S, u))
<1> DEFINE T == S \ {<<a, b>>}
<1>1. T \cup {<<a, b>>} = S /\ <<a, b>> \notin T
  OBVIOUS
<1>2. IsFiniteSet(T)
  BY FS_Subset
<1>3. /\ Cardinality(Out(T, u)) \in Nat /\ Cardinality(In(T, u)) \in Nat
      /\ Cardinality(Out(S, u)) =
           IF u = a THEN Cardinality(Out(T, u)) + 1 ELSE Cardinality(Out(T, u))
      /\ Cardinality(In(S, u)) =
           IF u = b THEN Cardinality(In(T, u)) + 1 ELSE Cardinality(In(T, u))
  <2> HIDE DEF T
  <2>1. /\ Cardinality(Out(T, u)) \in Nat /\ Cardinality(In(T, u)) \in Nat
        /\ Cardinality(Out(T \cup {<<a, b>>}, u)) =
             IF u = a THEN Cardinality(Out(T, u)) + 1 ELSE Cardinality(Out(T, u))
        /\ Cardinality(In(T \cup {<<a, b>>}, u)) =
             IF u = b THEN Cardinality(In(T, u)) + 1 ELSE Cardinality(In(T, u))
    BY <1>1, <1>2, DegreeAdd
  <2> QED  BY <2>1, <1>1
<1> HIDE DEF T
<1>4. /\ Cardinality(Out(S, u)) \in Nat /\ Cardinality(In(S, u)) \in Nat
      /\ Cardinality(Out(T, u)) =
           IF u = a THEN Cardinality(Out(S, u)) - 1 ELSE Cardinality(Out(S, u))
      /\ Cardinality(In(T, u)) =
           IF u = b THEN Cardinality(In(S, u)) - 1 ELSE Cardinality(In(S, u))
  BY <1>3
<1> QED  BY <1>4 DEF T

-----------------------------------------------------------------------------
(* Type correctness. *)

LEMMA SocialTypeStep == TypeOK /\ [Next]_vars => TypeOK'
<1> SUFFICES ASSUME TypeOK, [Next]_vars PROVE TypeOK'
  OBVIOUS
<1> USE DEF TypeOK, counters, cache, NoCall
<1>1. ASSUME NEW r \in Requests, CheckTarget(r) PROVE TypeOK'
  BY <1>1 DEF CheckTarget, At, Call
<1>2. ASSUME NEW r \in Requests, EditFollows(r) PROVE TypeOK'
  BY <1>2 DEF EditFollows, At
<1>3. ASSUME NEW r \in Requests, BumpFollowing(r) \/ BumpFollowers(r) PROVE TypeOK'
  BY <1>3 DEF BumpFollowing, BumpFollowers, At
<1>4. ASSUME NEW r \in Requests, Commit(r) PROVE TypeOK'
  <2>1. call[r] \in Call /\ call[r].from # call[r].to
    BY <1>4 DEF Commit
  <2>2. follows' \subseteq {e \in Users \X Users : e[1] # e[2]}
    BY <1>4, <2>1 DEF Commit, Edge, Call
  <2>3. following' \in [Users -> Int] /\ followers' \in [Users -> Int]
    BY <1>4, <2>1 DEF Commit, Call
  <2>4. /\ entry' \in [Users -> {"absent", "current", "stale", "overtaken", "forgotten"}]
        /\ fill' \in [Users -> {"none", "current", "stale"}]
    BY <1>4 DEF Commit, Outdated
  <2> QED  BY <1>4, <2>2, <2>3, <2>4 DEF Commit, At
<1>5. ASSUME NEW r \in Requests, Rollback(r) PROVE TypeOK'
  BY <1>5 DEF Rollback, Leave, At
<1>6. ASSUME NEW r \in Requests, AfterSocial(r) PROVE TypeOK'
  BY <1>6 DEF AfterSocial, KeepEntries, Leave, At
<1>7. ASSUME NEW u \in Users, ReadUser(u) \/ SetUser(u) \/ ExpireUser(u) PROVE TypeOK'
  BY <1>7 DEF ReadUser, SetUser, ExpireUser
<1>8. CASE UNCHANGED vars
  BY <1>8 DEF vars
<1> QED  BY <1>1, <1>2, <1>3, <1>4, <1>5, <1>6, <1>7, <1>8 DEF Next, Handle

-----------------------------------------------------------------------------
(* The row lock of the edge. *)

LEMMA LockStep == TypeOK /\ EdgeLocked /\ [Next]_vars => EdgeLocked'
<1> SUFFICES ASSUME TypeOK, EdgeLocked, [Next]_vars PROVE EdgeLocked'
  OBVIOUS
<1> USE DEF EdgeLocked, InTx, Edge, RowsAffected
\* A handler outside a transaction, or one that leaves it.
<1>1. ASSUME NEW r \in Requests, follows' = follows, ~InTx(r)',
             \A s \in Requests \ {r} : pc'[s] = pc[s] /\ call'[s] = call[s]
      PROVE  EdgeLocked'
  BY <1>1
<1>2. ASSUME NEW r \in Requests, EditFollows(r) PROVE EdgeLocked'
  <2>1. \A s \in Requests : s # r /\ InTx(s) => Edge(s) # Edge(r)
    BY <1>2 DEF EditFollows, Granted, WaitsFor, Wants, Locks
  <2>2. /\ follows' = follows /\ call' = call
        /\ \A s \in Requests \ {r} : pc'[s] = pc[s]
        /\ InTx(r)' => RowsAffected(r)
    BY <1>2 DEF EditFollows, At, TypeOK
  <2> QED  BY <2>1, <2>2
<1>3. ASSUME NEW r \in Requests, BumpFollowing(r) \/ BumpFollowers(r)
      PROVE  EdgeLocked'
  <2>1. /\ follows' = follows /\ call' = call /\ InTx(r)
        /\ \A s \in Requests \ {r} : pc'[s] = pc[s]
    BY <1>3 DEF BumpFollowing, BumpFollowers, At, TypeOK
  <2> QED  BY <2>1
<1>4. ASSUME NEW r \in Requests, Commit(r) PROVE EdgeLocked'
  <2>1. /\ call' = call /\ InTx(r) /\ ~InTx(r)'
        /\ \A s \in Requests \ {r} : pc'[s] = pc[s]
        /\ \A e : e # Edge(r) => (e \in follows' <=> e \in follows)
    BY <1>4 DEF Commit, At, TypeOK
  <2>2. \A s \in Requests : InTx(s)' => InTx(s) /\ Edge(s) # Edge(r)
    BY <2>1
  <2>3. \A s \in Requests : InTx(s)' => RowsAffected(s)'
    BY <2>1, <2>2
  <2> QED  BY <2>1, <2>2, <2>3
<1>5. CASE UNCHANGED <<follows, pc, call>>
  BY <1>5
<1>6. ASSUME NEW r \in Requests, CheckTarget(r) \/ Rollback(r) \/ AfterSocial(r)
      PROVE  EdgeLocked'
  BY <1>1, <1>6 DEF CheckTarget, Rollback, AfterSocial, Leave, At, TypeOK
<1> QED  BY <1>2, <1>3, <1>4, <1>5, <1>6 DEF Next, Handle, ReadUser, SetUser, ExpireUser, vars

-----------------------------------------------------------------------------
(* The counters. *)

LEMMA DegreesStep ==
  SocialInv /\ [Next]_vars => IsFiniteSet(follows)' /\ Degrees'
<1> SUFFICES ASSUME SocialInv, [Next]_vars PROVE IsFiniteSet(follows)' /\ Degrees'
  OBVIOUS
<1>1. CASE UNCHANGED <<follows, counters>>
  BY <1>1 DEF SocialInv, Degrees, counters
<1>2. ASSUME NEW r \in Requests, Commit(r)
      PROVE  IsFiniteSet(follows)' /\ Degrees'
  <2> DEFINE a == call[r].from
             b == call[r].to
  <2>1. call[r] \in Call /\ a \in Users /\ b \in Users /\ RowsAffected(r)
    BY <1>2 DEF SocialInv, TypeOK, EdgeLocked, InTx, Commit, Call, NoCall
  <2>2. \A u \in Users : /\ following[u] = Cardinality(Out(follows, u))
                         /\ followers[u] = Cardinality(In(follows, u))
    BY DEF SocialInv, Degrees, Out, In
  <2>3. following \in [Users -> Int] /\ followers \in [Users -> Int]
        /\ IsFiniteSet(follows)
    BY DEF SocialInv, TypeOK
  <2>4. SUFFICES /\ IsFiniteSet(follows')
                 /\ \A u \in Users : /\ following'[u] = Cardinality(Out(follows', u))
                                     /\ followers'[u] = Cardinality(In(follows', u))
    BY DEF Degrees, Out, In
  <2>5. CASE call[r].op = "follow"
    <3>1. /\ follows' = follows \cup {<<a, b>>} /\ <<a, b>> \notin follows
          /\ following' = [following EXCEPT ![a] = @ + 1]
          /\ followers' = [followers EXCEPT ![b] = @ + 1]
      BY <1>2, <2>1, <2>5 DEF Commit, Edge, RowsAffected
    <3>2. IsFiniteSet(follows')
      BY <3>1, <2>3, FS_AddElement
    <3>3. ASSUME NEW u \in Users
          PROVE  /\ following'[u] = Cardinality(Out(follows', u))
                 /\ followers'[u] = Cardinality(In(follows', u))
      <4> HIDE DEF a, b
      <4>1. /\ Cardinality(Out(follows', u)) =
                 IF u = a THEN Cardinality(Out(follows, u)) + 1 ELSE Cardinality(Out(follows, u))
            /\ Cardinality(In(follows', u)) =
                 IF u = b THEN Cardinality(In(follows, u)) + 1 ELSE Cardinality(In(follows, u))
        BY <3>1, <2>3, DegreeAdd
      <4> QED  BY <3>1, <4>1, <2>2, <2>3
    <3> QED  BY <3>2, <3>3
  <2>6. CASE call[r].op # "follow"
    <3>1. /\ follows' = follows \ {<<a, b>>} /\ <<a, b>> \in follows
          /\ following' = [following EXCEPT ![a] = @ + -1]
          /\ followers' = [followers EXCEPT ![b] = @ + -1]
      BY <1>2, <2>1, <2>6 DEF Commit, Edge, RowsAffected
    <3>2. IsFiniteSet(follows')
      BY <3>1, <2>3, FS_RemoveElement
    <3>3. ASSUME NEW u \in Users
          PROVE  /\ following'[u] = Cardinality(Out(follows', u))
                 /\ followers'[u] = Cardinality(In(follows', u))
      <4> HIDE DEF a, b
      <4>1. /\ Cardinality(Out(follows', u)) =
                 IF u = a THEN Cardinality(Out(follows, u)) - 1 ELSE Cardinality(Out(follows, u))
            /\ Cardinality(In(follows', u)) =
                 IF u = b THEN Cardinality(In(follows, u)) - 1 ELSE Cardinality(In(follows, u))
        BY <3>1, <2>3, DegreeRemove
      <4> QED  BY <3>1, <4>1, <2>2, <2>3
    <3> QED  BY <3>2, <3>3
  <2> QED  BY <2>5, <2>6
<1> QED  BY <1>1, <1>2 DEF Next, Handle, CheckTarget, EditFollows, BumpFollowing,
            BumpFollowers, Rollback, AfterSocial, ReadUser, SetUser, ExpireUser, vars, counters

-----------------------------------------------------------------------------
(* The cache. *)

LEMMA StaleStep == TypeOK /\ StaleUserCovered /\ [Next]_vars => StaleUserCovered'
<1> SUFFICES ASSUME TypeOK, StaleUserCovered, [Next]_vars PROVE StaleUserCovered'
  OBVIOUS
<1> USE DEF TypeOK, StaleUserCovered, Both, At
\* Nobody leaves "after", and nothing becomes stale.
<1>1. ASSUME \A u \in Users : entry'[u] = "stale" => entry[u] = "stale",
             \A r \in Requests : pc[r] = "after" => pc'[r] = "after" /\ call'[r] = call[r]
      PROVE  StaleUserCovered'
  BY <1>1
<1>2. ASSUME NEW r \in Requests, Commit(r) PROVE StaleUserCovered'
  <2>1. /\ \A u \in Users : entry'[u] = "stale" => entry[u] = "stale" \/ u \in Both(r)
        /\ pc'[r] = "after" /\ call' = call
        /\ \A s \in Requests : pc[s] = "after" => pc'[s] = "after"
    BY <1>2 DEF Commit, Outdated
  <2> QED  BY <2>1
<1>3. ASSUME NEW r \in Requests, AfterSocial(r) PROVE StaleUserCovered'
  <2>1. /\ \A u \in Users : entry'[u] = "stale" => entry[u] = "stale" /\ u \notin Both(r)
        /\ \A s \in Requests \ {r} : pc'[s] = pc[s] /\ call'[s] = call[s]
    BY <1>3 DEF AfterSocial, KeepEntries, Leave
  <2> QED  BY <2>1
<1>4. ASSUME NEW r \in Requests,
             \/ CheckTarget(r) \/ EditFollows(r) \/ BumpFollowing(r) \/ BumpFollowers(r)
             \/ Rollback(r)
      PROVE  StaleUserCovered'
  <2>1. entry' = entry /\ pc[r] # "after"
        /\ \A s \in Requests \ {r} : pc'[s] = pc[s] /\ call'[s] = call[s]
    BY <1>4 DEF CheckTarget, EditFollows, BumpFollowing, BumpFollowers, Rollback, Leave, cache
  <2> QED  BY <1>1, <2>1
<1>5. ASSUME NEW u \in Users, ReadUser(u) \/ SetUser(u) \/ ExpireUser(u)
      PROVE  StaleUserCovered'
  BY <1>1, <1>5 DEF ReadUser, SetUser, ExpireUser
<1>6. CASE UNCHANGED vars
  BY <1>6 DEF vars, cache
<1> QED  BY <1>2, <1>3, <1>4, <1>5, <1>6 DEF Next, Handle

-----------------------------------------------------------------------------
LEMMA SocialInitInv == Init => SocialInv
<1> SUFFICES ASSUME Init PROVE SocialInv
  OBVIOUS
<1>1. TypeOK /\ EdgeLocked
  BY DEF Init, TypeOK, EdgeLocked, InTx, NoCall
<1>2. IsFiniteSet(follows) /\ Degrees
  <2>1. \A u : {e \in {} : e[1] = u} = {} /\ {e \in {} : e[2] = u} = {}
    OBVIOUS
  <2> QED  BY <2>1, FS_EmptySet DEF Init, Degrees
<1> QED  BY <1>1, <1>2 DEF SocialInv

LEMMA SocialHolds == Spec => []SocialInv
<1>1. SocialInv /\ [Next]_vars => SocialInv'
  BY SocialTypeStep, LockStep, DegreesStep DEF SocialInv
<1> QED  BY <1>1, SocialInitInv, PTL DEF Spec

\* Type correctness of the handlers of Follow and Unfollow.
THEOREM SocialType == Spec => []TypeOK
<1>1. SocialInv => TypeOK
  BY DEF SocialInv
<1> QED  BY <1>1, SocialHolds, PTL

\* following_count and follower_count are the degrees of the follow graph, which
\* the transactions of SocialRepo.Follow and Unfollow keep so.
THEOREM SocialDegrees == Spec => []Degrees
<1>1. SocialInv => Degrees
  BY DEF SocialInv
<1> QED  BY <1>1, SocialHolds, PTL

\* A stale entry of a user waits for the DEL of afterSocial, unless a reader was
\* overtaken or a DEL was lost.
THEOREM SocialCache == Spec => []StaleUserCovered
<1>1. Init => StaleUserCovered
  BY DEF Init, StaleUserCovered
<1> QED  BY <1>1, StaleStep, SocialType, PTL DEF Spec
=============================================================================
