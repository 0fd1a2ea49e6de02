-------------------------- MODULE InteractionProofs --------------------------
(***************************************************************************)
(* The outbox ledger of the API, for every set of users, posts and         *)
(* handlers and every bound: LikeLedger and CommentNeverOver are           *)
(* invariants of Interaction.                                              *)
(*                                                                         *)
(* Neither is inductive.  Commit adds an event to the outbox and a row to  *)
(* a table; that the two match rests on what the open transaction did      *)
(* earlier, under its row lock, and on ids that nobody else was given.     *)
(* These are the parts of IInv.                                            *)
(*                                                                         *)
(* Then the order of ids: LikeIdOrder, and a like of its own before every  *)
(* unlike (Paired), which is what a reader of the counters needs.          *)
(***************************************************************************)
EXTENDS Interaction, CountEventsProofs

\* Tables are finite sets of rows.
Finite == IsFiniteSet(likes) /\ IsFiniteSet(comments) /\ IsFiniteSet(outbox)

\* A handler's open transaction.
Open(r) == pc[r] = "open"
LikeRow(r) == <<call[r].post, call[r].user>>

\* Outbox ids come from the counter, and an uncommitted one is its owner's.
EventIds ==
  /\ \A r \in Requests :
       pc[r] \in {"checked", "read"} => call[r].event = {}
  /\ \A e \in outbox : e.id < nextEvent
  /\ \A r \in Requests : Open(r) => \A e \in call[r].event :
       /\ e.id < nextEvent
       /\ \A f \in outbox : f.id # e.id
  /\ \A r, s \in Requests : r # s /\ Open(r) /\ Open(s) =>
       \A e \in call[r].event, f \in call[s].event : e.id # f.id

\* The uncommitted event says what the commit will do to the table.
OneEvent(r, f, d) ==
  \E e \in call[r].event : /\ call[r].event = {e}
                           /\ e.field = f
                           /\ e.post = call[r].post
                           /\ e.delta = d

LikeEvent(r) ==
  /\ call[r].op = "like" =>
       IF LikeRow(r) \in likes THEN call[r].event = {}
                               ELSE OneEvent(r, "like_count", 1)
  /\ call[r].op = "unlike" =>
       IF LikeRow(r) \in likes THEN OneEvent(r, "like_count", -1)
                               ELSE call[r].event = {}

CommentEvent(r) ==
  /\ call[r].op = "comment" => OneEvent(r, "comment_count", 1)
  /\ call[r].op = "delete_comment" => OneEvent(r, "comment_count", -1)

LikeEvents == \A r \in Requests : Open(r) => LikeEvent(r)
CommentEvents == \A r \in Requests : Open(r) => CommentEvent(r)

\* The row lock: open transactions on likes hold different rows.
LikeLocks ==
  \A r, s \in Requests :
    /\ r # s /\ Open(r) /\ Open(s)
    /\ call[r].op \in {"like", "unlike"}
    /\ call[s].op \in {"like", "unlike"}
    => LikeRow(r) # LikeRow(s)

\* Comment ids are unique; a deleting handler knows the post of its comment.
CommentIds ==
  /\ \A c \in comments : c.id < nextComment
  /\ \A c, d \in comments : c.id = d.id => c = d
  /\ \A r \in Requests : Open(r) /\ call[r].op = "comment" =>
       /\ call[r].comment < nextComment
       /\ \A c \in comments : c.id # call[r].comment
  /\ \A r, s \in Requests :
       /\ r # s /\ Open(r) /\ Open(s)
       /\ call[r].op = "comment" /\ call[s].op = "comment"
       => call[r].comment # call[s].comment
  /\ \A r \in Requests :
       pc[r] # "idle" /\ call[r].op = "delete_comment" =>
         /\ call[r].comment < nextComment
         /\ \A c \in comments : c.id = call[r].comment => c.post = call[r].post
         /\ \A s \in Requests : Open(s) /\ call[s].op = "comment" =>
              call[s].comment # call[r].comment

Books == Finite /\ EventIds /\ LikeEvents /\ LikeLocks
               /\ CommentEvents /\ CommentIds

IInv == TypeOK /\ Books /\ LikeLedger /\ CommentNeverOver

-----------------------------------------------------------------------------
LEMMA TypeInit == Init => TypeOK
BY InteractionAssumption DEF Init, TypeOK

\* Every step keeps the types.
LEMMA TypeNext == TypeOK /\ [Next]_vars => TypeOK'
<1> SUFFICES ASSUME TypeOK, [Next]_vars PROVE TypeOK'
  OBVIOUS
<1> USE DEF TypeOK, redis, tables
<1>1. ASSUME NEW r \in Requests, CheckPost(r) PROVE TypeOK'
  BY <1>1 DEF CheckPost, Accept, Call, Ops, NoCall
<1>2. ASSUME NEW r \in Requests, CheckComment(r) PROVE TypeOK'
  BY <1>2 DEF CheckComment, Accept, Call, Ops, NoCall, Comment
<1>3. ASSUME NEW r \in Requests, InsertLike(r) PROVE TypeOK'
  BY <1>3 DEF InsertLike, Opens, Enqueue, NoEnqueue, Call, NoCall, CountEvent, Event, Fields
<1>4. ASSUME NEW r \in Requests, DeleteLike(r) PROVE TypeOK'
  BY <1>4 DEF DeleteLike, Opens, Enqueue, NoEnqueue, Call, NoCall, CountEvent, Event, Fields
<1>5. ASSUME NEW r \in Requests, InsertComment(r) PROVE TypeOK'
  <2> DEFINE e == Event(nextEvent, "comment_count", call[r].post, 1)
  <2>1. call[r] \in Call /\ call[r] # NoCall
    BY <1>5 DEF InsertComment, Opens
  <2>2. e \in CountEvent
    BY <2>1 DEF Call, CountEvent, Event, Fields
  <2>3. [call[r] EXCEPT !.event = {e}, !.comment = nextComment] \in Call
    BY <2>1, <2>2 DEF Call
  <2>4. [call[r] EXCEPT !.event = {e}, !.comment = nextComment] # NoCall
    BY <2>1 DEF Call, NoCall, Ops
  <2>5. call' = [call EXCEPT ![r] =
                   [call[r] EXCEPT !.event = {e}, !.comment = nextComment]]
    BY <1>5 DEF InsertComment
  <2>6. /\ pc[r] = "checked" /\ pc' = [pc EXCEPT ![r] = "open"]
        /\ nextEvent' = nextEvent + 1 /\ nextComment' = nextComment + 1
        /\ UNCHANGED <<live, likes, comments, outbox, cache, heat>>
    BY <1>5 DEF InsertComment, Opens
  <2> HIDE DEF e
  <2> QED
    BY <2>1, <2>3, <2>4, <2>5, <2>6
<1>6. ASSUME NEW r \in Requests, ReadComment(r) PROVE TypeOK'
  BY <1>6 DEF ReadComment
<1>7. ASSUME NEW r \in Requests, DeleteComment(r) PROVE TypeOK'
  BY <1>7 DEF DeleteComment, Opens, Enqueue, Call, NoCall, CountEvent, Event, Fields
<1>8. ASSUME NEW r \in Requests, Commit(r) PROVE TypeOK'
  <2>1. call[r] \in Call
    BY <1>8 DEF Commit, CommitRows
  <2>2. likes' \subseteq Posts \X Users
    BY <1>8, <2>1 DEF Commit, CommitRows, Call
  <2>3. comments' \subseteq Comment
    BY <1>8, <2>1 DEF Commit, CommitRows, Call, Comment
  <2>4. outbox' \subseteq CountEvent
    BY <1>8, <2>1 DEF Commit, CommitRows, Call
  <2> QED
    BY <1>8, <2>2, <2>3, <2>4 DEF Commit, CommitRows
<1>9. ASSUME NEW r \in Requests, Abort(r) PROVE TypeOK'
  BY <1>9 DEF Abort
<1>10. ASSUME NEW r \in Requests, AfterInteraction(r) PROVE TypeOK'
  BY <1>10, InteractionAssumption DEF AfterInteraction, Saturate, Heat, Call, NoCall
<1>11. ASSUME NEW p \in Posts, DeletePost(p) PROVE TypeOK'
  BY <1>11, InteractionAssumption DEF DeletePost
<1>12. ASSUME NEW p \in Posts, ChangeCache(p) PROVE TypeOK'
  BY <1>12 DEF ChangeCache
<1>13. CASE UNCHANGED vars
  BY <1>13 DEF vars
<1> QED
  BY <1>1, <1>2, <1>3, <1>4, <1>5, <1>6, <1>7, <1>8, <1>9, <1>10, <1>11,
     <1>12, <1>13 DEF Next, Handler

(***************************************************************************)
(* Type correctness of the API's tables, cache, hot list and handlers.     *)
(***************************************************************************)
THEOREM InteractionType == Spec => []TypeOK
BY TypeInit, TypeNext, PTL DEF Spec

-----------------------------------------------------------------------------
(***************************************************************************)
(* What the four row writes have in common: they open the transaction of   *)
(* one handler, whose new event, if any, carries the next outbox id.       *)
(***************************************************************************)
OpensTx(r) ==
  /\ pc[r] \in {"checked", "read"} /\ pc'[r] = "open"
  /\ \A s \in Requests \ {r} : pc'[s] = pc[s] /\ call'[s] = call[s]
  /\ call'[r].op = call[r].op
  /\ call'[r].user = call[r].user
  /\ call'[r].post = call[r].post
  /\ UNCHANGED <<likes, comments, outbox>>
  /\ \/ call'[r].event = call[r].event /\ nextEvent' = nextEvent
     \/ /\ \E f, d : call'[r].event = {Event(nextEvent, f, call[r].post, d)}
        /\ nextEvent' = nextEvent + 1

LEMMA OpensEffect ==
  ASSUME TypeOK, NEW r \in Requests,
         InsertLike(r) \/ DeleteLike(r) \/ InsertComment(r) \/ DeleteComment(r)
  PROVE  /\ OpensTx(r)
         /\ ~InsertComment(r) => /\ call'[r].comment = call[r].comment
                                 /\ nextComment' = nextComment
<1> USE DEF TypeOK, OpensTx, Opens, redis, Call, NoCall
<1>1. CASE InsertLike(r)
  BY <1>1 DEF InsertLike, Enqueue, NoEnqueue, InsertComment
<1>2. CASE DeleteLike(r)
  BY <1>2 DEF DeleteLike, Enqueue, NoEnqueue, InsertComment
<1>3. CASE InsertComment(r)
  BY <1>3 DEF InsertComment
<1>4. CASE DeleteComment(r)
  BY <1>4 DEF DeleteComment, Enqueue, InsertComment
<1> QED  BY <1>1, <1>2, <1>3, <1>4

\* Ids stay apart when a transaction opens.
LEMMA OpensEventIds ==
  ASSUME TypeOK, EventIds, NEW r \in Requests, OpensTx(r)
  PROVE  EventIds'
<1>1. nextEvent \in Nat /\ \A e \in outbox : e.id \in Nat
  BY DEF TypeOK, CountEvent
<1>2. \A s \in Requests : pc[s] # "idle" =>
        \A e \in call[s].event : e.id \in Nat
  BY DEF TypeOK, Call, CountEvent
<1>3. \A e \in call'[r].event : e.id = nextEvent /\ nextEvent' = nextEvent + 1
  BY DEF OpensTx, EventIds, Event
<1>4. nextEvent' \in Nat /\ nextEvent <= nextEvent'
  BY <1>1 DEF OpensTx
<1>5. \A e \in outbox' : e.id < nextEvent'
  BY <1>1, <1>4 DEF OpensTx, EventIds
<1>6. \A s \in Requests : Open(s)' => \A e \in call'[s].event :
        e.id < nextEvent' /\ \A f \in outbox' : f.id # e.id
  <2> SUFFICES ASSUME NEW s \in Requests, Open(s)', NEW e \in call'[s].event
               PROVE  e.id < nextEvent' /\ \A f \in outbox' : f.id # e.id
    OBVIOUS
  <2>1. CASE s = r
    BY <2>1, <1>1, <1>3 DEF OpensTx, EventIds
  <2>2. CASE s # r
    BY <2>2, <1>1, <1>2, <1>4 DEF OpensTx, EventIds, Open
  <2> QED  BY <2>1, <2>2
<1>7. \A s, t \in Requests : s # t /\ Open(s)' /\ Open(t)' =>
        \A e \in call'[s].event, f \in call'[t].event : e.id # f.id
  <2> SUFFICES ASSUME NEW s \in Requests, NEW t \in Requests, s # t,
                      Open(s)', Open(t)',
                      NEW e \in call'[s].event, NEW f \in call'[t].event
               PROVE  e.id # f.id
    OBVIOUS
  <2>1. CASE s = r
    BY <2>1, <1>1, <1>2, <1>3 DEF OpensTx, EventIds, Open
  <2>2. CASE t = r
    BY <2>2, <1>1, <1>2, <1>3 DEF OpensTx, EventIds, Open
  <2>3. CASE s # r /\ t # r
    BY <2>3 DEF OpensTx, EventIds, Open
  <2> QED  BY <2>1, <2>2, <2>3
<1>8. \A s \in Requests :
        pc'[s] \in {"checked", "read"} => call'[s].event = {}
  BY DEF OpensTx, EventIds
<1> QED  BY <1>5, <1>6, <1>7, <1>8 DEF EventIds

\* The row lock keeps open transactions on likes apart.
LEMMA RowFreeLikes ==
  ASSUME NEW r \in Requests, RowFree(r), call[r].op \in {"like", "unlike"},
         NEW s \in Requests \ {r}, Open(s), call[s].op \in {"like", "unlike"}
  PROVE  LikeRow(s) # LikeRow(r)
<1>1. Row(call[s]) # Row(call[r])
  BY DEF RowFree, Open
<1>2. /\ Row(call[s]) = <<"likes", call[s].post, call[s].user>>
      /\ Row(call[r]) = <<"likes", call[r].post, call[r].user>>
  BY DEF Row
<1> QED  BY <1>1, <1>2 DEF LikeRow

\* The other handlers' events stay right while the tables do not change.
LEMMA OtherEvents ==
  ASSUME LikeEvents, CommentEvents, NEW r \in Requests, OpensTx(r),
         NEW s \in Requests \ {r}, Open(s)'
  PROVE  LikeEvent(s)' /\ CommentEvent(s)'
<1>1. Open(s) /\ call'[s] = call[s] /\ likes' = likes
  BY DEF OpensTx, Open
<1>2. LikeEvent(s) /\ CommentEvent(s)
  BY <1>1 DEF LikeEvents, CommentEvents
<1> QED  BY <1>1, <1>2 DEF LikeEvent, CommentEvent, OneEvent, LikeRow

LEMMA BooksInit == Init => Books
BY FS_EmptySet DEF Init, Books, Finite, EventIds, LikeEvents, LikeLocks,
                   CommentEvents, CommentIds, Open

\* The books are kept by every step.
LEMMA BooksNext == TypeOK /\ Books /\ [Next]_vars => Books'
<1> SUFFICES ASSUME TypeOK, Books, [Next]_vars PROVE Books'
  OBVIOUS
<1> USE DEF Books, redis, tables
<1>1. ASSUME NEW r \in Requests, CheckPost(r) PROVE Books'
  <2>1. Finite'
    BY <1>1 DEF Finite, CheckPost, Accept, TypeOK, Call, NoCall
  <2>2. EventIds'
    BY <1>1 DEF EventIds, Open, CheckPost, Accept, TypeOK, Call, NoCall
  <2>3. LikeEvents'
    BY <1>1 DEF LikeEvents, LikeEvent, OneEvent, Open, LikeRow, CheckPost,
       Accept, TypeOK, Call, NoCall
  <2>4. LikeLocks'
    BY <1>1 DEF LikeLocks, Open, LikeRow, CheckPost, Accept, TypeOK, Call,
       NoCall
  <2>5. CommentEvents'
    BY <1>1 DEF CommentEvents, CommentEvent, OneEvent, Open, CheckPost,
       Accept, TypeOK, Call, NoCall
  <2>6. CommentIds'
    BY <1>1 DEF CommentIds, Open, CheckPost, Accept, TypeOK, Call, NoCall
  <2> QED
    BY <2>1, <2>2, <2>3, <2>4, <2>5, <2>6
<1>2. ASSUME NEW r \in Requests, CheckComment(r) PROVE Books'
  <2>1. Finite'
    BY <1>2 DEF Finite, CheckComment, Accept, Comment, TypeOK, Call, NoCall
  <2>2. EventIds'
    BY <1>2 DEF EventIds, Open, CheckComment, Accept, Comment, TypeOK, Call,
       NoCall
  <2>3. LikeEvents'
    BY <1>2 DEF LikeEvents, LikeEvent, OneEvent, Open, LikeRow, CheckComment,
       Accept, Comment, TypeOK, Call, NoCall
  <2>4. LikeLocks'
    BY <1>2 DEF LikeLocks, Open, LikeRow, CheckComment, Accept, Comment,
       TypeOK, Call, NoCall
  <2>5. CommentEvents'
    BY <1>2 DEF CommentEvents, CommentEvent, OneEvent, Open, CheckComment,
       Accept, Comment, TypeOK, Call, NoCall
  <2>6. CommentIds'
    BY <1>2 DEF CommentIds, Open, CheckComment, Accept, Comment, TypeOK,
       Call, NoCall
  <2> QED
    BY <2>1, <2>2, <2>3, <2>4, <2>5, <2>6
<1>3. ASSUME NEW r \in Requests, InsertLike(r) PROVE Books'
  <2>7. OpensTx(r)
    BY <1>3, OpensEffect
  <2>8. call'[r].comment = call[r].comment /\ nextComment' = nextComment
    BY <1>3, OpensEffect DEF InsertLike, DeleteLike, DeleteComment, InsertComment, Opens
  <2>9. call[r].op = "like" /\ call'[r].event =
           IF LikeRow(r) \in likes THEN {} ELSE {Event(nextEvent, "like_count", call[r].post, 1)}
    <3>1. pc[r] = "checked" /\ call[r].op = "like"
      BY <1>3 DEF InsertLike, Opens
    <3>2. call[r].event = {}
      BY <3>1 DEF EventIds, Open
    <3>3. DOMAIN call = Requests /\ call[r] \in Call
      BY <3>1 DEF TypeOK, NoCall, Call
    <3>4. CASE LikeRow(r) \in likes
      <4>1. call' = call
        BY <1>3, <3>4 DEF InsertLike, NoEnqueue, LikeRow
      <4> QED  BY <3>1, <3>2, <3>4, <4>1
    <3>5. CASE LikeRow(r) \notin likes
      <4>1. PICK e : e = {Event(nextEvent, "like_count", call[r].post, 1)}
        OBVIOUS
      <4>2. call'[r] = [call[r] EXCEPT !.event = e]
        BY <1>3, <3>3, <3>5, <4>1 DEF InsertLike, Enqueue, LikeRow
      <4>3. call'[r].event = e
        BY <3>3, <4>2 DEF Call
      <4> QED  BY <3>1, <3>5, <4>1, <4>3
    <3> QED  BY <3>4, <3>5
  <2>10. LikeEvent(r)' /\ CommentEvent(r)'
    <3>1. LikeRow(r)' = LikeRow(r) /\ likes' = likes /\ call'[r].op = call[r].op
          /\ call'[r].post = call[r].post
      BY <2>7 DEF OpensTx, LikeRow
    <3>2. CASE LikeRow(r) \in likes
      BY <3>1, <3>2, <2>9 DEF LikeEvent, CommentEvent, OneEvent, Event
    <3>3. CASE LikeRow(r) \notin likes
      <4>1. call'[r].event = {Event(nextEvent, "like_count", call[r].post, 1)}
        BY <2>9, <3>3
      <4>2. OneEvent(r, "like_count", 1)'
        BY <3>1, <4>1 DEF OneEvent, Event
      <4> QED  BY <3>1, <3>3, <2>9, <4>2 DEF LikeEvent, CommentEvent
    <3> QED  BY <3>2, <3>3
  <2>1. Finite'
    BY <2>7 DEF OpensTx, Finite
  <2>2. EventIds'
    BY <2>7, OpensEventIds
  <2>3. LikeEvents'
    BY <2>10, <2>7, OtherEvents DEF LikeEvents
  <2>4. LikeLocks'
    <3>1. \A s \in Requests \ {r} :
            Open(s) /\ call[s].op \in {"like", "unlike"} => LikeRow(s) # LikeRow(r)
      BY <2>9, <1>3, RowFreeLikes DEF InsertLike
    <3>2. \A s \in Requests : /\ LikeRow(s)' = LikeRow(s) /\ call'[s].op = call[s].op
                              /\ Open(s)' => s = r \/ Open(s)
      BY <2>7 DEF OpensTx, LikeRow, Open
    <3>3. call[r].op \in {"like", "unlike"}
      BY <2>9
    <3> QED  BY <3>1, <3>2, <3>3 DEF LikeLocks
  <2>5. CommentEvents'
    BY <2>10, <2>7, OtherEvents DEF CommentEvents
  <2>6. CommentIds'
    BY <2>7, <2>8, <1>3 DEF CommentIds, Open, OpensTx, InsertLike, Opens
  <2> QED
    BY <2>1, <2>2, <2>3, <2>4, <2>5, <2>6
<1>4. ASSUME NEW r \in Requests, DeleteLike(r) PROVE Books'
  <2>7. OpensTx(r)
    BY <1>4, OpensEffect
  <2>8. call'[r].comment = call[r].comment /\ nextComment' = nextComment
    BY <1>4, OpensEffect DEF InsertLike, DeleteLike, DeleteComment, InsertComment, Opens
  <2>9. call[r].op = "unlike" /\ call'[r].event =
           IF LikeRow(r) \in likes THEN {Event(nextEvent, "like_count", call[r].post, -1)} ELSE {}
    <3>1. pc[r] = "checked" /\ call[r].op = "unlike"
      BY <1>4 DEF DeleteLike, Opens
    <3>2. call[r].event = {}
      BY <3>1 DEF EventIds, Open
    <3>3. DOMAIN call = Requests /\ call[r] \in Call
      BY <3>1 DEF TypeOK, NoCall, Call
    <3>4. CASE LikeRow(r) \notin likes
      <4>1. call' = call
        BY <1>4, <3>4 DEF DeleteLike, NoEnqueue, LikeRow
      <4> QED  BY <3>1, <3>2, <3>4, <4>1
    <3>5. CASE LikeRow(r) \in likes
      <4>1. PICK e : e = {Event(nextEvent, "like_count", call[r].post, -1)}
        OBVIOUS
      <4>2. call'[r] = [call[r] EXCEPT !.event = e]
        BY <1>4, <3>3, <3>5, <4>1 DEF DeleteLike, Enqueue, LikeRow
      <4>3. call'[r].event = e
        BY <3>3, <4>2 DEF Call
      <4> QED  BY <3>1, <3>5, <4>1, <4>3
    <3> QED  BY <3>4, <3>5
  <2>10. LikeEvent(r)' /\ CommentEvent(r)'
    <3>1. LikeRow(r)' = LikeRow(r) /\ likes' = likes /\ call'[r].op = call[r].op
          /\ call'[r].post = call[r].post
      BY <2>7 DEF OpensTx, LikeRow
    <3>2. CASE LikeRow(r) \in likes
      <4>1. call'[r].event = {Event(nextEvent, "like_count", call[r].post, -1)}
        BY <2>9, <3>2
      <4>2. OneEvent(r, "like_count", -1)'
        BY <3>1, <4>1 DEF OneEvent, Event
      <4> QED  BY <3>1, <3>2, <2>9, <4>2 DEF LikeEvent, CommentEvent
    <3>3. CASE LikeRow(r) \notin likes
      BY <3>1, <3>3, <2>9 DEF LikeEvent, CommentEvent, OneEvent, Event
    <3> QED  BY <3>2, <3>3
  <2>1. Finite'
    BY <2>7 DEF OpensTx, Finite
  <2>2. EventIds'
    BY <2>7, OpensEventIds
  <2>3. LikeEvents'
    BY <2>10, <2>7, OtherEvents DEF LikeEvents
  <2>4. LikeLocks'
    <3>1. \A s \in Requests \ {r} :
            Open(s) /\ call[s].op \in {"like", "unlike"} => LikeRow(s) # LikeRow(r)
      BY <2>9, <1>4, RowFreeLikes DEF DeleteLike
    <3> QED
      BY <3>1, <2>7, <2>9 DEF LikeLocks, Open, LikeRow, OpensTx
  <2>5. CommentEvents'
    BY <2>10, <2>7, OtherEvents DEF CommentEvents
  <2>6. CommentIds'
    BY <2>7, <2>8, <1>4 DEF CommentIds, Open, OpensTx, DeleteLike, Opens
  <2> QED
    BY <2>1, <2>2, <2>3, <2>4, <2>5, <2>6
<1>5. ASSUME NEW r \in Requests, InsertComment(r) PROVE Books'
  <2>7. OpensTx(r)
    BY <1>5, OpensEffect
  <2>9. call[r].op = "comment" /\ call'[r].event =
           {Event(nextEvent, "comment_count", call[r].post, 1)}
    BY <1>5 DEF InsertComment, Opens, LikeRow, EventIds, TypeOK, Call, NoCall
  <2>10. LikeEvent(r)' /\ CommentEvent(r)'
    BY <2>7, <2>9 DEF OpensTx, LikeEvent, CommentEvent, OneEvent, LikeRow, Event
  <2>1. Finite'
    BY <2>7 DEF OpensTx, Finite
  <2>2. EventIds'
    BY <2>7, OpensEventIds
  <2>3. LikeEvents'
    BY <2>10, <2>7, OtherEvents DEF LikeEvents
  <2>4. LikeLocks'
    BY <2>7, <2>9 DEF LikeLocks, Open, LikeRow, OpensTx
  <2>5. CommentEvents'
    BY <2>10, <2>7, OtherEvents DEF CommentEvents
  <2>6. CommentIds'
    BY <2>7, <1>5 DEF CommentIds, Open, OpensTx, InsertComment, Opens,
       TypeOK, Comment, Call, NoCall
  <2> QED
    BY <2>1, <2>2, <2>3, <2>4, <2>5, <2>6
<1>6. ASSUME NEW r \in Requests, ReadComment(r) PROVE Books'
  <2>1. Finite'
    BY <1>6 DEF Finite, ReadComment, TypeOK
  <2>2. EventIds'
    BY <1>6 DEF EventIds, Open, ReadComment, TypeOK
  <2>3. LikeEvents'
    BY <1>6 DEF LikeEvents, LikeEvent, OneEvent, Open, LikeRow, ReadComment,
       TypeOK
  <2>4. LikeLocks'
    BY <1>6 DEF LikeLocks, Open, LikeRow, ReadComment, TypeOK
  <2>5. CommentEvents'
    BY <1>6 DEF CommentEvents, CommentEvent, OneEvent, Open, ReadComment,
       TypeOK
  <2>6. CommentIds'
    BY <1>6 DEF CommentIds, Open, ReadComment, TypeOK
  <2> QED
    BY <2>1, <2>2, <2>3, <2>4, <2>5, <2>6
<1>7. ASSUME NEW r \in Requests, DeleteComment(r) PROVE Books'
  <2>7. OpensTx(r)
    BY <1>7, OpensEffect
  <2>8. call'[r].comment = call[r].comment /\ nextComment' = nextComment
    BY <1>7, OpensEffect DEF InsertLike, DeleteLike, DeleteComment, InsertComment, Opens
  <2>9. call[r].op = "delete_comment" /\ call'[r].event =
           {Event(nextEvent, "comment_count", call[r].post, -1)}
    BY <1>7 DEF DeleteComment, Opens, Enqueue, LikeRow, EventIds, TypeOK,
       Call, NoCall
  <2>10. LikeEvent(r)' /\ CommentEvent(r)'
    BY <2>7, <2>9 DEF OpensTx, LikeEvent, CommentEvent, OneEvent, LikeRow, Event
  <2>1. Finite'
    BY <2>7 DEF OpensTx, Finite
  <2>2. EventIds'
    BY <2>7, OpensEventIds
  <2>3. LikeEvents'
    BY <2>10, <2>7, OtherEvents DEF LikeEvents
  <2>4. LikeLocks'
    BY <2>7, <2>9 DEF LikeLocks, Open, LikeRow, OpensTx
  <2>5. CommentEvents'
    BY <2>10, <2>7, OtherEvents DEF CommentEvents
  <2>6. CommentIds'
    BY <2>7, <2>8, <1>7 DEF CommentIds, Open, OpensTx, DeleteComment, Opens
  <2> QED
    BY <2>1, <2>2, <2>3, <2>4, <2>5, <2>6
<1>8. ASSUME NEW r \in Requests, Commit(r) PROVE Books'
  <2>1. Finite'
    <3>1. IsFiniteSet(call[r].event)
      <4>1. call[r].op \in Ops /\ LikeEvent(r) /\ CommentEvent(r)
        BY <1>8 DEF Commit, CommitRows, TypeOK, Call, NoCall, LikeEvents, CommentEvents, Open
      <4>2. call[r].event = {} \/ \E e : call[r].event = {e}
        BY <4>1 DEF Ops, LikeEvent, CommentEvent, OneEvent
      <4> QED  BY <4>2, FS_EmptySet, FS_Singleton
    <3>2. IsFiniteSet(outbox')
      BY <3>1, <1>8, FS_Union DEF Commit, CommitRows, Finite
    <3>3. IsFiniteSet(likes')
      BY <1>8, FS_AddElement, FS_RemoveElement DEF Commit, CommitRows, Finite
    <3>4. IsFiniteSet(comments')
      BY <1>8, FS_AddElement, FS_Subset DEF Commit, CommitRows, Finite
    <3> QED  BY <3>2, <3>3, <3>4 DEF Finite
  <2>2. EventIds'
    BY <1>8 DEF EventIds, Open, Commit, CommitRows, Comment, CountEvent, TypeOK, Call,
       NoCall
  <2>3. LikeEvents'
    <3> SUFFICES ASSUME NEW s \in Requests, Open(s)' PROVE LikeEvent(s)'
      BY DEF LikeEvents
    <3>1. s # r /\ Open(s) /\ Open(r) /\ call' = call
      BY <1>8 DEF Commit, CommitRows, Open, TypeOK
    <3>2. LikeEvent(s)
      BY <3>1 DEF LikeEvents
    <3>3. CASE call[s].op \notin {"like", "unlike"}
      BY <3>1, <3>3 DEF LikeEvent
    <3>4. CASE call[s].op \in {"like", "unlike"}
      <4>1. LikeRow(s) \in likes' <=> LikeRow(s) \in likes
        <5>1. CASE call[r].op \in {"like", "unlike"}
          <6>1. LikeRow(s) # LikeRow(r)
            BY <3>1, <3>4, <5>1 DEF LikeLocks
          <6> QED  BY <1>8, <6>1 DEF Commit, CommitRows, LikeRow
        <5>2. CASE call[r].op \notin {"like", "unlike"}
          BY <1>8, <5>2 DEF Commit, CommitRows
        <5> QED  BY <5>1, <5>2
      <4>2. LikeRow(s)' = LikeRow(s)
        BY <3>1 DEF LikeRow
      <4> QED  BY <4>1, <4>2, <3>1, <3>2 DEF LikeEvent, OneEvent
    <3> QED  BY <3>3, <3>4
  <2>4. LikeLocks'
    BY <1>8 DEF LikeLocks, Open, LikeRow, Commit, Comment, CountEvent,
       TypeOK, Call, NoCall
  <2>5. CommentEvents'
    BY <1>8 DEF CommentEvents, CommentEvent, OneEvent, Open, Commit, CommitRows, Comment,
       CountEvent, TypeOK, Call, NoCall
  <2>6. CommentIds'
    BY <1>8 DEF CommentIds, Open, Commit, CommitRows, Comment, CountEvent, TypeOK, Call,
       NoCall
  <2> QED
    BY <2>1, <2>2, <2>3, <2>4, <2>5, <2>6
<1>9. ASSUME NEW r \in Requests, Abort(r) \/ AfterInteraction(r) PROVE Books'
  <2>1. Finite'
    BY <1>9 DEF Finite, Abort, AfterInteraction, TypeOK, Call, NoCall
  <2>2. EventIds'
    BY <1>9 DEF EventIds, Open, Abort, AfterInteraction, TypeOK, Call, NoCall
  <2>3. LikeEvents'
    BY <1>9 DEF LikeEvents, LikeEvent, OneEvent, Open, LikeRow, Abort,
       AfterInteraction, TypeOK, Call, NoCall
  <2>4. LikeLocks'
    BY <1>9 DEF LikeLocks, Open, LikeRow, Abort, AfterInteraction, TypeOK,
       Call, NoCall
  <2>5. CommentEvents'
    BY <1>9 DEF CommentEvents, CommentEvent, OneEvent, Open, Abort,
       AfterInteraction, TypeOK, Call, NoCall
  <2>6. CommentIds'
    BY <1>9 DEF CommentIds, Open, Abort, AfterInteraction, TypeOK, Call,
       NoCall
  <2> QED
    BY <2>1, <2>2, <2>3, <2>4, <2>5, <2>6
<1>10. CASE UNCHANGED <<likes, comments, outbox, nextEvent, nextComment, pc, call>>
  BY <1>10 DEF Finite, EventIds, LikeEvents, LikeLocks, CommentEvents,
               CommentIds, LikeEvent, CommentEvent, OneEvent, Open, LikeRow
<1>11. ASSUME NEW p \in Posts,
              DeletePost(p) \/ ChangeCache(p)
       PROVE UNCHANGED <<likes, comments, outbox, nextEvent, nextComment, pc, call>>
  BY <1>11 DEF DeletePost, ChangeCache
<1> QED
  BY <1>1, <1>2, <1>3, <1>4, <1>5, <1>6, <1>7, <1>8, <1>9, <1>10, <1>11
     DEF Next, Handler, vars

-----------------------------------------------------------------------------
(***************************************************************************)
(* What a commit adds to the outbox: nothing, or one event that was not    *)
(* there, of the committing handler's own post.                            *)
(***************************************************************************)
LEMMA CommitOutbox ==
  ASSUME TypeOK, Books, NEW r \in Requests, Commit(r),
         NEW e, call[r].event = {e}
  PROVE  /\ e \in CountEvent /\ e \notin outbox
         /\ outbox' = outbox \cup {e}
<1>1. call[r] \in Call /\ Open(r)
  BY DEF Commit, CommitRows, TypeOK, Open
<1>2. e \in CountEvent
  BY <1>1 DEF Call
<1>3. e \notin outbox
  BY <1>1 DEF Books, EventIds
<1> QED  BY <1>2, <1>3 DEF Commit, CommitRows

\* A committed like or unlike moves the table and the ledger by one, together.
LEMMA CommitLike ==
  ASSUME TypeOK, Books, LikeLedger, NEW r \in Requests, Commit(r)
  PROVE  LikeLedger'
<1> SUFFICES ASSUME NEW p \in Posts
             PROVE  Net(outbox', "like_count", p) = Cardinality(LikesOf(p)')
  BY DEF LikeLedger
<1> DEFINE k == call[r]
           l == LikeRow(r)
           N == Net(outbox, "like_count", p)
<1>1. k \in Call /\ Open(r) /\ LikeEvent(r) /\ CommentEvent(r)
  BY DEF Commit, CommitRows, TypeOK, Open, Books, LikeEvents, CommentEvents
<1>2. /\ IsFiniteSet(outbox) /\ IsFiniteSet(LikesOf(p))
      /\ N = Cardinality(LikesOf(p)) /\ N \in Int
  BY FS_Subset, NetInt DEF Books, Finite, LikesOf, LikeLedger
<1>3. CASE k.op = "like" /\ l \notin likes
  <2>1. PICK e \in k.event : /\ k.event = {e} /\ e.field = "like_count"
                             /\ e.post = k.post /\ e.delta = 1
    BY <1>1, <1>3 DEF LikeEvent, OneEvent
  <2>2. Net(outbox', "like_count", p) = IF k.post = p THEN N + 1 ELSE N
    <3>1. e \in CountEvent /\ e \notin outbox /\ outbox' = outbox \cup {e}
      BY <2>1, CommitOutbox
    <3>2. Net(outbox', "like_count", p) =
            IF e.field = "like_count" /\ e.post = p THEN N + e.delta ELSE N
      BY <3>1, <1>2, NetAdd
    <3> QED  BY <3>2, <2>1
  <2>3. LikesOf(p)' = IF k.post = p THEN LikesOf(p) \cup {l} ELSE LikesOf(p)
    BY <1>3 DEF Commit, CommitRows, LikesOf, LikeRow
  <2>4. l \notin LikesOf(p)
    BY <1>3 DEF LikesOf
  <2>5. Cardinality(LikesOf(p) \cup {l}) = Cardinality(LikesOf(p)) + 1
    BY <2>4, <1>2, FS_AddElement
  <2> HIDE DEF N
  <2> QED  BY <2>2, <2>3, <2>5, <1>2
<1>4. CASE k.op = "unlike" /\ l \in likes
  <2>1. PICK e \in k.event : /\ k.event = {e} /\ e.field = "like_count"
                             /\ e.post = k.post /\ e.delta = -1
    BY <1>1, <1>4 DEF LikeEvent, OneEvent
  <2>2. Net(outbox', "like_count", p) = IF k.post = p THEN N + (-1) ELSE N
    <3>1. e \in CountEvent /\ e \notin outbox /\ outbox' = outbox \cup {e}
      BY <2>1, CommitOutbox
    <3>2. Net(outbox', "like_count", p) =
            IF e.field = "like_count" /\ e.post = p THEN N + e.delta ELSE N
      BY <3>1, <1>2, NetAdd
    <3> QED  BY <3>2, <2>1
  <2>3. LikesOf(p)' = IF k.post = p THEN LikesOf(p) \ {l} ELSE LikesOf(p)
    BY <1>4 DEF Commit, CommitRows, LikesOf, LikeRow
  <2>4. k.post = p => l \in LikesOf(p)
    BY <1>4 DEF LikesOf, LikeRow
  <2>5. k.post = p => Cardinality(LikesOf(p) \ {l}) = Cardinality(LikesOf(p)) - 1
    BY <2>4, <1>2, FS_RemoveElement
  <2> HIDE DEF N
  <2> QED  BY <2>2, <2>3, <2>5, <1>2
<1>5. CASE k.op \in {"like", "unlike"} /\ k.event = {}
  <2>1. outbox' = outbox
    BY <1>5 DEF Commit, CommitRows
  <2>2. likes' = likes
    BY <1>5, <1>1 DEF Commit, CommitRows, LikeEvent, LikeRow, OneEvent
  <2> QED  BY <2>1, <2>2, <1>2 DEF LikesOf
<1>6. CASE k.op \in {"comment", "delete_comment"}
  <2>1. PICK e \in k.event : k.event = {e} /\ e.field = "comment_count"
    BY <1>1, <1>6 DEF CommentEvent, OneEvent
  <2>2. Net(outbox', "like_count", p) = N
    BY <2>1, <1>2, CommitOutbox, NetAdd
  <2>3. likes' = likes
    BY <1>6 DEF Commit, CommitRows
  <2> QED  BY <2>2, <2>3, <1>2 DEF LikesOf
<1> QED  BY <1>1, <1>3, <1>4, <1>5, <1>6 DEF Call, Ops, LikeEvent

(***************************************************************************)
(* A committed comment adds its row and its +1; a committed delete enters  *)
(* -1 and removes one row of the post or, if it came second, none.         *)
(***************************************************************************)
LEMMA CommitComment ==
  ASSUME TypeOK, Books, CommentNeverOver, NEW r \in Requests, Commit(r)
  PROVE  CommentNeverOver'
<1> SUFFICES ASSUME NEW p \in Posts
             PROVE  Net(outbox', "comment_count", p)
                      <= Cardinality(CommentsOf(p)')
  BY DEF CommentNeverOver
<1> DEFINE k == call[r]
           N == Net(outbox, "comment_count", p)
           C == Cardinality(CommentsOf(p))
<1>1. k \in Call /\ Open(r) /\ LikeEvent(r) /\ CommentEvent(r)
  BY DEF Commit, CommitRows, TypeOK, Open, Books, LikeEvents, CommentEvents
<1>2. /\ IsFiniteSet(outbox) /\ IsFiniteSet(CommentsOf(p))
      /\ N <= C /\ N \in Int /\ C \in Nat
  BY FS_Subset, FS_CardinalityType, NetInt
     DEF Books, Finite, CommentsOf, CommentNeverOver
<1>3. CASE k.op = "comment"
  <2> DEFINE c == [id |-> k.comment, post |-> k.post, user |-> k.user]
  <2>1. PICK e \in k.event : /\ k.event = {e} /\ e.field = "comment_count"
                             /\ e.post = k.post /\ e.delta = 1
    BY <1>1, <1>3 DEF CommentEvent, OneEvent
  <2>2. Net(outbox', "comment_count", p) = IF k.post = p THEN N + 1 ELSE N
    BY <2>1, <1>2, CommitOutbox, NetAdd
  <2>3. CommentsOf(p)' = IF k.post = p THEN CommentsOf(p) \cup {c}
                                       ELSE CommentsOf(p)
    BY <1>3 DEF Commit, CommitRows, CommentsOf
  <2>4. c \notin CommentsOf(p)
    BY <1>1, <1>3 DEF Books, CommentIds, CommentsOf
  <2>5. Cardinality(CommentsOf(p) \cup {c}) = C + 1
    BY <2>4, <1>2, FS_AddElement
  <2> HIDE DEF N, C, c
  <2> QED  BY <2>2, <2>3, <2>5, <1>2 DEF C
<1>4. CASE k.op = "delete_comment"
  <2>1. PICK e \in k.event : /\ k.event = {e} /\ e.field = "comment_count"
                             /\ e.post = k.post /\ e.delta = -1
    BY <1>1, <1>4 DEF CommentEvent, OneEvent
  <2>2. Net(outbox', "comment_count", p) = IF k.post = p THEN N + (-1) ELSE N
    BY <2>1, <1>2, CommitOutbox, NetAdd
  <2>3. CommentsOf(p)' = {c \in CommentsOf(p) : c.id # k.comment}
    BY <1>4 DEF Commit, CommitRows, CommentsOf
  <2>4. CASE \E c \in CommentsOf(p) : c.id = k.comment
    <3>1. PICK c \in CommentsOf(p) : c.id = k.comment
      BY <2>4
    <3>2. CommentsOf(p)' = CommentsOf(p) \ {c}
      BY <2>3, <3>1 DEF Books, CommentIds, CommentsOf
    <3>3. k.post = p
      BY <3>1, <1>1, <1>4 DEF Books, CommentIds, CommentsOf, Open
    <3>4. Cardinality(CommentsOf(p) \ {c}) = C - 1
      BY <3>1, <1>2, FS_RemoveElement
    <3> HIDE DEF N, C
    <3> QED  BY <2>2, <3>2, <3>3, <3>4, <1>2
  <2>5. CASE \A c \in CommentsOf(p) : c.id # k.comment
    <3>1. CommentsOf(p)' = CommentsOf(p)
      BY <2>3, <2>5
    <3>2. Cardinality(CommentsOf(p)') = C
      BY <3>1
    <3> HIDE DEF N, C
    <3> QED  BY <2>2, <3>2, <1>2
  <2> QED  BY <2>4, <2>5
<1>5. CASE k.op \in {"like", "unlike"}
  <2>1. comments' = comments
    BY <1>5 DEF Commit, CommitRows
  <2>2. Net(outbox', "comment_count", p) = N
    <3>1. CASE k.event = {}
      BY <3>1 DEF Commit, CommitRows
    <3>2. CASE k.event # {}
      <4>1. PICK e \in k.event : k.event = {e} /\ e.field = "like_count"
        BY <1>1, <1>5, <3>2 DEF LikeEvent, OneEvent
      <4> QED  BY <4>1, <1>2, CommitOutbox, NetAdd
    <3> QED  BY <3>1, <3>2
  <2> QED  BY <2>1, <2>2, <1>2 DEF CommentsOf
<1> QED  BY <1>1, <1>3, <1>4, <1>5 DEF Call, Ops

LEMMA InductiveInv == Spec => []IInv
<1>1. Init => IInv
  <2> SUFFICES ASSUME Init PROVE IInv
    OBVIOUS
  <2>1. TypeOK /\ Books
    BY TypeInit, BooksInit
  <2>3. \A p \in Posts : LikesOf(p) = {} /\ CommentsOf(p) = {}
    BY DEF Init, LikesOf, CommentsOf
  <2>4. LikeLedger /\ CommentNeverOver
    BY <2>3, NetEmpty, FS_EmptySet DEF Init, LikeLedger, CommentNeverOver
  <2> QED  BY <2>1, <2>4 DEF IInv
<1>2. IInv /\ [Next]_vars => IInv'
  <2> SUFFICES ASSUME IInv, [Next]_vars PROVE IInv'
    OBVIOUS
  <2>1. TypeOK' /\ Books'
    BY TypeNext, BooksNext DEF IInv
  <2>2. CASE UNCHANGED <<likes, comments, outbox>>
    BY <2>1, <2>2 DEF IInv, LikeLedger, CommentNeverOver, LikesOf, CommentsOf
  <2>3. ASSUME NEW r \in Requests, Commit(r) PROVE IInv'
    BY <2>1, <2>3, CommitLike, CommitComment DEF IInv
  <2>4. \/ UNCHANGED <<likes, comments, outbox>>
        \/ \E r \in Requests : Commit(r)
    BY DEF Next, Handler, vars, redis, tables, CheckPost, CheckComment, Accept,
           InsertLike, DeleteLike, InsertComment, ReadComment, DeleteComment,
           Opens, Abort, AfterInteraction, DeletePost, ChangeCache
  <2> QED  BY <2>2, <2>3, <2>4
<1> QED  BY <1>1, <1>2, PTL DEF Spec

(***************************************************************************)
(* The outbox of the API is a correct ledger of likes, and never promises  *)
(* more comments than the table holds: what the worker will make of        *)
(* posts.like_count and posts.comment_count.                               *)
(***************************************************************************)
THEOREM InteractionLedger == Spec => [](LikeLedger /\ CommentNeverOver)
<1>1. IInv => LikeLedger /\ CommentNeverOver
  BY DEF IInv
<1> QED  BY <1>1, InductiveInv, PTL

\* The half of it about comments, which is all that the code lets one claim.
THEOREM InteractionComments == Spec => []CommentNeverOver
BY InteractionLedger, PTL

-----------------------------------------------------------------------------
(* Heat.  A repeated like has no event of its own; that of the row it found *)
(* is in the outbox, which only grows.                                      *)

Earned(p) == \E e \in outbox : e.post = p /\ e.delta = 1
Brings(r) == \E e \in call[r].event : e.post = call[r].post /\ e.delta = 1
Heats(r) == call[r].op \in {"like", "comment"}

HeatInv ==
  /\ \A l \in likes : Earned(l[1])
  /\ \A r \in Requests :
       /\ pc[r] = "open" /\ Heats(r) => Brings(r) \/ Earned(call[r].post)
       /\ pc[r] = "after" /\ Heats(r) => Earned(call[r].post)
  /\ HeatEarned

\* A step of one handler that leaves the tables alone.
LEMMA HeatStep ==
  ASSUME TypeOK, HeatInv, NEW r \in Requests,
         likes' = likes, outbox' = outbox,
         \A s \in Requests : s # r => pc'[s] = pc[s] /\ call'[s] = call[s],
         pc'[r] = "open" /\ Heats(r)' => Brings(r)' \/ Earned(call'[r].post),
         pc'[r] # "after",
         \A p \in Posts : heat'[p] > 0 => heat[p] > 0 \/ Earned(p)
  PROVE  HeatInv'
<1>1. \A p : Earned(p)' <=> Earned(p)
  BY DEF Earned
<1>2. \A s \in Requests : s # r => (Brings(s)' <=> Brings(s)) /\ (Heats(s)' <=> Heats(s))
  BY DEF Brings, Heats
<1> QED  BY <1>1, <1>2 DEF HeatInv, HeatEarned, Earned

LEMMA HeatNext ==
  ASSUME TypeOK, HeatInv, [Next]_vars
  PROVE  HeatInv'
<1> USE DEF redis, tables
<1>1. ASSUME NEW r \in Requests,
             \/ CheckPost(r) \/ CheckComment(r) \/ ReadComment(r) \/ Abort(r)
      PROVE  HeatInv'
  <2>1. /\ likes' = likes /\ outbox' = outbox /\ heat' = heat
        /\ pc'[r] \in {"idle", "checked", "read"}
        /\ \A s \in Requests : s # r => pc'[s] = pc[s] /\ call'[s] = call[s]
    BY <1>1 DEF CheckPost, CheckComment, Accept, ReadComment, Abort, TypeOK
  <2> QED  BY <2>1, HeatStep
<1>2. ASSUME NEW r \in Requests,
             InsertLike(r) \/ DeleteLike(r) \/ InsertComment(r) \/ DeleteComment(r)
      PROVE  HeatInv'
  <2>1. /\ likes' = likes /\ outbox' = outbox /\ heat' = heat
        /\ pc'[r] = "open"
        /\ \A s \in Requests : s # r => pc'[s] = pc[s] /\ call'[s] = call[s]
        /\ call'[r].op = call[r].op /\ call'[r].post = call[r].post
    BY <1>2 DEF InsertLike, DeleteLike, InsertComment, DeleteComment, Opens, Enqueue,
                NoEnqueue, TypeOK, Call, NoCall
  <2>2. Heats(r)' => Brings(r)' \/ Earned(call'[r].post)
    <3>1. CASE InsertLike(r) /\ LikeRow(r) \in likes
      <4>1. Earned(LikeRow(r)[1])
        BY <3>1 DEF HeatInv
      <4> QED  BY <4>1, <2>1 DEF LikeRow
    <3>2. CASE InsertLike(r) /\ LikeRow(r) \notin likes
      <4>1. call'[r].event = {Event(nextEvent, "like_count", call[r].post, 1)}
        BY <3>2 DEF InsertLike, Opens, Enqueue, LikeRow, TypeOK, Call, NoCall
      <4> QED  BY <4>1, <2>1 DEF Brings, Event
    <3>3. CASE InsertComment(r)
      <4>1. call'[r].event = {Event(nextEvent, "comment_count", call[r].post, 1)}
        BY <3>3 DEF InsertComment, Opens, TypeOK, Call, NoCall
      <4> QED  BY <4>1, <2>1 DEF Brings, Event
    <3>4. CASE DeleteLike(r) \/ DeleteComment(r)
      BY <3>4, <2>1 DEF Heats, DeleteLike, DeleteComment, Opens
    <3> QED  BY <1>2, <3>1, <3>2, <3>3, <3>4
  <2> QED  BY <2>1, <2>2, HeatStep
<1>3. ASSUME NEW r \in Requests, Commit(r) PROVE HeatInv'
  <2>1. /\ pc[r] = "open" /\ outbox' = outbox \cup call[r].event
        /\ heat' = heat /\ call' = call /\ pc' = [pc EXCEPT ![r] = "after"]
        /\ likes' \subseteq likes \cup (IF call[r].op = "like" THEN {LikeRow(r)} ELSE {})
    BY <1>3 DEF Commit, CommitRows, LikeRow
  <2>2. \A p : Earned(p) => Earned(p)'
    BY <2>1 DEF Earned
  <2>3. Heats(r) => Earned(call[r].post)'
    BY <2>1, <2>2 DEF HeatInv, Brings, Earned
  <2>4. \A l \in likes' : Earned(l[1])'
    BY <2>1, <2>2, <2>3 DEF HeatInv, Heats, LikeRow
  <2>5. ASSUME NEW s \in Requests
        PROVE  /\ pc'[s] = "open" /\ Heats(s)' => Brings(s)' \/ Earned(call[s].post)'
               /\ pc'[s] = "after" /\ Heats(s)' => Earned(call[s].post)'
    <3>1. (Heats(s)' <=> Heats(s)) /\ (Brings(s)' <=> Brings(s))
      BY <2>1 DEF Heats, Brings
    <3>2. s # r => pc'[s] = pc[s]
      BY <2>1 DEF TypeOK
    <3>3. pc'[r] = "after"
      BY <2>1 DEF TypeOK
    <3> QED  BY <2>1, <2>2, <2>3, <3>1, <3>2, <3>3 DEF HeatInv
  <2>6. HeatEarned'
    BY <2>1, <2>2 DEF HeatInv, HeatEarned, Earned
  <2> QED  BY <2>4, <2>5, <2>6 DEF HeatInv
<1>4. ASSUME NEW r \in Requests, AfterInteraction(r) PROVE HeatInv'
  <2>1. /\ likes' = likes /\ outbox' = outbox /\ pc[r] = "after" /\ pc'[r] = "idle"
        /\ \A s \in Requests : s # r => pc'[s] = pc[s] /\ call'[s] = call[s]
        /\ heat' \in {heat, [heat EXCEPT ![call[r].post] =
                               Saturate(heat[call[r].post] + Heat(call[r].op))]}
    BY <1>4 DEF AfterInteraction, TypeOK
  <2>2. ASSUME NEW p \in Posts, heat'[p] > 0 PROVE heat[p] > 0 \/ Earned(p)
    <3>1. CASE Heats(r)
      <4>1. Earned(call[r].post)
        BY <2>1, <3>1 DEF HeatInv
      <4> QED  BY <2>1, <2>2, <4>1 DEF TypeOK
    <3>2. CASE ~Heats(r)
      <4>1. Heat(call[r].op) = 0
        BY <3>2, InteractionAssumption DEF Heat, Heats
      <4> QED  BY <2>1, <2>2, <4>1, InteractionAssumption DEF TypeOK, Saturate
    <3> QED  BY <3>1, <3>2
  <2> QED  BY <2>1, <2>2, HeatStep
<1>5. CASE UNCHANGED <<likes, outbox, heat, pc, call>>
  BY <1>5 DEF HeatInv, HeatEarned, Earned, Brings, Heats
<1>6. ASSUME NEW p \in Posts,
              DeletePost(p) \/ ChangeCache(p)
      PROVE  UNCHANGED <<likes, outbox, heat, pc, call>>
  BY <1>6 DEF DeletePost, ChangeCache
<1>7. UNCHANGED vars => UNCHANGED <<likes, outbox, heat, pc, call>>
  BY DEF vars
<1> QED  BY <1>1, <1>2, <1>3, <1>4, <1>5, <1>6, <1>7 DEF Next, Handler

(***************************************************************************)
(* Heat is earned, for any weights: a handler that adds some has committed *)
(* a like or comment of that post, or has found the row of one.            *)
(***************************************************************************)
THEOREM InteractionHeat == Spec => []HeatEarned
<1>1. Init => HeatInv
  BY DEF Init, HeatInv, HeatEarned
<1>2. TypeOK /\ HeatInv /\ [Next]_vars => HeatInv'
  BY HeatNext
<1>3. HeatInv => HeatEarned
  BY DEF HeatInv
<1> QED  BY <1>1, <1>2, <1>3, InteractionType, PTL DEF Spec

-----------------------------------------------------------------------------
(* The order of ids.  An unlike takes its id while its like is committed and *)
(* nobody else can undo it; so the events that unlikes have enqueued and not *)
(* committed are counted with the outbox, and their rows as gone.            *)

Cut(S, n) == {e \in S : e.id <= n}

Standing(L, p) == {l \in L : l[1] = p}

\* The events S add up to the rows L, and up to each id to no less than nothing.
Fits(S, L) ==
  /\ S \subseteq CountEvent /\ IsFiniteSet(S) /\ IsFiniteSet(L)
  /\ \A p \in Posts : Net(S, "like_count", p) = Cardinality(Standing(L, p))
  /\ \A p \in Posts, n \in Nat : Net(Cut(S, n), "like_count", p) >= 0

LEMMA CutAdd ==
  ASSUME NEW S \in SUBSET CountEvent, IsFiniteSet(S), NEW e \in CountEvent, e \notin S,
         NEW n \in Nat, NEW p
  PROVE  /\ Net(Cut(S, n), "like_count", p) \in Int
         /\ Net(Cut(S \cup {e}, n), "like_count", p) =
              IF e.id <= n /\ e.field = "like_count" /\ e.post = p
                THEN Net(Cut(S, n), "like_count", p) + e.delta
                ELSE Net(Cut(S, n), "like_count", p)
<1>1. IsFiniteSet(Cut(S, n)) /\ e \notin Cut(S, n)
  BY FS_Subset DEF Cut
<1>2. Cut(S \cup {e}, n) = IF e.id <= n THEN Cut(S, n) \cup {e} ELSE Cut(S, n)
  BY DEF Cut
<1>3. CASE e.id <= n
  <2>1. /\ Net(Cut(S, n), "like_count", p) \in Int
        /\ Net(Cut(S, n) \cup {e}, "like_count", p) =
             IF e.field = "like_count" /\ e.post = p
               THEN Net(Cut(S, n), "like_count", p) + e.delta
               ELSE Net(Cut(S, n), "like_count", p)
    BY <1>1, NetAdd
  <2> QED  BY <1>2, <1>3, <2>1
<1>4. CASE ~(e.id <= n)
  BY <1>1, <1>2, <1>4, NetInt
<1> QED  BY <1>3, <1>4

\* Which way an event moves the sums.
LEMMA CutMoves ==
  ASSUME NEW S \in SUBSET CountEvent, IsFiniteSet(S), NEW e \in CountEvent, e \notin S,
         NEW n \in Nat, NEW p
  PROVE  /\ {Net(Cut(S, n), "like_count", p), Net(Cut(S \cup {e}, n), "like_count", p)}
              \subseteq Int
         /\ e.delta = 1 =>
              Net(Cut(S \cup {e}, n), "like_count", p) >= Net(Cut(S, n), "like_count", p)
         /\ e.delta = -1 =>
              Net(Cut(S \cup {e}, n), "like_count", p) <= Net(Cut(S, n), "like_count", p)
<1>1. e.delta \in {1, -1}
  BY DEF CountEvent
<1>2. /\ Net(Cut(S, n), "like_count", p) \in Int
      /\ Net(Cut(S \cup {e}, n), "like_count", p) =
           IF e.id <= n /\ e.field = "like_count" /\ e.post = p
             THEN Net(Cut(S, n), "like_count", p) + e.delta
             ELSE Net(Cut(S, n), "like_count", p)
  BY CutAdd
<1> QED  BY <1>1, <1>2

\* One row more or less.
LEMMA RowsOfPost ==
  ASSUME NEW L, IsFiniteSet(L), NEW l \in Posts \X Users, l \notin L, NEW p
  PROVE  /\ Cardinality(Standing(L, p)) \in Nat
         /\ Cardinality(Standing(L \cup {l}, p)) =
              IF l[1] = p THEN Cardinality(Standing(L, p)) + 1
                          ELSE Cardinality(Standing(L, p))
<1> DEFINE Q == Standing(L, p)
<1>1. IsFiniteSet(Q) /\ Cardinality(Q) \in Nat /\ l \notin Q
  BY FS_Subset, FS_CardinalityType DEF Standing
<1>2. Standing(L \cup {l}, p) = IF l[1] = p THEN Q \cup {l} ELSE Q
  BY DEF Standing
<1>3. Cardinality(Q \cup {l}) = Cardinality(Q) + 1
  BY <1>1, FS_AddElement
<1> HIDE DEF Q
<1>4. CASE l[1] = p
  BY <1>1, <1>2, <1>3, <1>4 DEF Q
<1>5. CASE l[1] # p
  BY <1>1, <1>2, <1>5 DEF Q
<1> QED  BY <1>4, <1>5

\* A comment's event.
LEMMA FitsComment ==
  ASSUME NEW S, NEW L, Fits(S, L), NEW e \in CountEvent, e \notin S,
         e.field = "comment_count"
  PROVE  Fits(S \cup {e}, L)
<1>1. S \subseteq CountEvent /\ IsFiniteSet(S) /\ IsFiniteSet(S \cup {e})
  BY FS_AddElement DEF Fits
<1>2. \A p \in Posts : Net(S \cup {e}, "like_count", p) = Net(S, "like_count", p)
  BY <1>1, NetAdd
<1>3. \A p \in Posts, n \in Nat :
        Net(Cut(S \cup {e}, n), "like_count", p) = Net(Cut(S, n), "like_count", p)
  BY <1>1, CutAdd
<1> QED  BY <1>1, <1>2, <1>3 DEF Fits

\* A like is committed, wherever its id belongs.
LEMMA FitsLike ==
  ASSUME NEW S, NEW L, Fits(S, L), NEW e \in CountEvent, e \notin S,
         e.field = "like_count", e.delta = 1,
         NEW l \in Posts \X Users, l \notin L, l[1] = e.post
  PROVE  Fits(S \cup {e}, L \cup {l})
<1>1. /\ S \subseteq CountEvent /\ IsFiniteSet(S) /\ IsFiniteSet(S \cup {e})
      /\ IsFiniteSet(L) /\ IsFiniteSet(L \cup {l})
  BY FS_AddElement DEF Fits
<1>2. ASSUME NEW p \in Posts
      PROVE  Net(S \cup {e}, "like_count", p) = Cardinality(Standing(L \cup {l}, p))
  <2>1. Net(S, "like_count", p) = Cardinality(Standing(L, p))
    BY DEF Fits
  <2>2. Net(S \cup {e}, "like_count", p) =
          IF e.post = p THEN Net(S, "like_count", p) + 1 ELSE Net(S, "like_count", p)
    BY <1>1, NetAdd
  <2>3. Cardinality(Standing(L \cup {l}, p)) =
          IF e.post = p THEN Cardinality(Standing(L, p)) + 1
                        ELSE Cardinality(Standing(L, p))
    BY <1>1, RowsOfPost
  <2> QED  BY <2>1, <2>2, <2>3
<1>3. ASSUME NEW p \in Posts, NEW n \in Nat
      PROVE  Net(Cut(S \cup {e}, n), "like_count", p) >= 0
  <2>1. Net(Cut(S, n), "like_count", p) >= 0
    BY DEF Fits
  <2>2. /\ {Net(Cut(S, n), "like_count", p), Net(Cut(S \cup {e}, n), "like_count", p)}
             \subseteq Int
        /\ Net(Cut(S \cup {e}, n), "like_count", p) >= Net(Cut(S, n), "like_count", p)
    BY <1>1, CutMoves
  <2> QED  BY <2>1, <2>2
<1> QED  BY <1>1, <1>2, <1>3 DEF Fits

\* An unlike takes the next id, for a row that stands.
LEMMA FitsUnlike ==
  ASSUME NEW S, NEW L, Fits(S, L), NEW e \in CountEvent, \A f \in S : f.id < e.id,
         e.field = "like_count", e.delta = -1,
         NEW l \in Posts \X Users, l \in L, l[1] = e.post
  PROVE  Fits(S \cup {e}, L \ {l})
<1>1. /\ S \subseteq CountEvent /\ IsFiniteSet(S) /\ IsFiniteSet(S \cup {e})
      /\ IsFiniteSet(L) /\ IsFiniteSet(L \ {l})
  BY FS_AddElement, FS_Subset DEF Fits
<1>2. e \notin S /\ e.id \in Nat
  BY DEF CountEvent
<1>3. ASSUME NEW p \in Posts
      PROVE  /\ Net(S \cup {e}, "like_count", p) = Cardinality(Standing(L \ {l}, p))
             /\ Net(S \cup {e}, "like_count", p) >= 0
  <2>1. Net(S, "like_count", p) = Cardinality(Standing(L, p))
    BY DEF Fits
  <2>2. Net(S \cup {e}, "like_count", p) =
          IF e.post = p THEN Net(S, "like_count", p) + (-1) ELSE Net(S, "like_count", p)
    BY <1>1, <1>2, NetAdd
  <2>3. (L \ {l}) \cup {l} = L
    OBVIOUS
  <2>4. /\ Cardinality(Standing(L \ {l}, p)) \in Nat
        /\ Cardinality(Standing((L \ {l}) \cup {l}, p)) =
             IF l[1] = p THEN Cardinality(Standing(L \ {l}, p)) + 1
                         ELSE Cardinality(Standing(L \ {l}, p))
    BY <1>1, RowsOfPost
  <2>5. Cardinality(Standing(L, p)) =
          IF e.post = p THEN Cardinality(Standing(L \ {l}, p)) + 1
                        ELSE Cardinality(Standing(L \ {l}, p))
    BY <2>3, <2>4
  <2> HIDE <2>4
  <2>6. Cardinality(Standing(L \ {l}, p)) \in Nat
    BY <2>4
  <2> QED  BY <2>1, <2>2, <2>5, <2>6
<1>4. ASSUME NEW p \in Posts, NEW n \in Nat
      PROVE  Net(Cut(S \cup {e}, n), "like_count", p) >= 0
  <2>1. CASE e.id <= n
    <3>1. \A f \in S : f.id \in Nat
      BY <1>1 DEF CountEvent
    <3>2. Cut(S \cup {e}, n) = S \cup {e}
      BY <1>2, <2>1, <3>1 DEF Cut
    <3> QED  BY <1>3, <3>2
  <2>2. CASE ~(e.id <= n)
    <3>1. Net(Cut(S, n), "like_count", p) >= 0
      BY DEF Fits
    <3>2. Net(Cut(S \cup {e}, n), "like_count", p) = Net(Cut(S, n), "like_count", p)
      BY <1>1, <1>2, <2>2, CutAdd
    <3> QED  BY <3>1, <3>2
  <2> QED  BY <2>1, <2>2
<1> QED  BY <1>1, <1>3, <1>4 DEF Fits

\* An unlike is rolled back.
LEMMA FitsAbort ==
  ASSUME NEW S, NEW L, NEW e \in CountEvent, e \notin S, Fits(S \cup {e}, L),
         e.field = "like_count", e.delta = -1,
         NEW l \in Posts \X Users, l \notin L, l[1] = e.post
  PROVE  Fits(S, L \cup {l})
<1>1. /\ S \subseteq CountEvent /\ IsFiniteSet(S)
      /\ IsFiniteSet(L) /\ IsFiniteSet(L \cup {l})
  BY FS_AddElement, FS_Subset DEF Fits
<1>2. ASSUME NEW p \in Posts
      PROVE  Net(S, "like_count", p) = Cardinality(Standing(L \cup {l}, p))
  <2>1. Net(S \cup {e}, "like_count", p) = Cardinality(Standing(L, p))
    BY DEF Fits
  <2>2. /\ Net(S, "like_count", p) \in Int
        /\ Net(S \cup {e}, "like_count", p) =
             IF e.post = p THEN Net(S, "like_count", p) + (-1) ELSE Net(S, "like_count", p)
    BY <1>1, NetAdd
  <2>3. /\ Cardinality(Standing(L, p)) \in Nat
        /\ Cardinality(Standing(L \cup {l}, p)) =
             IF e.post = p THEN Cardinality(Standing(L, p)) + 1
                           ELSE Cardinality(Standing(L, p))
    BY <1>1, RowsOfPost
  <2> QED  BY <2>1, <2>2, <2>3
<1>3. ASSUME NEW p \in Posts, NEW n \in Nat
      PROVE  Net(Cut(S, n), "like_count", p) >= 0
  <2>1. Net(Cut(S \cup {e}, n), "like_count", p) >= 0
    BY DEF Fits
  <2>2. /\ {Net(Cut(S, n), "like_count", p), Net(Cut(S \cup {e}, n), "like_count", p)}
             \subseteq Int
        /\ Net(Cut(S, n), "like_count", p) >= Net(Cut(S \cup {e}, n), "like_count", p)
    BY <1>1, CutMoves
  <2> QED  BY <2>1, <2>2
<1> QED  BY <1>1, <1>2, <1>3 DEF Fits

\* Unlikes under way: their events count already, their rows no longer.
Undoing(r) == Open(r) /\ call[r].op = "unlike" /\ LikeRow(r) \in likes
Promised == outbox \cup {e \in CountEvent : \E r \in Requests : Undoing(r) /\ e \in call[r].event}
Kept == {l \in likes : \A r \in Requests : Undoing(r) => l # LikeRow(r)}

OrderInv == Fits(Promised, Kept)

\* Ids and rows are each handler's own.
LEMMA OwnEvents ==
  ASSUME TypeOK, Books, NEW r \in Requests, Open(r), NEW e \in call[r].event
  PROVE  /\ e \in CountEvent /\ e \notin outbox
         /\ \A s \in Requests \ {r} : Undoing(s) => e \notin call[s].event
         /\ call[r].op \in {"like", "unlike"} =>
              \A s \in Requests \ {r} : Undoing(s) => LikeRow(s) # LikeRow(r)
<1>1. call[r] \in Call
  BY DEF TypeOK, Open
<1> QED  BY <1>1 DEF Call, Books, EventIds, LikeLocks, Undoing

LEMMA OrderNext ==
  ASSUME TypeOK, Books, OrderInv, [Next]_vars
  PROVE  OrderInv'
<1> USE DEF redis, tables
\* Nothing is promised, kept or taken back.
<1>1. ASSUME likes' = likes, outbox' = outbox,
             \A s \in Requests : /\ Undoing(s)' <=> Undoing(s)
                                 /\ Undoing(s) => call'[s] = call[s]
      PROVE  OrderInv'
  <2>1. \A s \in Requests : Undoing(s) => LikeRow(s)' = LikeRow(s)
    BY <1>1 DEF LikeRow
  <2>2. Promised' = Promised
    BY <1>1 DEF Promised
  <2>3. Kept' = Kept
    BY <1>1, <2>1 DEF Kept
  <2> QED  BY <2>2, <2>3 DEF OrderInv
\* What a step of one handler leaves to the others.
<1>2. ASSUME NEW r \in Requests, likes' = likes,
             \A s \in Requests \ {r} : pc'[s] = pc[s] /\ call'[s] = call[s]
      PROVE  \A s \in Requests \ {r} : /\ Undoing(s)' <=> Undoing(s)
                                       /\ call'[s] = call[s] /\ LikeRow(s)' = LikeRow(s)
  BY <1>2 DEF Undoing, Open, LikeRow
<1>3. ASSUME NEW r \in Requests,
             CheckPost(r) \/ CheckComment(r) \/ ReadComment(r) \/ AfterInteraction(r)
      PROVE  OrderInv'
  <2>1. /\ likes' = likes /\ outbox' = outbox
        /\ \A s \in Requests \ {r} : pc'[s] = pc[s] /\ call'[s] = call[s]
        /\ ~Open(r) /\ ~Open(r)'
    BY <1>3 DEF CheckPost, CheckComment, Accept, ReadComment, AfterInteraction, TypeOK, Open
  <2> QED  BY <1>1, <1>2, <2>1 DEF Undoing
<1>4. ASSUME NEW r \in Requests,
             InsertLike(r) \/ InsertComment(r) \/ DeleteComment(r)
      PROVE  OrderInv'
  <2>1. OpensTx(r)
    BY <1>4, OpensEffect
  <2>2. call[r].op # "unlike"
    BY <1>4 DEF InsertLike, InsertComment, DeleteComment, Opens
  <2>3. ~Undoing(r) /\ ~Undoing(r)'
    BY <2>1, <2>2 DEF OpensTx, Undoing, Open
  <2> QED  BY <1>1, <1>2, <2>1, <2>3 DEF OpensTx
\* Unlike takes the next id, for a row that nobody else is taking away.
<1>5. ASSUME NEW r \in Requests, DeleteLike(r) PROVE OrderInv'
  <2> DEFINE l == LikeRow(r)
  <2>1. OpensTx(r) /\ RowFree(r) /\ call[r].op = "unlike" /\ call[r] \in Call
    BY <1>5, OpensEffect DEF DeleteLike, Opens, TypeOK, OpensTx
  <2>2. LikeRow(r)' = l /\ likes' = likes /\ outbox' = outbox /\ ~Undoing(r)
    BY <2>1 DEF OpensTx, LikeRow, Undoing, Open
  <2>3. \A s \in Requests \ {r} : /\ Undoing(s)' <=> Undoing(s)
                                  /\ call'[s] = call[s] /\ LikeRow(s)' = LikeRow(s)
    BY <1>2, <2>1 DEF OpensTx
  <2>4. CASE l \notin likes
    <3>1. ~Undoing(r)'
      BY <2>2, <2>4 DEF Undoing
    <3> QED  BY <1>1, <2>2, <2>3, <3>1
  <2>5. CASE l \in likes
    <3> DEFINE e == Event(nextEvent, "like_count", call[r].post, -1)
    <3>1. call'[r].event = {e} /\ Undoing(r)'
      BY <1>5, <2>1, <2>2, <2>5
         DEF DeleteLike, Enqueue, LikeRow, TypeOK, Undoing, Open, OpensTx, Call
    <3>2. /\ e \in CountEvent /\ e.id = nextEvent /\ e.field = "like_count"
          /\ e.delta = -1 /\ e.post = call[r].post
      BY <2>1 DEF CountEvent, Event, Fields, TypeOK, Call
    <3>3. \A f \in Promised : f.id < e.id
      BY <3>2 DEF Promised, Books, EventIds, Undoing
    <3>4. l \in Kept /\ l \in Posts \X Users /\ l[1] = e.post
      BY <2>1, <2>2, <2>5, <3>2, RowFreeLikes DEF Kept, Undoing, LikeRow, TypeOK
    <3> HIDE DEF e
    <3>5. Promised' = Promised \cup {e}
      BY <2>2, <2>3, <3>1, <3>2 DEF Promised
    <3>6. Kept' = Kept \ {l}
      BY <2>2, <2>3, <3>1 DEF Kept
    <3>7. Fits(Promised \cup {e}, Kept \ {l})
      BY <3>2, <3>3, <3>4, FitsUnlike DEF OrderInv
    <3> QED  BY <3>5, <3>6, <3>7 DEF OrderInv
  <2> QED  BY <2>4, <2>5
\* The four commits.
<1>6. ASSUME NEW r \in Requests, Commit(r) PROVE OrderInv'
  <2> DEFINE k == call[r]
             l == LikeRow(r)
  <2>1. /\ Open(r) /\ ~Open(r)' /\ k \in Call /\ call' = call
        /\ LikeEvent(r) /\ CommentEvent(r) /\ outbox' = outbox \cup k.event
        /\ \A s \in Requests \ {r} : pc'[s] = pc[s]
    BY <1>6 DEF Commit, TypeOK, Open, Books, LikeEvents, CommentEvents
  <2>2. \A s \in Requests : LikeRow(s)' = LikeRow(s)
    BY <2>1 DEF LikeRow
  <2>3. l \in Posts \X Users /\ l[1] = k.post
    BY <2>1 DEF Call, LikeRow
  <2>4. ~Undoing(r)'
    BY <2>1 DEF Undoing
  <2>5. CASE k.op = "unlike" /\ l \in likes
    <3>1. PICK e \in k.event : k.event = {e}
      BY <2>1, <2>5 DEF LikeEvent, OneEvent
    <3>2. likes' = likes \ {l} /\ Undoing(r)
      BY <1>6, <2>1, <2>5 DEF Commit, CommitRows, LikeRow, Undoing
    <3>3. \A s \in Requests \ {r} : Undoing(s) => LikeRow(s) # l
      BY <2>1, <2>5, <3>1, OwnEvents
    <3>4. \A s \in Requests \ {r} : Undoing(s)' <=> Undoing(s)
      BY <2>1, <2>2, <3>2, <3>3 DEF Undoing, Open
    <3>5. Promised' = Promised
      BY <2>1, <2>4, <3>2, <3>4, <3>1, OwnEvents DEF Promised
    <3>6. Kept' = Kept
      BY <2>2, <2>4, <3>2, <3>4 DEF Kept
    <3> QED  BY <3>5, <3>6 DEF OrderInv
  <2>6. CASE k.op = "like" /\ l \notin likes
    <3>1. PICK e \in k.event : /\ k.event = {e} /\ e.field = "like_count"
                               /\ e.post = k.post /\ e.delta = 1
      BY <2>1, <2>6 DEF LikeEvent, OneEvent
    <3>2. likes' = likes \cup {l} /\ ~Undoing(r)
      BY <1>6, <2>6 DEF Commit, CommitRows, LikeRow, Undoing
    <3>3. /\ e \in CountEvent /\ e \notin outbox
          /\ \A s \in Requests \ {r} : Undoing(s) => e \notin call[s].event
      BY <2>1, <3>1, OwnEvents
    <3>4. \A s \in Requests \ {r} :
            Open(s) /\ call[s].op = "unlike" => LikeRow(s) # l
      BY <2>1, <2>6 DEF Books, LikeLocks
    <3>5. \A s \in Requests \ {r} : Undoing(s)' <=> Undoing(s)
      BY <2>1, <2>2, <3>2, <3>4 DEF Undoing, Open
    <3>6. e \notin Promised /\ Promised' = Promised \cup {e}
      BY <2>1, <2>4, <3>1, <3>2, <3>3, <3>5 DEF Promised
    <3>7. l \notin Kept /\ Kept' = Kept \cup {l}
      BY <2>2, <2>4, <2>6, <3>2, <3>4, <3>5 DEF Kept, Undoing
    <3>8. Fits(Promised \cup {e}, Kept \cup {l})
      BY <2>3, <3>1, <3>3, <3>6, <3>7, FitsLike DEF OrderInv
    <3> QED  BY <3>6, <3>7, <3>8 DEF OrderInv
  <2>7. CASE k.op \in {"comment", "delete_comment"}
    <3>1. PICK e \in k.event : k.event = {e} /\ e.field = "comment_count"
      BY <2>1, <2>7 DEF CommentEvent, OneEvent
    <3>2. likes' = likes /\ ~Undoing(r)
      BY <1>6, <2>7 DEF Commit, CommitRows, Undoing
    <3>3. /\ e \in CountEvent /\ e \notin outbox
          /\ \A s \in Requests \ {r} : Undoing(s) => e \notin call[s].event
      BY <2>1, <3>1, OwnEvents
    <3>4. \A s \in Requests \ {r} : Undoing(s)' <=> Undoing(s)
      BY <2>1, <2>2, <3>2 DEF Undoing, Open
    <3>5. e \notin Promised /\ Promised' = Promised \cup {e}
      BY <2>1, <2>4, <3>1, <3>2, <3>3, <3>4 DEF Promised
    <3>6. Kept' = Kept
      BY <2>2, <2>4, <3>2, <3>4 DEF Kept
    <3>7. Fits(Promised \cup {e}, Kept)
      BY <3>1, <3>3, <3>5, FitsComment DEF OrderInv
    <3> QED  BY <3>5, <3>6, <3>7 DEF OrderInv
  <2>8. CASE \/ k.op = "like" /\ l \in likes
             \/ k.op = "unlike" /\ l \notin likes
    <3>1. likes' = likes /\ outbox' = outbox /\ ~Undoing(r)
      BY <1>6, <2>1, <2>8 DEF Commit, CommitRows, LikeEvent, LikeRow, Undoing
    <3>2. \A s \in Requests \ {r} : Undoing(s)' <=> Undoing(s)
      BY <2>1, <2>2, <3>1 DEF Undoing, Open
    <3> QED  BY <1>1, <2>1, <2>4, <3>1, <3>2
  <2> QED  BY <2>1, <2>5, <2>6, <2>7, <2>8 DEF Call, Ops
\* A rolled back unlike takes its event with it and gives its row back.
<1>7. ASSUME NEW r \in Requests, Abort(r) PROVE OrderInv'
  <2> DEFINE l == LikeRow(r)
  <2>1. /\ likes' = likes /\ outbox' = outbox /\ ~Open(r)'
        /\ \A s \in Requests \ {r} : pc'[s] = pc[s] /\ call'[s] = call[s]
    BY <1>7 DEF Abort, TypeOK, Open
  <2>2. \A s \in Requests \ {r} : /\ Undoing(s)' <=> Undoing(s)
                                  /\ call'[s] = call[s] /\ LikeRow(s)' = LikeRow(s)
    BY <1>2, <2>1
  <2>3. ~Undoing(r)'
    BY <2>1 DEF Undoing
  <2>4. CASE ~Undoing(r)
    BY <1>1, <2>1, <2>2, <2>3, <2>4
  <2>5. CASE Undoing(r)
    <3>1. call[r] \in Call /\ LikeEvent(r) /\ Open(r) /\ call[r].op = "unlike" /\ l \in likes
      BY <2>5 DEF Undoing, Open, TypeOK, Books, LikeEvents
    <3>2. PICK e \in call[r].event : /\ call[r].event = {e} /\ e.field = "like_count"
                                     /\ e.post = call[r].post /\ e.delta = -1
      BY <3>1 DEF LikeEvent, OneEvent
    <3>3. /\ e \in CountEvent /\ e \notin outbox
          /\ \A s \in Requests \ {r} : Undoing(s) => e \notin call[s].event
          /\ \A s \in Requests \ {r} : Undoing(s) => LikeRow(s) # l
      BY <3>1, OwnEvents
    <3>4. e \notin Promised' /\ Promised = Promised' \cup {e}
      BY <2>1, <2>2, <2>3, <2>5, <3>2, <3>3 DEF Promised
    <3>5. l \notin Kept /\ Kept' = Kept \cup {l}
      BY <2>1, <2>2, <2>3, <2>5, <3>1, <3>3 DEF Kept
    <3>6. l \in Posts \X Users /\ l[1] = e.post
      BY <3>1, <3>2 DEF Call, LikeRow
    <3>7. Fits(Promised' \cup {e}, Kept)
      BY <3>4 DEF OrderInv
    <3>8. Fits(Promised', Kept \cup {l})
      BY <3>2, <3>3, <3>4, <3>5, <3>6, <3>7, FitsAbort
    <3> QED  BY <3>5, <3>8 DEF OrderInv
  <2> QED  BY <2>4, <2>5
<1>8. CASE UNCHANGED <<likes, outbox, pc, call>>
  BY <1>1, <1>8 DEF Undoing, Open, LikeRow
<1>9. ASSUME NEW p \in Posts,
              DeletePost(p) \/ ChangeCache(p)
      PROVE  UNCHANGED <<likes, outbox, pc, call>>
  BY <1>9 DEF DeletePost, ChangeCache
<1>10. UNCHANGED vars => UNCHANGED <<likes, outbox, pc, call>>
  BY DEF vars
<1> QED  BY <1>3, <1>4, <1>5, <1>6, <1>7, <1>8, <1>9, <1>10 DEF Next, Handler

(***************************************************************************)
(* In the order of their ids, which is not that of their commits, the like *)
(* events never take a count below zero: the row lock keeps every unlike   *)
(* behind the like it undoes, for any number of users and handlers.        *)
(***************************************************************************)
THEOREM InteractionIdOrder == Spec => []LikeIdOrder
<1>1. Init => OrderInv
  <2> SUFFICES ASSUME Init PROVE OrderInv
    OBVIOUS
  <2>1. Promised = {} /\ Kept = {}
    BY DEF Init, Promised, Kept, Undoing, Open
  <2>2. \A n : Cut({}, n) = {}
    BY DEF Cut
  <2>3. \A p : Standing({}, p) = {}
    BY DEF Standing
  <2>4. \A p : Net({}, "like_count", p) = 0
    BY NetEmpty
  <2> QED  BY <2>1, <2>2, <2>3, <2>4, FS_EmptySet DEF OrderInv, Fits
<1>2. IInv /\ OrderInv /\ [Next]_vars => OrderInv'
  BY OrderNext DEF IInv
<1>3. IInv /\ OrderInv => LikeIdOrder
  <2> SUFFICES ASSUME TypeOK, Books, OrderInv, NEW p \in Posts, NEW e \in outbox
               PROVE  Net({f \in outbox : f.id <= e.id}, "like_count", p) >= 0
    BY DEF LikeIdOrder, IInv
  <2> DEFINE S == {f \in outbox : f.id <= e.id}
             T == Cut(Promised, e.id)
  <2>1. e.id \in Nat /\ outbox \subseteq Promised
    BY DEF TypeOK, CountEvent, Promised
  <2>2. S \subseteq T /\ IsFiniteSet(T)
    BY <2>1, FS_Subset DEF Cut, OrderInv, Fits
  <2>3. \A f \in T \ S : f.delta = -1
    <3> SUFFICES ASSUME NEW f \in T \ S PROVE f.delta = -1
      OBVIOUS
    <3>1. PICK r \in Requests : Undoing(r) /\ f \in call[r].event
      BY DEF Cut, Promised
    <3> QED  BY <3>1 DEF Undoing, Books, LikeEvents, LikeEvent, OneEvent
  <2>4. Net(T, "like_count", p) >= 0
    BY <2>1 DEF OrderInv, Fits
  <2>5. Net(S, "like_count", p) >= Net(T, "like_count", p)
    BY <2>2, <2>3, NetWithout
  <2>6. Net(S, "like_count", p) \in Int /\ Net(T, "like_count", p) \in Int
    BY <2>2, FS_Subset, NetInt
  <2> QED  BY <2>4, <2>5, <2>6
<1> QED  BY <1>1, <1>2, <1>3, InductiveInv, PTL DEF Spec

-----------------------------------------------------------------------------
(* Every unlike undoes a like of its own: an older event of the same post, *)
(* committed before it.                                                    *)

LikesIn(S) == {e \in S : e.field = "like_count" /\ e.delta = 1}
UnlikesIn(S) == {e \in S : e.field = "like_count" /\ e.delta = -1}

\* undone: the like event an unlike takes back; behind: the one that made a row.
Paired(undone, behind) ==
  /\ undone \in [UnlikesIn(outbox) -> LikesIn(outbox)]
  /\ behind \in [likes -> LikesIn(outbox)]
  /\ \A u, v \in UnlikesIn(outbox) : undone[u] = undone[v] => u = v
  /\ \A l, m \in likes : behind[l] = behind[m] => l = m
  /\ \A u \in UnlikesIn(outbox), l \in likes : undone[u] # behind[l]
  /\ \A u \in UnlikesIn(outbox) : undone[u].post = u.post /\ undone[u].id < u.id
  /\ \A l \in likes : behind[l].post = l[1]
  /\ \A r \in Requests : Undoing(r) =>
       \A e \in call[r].event : behind[LikeRow(r)].id < e.id

LEMMA PairedInit == Init => \E undone, behind : Paired(undone, behind)
<1> SUFFICES ASSUME Init PROVE \E undone, behind : Paired(undone, behind)
  OBVIOUS
<1>1. UnlikesIn(outbox) = {} /\ likes = {} /\ \A r \in Requests : ~Undoing(r)
  BY DEF Init, UnlikesIn, Undoing, Open
<1> DEFINE none == [x \in {} |-> x]
<1>2. Paired(none, none)
  BY <1>1 DEF Paired
<1> QED  BY <1>2

LEMMA PairedNext ==
  ASSUME TypeOK, Books, NEW undone, NEW behind, Paired(undone, behind), [Next]_vars
  PROVE  \E g, h : /\ Paired(g, h)'
                   /\ \A u \in UnlikesIn(outbox) : g[u] = undone[u]
                   /\ \A u \in UnlikesIn(outbox') \ UnlikesIn(outbox) : g[u] \in outbox
<1> USE DEF redis, tables
<1> DEFINE Goal == \E g, h : /\ Paired(g, h)'
                             /\ \A u \in UnlikesIn(outbox) : g[u] = undone[u]
                             /\ \A u \in UnlikesIn(outbox') \ UnlikesIn(outbox) : g[u] \in outbox
\* Nothing is committed.
<1>1. ASSUME likes' = likes, outbox' = outbox,
             \A s \in Requests : Undoing(s)' =>
               \A e \in call'[s].event : behind[LikeRow(s)'].id < e.id
      PROVE  Goal
  <2>1. Paired(undone, behind)'
    BY <1>1 DEF Paired
  <2> QED  BY <1>1, <2>1
<1>2. ASSUME NEW r \in Requests, likes' = likes, outbox' = outbox, ~Undoing(r)',
             \A s \in Requests \ {r} : pc'[s] = pc[s] /\ call'[s] = call[s]
      PROVE  Goal
  <2>1. \A s \in Requests : Undoing(s)' =>
          Undoing(s) /\ call'[s] = call[s] /\ LikeRow(s)' = LikeRow(s)
    BY <1>2 DEF Undoing, Open, LikeRow
  <2> QED  BY <1>1, <1>2, <2>1 DEF Paired
<1>3. ASSUME NEW r \in Requests,
             CheckPost(r) \/ CheckComment(r) \/ ReadComment(r) \/ AfterInteraction(r) \/ Abort(r)
      PROVE  Goal
  <2>1. /\ likes' = likes /\ outbox' = outbox
        /\ \A s \in Requests \ {r} : pc'[s] = pc[s] /\ call'[s] = call[s]
        /\ ~Open(r)'
    BY <1>3 DEF CheckPost, CheckComment, Accept, ReadComment, AfterInteraction, Abort,
                TypeOK, Open
  <2> QED  BY <1>2, <2>1 DEF Undoing
<1>4. ASSUME NEW r \in Requests,
             InsertLike(r) \/ InsertComment(r) \/ DeleteComment(r)
      PROVE  Goal
  <2>1. OpensTx(r)
    BY <1>4, OpensEffect
  <2>2. call[r].op # "unlike"
    BY <1>4 DEF InsertLike, InsertComment, DeleteComment, Opens
  <2>3. ~Undoing(r)'
    BY <2>1, <2>2 DEF OpensTx, Undoing
  <2> QED  BY <1>2, <2>1, <2>3 DEF OpensTx
\* The id an unlike takes is larger than that of the like, which is committed.
<1>5. ASSUME NEW r \in Requests, DeleteLike(r) PROVE Goal
  <2>1. OpensTx(r)
    BY <1>5, OpensEffect
  <2>2. \A e \in call'[r].event : e.id = nextEvent
    BY <1>5 DEF DeleteLike, Opens, Enqueue, NoEnqueue, Event, TypeOK, Call, NoCall,
                Books, EventIds
  <2>3. \A l \in likes : behind[l].id < nextEvent
    BY DEF Paired, LikesIn, Books, EventIds
  <2>4. \A s \in Requests \ {r} : Undoing(s)' =>
          Undoing(s) /\ call'[s] = call[s] /\ LikeRow(s)' = LikeRow(s)
    BY <2>1 DEF OpensTx, Undoing, Open, LikeRow
  <2>5. Undoing(r)' => LikeRow(r)' \in likes
    BY <2>1 DEF OpensTx, Undoing
  <2>6. \A s \in Requests : Undoing(s)' =>
          \A e \in call'[s].event : behind[LikeRow(s)'].id < e.id
    BY <2>2, <2>3, <2>4, <2>5 DEF Paired
  <2> QED  BY <1>1, <2>1, <2>6 DEF OpensTx
<1>6. ASSUME NEW r \in Requests, Commit(r) PROVE Goal
  <2> DEFINE k == call[r]
             l == LikeRow(r)
  <2>1. /\ Open(r) /\ ~Open(r)' /\ k \in Call /\ call' = call
        /\ LikeEvent(r) /\ CommentEvent(r) /\ outbox' = outbox \cup k.event
        /\ \A s \in Requests \ {r} : pc'[s] = pc[s]
    BY <1>6 DEF Commit, TypeOK, Open, Books, LikeEvents, CommentEvents
  <2>2. \A s \in Requests : LikeRow(s)' = LikeRow(s)
    BY <2>1 DEF LikeRow
  <2>3. ~Undoing(r)'
    BY <2>1 DEF Undoing
  <2>4. l[1] = k.post
    BY DEF LikeRow
  <2>5. CASE k.op = "like" /\ l \notin likes
    <3>1. PICK e \in k.event : /\ k.event = {e} /\ e.field = "like_count"
                               /\ e.post = k.post /\ e.delta = 1
      BY <2>1, <2>5 DEF LikeEvent, OneEvent
    <3>2. likes' = likes \cup {l}
      BY <1>6, <2>5 DEF Commit, CommitRows, LikeRow
    <3>3. e \notin outbox
      BY <2>1, <3>1, OwnEvents
    <3>4. \A s \in Requests \ {r} :
            Open(s) /\ call[s].op = "unlike" => LikeRow(s) # l
      BY <2>1, <2>5 DEF Books, LikeLocks
    <3>5. \A s \in Requests : Undoing(s)' => Undoing(s) /\ LikeRow(s) # l
      BY <2>1, <2>2, <2>3, <3>2, <3>4 DEF Undoing, Open
    <3>6. /\ UnlikesIn(outbox') = UnlikesIn(outbox)
          /\ LikesIn(outbox') = LikesIn(outbox) \cup {e} /\ e \notin LikesIn(outbox)
      BY <2>1, <3>1, <3>3 DEF UnlikesIn, LikesIn
    <3> PICK h : h = [x \in likes' |-> IF x = l THEN e ELSE behind[x]]
      OBVIOUS
    <3>7. /\ h \in [likes' -> LikesIn(outbox')]
          /\ h[l] = e /\ \A x \in likes : h[x] = behind[x]
      BY <2>5, <3>2, <3>6 DEF Paired
    <3> HIDE DEF k, l
    <3>8. undone \in [UnlikesIn(outbox') -> LikesIn(outbox')]
      BY <3>6 DEF Paired
    <3>9. \A x, y \in likes' : h[x] = h[y] => x = y
      BY <3>2, <3>6, <3>7 DEF Paired
    <3>10. \A u \in UnlikesIn(outbox'), x \in likes' : undone[u] # h[x]
      BY <3>2, <3>6, <3>7 DEF Paired
    <3>11. \A x \in likes' : h[x].post = x[1]
      BY <2>4, <3>1, <3>2, <3>7 DEF Paired
    <3>12. \A s \in Requests : Undoing(s)' =>
             \A x \in call'[s].event : h[LikeRow(s)'].id < x.id
      BY <2>1, <2>2, <3>5, <3>7 DEF Paired, Undoing
    <3>13. Paired(undone, h)'
      BY <3>6, <3>7, <3>8, <3>9, <3>10, <3>11, <3>12 DEF Paired
    <3> QED  BY <3>6, <3>13
  <2>6. CASE k.op = "unlike" /\ l \in likes
    <3>1. PICK e \in k.event : /\ k.event = {e} /\ e.field = "like_count"
                               /\ e.post = k.post /\ e.delta = -1
      BY <2>1, <2>6 DEF LikeEvent, OneEvent
    <3>2. likes' = likes \ {l} /\ Undoing(r)
      BY <1>6, <2>1, <2>6 DEF Commit, CommitRows, LikeRow, Undoing
    <3>3. e \notin outbox
      BY <2>1, <3>1, OwnEvents
    <3>4. \A s \in Requests : Undoing(s)' => Undoing(s) /\ LikeRow(s) # l
      BY <2>1, <2>2, <2>3, <3>2 DEF Undoing, Open
    <3>5. /\ UnlikesIn(outbox') = UnlikesIn(outbox) \cup {e} /\ e \notin UnlikesIn(outbox)
          /\ LikesIn(outbox') = LikesIn(outbox)
      BY <2>1, <3>1, <3>3 DEF UnlikesIn, LikesIn
    <3> PICK g : g = [u \in UnlikesIn(outbox') |-> IF u = e THEN behind[l] ELSE undone[u]]
      OBVIOUS
    <3> PICK h : h = [x \in likes' |-> behind[x]]
      OBVIOUS
    <3>6. /\ behind[l] \in LikesIn(outbox) /\ behind[l].id < e.id /\ behind[l].post = e.post
      BY <2>4, <2>6, <3>1, <3>2 DEF Paired
    <3>7. /\ g \in [UnlikesIn(outbox') -> LikesIn(outbox')]
          /\ g[e] = behind[l] /\ \A u \in UnlikesIn(outbox) : g[u] = undone[u]
          /\ h \in [likes' -> LikesIn(outbox')] /\ \A x \in likes' : h[x] = behind[x]
      BY <3>2, <3>5, <3>6 DEF Paired
    <3> HIDE DEF k, l
    <3>8. \A u, v \in UnlikesIn(outbox') : g[u] = g[v] => u = v
      BY <2>6, <3>5, <3>7 DEF Paired
    <3>9. \A x, y \in likes' : h[x] = h[y] => x = y
      BY <3>2, <3>7 DEF Paired
    <3>10. \A u \in UnlikesIn(outbox'), x \in likes' : g[u] # h[x]
      BY <2>6, <3>2, <3>5, <3>7 DEF Paired
    <3>11. \A u \in UnlikesIn(outbox') : g[u].post = u.post /\ g[u].id < u.id
      BY <3>5, <3>6, <3>7 DEF Paired
    <3>12. \A x \in likes' : h[x].post = x[1]
      BY <3>2, <3>7 DEF Paired
    <3>13. \A s \in Requests : Undoing(s)' =>
             \A x \in call'[s].event : h[LikeRow(s)'].id < x.id
      BY <2>1, <2>2, <3>2, <3>4, <3>7 DEF Paired, Undoing
    <3>14. Paired(g, h)'
      BY <3>7, <3>8, <3>9, <3>10, <3>11, <3>12, <3>13 DEF Paired
    <3>15. g[e] \in outbox
      BY <3>6, <3>7 DEF LikesIn
    <3> QED  BY <3>5, <3>7, <3>14, <3>15
  <2>7. CASE \/ k.op \in {"comment", "delete_comment"}
             \/ k.op = "like" /\ l \in likes
             \/ k.op = "unlike" /\ l \notin likes
    <3>1. likes' = likes
      BY <1>6, <2>7 DEF Commit, CommitRows, LikeRow
    <3>2. UnlikesIn(outbox') = UnlikesIn(outbox) /\ LikesIn(outbox') = LikesIn(outbox)
      <4>1. \A e \in k.event : e.field = "comment_count"
        BY <2>1, <2>7 DEF LikeEvent, CommentEvent, OneEvent
      <4> QED  BY <2>1, <4>1 DEF UnlikesIn, LikesIn
    <3>3. \A s \in Requests : Undoing(s)' => Undoing(s)
      BY <2>1, <2>2, <2>3, <3>1 DEF Undoing, Open
    <3>4. Paired(undone, behind)'
      BY <2>1, <2>2, <3>1, <3>2, <3>3 DEF Paired
    <3> QED  BY <3>2, <3>4
  <2> QED  BY <2>1, <2>5, <2>6, <2>7 DEF Call, Ops
<1>7. CASE UNCHANGED <<likes, outbox, pc, call>>
  <2>1. \A s \in Requests : Undoing(s)' =>
          Undoing(s) /\ call'[s] = call[s] /\ LikeRow(s)' = LikeRow(s)
    BY <1>7 DEF Undoing, Open, LikeRow
  <2> QED  BY <1>1, <1>7, <2>1 DEF Paired
<1>8. ASSUME NEW p \in Posts,
              DeletePost(p) \/ ChangeCache(p)
      PROVE  UNCHANGED <<likes, outbox, pc, call>>
  BY <1>8 DEF DeletePost, ChangeCache
<1>9. UNCHANGED vars => UNCHANGED <<likes, outbox, pc, call>>
  BY DEF vars
<1>10. (\E r \in Requests : Handler(r)) => Goal
  <2> SUFFICES ASSUME NEW r \in Requests, Handler(r) PROVE Goal
    OBVIOUS
  <2> HIDE DEF Goal
  <2> QED  BY <1>3, <1>4, <1>5, <1>6 DEF Handler
<1>11. UNCHANGED <<likes, outbox, pc, call>> => Goal
  BY <1>7
<1> HIDE DEF Goal
<1>12. Goal
  BY <1>8, <1>9, <1>10, <1>11 DEF Next
<1> QED  BY <1>12 DEF Goal
=============================================================================
