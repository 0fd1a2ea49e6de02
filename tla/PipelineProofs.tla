---------------------------- MODULE PipelineProofs ----------------------------
(***************************************************************************)
(* The two processes together, for any users, posts, handlers, workers and *)
(* faults.  First, composition: a step of the worker or of a reader is, to *)
(* the API's handlers, no more than a change of one cache entry, and a     *)
(* step of a handler is, to the worker, no more than a row that is         *)
(* committed or an entry that goes; so what InteractionProofs and          *)
(* WorkerProofs prove of each alone holds of the two together.  Then the   *)
(* properties that need both.                                              *)
(***************************************************************************)
EXTENDS Pipeline, CountEventsProofs

Front == INSTANCE InteractionProofs WITH Entries <- Back!CacheStates
Rear == INSTANCE WorkerProofs WITH Events <- CountEvent

\* The instances of a component define the same thing, once for its proofs and
\* once for Pipeline.
LEMMA SameCard ==
  ASSUME NEW S
  PROVE  /\ Back!Cardinality(S) = Cardinality(S) /\ Rear!Cardinality(S) = Cardinality(S)
         /\ Front!Cardinality(S) = Cardinality(S) /\ API!Cardinality(S) = Cardinality(S)
BY DEF Rear!Cardinality, Back!Cardinality, Cardinality, Front!Cardinality, API!Cardinality

\* A step of the worker, as the component's own proofs know it.
LEMMA SameWork ==
  ASSUME NEW w \in Workers, Back!Work(w)
  PROVE  Rear!Work(w)
<1> USE DEF Back!database, Back!broker, Back!channel, Rear!database, Rear!broker, Rear!channel
<1>1. \A k : Back!Fault(k) => Rear!Fault(k)
  BY SameCard DEF Back!Fault, Rear!Fault, Back!Faults, Rear!Faults,
                  Back!FaultsSoFar, Rear!FaultsSoFar
<1>2. \A e : Back!CountOnce(e) => Rear!CountOnce(e)
  BY DEF Back!CountOnce, Rear!CountOnce, Back!Count, Rear!Count
<1>3. CASE Back!Relay(w) \/ Back!ConfirmTimeout(w)
  <2>1. Back!FetchPending(w) => Rear!FetchPending(w)
    <3>1. Back!Pending = Rear!Pending
      BY DEF Back!Pending, Rear!Pending
    <3>2. Back!Oldest(Back!Pending) = Rear!Oldest(Rear!Pending)
      BY <3>1, SameCard DEF Back!Oldest, Rear!Oldest
    <3> QED  BY <3>1, <3>2
             DEF Back!FetchPending, Rear!FetchPending, Back!RelayGoes, Rear!RelayGoes
  <2>2. Back!Publish(w) => Rear!Publish(w)
    BY DEF Back!Publish, Rear!Publish, Back!First, Rear!First,
           Back!RelayGoes, Rear!RelayGoes
  <2>3. Back!TakeConfirm(w) => Rear!TakeConfirm(w)
    BY DEF Back!TakeConfirm, Rear!TakeConfirm, Back!Confirm, Rear!Confirm,
           Back!NextMessage, Rear!NextMessage, Back!First, Rear!First,
           Back!RelayGoes, Rear!RelayGoes
  <2>4. Back!ConfirmClosed(w) => Rear!ConfirmClosed(w)
    BY DEF Back!ConfirmClosed, Rear!ConfirmClosed, Back!RelayGoes, Rear!RelayGoes
  <2>5. Back!ConfirmTimeout(w) => Rear!ConfirmTimeout(w)
    BY <1>1 DEF Back!ConfirmTimeout, Rear!ConfirmTimeout, Back!RelayGoes, Rear!RelayGoes
  <2>6. Back!MarkProcessed(w) => Rear!MarkProcessed(w)
    BY <1>1 DEF Back!MarkProcessed, Rear!MarkProcessed, Back!NoFault, Rear!NoFault,
                Back!RelayGoes, Rear!RelayGoes
  <2> QED  BY <1>3, <2>1, <2>2, <2>3, <2>4, <2>5, <2>6 DEF Back!Relay, Rear!Relay, Rear!Work
<1>4. CASE Back!BrokerAccept(w) \/ Back!BrokerReject(w) \/ Back!Deliver(w)
  BY <1>1, <1>4 DEF Back!BrokerAccept, Rear!BrokerAccept, Back!BrokerReject,
                    Rear!BrokerReject, Back!Deliver, Rear!Deliver, Rear!Work
<1>5. CASE Back!Take(w) \/ Back!Ack(w) \/ Back!Nack(w)
  BY <1>5 DEF Back!Take, Rear!Take, Back!Busy, Rear!Busy,
              Back!Ack, Rear!Ack, Back!Nack, Rear!Nack, Back!Settle, Rear!Settle,
              Back!IdleConsumer, Rear!IdleConsumer, Rear!Consume, Rear!Work
<1>6. CASE Back!Apply(w) \/ Back!ApplyFails(w)
  BY <1>1, <1>2, <1>6
     DEF Back!Apply, Rear!Apply, Back!ApplyFails, Rear!ApplyFails, Rear!Consume, Rear!Work
<1>7. CASE Back!DelCache(w)
  BY <1>1, <1>7 DEF Back!DelCache, Rear!DelCache, Back!NoFault, Rear!NoFault,
                    Rear!Consume, Rear!Work
<1>8. CASE Back!ConnLost(w) \/ Back!Crash(w) \/ Back!Start(w)
  BY <1>1, <1>8
     DEF Back!ConnLost, Rear!ConnLost, Back!Crash, Rear!Crash, Back!Start, Rear!Start,
         Back!Requeue, Rear!Requeue, Back!IdleRelay, Rear!IdleRelay,
         Back!IdleConsumer, Rear!IdleConsumer, Rear!Work
<1> QED  BY <1>3, <1>4, <1>5, <1>6, <1>7, <1>8 DEF Back!Work, Back!Consume

\* The API's handlers, as the component's own proofs know them.
LEMMA SameHandler ==
  ASSUME NEW r \in Requests, API!Handler(r)
  PROVE  Front!Handler(r)
BY DEF API!Handler, Front!Handler,
       API!CheckPost, Front!CheckPost, API!CheckComment, Front!CheckComment,
       API!Accept, Front!Accept, API!tables, Front!tables, API!redis, Front!redis,
       API!InsertLike, Front!InsertLike, API!DeleteLike, Front!DeleteLike,
       API!InsertComment, Front!InsertComment, API!ReadComment, Front!ReadComment,
       API!DeleteComment, Front!DeleteComment, API!Opens, Front!Opens,
       API!RowFree, Front!RowFree, API!Row, Front!Row,
       API!Enqueue, Front!Enqueue, API!NoEnqueue, Front!NoEnqueue,
       API!Event, Front!Event, API!Commit, Front!Commit,
       API!CommitRows, Front!CommitRows, API!Abort, Front!Abort, API!NoCall, Front!NoCall,
       API!AfterInteraction, Front!AfterInteraction, API!Heat, Front!Heat,
       API!Saturate, Front!Saturate

LEMMA SamePost ==
  ASSUME NEW p \in Posts
  PROVE  /\ API!DeletePost(p) => Front!DeletePost(p)
         /\ Back!ReadThrough(p) => Rear!ReadThrough(p)
BY DEF API!DeletePost, Front!DeletePost, API!tables, Front!tables,
       Back!ReadThrough, Rear!ReadThrough, Back!ReadRow, Rear!ReadRow,
       Back!SetRow, Rear!SetRow, Back!Shown, Rear!Shown,
       Back!ExpireCache, Rear!ExpireCache, Back!database, Rear!database,
       Back!broker, Rear!broker, Back!channel, Rear!channel

\* What a handler may find changed of the cache between two of its steps.
LEMMA EntryChanges ==
  ASSUME Rear!TypeOK, NEW p \in Posts, NEW c \in Back!CacheStates,
         cache' = [cache EXCEPT ![p] = c], outbox' = outbox, UNCHANGED apiVars
  PROVE  Front!Next \/ UNCHANGED Front!vars
<1>1. cache \in [Posts -> Rear!CacheStates]
  BY DEF Rear!TypeOK
<1>2. CASE c = cache[p]
  <2>1. cache' = cache
    BY <1>1, <1>2
  <2> QED  BY <2>1 DEF Front!vars, apiVars
<1>3. CASE c # cache[p]
  <2>1. Front!ChangeCache(p)
    BY <1>3 DEF Front!ChangeCache, Front!tables, apiVars
  <2> QED  BY <2>1 DEF Front!Next
<1> QED  BY <1>2, <1>3

\* The API's handlers see of workers and readers that an entry changes.
LEMMA FrontNext ==
  ASSUME Rear!TypeOK, [Next]_vars
  PROVE  [Front!Next]_(Front!vars)
<1>1. ASSUME NEW r \in Requests, Handle(r) PROVE Front!Next
  BY <1>1, SameHandler DEF Handle, Front!Next
<1>2. ASSUME NEW p \in Posts, Remove(p) PROVE Front!Next
  BY <1>2, SamePost DEF Remove, Front!Next
<1>3. ASSUME NEW p \in Posts, ReadThrough(p) PROVE Front!Next \/ UNCHANGED Front!vars
  <2>1. Back!ReadThrough(p) /\ UNCHANGED apiVars /\ outbox' = outbox
    BY <1>3 DEF ReadThrough, Back!ReadThrough, Back!ReadRow, Back!SetRow,
                Back!ExpireCache, Back!database
  <2>2. cache' = cache \/ \E c \in Back!CacheStates : cache' = [cache EXCEPT ![p] = c]
    <3>1. CASE Back!ExpireCache(p)
      BY <3>1 DEF Back!ExpireCache, Back!CacheStates
    <3>2. ASSUME NEW s \in Servers, Back!ReadRow(s, p) PROVE cache' = cache
      BY <3>2 DEF Back!ReadRow
    <3>3. ASSUME NEW s \in Servers, Back!SetRow(s, p)
          PROVE  cache' = cache \/ \E c \in Back!CacheStates : cache' = [cache EXCEPT ![p] = c]
      <4>1. fill[s][p] \in {"current", "old", "missed"}
        BY <3>3 DEF Rear!TypeOK, Rear!FillStates, Back!SetRow
      <4>2. Back!Shown(fill[s][p]) \in Back!CacheStates
        BY <4>1 DEF Back!Shown, Back!CacheStates
      <4> QED  BY <3>3, <4>2 DEF Back!SetRow
    <3> QED  BY <2>1, <3>1, <3>2, <3>3 DEF Back!ReadThrough
  <2>3. CASE cache' = cache
    BY <2>1, <2>3 DEF Front!vars, apiVars
  <2> QED  BY <2>1, <2>2, <2>3, EntryChanges
<1>4. ASSUME NEW w \in Workers, Work(w) PROVE Front!Next \/ UNCHANGED Front!vars
  <2>1. Back!Work(w) /\ UNCHANGED apiVars
    BY <1>4 DEF Work
  <2>2. outbox' = outbox
    BY <2>1 DEF Back!Work, Back!Relay, Back!Consume, Back!FetchPending, Back!Publish,
       Back!TakeConfirm, Back!Confirm, Back!ConfirmClosed, Back!ConfirmTimeout,
       Back!MarkProcessed, Back!BrokerAccept, Back!BrokerReject, Back!Deliver, Back!Take,
       Back!Apply, Back!ApplyFails, Back!DelCache, Back!Ack, Back!Nack, Back!Settle,
       Back!ConnLost, Back!Crash, Back!Start, Back!database
  <2>3. cache' = cache \/ Back!Apply(w) \/ Back!ApplyFails(w) \/ Back!DelCache(w)
    BY <2>1 DEF Back!Work, Back!Relay, Back!Consume, Back!FetchPending, Back!Publish,
       Back!TakeConfirm, Back!Confirm, Back!ConfirmClosed, Back!ConfirmTimeout,
       Back!MarkProcessed, Back!BrokerAccept, Back!BrokerReject, Back!Deliver, Back!Take,
       Back!Ack, Back!Nack, Back!Settle, Back!ConnLost, Back!Crash, Back!Start
  <2>4. PICK q : q = consumer[w].msg.post
    OBVIOUS
  <2>5. consumer[w].pc # "idle" => q \in Posts
    BY <2>4 DEF Rear!TypeOK, Rear!IdleConsumer, CountEvent
  <2>6. cache \in [Posts -> Back!CacheStates]
    BY DEF Rear!TypeOK, Rear!CacheStates, Back!CacheStates
  <2>7. CASE cache' = cache
    BY <2>1, <2>2, <2>7 DEF Front!vars, apiVars
  <2>8. CASE cache' # cache /\ (Back!Apply(w) \/ Back!ApplyFails(w))
    <3>1. q \in Posts
      BY <2>5, <2>8 DEF Back!Apply, Back!ApplyFails
    <3>2. cache' = [cache EXCEPT ![q] = IF @ = "absent" THEN @ ELSE "stale"]
      BY <2>4, <2>8 DEF Back!Apply, Back!ApplyFails, Back!CountOnce, Back!Count
    <3>3. PICK c : c = IF cache[q] = "absent" THEN cache[q] ELSE "stale"
      OBVIOUS
    <3>4. c \in Back!CacheStates /\ cache' = [cache EXCEPT ![q] = c]
      BY <2>6, <3>1, <3>2, <3>3 DEF Back!CacheStates
    <3> QED  BY <2>1, <2>2, <3>1, <3>4, EntryChanges
  <2>9. CASE Back!DelCache(w)
    <3>1. q \in Posts
      BY <2>5, <2>9 DEF Back!DelCache
    <3>2. \/ cache' = [cache EXCEPT ![q] = "absent"]
          \/ cache' = [cache EXCEPT ![q] = IF @ = "stale" THEN "forgotten" ELSE @]
      BY <2>4, <2>9 DEF Back!DelCache
    <3>3. PICK c : /\ c \in {"absent", IF cache[q] = "stale" THEN "forgotten" ELSE cache[q]}
                   /\ cache' = [cache EXCEPT ![q] = c]
      BY <2>6, <3>1, <3>2
    <3>4. c \in Back!CacheStates
      BY <2>6, <3>1, <3>3 DEF Back!CacheStates
    <3> QED  BY <2>1, <2>2, <3>1, <3>3, <3>4, EntryChanges
  <2> QED  BY <2>3, <2>7, <2>8, <2>9
<1>5. CASE UNCHANGED vars
  BY <1>5 DEF vars, apiVars, Front!vars
<1> QED  BY <1>1, <1>2, <1>3, <1>4, <1>5 DEF Next

\* An open transaction holds at most one event, and its id is new.
LEMMA CommitProduces ==
  ASSUME Front!TypeOK, Front!Books, NEW r \in Requests, API!Commit(r),
         outbox' # outbox
  PROVE  \E e \in CountEvent :
           /\ e.id \notin {f.id : f \in outbox}
           /\ outbox' = outbox \cup {e}
<1>1. pc[r] = "open" /\ outbox' = outbox \cup call[r].event
  BY DEF API!Commit
<1>2. call[r] \in Front!Call
  BY <1>1 DEF Front!TypeOK
<1>3. /\ call[r].op \in {"like", "unlike", "comment", "delete_comment"}
      /\ call[r].event \subseteq CountEvent
  BY <1>2 DEF Front!Call, Front!Ops, Front!CountEvent, CountEvent, Front!Fields, Fields
<1>4. call[r].event = {} \/ \E e \in call[r].event : call[r].event = {e}
  BY <1>1, <1>3 DEF Front!Books, Front!LikeEvents, Front!LikeEvent, Front!CommentEvents,
     Front!CommentEvent, Front!OneEvent, Front!Open
<1>5. PICK e \in call[r].event : call[r].event = {e}
  BY <1>1, <1>4
<1>6. \A f \in outbox : f.id # e.id
  BY <1>1 DEF Front!Books, Front!EventIds, Front!Open
<1> QED  BY <1>1, <1>3, <1>5, <1>6

\* The worker sees of the API that rows are committed and entries come and go.
LEMMA RearNext ==
  ASSUME Front!TypeOK, Front!Books, Rear!TypeOK, [Next]_vars
  PROVE  [Rear!Next]_(Rear!vars)
<1>1. cache \in [Posts -> Rear!CacheStates]
  BY DEF Rear!TypeOK
<1>2. ASSUME NEW p \in Posts, UNCHANGED <<outbox, fill, workerVars>>,
             cache' = cache \/ cache' = [cache EXCEPT ![p] = "absent"]
      PROVE  Rear!Next \/ UNCHANGED Rear!vars
  <2>1. CASE cache' = cache
    BY <1>2, <2>1 DEF Rear!vars, workerVars
  <2>2. CASE cache' # cache
    <3>1. cache[p] # "absent" /\ cache' = [cache EXCEPT ![p] = "absent"]
      BY <1>1, <1>2, <2>2
    <3>2. Rear!ExpireCache(p)
      BY <1>2, <3>1
         DEF Rear!ExpireCache, workerVars, Rear!database, Rear!broker, Rear!channel
    <3> QED  BY <3>2 DEF Rear!Next, Rear!ReadThrough
  <2> QED  BY <2>1, <2>2
<1>3. ASSUME NEW r \in Requests, Handle(r) PROVE Rear!Next \/ UNCHANGED Rear!vars
  <2>1. API!Handler(r) /\ UNCHANGED <<fill, workerVars>>
    BY <1>3 DEF Handle
  <2>2. CASE API!AfterInteraction(r)
    <3>1. call[r].post \in Posts
      BY <2>2 DEF API!AfterInteraction, Front!TypeOK, Front!Call, Front!NoCall
    <3>2. /\ cache' \in {cache, [cache EXCEPT ![call[r].post] = "absent"]}
          /\ outbox' = outbox
      BY <2>2 DEF API!AfterInteraction, API!tables
    <3> QED  BY <1>2, <2>1, <3>1, <3>2
  <2>3. CASE API!Commit(r)
    <3>1. cache' = cache
      BY <2>3 DEF API!Commit, API!redis
    <3>2. CASE outbox' = outbox
      BY <2>1, <3>1, <3>2 DEF Rear!vars, workerVars
    <3>3. CASE outbox' # outbox
      <4>1. Rear!Produce
        BY <2>1, <2>3, <3>1, <3>3, CommitProduces
           DEF Rear!Produce, Rear!Ids, workerVars, Rear!broker, Rear!channel
      <4> QED  BY <4>1 DEF Rear!Next
    <3> QED  BY <3>2, <3>3
  <2>4. CASE ~API!AfterInteraction(r) /\ ~API!Commit(r)
    <3>1. UNCHANGED <<cache, outbox>>
      BY <2>1, <2>4
         DEF API!Handler, API!CheckPost, API!CheckComment, API!Accept, API!InsertLike,
             API!DeleteLike, API!InsertComment, API!ReadComment, API!DeleteComment,
             API!Opens, API!Abort, API!tables, API!redis
    <3> QED  BY <2>1, <3>1 DEF Rear!vars, workerVars
  <2> QED  BY <2>2, <2>3, <2>4
<1>4. ASSUME NEW p \in Posts, Remove(p) PROVE Rear!Next \/ UNCHANGED Rear!vars
  BY <1>2, <1>4 DEF Remove, API!DeletePost
<1>5. ASSUME NEW p \in Posts, ReadThrough(p) PROVE Rear!Next
  BY <1>5, SamePost DEF ReadThrough, Rear!Next
<1>6. ASSUME NEW w \in Workers, Work(w) PROVE Rear!Next
  BY <1>6, SameWork DEF Work, Rear!Next
<1>7. CASE UNCHANGED vars
  BY <1>7 DEF vars, workerVars, Rear!vars
<1> QED  BY <1>3, <1>4, <1>5, <1>6, <1>7 DEF Next

-----------------------------------------------------------------------------
(* The two processes together behave as each component does on its own.    *)

PInv == Front!TypeOK /\ Front!Books /\ Rear!TypeOK /\ Rear!Holding

LEMMA Starts == Init => Front!Init /\ Rear!Init
<1> SUFFICES ASSUME Init PROVE Front!Init /\ Rear!Init
  OBVIOUS
<1>1. Front!Init
  BY DEF Init, API!Init, Front!Init, API!NoCall, Front!NoCall
<1>2. Rear!Init
  BY DEF Init, Back!Init, Rear!Init, Back!Fields, Rear!Fields, Back!IdleRelay, Rear!IdleRelay,
         Back!IdleConsumer, Rear!IdleConsumer, Back!Faults, Rear!Faults
<1> QED  BY <1>1, <1>2

LEMMA PipelineInv == Spec => []PInv
<1>1. Init => PInv
  <2>1. Front!Init => Front!TypeOK /\ Front!Books
    BY PipelineAssumption, Front!TypeInit, Front!BooksInit DEF Back!CacheStates
  <2>2. Rear!Init => Rear!TypeOK /\ Rear!Holding
    BY PipelineAssumption, Rear!TypeInit
       DEF Rear!Faults, Back!Faults, Rear!CountEvent, CountEvent, Rear!Fields, Fields
  <2> QED  BY <2>1, <2>2, Starts DEF PInv
<1>2. PInv /\ [Next]_vars => PInv'
  <2>1. Front!TypeOK /\ [Front!Next]_(Front!vars) => Front!TypeOK'
    BY PipelineAssumption, Front!TypeNext DEF Back!CacheStates
  <2>2. Front!TypeOK /\ Front!Books /\ [Front!Next]_(Front!vars) => Front!Books'
    BY PipelineAssumption, Front!BooksNext DEF Back!CacheStates
  <2>3. Rear!TypeOK /\ Rear!Holding /\ [Rear!Next]_(Rear!vars) => Rear!TypeOK'
    BY PipelineAssumption, Rear!TypeNext
       DEF Rear!Faults, Back!Faults, Rear!CountEvent, CountEvent, Rear!Fields, Fields
  <2>4. Rear!TypeOK /\ Rear!Holding /\ [Rear!Next]_(Rear!vars) => Rear!Holding'
    BY PipelineAssumption, Rear!HoldingNext
       DEF Rear!Faults, Back!Faults, Rear!CountEvent, CountEvent, Rear!Fields, Fields
  <2> QED  BY <2>1, <2>2, <2>3, <2>4, FrontNext, RearNext DEF PInv
<1> QED  BY <1>1, <1>2, PTL DEF Spec

(***************************************************************************)
(* What the readers and the worker do is, to the handlers of likes and     *)
(* comments, cache entries that change, one at a time: every behaviour of  *)
(* the two processes is one of Interaction, and what is proved of          *)
(* Interaction holds beside a worker that fails in any way.                *)
(***************************************************************************)
THEOREM PipelineApi == Spec => Front!Spec
<1>1. PInv /\ [Next]_vars => [Front!Next]_(Front!vars)
  BY FrontNext DEF PInv
<1> QED  BY <1>1, Starts, PipelineInv, PTL DEF Spec, Front!Spec

(***************************************************************************)
(* What the API does is, to the worker, rows that are committed and cache  *)
(* entries that are filled and go: every behaviour of the two processes is *)
(* one of Worker.                                                          *)
(***************************************************************************)
THEOREM PipelineWorker == Spec => Rear!Spec
<1>1. PInv /\ [Next]_vars => [Rear!Next]_(Rear!vars)
  BY RearNext DEF PInv
<1> QED  BY <1>1, Starts, PipelineInv, PTL DEF Spec, Rear!Spec

-----------------------------------------------------------------------------
LEMMA SameNet ==
  ASSUME NEW S, NEW f, NEW p
  PROVE  Front!Net(S, f, p) = Net(S, f, p) /\ Rear!Net(S, f, p) = Net(S, f, p)
<1>1. \A d : Front!Of(S, f, p, d) = Of(S, f, p, d) /\ Rear!Of(S, f, p, d) = Of(S, f, p, d)
  BY DEF Front!Of, Rear!Of, Of
<1> QED  BY <1>1, SameCard DEF Front!Net, Rear!Net, Net

(***************************************************************************)
(* Once every committed event has been counted the counters are right: the *)
(* ledger of the API says what the outbox adds up to, the exactly-once     *)
(* effect of the worker that the counters are what the counted events add  *)
(* up to, however the two interleave and whatever fails.                   *)
(***************************************************************************)
THEOREM PipelineCounts == Spec => []QuiescentCounts
<1>1. Front!Spec => [](Front!LikeLedger /\ Front!CommentNeverOver)
  BY PipelineAssumption, Front!InteractionLedger DEF Back!CacheStates
<1>2. Rear!Spec => []Rear!ExactlyOnce
  BY PipelineAssumption, Rear!WorkerExactlyOnce
     DEF Rear!Faults, Back!Faults, Rear!CountEvent, CountEvent, Rear!Fields, Fields
<1>3. Front!LikeLedger /\ Front!CommentNeverOver /\ Rear!ExactlyOnce => QuiescentCounts
  <2> SUFFICES ASSUME Front!LikeLedger, Front!CommentNeverOver, Rear!ExactlyOnce,
                      \A e \in outbox : e.id \in dedup, NEW p \in Posts
               PROVE  /\ counts["like_count"][p] = Cardinality(API!LikesOf(p))
                      /\ counts["comment_count"][p] <= Cardinality(API!CommentsOf(p))
    BY DEF QuiescentCounts
  <2>1. {e \in outbox : e.id \in dedup} = outbox
    OBVIOUS
  <2>2. \A f \in Fields : counts[f][p] = Net(outbox, f, p)
    BY <2>1, SameNet DEF Rear!ExactlyOnce, Rear!Fields, Fields
  <2>3. /\ Net(outbox, "like_count", p) = Cardinality(API!LikesOf(p))
        /\ Net(outbox, "comment_count", p) <= Cardinality(API!CommentsOf(p))
    BY SameNet, SameCard
       DEF Front!LikeLedger, Front!CommentNeverOver, Front!LikesOf, API!LikesOf,
           Front!CommentsOf, API!CommentsOf
  <2> QED  BY <2>2, <2>3 DEF Fields
<1> QED  BY <1>1, <1>2, <1>3, PipelineApi, PipelineWorker, PTL

-----------------------------------------------------------------------------
(* The refinement. *)

\* Of the worker's steps, the consumer's commits alone count.
LEMMA OnlyApplyCounts ==
  ASSUME NEW w \in Workers, Back!Work(w)
  PROVE  /\ outbox' = outbox
         /\ \/ UNCHANGED <<dedup, counts>>
            \/ consumer[w].pc = "apply" /\ Back!CountOnce(consumer[w].msg)
BY DEF Back!Work, Back!Relay, Back!Consume, Back!FetchPending, Back!Publish,
       Back!TakeConfirm, Back!Confirm, Back!ConfirmClosed, Back!ConfirmTimeout,
       Back!MarkProcessed, Back!BrokerAccept, Back!BrokerReject, Back!Deliver, Back!Take,
       Back!Apply, Back!ApplyFails, Back!DelCache, Back!Ack, Back!Nack, Back!Settle,
       Back!ConnLost, Back!Crash, Back!Start, Back!database

\* Of a handler's steps, Commit alone changes the likes and the outbox.
LEMMA OnlyCommit ==
  ASSUME NEW r \in Requests, API!Handler(r)
  PROVE  UNCHANGED <<likes, outbox>> \/ API!Commit(r)
BY DEF API!Handler, API!CheckPost, API!CheckComment, API!Accept, API!InsertLike,
       API!DeleteLike, API!InsertComment, API!ReadComment, API!DeleteComment,
       API!Opens, API!Abort, API!AfterInteraction, API!tables

\* What Service owes, in Pipeline's instance.
Owed == {e \in outbox : e.field = "like_count" /\ e.id \notin dedup}

\* A commit owes the event of the row it changes, or nothing.
LEMMA CommitOwes ==
  ASSUME PInv, NEW r \in Requests, API!Commit(r), UNCHANGED workerVars
  PROVE  Service!Next \/ UNCHANGED Service!vars
<1> DEFINE k == call[r]
           l == <<k.post, k.user>>
<1>1. /\ pc[r] = "open" /\ outbox' = outbox \cup k.event
      /\ UNCHANGED <<dedup, counts>>
  BY DEF API!Commit, workerVars
<1>2. k \in Front!Call
  BY <1>1 DEF PInv, Front!TypeOK
<1>3. /\ k.op \in {"like", "unlike", "comment", "delete_comment"}
      /\ k.post \in Posts /\ k.user \in Users
  BY <1>2 DEF Front!Call, Front!Ops
<1>4. /\ Front!LikeEvent(r) /\ Front!CommentEvent(r)
      /\ \A e \in k.event : \A f \in outbox : f.id # e.id
  BY <1>1 DEF PInv, Front!Books, Front!LikeEvents, Front!CommentEvents,
              Front!EventIds, Front!Open
<1>5. \A e \in k.event : e.id \notin dedup
  <2>1. dedup \subseteq {f.id : f \in outbox}
    BY DEF PInv, Rear!TypeOK, Rear!Ids
  <2> QED  BY <1>4, <2>1
<1>6. ASSUME NEW e, k.event = {e}, e.field = "like_count"
      PROVE  e \in Owed' \ Owed /\ Owed' = Owed \cup {e}
  BY <1>1, <1>4, <1>5, <1>6 DEF Owed
<1>7. (\A e \in k.event : e.field # "like_count") => Owed' = Owed
  BY <1>1 DEF Owed
<1>8. CASE k.op = "like" /\ l \notin likes
  <2>1. PICK e : k.event = {e} /\ e.field = "like_count" /\ e.post = k.post /\ e.delta = 1
    BY <1>4, <1>8 DEF Front!LikeEvent, Front!OneEvent, Front!LikeRow
  <2>2. likes' = likes \cup {l}
    BY <1>8 DEF API!Commit, API!CommitRows
  <2>3. Service!Owe(k.post, 1)
    BY <1>6, <2>1 DEF Service!Owe, Owed
  <2>4. PICK p \in Posts, u \in Users : p = k.post /\ u = k.user
    BY <1>3
  <2>5. Service!Like(p, u)
    BY <1>1, <1>8, <2>2, <2>3, <2>4 DEF Service!Like, Service!Owe
  <2> QED  BY <2>5 DEF Service!Next
<1>9. CASE k.op = "unlike" /\ l \in likes
  <2>1. PICK e : k.event = {e} /\ e.field = "like_count" /\ e.post = k.post /\ e.delta = -1
    BY <1>4, <1>9 DEF Front!LikeEvent, Front!OneEvent, Front!LikeRow
  <2>2. likes' = likes \ {l}
    BY <1>9 DEF API!Commit, API!CommitRows
  <2>3. Service!Owe(k.post, -1)
    BY <1>6, <2>1 DEF Service!Owe, Owed
  <2>4. PICK p \in Posts, u \in Users : p = k.post /\ u = k.user
    BY <1>3
  <2>5. Service!Unlike(p, u)
    BY <1>1, <1>9, <2>2, <2>3, <2>4 DEF Service!Unlike, Service!Owe
  <2> QED  BY <2>5 DEF Service!Next
<1>10. CASE \/ k.op \in {"comment", "delete_comment"}
            \/ k.op = "like" /\ l \in likes
            \/ k.op = "unlike" /\ l \notin likes
  <2>1. likes' = likes
    BY <1>10 DEF API!Commit, API!CommitRows
  <2>2. \A e \in k.event : e.field # "like_count"
    BY <1>4, <1>10 DEF Front!LikeEvent, Front!CommentEvent, Front!OneEvent, Front!LikeRow
  <2> QED  BY <1>1, <1>7, <2>1, <2>2 DEF Service!vars, Owed
<1> QED  BY <1>3, <1>8, <1>9, <1>10

\* Counting a like event settles it, whatever else is owed.
LEMMA ApplySettles ==
  ASSUME PInv, NEW w \in Workers, consumer[w].pc = "apply",
         Back!CountOnce(consumer[w].msg), UNCHANGED <<likes, outbox>>
  PROVE  Service!Next \/ UNCHANGED Service!vars
<1>0. PICK e : e = consumer[w].msg
  OBVIOUS
<1>1. outbox' = outbox
  OBVIOUS
<1>2. e \in outbox
  BY <1>0 DEF PInv, Rear!TypeOK, Rear!IdleConsumer
<1>3. \A f \in outbox : f.id = e.id => f = e
  BY <1>2 DEF PInv, Rear!TypeOK
<1>4. IF e.id \in dedup
        THEN UNCHANGED <<dedup, counts>>
        ELSE /\ dedup' = dedup \cup {e.id}
             /\ counts' = [counts EXCEPT ![e.field][e.post] = @ + e.delta]
  BY <1>0 DEF Back!CountOnce, Back!Count
<1>5. "like_count" \in DOMAIN counts
  BY DEF PInv, Rear!TypeOK, Rear!Fields
<1>6. CASE e.id \in dedup
  BY <1>1, <1>4, <1>6 DEF Service!vars
<1>7. CASE e.id \notin dedup /\ e.field = "like_count"
  <2>1. e \in Owed /\ Owed' = Owed \ {e}
    BY <1>1, <1>2, <1>3, <1>4, <1>7 DEF Owed
  <2>2. counts'["like_count"] =
          [counts["like_count"] EXCEPT ![e.post] = @ + e.delta]
    BY <1>4, <1>5, <1>7
  <2>3. Service!Settle(e)
    BY <2>1, <2>2 DEF Service!Settle, Owed
  <2> QED  BY <2>1, <2>3 DEF Service!Next, Owed
<1>8. CASE e.id \notin dedup /\ e.field # "like_count"
  <2>1. Owed' = Owed
    BY <1>1, <1>2, <1>3, <1>4, <1>8 DEF Owed
  <2>2. counts'["like_count"] = counts["like_count"]
    BY <1>4, <1>5, <1>8
  <2> QED  BY <2>1, <2>2 DEF Service!vars, Owed
<1> QED  BY <1>6, <1>7, <1>8

(***************************************************************************)
(* The two processes implement CountService: a change of the likes table   *)
(* owes one event in the same step, and every owed event is settled once;  *)
(* all the rest, rounds, retries, duplicates, crashes, is stuttering.      *)
(***************************************************************************)
THEOREM PipelineImplements == Spec => ImplementsCountService
<1>1. Init => Service!Init
  BY DEF Init, API!Init, Back!Init, Back!Fields, Service!Init
<1>2. PInv /\ [Next]_vars => [Service!Next]_(Service!vars)
  <2> SUFFICES ASSUME PInv, [Next]_vars
               PROVE  Service!Next \/ UNCHANGED Service!vars
    OBVIOUS
  <2>1. UNCHANGED <<likes, outbox, dedup, counts>> => UNCHANGED Service!vars
    BY DEF Service!vars
  <2>2. ASSUME NEW r \in Requests, Handle(r)
        PROVE  Service!Next \/ UNCHANGED Service!vars
    BY <2>1, <2>2, OnlyCommit, CommitOwes DEF Handle, workerVars
  <2>3. ASSUME NEW p \in Posts, Remove(p) \/ ReadThrough(p)
        PROVE  UNCHANGED <<likes, outbox, dedup, counts>>
    BY <2>3 DEF Remove, ReadThrough, API!DeletePost, workerVars, apiVars,
                Back!ReadThrough, Back!ReadRow, Back!SetRow, Back!ExpireCache,
                Back!database
  <2>4. ASSUME NEW w \in Workers, Work(w)
        PROVE  Service!Next \/ UNCHANGED Service!vars
    BY <2>1, <2>4, OnlyApplyCounts, ApplySettles DEF Work, apiVars
  <2>5. CASE UNCHANGED vars
    BY <2>1, <2>5 DEF vars, apiVars, workerVars
  <2> QED  BY <2>1, <2>2, <2>3, <2>4, <2>5 DEF Next
<1> QED  BY <1>1, <1>2, PipelineInv, PTL DEF Spec, ImplementsCountService, Service!Spec

-----------------------------------------------------------------------------
(* No reader sees a negative like_count. *)

\* Every unlike of the outbox is kept behind the like that it undoes.
Behind(undone) == \A u \in Front!UnlikesIn(outbox) : Rear!Ordered(undone[u], u)
InTurn == \E undone, behind : Front!Paired(undone, behind) /\ Behind(undone)

LEMMA InTurnNext ==
  ASSUME PInv, Rear!Orderly, Rear!Calm, InTurn, [Next]_vars
  PROVE  InTurn'
<1>1. [Front!Next]_(Front!vars) /\ [Rear!Next]_(Rear!vars)
  BY FrontNext, RearNext DEF PInv
<1>2. PICK undone, behind : Front!Paired(undone, behind) /\ Behind(undone)
  BY DEF InTurn
<1>3. PICK g, h : /\ Front!Paired(g, h)'
                  /\ \A u \in Front!UnlikesIn(outbox) : g[u] = undone[u]
                  /\ \A u \in Front!UnlikesIn(outbox') \ Front!UnlikesIn(outbox) :
                       g[u] \in outbox
  BY <1>1, <1>2, PipelineAssumption, Front!PairedNext DEF PInv, Back!CacheStates
<1>4. ASSUME NEW u \in Front!UnlikesIn(outbox') PROVE Rear!Ordered(g[u], u)'
  <2>1. CASE u \in outbox
    <3>1. u \in Front!UnlikesIn(outbox)
      BY <2>1 DEF Front!UnlikesIn
    <3>2. /\ Rear!Ordered(g[u], u) /\ g[u] = undone[u]
          /\ undone[u] \in outbox /\ undone[u].id < u.id
      BY <1>2, <1>3, <3>1 DEF Behind, Front!Paired, Front!LikesIn
    <3> QED  BY <1>1, <2>1, <3>2, PipelineAssumption, Rear!OrderedNext
             DEF PInv, Rear!Calm, Rear!Faults, Back!Faults, Rear!CountEvent, CountEvent,
                 Rear!Fields, Fields
  <2>2. CASE u \notin outbox
    <3>1. u \in outbox' \ outbox /\ g[u] \in outbox
      BY <1>3, <2>2 DEF Front!UnlikesIn
    <3>2. Rear!Produce
      BY <1>1, <3>1, PipelineAssumption, Rear!OnlyCommits
         DEF PInv, Rear!Commits, Rear!Faults, Back!Faults, Rear!CountEvent, CountEvent,
             Rear!Fields, Fields
    <3> QED  BY <3>1, <3>2, PipelineAssumption, Rear!OrderedProduce
             DEF PInv, Rear!Faults, Back!Faults, Rear!CountEvent, CountEvent,
                 Rear!Fields, Fields
  <2> QED  BY <2>1, <2>2
<1>5. Behind(g)'
  BY <1>4 DEF Behind, Front!UnlikesIn
<1> QED  BY <1>3, <1>5 DEF InTurn

\* The counted unlikes of a post have as many counted likes of it to undo.
LEMMA InTurnCounts ==
  ASSUME PInv, IsFiniteSet(outbox), InTurn, Rear!ExactlyOnce
  PROVE  LikeCountNonNegative
<1> SUFFICES ASSUME NEW p \in Posts PROVE counts["like_count"][p] >= 0
  BY DEF LikeCountNonNegative
<1> DEFINE C == {e \in outbox : e.id \in dedup}
           L == Of(C, "like_count", p, 1)
           U == Of(C, "like_count", p, -1)
<1>1. PICK undone, behind : Front!Paired(undone, behind) /\ Behind(undone)
  BY DEF InTurn
<1>2. U \subseteq Front!UnlikesIn(outbox)
  BY DEF Of, Front!UnlikesIn
<1>3. ASSUME NEW u \in U PROVE undone[u] \in L
  <2>1. undone[u] \in Front!LikesIn(outbox) /\ undone[u].post = u.post
    BY <1>1, <1>2 DEF Front!Paired
  <2>2. undone[u].id \in dedup
    BY <1>1, <1>2 DEF Behind, Rear!Ordered, Of
  <2> QED  BY <2>1, <2>2 DEF Front!LikesIn, Of
<1> DEFINE g == [u \in U |-> undone[u]]
<1>4. g \in [U -> L] /\ \A u, v \in U : g[u] = g[v] => u = v
  BY <1>1, <1>2, <1>3 DEF Front!Paired
<1>5. IsFiniteSet(C)
  BY FS_Subset
<1> HIDE DEF C, g
<1>6. Net(C, "like_count", p) >= 0
  BY <1>4, <1>5, NetMatched
<1> QED  BY <1>6, SameNet DEF C, Rear!ExactlyOnce, Rear!Fields

(***************************************************************************)
(* With one worker process, no confirm late and nothing dead-lettered, no  *)
(* reader ever sees a negative like_count, for any number of users, posts, *)
(* handlers and events and whatever else fails.  Every unlike has a like   *)
(* of its own with a smaller id, committed before it (the row lock), and   *)
(* the worker does not count it before that like (WorkerInOrder).          *)
(***************************************************************************)
THEOREM PipelineNonNegative ==
  ASSUME \A v, w \in Workers : v = w, Limit["timeout"] = 0, Limit["apply"] = 0
  PROVE  Spec => []LikeCountNonNegative
<1> Rear!Orderly
  BY DEF Rear!Orderly
<1>1. Init => Rear!Calm /\ InTurn
  <2> SUFFICES ASSUME Init PROVE Rear!Calm /\ InTurn
    OBVIOUS
  <2>1. Front!Init /\ Rear!Init /\ outbox = {}
    BY Starts DEF Front!Init
  <2>2. Rear!Calm
    BY <2>1, PipelineAssumption, Rear!CalmInit
       DEF Rear!Faults, Back!Faults, Rear!CountEvent, CountEvent, Rear!Fields, Fields
  <2>3. \E undone, behind : Front!Paired(undone, behind)
    BY <2>1, PipelineAssumption, Front!PairedInit DEF Back!CacheStates
  <2>4. Front!UnlikesIn(outbox) = {}
    BY <2>1 DEF Front!UnlikesIn
  <2> QED  BY <2>2, <2>3, <2>4 DEF InTurn, Behind
<1>2. PInv /\ Rear!Calm /\ [Next]_vars => Rear!Calm'
  <2> SUFFICES ASSUME PInv, Rear!Calm, [Next]_vars PROVE Rear!Calm'
    OBVIOUS
  <2>1. [Rear!Next]_(Rear!vars)
    BY RearNext DEF PInv
  <2> QED  BY <2>1, PipelineAssumption, Rear!CalmNext
           DEF PInv, Rear!Faults, Back!Faults, Rear!CountEvent, CountEvent,
               Rear!Fields, Fields
<1>3. PInv /\ Rear!Calm /\ InTurn /\ [Next]_vars => InTurn'
  BY InTurnNext
<1>4. Rear!Spec => []Rear!ExactlyOnce
  BY PipelineAssumption, Rear!WorkerExactlyOnce
     DEF Rear!Faults, Back!Faults, Rear!CountEvent, CountEvent, Rear!Fields, Fields
<1>5. PInv /\ Rear!Calm /\ InTurn /\ Rear!ExactlyOnce => LikeCountNonNegative
  <2>1. Rear!Calm => IsFiniteSet(outbox)
    BY DEF Rear!Calm, Rear!IsFiniteSet, IsFiniteSet
  <2> QED  BY <2>1, InTurnCounts
<1> QED  BY <1>1, <1>2, <1>3, <1>4, <1>5, PipelineInv, PipelineWorker, PTL DEF Spec
=============================================================================
