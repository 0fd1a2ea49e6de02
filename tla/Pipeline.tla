------------------------------- MODULE Pipeline -------------------------------
(***************************************************************************)
(* The two processes together.  They share the database's outbox table and *)
(* the cache in Redis, and nothing else: the API fills the outbox, the     *)
(* worker empties it; both drop cache entries.                             *)
(***************************************************************************)
EXTENDS CountEvents, Sequences

CONSTANTS Users, Requests, HeatWeight, MaxEvents, MaxHeat,
          Workers, Servers, BatchSize, Prefetch, ConfirmBuffer, Limit, MaxFaults

VARIABLES
  outbox, cache,                                            \* shared
  live, likes, comments, nextEvent, nextComment, heat, pc, call,        \* API
  marked, dedup, counts, queue, dead, status, relay, consumer,       \* worker
  wire, confirms, unacked, faults,
  fill                                             \* the API's readers

apiVars == <<live, likes, comments, nextEvent, nextComment, heat, pc, call>>
workerVars == <<marked, dedup, counts, queue, dead, status, relay, consumer,
                wire, confirms, unacked, faults>>
vars == <<outbox, cache, fill, apiVars, workerVars>>

Back == INSTANCE Worker WITH Events <- CountEvent
API == INSTANCE Interaction WITH Entries <- Back!CacheStates

\* What Interaction and Worker assume of their constants.
ASSUME PipelineAssumption ==
  /\ MaxEvents \in Nat
  /\ MaxHeat \in Nat
  /\ HeatWeight \in [{"like", "comment"} -> Nat]
  /\ BatchSize \in Nat \ {0}
  /\ Prefetch \in Nat \ {0}
  /\ ConfirmBuffer \in Nat
  /\ Limit \in [Back!Faults -> Nat]
  /\ MaxFaults \in Nat

Init == API!Init /\ Back!Init

Handle(r) == API!Handler(r) /\ UNCHANGED <<fill, workerVars>>
Remove(p) == API!DeletePost(p) /\ UNCHANGED <<fill, workerVars>>
ReadThrough(p) == Back!ReadThrough(p) /\ UNCHANGED apiVars
Work(w) == Back!Work(w) /\ UNCHANGED apiVars

Next ==
  \/ \E r \in Requests : Handle(r)
  \/ \E p \in Posts : Remove(p) \/ ReadThrough(p)
  \/ \E w \in Workers : Work(w)

Spec == Init /\ [][Next]_vars

(***************************************************************************)
(* Relay, broker and consumer of a worker do not all stand still while one *)
(* of them can go on, and a TTL runs out.  Nothing is asked of the API's   *)
(* handlers and readers, of the faults, or of who might start a worker     *)
(* again.                                                                  *)
(***************************************************************************)
Runs(w) == Back!Relay(w) \/ Back!BrokerAccept(w) \/ Back!Deliver(w) \/ Back!Consume(w)

Fairness ==
  /\ \A w \in Workers : WF_vars(Runs(w) /\ UNCHANGED apiVars)
  /\ \A p \in Posts : WF_vars(Back!ExpireCache(p) /\ UNCHANGED apiVars)

FairSpec == Spec /\ Fairness

-----------------------------------------------------------------------------
(***************************************************************************)
(* With one worker process, no confirm late and nothing dead-lettered, no  *)
(* reader ever sees a negative like_count, although ids are handed out     *)
(* before commits, rounds are broken off at a rejected publish and         *)
(* repeated, and a crash requeues what was in hand: an unlike can never    *)
(* overtake the like it undoes.                                            *)
(***************************************************************************)
LikeCountNonNegative ==
  \A p \in Posts : counts["like_count"][p] >= 0

(***************************************************************************)
(* Once every committed event has been counted, the counters are the       *)
(* number of rows in likes, and at most the number of rows in comments.    *)
(***************************************************************************)
QuiescentCounts ==
  (\A e \in outbox : e.id \in dedup) =>
    \A p \in Posts :
      /\ counts["like_count"][p] = Cardinality(API!LikesOf(p))
      /\ counts["comment_count"][p] <= Cardinality(API!CommentsOf(p))

\* The likes part of the two processes implements the abstract service: what
\* it owes is what is committed and not in processed_events.
Service == INSTANCE CountService WITH
  owed <- {e \in outbox : e.field = "like_count" /\ e.id \notin dedup},
  count <- counts["like_count"]

(***************************************************************************)
(* Every step of API, relay, broker and consumer is a like or unlike that  *)
(* owes one event, the settlement of one owed event, or changes nothing of *)
(* the service: nothing is owed twice, settled twice or settled unowed.    *)
(***************************************************************************)
ImplementsCountService == Service!Spec

(***************************************************************************)
(* Unless a worker stays away, or a confirm is late: when the API commits  *)
(* no more, every event comes to be counted or dead-lettered, with its row *)
(* marked, and from some moment on no live post is cached with its         *)
(* counters behind.  Rounds may fail, a worker may die and be started      *)
(* again, a mark or a DEL may be lost, readers may be overtaken.           *)
(***************************************************************************)
EventuallySettled ==
  \/ \E w \in Workers : <>[](status[w] # "up")
  \/ <>(faults["timeout"] > 0)
  \/ <>[](/\ \A e \in outbox : e.id \in marked /\ (e.id \in dedup \/ e \in dead)
          /\ \A p \in live : cache[p] \in {"absent", "fresh"})
=============================================================================
