----------------------------- MODULE WorkerProofs -----------------------------
(***************************************************************************)
(* Worker for any number of workers, posts and events, any batch size,     *)
(* prefetch and bound on faults.                                           *)
(*                                                                         *)
(* ExactlyOnce needs no history of the messages.  Every message in the     *)
(* broker, on a channel or in a consumer's hand is an outbox row (TypeOK), *)
(* ids identify rows (also TypeOK), and a commit writes the id and the     *)
(* counter in one step; so the set of counted rows grows by exactly the    *)
(* row whose delta is added.  A row committed later cannot be in the set   *)
(* already, because its id is new.                                         *)
(*                                                                         *)
(* ConfirmsOwed counts what is due on a channel.  NoLoss builds on it: if  *)
(* no confirm is late, the one that arrives is about the row the relay     *)
(* waits for.  NoLoss and StaleCovered both follow a message from hand to  *)
(* hand until it is settled.                                               *)
(*                                                                         *)
(* Last, the order of two rows: one worker that takes no confirm late and  *)
(* dead-letters nothing counts them as they were committed.                *)
(***************************************************************************)
EXTENDS Worker, CountEventsProofs

Counted == {e \in outbox : e.id \in dedup}

\* A delivery in hand is unacknowledged as long as the connection lasts, and a
\* stopped worker has none.  Without it Settle could take the tail of nothing.
Holding ==
  \A w \in Workers :
    /\ status[w] = "down" => consumer[w].pc = "idle"
    /\ status[w] = "up" /\ consumer[w].pc # "idle" => unacked[w] # <<>>

IInv == TypeOK /\ Holding /\ IsFiniteSet(outbox) /\ ExactlyOnce

-----------------------------------------------------------------------------
\* A subset of a larger outbox is typed over the larger outbox too.
LEMMA SeqGrows ==
  ASSUME NEW S, NEW T, S \subseteq T, NEW q \in Seq(S)
  PROVE  q \in Seq(T)
OBVIOUS

\* What requeueing and settling do to a queue.
LEMMA SeqOps ==
  ASSUME NEW S, NEW q \in Seq(S)
  PROVE  /\ <<>> \in Seq(S)
         /\ \A e \in S : Append(q, e) \in Seq(S) /\ Append(q, e) # <<>>
         /\ \A r \in Seq(S) : q \o r \in Seq(S)
         /\ q # <<>> => Head(q) \in S /\ Tail(q) \in Seq(S)
<1>1. \A e \in S : Append(q, e) \in Seq(S) /\ Len(Append(q, e)) = Len(q) + 1
  OBVIOUS
<1>2. Len(q) \in Nat /\ Len(<<>>) = 0
  OBVIOUS
<1>3. \A e \in S : Append(q, e) # <<>>
  BY <1>1, <1>2
<1>4. /\ <<>> \in Seq(S)
      /\ \A r \in Seq(S) : q \o r \in Seq(S)
      /\ q # <<>> => Head(q) \in S /\ Tail(q) \in Seq(S)
  OBVIOUS
<1> QED  BY <1>1, <1>3, <1>4

\* The parts of TypeOK that one action replaces.
RelayRound == [pc : {"idle", "publish", "confirm", "mark"},
               batch : SUBSET outbox, done : SUBSET Ids(outbox)]
InHand == [pc : {"apply", "del", "ack", "nack"}, msg : outbox]

\* A round's next state is typed when its parts are.
LEMMA RelayType ==
  ASSUME TypeOK, NEW w \in Workers,
         NEW pc \in {"idle", "publish", "confirm", "mark"},
         NEW batch \in SUBSET outbox, NEW done \in SUBSET Ids(outbox),
         RelayGoes(w, pc, batch, done)
  PROVE  relay' \in [Workers -> RelayRound]
<1> DEFINE rec == [pc |-> pc, batch |-> batch, done |-> done]
<1>1. rec \in RelayRound
  BY DEF RelayRound
<1>2. relay \in [Workers -> RelayRound]
  BY DEF TypeOK, RelayRound
<1>3. relay' = [relay EXCEPT ![w] = rec]
  BY DEF RelayGoes
<1> HIDE DEF rec
<1> QED  BY <1>1, <1>2, <1>3

\* A round in progress holds outbox rows and ids of outbox rows.
LEMMA RelayParts ==
  ASSUME TypeOK, NEW w \in Workers
  PROVE  /\ relay[w].batch \in SUBSET outbox
         /\ relay[w].done \in SUBSET Ids(outbox)
BY DEF TypeOK

LEMMA FaultType ==
  ASSUME TypeOK, NEW k \in Faults, Fault(k)
  PROVE  faults' \in [Faults -> Nat]
BY DEF TypeOK, Fault

\* The delivery in hand stays typed when its handler goes on or ends.
LEMMA ConsumerType ==
  ASSUME TypeOK, NEW w \in Workers
  PROVE  /\ consumer[w].pc # "idle" => consumer[w] \in InHand
         /\ \A e \in outbox : Busy("apply", e) \in InHand
         /\ \A c \in InHand \cup {IdleConsumer} :
              [consumer EXCEPT ![w] = c] \in [Workers -> {IdleConsumer} \cup InHand]
         /\ \A n \in {"apply", "del", "ack", "nack"} : consumer[w].pc # "idle" =>
              [consumer EXCEPT ![w].pc = n] \in [Workers -> {IdleConsumer} \cup InHand]
<1>1. consumer \in [Workers -> {IdleConsumer} \cup InHand]
  BY DEF TypeOK, InHand
<1>2. consumer[w].pc # "idle" => consumer[w] \in InHand
  BY <1>1 DEF IdleConsumer
<1>3. ASSUME NEW n \in {"apply", "del", "ack", "nack"}, consumer[w].pc # "idle"
      PROVE  [consumer EXCEPT ![w].pc = n] \in [Workers -> {IdleConsumer} \cup InHand]
  <2> DEFINE c == [consumer[w] EXCEPT !.pc = n]
  <2>1. c \in InHand
    BY <1>2, <1>3 DEF InHand
  <2>2. [consumer EXCEPT ![w].pc = n] = [consumer EXCEPT ![w] = c]
    OBVIOUS
  <2> HIDE DEF c
  <2> QED  BY <1>1, <2>1, <2>2
<1>4. \A e \in outbox : Busy("apply", e) \in InHand
  BY DEF Busy, InHand
<1>5. \A c \in InHand \cup {IdleConsumer} :
        [consumer EXCEPT ![w] = c] \in [Workers -> {IdleConsumer} \cup InHand]
  BY <1>1
<1> QED  BY <1>2, <1>3, <1>4, <1>5

\* A channel's queues stay typed.
LEMMA ChannelType ==
  ASSUME NEW T, NEW f \in [Workers -> Seq(T)], NEW w \in Workers
  PROVE  /\ \A e \in T : [f EXCEPT ![w] = Append(@, e)] \in [Workers -> Seq(T)]
         /\ f[w] # <<>> => [f EXCEPT ![w] = Tail(@)] \in [Workers -> Seq(T)]
         /\ [f EXCEPT ![w] = <<>>] \in [Workers -> Seq(T)]
<1>1. f[w] \in Seq(T)
  OBVIOUS
<1>2. \A q \in Seq(T) : [f EXCEPT ![w] = q] \in [Workers -> Seq(T)]
  OBVIOUS
<1>3. \A e \in T : Append(f[w], e) \in Seq(T)
  BY <1>1, SeqOps
<1>4. f[w] # <<>> => Tail(f[w]) \in Seq(T)
  BY <1>1, SeqOps
<1>5. <<>> \in Seq(T)
  OBVIOUS
<1> QED  BY <1>2, <1>3, <1>4, <1>5

LEMMA TypeInit == Init => TypeOK /\ Holding
BY WorkerAssumption DEF Init, TypeOK, Holding, IdleRelay, IdleConsumer, Fields, Ids,
                        CacheStates, FillStates

\* A message that is counted, or counted already.
LEMMA CountType ==
  ASSUME TypeOK, NEW e \in outbox, CountOnce(e)
  PROVE  /\ dedup' \subseteq Ids(outbox) /\ dedup \subseteq dedup' /\ e.id \in dedup'
         /\ counts' \in [Fields -> [Posts -> Int]]
         /\ cache' \in [Posts -> CacheStates]
         /\ fill' \in [Servers -> [Posts -> FillStates]]
<1>1. e.id \in Ids(outbox) /\ e.field \in Fields /\ e.post \in Posts /\ e.delta \in Int
  BY WorkerAssumption DEF TypeOK, CountEvent, Ids
<1>2. CASE e.id \in dedup
  BY <1>2 DEF CountOnce, TypeOK
<1>3. CASE e.id \notin dedup
  <2>1. /\ dedup' = dedup \cup {e.id}
        /\ counts' = [counts EXCEPT ![e.field][e.post] = @ + e.delta]
        /\ cache' = [cache EXCEPT ![e.post] = IF @ = "absent" THEN @ ELSE "stale"]
        /\ fill' = [s \in Servers |->
             [fill[s] EXCEPT ![e.post] = IF @ = "none" THEN @ ELSE "old"]]
    BY <1>3 DEF CountOnce, Count
  <2>2. dedup' \subseteq Ids(outbox) /\ dedup \subseteq dedup' /\ e.id \in dedup'
    BY <1>1, <2>1 DEF TypeOK
  <2>3. counts' \in [Fields -> [Posts -> Int]]
    <3>1. counts \in [Fields -> [Posts -> Int]]
      BY DEF TypeOK
    <3>2. counts[e.field][e.post] + e.delta \in Int
      BY <1>1, <3>1
    <3>3. [counts[e.field] EXCEPT ![e.post] = @ + e.delta] \in [Posts -> Int]
      BY <1>1, <3>1, <3>2
    <3>4. [counts EXCEPT ![e.field][e.post] = @ + e.delta] \in [Fields -> [Posts -> Int]]
      BY <1>1, <3>1, <3>3
    <3> QED  BY <2>1, <3>4
  <2>4. cache' \in [Posts -> CacheStates]
    BY <2>1 DEF TypeOK, CacheStates
  <2>5. fill' \in [Servers -> [Posts -> FillStates]]
    <3>1. \A s \in Servers : fill[s] \in [Posts -> FillStates]
      BY DEF TypeOK
    <3>2. \A s \in Servers : [fill[s] EXCEPT ![e.post] = IF @ = "none" THEN @ ELSE "old"]
                               \in [Posts -> FillStates]
      BY <3>1 DEF FillStates
    <3> QED  BY <2>1, <3>2
  <2> QED  BY <2>2, <2>3, <2>4, <2>5
<1> QED  BY <1>2, <1>3

\* What one flight does to the entry and to what is read.
LEMMA ReadThroughType ==
  ASSUME TypeOK, NEW p \in Posts, ReadThrough(p)
  PROVE  cache' \in [Posts -> CacheStates] /\ fill' \in [Servers -> [Posts -> FillStates]]
<1>1. cache \in [Posts -> CacheStates] /\ fill \in [Servers -> [Posts -> FillStates]]
  BY DEF TypeOK
<1>2. ASSUME NEW s \in Servers, NEW x \in FillStates
      PROVE  [fill EXCEPT ![s][p] = x] \in [Servers -> [Posts -> FillStates]]
  BY <1>1
<1>3. CASE ExpireCache(p)
  BY <1>1, <1>3 DEF ExpireCache, CacheStates
<1>4. ASSUME NEW s \in Servers, ReadRow(s, p)
      PROVE  cache' = cache /\ fill' \in [Servers -> [Posts -> FillStates]]
  BY <1>2, <1>4 DEF ReadRow, FillStates
<1>5. ASSUME NEW s \in Servers, SetRow(s, p)
      PROVE  cache' \in [Posts -> CacheStates]
             /\ fill' \in [Servers -> [Posts -> FillStates]]
  <2>1. fill[s][p] \in FillStates \ {"none"}
    BY <1>1, <1>5 DEF SetRow
  <2>2. Shown(fill[s][p]) \in CacheStates
    BY <2>1 DEF FillStates, Shown, CacheStates
  <2>3. cache' \in [Posts -> CacheStates]
    BY <1>1, <1>5, <2>2 DEF SetRow
  <2> QED  BY <1>2, <1>5, <2>3 DEF SetRow, FillStates
<1> QED  BY <1>1, <1>3, <1>4, <1>5 DEF ReadThrough

LEMMA TypeNext == TypeOK /\ Holding /\ [Next]_vars => TypeOK'
<1> SUFFICES ASSUME TypeOK, Holding, [Next]_vars PROVE TypeOK'
  OBVIOUS
<1>1. ASSUME NEW w \in Workers, Relay(w) \/ ConfirmTimeout(w) PROVE TypeOK'
  <2>1. CASE FetchPending(w)
    <3>1. Oldest(Pending) \in SUBSET outbox /\ {} \in SUBSET Ids(outbox)
      BY DEF Oldest, Pending
    <3>2. relay' \in [Workers -> RelayRound]
      BY <2>1, <3>1, RelayType DEF FetchPending
    <3> QED  BY <2>1, <3>2 DEF FetchPending, TypeOK, RelayRound, database, broker, channel
  <2>2. CASE ConfirmClosed(w) \/ ConfirmTimeout(w)
    <3>1. relay' \in [Workers -> RelayRound]
      BY <2>2, RelayParts, RelayType DEF ConfirmClosed, ConfirmTimeout
    <3>2. faults' \in [Faults -> Nat]
      BY <2>2, FaultType DEF ConfirmClosed, ConfirmTimeout, Faults, TypeOK
    <3> QED  BY <2>2, <3>1, <3>2
             DEF ConfirmClosed, ConfirmTimeout, TypeOK, RelayRound, database, broker, channel
  <2>3. CASE MarkProcessed(w)
    <3>1. relay' \in [Workers -> RelayRound]
      BY <2>3, RelayType DEF MarkProcessed
    <3>2. faults' \in [Faults -> Nat]
      BY <2>3, FaultType DEF MarkProcessed, Faults, TypeOK, NoFault
    <3>3. marked' \subseteq Ids(outbox)
      BY <2>3, RelayParts DEF MarkProcessed, TypeOK
    <3> QED  BY <2>3, <3>1, <3>2, <3>3
             DEF MarkProcessed, TypeOK, RelayRound, broker, channel
  <2>4. CASE Publish(w)
    <3>1. PICK e \in First(relay[w].batch) :
            IF status[w] = "up"
              THEN /\ wire' = [wire EXCEPT ![w] = Append(@, e)]
                   /\ RelayGoes(w, "confirm", relay[w].batch, relay[w].done)
              ELSE /\ wire' = wire
                   /\ RelayGoes(w, "mark", {}, relay[w].done)
      BY <2>4 DEF Publish
    <3>2. e \in outbox
      BY RelayParts DEF First
    <3>3. wire' \in [Workers -> Seq(outbox)]
      <4>1. [wire EXCEPT ![w] = Append(@, e)] \in [Workers -> Seq(outbox)]
        BY <3>2, ChannelType DEF TypeOK
      <4> QED  BY <3>1, <4>1 DEF TypeOK
    <3>4. relay' \in [Workers -> RelayRound]
      BY <3>1, RelayParts, RelayType
    <3> QED  BY <2>4, <3>3, <3>4 DEF Publish, TypeOK, RelayRound, database, broker
  <2>5. CASE TakeConfirm(w)
    <3>1. confirms' \in [Workers -> Seq(BOOLEAN)]
      BY <2>5, ChannelType DEF TakeConfirm, Confirm, TypeOK
    <3>2. relay' \in [Workers -> RelayRound]
      <4>1. CASE Head(confirms[w])
        <5>1. PICK e \in First(relay[w].batch) :
                RelayGoes(w, IF relay[w].batch \ {e} = {} THEN "mark" ELSE "publish",
                          relay[w].batch \ {e}, relay[w].done \cup {e.id})
          BY <2>5, <4>1 DEF TakeConfirm, NextMessage
        <5>2. /\ relay[w].batch \ {e} \in SUBSET outbox
              /\ relay[w].done \cup {e.id} \in SUBSET Ids(outbox)
          BY RelayParts DEF First, Ids
        <5> QED  BY <5>1, <5>2, RelayType
      <4>2. CASE ~Head(confirms[w])
        <5>1. RelayGoes(w, "mark", {}, relay[w].done)
          BY <2>5, <4>2 DEF TakeConfirm
        <5> QED  BY <5>1, RelayParts, RelayType
      <4> QED  BY <4>1, <4>2
    <3> QED  BY <2>5, <3>1, <3>2 DEF TakeConfirm, Confirm, TypeOK, RelayRound, database, broker
  <2> QED  BY <1>1, <2>1, <2>2, <2>3, <2>4, <2>5 DEF Relay
<1>2. ASSUME NEW w \in Workers, BrokerAccept(w) PROVE TypeOK'
  <2>1. Head(wire[w]) \in outbox /\ queue' \in Seq(outbox)
    BY <1>2, SeqOps DEF BrokerAccept, TypeOK
  <2>2. /\ wire' \in [Workers -> Seq(outbox)]
        /\ confirms' \in [Workers -> Seq(BOOLEAN)]
    BY <1>2, ChannelType DEF BrokerAccept, TypeOK
  <2> QED  BY <1>2, <2>1, <2>2 DEF BrokerAccept, TypeOK, database
<1>3. ASSUME NEW w \in Workers, BrokerReject(w) PROVE TypeOK'
  <2>1. faults' \in [Faults -> Nat]
    BY <1>3, FaultType DEF BrokerReject, Faults
  <2>2. /\ wire' \in [Workers -> Seq(outbox)]
        /\ confirms' \in [Workers -> Seq(BOOLEAN)]
    BY <1>3, ChannelType DEF BrokerReject, TypeOK
  <2> QED  BY <1>3, <2>1, <2>2 DEF BrokerReject, TypeOK, database, broker
<1>4. ASSUME NEW w \in Workers, Deliver(w) PROVE TypeOK'
  <2>1. Head(queue) \in outbox /\ queue' \in Seq(outbox)
    BY <1>4, SeqOps DEF Deliver, TypeOK
  <2>2. unacked' \in [Workers -> Seq(outbox)]
    BY <1>4, <2>1, ChannelType DEF Deliver, TypeOK
  <2> QED  BY <1>4, <2>1, <2>2 DEF Deliver, TypeOK, database
<1>5. ASSUME NEW w \in Workers, Consume(w) \/ ApplyFails(w) PROVE TypeOK'
  <2>1. CASE Take(w)
    <3>1. Head(unacked[w]) \in outbox
      BY <2>1, SeqOps DEF Take, TypeOK
    <3>2. consumer' \in [Workers -> {IdleConsumer} \cup InHand]
      BY <2>1, <3>1, ConsumerType DEF Take
    <3> QED  BY <2>1, <3>2 DEF Take, TypeOK, InHand, database, broker, channel
  <2>2. CASE Apply(w) \/ ApplyFails(w)
    <3>0. consumer[w].pc = "apply"
      BY <2>2 DEF Apply, ApplyFails
    <3>1. consumer[w].msg \in outbox
      <4>1. consumer[w] \in InHand
        BY <3>0, ConsumerType
      <4> QED  BY <4>1 DEF InHand
    <3>2. consumer' \in [Workers -> {IdleConsumer} \cup InHand]
      <4>1. PICK pc \in {"del", "nack"} : consumer' = [consumer EXCEPT ![w].pc = pc]
        BY <2>2 DEF Apply, ApplyFails
      <4> QED  BY <3>0, <4>1, ConsumerType
    <3>3. faults' \in [Faults -> Nat]
      BY <2>2, FaultType DEF Apply, ApplyFails, Faults, TypeOK
    <3>4. UNCHANGED <<dedup, counts, cache, fill>> \/ CountOnce(consumer[w].msg)
      BY <2>2 DEF Apply, ApplyFails
    <3>5. /\ dedup' \subseteq Ids(outbox) /\ counts' \in [Fields -> [Posts -> Int]]
          /\ cache' \in [Posts -> CacheStates]
          /\ fill' \in [Servers -> [Posts -> FillStates]]
      BY <3>1, <3>4, CountType DEF TypeOK
    <3>6. UNCHANGED <<outbox, marked, broker, status, relay, channel>>
      BY <2>2 DEF Apply, ApplyFails
    <3> QED  BY <3>2, <3>3, <3>5, <3>6 DEF TypeOK, InHand, broker, channel
  <2>4. CASE DelCache(w)
    <3>1. consumer' \in [Workers -> {IdleConsumer} \cup InHand]
      BY <2>4, ConsumerType DEF DelCache
    <3>2. faults' \in [Faults -> Nat]
      BY <2>4, FaultType DEF DelCache, Faults, NoFault, TypeOK
    <3>3. cache' \in [Posts -> CacheStates]
      <4>1. cache \in [Posts -> CacheStates]
        BY DEF TypeOK
      <4>2. PICK q : q = consumer[w].msg.post
        OBVIOUS
      <4>3. [cache EXCEPT ![q] = "absent"] \in [Posts -> CacheStates]
        BY <4>1 DEF CacheStates
      <4>4. [cache EXCEPT ![q] = IF @ = "stale" THEN "forgotten" ELSE @]
              \in [Posts -> CacheStates]
        BY <4>1 DEF CacheStates
      <4> QED  BY <2>4, <4>1, <4>2, <4>3, <4>4 DEF DelCache
    <3>4. fill' \in [Servers -> [Posts -> FillStates]]
      <4>1. \A s \in Servers : fill[s] \in [Posts -> FillStates]
        BY DEF TypeOK
      <4>2. \A s \in Servers :
              [fill[s] EXCEPT ![consumer[w].msg.post] = IF @ = "old" THEN "missed" ELSE @]
                \in [Posts -> FillStates]
        BY <4>1 DEF FillStates
      <4> QED  BY <2>4, <4>2 DEF DelCache
    <3> QED  BY <2>4, <3>1, <3>2, <3>3, <3>4
             DEF DelCache, TypeOK, InHand, database, broker, channel
  <2>5. CASE Ack(w) \/ Nack(w)
    <3>1. Settle(w) /\ (dead' = dead \/ dead' = dead \cup {consumer[w].msg})
      BY <2>5 DEF Ack, Nack
    <3>2. consumer' \in [Workers -> {IdleConsumer} \cup InHand]
      BY <3>1, ConsumerType DEF Settle
    <3>3. consumer[w] \in InHand
      BY <2>5, ConsumerType DEF Ack, Nack
    <3>4. dead' \subseteq outbox
      BY <3>1, <3>3 DEF InHand, TypeOK
    <3>5. unacked' \in [Workers -> Seq(outbox)]
      <4>1. status[w] = "up" => unacked[w] # <<>>
        BY <2>5 DEF Holding, Ack, Nack
      <4>2. unacked[w] # <<>> => [unacked EXCEPT ![w] = Tail(@)] \in [Workers -> Seq(outbox)]
        BY ChannelType DEF TypeOK
      <4> QED  BY <3>1, <4>1, <4>2 DEF Settle, TypeOK
    <3> QED  BY <3>1, <3>2, <3>4, <3>5
             DEF Settle, TypeOK, InHand, database, broker, channel
  <2> QED  BY <1>5, <2>1, <2>2, <2>4, <2>5 DEF Consume
<1>6. ASSUME NEW w \in Workers, ConnLost(w) \/ Crash(w) PROVE TypeOK'
  <2>1. Requeue(w)
    BY <1>6 DEF ConnLost, Crash
  <2>2. queue' \in Seq(outbox)
    BY <2>1, SeqOps DEF Requeue, TypeOK
  <2>3. unacked' \in [Workers -> Seq(outbox)] /\ wire' \in [Workers -> Seq(outbox)]
    BY <2>1, ChannelType DEF Requeue, TypeOK
  <2>4. faults' \in [Faults -> Nat]
    BY <1>6, FaultType DEF ConnLost, Crash, Faults
  <2>5. CASE ConnLost(w)
    <3>1. PICK n \in 0 .. ConfirmBuffer :
            /\ n <= Len(confirms[w])
            /\ confirms' = [confirms EXCEPT ![w] = SubSeq(@, 1, n)]
      BY <2>5 DEF ConnLost
    <3>2. confirms[w] \in Seq(BOOLEAN) /\ n \in Nat
      BY WorkerAssumption DEF TypeOK
    <3>3. SubSeq(confirms[w], 1, n) \in Seq(BOOLEAN)
      BY <3>1, <3>2
    <3>4. confirms' \in [Workers -> Seq(BOOLEAN)]
      BY <3>1, <3>3 DEF TypeOK
    <3> QED  BY <2>2, <2>3, <2>4, <2>5, <3>4 DEF ConnLost, TypeOK, database
  <2>6. CASE Crash(w)
    <3>1. confirms' \in [Workers -> Seq(BOOLEAN)]
      BY <2>6, ChannelType DEF Crash, TypeOK
    <3>2. consumer' \in [Workers -> {IdleConsumer} \cup InHand]
      BY <2>6, ConsumerType DEF Crash
    <3>3. RelayGoes(w, "idle", {}, {})
      BY <2>6 DEF Crash, RelayGoes, IdleRelay
    <3>4. relay' \in [Workers -> RelayRound]
      BY <3>3, RelayType
    <3> QED  BY <2>2, <2>3, <2>4, <2>6, <3>1, <3>2, <3>4
             DEF Crash, TypeOK, InHand, RelayRound, database
  <2> QED  BY <1>6, <2>5, <2>6
<1>7. ASSUME NEW w \in Workers, Start(w) PROVE TypeOK'
  BY <1>7 DEF Start, TypeOK, database, broker, channel
<1>8. ASSUME Produce PROVE TypeOK'
  <2>1. PICK e \in Events : e.id \notin Ids(outbox) /\ outbox' = outbox \cup {e}
    BY <1>8 DEF Produce
  <2>2. outbox \subseteq outbox' /\ outbox' \subseteq Events /\ Ids(outbox) \subseteq Ids(outbox')
    BY <2>1 DEF TypeOK, Ids
  <2>3. queue \in Seq(outbox')
    BY <2>2, SeqGrows DEF TypeOK
  <2>4. \A f \in [Workers -> Seq(outbox)] : f \in [Workers -> Seq(outbox')]
    BY <2>2, SeqGrows
  <2>5. relay \in [Workers -> RelayRound']
    <3>1. RelayRound \subseteq RelayRound'
      BY <2>2 DEF RelayRound
    <3> QED  BY <3>1 DEF TypeOK, RelayRound
  <2>6. consumer \in [Workers -> {IdleConsumer} \cup InHand']
    <3>1. InHand \subseteq InHand'
      BY <2>2 DEF InHand
    <3> QED  BY <3>1 DEF TypeOK, InHand
  <2>7. \A f, g \in outbox' : f.id = g.id => f = g
    BY <2>1 DEF TypeOK, Ids
  <2> QED  BY <1>8, <2>2, <2>3, <2>4, <2>5, <2>6, <2>7
           DEF Produce, TypeOK, RelayRound, InHand, broker, channel
<1>9. ASSUME NEW p \in Posts, ReadThrough(p) PROVE TypeOK'
  <2>1. UNCHANGED <<database, broker, status, relay, consumer, channel, faults>>
    BY <1>9 DEF ReadThrough, ReadRow, SetRow, ExpireCache
  <2> QED  BY <1>9, <2>1, ReadThroughType DEF TypeOK, database, broker, channel
<1>10. ASSUME UNCHANGED vars PROVE TypeOK'
  BY <1>10 DEF vars, TypeOK
<1> QED  BY <1>1, <1>2, <1>3, <1>4, <1>5, <1>6, <1>7, <1>8, <1>9, <1>10
         DEF Next, Work

LEMMA HoldingNext == TypeOK /\ Holding /\ [Next]_vars => Holding'
<1> SUFFICES ASSUME TypeOK, Holding, [Next]_vars, NEW v \in Workers
             PROVE  /\ status'[v] = "down" => consumer'[v].pc = "idle"
                    /\ status'[v] = "up" /\ consumer'[v].pc # "idle" => unacked'[v] # <<>>
  BY DEF Holding
<1> USE DEF Holding, TypeOK, database, broker, channel
<1>1. CASE UNCHANGED <<status, consumer, unacked>>
  BY <1>1
<1>2. ASSUME NEW w \in Workers, Deliver(w) PROVE Holding'
  <2>1. Head(queue) \in outbox /\ unacked[w] \in Seq(outbox)
    BY <1>2, SeqOps DEF Deliver
  <2>2. Append(unacked[w], Head(queue)) # <<>>
    BY <2>1, SeqOps
  <2>3. unacked' = [unacked EXCEPT ![w] = Append(@, Head(queue))] /\ UNCHANGED <<status, consumer>>
    BY <1>2 DEF Deliver
  <2> QED  BY <2>2, <2>3
<1>3. ASSUME NEW w \in Workers, Take(w) PROVE Holding'
  BY <1>3 DEF Take, Busy
<1>4. ASSUME NEW w \in Workers, Apply(w) \/ ApplyFails(w) \/ DelCache(w) PROVE Holding'
  BY <1>4 DEF Apply, ApplyFails, DelCache
<1>5. ASSUME NEW w \in Workers, Settle(w) PROVE Holding'
  BY <1>5 DEF Settle, IdleConsumer
<1>6. ASSUME NEW w \in Workers, ConnLost(w) \/ Crash(w) PROVE Holding'
  BY <1>6 DEF ConnLost, Crash, Requeue, IdleConsumer
<1>7. ASSUME NEW w \in Workers, Start(w) PROVE Holding'
  BY <1>7 DEF Start
<1>8. ASSUME NEW w \in Workers, ~Deliver(w), ~Take(w), ~Apply(w), ~ApplyFails(w), ~DelCache(w),
             ~Ack(w), ~Nack(w), ~ConnLost(w), ~Crash(w), ~Start(w), Work(w)
      PROVE  UNCHANGED <<status, consumer, unacked>>
  BY <1>8 DEF Work, Relay, Consume, FetchPending, Publish, TakeConfirm, Confirm,
              ConfirmClosed,
              ConfirmTimeout, MarkProcessed, BrokerAccept, BrokerReject
<1>9. ASSUME Produce \/ \E p \in Posts : ReadThrough(p)
      PROVE  UNCHANGED <<status, consumer, unacked>>
  BY <1>9 DEF Produce, ReadThrough, ReadRow, SetRow, ExpireCache
<1>10. \A w \in Workers : Ack(w) \/ Nack(w) => Settle(w)
  BY DEF Ack, Nack
<1> HIDE DEF Holding, TypeOK, database, broker, channel
<1>11. ASSUME NEW w \in Workers, Work(w)
       PROVE  Holding' \/ UNCHANGED <<status, consumer, unacked>>
  BY <1>2, <1>3, <1>4, <1>5, <1>6, <1>7, <1>8, <1>10, <1>11
<1>12. Holding' \/ UNCHANGED <<status, consumer, unacked>>
  BY <1>9, <1>11 DEF Next, vars
<1> QED  BY <1>1, <1>12 DEF Holding

-----------------------------------------------------------------------------
\* A transaction of the consumer is committed, and its answer arrives or is lost.
Commits(w) ==
  consumer[w].pc = "apply" /\ CountOnce(consumer[w].msg) /\ outbox' = outbox

\* Only such a commit writes the counters, and only Produce the outbox.
LEMMA OnlyCommits ==
  ASSUME [Next]_vars
  PROVE  \/ UNCHANGED <<outbox, dedup, counts>>
         \/ \E w \in Workers : Commits(w)
         \/ Produce
<1> USE DEF database, broker, channel
<1>1. ASSUME NEW w \in Workers, Relay(w) \/ ConfirmTimeout(w)
      PROVE  UNCHANGED <<outbox, dedup, counts>>
  BY <1>1 DEF Relay, FetchPending, Publish, TakeConfirm, Confirm,
              ConfirmClosed, ConfirmTimeout,
              MarkProcessed
<1>2. ASSUME NEW w \in Workers, BrokerAccept(w) \/ BrokerReject(w) \/ Deliver(w)
      PROVE  UNCHANGED <<outbox, dedup, counts>>
  BY <1>2 DEF BrokerAccept, BrokerReject, Deliver
<1>3. ASSUME NEW w \in Workers, Consume(w) \/ ApplyFails(w)
      PROVE  Commits(w) \/ UNCHANGED <<outbox, dedup, counts>>
  BY <1>3 DEF Consume, Take, Apply, ApplyFails, Commits, DelCache, Ack, Nack, Settle
<1>4. ASSUME NEW w \in Workers, ConnLost(w) \/ Crash(w) \/ Start(w)
      PROVE  UNCHANGED <<outbox, dedup, counts>>
  BY <1>4 DEF ConnLost, Crash, Start
<1>5. ASSUME NEW p \in Posts, ReadThrough(p)
      PROVE  UNCHANGED <<outbox, dedup, counts>>
  BY <1>5 DEF ReadThrough, ReadRow, SetRow, ExpireCache
<1>6. UNCHANGED vars => UNCHANGED <<outbox, dedup, counts>>
  BY DEF vars
<1> QED  BY <1>1, <1>2, <1>3, <1>4, <1>5, <1>6 DEF Next, Work

\* A first delivery counts its row and adds its delta; a repeated one nothing.
LEMMA CommitCounts ==
  ASSUME IInv, NEW w \in Workers, Commits(w)
  PROVE  ExactlyOnce'
<1> SUFFICES ASSUME NEW f \in Fields, NEW p \in Posts
             PROVE  counts'[f][p] = Net(Counted', f, p)
  BY DEF ExactlyOnce, Counted
<1>1. outbox' = outbox
  BY DEF Commits
<1>2. counts[f][p] = Net(Counted, f, p)
  BY DEF IInv, ExactlyOnce, Counted
<1> DEFINE e == consumer[w].msg
<1>3. e \in outbox /\ e \in CountEvent /\ \A g \in outbox : g.id = e.id => g = e
  <2>1. consumer[w] \in InHand
    BY ConsumerType DEF Commits, IInv
  <2>2. e \in outbox /\ outbox \subseteq Events
    BY <2>1 DEF InHand, IInv, TypeOK
  <2> QED  BY <2>2, WorkerAssumption DEF IInv, TypeOK
<1>4. IF e.id \in dedup
        THEN UNCHANGED <<dedup, counts>>
        ELSE /\ dedup' = dedup \cup {e.id}
             /\ counts' = [counts EXCEPT ![e.field][e.post] = @ + e.delta]
  BY DEF Commits, CountOnce, Count
<1> HIDE DEF e
<1>5. CASE e.id \in dedup
  <2>1. Counted' = Counted
    BY <1>1, <1>4, <1>5 DEF Counted
  <2> QED  BY <1>2, <1>4, <1>5, <2>1
<1>6. CASE e.id \notin dedup
  <2>1. Counted' = Counted \cup {e} /\ e \notin Counted
    BY <1>1, <1>3, <1>4, <1>6 DEF Counted
  <2>2. IsFiniteSet(Counted)
    BY FS_Subset DEF IInv, Counted
  <2> DEFINE N == Net(Counted, f, p)
             M == Net(Counted \cup {e}, f, p)
  <2>3. N \in Int /\ M = IF e.field = f /\ e.post = p THEN N + e.delta ELSE N
    BY <1>3, <2>1, <2>2, NetAdd
  <2>4. Net(Counted', f, p) = M /\ counts[f][p] = N
    BY <1>2, <2>1
  <2> HIDE DEF N, M
  <2>5. e.field \in Fields /\ e.post \in Posts
    BY <1>3 DEF CountEvent
  <2>6. counts'[f][p] = IF e.field = f /\ e.post = p THEN counts[f][p] + e.delta
                                                     ELSE counts[f][p]
    <3>1. counts \in [Fields -> [Posts -> Int]]
      BY DEF IInv, TypeOK
    <3> QED  BY <1>4, <1>6, <2>5, <3>1
  <2> QED  BY <2>3, <2>4, <2>6
<1> QED  BY <1>5, <1>6

\* A row is committed with an id that is in no message yet, so it cannot have
\* been counted.
LEMMA ProduceCounts ==
  ASSUME IInv, Produce
  PROVE  ExactlyOnce' /\ IsFiniteSet(outbox')
<1>1. PICK e \in Events : e.id \notin Ids(outbox) /\ outbox' = outbox \cup {e}
  BY DEF Produce
<1>2. UNCHANGED <<dedup, counts>>
  BY DEF Produce
<1>3. e.id \notin dedup
  <2>1. dedup \subseteq Ids(outbox)
    BY DEF IInv, TypeOK
  <2> QED  BY <1>1, <2>1
<1>4. Counted' = Counted
  BY <1>1, <1>2, <1>3 DEF Counted
<1>5. ExactlyOnce'
  BY <1>2, <1>4 DEF IInv, ExactlyOnce, Counted
<1> QED  BY <1>1, <1>5, FS_AddElement DEF IInv, Ids

(***************************************************************************)
(* Type correctness of Worker, with Settle never asking for the tail of an *)
(* empty list of deliveries.                                               *)
(***************************************************************************)
THEOREM WorkerType == Spec => []TypeOK
<1>1. TypeOK /\ Holding /\ [Next]_vars => (TypeOK /\ Holding)'
  BY TypeNext, HoldingNext
<1> QED  BY <1>1, TypeInit, PTL DEF Spec

(***************************************************************************)
(* Exactly-once effect: whatever is relayed twice, redelivered, requeued,  *)
(* dead-lettered or handled by several workers at a time, and wherever     *)
(* workers and connections fail, each counter is the sum of the rows       *)
(* recorded in processed_events, each added once.                          *)
(***************************************************************************)
THEOREM WorkerExactlyOnce == Spec => []ExactlyOnce
<1>1. Init => IInv
  <2> SUFFICES ASSUME Init PROVE IInv
    OBVIOUS
  <2>1. TypeOK /\ Holding
    BY TypeInit
  <2>2. IsFiniteSet(outbox)
    BY FS_EmptySet DEF Init
  <2>3. ASSUME NEW f \in Fields, NEW p \in Posts
        PROVE  counts[f][p] = Net(Counted, f, p)
    <3>1. Counted = {} /\ counts[f][p] = 0
      BY DEF Init, Counted
    <3> QED  BY <3>1, NetEmpty
  <2> QED  BY <2>1, <2>2, <2>3 DEF IInv, ExactlyOnce, Counted
<1>2. IInv /\ [Next]_vars => IInv'
  <2> SUFFICES ASSUME IInv, [Next]_vars PROVE IInv'
    OBVIOUS
  <2>1. TypeOK' /\ Holding'
    BY TypeNext, HoldingNext DEF IInv
  <2>2. CASE UNCHANGED <<outbox, dedup, counts>>
    <3>1. IsFiniteSet(outbox')
      BY <2>2 DEF IInv
    <3>2. Counted' = Counted
      BY <2>2 DEF Counted
    <3>3. ExactlyOnce'
      BY <2>2, <3>2 DEF IInv, ExactlyOnce, Counted
    <3> QED  BY <2>1, <3>1, <3>3 DEF IInv
  <2>3. ASSUME NEW w \in Workers, Commits(w) PROVE IInv'
    <3>1. outbox' = outbox
      BY <2>3 DEF Commits
    <3>2. IsFiniteSet(outbox')
      BY <3>1 DEF IInv
    <3> QED  BY <2>1, <2>3, <3>2, CommitCounts DEF IInv
  <2>4. ASSUME Produce PROVE IInv'
    BY <2>1, <2>4, ProduceCounts DEF IInv
  <2> QED  BY <2>2, <2>3, <2>4, OnlyCommits
<1>3. IInv => ExactlyOnce
  BY DEF IInv
<1> QED  BY <1>1, <1>2, <1>3, PTL DEF Spec

-----------------------------------------------------------------------------
(* The confirmation channel. *)

\* A channel that is closed carries nothing more.
Closed == \A w \in Workers : status[w] # "up" => wire[w] = <<>>

\* How many confirms may be due.
Due(t, pc) == t + (IF pc = "confirm" THEN 1 ELSE 0)
LEMMA DueIs ==
  ASSUME NEW t \in Nat, NEW pc
  PROVE  /\ Due(t, pc) \in Nat
         /\ pc = "confirm" => Due(t, pc) = t + 1
         /\ pc # "confirm" => Due(t, pc) = t
         /\ \A u \in Nat : t <= u => Due(t, pc) <= Due(u, pc)
BY DEF Due

\* Lengths are numbers, and follow the operations of a channel.
LEMMA Lengths ==
  ASSUME NEW S, NEW q \in Seq(S)
  PROVE  /\ Len(q) \in Nat /\ Len(<<>>) = 0
         /\ \A e \in S : Len(Append(q, e)) = Len(q) + 1
         /\ q # <<>> => Len(Tail(q)) = Len(q) - 1 /\ Len(q) >= 1
         /\ \A n \in Nat : n <= Len(q) => Len(SubSeq(q, 1, n)) = n
OBVIOUS

\* A message that becomes a confirm.
LEMMA Sums ==
  ASSUME NEW a \in Nat, NEW b \in Nat
  PROVE  (a - 1) + (b + 1) = a + b
OBVIOUS

\* What the type invariant says of them.
LEMMA ChannelLengths ==
  ASSUME TypeOK, NEW w \in Workers
  PROVE  /\ Len(wire[w]) \in Nat /\ Len(confirms[w]) \in Nat
         /\ faults["timeout"] \in Nat
         /\ ConfirmsOwed => Len(wire[w]) + Len(confirms[w])
                              <= Due(faults["timeout"], relay[w].pc)
<1>1. wire[w] \in Seq(outbox) /\ confirms[w] \in Seq(BOOLEAN) /\ faults["timeout"] \in Nat
  BY DEF TypeOK, Faults
<1>2. Len(wire[w]) \in Nat /\ Len(confirms[w]) \in Nat
  BY <1>1, Lengths
<1> QED  BY <1>1, <1>2 DEF ConfirmsOwed, Due

\* It is enough to look at the worker that moves.
LEMMA OwedStep ==
  ASSUME TypeOK, TypeOK', ConfirmsOwed, NEW w \in Workers,
         \A v \in Workers \ {w} :
           wire'[v] = wire[v] /\ confirms'[v] = confirms[v] /\ relay'[v] = relay[v],
         faults["timeout"] <= faults'["timeout"],
         Len(wire'[w]) + Len(confirms'[w]) <= Due(faults'["timeout"], relay'[w].pc)
  PROVE  ConfirmsOwed'
<1> SUFFICES ASSUME NEW v \in Workers
             PROVE  Len(wire'[v]) + Len(confirms'[v])
                      <= Due(faults'["timeout"], relay'[v].pc)
  BY DEF ConfirmsOwed, Due
<1>1. CASE v = w
  BY <1>1
<1>2. CASE v # w
  <2>1. Len(wire'[v]) = Len(wire[v]) /\ Len(confirms'[v]) = Len(confirms[v])
        /\ relay'[v].pc = relay[v].pc
    BY <1>2
  <2>2. /\ faults["timeout"] \in Nat /\ faults'["timeout"] \in Nat
        /\ Len(wire[v]) \in Nat /\ Len(confirms[v]) \in Nat
        /\ Len(wire[v]) + Len(confirms[v]) <= Due(faults["timeout"], relay[v].pc)
    BY ChannelLengths DEF TypeOK, Faults
  <2>3. /\ Due(faults["timeout"], relay[v].pc) <= Due(faults'["timeout"], relay[v].pc)
        /\ Due(faults["timeout"], relay[v].pc) \in Nat
        /\ Due(faults'["timeout"], relay[v].pc) \in Nat
    BY <2>2, DueIs
  <2>4. Len(wire[v]) + Len(confirms[v]) <= Due(faults'["timeout"], relay[v].pc)
    <3> DEFINE a == Len(wire[v])
               b == Len(confirms[v])
               m == Due(faults["timeout"], relay[v].pc)
               n == Due(faults'["timeout"], relay[v].pc)
    <3>1. /\ a \in Nat /\ b \in Nat /\ m \in Nat /\ n \in Nat
          /\ a + b <= m /\ m <= n
      BY <2>2, <2>3, Zenon
    <3> HIDE DEF a, b, m, n
    <3>2. a + b <= n
      BY <3>1
    <3> QED  BY <3>2 DEF a, b, n
  <2> QED  BY <2>1, <2>4
<1> QED  BY <1>1, <1>2

LEMMA OwedNext ==
  ASSUME TypeOK, TypeOK', Closed, ConfirmsOwed, [Next]_vars
  PROVE  Closed' /\ ConfirmsOwed'
<1> USE DEF database, broker, channel
<1> DEFINE t == faults["timeout"]
           u == faults'["timeout"]
<1>1. /\ t \in Nat /\ u \in Nat
      /\ faults \in [Faults -> Nat] /\ relay \in [Workers -> RelayRound]
      /\ wire \in [Workers -> Seq(outbox)] /\ confirms \in [Workers -> Seq(BOOLEAN)]
      /\ status \in [Workers -> {"up", "cut", "down"}]
  BY DEF TypeOK, Faults, RelayRound
<1>2. \A k \in Faults : k # "timeout" /\ Fault(k) => u = t
  BY <1>1 DEF Fault
<1>3. ASSUME NEW w \in Workers
      PROVE  /\ Len(wire[w]) \in Nat /\ Len(confirms[w]) \in Nat
             /\ Len(wire[w]) + Len(confirms[w]) <= Due(t, relay[w].pc)
  BY ChannelLengths
<1>4. ASSUME NEW w \in Workers
      PROVE  /\ relay[w].pc = "confirm" => Due(t, relay[w].pc) = t + 1
             /\ relay[w].pc # "confirm" => Due(t, relay[w].pc) = t
             /\ relay'[w].pc = "confirm" => Due(u, relay'[w].pc) = u + 1
             /\ relay'[w].pc # "confirm" => Due(u, relay'[w].pc) = u
  BY <1>1, DueIs
\* A round moves on without a word from the broker.
<1>5. ASSUME NEW w \in Workers,
             \/ FetchPending(w) \/ MarkProcessed(w) \/ ConfirmClosed(w) \/ ConfirmTimeout(w)
      PROVE  Closed' /\ ConfirmsOwed'
  <2>1. /\ UNCHANGED <<status, wire, confirms>>
        /\ \A v \in Workers \ {w} : relay'[v] = relay[v]
        /\ relay'[w].pc # "confirm"
    BY <1>1, <1>5 DEF FetchPending, MarkProcessed, ConfirmClosed, ConfirmTimeout, RelayGoes
  <2>2. t <= u /\ Len(wire[w]) + Len(confirms[w]) <= u
    <3>1. CASE FetchPending(w)
      <4>1. u = t /\ relay[w].pc # "confirm"
        BY <3>1 DEF FetchPending
      <4> QED  BY <1>1, <1>3, <1>4, <4>1
    <3>2. CASE MarkProcessed(w)
      <4>1. relay[w].pc # "confirm" /\ (faults' = faults \/ Fault("mark"))
        BY <3>2 DEF MarkProcessed, NoFault
      <4>2. u = t
        BY <1>2, <4>1 DEF Faults
      <4> QED  BY <1>1, <1>3, <1>4, <4>1, <4>2
    <3>3. CASE ConfirmClosed(w)
      <4>1. u = t /\ wire[w] = <<>> /\ confirms[w] = <<>>
        BY <3>3 DEF ConfirmClosed, Closed
      <4>2. Len(wire[w]) = 0 /\ Len(confirms[w]) = 0
        BY <4>1
      <4> QED  BY <1>1, <4>1, <4>2
    <3>4. CASE ConfirmTimeout(w)
      <4>1. relay[w].pc = "confirm" /\ u = t + 1
        BY <1>1, <3>4 DEF ConfirmTimeout, Fault, Faults
      <4> QED  BY <1>1, <1>3, <1>4, <4>1
    <3> QED  BY <1>5, <3>1, <3>2, <3>3, <3>4
  <2>3. Len(wire'[w]) + Len(confirms'[w]) <= Due(u, relay'[w].pc)
    BY <1>4, <2>1, <2>2
  <2>4. ConfirmsOwed'
    BY <2>1, <2>2, <2>3, OwedStep
  <2> QED  BY <2>1, <2>4 DEF Closed
<1>6. ASSUME NEW w \in Workers, Publish(w) PROVE Closed' /\ ConfirmsOwed'
  <2>1. PICK e \in First(relay[w].batch) :
          IF status[w] = "up"
            THEN /\ wire' = [wire EXCEPT ![w] = Append(@, e)]
                 /\ RelayGoes(w, "confirm", relay[w].batch, relay[w].done)
            ELSE /\ wire' = wire
                 /\ RelayGoes(w, "mark", {}, relay[w].done)
    BY <1>6 DEF Publish
  <2>2. e \in outbox
    BY RelayParts DEF First
  <2>3. UNCHANGED <<status, confirms, faults>> /\ relay[w].pc = "publish"
    BY <1>6 DEF Publish
  <2>4. u = t /\ Len(wire[w]) + Len(confirms[w]) <= t
    BY <1>3, <1>4, <2>3
  <2>5. CASE status[w] = "up"
    <3>1. /\ wire'[w] = Append(wire[w], e) /\ \A v \in Workers \ {w} : wire'[v] = wire[v]
          /\ relay'[w].pc = "confirm" /\ \A v \in Workers \ {w} : relay'[v] = relay[v]
      BY <1>1, <2>1, <2>5 DEF RelayGoes
    <3>2. wire[w] \in Seq(outbox)
      BY <1>1
    <3>3. Len(wire'[w]) = Len(wire[w]) + 1
      BY <2>2, <3>1, <3>2, Lengths
    <3>4. Len(wire'[w]) + Len(confirms'[w]) <= Due(u, relay'[w].pc)
      BY <1>1, <1>3, <1>4, <2>3, <2>4, <3>1, <3>3
    <3>5. ConfirmsOwed'
      <4>1. t <= u /\ \A v \in Workers \ {w} :
                     wire'[v] = wire[v] /\ confirms'[v] = confirms[v] /\ relay'[v] = relay[v]
        BY <1>1, <2>4, <2>3, <3>1
      <4> QED  BY <4>1, <3>4, OwedStep
    <3> QED  BY <2>3, <2>5, <3>1, <3>5 DEF Closed
  <2>6. CASE status[w] # "up"
    <3>1. /\ wire' = wire
          /\ relay'[w].pc = "mark" /\ \A v \in Workers \ {w} : relay'[v] = relay[v]
      BY <1>1, <2>1, <2>6 DEF RelayGoes
    <3>2. Len(wire'[w]) + Len(confirms'[w]) <= Due(u, relay'[w].pc)
      BY <1>4, <2>3, <2>4, <3>1
    <3>3. ConfirmsOwed'
      <4>1. t <= u /\ \A v \in Workers \ {w} :
                     wire'[v] = wire[v] /\ confirms'[v] = confirms[v] /\ relay'[v] = relay[v]
        BY <1>1, <2>4, <2>3, <3>1
      <4> QED  BY <4>1, <3>2, OwedStep
    <3> QED  BY <2>3, <3>1, <3>3 DEF Closed
  <2> QED  BY <2>5, <2>6
<1>7. ASSUME NEW w \in Workers, TakeConfirm(w) PROVE Closed' /\ ConfirmsOwed'
  <2>1. /\ relay[w].pc = "confirm" /\ confirms[w] # <<>>
        /\ confirms' = [confirms EXCEPT ![w] = Tail(@)]
        /\ UNCHANGED <<status, wire, faults>>
    BY <1>7 DEF TakeConfirm, Confirm
  <2>2. PICK pc, b, d :
          /\ pc \in {"publish", "mark"} /\ b \in SUBSET Events
          /\ RelayGoes(w, pc, b, d)
    <3>1. relay[w].batch \subseteq Events
      BY RelayParts DEF TypeOK
    <3>2. CASE Head(confirms[w])
      BY <1>7, <3>1, <3>2 DEF TakeConfirm, NextMessage
    <3>3. CASE ~Head(confirms[w])
      BY <1>7, <3>3 DEF TakeConfirm
    <3> QED  BY <3>2, <3>3
  <2>3. relay'[w].pc # "confirm" /\ \A v \in Workers \ {w} : relay'[v] = relay[v]
    BY <1>1, <2>2 DEF RelayGoes
  <2>4. confirms'[w] = Tail(confirms[w])
        /\ \A v \in Workers \ {w} : confirms'[v] = confirms[v]
    BY <1>1, <2>1
  <2>5. Len(confirms'[w]) = Len(confirms[w]) - 1
    <3>1. confirms[w] \in Seq(BOOLEAN)
      BY <1>1
    <3> QED  BY <2>1, <2>4, <3>1, Lengths
  <2>6. Len(wire'[w]) + Len(confirms'[w]) <= Due(u, relay'[w].pc)
    BY <1>1, <1>3, <1>4, <2>1, <2>3, <2>5
  <2>7. ConfirmsOwed'
    <3>1. t <= u /\ \A v \in Workers \ {w} :
                   wire'[v] = wire[v] /\ confirms'[v] = confirms[v] /\ relay'[v] = relay[v]
      BY <1>1, <2>1, <2>3, <2>4
    <3> QED  BY <2>6, <3>1, OwedStep
  <2> QED  BY <2>1, <2>7 DEF Closed
\* The broker's answer takes the place of the message.
<1>8. ASSUME NEW w \in Workers, BrokerAccept(w) \/ BrokerReject(w)
      PROVE  Closed' /\ ConfirmsOwed'
  <2>1. /\ wire[w] # <<>> /\ wire' = [wire EXCEPT ![w] = Tail(@)]
        /\ \E b \in BOOLEAN : confirms' = [confirms EXCEPT ![w] = Append(@, b)]
        /\ UNCHANGED <<status, relay>>
    BY <1>8 DEF BrokerAccept, BrokerReject
  <2>2. PICK b \in BOOLEAN : confirms' = [confirms EXCEPT ![w] = Append(@, b)]
    BY <2>1
  <2>3. u = t
    BY <1>2, <1>8 DEF BrokerAccept, BrokerReject, Faults
  <2>4. /\ wire'[w] = Tail(wire[w]) /\ confirms'[w] = Append(confirms[w], b)
        /\ \A v \in Workers \ {w} : wire'[v] = wire[v] /\ confirms'[v] = confirms[v]
    BY <1>1, <2>1, <2>2
  <2>5. wire[w] \in Seq(outbox) /\ confirms[w] \in Seq(BOOLEAN)
    BY <1>1
  <2>6. Len(wire'[w]) = Len(wire[w]) - 1
    BY <2>1, <2>4, <2>5, Lengths
  <2>7. Len(confirms'[w]) = Len(confirms[w]) + 1
    BY <2>4, <2>5, Lengths
  <2>8. Len(wire'[w]) + Len(confirms'[w]) <= Due(u, relay'[w].pc)
    <3>1. Len(wire[w]) \in Nat /\ Len(confirms[w]) \in Nat
      BY <1>3
    <3>2. Len(wire'[w]) + Len(confirms'[w]) = Len(wire[w]) + Len(confirms[w])
      BY <2>6, <2>7, <3>1, Sums, Zenon
    <3> QED  BY <1>3, <2>1, <2>3, <3>2
  <2>9. ConfirmsOwed'
    BY <1>1, <2>1, <2>3, <2>4, <2>8, OwedStep
  <2> QED  BY <2>1, <2>4, <2>9 DEF Closed
\* What a lost connection or a crash leaves.
<1>9. ASSUME NEW w \in Workers, ConnLost(w) \/ Crash(w) PROVE Closed' /\ ConfirmsOwed'
  <2>1. wire' = [wire EXCEPT ![w] = <<>>]
    BY <1>9 DEF ConnLost, Crash, Requeue
  <2>2. u = t
    BY <1>2, <1>9 DEF ConnLost, Crash, Faults
  <2>3. /\ \A v \in Workers \ {w} : confirms'[v] = confirms[v] /\ relay'[v] = relay[v]
        /\ \A v \in Workers \ {w} : status'[v] = status[v]
    BY <1>1, <1>9 DEF ConnLost, Crash
  <2>4. wire'[w] = <<>> /\ \A v \in Workers \ {w} : wire'[v] = wire[v]
    BY <1>1, <2>1
  <2>5. Len(wire'[w]) = 0
    BY <2>4
  <2>6. Len(wire'[w]) + Len(confirms'[w]) <= Due(u, relay'[w].pc)
    <3>1. CASE Crash(w)
      <4>1. confirms'[w] = <<>> /\ relay'[w].pc = "idle"
        BY <1>1, <3>1 DEF Crash, IdleRelay
      <4>2. Len(confirms'[w]) = 0
        BY <4>1
      <4>3. Due(u, relay'[w].pc) = u
        BY <1>4, <4>1
      <4> QED  BY <1>1, <2>5, <4>2, <4>3
    <3>2. CASE ConnLost(w)
      <4>1. PICK n \in 0 .. ConfirmBuffer :
              /\ n <= Len(confirms[w])
              /\ confirms' = [confirms EXCEPT ![w] = SubSeq(@, 1, n)]
        BY <3>2 DEF ConnLost
      <4>2. n \in Nat /\ confirms'[w] = SubSeq(confirms[w], 1, n)
        BY <1>1, <4>1, WorkerAssumption
      <4>3. confirms[w] \in Seq(BOOLEAN)
        BY <1>1
      <4>4. Len(confirms'[w]) = n
        BY <4>1, <4>2, <4>3, Lengths
      <4>5. relay' = relay
        BY <3>2 DEF ConnLost
      <4>6. /\ Due(t, relay[w].pc) \in Nat
            /\ Len(wire[w]) + Len(confirms[w]) <= Due(t, relay[w].pc)
        BY <1>1, <1>3, DueIs
      <4>7. Due(u, relay'[w].pc) = Due(t, relay[w].pc)
        BY <2>2, <4>5
      <4>8. Len(wire[w]) \in Nat /\ Len(confirms[w]) \in Nat
        BY <1>3
      <4>9. 0 + n <= Due(t, relay[w].pc)
        <5> DEFINE a == Len(wire[w])
                   b == Len(confirms[w])
                   m == Due(t, relay[w].pc)
        <5>1. a \in Nat /\ b \in Nat /\ m \in Nat /\ n <= b /\ a + b <= m
          BY <4>1, <4>6, <4>8, Zenon
        <5> HIDE DEF a, b, m
        <5>2. 0 + n <= m
          BY <4>2, <5>1
        <5> QED  BY <5>2 DEF m
      <4> QED  BY <2>5, <4>2, <4>4, <4>7, <4>9
    <3> QED  BY <1>9, <3>1, <3>2
  <2>7. ConfirmsOwed'
    <3>1. t <= u /\ \A v \in Workers \ {w} :
                   wire'[v] = wire[v] /\ confirms'[v] = confirms[v] /\ relay'[v] = relay[v]
      BY <1>1, <2>2, <2>3, <2>4
    <3> QED  BY <2>6, <3>1, OwedStep
  <2> QED  BY <1>1, <2>3, <2>4, <2>7 DEF Closed
<1>10. ASSUME UNCHANGED <<wire, confirms, relay>>, u = t,
              \A v \in Workers : status'[v] = status[v] \/ status'[v] = "up"
       PROVE  Closed' /\ ConfirmsOwed'
  BY <1>10 DEF Closed, ConfirmsOwed
<1>11. ASSUME NEW w \in Workers, Start(w) PROVE Closed' /\ ConfirmsOwed'
  <2>1. \A v \in Workers : status'[v] = status[v] \/ status'[v] = "up"
    BY <1>1, <1>11 DEF Start
  <2> QED  BY <1>10, <1>11, <2>1 DEF Start
\* The consumer does not touch it.
<1>12. ASSUME NEW w \in Workers, Deliver(w) \/ Consume(w) \/ ApplyFails(w)
       PROVE  UNCHANGED <<status, wire, confirms, relay>> /\ u = t
  BY <1>2, <1>12 DEF Deliver, Consume, ApplyFails, Take, Apply, DelCache, Ack, Nack, Settle,
                     NoFault, Faults
<1>13. ASSUME Produce \/ UNCHANGED vars \/ \E p \in Posts : ReadThrough(p)
       PROVE  UNCHANGED <<status, wire, confirms, relay>> /\ u = t
  BY <1>13 DEF Produce, ReadThrough, ReadRow, SetRow, ExpireCache, vars
<1> QED
  BY <1>5, <1>6, <1>7, <1>8, <1>9, <1>10, <1>11, <1>12, <1>13 DEF Next, Work, Relay

(***************************************************************************)
(* Confirms pile up only behind timeouts: on every channel there is at     *)
(* most one for each of them, besides the one Publish waits for.  So a     *)
(* round takes a confirm that is not its own only after a timeout.         *)
(***************************************************************************)
THEOREM WorkerConfirms == Spec => []ConfirmsOwed
<1>1. Init => Closed /\ ConfirmsOwed
  <2> SUFFICES ASSUME Init PROVE ConfirmsOwed
    BY DEF Init, Closed
  <2>1. \A w \in Workers : wire[w] = <<>> /\ confirms[w] = <<>> /\ relay[w].pc = "idle"
    BY DEF Init, IdleRelay
  <2>2. \A w \in Workers : Len(wire[w]) = 0 /\ Len(confirms[w]) = 0
    BY <2>1
  <2>3. faults["timeout"] = 0
    BY DEF Init, Faults
  <2>4. \A w \in Workers : (IF relay[w].pc = "confirm" THEN 1 ELSE 0) = 0
    BY <2>1
  <2>5. 0 + 0 <= 0 + 0
    OBVIOUS
  <2> QED  BY <2>2, <2>3, <2>4, <2>5, Zenon DEF ConfirmsOwed
<1>2. TypeOK /\ TypeOK' /\ Closed /\ ConfirmsOwed /\ [Next]_vars
        => (Closed /\ ConfirmsOwed)'
  BY OwedNext
<1> QED  BY <1>1, <1>2, WorkerType, PTL DEF Spec
-----------------------------------------------------------------------------
(* Where a message is: on its way from a wire into the queue, into a       *)
(* worker's hands and back.                                                *)

In(q, e) == \E i \in 1 .. Len(q) : q[i] = e

LEMMA InOps ==
  ASSUME NEW S, NEW q \in Seq(S), NEW e \in S
  PROVE  /\ \A x \in S : In(Append(q, x), x) /\ (In(q, e) => In(Append(q, x), e))
         /\ \A r \in Seq(S) : In(q, e) \/ In(r, e) => In(q \o r, e)
         /\ In(q, e) => q # <<>>
         /\ In(q, e) /\ e # Head(q) => In(Tail(q), e)
         /\ q # <<>> => In(q, Head(q))
<1>1. ASSUME NEW x \in S PROVE In(Append(q, x), x) /\ (In(q, e) => In(Append(q, x), e))
  <2>1. Append(q, x)[Len(q) + 1] = x /\ Len(Append(q, x)) = Len(q) + 1
    OBVIOUS
  <2>2. \A i \in 1 .. Len(q) : Append(q, x)[i] = q[i] /\ i \in 1 .. Len(q) + 1
    OBVIOUS
  <2>3. Len(q) + 1 \in 1 .. Len(q) + 1
    OBVIOUS
  <2> QED  BY <2>1, <2>2, <2>3 DEF In
<1>2. ASSUME NEW r \in Seq(S), In(q, e) \/ In(r, e) PROVE In(q \o r, e)
  <2>1. Len(q \o r) = Len(q) + Len(r) /\ Len(q) \in Nat /\ Len(r) \in Nat
    OBVIOUS
  <2>2. CASE In(q, e)
    <3>1. PICK i \in 1 .. Len(q) : q[i] = e
      BY <2>2 DEF In
    <3>2. (q \o r)[i] = e /\ i \in 1 .. Len(q \o r)
      BY <2>1, <3>1
    <3> QED  BY <3>2 DEF In
  <2>3. CASE In(r, e)
    <3>1. PICK i \in 1 .. Len(r) : r[i] = e
      BY <2>3 DEF In
    <3>2. (q \o r)[Len(q) + i] = e /\ Len(q) + i \in 1 .. Len(q \o r)
      BY <2>1, <3>1
    <3> QED  BY <3>2 DEF In
  <2> QED  BY <1>2, <2>2, <2>3
<1>3. ASSUME In(q, e) PROVE q # <<>>
  BY <1>3 DEF In
<1>4. ASSUME In(q, e), e # Head(q) PROVE In(Tail(q), e)
  <2>1. PICK i \in 1 .. Len(q) : q[i] = e
    BY <1>4 DEF In
  <2>2. i # 1
    BY <1>4, <2>1
  <2>3. i - 1 \in 1 .. Len(Tail(q)) /\ Tail(q)[i - 1] = e
    BY <2>1, <2>2
  <2> QED  BY <2>3 DEF In
<1>5. ASSUME q # <<>> PROVE In(q, Head(q))
  <2>1. 1 \in 1 .. Len(q) /\ q[1] = Head(q)
    BY <1>5
  <2> QED  BY <2>1 DEF In
<1> QED  BY <1>1, <1>2, <1>3, <1>4, <1>5

Safe(e) == e.id \in dedup \/ e \in dead \/ InFlight(e)

LEMMA SafeIs ==
  ASSUME NEW e
  PROVE  /\ Safe(e) <=> \/ e.id \in dedup \/ e \in dead \/ In(queue, e)
                        \/ \E w \in Workers : In(unacked[w], e)
         /\ Safe(e)' <=> \/ e.id \in dedup' \/ e \in dead' \/ In(queue', e)
                         \/ \E w \in Workers : In(unacked'[w], e)
<1>1. InFlight(e) <=> In(queue, e) \/ \E w \in Workers : In(unacked[w], e)
  BY DEF InFlight, InQueue, In
<1>2. InFlight(e)' <=> In(queue', e) \/ \E w \in Workers : In(unacked'[w], e)
  BY DEF InFlight, InQueue, In
<1> QED  BY <1>1, <1>2 DEF Safe

\* What a consumer has in hand while its connection lasts is the first of its
\* deliveries, and behind Apply it has been counted.
Hands ==
  \A w \in Workers :
    /\ status[w] # "up" => unacked[w] = <<>>
    /\ consumer[w].pc \in {"del", "ack"} => consumer[w].msg.id \in dedup
    /\ status[w] = "up" /\ consumer[w].pc # "idle" => Head(unacked[w]) = consumer[w].msg

\* The steps that move messages.
LEMMA Moves ==
  ASSUME [Next]_vars
  PROVE  \/ UNCHANGED <<queue, unacked, dead>> /\ dedup \subseteq dedup'
         \/ \E w \in Workers : \/ BrokerAccept(w) \/ Deliver(w) \/ Ack(w) \/ Nack(w)
                               \/ ConnLost(w) \/ Crash(w)
<1> USE DEF database, broker, channel
<1>1. ASSUME NEW w \in Workers, Relay(w) \/ ConfirmTimeout(w) \/ BrokerReject(w) \/ Start(w)
      PROVE  UNCHANGED <<queue, unacked, dead, dedup>>
  BY <1>1 DEF Relay, FetchPending, Publish, TakeConfirm, Confirm, ConfirmClosed,
              ConfirmTimeout, MarkProcessed, BrokerReject, Start
<1>2. ASSUME NEW w \in Workers, Take(w) \/ Apply(w) \/ ApplyFails(w) \/ DelCache(w)
      PROVE  UNCHANGED <<queue, unacked, dead>> /\ dedup \subseteq dedup'
  BY <1>2 DEF Take, Apply, CountOnce, Count, ApplyFails, DelCache
<1>3. ASSUME Produce \/ UNCHANGED vars \/ \E p \in Posts : ReadThrough(p)
      PROVE  UNCHANGED <<queue, unacked, dead, dedup>>
  BY <1>3 DEF Produce, ReadThrough, ReadRow, SetRow, ExpireCache, vars
<1> QED  BY <1>1, <1>2, <1>3 DEF Next, Work, Consume

\* A row once safe stays so: a message leaves the broker only when it has been
\* counted or put aside.
LEMMA SafeNext ==
  ASSUME TypeOK, Holding, Hands, [Next]_vars, NEW e \in outbox, Safe(e)
  PROVE  Safe(e)'
<1> USE DEF database, broker, channel
<1>1. queue \in Seq(outbox) /\ unacked \in [Workers -> Seq(outbox)]
      /\ wire \in [Workers -> Seq(outbox)]
  BY DEF TypeOK
<1>2. \/ e.id \in dedup \/ e \in dead \/ In(queue, e)
      \/ \E w \in Workers : In(unacked[w], e)
  BY SafeIs
<1> SUFFICES \/ e.id \in dedup' \/ e \in dead' \/ In(queue', e)
             \/ \E w \in Workers : In(unacked'[w], e)
  BY SafeIs
<1>3. CASE UNCHANGED <<queue, unacked, dead>> /\ dedup \subseteq dedup'
  BY <1>2, <1>3
<1>4. ASSUME NEW w \in Workers, BrokerAccept(w) PROVE Safe(e)'
  <2>1. /\ wire[w] # <<>> /\ queue' = Append(queue, Head(wire[w]))
        /\ UNCHANGED <<unacked, dedup, dead>>
    BY <1>4 DEF BrokerAccept
  <2>2. Head(wire[w]) \in outbox
    BY <1>1, <2>1, SeqOps
  <2>3. In(queue, e) => In(queue', e)
    BY <1>1, <2>1, <2>2, InOps
  <2> QED  BY <1>2, <2>1, <2>3, SafeIs
<1>5. ASSUME NEW w \in Workers, Deliver(w) PROVE Safe(e)'
  <2>1. /\ queue # <<>> /\ queue' = Tail(queue)
        /\ unacked' = [unacked EXCEPT ![w] = Append(@, Head(queue))]
        /\ UNCHANGED <<dedup, dead>>
    BY <1>5 DEF Deliver
  <2>2. Head(queue) \in outbox
    BY <1>1, <2>1, SeqOps
  <2>3. unacked'[w] = Append(unacked[w], Head(queue)) /\ unacked[w] \in Seq(outbox)
        /\ \A v \in Workers \ {w} : unacked'[v] = unacked[v]
    BY <1>1, <2>1
  <2>4. In(queue, e) => In(queue', e) \/ In(unacked'[w], e)
    <3>1. In(queue, e) /\ e # Head(queue) => In(queue', e)
      BY <1>1, <2>1, InOps
    <3>2. In(unacked'[w], Head(queue))
      BY <2>2, <2>3, InOps
    <3> QED  BY <3>1, <3>2
  <2>5. In(unacked[w], e) => In(unacked'[w], e)
    BY <2>2, <2>3, InOps
  <2> QED  BY <1>2, <2>1, <2>3, <2>4, <2>5, SafeIs
<1>6. ASSUME NEW w \in Workers, Ack(w) \/ Nack(w) PROVE Safe(e)'
  <2>1. /\ unacked' = IF status[w] = "up" THEN [unacked EXCEPT ![w] = Tail(@)] ELSE unacked
        /\ UNCHANGED <<queue, dedup>> /\ dead \subseteq dead'
    BY <1>6 DEF Ack, Nack, Settle
  <2>2. CASE status[w] # "up"
    BY <1>2, <2>1, <2>2, SafeIs
  <2>3. CASE status[w] = "up"
    <3>1. /\ unacked'[w] = Tail(unacked[w]) /\ unacked[w] \in Seq(outbox)
          /\ \A v \in Workers \ {w} : unacked'[v] = unacked[v]
      BY <1>1, <2>1, <2>3
    <3>2. Head(unacked[w]) = consumer[w].msg
      BY <1>6, <2>3 DEF Hands, Ack, Nack
    <3>3. consumer[w].msg.id \in dedup \/ consumer[w].msg \in dead'
      BY <1>6, <2>3 DEF Hands, Ack, Nack
    <3>4. In(unacked[w], e) => e = consumer[w].msg \/ In(unacked'[w], e)
      BY <3>1, <3>2, InOps
    <3> QED  BY <1>2, <2>1, <3>1, <3>3, <3>4, SafeIs
  <2> QED  BY <2>2, <2>3
<1>7. ASSUME NEW w \in Workers, ConnLost(w) \/ Crash(w) PROVE Safe(e)'
  <2>1. /\ queue' = unacked[w] \o queue /\ unacked' = [unacked EXCEPT ![w] = <<>>]
        /\ UNCHANGED <<dedup, dead>>
    BY <1>7 DEF ConnLost, Crash, Requeue
  <2>2. unacked[w] \in Seq(outbox) /\ \A v \in Workers \ {w} : unacked'[v] = unacked[v]
    BY <1>1, <2>1
  <2>3. In(unacked[w], e) \/ In(queue, e) => In(queue', e)
    BY <1>1, <2>1, <2>2, InOps
  <2> QED  BY <1>2, <2>1, <2>2, <2>3, SafeIs
<1> QED  BY <1>3, <1>4, <1>5, <1>6, <1>7, Moves, SafeIs
LEMMA HandsNext ==
  ASSUME TypeOK, Holding, Hands, [Next]_vars
  PROVE  Hands'
<1> USE DEF database, broker, channel
<1>1. /\ consumer \in [Workers -> {IdleConsumer} \cup InHand]
      /\ unacked \in [Workers -> Seq(outbox)] /\ queue \in Seq(outbox)
      /\ status \in [Workers -> {"up", "cut", "down"}]
  BY DEF TypeOK, InHand
\* It is enough to look at the worker that moves.
<1>2. ASSUME NEW w \in Workers, dedup \subseteq dedup',
             \A v \in Workers \ {w} : /\ consumer'[v] = consumer[v]
                                      /\ unacked'[v] = unacked[v] /\ status'[v] = status[v],
             status'[w] # "up" => unacked'[w] = <<>>,
             consumer'[w].pc \in {"del", "ack"} => consumer'[w].msg.id \in dedup',
             status'[w] = "up" /\ consumer'[w].pc # "idle"
               => Head(unacked'[w]) = consumer'[w].msg
      PROVE  Hands'
  BY <1>2 DEF Hands
<1>3. CASE UNCHANGED <<status, consumer, unacked, dedup>>
  BY <1>3 DEF Hands
<1>4. ASSUME NEW w \in Workers, Deliver(w) PROVE Hands'
  <2>1. /\ queue # <<>> /\ status[w] = "up"
        /\ unacked' = [unacked EXCEPT ![w] = Append(@, Head(queue))]
        /\ UNCHANGED <<status, consumer, dedup>>
    BY <1>4 DEF Deliver
  <2>2. Head(queue) \in outbox
    BY <1>1, <2>1, SeqOps
  <2>3. unacked'[w] = Append(unacked[w], Head(queue)) /\ unacked[w] \in Seq(outbox)
        /\ \A v \in Workers \ {w} : unacked'[v] = unacked[v]
    BY <1>1, <2>1
  <2>4. unacked[w] # <<>> => Head(unacked'[w]) = Head(unacked[w])
    BY <2>2, <2>3
  <2>5. consumer[w].pc # "idle"
          => unacked[w] # <<>> /\ Head(unacked[w]) = consumer[w].msg
    BY <2>1 DEF Holding, Hands
  <2>6. consumer[w].pc \in {"del", "ack"} => consumer[w].msg.id \in dedup
    BY DEF Hands
  <2> QED  BY <1>2, <2>1, <2>3, <2>4, <2>5, <2>6
<1>5. ASSUME NEW w \in Workers, Take(w) PROVE Hands'
  <2>1. /\ status[w] = "up" /\ UNCHANGED <<status, unacked, dedup>>
        /\ consumer'[w].pc = "apply" /\ consumer'[w].msg = Head(unacked[w])
        /\ \A v \in Workers \ {w} : consumer'[v] = consumer[v]
    BY <1>1, <1>5 DEF Take, Busy
  <2> QED  BY <1>2, <2>1
<1>6. ASSUME NEW w \in Workers, Apply(w) \/ ApplyFails(w) \/ DelCache(w) PROVE Hands'
  <2>1. /\ UNCHANGED <<status, unacked>> /\ dedup \subseteq dedup'
        /\ consumer[w].pc # "idle"
        /\ \A v \in Workers \ {w} : consumer'[v] = consumer[v]
    BY <1>1, <1>6 DEF Apply, CountOnce, Count, ApplyFails, DelCache
  <2>2. PICK pc \in {"del", "nack", "ack"} :
          /\ consumer' = [consumer EXCEPT ![w].pc = pc]
          /\ pc # "nack" => consumer[w].msg.id \in dedup'
    BY <1>6 DEF Apply, CountOnce, Count, ApplyFails, DelCache, Hands
  <2>3. consumer'[w].msg = consumer[w].msg /\ consumer'[w].pc = pc
    <3>1. consumer[w] \in InHand
      BY <2>1, ConsumerType
    <3>2. consumer'[w] = [consumer[w] EXCEPT !.pc = pc]
      BY <1>1, <2>2
    <3> QED  BY <3>1, <3>2 DEF InHand
  <2>4. /\ status[w] = "up" => Head(unacked[w]) = consumer[w].msg
        /\ status[w] # "up" => unacked[w] = <<>>
    BY <2>1 DEF Hands
  <2> QED  BY <1>2, <2>1, <2>2, <2>3, <2>4
<1>7. ASSUME NEW w \in Workers, Ack(w) \/ Nack(w) PROVE Hands'
  <2>1. /\ unacked' = IF status[w] = "up" THEN [unacked EXCEPT ![w] = Tail(@)] ELSE unacked
        /\ consumer' = [consumer EXCEPT ![w] = IdleConsumer] /\ UNCHANGED <<status, dedup>>
    BY <1>7 DEF Ack, Nack, Settle
  <2>2. /\ \A v \in Workers \ {w} : unacked'[v] = unacked[v] /\ consumer'[v] = consumer[v]
        /\ consumer'[w].pc = "idle" /\ (status[w] # "up" => unacked'[w] = unacked[w])
    BY <1>1, <2>1 DEF IdleConsumer
  <2>3. status[w] # "up" => unacked[w] = <<>>
    BY DEF Hands
  <2> QED  BY <1>2, <2>1, <2>2, <2>3
<1>8. ASSUME NEW w \in Workers, ConnLost(w) \/ Crash(w) PROVE Hands'
  <2>1. /\ unacked'[w] = <<>> /\ UNCHANGED dedup /\ status'[w] # "up"
        /\ \A v \in Workers \ {w} : /\ unacked'[v] = unacked[v] /\ status'[v] = status[v]
                                    /\ consumer'[v] = consumer[v]
        /\ consumer'[w] = consumer[w] \/ consumer'[w].pc = "idle"
    BY <1>1, <1>8 DEF ConnLost, Crash, Requeue, IdleConsumer
  <2>2. consumer[w].pc \in {"del", "ack"} => consumer[w].msg.id \in dedup
    BY DEF Hands
  <2> QED  BY <1>2, <2>1, <2>2
<1>9. ASSUME NEW w \in Workers, Start(w) PROVE Hands'
  <2>1. /\ UNCHANGED <<consumer, unacked, dedup>> /\ consumer[w].pc = "idle"
        /\ status'[w] = "up" /\ \A v \in Workers \ {w} : status'[v] = status[v]
    BY <1>1, <1>9 DEF Start, Holding
  <2> QED  BY <1>2, <2>1
<1>10. ASSUME NEW w \in Workers,
              Relay(w) \/ ConfirmTimeout(w) \/ BrokerAccept(w) \/ BrokerReject(w)
       PROVE  UNCHANGED <<status, consumer, unacked, dedup>>
  BY <1>10 DEF Relay, FetchPending, Publish, TakeConfirm, Confirm, ConfirmClosed,
               ConfirmTimeout, MarkProcessed, BrokerAccept, BrokerReject
<1>11. ASSUME Produce \/ UNCHANGED vars \/ \E p \in Posts : ReadThrough(p)
       PROVE  UNCHANGED <<status, consumer, unacked, dedup>>
  BY <1>11 DEF Produce, ReadThrough, ReadRow, SetRow, ExpireCache, vars
<1> QED  BY <1>3, <1>4, <1>5, <1>6, <1>7, <1>8, <1>9, <1>10, <1>11 DEF Next, Work, Consume

\* Until a confirm comes too late, an answer on the channel is about the row the
\* relay waits for, and the rows it has put aside are safe.
Asked ==
  \A w \in Workers : relay[w].pc = "confirm" => \A e \in First(relay[w].batch) :
    /\ wire[w] # <<>> => Head(wire[w]) = e
    /\ confirms[w] # <<>> /\ Head(confirms[w]) => Safe(e)
SafelyDone ==
  \A e \in outbox :
    (e.id \in marked \/ \E w \in Workers : e.id \in relay[w].done) => Safe(e)

\* With no confirm late there is one answer due, and only while it is waited for.
LEMMA OneDue ==
  ASSUME TypeOK, ConfirmsOwed, faults["timeout"] = 0, NEW w \in Workers
  PROVE  /\ relay[w].pc # "confirm" => wire[w] = <<>> /\ confirms[w] = <<>>
         /\ wire[w] # <<>> => /\ Tail(wire[w]) = <<>> /\ confirms[w] = <<>>
                             /\ relay[w].pc = "confirm"
<1>1. wire[w] \in Seq(outbox) /\ confirms[w] \in Seq(BOOLEAN)
  BY DEF TypeOK
<1> DEFINE a == Len(wire[w])
           b == Len(confirms[w])
           d == Due(0, relay[w].pc)
<1>2. a \in Nat /\ b \in Nat /\ a + b <= d
  BY ChannelLengths
<1>3. d \in Nat /\ d <= 1 /\ (relay[w].pc # "confirm" => d = 0)
  BY DueIs DEF Due
<1>4. /\ a = 0 => wire[w] = <<>>
      /\ b = 0 => confirms[w] = <<>>
      /\ wire[w] # <<>> => a # 0 /\ (a = 1 => Tail(wire[w]) = <<>>)
  <2>1. /\ a = 0 => wire[w] = <<>>
        /\ b = 0 => confirms[w] = <<>>
        /\ wire[w] # <<>> => a # 0
    BY <1>1
  <2>2. ASSUME wire[w] # <<>>, a = 1 PROVE Tail(wire[w]) = <<>>
    <3>1. Tail(wire[w]) \in Seq(outbox) /\ Len(Tail(wire[w])) = 0
      BY <1>1, <2>2
    <3>2. \A q \in Seq(outbox) : Len(q) = 0 => q = <<>>
      OBVIOUS
    <3> QED  BY <3>1, <3>2, Zenon
  <2> QED  BY <2>1, <2>2
<1> HIDE DEF a, b, d
<1>5. relay[w].pc # "confirm" => a = 0 /\ b = 0
  BY <1>2, <1>3
<1>6. a # 0 => b = 0 /\ a = 1
  BY <1>2, <1>3
<1> QED  BY <1>4, <1>5, <1>6

\* The relay asks for one row at a time.
LEMMA FirstIsOne ==
  ASSUME TypeOK, NEW w \in Workers,
         NEW e \in First(relay[w].batch), NEW f \in First(relay[w].batch)
  PROVE  e = f /\ e \in outbox
<1>1. relay[w].batch \subseteq outbox /\ outbox \subseteq Events
  BY RelayParts DEF TypeOK
<1>2. e \in Events /\ f \in Events /\ e \in outbox /\ e.id <= f.id /\ f.id <= e.id
  BY <1>1 DEF First
<1>3. e.id \in Int /\ f.id \in Int
  BY <1>2, WorkerAssumption DEF CountEvent
<1>4. e.id = f.id
  BY <1>2, <1>3
<1>5. f \in outbox
  BY <1>1 DEF First
<1> QED  BY <1>2, <1>4, <1>5 DEF TypeOK

\* Faults are not forgotten.
LEMMA FaultsGrow ==
  ASSUME TypeOK, [Next]_vars, NEW k \in Faults, faults'[k] = 0
  PROVE  faults[k] = 0 /\ ~Fault(k)
<1> USE DEF database, broker, channel
<1>1. faults \in [Faults -> Nat] /\ faults[k] \in Nat
  BY DEF TypeOK
<1>2. \A j \in Faults : Fault(j) => faults[k] <= faults'[k]
  BY <1>1 DEF Fault
<1>3. ASSUME NEW w \in Workers, Work(w) PROVE faults' = faults \/ \E j \in Faults : Fault(j)
  BY <1>3 DEF Work, Relay, Consume, FetchPending, Publish, TakeConfirm, Confirm,
      ConfirmClosed, ConfirmTimeout, MarkProcessed, BrokerAccept, BrokerReject, Deliver,
      Take, Apply, ApplyFails, DelCache, Ack, Nack, Settle, ConnLost, Crash, Start,
      NoFault, Faults
<1>4. faults' = faults \/ \E j \in Faults : Fault(j)
  BY <1>3 DEF Next, vars, Produce, ReadThrough, ReadRow, SetRow, ExpireCache
<1>5. ~Fault(k)
  BY <1>1 DEF Fault
<1> QED  BY <1>1, <1>2, <1>4, <1>5

LEMMA TimeoutsGrow ==
  ASSUME TypeOK, [Next]_vars, faults'["timeout"] = 0
  PROVE  faults["timeout"] = 0 /\ \A w \in Workers : ~ConfirmTimeout(w)
BY FaultsGrow DEF ConfirmTimeout, Faults

LEMMA SafelyDoneNext ==
  ASSUME TypeOK, Holding, Hands, SafelyDone, Asked, [Next]_vars, faults'["timeout"] = 0
  PROVE  SafelyDone'
<1> USE DEF database, broker, channel
<1>1. \A e \in outbox : Safe(e) => Safe(e)'
  BY SafeNext
<1>2. ASSUME outbox' = outbox,
             \A i \in marked' : i \in marked \/ \E v \in Workers : i \in relay[v].done,
             \A w \in Workers : \A i \in relay'[w].done : i \in relay[w].done
      PROVE  SafelyDone'
  BY <1>1, <1>2 DEF SafelyDone
<1>3. /\ relay \in [Workers -> RelayRound] /\ marked \subseteq Ids(outbox)
      /\ \A w \in Workers : relay[w].done \subseteq Ids(outbox)
  BY RelayParts DEF TypeOK, RelayRound
<1>4. ASSUME UNCHANGED <<outbox, marked, relay>> PROVE SafelyDone'
  BY <1>2, <1>4
\* A row committed now has an id that nobody has put aside.
<1>5. ASSUME Produce PROVE SafelyDone'
  <2>1. PICK e \in Events : e.id \notin Ids(outbox) /\ outbox' = outbox \cup {e}
    BY <1>5 DEF Produce
  <2>2. UNCHANGED <<marked, relay>>
    BY <1>5 DEF Produce
  <2> QED  BY <1>1, <1>3, <2>1, <2>2 DEF SafelyDone
<1>6. ASSUME NEW w \in Workers,
             FetchPending(w) \/ Publish(w) \/ ConfirmClosed(w) \/ Crash(w)
      PROVE  SafelyDone'
  <2>1. UNCHANGED <<outbox, marked>>
    BY <1>6 DEF FetchPending, Publish, ConfirmClosed, Crash
  <2>2. \A v \in Workers : relay'[v].done \subseteq relay[v].done
    BY <1>3, <1>6 DEF FetchPending, Publish, ConfirmClosed, Crash, RelayGoes, IdleRelay
  <2> QED  BY <1>2, <2>1, <2>2
<1>7. ASSUME NEW w \in Workers, MarkProcessed(w) PROVE SafelyDone'
  <2>1. outbox' = outbox /\ marked' \subseteq marked \cup relay[w].done
    BY <1>7 DEF MarkProcessed
  <2>2. \A v \in Workers : relay'[v].done \subseteq relay[v].done
    BY <1>3, <1>7 DEF MarkProcessed, RelayGoes
  <2> QED  BY <1>2, <2>1, <2>2
<1>8. ASSUME NEW w \in Workers, TakeConfirm(w) PROVE SafelyDone'
  <2>1. /\ UNCHANGED <<outbox, marked>>
        /\ relay[w].pc = "confirm" /\ confirms[w] # <<>>
    BY <1>8 DEF TakeConfirm, Confirm
  <2>2. CASE Head(confirms[w])
    <3>1. PICK e \in First(relay[w].batch) :
            RelayGoes(w, IF relay[w].batch \ {e} = {} THEN "mark" ELSE "publish",
                      relay[w].batch \ {e}, relay[w].done \cup {e.id})
      BY <1>8, <2>2 DEF TakeConfirm, NextMessage
    <3>2. e \in outbox /\ Safe(e)
      BY <2>1, <2>2, FirstIsOne DEF Asked
    <3>3. \A f \in outbox : f.id = e.id => f = e
      BY <3>2, WorkerAssumption DEF TypeOK
    <3>4. /\ relay'[w].done = relay[w].done \cup {e.id}
          /\ \A v \in Workers \ {w} : relay'[v] = relay[v]
      BY <1>3, <3>1 DEF RelayGoes
    <3> QED  BY <1>1, <2>1, <3>2, <3>3, <3>4 DEF SafelyDone
  <2>3. CASE ~Head(confirms[w])
    <3>1. RelayGoes(w, "mark", {}, relay[w].done)
      BY <1>8, <2>3 DEF TakeConfirm
    <3>2. \A v \in Workers : relay'[v].done \subseteq relay[v].done
      BY <1>3, <3>1 DEF RelayGoes
    <3> QED  BY <1>2, <2>1, <3>2
  <2> QED  BY <2>2, <2>3
<1>9. ASSUME NEW w \in Workers,
             \/ BrokerAccept(w) \/ BrokerReject(w) \/ Deliver(w) \/ Consume(w)
             \/ ApplyFails(w) \/ ConnLost(w) \/ Start(w)
      PROVE  UNCHANGED <<outbox, marked, relay>>
  BY <1>9 DEF BrokerAccept, BrokerReject, Deliver, Consume, Take, Apply, ApplyFails, DelCache,
              Ack, Nack, Settle, ConnLost, Start
<1>10. ASSUME UNCHANGED vars \/ \E p \in Posts : ReadThrough(p)
       PROVE  UNCHANGED <<outbox, marked, relay>>
  BY <1>10 DEF ReadThrough, ReadRow, SetRow, ExpireCache, vars
<1> QED  BY <1>4, <1>5, <1>6, <1>7, <1>8, <1>9, <1>10, TimeoutsGrow DEF Next, Work, Relay

LEMMA AskedNext ==
  ASSUME TypeOK, Holding, Hands, ConfirmsOwed, Asked, [Next]_vars, faults'["timeout"] = 0
  PROVE  Asked'
<1> USE DEF database, broker, channel
<1>1. \A e \in outbox : Safe(e) => Safe(e)'
  BY SafeNext
<1>2. /\ relay \in [Workers -> RelayRound] /\ wire \in [Workers -> Seq(outbox)]
      /\ confirms \in [Workers -> Seq(BOOLEAN)]
  BY DEF TypeOK, RelayRound
<1>3. faults["timeout"] = 0 /\ \A w \in Workers : ~ConfirmTimeout(w)
  BY TimeoutsGrow
\* It is enough to look at the worker that moves.
<1>4. ASSUME NEW w \in Workers,
             \A v \in Workers \ {w} :
               relay'[v] = relay[v] /\ wire'[v] = wire[v] /\ confirms'[v] = confirms[v],
             relay'[w].pc = "confirm" => \A e \in First(relay'[w].batch) :
               /\ wire'[w] # <<>> => Head(wire'[w]) = e
               /\ confirms'[w] # <<>> /\ Head(confirms'[w]) => Safe(e)'
      PROVE  Asked'
  <2> SUFFICES ASSUME NEW v \in Workers \ {w}, relay'[v].pc = "confirm",
                      NEW e \in First(relay'[v].batch)
               PROVE  /\ wire'[v] # <<>> => Head(wire'[v]) = e
                      /\ confirms'[v] # <<>> /\ Head(confirms'[v]) => Safe(e)'
    BY <1>4 DEF Asked, First
  <2>1. e \in First(relay[v].batch) /\ relay[v].pc = "confirm"
    BY <1>4
  <2>2. e \in outbox
    BY <2>1, FirstIsOne
  <2> QED  BY <1>1, <1>4, <2>1, <2>2 DEF Asked
<1>5. CASE UNCHANGED <<relay, wire, confirms>>
  <2>1. \A w \in Workers : First(relay[w].batch) \subseteq outbox
    BY FirstIsOne
  <2> QED  BY <1>1, <1>5, <2>1 DEF Asked, First
<1>6. ASSUME NEW w \in Workers,
             \/ FetchPending(w) \/ TakeConfirm(w) \/ ConfirmClosed(w) \/ MarkProcessed(w)
             \/ Crash(w)
      PROVE  Asked'
  <2>1. /\ \A v \in Workers \ {w} :
             relay'[v] = relay[v] /\ wire'[v] = wire[v] /\ confirms'[v] = confirms[v]
        /\ relay'[w].pc # "confirm"
    <3>1. CASE TakeConfirm(w)
      <4>1. CASE Head(confirms[w])
        <5>1. PICK e \in First(relay[w].batch) :
                LET rest == relay[w].batch \ {e} IN
                RelayGoes(w, IF rest = {} THEN "mark" ELSE "publish", rest,
                          relay[w].done \cup {e.id})
          BY <3>1, <4>1 DEF TakeConfirm, NextMessage
        <5> QED  BY <1>2, <3>1, <5>1 DEF TakeConfirm, Confirm, RelayGoes
      <4>2. CASE ~Head(confirms[w])
        <5>1. RelayGoes(w, "mark", {}, relay[w].done)
          BY <3>1, <4>2 DEF TakeConfirm
        <5> QED  BY <1>2, <3>1, <5>1 DEF TakeConfirm, Confirm, RelayGoes
      <4> QED  BY <4>1, <4>2
    <3>2. CASE FetchPending(w) \/ ConfirmClosed(w) \/ MarkProcessed(w)
      BY <1>2, <3>2 DEF FetchPending, ConfirmClosed, MarkProcessed, RelayGoes
    <3>3. CASE Crash(w)
      BY <1>2, <3>3 DEF Crash, Requeue, IdleRelay
    <3> QED  BY <1>6, <3>1, <3>2, <3>3
  <2> QED  BY <1>4, <2>1
<1>7. ASSUME NEW w \in Workers, Publish(w) PROVE Asked'
  <2>1. PICK e \in First(relay[w].batch) :
          IF status[w] = "up"
            THEN /\ wire' = [wire EXCEPT ![w] = Append(@, e)]
                 /\ RelayGoes(w, "confirm", relay[w].batch, relay[w].done)
            ELSE /\ wire' = wire
                 /\ RelayGoes(w, "mark", {}, relay[w].done)
    BY <1>7 DEF Publish
  <2>2. wire[w] = <<>> /\ confirms[w] = <<>>
    BY <1>3, <1>7, OneDue DEF Publish
  <2>3. /\ UNCHANGED confirms
        /\ \A v \in Workers \ {w} : relay'[v] = relay[v] /\ wire'[v] = wire[v]
    BY <1>2, <1>7, <2>1 DEF Publish, RelayGoes
  <2>4. CASE status[w] = "up"
    <3>1. wire'[w] = Append(<<>>, e) /\ relay'[w].batch = relay[w].batch
      BY <1>2, <2>1, <2>2, <2>4 DEF RelayGoes
    <3>2. Head(wire'[w]) = e
      BY <3>1
    <3>3. \A f \in First(relay[w].batch) : f = e
      BY FirstIsOne
    <3> QED  BY <1>4, <2>2, <2>3, <3>1, <3>2, <3>3
  <2>5. CASE status[w] # "up"
    <3>1. relay'[w].pc = "mark"
      BY <1>2, <2>1, <2>5 DEF RelayGoes
    <3> QED  BY <1>4, <2>3, <3>1
  <2> QED  BY <2>4, <2>5
\* The answer is about the only message there is.
<1>8. ASSUME NEW w \in Workers, BrokerAccept(w) \/ BrokerReject(w) PROVE Asked'
  <2>1. wire[w] # <<>> /\ wire' = [wire EXCEPT ![w] = Tail(@)] /\ UNCHANGED relay
    BY <1>8 DEF BrokerAccept, BrokerReject
  <2>2. confirms[w] = <<>> /\ Tail(wire[w]) = <<>> /\ relay[w].pc = "confirm"
    BY <1>3, <2>1, OneDue
  <2>3. wire'[w] = <<>> /\ \A v \in Workers \ {w} : wire'[v] = wire[v]
    BY <1>2, <2>1, <2>2
  <2>4. CASE BrokerAccept(w)
    <3>1. /\ queue' = Append(queue, Head(wire[w]))
          /\ confirms' = [confirms EXCEPT ![w] = Append(@, TRUE)]
      BY <2>4 DEF BrokerAccept
    <3>2. \A v \in Workers \ {w} : confirms'[v] = confirms[v]
      BY <1>2, <3>1
    <3>3. queue \in Seq(outbox) /\ Head(wire[w]) \in outbox
      BY <1>2, <2>1, SeqOps DEF TypeOK
    <3>4. In(queue', Head(wire[w]))
      BY <3>1, <3>3, InOps
    <3>5. \A e \in First(relay[w].batch) : Safe(e)'
      BY <2>1, <2>2, <3>4, SafeIs DEF Asked
    <3> QED  BY <1>4, <2>1, <2>3, <3>2, <3>5
  <2>5. CASE BrokerReject(w)
    <3>1. confirms' = [confirms EXCEPT ![w] = Append(@, FALSE)]
      BY <2>5 DEF BrokerReject
    <3>2. confirms'[w] = Append(<<>>, FALSE) /\ \A v \in Workers \ {w} : confirms'[v] = confirms[v]
      BY <1>2, <2>2, <3>1
    <3>3. ~Head(confirms'[w])
      <4>1. \A x : Head(Append(<<>>, x)) = x
        OBVIOUS
      <4> QED  BY <3>2, <4>1, Zenon
    <3> QED  BY <1>4, <2>1, <2>3, <3>2, <3>3
  <2> QED  BY <1>8, <2>4, <2>5
<1>9. ASSUME NEW w \in Workers, ConnLost(w) PROVE Asked'
  <2>1. /\ wire' = [wire EXCEPT ![w] = <<>>] /\ UNCHANGED relay
        /\ \E n \in 0 .. ConfirmBuffer :
             /\ n <= Len(confirms[w])
             /\ confirms' = [confirms EXCEPT ![w] = SubSeq(@, 1, n)]
    BY <1>9 DEF ConnLost, Requeue
  <2>2. PICK n \in 0 .. ConfirmBuffer :
          /\ n <= Len(confirms[w])
          /\ confirms' = [confirms EXCEPT ![w] = SubSeq(@, 1, n)]
    BY <2>1
  <2>3. /\ wire'[w] = <<>> /\ confirms'[w] = SubSeq(confirms[w], 1, n)
        /\ \A v \in Workers \ {w} : wire'[v] = wire[v] /\ confirms'[v] = confirms[v]
    BY <1>2, <2>1, <2>2
  <2>4. confirms'[w] # <<>> => confirms[w] # <<>> /\ Head(confirms'[w]) = Head(confirms[w])
    <3>1. confirms[w] \in Seq(BOOLEAN) /\ n \in Nat
      BY <1>2, WorkerAssumption
    <3> QED  BY <2>2, <2>3, <3>1
  <2>5. \A e \in First(relay[w].batch) : e \in outbox
    BY FirstIsOne
  <2> QED  BY <1>1, <1>4, <2>1, <2>3, <2>4, <2>5 DEF Asked
<1>10. ASSUME NEW w \in Workers, Deliver(w) \/ Consume(w) \/ ApplyFails(w) \/ Start(w)
       PROVE  UNCHANGED <<relay, wire, confirms>>
  BY <1>10 DEF Deliver, Consume, Take, Apply, ApplyFails, DelCache, Ack, Nack, Settle, Start
<1>11. ASSUME Produce \/ UNCHANGED vars \/ \E p \in Posts : ReadThrough(p)
       PROVE  UNCHANGED <<relay, wire, confirms>>
  BY <1>11 DEF Produce, ReadThrough, ReadRow, SetRow, ExpireCache, vars
<1> QED
  BY <1>3, <1>5, <1>6, <1>7, <1>8, <1>9, <1>10, <1>11 DEF Next, Work, Relay

(***************************************************************************)
(* While no confirm is late, a row the relay has put aside is safe: it has *)
(* been counted, or it waits in the broker, or it is a dead letter.  The   *)
(* argument is the one Publish relies on without saying so: the answer on  *)
(* the channel is about the row last written (Asked), because nothing else *)
(* is due there (OneDue); and the broker gives up a message only after it  *)
(* has been counted or refused (SafeNext).                                 *)
(***************************************************************************)
THEOREM WorkerNoLoss == Spec => []NoLoss
<1> DEFINE Trust == faults["timeout"] = 0 => SafelyDone /\ Asked
<1>1. Init => Holding /\ Hands /\ Trust
  <2> SUFFICES ASSUME Init PROVE Holding /\ Hands /\ SafelyDone /\ Asked
    OBVIOUS
  <2>1. Holding /\ Hands
    BY DEF Init, Holding, Hands, IdleConsumer
  <2>2. SafelyDone /\ Asked
    BY DEF Init, SafelyDone, Asked, IdleRelay
  <2> QED  BY <2>1, <2>2
<1>2. TypeOK /\ ConfirmsOwed /\ Holding /\ Hands /\ Trust /\ [Next]_vars
        => (Holding /\ Hands /\ Trust)'
  BY HoldingNext, HandsNext, SafelyDoneNext, AskedNext, TimeoutsGrow
<1>3. Trust => NoLoss
  BY DEF NoLoss, SafelyDone, Safe
<1> QED  BY <1>1, <1>2, <1>3, WorkerType, WorkerConfirms, PTL DEF Spec

-----------------------------------------------------------------------------
(* Stale entries. *)

\* The deliveries a consumer has still to drop the entry of: the one whose DEL
\* is behind it does not count.
Left(q, pc) == IF pc = "ack" /\ q # <<>> THEN Tail(q) ELSE q
Track(e) ==
  e \in dead \/ In(queue, e) \/ \E w \in Workers : In(Left(unacked[w], consumer[w].pc), e)

LEMMA LeftOps ==
  ASSUME NEW S, NEW q \in Seq(S), NEW e \in S, NEW pc
  PROVE  /\ In(Left(q, pc), e) => In(q, e)
         /\ In(q, e) /\ (pc = "ack" => e # Head(q)) => In(Left(q, pc), e)
         /\ \A x \in S : q # <<>> \/ pc # "ack" =>
              /\ In(Left(Append(q, x), pc), x)
              /\ In(Left(q, pc), e) => In(Left(Append(q, x), pc), e)
<1>1. In(Tail(q), e) /\ q # <<>> => In(q, e)
  <2> SUFFICES ASSUME q # <<>>, NEW i \in 1 .. Len(Tail(q)), Tail(q)[i] = e PROVE In(q, e)
    BY DEF In
  <2>1. i + 1 \in 1 .. Len(q) /\ q[i + 1] = e
    OBVIOUS
  <2> QED  BY <2>1 DEF In
<1>2. In(q, e) => q # <<>> /\ (e = Head(q) \/ In(Tail(q), e))
  BY InOps
<1>3. ASSUME NEW x \in S, q # <<>>
      PROVE  Tail(Append(q, x)) = Append(Tail(q), x) /\ Tail(q) \in Seq(S)
  BY <1>3
<1>4. \A x \in S : Append(q, x) # <<>>
  BY SeqOps
<1>5. ASSUME NEW x \in S, q # <<>> \/ pc # "ack"
      PROVE  /\ In(Left(Append(q, x), pc), x)
             /\ In(Left(q, pc), e) => In(Left(Append(q, x), pc), e)
  <2>1. CASE pc = "ack"
    <3>1. /\ Left(Append(q, x), pc) = Append(Tail(q), x) /\ Left(q, pc) = Tail(q)
          /\ Tail(q) \in Seq(S)
      BY <1>3, <1>4, <1>5, <2>1 DEF Left
    <3> DEFINE t == Tail(q)
    <3>2. t \in Seq(S)
      BY <3>1
    <3> HIDE DEF t
    <3>3. In(Append(t, x), x) /\ (In(t, e) => In(Append(t, x), e))
      BY <3>2, InOps
    <3> QED  BY <3>1, <3>3, Zenon DEF t
  <2>2. CASE pc # "ack"
    <3>1. Left(Append(q, x), pc) = Append(q, x) /\ Left(q, pc) = q
      BY <2>2 DEF Left
    <3> QED  BY <3>1, InOps
  <2> QED  BY <2>1, <2>2
<1> QED  BY <1>1, <1>2, <1>5 DEF Left

LEMMA TrackIs ==
  ASSUME NEW e
  PROVE  Track(e)' <=> \/ e \in dead' \/ In(queue', e)
                       \/ \E w \in Workers : In(Left(unacked'[w], consumer'[w].pc), e)
BY DEF Track

\* A message leaves the track only at its own DEL.
LEMMA TrackNext ==
  ASSUME TypeOK, Holding, Hands, [Next]_vars, NEW e \in outbox, Track(e)
  PROVE  Track(e)' \/ \E w \in Workers : DelCache(w) /\ e = consumer[w].msg
<1> USE DEF database, broker, channel
<1>1. /\ queue \in Seq(outbox) /\ unacked \in [Workers -> Seq(outbox)]
      /\ wire \in [Workers -> Seq(outbox)]
      /\ consumer \in [Workers -> {IdleConsumer} \cup InHand]
  BY DEF TypeOK, InHand
<1>2. \/ e \in dead \/ In(queue, e)
      \/ \E w \in Workers : In(Left(unacked[w], consumer[w].pc), e)
  BY DEF Track
<1>3. \A w \in Workers : unacked[w] \in Seq(outbox)
  BY <1>1
<1>4. ASSUME UNCHANGED <<queue, dead, unacked>>,
             \A w \in Workers : consumer'[w].pc # consumer[w].pc
               => consumer[w].pc # "ack" /\ consumer'[w].pc # "ack"
      PROVE  Track(e)'
  <2>1. \A w \in Workers : Left(unacked'[w], consumer'[w].pc) = Left(unacked[w], consumer[w].pc)
    BY <1>4 DEF Left
  <2> QED  BY <1>2, <1>4, <2>1, TrackIs
<1>5. ASSUME NEW w \in Workers, BrokerAccept(w) PROVE Track(e)'
  <2>1. /\ wire[w] # <<>> /\ queue' = Append(queue, Head(wire[w]))
        /\ UNCHANGED <<unacked, consumer, dead>>
    BY <1>5 DEF BrokerAccept
  <2>2. Head(wire[w]) \in outbox
    BY <1>1, <2>1, SeqOps
  <2>3. In(queue, e) => In(queue', e)
    BY <1>1, <2>1, <2>2, InOps
  <2> QED  BY <1>2, <2>1, <2>3, TrackIs
<1>6. ASSUME NEW w \in Workers, Deliver(w) PROVE Track(e)'
  <2>1. /\ queue # <<>> /\ queue' = Tail(queue) /\ status[w] = "up"
        /\ unacked' = [unacked EXCEPT ![w] = Append(@, Head(queue))]
        /\ UNCHANGED <<consumer, dead>>
    BY <1>6 DEF Deliver
  <2>2. Head(queue) \in outbox
    BY <1>1, <2>1, SeqOps
  <2>3. /\ unacked'[w] = Append(unacked[w], Head(queue))
        /\ \A v \in Workers \ {w} : unacked'[v] = unacked[v]
    BY <1>1, <2>1
  <2>4. unacked[w] # <<>> \/ consumer[w].pc # "ack"
    BY <2>1 DEF Holding
  <2>5. In(queue, e) /\ e # Head(queue) => In(queue', e)
    BY <1>1, <2>1, InOps
  <2>6. /\ In(Left(unacked'[w], consumer[w].pc), Head(queue))
        /\ In(Left(unacked[w], consumer[w].pc), e) => In(Left(unacked'[w], consumer[w].pc), e)
    BY <1>3, <2>2, <2>3, <2>4, LeftOps
  <2> QED  BY <1>2, <2>1, <2>3, <2>5, <2>6, TrackIs
<1>7. ASSUME NEW w \in Workers, Ack(w) \/ Nack(w) PROVE Track(e)'
  <2>1. /\ unacked' = IF status[w] = "up" THEN [unacked EXCEPT ![w] = Tail(@)] ELSE unacked
        /\ UNCHANGED queue /\ dead \subseteq dead' /\ consumer[w].pc # "idle"
        /\ consumer' = [consumer EXCEPT ![w] = IdleConsumer]
    BY <1>7 DEF Ack, Nack, Settle
  <2>2. /\ \A v \in Workers \ {w} : unacked'[v] = unacked[v] /\ consumer'[v] = consumer[v]
        /\ consumer'[w].pc = "idle"
    BY <1>1, <2>1 DEF IdleConsumer
  <2>3. CASE status[w] # "up"
    <3>1. ~In(Left(unacked[w], consumer[w].pc), e)
      BY <2>3 DEF Hands, Left, In
    <3> QED  BY <1>2, <2>1, <2>2, <2>3, <3>1, TrackIs
  <2>4. CASE status[w] = "up"
    <3>1. /\ Left(unacked'[w], consumer'[w].pc) = Tail(unacked[w])
          /\ unacked[w] # <<>> /\ Head(unacked[w]) = consumer[w].msg
      BY <1>1, <2>1, <2>2, <2>4 DEF Left, Holding, Hands
    <3>2. In(Left(unacked[w], consumer[w].pc), e)
            => e \in dead' \/ In(Left(unacked'[w], consumer'[w].pc), e)
      <4>1. CASE Ack(w)
        BY <3>1, <4>1 DEF Ack, Left
      <4>2. CASE Nack(w)
        <5>1. consumer[w].msg \in dead' /\ Left(unacked[w], consumer[w].pc) = unacked[w]
          BY <2>4, <4>2 DEF Nack, Left
        <5>2. In(unacked[w], e) /\ e # Head(unacked[w]) => In(Tail(unacked[w]), e)
          BY <1>3, InOps
        <5> QED  BY <3>1, <5>1, <5>2
      <4> QED  BY <1>7, <4>1, <4>2
    <3> QED  BY <1>2, <2>1, <2>2, <3>2, TrackIs
  <2> QED  BY <2>3, <2>4
<1>8. ASSUME NEW w \in Workers, ConnLost(w) \/ Crash(w) PROVE Track(e)'
  <2>1. /\ queue' = unacked[w] \o queue /\ unacked' = [unacked EXCEPT ![w] = <<>>]
        /\ UNCHANGED dead
        /\ consumer' = consumer \/ consumer' = [consumer EXCEPT ![w] = IdleConsumer]
    BY <1>8 DEF ConnLost, Crash, Requeue
  <2>2. \A v \in Workers \ {w} : unacked'[v] = unacked[v] /\ consumer'[v] = consumer[v]
    BY <1>1, <2>1
  <2>3. In(unacked[w], e) \/ In(queue, e) => In(queue', e)
    BY <1>1, <1>3, <2>1, InOps
  <2>4. In(Left(unacked[w], consumer[w].pc), e) => In(unacked[w], e)
    BY <1>3, LeftOps
  <2> QED  BY <1>2, <2>1, <2>2, <2>3, <2>4, TrackIs
<1>9. ASSUME NEW w \in Workers, DelCache(w), e # consumer[w].msg PROVE Track(e)'
  <2>1. /\ UNCHANGED <<queue, dead, unacked>>
        /\ consumer[w].pc = "del" /\ consumer' = [consumer EXCEPT ![w].pc = "ack"]
    BY <1>9 DEF DelCache
  <2>2. \A v \in Workers \ {w} : consumer'[v] = consumer[v]
    BY <1>1, <2>1
  <2>3. In(Left(unacked[w], consumer[w].pc), e) => In(Left(unacked[w], consumer'[w].pc), e)
    <3>1. In(unacked[w], e) => e # Head(unacked[w])
      <4>1. status[w] = "up" => Head(unacked[w]) = consumer[w].msg
        BY <2>1 DEF Hands
      <4>2. status[w] # "up" => unacked[w] = <<>>
        BY DEF Hands
      <4>3. In(unacked[w], e) => unacked[w] # <<>>
        BY <1>3, InOps
      <4> QED  BY <1>9, <4>1, <4>2, <4>3
    <3> QED  BY <1>3, <3>1, LeftOps
  <2> QED  BY <1>2, <2>1, <2>2, <2>3, TrackIs
<1>10. ASSUME NEW w \in Workers, Take(w) \/ Apply(w) \/ ApplyFails(w) PROVE Track(e)'
  <2>1. /\ UNCHANGED <<queue, dead, unacked>>
        /\ consumer[w].pc # "ack"
        /\ \A v \in Workers \ {w} : consumer'[v] = consumer[v]
    BY <1>1, <1>10 DEF Take, Apply, ApplyFails
  <2>2. consumer'[w].pc # "ack"
    <3>1. CASE Take(w)
      BY <1>1, <3>1 DEF Take, Busy
    <3>2. CASE Apply(w) \/ ApplyFails(w)
      <4>1. PICK pc \in {"del", "nack"} : consumer' = [consumer EXCEPT ![w].pc = pc]
        BY <3>2 DEF Apply, ApplyFails
      <4>2. consumer[w] \in InHand
        BY <3>2, ConsumerType DEF Apply, ApplyFails
      <4>3. consumer'[w] = [consumer[w] EXCEPT !.pc = pc]
        BY <1>1, <4>1
      <4> QED  BY <4>2, <4>3 DEF InHand
    <3> QED  BY <1>10, <3>1, <3>2
  <2> QED  BY <1>4, <2>1, <2>2
<1>11. ASSUME NEW w \in Workers, Relay(w) \/ ConfirmTimeout(w) \/ BrokerReject(w) \/ Start(w)
       PROVE  UNCHANGED <<queue, dead, unacked, consumer>>
  BY <1>11 DEF Relay, FetchPending, Publish, TakeConfirm, Confirm, ConfirmClosed,
               ConfirmTimeout, MarkProcessed, BrokerReject, Start
<1>12. ASSUME Produce \/ UNCHANGED vars \/ \E p \in Posts : ReadThrough(p)
       PROVE  UNCHANGED <<queue, dead, unacked, consumer>>
  BY <1>12 DEF Produce, ReadThrough, ReadRow, SetRow, ExpireCache, vars
<1> QED  BY <1>4, <1>5, <1>6, <1>7, <1>8, <1>9, <1>10, <1>11, <1>12 DEF Next, Work, Consume

\* A delivery stays in hand until it is settled or its process dies.
LEMMA HandKeeps ==
  ASSUME TypeOK, [Next]_vars, NEW w \in Workers
  PROVE  \/ consumer'[w].pc = "idle" \/ Take(w)
         \/ consumer[w].pc # "idle" /\ consumer'[w].msg = consumer[w].msg
<1> USE DEF database, broker, channel
<1>0. consumer \in [Workers -> {IdleConsumer} \cup InHand]
  BY DEF TypeOK, InHand
<1>1. ASSUME NEW v \in Workers, Apply(v) \/ ApplyFails(v) \/ DelCache(v)
      PROVE  \/ consumer[w].pc # "idle" /\ consumer'[w].msg = consumer[w].msg
             \/ consumer'[w] = consumer[w]
  <2>1. PICK pc : consumer' = [consumer EXCEPT ![v].pc = pc]
    BY <1>1 DEF Apply, ApplyFails, DelCache
  <2>2. CASE v = w
    <3>1. consumer[w].pc # "idle"
      BY <1>1, <2>2 DEF Apply, ApplyFails, DelCache
    <3>2. consumer[w] \in InHand
      BY <3>1, ConsumerType
    <3>3. consumer'[w] = [consumer[w] EXCEPT !.pc = pc]
      BY <1>0, <2>1, <2>2
    <3> QED  BY <3>1, <3>2, <3>3 DEF InHand
  <2>3. CASE v # w
    BY <1>0, <2>1, <2>3
  <2> QED  BY <2>2, <2>3
<1>2. ASSUME NEW v \in Workers, Ack(v) \/ Nack(v) \/ Crash(v) \/ Take(v)
      PROVE  consumer'[w].pc = "idle" \/ consumer'[w] = consumer[w] \/ Take(w)
  BY <1>0, <1>2 DEF Ack, Nack, Settle, Crash, Take, IdleConsumer
<1>3. ASSUME NEW v \in Workers,
             \/ Relay(v) \/ ConfirmTimeout(v) \/ BrokerAccept(v) \/ BrokerReject(v)
             \/ Deliver(v) \/ ConnLost(v) \/ Start(v)
      PROVE  UNCHANGED consumer
  BY <1>3 DEF Relay, FetchPending, Publish, TakeConfirm, Confirm, ConfirmClosed,
              ConfirmTimeout, MarkProcessed, BrokerAccept, BrokerReject, Deliver,
              ConnLost, Start
<1>4. ASSUME Produce \/ UNCHANGED vars \/ \E p \in Posts : ReadThrough(p)
      PROVE  UNCHANGED consumer
  BY <1>4 DEF Produce, ReadThrough, ReadRow, SetRow, ExpireCache, vars
<1> QED  BY <1>1, <1>2, <1>3, <1>4 DEF Next, Work, Consume

\* What is in a consumer's hands is still there or has been settled elsewhere,
\* also after the connection it came on is gone.
HandSafe == \A w \in Workers : consumer[w].pc # "idle" => Safe(consumer[w].msg)

LEMMA HandSafeNext ==
  ASSUME TypeOK, Holding, Hands, HandSafe, [Next]_vars
  PROVE  HandSafe'
<1> USE DEF database, broker, channel
<1>1. /\ consumer \in [Workers -> {IdleConsumer} \cup InHand]
      /\ unacked \in [Workers -> Seq(outbox)]
  BY DEF TypeOK, InHand
<1>2. ASSUME NEW w \in Workers
      PROVE  \/ consumer'[w].pc = "idle" \/ Take(w)
             \/ consumer[w].pc # "idle" /\ consumer'[w].msg = consumer[w].msg
  BY HandKeeps
<1>3. \A e \in outbox : Safe(e) => Safe(e)'
  BY SafeNext
<1>4. ASSUME NEW w \in Workers, consumer'[w].pc # "idle", NEW e, e = consumer'[w].msg
      PROVE  Safe(e)'
  <2>1. CASE Take(w)
    <3>1. unacked[w] # <<>> /\ e = Head(unacked[w]) /\ unacked[w] \in Seq(outbox)
      BY <1>1, <1>4, <2>1 DEF Take, Busy
    <3>2. e \in outbox
      BY <3>1, SeqOps
    <3>3. In(unacked[w], e)
      BY <3>1, <3>2, InOps
    <3> QED  BY <1>3, <3>2, <3>3, SafeIs
  <2>2. CASE consumer[w].pc # "idle" /\ consumer'[w].msg = consumer[w].msg
    <3>1. e \in outbox
      BY <1>4, <2>2, ConsumerType DEF InHand
    <3> QED  BY <1>3, <1>4, <2>2, <3>1 DEF HandSafe
  <2> QED  BY <1>2, <1>4, <2>1, <2>2
<1> QED  BY <1>4 DEF HandSafe, Safe, InFlight, InQueue

Ahead(p) == \E e \in outbox : e.post = p /\ e.id \in dedup /\ Track(e)

\* An entry, or a row about to become one, whose DEL is still to come.
DelDue(p) == cache[p] = "stale" \/ \E s \in Servers : fill[s][p] = "old"
Covered == \A p \in Posts : DelDue(p) => Ahead(p)

\* Behind a DEL nothing of the post waits for it any more.
LEMMA DelSettles ==
  ASSUME TypeOK, NEW w \in Workers, DelCache(w), NEW p \in Posts
  PROVE  /\ DelDue(p)' => DelDue(p)
         /\ p = consumer[w].msg.post => ~DelDue(p)'
<1>1. cache \in [Posts -> CacheStates] /\ fill \in [Servers -> [Posts -> FillStates]]
  BY DEF TypeOK
<1>2. PICK q : q = consumer[w].msg.post
  OBVIOUS
<1>3. /\ \/ cache' = [cache EXCEPT ![q] = "absent"]
         \/ cache' = [cache EXCEPT ![q] = IF @ = "stale" THEN "forgotten" ELSE @]
      /\ fill' = [s \in Servers |->
           [fill[s] EXCEPT ![q] = IF @ = "old" THEN "missed" ELSE @]]
  BY <1>2 DEF DelCache
<1>4. /\ cache'[p] = "stale" => cache[p] = "stale" /\ p # q
  BY <1>1, <1>3
<1>5. ASSUME NEW s \in Servers, fill'[s][p] = "old" PROVE fill[s][p] = "old" /\ p # q
  <2>1. /\ fill[s] \in [Posts -> FillStates]
        /\ fill'[s] = [fill[s] EXCEPT ![q] = IF @ = "old" THEN "missed" ELSE @]
    BY <1>1, <1>3
  <2> QED  BY <1>5, <2>1
<1> QED  BY <1>2, <1>4, <1>5 DEF DelDue

\* A first count is what a DEL becomes due for.
LEMMA CountDues ==
  ASSUME TypeOK, NEW e \in outbox, CountOnce(e), NEW p \in Posts, DelDue(p)', ~DelDue(p)
  PROVE  e.post = p /\ e.id \notin dedup
<1>1. cache \in [Posts -> CacheStates] /\ fill \in [Servers -> [Posts -> FillStates]]
  BY DEF TypeOK
<1>2. e.id \notin dedup
  BY DEF CountOnce, DelDue
<1>3. /\ cache' = [cache EXCEPT ![e.post] = IF @ = "absent" THEN @ ELSE "stale"]
      /\ fill' = [s \in Servers |->
           [fill[s] EXCEPT ![e.post] = IF @ = "none" THEN @ ELSE "old"]]
  BY <1>2 DEF CountOnce, Count
<1>4. ASSUME e.post # p PROVE FALSE
  <2>1. cache'[p] = cache[p]
    BY <1>1, <1>3, <1>4
  <2>2. ASSUME NEW s \in Servers PROVE fill'[s][p] = fill[s][p]
    <3>1. /\ fill[s] \in [Posts -> FillStates]
          /\ fill'[s] = [fill[s] EXCEPT ![e.post] = IF @ = "none" THEN @ ELSE "old"]
      BY <1>1, <1>3
    <3> QED  BY <1>4, <3>1
  <2> QED  BY <2>1, <2>2 DEF DelDue
<1> QED  BY <1>2, <1>4

\* A flight caches what it has read: an old row was due before.
LEMMA FlightDues ==
  ASSUME TypeOK, NEW q \in Posts, ReadThrough(q), NEW p \in Posts, DelDue(p)'
  PROVE  DelDue(p)
<1>1. cache \in [Posts -> CacheStates] /\ fill \in [Servers -> [Posts -> FillStates]]
  BY DEF TypeOK
<1>2. ASSUME NEW s \in Servers, NEW x, x # "old", fill' = [fill EXCEPT ![s][q] = x],
             NEW v \in Servers, fill'[v][p] = "old"
      PROVE  fill[v][p] = "old"
  <2>1. fill[v] \in [Posts -> FillStates] /\ fill[s] \in [Posts -> FillStates]
    BY <1>1
  <2>2. fill'[v] = IF v = s THEN [fill[s] EXCEPT ![q] = x] ELSE fill[v]
    BY <1>1, <1>2
  <2> QED  BY <1>2, <2>1, <2>2
<1>3. CASE ExpireCache(q)
  BY <1>1, <1>3 DEF ExpireCache, DelDue
<1>4. ASSUME NEW s \in Servers, ReadRow(s, q) PROVE DelDue(p)
  <2>1. cache' = cache /\ fill' = [fill EXCEPT ![s][q] = "current"]
    BY <1>4 DEF ReadRow
  <2> QED  BY <1>2, <2>1 DEF DelDue
<1>5. ASSUME NEW s \in Servers, SetRow(s, q) PROVE DelDue(p)
  <2>1. /\ cache' = cache \/ cache' = [cache EXCEPT ![q] = Shown(fill[s][q])]
        /\ fill' = [fill EXCEPT ![s][q] = "none"] /\ fill[s][q] # "none"
    BY <1>5 DEF SetRow
  <2>2. fill[s][q] \in FillStates
    BY <1>1
  <2>3. Shown(fill[s][q]) = "stale" => fill[s][q] = "old"
    BY <2>1, <2>2 DEF Shown, FillStates
  <2>4. cache'[p] = "stale" => DelDue(p)
    BY <1>1, <2>1, <2>3 DEF DelDue
  <2> QED  BY <1>2, <2>1, <2>4 DEF DelDue
<1> QED  BY <1>3, <1>4, <1>5 DEF ReadThrough

LEMMA CoveredNext ==
  ASSUME TypeOK, Holding, Hands, HandSafe, Covered, [Next]_vars
  PROVE  Covered'
<1> USE DEF database, broker, channel
<1> SUFFICES ASSUME NEW p \in Posts, DelDue(p)'
             PROVE  \E e \in outbox' : e.post = p /\ e.id \in dedup' /\ Track(e)'
  BY DEF Covered, Ahead
<1>1. /\ consumer \in [Workers -> {IdleConsumer} \cup InHand]
      /\ unacked \in [Workers -> Seq(outbox)]
  BY DEF TypeOK, InHand
<1>2. \A w \in Workers : DelCache(w) => DelDue(p) /\ p # consumer[w].msg.post
  BY DelSettles
<1>3. outbox \subseteq outbox' /\ dedup \subseteq dedup'
  BY OnlyCommits DEF Commits, CountOnce, Count, Produce
\* A DEL was due before: what covered it does so still.
<1>4. CASE DelDue(p)
  <2>1. PICK e \in outbox : e.post = p /\ e.id \in dedup /\ Track(e)
    BY <1>4 DEF Covered, Ahead
  <2>2. \A w \in Workers : DelCache(w) => e # consumer[w].msg
    BY <1>2, <2>1
  <2> QED  BY <1>3, <2>1, <2>2, TrackNext
\* It becomes due: a message is counted, and its DEL is to come.
<1>5. CASE ~DelDue(p)
  <2>1. PICK w \in Workers : /\ Apply(w) \/ ApplyFails(w)
                             /\ consumer[w].msg.post = p
                             /\ consumer[w].msg.id \notin dedup
                             /\ CountOnce(consumer[w].msg)
    <3>1. ASSUME UNCHANGED <<cache, fill>> PROVE FALSE
      BY <1>5, <3>1 DEF DelDue
    <3>2. ASSUME NEW w \in Workers, Apply(w) \/ ApplyFails(w)
          PROVE  /\ consumer[w].msg.post = p /\ consumer[w].msg.id \notin dedup
                 /\ CountOnce(consumer[w].msg)
      <4>1. CountOnce(consumer[w].msg)
        BY <3>1, <3>2 DEF Apply, ApplyFails
      <4>2. consumer[w].msg \in outbox
        BY <3>2, ConsumerType DEF Apply, ApplyFails, InHand
      <4> QED  BY <1>5, <4>1, <4>2, CountDues
    <3>3. ASSUME NEW w \in Workers, Work(w) PROVE Apply(w) \/ ApplyFails(w)
      <4>1. UNCHANGED <<cache, fill>> \/ DelCache(w) \/ Apply(w) \/ ApplyFails(w)
        BY <3>3 DEF Work, Relay, Consume, FetchPending, Publish, TakeConfirm, Confirm,
            ConfirmClosed, ConfirmTimeout, MarkProcessed, BrokerAccept, BrokerReject,
            Deliver, Take, Ack, Nack, Settle, ConnLost, Crash, Start
      <4> QED  BY <1>2, <1>5, <3>1, <4>1
    <3>4. ~(Produce \/ UNCHANGED vars)
      BY <3>1 DEF Produce, vars
    <3>5. ~\E q \in Posts : ReadThrough(q)
      BY <1>5, FlightDues
    <3> QED  BY <3>2, <3>3, <3>4, <3>5 DEF Next
  <2>2. PICK e : e = consumer[w].msg
    OBVIOUS
  <2>3. e \in outbox
    BY <2>1, <2>2, ConsumerType DEF Apply, ApplyFails, InHand
  <2>4. e.id \in dedup' /\ UNCHANGED <<queue, dead, unacked>>
    BY <2>1, <2>2 DEF Apply, ApplyFails, CountOnce, Count
  <2>5. e \in dead \/ In(queue, e) \/ \E v \in Workers : In(unacked[v], e)
    BY <2>1, <2>2, SafeIs DEF HandSafe, Apply, ApplyFails
  <2>6. ASSUME NEW v \in Workers, In(unacked[v], e)
        PROVE  In(Left(unacked'[v], consumer'[v].pc), e)
    <3>1. unacked[v] \in Seq(outbox)
      BY <1>1
    <3>2. unacked[v] # <<>>
      BY <2>3, <2>6, <3>1, InOps
    <3>3. consumer'[v].pc = "ack" => v # w /\ consumer[v].pc = "ack"
      <4>1. PICK pc \in {"del", "nack"} : consumer' = [consumer EXCEPT ![w].pc = pc]
        BY <2>1 DEF Apply, ApplyFails
      <4>2. consumer[w] \in InHand
        BY <2>1, ConsumerType DEF Apply, ApplyFails
      <4>3. /\ consumer'[w] = [consumer[w] EXCEPT !.pc = pc]
            /\ \A u \in Workers \ {w} : consumer'[u] = consumer[u]
        BY <1>1, <4>1
      <4>4. consumer'[w].pc = pc
        BY <4>2, <4>3 DEF InHand
      <4> QED  BY <4>3, <4>4
    <3>4. consumer[v].pc = "ack"
            => Head(unacked[v]) = consumer[v].msg /\ consumer[v].msg.id \in dedup
      BY <1>1, <3>2 DEF Hands
    <3>5. consumer'[v].pc = "ack" => e # Head(unacked[v])
      BY <2>1, <2>2, <3>3, <3>4
    <3>6. In(Left(unacked[v], consumer'[v].pc), e)
      BY <2>3, <2>6, <3>1, <3>5, LeftOps
    <3> QED  BY <2>4, <3>6
  <2>7. Track(e)'
    BY <2>4, <2>5, <2>6, TrackIs
  <2> QED  BY <1>3, <2>1, <2>2, <2>3, <2>4, <2>7
<1> QED  BY <1>4, <1>5

(***************************************************************************)
(* An entry that lacks a count, whose DEL has not failed and was not over  *)
(* before the SET, has that DEL ahead of it, unless a dead letter took it. *)
(* A count makes the DEL due, for the entry and for a row a flight has     *)
(* read and not yet cached (Covered), while its message is still unsettled *)
(* (HandSafe); the message then ends at the DEL (DelSettles), or goes back *)
(* to the queue or to the dead letters (TrackNext).                        *)
(***************************************************************************)
THEOREM WorkerStale == Spec => []StaleCovered
<1>1. Init => Holding /\ Hands /\ HandSafe /\ Covered
  BY DEF Init, Holding, Hands, HandSafe, Covered, DelDue, IdleConsumer
<1>2. TypeOK /\ Holding /\ Hands /\ HandSafe /\ Covered /\ [Next]_vars
        => (Holding /\ Hands /\ HandSafe /\ Covered)'
  BY HoldingNext, HandsNext, HandSafeNext, CoveredNext
<1>3. TypeOK /\ Covered => StaleCovered
  <2> SUFFICES ASSUME TypeOK, Covered, NEW p \in Posts, cache[p] = "stale"
               PROVE  \E e \in outbox : /\ e.post = p /\ e.id \in dedup
                                        /\ InFlight(e) \/ e \in dead
    BY DEF StaleCovered
  <2>1. PICK e \in outbox : e.post = p /\ e.id \in dedup /\ Track(e)
    BY DEF Covered, DelDue, Ahead
  <2>2. \A w \in Workers : In(Left(unacked[w], consumer[w].pc), e) => In(unacked[w], e)
    <3>1. \A w \in Workers : unacked[w] \in Seq(outbox)
      BY DEF TypeOK
    <3> QED  BY <3>1, LeftOps
  <2>3. In(queue, e) \/ (\E w \in Workers : In(unacked[w], e)) => InFlight(e)
    BY DEF InFlight, InQueue, In
  <2> QED  BY <2>1, <2>2, <2>3 DEF Track
<1> QED  BY <1>1, <1>2, <1>3, WorkerType, PTL DEF Spec

-----------------------------------------------------------------------------
(* Order.  One worker that no confirm reaches late and that dead-letters   *)
(* nothing counts the rows it finds in the outbox in the order of their    *)
(* ids; a row committed late, with a smaller id, may still come later.     *)

Orderly ==
  /\ \A v, w \in Workers : v = w
  /\ Limit["timeout"] = 0
  /\ Limit["apply"] = 0

\* Every b in a queue has an a before it.
Leads(q, a, b) == \A i \in 1 .. Len(q) : q[i] = b => \E j \in 1 .. i - 1 : q[j] = a

LEMMA LeadsOps ==
  ASSUME NEW S, NEW q \in Seq(S), NEW a \in S, NEW b \in S, Leads(q, a, b)
  PROVE  /\ \A x \in S : x # b \/ In(q, a) => Leads(Append(q, x), a, b)
         /\ q # <<>> => /\ Head(q) # b
                        /\ Head(q) # a => Leads(Tail(q), a, b)
         /\ \A r \in Seq(S) : Leads(r, a, b) \/ In(q, a) => Leads(q \o r, a, b)
<1>0. Len(q) \in Nat
  OBVIOUS
<1>1. ASSUME NEW x \in S, x # b \/ In(q, a) PROVE Leads(Append(q, x), a, b)
  <2> SUFFICES ASSUME NEW i \in 1 .. Len(Append(q, x)), Append(q, x)[i] = b
               PROVE  \E j \in 1 .. i - 1 : Append(q, x)[j] = a
    BY DEF Leads
  <2>1. /\ Len(Append(q, x)) = Len(q) + 1 /\ Append(q, x)[Len(q) + 1] = x
        /\ \A k \in 1 .. Len(q) : Append(q, x)[k] = q[k]
    OBVIOUS
  <2>2. CASE i = Len(q) + 1
    <3>1. PICK j \in 1 .. Len(q) : q[j] = a
      BY <1>1, <2>1, <2>2 DEF In
    <3> QED  BY <1>0, <2>1, <2>2, <3>1
  <2>3. CASE i # Len(q) + 1
    <3>1. i \in 1 .. Len(q) /\ q[i] = b
      BY <1>0, <2>1, <2>3
    <3>2. PICK j \in 1 .. i - 1 : q[j] = a
      BY <3>1 DEF Leads
    <3>3. j \in 1 .. Len(q)
      BY <1>0, <3>1, <3>2
    <3> QED  BY <2>1, <3>2, <3>3
  <2> QED  BY <2>2, <2>3
<1>2. ASSUME q # <<>> PROVE Head(q) # b
  <2>1. 1 \in 1 .. Len(q) /\ q[1] = Head(q)
    BY <1>2
  <2> QED  BY <2>1 DEF Leads
<1>3. ASSUME q # <<>>, Head(q) # a PROVE Leads(Tail(q), a, b)
  <2> SUFFICES ASSUME NEW i \in 1 .. Len(Tail(q)), Tail(q)[i] = b
               PROVE  \E j \in 1 .. i - 1 : Tail(q)[j] = a
    BY DEF Leads
  <2>1. /\ Len(Tail(q)) = Len(q) - 1 /\ q[1] = Head(q)
        /\ \A k \in 1 .. Len(q) - 1 : Tail(q)[k] = q[k + 1]
    BY <1>3
  <2>2. i + 1 \in 1 .. Len(q) /\ q[i + 1] = b
    BY <1>0, <2>1
  <2>3. PICK j \in 1 .. (i + 1) - 1 : q[j] = a
    BY <2>2 DEF Leads
  <2>4. j # 1
    BY <1>3, <2>1, <2>3
  <2>5. j - 1 \in 1 .. i - 1 /\ j - 1 \in 1 .. Len(q) - 1 /\ (j - 1) + 1 = j
    BY <1>0, <2>1, <2>3, <2>4
  <2> QED  BY <2>1, <2>3, <2>5
<1>4. ASSUME NEW r \in Seq(S), Leads(r, a, b) \/ In(q, a) PROVE Leads(q \o r, a, b)
  <2> SUFFICES ASSUME NEW i \in 1 .. Len(q \o r), (q \o r)[i] = b
               PROVE  \E j \in 1 .. i - 1 : (q \o r)[j] = a
    BY DEF Leads
  <2>1. /\ Len(q \o r) = Len(q) + Len(r) /\ Len(r) \in Nat
        /\ \A k \in 1 .. Len(q) : (q \o r)[k] = q[k]
        /\ \A k \in 1 .. Len(r) : (q \o r)[Len(q) + k] = r[k]
    OBVIOUS
  <2>2. CASE i \in 1 .. Len(q)
    <3>1. PICK j \in 1 .. i - 1 : q[j] = a
      BY <2>1, <2>2 DEF Leads
    <3> QED  BY <1>0, <2>1, <2>2, <3>1
  <2>3. CASE i \notin 1 .. Len(q) /\ In(q, a)
    <3>1. PICK j \in 1 .. Len(q) : q[j] = a
      BY <2>3 DEF In
    <3> QED  BY <1>0, <2>1, <2>3, <3>1
  <2>4. CASE i \notin 1 .. Len(q) /\ Leads(r, a, b)
    <3>1. i - Len(q) \in 1 .. Len(r) /\ i = Len(q) + (i - Len(q))
      BY <1>0, <2>1, <2>4
    <3>2. r[i - Len(q)] = b
      BY <2>1, <3>1
    <3>3. PICK j \in 1 .. (i - Len(q)) - 1 : r[j] = a
      BY <2>4, <3>1, <3>2 DEF Leads
    <3>4. j \in 1 .. Len(r) /\ Len(q) + j \in 1 .. i - 1
      BY <1>0, <2>1, <3>1, <3>3
    <3> QED  BY <2>1, <3>3, <3>4
  <2> QED  BY <1>4, <2>2, <2>3, <2>4
<1> QED  BY <1>1, <1>2, <1>3, <1>4

\* While a is not counted, b is nowhere before it: not in the relay's round,
\* not on the way, not in hand.
Fetched(w, a, b) ==
  b \in relay[w].batch => \/ a \in relay[w].batch
                          \/ a.id \in marked \cup relay[w].done
InLine(w, a, b) ==
  /\ Leads(unacked[w], a, b)
  /\ Leads(queue, a, b) \/ In(unacked[w], a)
  /\ In(wire[w], b) => In(queue, a) \/ In(unacked[w], a)
Ordered(a, b) ==
  a.id \in dedup \/
    /\ b.id \notin dedup
    /\ \A w \in Workers :
         /\ Fetched(w, a, b) /\ InLine(w, a, b)
         /\ consumer[w].pc # "idle" => consumer[w].msg # b

\* Nothing goes to the dead letters.
AllLive == dead = {} /\ \A w \in Workers : consumer[w].pc # "nack"

LEMMA AllLiveNext ==
  ASSUME TypeOK, AllLive, Orderly, [Next]_vars
  PROVE  AllLive'
<1> USE DEF database, broker, channel
<1>1. /\ consumer \in [Workers -> {IdleConsumer} \cup InHand]
      /\ faults \in [Faults -> Nat]
  BY DEF TypeOK, InHand
<1>2. ASSUME NEW v \in Workers, Apply(v) \/ DelCache(v) PROVE AllLive'
  <2>1. PICK pc \in {"del", "ack"} : consumer' = [consumer EXCEPT ![v].pc = pc]
    BY <1>2 DEF Apply, DelCache
  <2>2. consumer[v] \in InHand
    BY <1>2, ConsumerType DEF Apply, DelCache
  <2>3. /\ consumer'[v] = [consumer[v] EXCEPT !.pc = pc]
        /\ \A w \in Workers \ {v} : consumer'[w] = consumer[w]
    BY <1>1, <2>1
  <2>4. consumer'[v].pc = pc
    BY <2>2, <2>3 DEF InHand
  <2> QED  BY <1>2, <2>3, <2>4 DEF AllLive, Apply, DelCache
<1>3. ASSUME NEW v \in Workers, Take(v) \/ Ack(v) \/ Crash(v) PROVE AllLive'
  <2>1. /\ \A w \in Workers \ {v} : consumer'[w] = consumer[w]
        /\ consumer'[v].pc # "nack" /\ dead' = dead
    BY <1>1, <1>3 DEF Take, Ack, Settle, Crash, Busy, IdleConsumer
  <2> QED  BY <2>1 DEF AllLive
<1>4. ASSUME NEW v \in Workers PROVE ~Nack(v) /\ ~ApplyFails(v)
  BY <1>1 DEF AllLive, Nack, ApplyFails, Fault, Orderly, Faults
<1>5. ASSUME NEW v \in Workers,
             \/ Relay(v) \/ ConfirmTimeout(v) \/ BrokerAccept(v) \/ BrokerReject(v)
             \/ Deliver(v) \/ ConnLost(v) \/ Start(v)
      PROVE  UNCHANGED <<dead, consumer>>
  BY <1>5 DEF Relay, FetchPending, Publish, TakeConfirm, Confirm, ConfirmClosed,
              ConfirmTimeout, MarkProcessed, BrokerAccept, BrokerReject, Deliver,
              ConnLost, Start
<1>6. ASSUME Produce \/ UNCHANGED vars \/ \E p \in Posts : ReadThrough(p)
      PROVE  UNCHANGED <<dead, consumer>>
  BY <1>6 DEF Produce, ReadThrough, ReadRow, SetRow, ExpireCache, vars
<1>7. UNCHANGED <<dead, consumer>> => AllLive'
  BY DEF AllLive
<1> QED  BY <1>2, <1>3, <1>4, <1>5, <1>6, <1>7 DEF Next, Work, Consume

\* A round takes the pending rows with the smallest ids.
LEMMA OldestFirst ==
  ASSUME TypeOK, IsFiniteSet(outbox), NEW a \in Pending, NEW b \in Oldest(Pending),
         a.id < b.id
  PROVE  a \in Oldest(Pending)
<1> DEFINE Older(e) == {f \in Pending : f.id < e.id}
<1>1. /\ a.id \in Nat /\ b.id \in Nat /\ \A f \in Pending : f.id \in Nat
      /\ b \in Pending /\ Cardinality(Older(b)) < BatchSize
  BY WorkerAssumption DEF TypeOK, Pending, Oldest, CountEvent
<1>2. Older(a) \subseteq Older(b)
  BY <1>1
<1>3. IsFiniteSet(Pending)
  BY FS_Subset DEF Pending
<1>4. IsFiniteSet(Older(b))
  BY <1>3, FS_Subset
<1>5. /\ Cardinality(Older(a)) \in Nat /\ Cardinality(Older(b)) \in Nat
      /\ Cardinality(Older(a)) <= Cardinality(Older(b))
  BY <1>2, <1>4, FS_Subset, FS_CardinalityType
<1>6. Cardinality(Older(a)) < BatchSize
  BY <1>1, <1>5, WorkerAssumption
<1> QED  BY <1>6 DEF Oldest

\* The relay's round.
LEMMA FetchedNext ==
  ASSUME TypeOK, IsFiniteSet(outbox), [Next]_vars,
         NEW a \in outbox, NEW b \in outbox, a.id < b.id,
         NEW w \in Workers, Fetched(w, a, b)
  PROVE  Fetched(w, a, b)'
<1> USE DEF database, broker, channel
<1>1. relay \in [Workers -> RelayRound]
  BY DEF TypeOK, RelayRound
<1>2. ASSUME NEW v \in Workers, NEW pc, NEW done, RelayGoes(v, pc, {}, done),
             marked \subseteq marked'
      PROVE  Fetched(w, a, b)'
  <2>1. relay'[w].batch = {} \/ relay'[w] = relay[w]
    BY <1>1, <1>2 DEF RelayGoes
  <2> QED  BY <1>2, <2>1 DEF Fetched
<1>3. ASSUME NEW v \in Workers, FetchPending(v) PROVE Fetched(w, a, b)'
  <2>1. CASE v = w
    <3>1. relay'[w].batch = Oldest(Pending) /\ marked' = marked
      BY <1>1, <1>3, <2>1 DEF FetchPending, RelayGoes
    <3>2. b \in Oldest(Pending) => a \in Oldest(Pending) \/ a.id \in marked
      BY OldestFirst DEF Pending
    <3> QED  BY <3>1, <3>2 DEF Fetched
  <2>2. CASE v # w
    BY <1>1, <1>3, <2>2 DEF FetchPending, RelayGoes, Fetched
  <2> QED  BY <2>1, <2>2
<1>4. ASSUME NEW v \in Workers, Publish(v) PROVE Fetched(w, a, b)'
  <2>1. \/ RelayGoes(v, "confirm", relay[v].batch, relay[v].done)
        \/ RelayGoes(v, "mark", {}, relay[v].done)
    BY <1>4 DEF Publish
  <2>2. marked' = marked
    BY <1>4 DEF Publish
  <2>3. CASE RelayGoes(v, "confirm", relay[v].batch, relay[v].done)
    BY <1>1, <2>2, <2>3 DEF RelayGoes, Fetched
  <2> QED  BY <1>2, <2>1, <2>2, <2>3
<1>5. ASSUME NEW v \in Workers, TakeConfirm(v) PROVE Fetched(w, a, b)'
  <2>1. marked' = marked
    BY <1>5 DEF TakeConfirm, Confirm
  <2>2. CASE Head(confirms[v])
    <3>1. PICK e \in First(relay[v].batch) :
            RelayGoes(v, IF relay[v].batch \ {e} = {} THEN "mark" ELSE "publish",
                      relay[v].batch \ {e}, relay[v].done \cup {e.id})
      BY <1>5, <2>2 DEF TakeConfirm, NextMessage
    <3> QED  BY <1>1, <2>1, <3>1 DEF RelayGoes, Fetched
  <2>3. CASE ~Head(confirms[v])
    <3>1. RelayGoes(v, "mark", {}, relay[v].done)
      BY <1>5, <2>3 DEF TakeConfirm
    <3> QED  BY <1>2, <2>1, <3>1
  <2> QED  BY <2>2, <2>3
<1>6. ASSUME NEW v \in Workers,
             ConfirmClosed(v) \/ ConfirmTimeout(v) \/ MarkProcessed(v)
      PROVE  Fetched(w, a, b)'
  <2>1. \E pc, done : RelayGoes(v, pc, {}, done)
    BY <1>6 DEF ConfirmClosed, ConfirmTimeout, MarkProcessed
  <2>2. marked \subseteq marked'
    BY <1>6 DEF ConfirmClosed, ConfirmTimeout, MarkProcessed
  <2> QED  BY <1>2, <2>1, <2>2
<1>7. ASSUME NEW v \in Workers, Crash(v) PROVE Fetched(w, a, b)'
  <2>1. RelayGoes(v, "idle", {}, {}) /\ marked' = marked
    BY <1>7 DEF Crash, RelayGoes, IdleRelay
  <2> QED  BY <1>2, <2>1
<1>8. ASSUME NEW v \in Workers,
             \/ BrokerAccept(v) \/ BrokerReject(v) \/ Deliver(v)
             \/ Consume(v) \/ ApplyFails(v) \/ ConnLost(v) \/ Start(v)
      PROVE  UNCHANGED <<relay, marked>>
  BY <1>8 DEF BrokerAccept, BrokerReject, Deliver, Consume, Take, Apply, ApplyFails,
              DelCache, Ack, Nack, Settle, ConnLost, Start
<1>9. ASSUME Produce \/ UNCHANGED vars \/ \E p \in Posts : ReadThrough(p)
      PROVE  UNCHANGED <<relay, marked>>
  BY <1>9 DEF Produce, ReadThrough, ReadRow, SetRow, ExpireCache, vars
<1>10. UNCHANGED <<relay, marked>> => Fetched(w, a, b)'
  BY DEF Fetched
<1> QED  BY <1>3, <1>4, <1>5, <1>6, <1>7, <1>8, <1>9, <1>10 DEF Next, Work, Relay

\* The channel and the queue.  A row that has left the relay's round is safe,
\* so it is in the line when the relay writes the next one.
LEMMA InLineNext ==
  ASSUME TypeOK, Holding, Hands, ConfirmsOwed, SafelyDone, AllLive, Orderly,
         faults["timeout"] = 0, [Next]_vars,
         NEW a \in outbox, NEW b \in outbox, a.id < b.id, a.id \notin dedup,
         NEW w \in Workers, Fetched(w, a, b), InLine(w, a, b)
  PROVE  InLine(w, a, b)'
<1> USE DEF database, broker, channel
<1>1. /\ wire \in [Workers -> Seq(outbox)] /\ unacked \in [Workers -> Seq(outbox)]
      /\ queue \in Seq(outbox) /\ wire[w] \in Seq(outbox) /\ unacked[w] \in Seq(outbox)
      /\ \A v \in Workers : v = w
  BY DEF TypeOK, Orderly
<1>2. Leads(<<>>, a, b)
  BY DEF Leads
<1>3. CASE Publish(w)
  <2>1. UNCHANGED <<queue, unacked>>
    BY <1>3 DEF Publish
  <2>2. PICK e \in First(relay[w].batch) :
          wire' = [wire EXCEPT ![w] = Append(@, e)] \/ wire' = wire
    BY <1>3 DEF Publish
  <2>3. wire[w] = <<>>
    BY <1>3, OneDue DEF Publish
  <2>4. In(wire'[w], b) => b = e
    <3>1. ASSUME wire' = [wire EXCEPT ![w] = Append(@, e)] PROVE wire'[w] = <<e>>
      BY <1>1, <2>3, <3>1
    <3>2. In(<<e>>, b) => b = e
      BY DEF In
    <3>3. ~In(<<>>, b)
      BY DEF In
    <3> QED  BY <2>2, <2>3, <3>1, <3>2, <3>3
  <2>5. ASSUME b = e PROVE In(queue, a) \/ In(unacked[w], a)
    <3>1. b \in relay[w].batch /\ \A f \in relay[w].batch : b.id <= f.id
      BY <2>5 DEF First
    <3>2. a.id \in Nat /\ b.id \in Nat
      BY WorkerAssumption DEF TypeOK, CountEvent
    <3>3. a \notin relay[w].batch
      BY <3>1, <3>2
    <3>4. Safe(a)
      BY <3>1, <3>3 DEF Fetched, SafelyDone
    <3> QED  BY <1>1, <3>4, SafeIs DEF AllLive
  <2> QED  BY <2>1, <2>4, <2>5 DEF InLine
<1>4. CASE BrokerAccept(w)
  <2> DEFINE e == Head(wire[w])
  <2>1. /\ wire[w] # <<>> /\ queue' = Append(queue, e) /\ unacked' = unacked
        /\ wire'[w] = Tail(wire[w])
    BY <1>1, <1>4 DEF BrokerAccept
  <2>2. e \in outbox /\ Tail(wire[w]) = <<>>
    BY <1>1, <2>1, SeqOps, OneDue
  <2>3. e = b => In(wire[w], b)
    BY <1>1, <2>1, InOps
  <2>4. In(queue, a) => In(queue', a)
    BY <1>1, <2>1, <2>2, InOps
  <2>5. Leads(queue, a, b) /\ (e = b => In(queue, a)) => Leads(queue', a, b)
    BY <1>1, <2>1, <2>2, LeadsOps
  <2>6. ~In(wire'[w], b)
    BY <2>1, <2>2 DEF In
  <2> HIDE DEF e
  <2> QED  BY <2>1, <2>3, <2>4, <2>5, <2>6 DEF InLine
<1>5. CASE BrokerReject(w)
  <2>1. wire[w] # <<>> /\ UNCHANGED <<queue, unacked>> /\ wire'[w] = Tail(wire[w])
    BY <1>1, <1>5 DEF BrokerReject
  <2>2. wire'[w] = <<>>
    BY <2>1, OneDue
  <2>3. ~In(wire'[w], b)
    BY <2>2 DEF In
  <2> QED  BY <2>1, <2>3 DEF InLine
<1>6. CASE Deliver(w)
  <2> DEFINE e == Head(queue)
  <2>1. /\ queue # <<>> /\ queue' = Tail(queue) /\ wire' = wire
        /\ unacked'[w] = Append(unacked[w], e) /\ e \in outbox
    BY <1>1, <1>6, SeqOps DEF Deliver
  <2>2. In(unacked[w], a) => In(unacked'[w], a)
    BY <1>1, <2>1, InOps
  <2>3. e = a => In(unacked'[w], a)
    BY <1>1, <2>1, InOps
  <2>4. In(queue, a) => In(unacked'[w], a) \/ In(queue', a)
    BY <1>1, <2>1, <2>3, InOps
  <2>5. Leads(queue, a, b) => e # b /\ (e # a => Leads(queue', a, b))
    BY <1>1, <2>1, LeadsOps
  <2>6. Leads(unacked'[w], a, b)
    <3>1. e # b \/ In(unacked[w], a)
      BY <2>5 DEF InLine
    <3> QED  BY <1>1, <2>1, <3>1, LeadsOps DEF InLine
  <2> HIDE DEF e
  <2> QED  BY <2>1, <2>2, <2>3, <2>4, <2>5, <2>6 DEF InLine
<1>7. CASE Ack(w)
  <2>1. /\ UNCHANGED <<queue, wire>> /\ consumer[w].pc = "ack"
        /\ unacked' = IF status[w] = "up" THEN [unacked EXCEPT ![w] = Tail(@)] ELSE unacked
    BY <1>7 DEF Ack, Settle
  <2>2. CASE status[w] # "up"
    BY <2>1, <2>2 DEF InLine
  <2>3. CASE status[w] = "up"
    <3>1. unacked'[w] = Tail(unacked[w]) /\ unacked[w] # <<>>
      BY <1>1, <2>1, <2>3 DEF Holding
    <3>2. Head(unacked[w]) # a
      BY <2>1, <2>3 DEF Hands
    <3>3. In(unacked[w], a) => In(unacked'[w], a)
      BY <1>1, <3>1, <3>2, InOps
    <3>4. Leads(unacked'[w], a, b)
      BY <1>1, <3>1, <3>2, LeadsOps DEF InLine
    <3> QED  BY <2>1, <3>3, <3>4 DEF InLine
  <2> QED  BY <2>2, <2>3
<1>8. CASE ConnLost(w) \/ Crash(w)
  <2>1. queue' = unacked[w] \o queue /\ unacked'[w] = <<>> /\ wire'[w] = <<>>
    BY <1>1, <1>8 DEF ConnLost, Crash, Requeue
  <2>2. Leads(queue', a, b)
    BY <1>1, <2>1, LeadsOps DEF InLine
  <2>3. ~In(wire'[w], b)
    BY <2>1 DEF In
  <2> QED  BY <1>2, <2>1, <2>2, <2>3 DEF InLine
<1>9. ~Nack(w)
  BY DEF AllLive, Nack
<1>10. ASSUME \/ FetchPending(w) \/ TakeConfirm(w) \/ ConfirmClosed(w) \/ ConfirmTimeout(w)
              \/ MarkProcessed(w) \/ Take(w) \/ Apply(w) \/ ApplyFails(w) \/ DelCache(w)
              \/ Start(w)
       PROVE  UNCHANGED <<queue, unacked, wire>>
  BY <1>10 DEF FetchPending, TakeConfirm, Confirm, ConfirmClosed, ConfirmTimeout,
               MarkProcessed, Take, Apply, ApplyFails, DelCache, Start
<1>11. ASSUME Produce \/ UNCHANGED vars \/ \E p \in Posts : ReadThrough(p)
       PROVE  UNCHANGED <<queue, unacked, wire>>
  BY <1>11 DEF Produce, ReadThrough, ReadRow, SetRow, ExpireCache, vars
<1>12. UNCHANGED <<queue, unacked, wire>> => InLine(w, a, b)'
  BY DEF InLine
<1>13. CASE Work(w)
  BY <1>3, <1>4, <1>5, <1>6, <1>7, <1>8, <1>9, <1>10, <1>12, <1>13 DEF Work, Relay, Consume
<1> QED  BY <1>1, <1>11, <1>12, <1>13 DEF Next

\* Order is kept by every step.
LEMMA OrderedNext ==
  ASSUME TypeOK, Holding, Hands, ConfirmsOwed, SafelyDone, AllLive, Orderly,
         IsFiniteSet(outbox), faults["timeout"] = 0, [Next]_vars,
         NEW a \in outbox, NEW b \in outbox, a.id < b.id, Ordered(a, b)
  PROVE  Ordered(a, b)'
<1> SUFFICES ASSUME a.id \notin dedup' PROVE Ordered(a, b)'
  BY DEF Ordered
<1>1. /\ a.id \notin dedup /\ dedup \subseteq dedup'
      /\ \A e : e.id \in dedup' \ dedup =>
           \E w \in Workers : Commits(w) /\ e.id = consumer[w].msg.id
  <2>1. CASE dedup' = dedup
    BY <2>1
  <2>2. ASSUME NEW w \in Workers, Commits(w)
        PROVE  dedup \subseteq dedup' /\ dedup' \subseteq dedup \cup {consumer[w].msg.id}
    BY <2>2 DEF Commits, CountOnce, Count
  <2>3. dedup' = dedup \/ \E w \in Workers : Commits(w)
    BY OnlyCommits DEF Produce
  <2> QED  BY <2>1, <2>2, <2>3
<1>2. /\ b.id \notin dedup
      /\ \A w \in Workers : /\ Fetched(w, a, b) /\ InLine(w, a, b)
                            /\ consumer[w].pc # "idle" => consumer[w].msg # b
  BY <1>1 DEF Ordered
<1>3. b.id \notin dedup'
  <2> SUFFICES ASSUME NEW w \in Workers, Commits(w), b.id = consumer[w].msg.id
               PROVE  FALSE
    BY <1>1, <1>2
  <2>1. consumer[w].pc # "idle" /\ consumer[w].msg \in outbox
    BY ConsumerType DEF Commits, InHand
  <2> QED  BY <1>2, <2>1 DEF TypeOK
<1>4. ASSUME NEW w \in Workers, consumer'[w].pc # "idle" PROVE consumer'[w].msg # b
  <2>1. CASE Take(w)
    <3>1. unacked[w] # <<>> /\ consumer'[w].msg = Head(unacked[w])
      BY <2>1 DEF Take, TypeOK, Busy
    <3>2. Head(unacked[w]) # b
      BY <1>2, <3>1, LeadsOps DEF InLine, TypeOK
    <3> QED  BY <3>1, <3>2
  <2> QED  BY <1>2, <1>4, <2>1, HandKeeps
<1>5. \A w \in Workers : Fetched(w, a, b)' /\ InLine(w, a, b)'
  BY <1>1, <1>2, FetchedNext, InLineNext
<1>6. Ordered(a, b)' <=> \/ a.id \in dedup'
                         \/ /\ b.id \notin dedup'
                            /\ \A w \in Workers :
                                 /\ Fetched(w, a, b)' /\ InLine(w, a, b)'
                                 /\ consumer'[w].pc # "idle" => consumer'[w].msg # b
  BY DEF Ordered
<1> QED  BY <1>3, <1>4, <1>5, <1>6

\* A row that is not in the outbox yet is behind every row that is.
LEMMA OrderedNew ==
  ASSUME TypeOK, NEW a \in outbox, NEW b, b.id \notin Ids(outbox)
  PROVE  Ordered(a, b)
<1>1. b \notin outbox /\ b.id \notin dedup
  BY DEF TypeOK, Ids
<1>2. ASSUME NEW q \in Seq(outbox) PROVE Leads(q, a, b) /\ ~In(q, b)
  <2>1. \A i \in 1 .. Len(q) : q[i] \in outbox
    OBVIOUS
  <2> QED  BY <1>1, <2>1 DEF Leads, In
<1>3. \A w \in Workers : /\ relay[w].batch \subseteq outbox
                         /\ wire[w] \in Seq(outbox) /\ unacked[w] \in Seq(outbox)
                         /\ consumer[w].pc # "idle" => consumer[w].msg \in outbox
  BY RelayParts, ConsumerType DEF TypeOK, InHand
<1>4. queue \in Seq(outbox)
  BY DEF TypeOK
<1> QED  BY <1>1, <1>2, <1>3, <1>4 DEF Ordered, Fetched, InLine

LEMMA OrderedProduce ==
  ASSUME TypeOK, Produce, NEW a \in outbox, NEW b \in outbox' \ outbox
  PROVE  Ordered(a, b)'
<1>1. b.id \notin Ids(outbox)
  BY DEF Produce
<1>2. Ordered(a, b)
  BY <1>1, OrderedNew
<1> QED  BY <1>2 DEF Produce, Ordered, Fetched, InLine, broker, channel

\* What order rests on; it holds as long as no confirm is late and nothing is
\* dead-lettered.
Calm ==
  /\ Holding /\ Hands /\ Closed /\ ConfirmsOwed /\ SafelyDone /\ Asked /\ AllLive
  /\ faults["timeout"] = 0
  /\ IsFiniteSet(outbox)

LEMMA CalmInit == Init => Calm
<1> SUFFICES ASSUME Init PROVE Calm
  OBVIOUS
<1>1. Holding /\ Hands /\ Closed /\ AllLive /\ faults["timeout"] = 0
  BY DEF Init, Holding, Hands, Closed, AllLive, IdleConsumer, Faults
<1>2. SafelyDone /\ Asked
  BY DEF Init, SafelyDone, Asked, IdleRelay
<1>3. ConfirmsOwed
  BY <1>1 DEF Init, ConfirmsOwed, IdleRelay
<1>4. IsFiniteSet(outbox)
  BY FS_EmptySet DEF Init
<1> QED  BY <1>1, <1>2, <1>3, <1>4 DEF Calm

LEMMA CalmNext ==
  ASSUME TypeOK, Calm, Orderly, [Next]_vars
  PROVE  Calm'
<1> USE DEF Calm
<1>1. TypeOK' /\ Holding' /\ Hands' /\ AllLive'
  BY TypeNext, HoldingNext, HandsNext, AllLiveNext
<1>2. Closed' /\ ConfirmsOwed'
  BY <1>1, OwedNext
<1>3. faults'["timeout"] = 0
  <2>1. \A w \in Workers : ~ConfirmTimeout(w)
    BY DEF ConfirmTimeout, Fault, Orderly, TypeOK, Faults
  <2>2. \A k \in Faults : k # "timeout" /\ Fault(k) => faults'["timeout"] = 0
    BY DEF Fault, TypeOK, Faults
  <2>3. ASSUME NEW w \in Workers, Work(w) PROVE faults'["timeout"] = 0
    BY <2>1, <2>2, <2>3
       DEF Work, Relay, Consume, FetchPending, Publish, TakeConfirm, Confirm,
           ConfirmClosed, MarkProcessed, BrokerAccept, BrokerReject, Deliver,
           Take, Apply, ApplyFails, DelCache, Ack, Nack, Settle, ConnLost, Crash, Start,
           NoFault, Faults
  <2> QED  BY <2>3 DEF Next, vars, Produce, ReadThrough, ReadRow, SetRow, ExpireCache
<1>4. SafelyDone' /\ Asked'
  BY <1>3, SafelyDoneNext, AskedNext
<1>5. IsFiniteSet(outbox')
  BY OnlyCommits, FS_AddElement DEF Commits, Produce
<1> QED  BY <1>1, <1>2, <1>3, <1>4, <1>5

(***************************************************************************)
(* A worker of its own, which takes no confirm late and dead-letters       *)
(* nothing, counts in order: if row a is committed before row b and has    *)
(* the smaller id, b is not counted before a, whatever is repeated after a *)
(* broken round, a rejected publish, a lost connection or a crash.  What   *)
(* keeps it so: a round is ordered by id and broken off at the first       *)
(* failure, and a requeue puts everything back at the head.                *)
(***************************************************************************)
THEOREM WorkerInOrder ==
  ASSUME Orderly, NEW a, NEW b, a.id < b.id
  PROVE  Spec /\ [](b \in outbox => a \in outbox)
           => [](b \in outbox /\ b.id \in dedup => a.id \in dedup)
<1> DEFINE J == b \in outbox => Ordered(a, b)
           Before == b \in outbox => a \in outbox
<1>1. Init => Calm /\ J
  BY CalmInit DEF Init
<1>2. TypeOK /\ Calm /\ [Next]_vars => Calm'
  BY CalmNext
<1>3. TypeOK /\ Calm /\ Before /\ Before' /\ J /\ [Next]_vars => J'
  <2> SUFFICES ASSUME TypeOK, Calm, Before, Before', J, [Next]_vars, b \in outbox'
               PROVE  Ordered(a, b)'
    OBVIOUS
  <2>1. CASE b \in outbox
    BY <2>1, OrderedNext DEF Calm
  <2>2. CASE b \notin outbox
    <3>1. Produce
      BY <2>2, OnlyCommits DEF Commits
    <3>2. b.id \in Nat
      BY <2>2, <3>1, WorkerAssumption DEF Produce, CountEvent
    <3>3. a \in outbox
      BY <2>2, <3>1, <3>2 DEF Produce
    <3> QED  BY <2>2, <3>1, <3>3, OrderedProduce
  <2> QED  BY <2>1, <2>2
<1>4. J => (b \in outbox /\ b.id \in dedup => a.id \in dedup)
  BY DEF Ordered
<1> HIDE DEF J, Before
<1>5. Spec /\ []Before => []J
  BY <1>1, <1>2, <1>3, WorkerType, PTL DEF Spec
<1> QED  BY <1>4, <1>5, PTL DEF Before
=============================================================================
