-------------------------------- MODULE Worker --------------------------------
(***************************************************************************)
(* The worker process and the broker between its two ends: relay (outbox   *)
(* to RabbitMQ with publisher confirms), consumer (queue to counters) and  *)
(* the dead-letter queue.  Several worker processes may run.               *)
(*                                                                         *)
(* Messages are the outbox rows themselves.  One AMQP channel per worker   *)
(* carries, in order, what it publishes (wire), the confirms that come     *)
(* back (confirms) and the deliveries it has not acknowledged (unacked).   *)
(* RabbitMQ and the amqp091 client are modelled from how the code uses     *)
(* them.  Everything that can go wrong is a fault; each kind is bounded,   *)
(* and so are all of them together.                                        *)
(***************************************************************************)
EXTENDS CountEvents, Sequences

CONSTANTS
  Workers,
  Servers,        \* API processes: each has one flight per post
  Events,         \* what the API may commit to the outbox
  BatchSize,      \* limit of FetchPending
  Prefetch,       \* Qos of the consumer
  ConfirmBuffer,  \* capacity of the confirmation channel
  Limit,          \* bound on each kind of fault
  MaxFaults       \* bound on the faults of a behaviour

Faults == {"timeout", "crash", "connection", "nack", "mark", "apply", "redis"}

ASSUME WorkerAssumption ==
  /\ Events \subseteq CountEvent
  /\ BatchSize \in Nat \ {0}
  /\ Prefetch \in Nat \ {0}
  /\ ConfirmBuffer \in Nat
  /\ Limit \in [Faults -> Nat]
  /\ MaxFaults \in Nat

VARIABLES
  outbox,         \* table outbox: committed events
  marked,         \* ids of the rows whose processed_at is set
  dedup,          \* table processed_events
  counts,         \* posts.like_count and posts.comment_count
  cache,          \* the detail entry of each post in Redis
  fill,           \* what a flight of Get has read and not yet cached
  queue,          \* broker: ready messages
  dead,           \* broker: what has gone to the dead-letter queue
  status,         \* worker: "up", "cut" (running, connection gone), "down"
  relay,          \* worker: the relay's round
  consumer,       \* worker: the delivery in hand
  wire,           \* channel: published, not yet handled by the broker
  confirms,       \* channel: confirms the publisher has not taken
  unacked,        \* channel: deliveries not yet acknowledged
  faults

database == <<outbox, marked, dedup, counts>>
broker == <<queue, dead>>
channel == <<wire, confirms, unacked>>
vars == <<outbox, marked, dedup, counts, cache, fill, queue, dead, status, relay,
          consumer, wire, confirms, unacked, faults>>

\* Does an entry show the counters of its row?  "stale": no, and the DEL of the
\* count it lacks is still to come; "forgotten": a DEL failed; "overtaken": a
\* DEL came between the count and the SET.
CacheStates == {"absent", "fresh", "stale", "forgotten", "overtaken"}

\* Does the row a flight has read?  "old": counted since, the DEL to come;
\* "missed": a DEL is over as well.
FillStates == {"none", "current", "old", "missed"}

IdleRelay == [pc |-> "idle", batch |-> {}, done |-> {}]
IdleConsumer == [pc |-> "idle"]
Busy(pc, e) == [pc |-> pc, msg |-> e]

Init ==
  /\ outbox = {}
  /\ marked = {}
  /\ dedup = {}
  /\ counts = [f \in Fields |-> [p \in Posts |-> 0]]
  /\ cache = [p \in Posts |-> "absent"]
  /\ fill = [s \in Servers |-> [p \in Posts |-> "none"]]
  /\ queue = <<>>
  /\ dead = {}
  /\ status = [w \in Workers |-> "up"]
  /\ relay = [w \in Workers |-> IdleRelay]
  /\ consumer = [w \in Workers |-> IdleConsumer]
  /\ wire = [w \in Workers |-> <<>>]
  /\ confirms = [w \in Workers |-> <<>>]
  /\ unacked = [w \in Workers |-> <<>>]
  /\ faults = [k \in Faults |-> 0]

FaultsSoFar == Cardinality({x \in Faults \X (1 .. MaxFaults) : x[2] <= faults[x[1]]})
Fault(k) == /\ faults[k] < Limit[k] /\ FaultsSoFar < MaxFaults
            /\ faults' = [faults EXCEPT ![k] = @ + 1]
NoFault == UNCHANGED faults

-----------------------------------------------------------------------------
(* Relay: one round of relayOnce, publish by publish. *)

Pending == {e \in outbox : e.id \notin marked}
Oldest(S) == {e \in S : Cardinality({f \in S : f.id < e.id}) < BatchSize}
First(S) == {e \in S : \A f \in S : e.id <= f.id}     \* ORDER BY id: one row

RelayGoes(w, pc, batch, done) ==
  relay' = [relay EXCEPT ![w] = [pc |-> pc, batch |-> batch, done |-> done]]

\* Mutant: a dirty read, rows of open transactions included.
FetchUncommitted(w) ==
  /\ status[w] # "down"
  /\ relay[w].pc = "idle"
  /\ Events # {}
  /\ RelayGoes(w, "publish", Events, {})
  /\ UNCHANGED <<database, cache, fill, broker, status, consumer, channel, faults>>

FetchPending(w) ==
  /\ status[w] # "down"
  /\ relay[w].pc = "idle"
  /\ Pending # {}
  /\ RelayGoes(w, "publish", Oldest(Pending), {})
  /\ UNCHANGED <<database, cache, fill, broker, status, consumer, channel, faults>>

\* Mutant: Publish does not wait for the confirm.
PublishAsync(w) ==
  /\ relay[w].pc = "publish"
  /\ status[w] = "up"
  /\ \E e \in First(relay[w].batch) :
       LET rest == relay[w].batch \ {e} IN
       /\ wire' = [wire EXCEPT ![w] = Append(@, e)]
       /\ RelayGoes(w, IF rest = {} THEN "mark" ELSE "publish", rest, relay[w].done)
  /\ UNCHANGED <<database, cache, fill, broker, status, consumer, confirms, unacked,
                 faults>>

\* PublishWithContext writes to the connection, and fails on a closed one.
Publish(w) ==
  /\ relay[w].pc = "publish"
  /\ \E e \in First(relay[w].batch) :
       IF status[w] = "up"
         THEN /\ wire' = [wire EXCEPT ![w] = Append(@, e)]
              /\ RelayGoes(w, "confirm", relay[w].batch, relay[w].done)
         ELSE /\ wire' = wire
              /\ RelayGoes(w, "mark", {}, relay[w].done)
  /\ UNCHANGED <<database, cache, fill, broker, status, consumer, confirms, unacked,
                 faults>>

Confirm(w) ==
  /\ relay[w].pc = "confirm"
  /\ confirms[w] # <<>>
  /\ confirms' = [confirms EXCEPT ![w] = Tail(@)]
  /\ UNCHANGED <<database, cache, fill, broker, status, consumer, wire, unacked, faults>>

NextMessage(w, sent) ==
  \E e \in First(relay[w].batch) :
    LET rest == relay[w].batch \ {e} IN
    RelayGoes(w, IF rest = {} THEN "mark" ELSE "publish", rest,
              IF sent THEN relay[w].done \cup {e.id} ELSE relay[w].done)

\* Mutant: Publish returns no error for a negative confirm.
TakeAnyConfirm(w) == Confirm(w) /\ NextMessage(w, TRUE)

\* Mutant: the loop goes on after a failed publish instead of breaking off.
TakeConfirmGoesOn(w) == Confirm(w) /\ NextMessage(w, Head(confirms[w]))

\* Mutant: a negative confirm is dropped, and Publish waits for another.
TakeConfirmWaits(w) ==
  /\ Confirm(w)
  /\ IF Head(confirms[w]) THEN NextMessage(w, TRUE) ELSE UNCHANGED relay

\* The publisher takes whatever confirm comes next: it does not compare the
\* delivery tag with the message it has just sent.
TakeConfirm(w) ==
  /\ Confirm(w)
  /\ IF Head(confirms[w]) THEN NextMessage(w, TRUE)
                          ELSE RelayGoes(w, "mark", {}, relay[w].done)

\* The confirm channel is closed with the connection.
ConfirmClosed(w) ==
  /\ relay[w].pc = "confirm"
  /\ status[w] = "cut"
  /\ confirms[w] = <<>>
  /\ RelayGoes(w, "mark", {}, relay[w].done)
  /\ UNCHANGED <<database, cache, fill, broker, status, consumer, channel, faults>>

\* Two seconds without a confirm: the round is broken off, and the confirm
\* that comes later stays in the channel for the next publish to take.
ConfirmTimeout(w) ==
  /\ relay[w].pc = "confirm"
  /\ Fault("timeout")
  /\ RelayGoes(w, "mark", {}, relay[w].done)
  /\ UNCHANGED <<database, cache, fill, broker, status, consumer, channel>>

\* A failed UPDATE is logged only: the rows are relayed again.
MarkProcessed(w) ==
  /\ relay[w].pc = "mark"
  /\ \/ marked' = marked \cup relay[w].done /\ NoFault
     \/ relay[w].done # {} /\ marked' = marked /\ Fault("mark")
  /\ RelayGoes(w, "idle", {}, {})
  /\ UNCHANGED <<outbox, dedup, counts, cache, fill, broker, status, consumer, channel>>

-----------------------------------------------------------------------------
(* Broker. *)

\* Persisted, then confirmed.
BrokerAccept(w) ==
  /\ wire[w] # <<>>
  /\ queue' = Append(queue, Head(wire[w]))
  /\ wire' = [wire EXCEPT ![w] = Tail(@)]
  /\ confirms' = [confirms EXCEPT ![w] = Append(@, TRUE)]
  /\ UNCHANGED <<database, cache, fill, dead, status, relay, consumer, unacked, faults>>

BrokerReject(w) ==
  /\ wire[w] # <<>>
  /\ Fault("nack")
  /\ wire' = [wire EXCEPT ![w] = Tail(@)]
  /\ confirms' = [confirms EXCEPT ![w] = Append(@, FALSE)]
  /\ UNCHANGED <<database, cache, fill, broker, status, relay, consumer, unacked>>

\* Deliveries come behind the confirms on the same connection; the client's
\* reader stops at a confirm for which the confirmation channel has no room.
Deliver(w) ==
  /\ status[w] = "up"
  /\ queue # <<>>
  /\ Len(unacked[w]) < Prefetch
  /\ Len(confirms[w]) <= ConfirmBuffer
  /\ queue' = Tail(queue)
  /\ unacked' = [unacked EXCEPT ![w] = Append(@, Head(queue))]
  /\ UNCHANGED <<database, cache, fill, dead, status, relay, consumer, wire, confirms,
                 faults>>

-----------------------------------------------------------------------------
(* Consumer: RunConsumer, handleDelivery and Counter.Apply. *)

\* The next delivery; after a lost connection the deliveries channel is closed
\* and RunConsumer returns.
Take(w) ==
  /\ status[w] = "up"
  /\ consumer[w].pc = "idle"
  /\ unacked[w] # <<>>
  /\ consumer' = [consumer EXCEPT ![w] = Busy("apply", Head(unacked[w]))]
  /\ UNCHANGED <<database, cache, fill, broker, status, relay, channel, faults>>

\* The counter changes; a cached entry of the post is old now, and so is the
\* row that a flight has read.
Count(e) ==
  /\ dedup' = dedup \cup {e.id}
  /\ counts' = [counts EXCEPT ![e.field][e.post] = @ + e.delta]
  /\ cache' = [cache EXCEPT ![e.post] = IF @ = "absent" THEN @ ELSE "stale"]
  /\ fill' = [s \in Servers |->
       [fill[s] EXCEPT ![e.post] = IF @ = "none" THEN @ ELSE "old"]]

\* INSERT IGNORE INTO processed_events, and the UPDATE of the counter only when
\* the row is new.
CountOnce(e) ==
  IF e.id \in dedup THEN UNCHANGED <<dedup, counts, cache, fill>> ELSE Count(e)

\* Mutant: the result of INSERT IGNORE is not looked at.
ApplyAgain(w) ==
  /\ consumer[w].pc = "apply"
  /\ Count(consumer[w].msg)
  /\ consumer' = [consumer EXCEPT ![w].pc = "del"]
  /\ UNCHANGED <<outbox, marked, broker, status, relay, channel, faults>>

\* Mutant: a repeated message returns before the cache entry is dropped.
ApplyReturnsEarly(w) ==
  LET e == consumer[w].msg IN
  /\ consumer[w].pc = "apply"
  /\ CountOnce(e)
  /\ consumer' = [consumer EXCEPT ![w].pc = IF e.id \in dedup THEN "ack" ELSE "del"]
  /\ UNCHANGED <<outbox, marked, broker, status, relay, channel, faults>>

\* One transaction, and its answer.
Apply(w) ==
  /\ consumer[w].pc = "apply"
  /\ CountOnce(consumer[w].msg)
  /\ consumer' = [consumer EXCEPT ![w].pc = "del"]
  /\ UNCHANGED <<outbox, marked, broker, status, relay, channel, faults>>

\* The transaction returns an error: it is rolled back, or it is committed and
\* only the answer is lost.  There is no DEL either way.
ApplyFails(w) ==
  /\ consumer[w].pc = "apply"
  /\ Fault("apply")
  /\ UNCHANGED <<dedup, counts, cache, fill>> \/ CountOnce(consumer[w].msg)
  /\ consumer' = [consumer EXCEPT ![w].pc = "nack"]
  /\ UNCHANGED <<outbox, marked, broker, status, relay, channel>>

\* The cache entry goes, for a repeated message too; an error is only logged.
\* For a flight that has read an old row it comes too early.
DelCache(w) ==
  LET p == consumer[w].msg.post IN
  /\ consumer[w].pc = "del"
  /\ \/ cache' = [cache EXCEPT ![p] = "absent"] /\ NoFault
     \/ cache' = [cache EXCEPT ![p] = IF @ = "stale" THEN "forgotten" ELSE @]
        /\ Fault("redis")
  /\ fill' = [s \in Servers |->
       [fill[s] EXCEPT ![p] = IF @ = "old" THEN "missed" ELSE @]]
  /\ consumer' = [consumer EXCEPT ![w].pc = "ack"]
  /\ UNCHANGED <<database, broker, status, relay, channel>>

\* Ack and Nack mean nothing on a closed channel; their error is dropped.
Settle(w) ==
  /\ unacked' = IF status[w] = "up" THEN [unacked EXCEPT ![w] = Tail(@)]
                                    ELSE unacked
  /\ consumer' = [consumer EXCEPT ![w] = IdleConsumer]
  /\ UNCHANGED <<database, cache, fill, queue, status, relay, wire, confirms, faults>>

Ack(w) ==
  /\ consumer[w].pc = "ack"
  /\ Settle(w)
  /\ UNCHANGED dead

\* requeue = false: the message is dead-lettered, and RunDLQ only logs it.
Nack(w) ==
  /\ consumer[w].pc = "nack"
  /\ Settle(w)
  /\ dead' = IF status[w] = "up" THEN dead \cup {consumer[w].msg} ELSE dead

-----------------------------------------------------------------------------
(* The process and its connection. *)

\* What is not acknowledged when a connection ends goes back to the head.
Requeue(w) ==
  /\ queue' = unacked[w] \o queue
  /\ unacked' = [unacked EXCEPT ![w] = <<>>]
  /\ wire' = [wire EXCEPT ![w] = <<>>]

\* The connection is lost.  The process keeps running: the relay polls on,
\* the delivery in hand is finished, nothing reconnects.  Confirms already in
\* the confirmation channel can still be taken.
ConnLost(w) ==
  /\ status[w] = "up"
  /\ Fault("connection")
  /\ status' = [status EXCEPT ![w] = "cut"]
  /\ \E n \in 0 .. ConfirmBuffer :
       /\ n <= Len(confirms[w])
       /\ confirms' = [confirms EXCEPT ![w] = SubSeq(@, 1, n)]
  /\ Requeue(w)
  /\ UNCHANGED <<database, cache, fill, dead, relay, consumer>>

Crash(w) ==
  /\ status[w] # "down"
  /\ Fault("crash")
  /\ status' = [status EXCEPT ![w] = "down"]
  /\ relay' = [relay EXCEPT ![w] = IdleRelay]
  /\ consumer' = [consumer EXCEPT ![w] = IdleConsumer]
  /\ confirms' = [confirms EXCEPT ![w] = <<>>]
  /\ Requeue(w)
  /\ UNCHANGED <<database, cache, fill, dead>>

Start(w) ==
  /\ status[w] = "down"
  /\ status' = [status EXCEPT ![w] = "up"]
  /\ UNCHANGED <<database, cache, fill, broker, relay, consumer, channel, faults>>

-----------------------------------------------------------------------------
(* The rest of the system, seen from here. *)

\* The API commits an event; outbox.id is the primary key, and commits need
\* not come in id order.
Produce ==
  /\ \E e \in Events : e.id \notin Ids(outbox) /\ outbox' = outbox \cup {e}
  /\ UNCHANGED <<marked, dedup, counts, cache, fill, broker, status, relay, consumer,
                 channel, faults>>

\* PostService.Get reads the row: it found no entry, or its GET failed.
ReadRow(s, p) ==
  /\ fill[s][p] = "none"
  /\ fill' = [fill EXCEPT ![s][p] = "current"]
  /\ UNCHANGED <<database, cache, broker, status, relay, consumer, channel, faults>>

Shown(f) == CASE f = "current" -> "fresh" [] f = "old" -> "stale"
              [] f = "missed" -> "overtaken"

\* SetJSON of what was read, over whatever is there by now; or its error, the
\* query's, or the end of the process.
SetRow(s, p) ==
  /\ fill[s][p] # "none"
  /\ cache' \in {cache, [cache EXCEPT ![p] = Shown(fill[s][p])]}
  /\ fill' = [fill EXCEPT ![s][p] = "none"]
  /\ UNCHANGED <<database, broker, status, relay, consumer, channel, faults>>

\* The entry's TTL runs out, or the API drops it.
ExpireCache(p) ==
  /\ cache[p] # "absent"
  /\ cache' = [cache EXCEPT ![p] = "absent"]
  /\ UNCHANGED <<database, fill, broker, status, relay, consumer, channel, faults>>

-----------------------------------------------------------------------------
Relay(w) == FetchPending(w) \/ Publish(w) \/ TakeConfirm(w) \/ ConfirmClosed(w)
            \/ MarkProcessed(w)
Consume(w) == Take(w) \/ Apply(w) \/ DelCache(w) \/ Ack(w) \/ Nack(w)

\* What a worker and its channel do.
Work(w) ==
  \/ Relay(w) \/ ConfirmTimeout(w)
  \/ BrokerAccept(w) \/ BrokerReject(w) \/ Deliver(w)
  \/ Consume(w) \/ ApplyFails(w)
  \/ ConnLost(w) \/ Crash(w) \/ Start(w)

ReadThrough(p) == ExpireCache(p) \/ \E s \in Servers : ReadRow(s, p) \/ SetRow(s, p)

Next ==
  \/ \E w \in Workers : Work(w)
  \/ Produce
  \/ \E p \in Posts : ReadThrough(p)

Spec == Init /\ [][Next]_vars

-----------------------------------------------------------------------------
TypeOK ==
  /\ outbox \subseteq Events
  /\ \A e, f \in outbox : e.id = f.id => e = f
  /\ marked \subseteq Ids(outbox)
  /\ dedup \subseteq Ids(outbox)
  /\ counts \in [Fields -> [Posts -> Int]]
  /\ cache \in [Posts -> CacheStates]
  /\ fill \in [Servers -> [Posts -> FillStates]]
  /\ queue \in Seq(outbox)
  /\ dead \subseteq outbox
  /\ status \in [Workers -> {"up", "cut", "down"}]
  /\ relay \in [Workers -> [pc : {"idle", "publish", "confirm", "mark"},
                            batch : SUBSET outbox, done : SUBSET Ids(outbox)]]
  /\ consumer \in [Workers ->
       {IdleConsumer} \cup [pc : {"apply", "del", "ack", "nack"}, msg : outbox]]
  /\ wire \in [Workers -> Seq(outbox)]
  /\ confirms \in [Workers -> Seq(BOOLEAN)]
  /\ unacked \in [Workers -> Seq(outbox)]
  /\ faults \in [Faults -> Nat]

InQueue(e) == \E i \in 1 .. Len(queue) : queue[i] = e
OnWire(e) == \E w \in Workers : \E i \in 1 .. Len(wire[w]) : wire[w][i] = e
InFlight(e) ==
  InQueue(e) \/ \E w \in Workers : \E i \in 1 .. Len(unacked[w]) : unacked[w][i] = e

(***************************************************************************)
(* Exactly-once effect: each counter is the sum of the events recorded in  *)
(* processed_events, each counted once, however often a message is         *)
(* relayed, redelivered or processed by two workers at a time, and         *)
(* wherever a worker dies.                                                 *)
(***************************************************************************)
ExactlyOnce ==
  \A f \in Fields, p \in Posts :
    counts[f][p] = Net({e \in outbox : e.id \in dedup}, f, p)

(***************************************************************************)
(* While no confirm is late, a row the relay no longer looks at is safe,   *)
(* whatever crashes and lost connections do: it has been counted, it is on *)
(* its way, or it has been given up as a dead letter.                      *)
(***************************************************************************)
NoLoss ==
  faults["timeout"] = 0 =>
    \A e \in outbox :
      e.id \in marked => e.id \in dedup \/ e \in dead \/ InFlight(e)

(***************************************************************************)
(* The weaker claim of the comment on Publish and of the README: a marked  *)
(* row is at least still on some wire.  One confirm timeout refutes it:    *)
(* the late confirm is taken for the next message, which is marked and     *)
(* then lost with its connection.                                          *)
(***************************************************************************)
NeverLost ==
  \A e \in outbox : e.id \in marked =>
    e.id \in dedup \/ e \in dead \/ InFlight(e) \/ OnWire(e)

(***************************************************************************)
(* A cached post that lacks a count, and whose DEL has neither failed nor  *)
(* been over before the SET, is about to be dropped: a consumer stands     *)
(* before the DEL, or a message already counted is still to be consumed    *)
(* again, and its repetition does the DEL a crash skipped, unless it is    *)
(* dead-lettered: its repetition fails, or its commit lost its answer.  A  *)
(* reader overtaken between count and DEL only is covered as well.         *)
(***************************************************************************)
StaleCovered ==
  \A p \in Posts : cache[p] = "stale" =>
    \/ \E w \in Workers : consumer[w].pc = "del" /\ consumer[w].msg.post = p
    \/ \E e \in outbox : e.post = p /\ e.id \in dedup
                     /\ (InFlight(e) \/ e \in dead)

(***************************************************************************)
(* Nobody ever empties the confirmation channel but Publish, and while it  *)
(* is full the client's reader stands still and deliveries with it.  Only  *)
(* a confirm that came too late stays in it: there are never more confirms *)
(* due than the one that is waited for, and one for each timeout.          *)
(***************************************************************************)
ConfirmsOwed ==
  \A w \in Workers :
    Len(wire[w]) + Len(confirms[w])
      <= faults["timeout"] + (IF relay[w].pc = "confirm" THEN 1 ELSE 0)
=============================================================================
