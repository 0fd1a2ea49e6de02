------------------------------ MODULE PostCache ------------------------------
(***************************************************************************)
(* The detail entry of one post in Redis, and everything that touches it:  *)
(* PostService.Get in several readers at a time (cache, Bloom filter,      *)
(* singleflight, database, fill), Create, Delete and the worker's counter  *)
(* update.  Redis keys, flights and rows of different posts do not meet,   *)
(* so one post is the whole story.  Each API process has a Bloom filter    *)
(* and a singleflight group of its own.                                    *)
(***************************************************************************)
EXTENDS Integers

CONSTANTS
  Servers,        \* API processes
  Readers,        \* handler goroutines in PostService.Get
  Deleters,       \* handler goroutines in PostService.Delete
  FalsePositive,  \* TRUE: the Bloom filter may claim to know the post
  MaxVersion,     \* bound: counter updates of the post
  MaxLost,        \* bound: invalidations that fail or die with their process
  MaxCrash        \* bound: crashes of API processes

ASSUME PostCacheAssumption ==
  /\ FalsePositive \in BOOLEAN
  /\ MaxVersion \in Nat /\ MaxLost \in Nat /\ MaxCrash \in Nat

VARIABLES
  row,            \* table posts: the state of the row and of its counters
  entry,          \* Redis: key post:<id>
  up,             \* API processes that serve requests
  filter,         \* what each process's Bloom filter has of the id
  flight,         \* the singleflight call of each process
  reader,         \* where each Get is
  creator,        \* where Create is, and in which process
  deleter,        \* where each Delete is
  counter,        \* where the worker is: "idle" or "dirty" (DEL to come)
  lost, crashes   \* bounds

vars == <<row, entry, up, filter, flight, reader, creator, deleter, counter,
          lost, crashes>>

Missing == [state |-> "missing", version |-> 0]
Rows == [state : {"missing", "live", "deleted"}, version : 0 .. MaxVersion]

\* overtaken: the row was not what the filling reader had seen any more.
Absent == [kind |-> "absent"]
Nil == [kind |-> "nil"]
Post(v, o) == [kind |-> "post", version |-> v, overtaken |-> o]
Entries == {Absent, Nil}
           \cup [kind : {"post"}, version : 0 .. MaxVersion, overtaken : BOOLEAN]

NoFlight == [phase |-> "none"]
Flights == {NoFlight, [phase |-> "query"]}
           \cup [phase : {"set", "share"}, read : Rows]

IdleReader == [pc |-> "idle"]
At(g, pc) == reader' = [reader EXCEPT ![g].pc = pc]
Answered(a) == [pc |-> "done", answer |-> a]

\* "doomed": the bits are set, but Add of another post has loaded one of their
\* bytes before and will store its old copy; "lost": it has.
FilterStates == {"unset", "set", "doomed", "lost"}
Knows(s) == filter[s] \in {"set", "doomed"}

\* Deleted posts are filtered out of every query (deleted_at IS NULL).
VisibleUnscoped(r) == r.state # "missing"     \* mutant: no such filter
Visible(r) == r.state = "live"

Init ==
  /\ row = Missing
  /\ entry = Absent
  /\ up = Servers
  /\ filter = [s \in Servers |-> "unset"]
  /\ flight = [s \in Servers |-> NoFlight]
  /\ reader = [g \in Readers |-> IdleReader]
  /\ creator = [pc |-> "idle"]
  /\ deleter = [d \in Deleters |-> "idle"]
  /\ counter = "idle"
  /\ lost = 0
  /\ crashes = 0

-----------------------------------------------------------------------------
(* PostService.Get *)

StartGet(g) ==
  /\ reader[g].pc \in {"idle", "done"}
  /\ \E s \in up :
       reader' = [reader EXCEPT ![g] = [pc |-> "lookup", srv |-> s]]
  /\ UNCHANGED <<row, entry, up, filter, flight, creator, deleter, counter,
                 lost, crashes>>

Answer(g, a) == reader' = [reader EXCEPT ![g] = Answered(a)]

\* GetJSON: an entry answers; without one, or when Redis fails, Get goes on.
LookUp(g) ==
  /\ reader[g].pc = "lookup"
  /\ \/ entry.kind = "nil" /\ Answer(g, "notfound")
     \/ entry.kind = "post" /\ Answer(g, "post")
     \/ At(g, "bloom")
  /\ UNCHANGED <<row, entry, up, filter, flight, creator, deleter, counter,
                 lost, crashes>>

\* An id the filter does not know is answered without the database.
TestBloom(g) ==
  /\ reader[g].pc = "bloom"
  /\ \/ (Knows(reader[g].srv) \/ FalsePositive) /\ At(g, "do")
     \/ ~Knows(reader[g].srv) /\ At(g, "setnil")
  /\ UNCHANGED <<row, entry, up, filter, flight, creator, deleter, counter,
                 lost, crashes>>

\* An error of SetJSON is logged or dropped.
SetJSON(e) == entry' \in {entry, e}

SetNil(g) ==
  /\ reader[g].pc = "setnil"
  /\ SetJSON(Nil)
  /\ Answer(g, "notfound")
  /\ UNCHANGED <<row, up, filter, flight, creator, deleter, counter, lost, crashes>>

\* singleflight.Do: start the call, or wait for the one that is running,
\* whatever it has read already.
Do(g) ==
  LET s == reader[g].srv IN
  /\ reader[g].pc = "do"
  /\ At(g, "wait")
  /\ flight' = IF flight[s] = NoFlight
                 THEN [flight EXCEPT ![s] = [phase |-> "query"]] ELSE flight
  /\ UNCHANGED <<row, entry, up, filter, creator, deleter, counter, lost, crashes>>

FlightQuery(s) ==
  /\ flight[s].phase = "query"
  /\ flight' = [flight EXCEPT ![s] = [phase |-> "set", read |-> row]]
  /\ UNCHANGED <<row, entry, up, filter, reader, creator, deleter, counter,
                 lost, crashes>>

\* Everyone who waits for the flight gets its result.
Land(s, a) ==
  /\ flight' = [flight EXCEPT ![s] = NoFlight]
  /\ reader' = [g \in Readers |->
       IF reader[g].pc = "wait" /\ reader[g].srv = s
         THEN Answered(a) ELSE reader[g]]
  /\ UNCHANGED <<row, entry, up, filter, creator, deleter, counter, lost, crashes>>

\* Mutant: a failed call ends without waking those who wait.
FlightFailsSilently(s) ==
  /\ flight[s].phase = "query"
  /\ flight' = [flight EXCEPT ![s] = NoFlight]
  /\ UNCHANGED <<row, entry, up, filter, reader, creator, deleter, counter, lost,
                 crashes>>

\* The query fails, for instance because the first reader's client has gone:
\* the call runs under its context.
FlightFails(s) ==
  /\ flight[s].phase = "query"
  /\ Land(s, "error")

\* SetJSON of the row that was read, or of the nil envelope.
FlightSet(s) ==
  LET read == flight[s].read IN
  /\ flight[s].phase = "set"
  /\ SetJSON(IF Visible(read) THEN Post(read.version, read # row) ELSE Nil)
  /\ flight' = [flight EXCEPT ![s].phase = "share"]
  /\ UNCHANGED <<row, up, filter, reader, creator, deleter, counter, lost, crashes>>

FlightShare(s) ==
  /\ flight[s].phase = "share"
  /\ Land(s, IF Visible(flight[s].read) THEN "post" ELSE "notfound")

-----------------------------------------------------------------------------
(* PostService.Create: the cache entry of the new id is not touched. *)

\* The INSERT commits; Create may get an error all the same, when the
\* connection breaks on the answer, and then returns before Add.
InsertPost ==
  /\ creator.pc = "idle"
  /\ \E s \in up, pc \in {"inserted", "failed"} : creator' = [pc |-> pc, srv |-> s]
  /\ row' = [Missing EXCEPT !.state = "live"]
  /\ UNCHANGED <<entry, up, filter, flight, reader, deleter, counter, lost, crashes>>

\* Mutant: the id is added only when somebody asks for the post.
AddBloomNever ==
  /\ creator.pc = "inserted"
  /\ creator' = [pc |-> "done"]
  /\ UNCHANGED <<row, entry, up, filter, flight, reader, deleter, counter, lost, crashes>>

\* Nothing keeps two calls of Add in one process apart.
AddBloom ==
  /\ creator.pc = "inserted"
  /\ \E b \in {"set", "doomed"} : filter' = [filter EXCEPT ![creator.srv] = b]
  /\ creator' = [pc |-> "done"]
  /\ UNCHANGED <<row, entry, up, flight, reader, deleter, counter, lost, crashes>>

\* Add of another post stores the byte it has loaded before.
LoseBit(s) ==
  /\ filter[s] = "doomed"
  /\ filter' = [filter EXCEPT ![s] = "lost"]
  /\ UNCHANGED <<row, entry, up, flight, reader, creator, deleter, counter, lost,
                 crashes>>

-----------------------------------------------------------------------------
(* The writers: PostService.Delete, and the worker's counter update. *)

\* GetByID and the owner check.
CheckDelete(d) ==
  /\ deleter[d] = "idle"
  /\ Visible(row)
  /\ deleter' = [deleter EXCEPT ![d] = "checked"]
  /\ UNCHANGED <<row, entry, up, filter, flight, reader, creator, counter, lost,
                 crashes>>

SoftDelete(d) ==
  /\ deleter[d] = "checked"
  /\ row' = [row EXCEPT !.state = "deleted"]
  /\ deleter' = [deleter EXCEPT ![d] = "dirty"]
  /\ UNCHANGED <<entry, up, filter, flight, reader, creator, counter, lost, crashes>>

\* Mutant: a writer that does not invalidate.
InvalidateNothing == UNCHANGED <<entry, lost>>

\* DEL, or an error that is only logged; a handler that dies before its DEL is
\* a lost DEL too.
Invalidate ==
  \/ entry' = Absent /\ lost' = lost
  \/ lost < MaxLost /\ entry' = entry /\ lost' = lost + 1

InvalidatePost(d) ==
  /\ deleter[d] = "dirty"
  /\ Invalidate
  /\ deleter' = [deleter EXCEPT ![d] = "done"]
  /\ UNCHANGED <<row, up, filter, flight, reader, creator, counter, crashes>>

\* Counter.Apply commits (on a deleted row too), then drops the entry.
CountCommitted ==
  /\ counter = "idle"
  /\ row.state # "missing"
  /\ row.version < MaxVersion
  /\ row' = [row EXCEPT !.version = @ + 1]
  /\ counter' = "dirty"
  /\ UNCHANGED <<entry, up, filter, flight, reader, creator, deleter, lost, crashes>>

CountInvalidated ==
  /\ counter = "dirty"
  /\ Invalidate
  /\ counter' = "idle"
  /\ UNCHANGED <<row, up, filter, flight, reader, creator, deleter, crashes>>

-----------------------------------------------------------------------------
(* Time and crashes. *)

Expire ==
  /\ entry # Absent
  /\ entry' = Absent
  /\ UNCHANGED <<row, up, filter, flight, reader, creator, deleter, counter,
                 lost, crashes>>

\* A process dies with its requests, its flight and its Bloom filter.
Crash(s) ==
  /\ s \in up
  /\ crashes < MaxCrash
  /\ crashes' = crashes + 1
  /\ up' = up \ {s}
  /\ filter' = [filter EXCEPT ![s] = "unset"]
  /\ flight' = [flight EXCEPT ![s] = NoFlight]
  /\ reader' = [g \in Readers |->
       IF reader[g].pc \notin {"idle", "done"} /\ reader[g].srv = s
         THEN IdleReader ELSE reader[g]]
  /\ creator' = IF creator.pc \in {"inserted", "failed"} /\ creator.srv = s
                  THEN [pc |-> "died"] ELSE creator
  /\ UNCHANGED <<row, entry, deleter, counter, lost>>

\* Mutant: the filter starts empty.
BootEmpty(s) ==
  /\ s \notin up
  /\ up' = up \cup {s}
  /\ UNCHANGED <<row, entry, filter, flight, reader, creator, deleter, counter,
                 lost, crashes>>

\* cmd/server: the filter is loaded with the ids of all visible posts before
\* the first request is served.
Boot(s) ==
  /\ s \notin up
  /\ up' = up \cup {s}
  /\ filter' = IF Visible(row) THEN [filter EXCEPT ![s] = "set"] ELSE filter
  /\ UNCHANGED <<row, entry, flight, reader, creator, deleter, counter, lost,
                 crashes>>

-----------------------------------------------------------------------------
Get(g) == StartGet(g) \/ LookUp(g) \/ TestBloom(g) \/ SetNil(g) \/ Do(g)
Flight(s) == FlightQuery(s) \/ FlightSet(s) \/ FlightShare(s)

Next ==
  \/ \E g \in Readers : Get(g)
  \/ \E s \in Servers : Flight(s) \/ FlightFails(s) \/ Crash(s) \/ Boot(s)
  \/ InsertPost \/ AddBloom \/ \E s \in Servers : LoseBit(s)
  \/ \E d \in Deleters : CheckDelete(d) \/ SoftDelete(d) \/ InvalidatePost(d)
  \/ CountCommitted \/ CountInvalidated
  \/ Expire

Spec == Init /\ [][Next]_vars

\* Flights end, handlers that must still invalidate or add go on, TTLs run out.
FairSpec ==
  /\ Spec
  /\ \A s \in Servers : WF_vars(Flight(s))
  /\ \A d \in Deleters : WF_vars(InvalidatePost(d))
  /\ WF_vars(AddBloom)
  /\ WF_vars(CountInvalidated)
  /\ WF_vars(Expire)

-----------------------------------------------------------------------------
TypeOK ==
  /\ row \in Rows
  /\ entry \in Entries
  /\ up \subseteq Servers
  /\ filter \in [Servers -> FilterStates]
  /\ \A s \in Servers \ up : filter[s] = "unset"
  /\ flight \in [Servers -> Flights]
  /\ \A g \in Readers :
       /\ reader[g].pc \in {"idle", "lookup", "bloom", "setnil", "do", "wait", "done"}
       /\ reader[g].pc = "wait" => flight[reader[g].srv] # NoFlight
  /\ creator.pc \in {"idle", "inserted", "failed", "done", "died"}
  /\ deleter \in [Deleters -> {"idle", "checked", "dirty", "done"}]
  /\ counter \in {"idle", "dirty"}
  /\ lost \in 0 .. MaxLost /\ crashes \in 0 .. MaxCrash

InvalidationPending ==
  counter = "dirty" \/ \E d \in Deleters : deleter[d] = "dirty"

Outdated == entry.kind = "post" /\ (row.version # entry.version \/ ~Visible(row))

(***************************************************************************)
(* Cache-aside at its best: while DELs succeed, an entry that differs from *)
(* the row is about to be dropped, or was filled by a reader that had read *)
(* the row before the write.  There is no third way to a stale entry,      *)
(* however deletes, counter updates, flights and expiry interleave; but    *)
(* the second reason is there: a flight that read the row before a delete  *)
(* fills the entry after its DEL.                                          *)
(***************************************************************************)
OnlyOvertakenFills ==
  lost = 0 /\ Outdated => InvalidationPending \/ entry.overtaken

(***************************************************************************)
(* With one API process the Bloom filter knows every visible post whose    *)
(* Create is not still between INSERT and Add, also when the process dies  *)
(* in between.  Two ways lead out of it, and last as long as the process:  *)
(* the Create failed after its INSERT, or the Add of another post has      *)
(* stored a byte that it had loaded before this Add.                       *)
(***************************************************************************)
BloomComplete ==
  Visible(row) =>
    \/ creator.pc \in {"inserted", "failed"}
    \/ \A s \in up : Knows(s) \/ filter[s] = "lost"

(***************************************************************************)
(* A new post is found: nil envelopes written for its id before its row or *)
(* its bit was there hide it for their TTL at most, and none follows, for  *)
(* as long as the post is not deleted, unless its Create has failed or its *)
(* bit is lost to a concurrent Add; then it is found after a restart.      *)
(***************************************************************************)
CreatedIsFound ==
  creator.pc \in {"inserted", "done", "died"} ~>
    \/ \E s \in up : filter[s] = "lost"
    \/ [](entry.kind = "nil" => ~Visible(row))

(***************************************************************************)
(* Self-healing: a deleted post ends up out of the cache and stays out.    *)
(* A flight that had read the row before can bring it back once; its entry *)
(* expires, and no later read finds the row.                               *)
(***************************************************************************)
DeletedStaysGone ==
  row.state = "deleted" ~> [](entry.kind # "post")
=============================================================================
