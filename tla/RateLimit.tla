------------------------------- MODULE RateLimit -------------------------------
(***************************************************************************)
(* The way of a request through the router: the counter of its IP and      *)
(* minute, authentication, and for writes the sliding window of the user.  *)
(* One IP and one user; other keys of Redis are independent.  Time is      *)
(* counted in ticks, Minute of them to the minute.  Both layers let a      *)
(* request pass when Redis does not answer.                                *)
(***************************************************************************)
EXTENDS Integers, Sequences, FiniteSets
LOCAL INSTANCE FiniteSetsExt

CONSTANTS
  Handlers,                        \* goroutines that serve requests
  RateIPPerMin, RateUserPerMin,    \* of config.yaml, 0 when they are missing
  DefaultIP, DefaultUser,
  Minute,
  KeyTTL,         \* 90 seconds
  MaxLate,        \* bound: how long a request takes from a clock to Redis
  MaxTime,        \* bound on the clock
  MaxAsked,       \* bound on the requests
  MaxAgain        \* bound on repeated commands

\* config.Load takes over what is positive; so a 0 does not turn a limit off.
Setting(yaml, default) == IF yaml > 0 THEN yaml ELSE default
IPLimit == Setting(RateIPPerMin, DefaultIP)
UserLimit == Setting(RateUserPerMin, DefaultUser)

ASSUME RateLimitAssumption ==
  /\ {RateIPPerMin, RateUserPerMin, MaxTime, MaxAsked, MaxAgain, MaxLate} \subseteq Nat
  /\ {DefaultIP, DefaultUser, Minute, KeyTTL} \subseteq Nat \ {0}
  /\ Minute + MaxLate <= KeyTTL /\ MaxLate < Minute
  /\ IsFiniteSet(Handlers)

VARIABLES
  now,
  count,          \* Redis: rl:ip:<minute>, 0 when there is no key
  ends,           \* Redis: when each of these keys expires
  window,         \* Redis: members of rl:user, indices of tries
  call,           \* where each handler is
  asked,          \* history: requests stamped with each minute
  again,          \* history: INCRs that were repeated for a lost answer
  through,        \* history: requests each minute's counter let through
  tries           \* history: writes in the order their ZADD was executed

ip == <<count, ends, asked, again, through>>
user == <<window, tries>>
vars == <<now, ip, user, call>>

\* Mutant: one counter for all time.
NoMinute(t) == 0

MinuteOf(t) == t \div Minute
Minutes == 0 .. MaxTime \div Minute
Never == MaxTime + KeyTTL + 1

Idle == [pc |-> "idle"]
Goes(r, c) == call' = [call EXCEPT ![r] = c]

Init ==
  /\ now = 0
  /\ count = [m \in Minutes |-> 0] /\ ends = [m \in Minutes |-> Never]
  /\ window = {}
  /\ call = [r \in Handlers |-> Idle]
  /\ asked = [m \in Minutes |-> 0] /\ again = 0
  /\ through = [m \in Minutes |-> 0]
  /\ tries = <<>>

-----------------------------------------------------------------------------
(* RateLimitIP, for every route. *)

Requests == LET n(m) == asked[m] IN MapThenSumSet(n, Minutes)

Ask(r) ==
  /\ call[r].pc = "idle"
  /\ Requests < MaxAsked
  /\ Goes(r, [pc |-> "incr", at |-> now, key |-> MinuteOf(now)])
  /\ asked' = [asked EXCEPT ![now \div Minute] = @ + 1]
  /\ UNCHANGED <<now, count, ends, again, through, user>>

\* A route of authedWrite and a good token: on to RateLimitUser, which stamps
\* the write.  Other routes are served, and GinAuth's refusals keep no state.
Passes(r) ==
  \/ Goes(r, [pc |-> "exec", at |-> now])
  \/ Goes(r, Idle)

\* INCR is executed; the first one is followed by EXPIRE.
Incr(r) ==
  LET m == call[r].key
      n == count[m] + 1
  IN /\ call[r].pc = "incr"
     /\ count' = [count EXCEPT ![m] = n]
     /\ IF n <= IPLimit
          THEN /\ through' = [through EXCEPT ![m] = @ + 1]
               /\ IF n = 1 THEN Goes(r, [call[r] EXCEPT !.pc = "expire"]) ELSE Passes(r)
          ELSE through' = through /\ Goes(r, Idle)
     /\ UNCHANGED <<now, ends, asked, again, user>>

\* The answer is lost, and the client sends the command again.
IncrAgain(r) ==
  /\ call[r].pc = "incr"
  /\ again < MaxAgain
  /\ count' = [count EXCEPT ![call[r].key] = @ + 1]
  /\ again' = again + 1
  /\ UNCHANGED <<now, ends, asked, through, user, call>>

\* Redis does not answer: the request passes, executed or not.
IncrFails(r) ==
  /\ call[r].pc = "incr"
  /\ count' \in {count, [count EXCEPT ![call[r].key] = @ + 1]}
  /\ Passes(r)
  /\ UNCHANGED <<now, ends, asked, again, through, user>>

\* Mutant: the key lives half a minute.
ExpireEarly(r) ==
  /\ call[r].pc = "expire"
  /\ ends' = [ends EXCEPT ![call[r].key] = now + Minute \div 2]
  /\ Passes(r)
  /\ UNCHANGED <<now, count, asked, again, through, user>>

\* Its error is ignored.
Expire(r) ==
  /\ call[r].pc = "expire"
  /\ ends' \in {ends, [ends EXCEPT ![call[r].key] = now + KeyTTL]}
  /\ Passes(r)
  /\ UNCHANGED <<now, count, asked, again, through, user>>

-----------------------------------------------------------------------------
(* RateLimitUser.  Its EXPIRE, of two minutes from the last ZADD, only ends  *)
(* sets that the next transaction would empty.                               *)

Answers == {"passed", "refused", "open"}
Try(r, rest, answer) ==
  /\ window' = rest \cup {Len(tries) + 1}
  /\ tries' = Append(tries, [score |-> call[r].at, answer |-> answer])
  /\ Goes(r, Idle)

Young(r) == {i \in window : tries[i].score >= call[r].at - Minute}
Limited(n) == IF n > UserLimit THEN "refused" ELSE "passed"

\* Mutant: nothing is removed from the window.
ExecAll(r) ==
  /\ call[r].pc = "exec"
  /\ Try(r, window, Limited(Cardinality(window) + 1))
  /\ UNCHANGED <<now, ip>>

\* Mutant: the members are counted before the new one is added.
ExecCountFirst(r) ==
  /\ call[r].pc = "exec"
  /\ Try(r, Young(r), Limited(Cardinality(Young(r))))
  /\ UNCHANGED <<now, ip>>

\* One transaction: remove what is out of the window, add, count, expire.
Exec(r) ==
  /\ call[r].pc = "exec"
  /\ Try(r, Young(r), Limited(Cardinality(Young(r)) + 1))
  /\ UNCHANGED <<now, ip>>

\* An error, before the transaction or after it: the request passes.  A client
\* that repeats the transaction adds the same member.
ExecFails(r) ==
  /\ call[r].pc = "exec"
  /\ \/ Try(r, Young(r), "open")
     \/ Goes(r, Idle) /\ UNCHANGED user
  /\ UNCHANGED <<now, ip>>

-----------------------------------------------------------------------------
Tick ==
  LET t == now + 1 IN
  /\ now < MaxTime
  /\ \A r \in Handlers : call[r].pc # "idle" => t - call[r].at <= MaxLate
  /\ now' = t
  /\ count' = [m \in Minutes |-> IF ends[m] <= t THEN 0 ELSE count[m]]
  /\ ends' = [m \in Minutes |-> IF ends[m] <= t THEN Never ELSE ends[m]]
  /\ UNCHANGED <<asked, again, through, user, call>>

Serve(r) ==
  \/ Ask(r)
  \/ Incr(r) \/ IncrAgain(r) \/ IncrFails(r) \/ Expire(r)
  \/ Exec(r) \/ ExecFails(r)

Next == Tick \/ \E r \in Handlers : Serve(r)

Spec == Init /\ [][Next]_vars

-----------------------------------------------------------------------------
Times == 0 .. MaxTime
Calls ==
  {Idle} \cup [pc : {"incr", "expire"}, at : Times, key : Minutes]
         \cup [pc : {"exec"}, at : Times]

TypeOK ==
  /\ now \in Times
  /\ count \in [Minutes -> Nat] /\ ends \in [Minutes -> Nat]
  /\ asked \in [Minutes -> Nat] /\ through \in [Minutes -> Nat]
  /\ window \subseteq 1 .. Len(tries)
  /\ again \in Nat
  /\ tries \in Seq([score : Times, answer : Answers])
  /\ call \in [Handlers -> Calls]

(***************************************************************************)
(* No more than IPLimit requests of a minute pass the counter: its key     *)
(* outlives its minute by more than the slowest request needs, wherever    *)
(* the minute's first request fell and whether or not EXPIRE was lost.     *)
(***************************************************************************)
MinuteBound == \A m \in Minutes : through[m] <= IPLimit

(***************************************************************************)
(* An IP is not made to pay for another minute, or twice: what its counter *)
(* holds are requests of that minute, but for the INCRs that the client    *)
(* repeated.                                                               *)
(***************************************************************************)
CountIsEarned == \A m \in Minutes : count[m] <= asked[m] + again

(***************************************************************************)
(* At most UserLimit writes pass in any minute up to any moment.  It does  *)
(* not count a write whose transaction was overtaken by one with a stamp   *)
(* after that moment, which has removed older ones from the set already.   *)
(***************************************************************************)
PassedBy(t) ==
  {i \in 1 .. Len(tries) :
     /\ tries[i].answer = "passed"
     /\ tries[i].score \in t - Minute .. t
     /\ \A j \in 1 .. i - 1 : tries[j].score <= t}
SlidingBound == \A t \in Times : Cardinality(PassedBy(t)) <= UserLimit

(***************************************************************************)
(* A write is refused for what the user tried within a minute of it, and   *)
(* for nothing older: who waits a minute is let through.  The tries that   *)
(* count are all of them, the refused ones as well.                        *)
(***************************************************************************)
RefusedForCause ==
  \A i \in 1 .. Len(tries) : tries[i].answer = "refused" =>
    Cardinality({j \in 1 .. i - 1 : tries[j].score - tries[i].score \in -Minute .. Minute})
      >= UserLimit
=============================================================================
