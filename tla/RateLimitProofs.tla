---------------------------- MODULE RateLimitProofs ----------------------------
(***************************************************************************)
(* Proofs about RateLimit, for any limits, any number of handlers and any  *)
(* clock: both limits bound what they let through, and what they refuse    *)
(* was refused for requests of its own minute.                             *)
(***************************************************************************)
EXTENDS RateLimit, FiniteSetTheorems, SequenceTheorems, TLAPS

\* Division with remainder.
LEMMA Division ==
  ASSUME NEW a \in Nat, NEW d \in Nat \ {0}
  PROVE  a \div d \in Nat /\ (a \div d) * d <= a /\ a < (a \div d) * d + d
  BY SMT

LEMMA DivisionMonotone ==
  ASSUME NEW a \in Nat, NEW b \in Nat, NEW d \in Nat \ {0}, a <= b
  PROVE  a \div d \in 0 .. b \div d
  BY SMT

LEMMA Limits == IPLimit \in Nat \ {0} /\ UserLimit \in Nat \ {0}
  BY RateLimitAssumption DEF IPLimit, UserLimit, Setting

LEMMA Numbers ==
  MaxTime \in Nat /\ MaxLate \in Nat /\ Minute \in Nat \ {0} /\ KeyTTL \in Nat
  /\ Minute + MaxLate <= KeyTTL /\ MaxLate < Minute
  BY RateLimitAssumption

-----------------------------------------------------------------------------
\* Handlers are late by MaxLate at most, and name the minute of their request.
OnTime ==
  \A r \in Handlers : call[r].pc # "idle" =>
    /\ call[r].at <= now /\ now <= call[r].at + MaxLate
    /\ call[r].pc \in {"incr", "expire"} => call[r].key = MinuteOf(call[r].at)

\* The time from which no request of minute m comes to its counter any more.
Over(m) == m * Minute + Minute + MaxLate

\* A key ends when its minute is over, and until then nobody is forgotten.
KeyBound ==
  \A m \in Minutes :
    /\ ends[m] >= Over(m)
    /\ through[m] <= IPLimit
    /\ now < Over(m) => through[m] <= count[m]

Pending(m) == {r \in Handlers : call[r].pc = "incr" /\ call[r].key = m}

\* Every INCR that was executed, or will be, is a request of the minute.
Earned == \A m \in Minutes : count[m] + Cardinality(Pending(m)) <= asked[m] + again

\* The set holds the tries that no later transaction found too old.
Survivors ==
  {i \in 1 .. Len(tries) :
     \A j \in i .. Len(tries) : tries[i].score >= tries[j].score - Minute}
InWindow ==
  /\ window = Survivors
  /\ \A i \in 1 .. Len(tries) : tries[i].score <= now

-----------------------------------------------------------------------------
LEMMA MinuteTypes ==
  /\ Minutes \subseteq Nat
  /\ \A t \in Times : MinuteOf(t) \in Minutes /\ t \div Minute \in Minutes
  /\ \A m \in Minutes : m * Minute \in Nat /\ m * Minute <= MaxTime
<1>1. MaxTime \in Nat /\ Minute \in Nat \ {0}
  BY RateLimitAssumption
<1>2. \A t \in Times : t \div Minute \in Minutes
  BY <1>1, DivisionMonotone DEF Times, Minutes
<1>3. MaxTime \div Minute \in Nat /\ (MaxTime \div Minute) * Minute <= MaxTime
  BY <1>1, Division
<1>4. ASSUME NEW m \in Minutes PROVE m * Minute \in Nat /\ m * Minute <= MaxTime
  <2>1. m \in Nat /\ m <= MaxTime \div Minute
    BY <1>3 DEF Minutes
  <2>2. m * Minute <= (MaxTime \div Minute) * Minute
    BY <1>1, <1>3, <2>1
  <2> QED  BY <1>1, <1>3, <2>1, <2>2
<1> QED  BY <1>2, <1>3, <1>4 DEF MinuteOf, Minutes

-----------------------------------------------------------------------------
\* Type correctness.
LEMMA TypeInit == Init => TypeOK
<1> SUFFICES ASSUME Init PROVE TypeOK
  OBVIOUS
<1>1. Never \in Nat /\ 0 \in Times
  BY Numbers DEF Never, Times
<1> QED  BY <1>1 DEF Init, TypeOK, Calls, Idle

LEMMA TypeStep == TypeOK /\ [Next]_vars => TypeOK'
<1> SUFFICES ASSUME TypeOK, [Next]_vars PROVE TypeOK'
  OBVIOUS
<1>1. CASE Tick
  <2>1. Never \in Nat
    BY Numbers DEF Never
  <2>2. now' \in Times
    BY <1>1, Numbers DEF Tick, TypeOK, Times
  <2>3. count' \in [Minutes -> Nat] /\ ends' \in [Minutes -> Nat]
    BY <1>1, <2>1 DEF Tick, TypeOK
  <2> QED  BY <1>1, <2>2, <2>3 DEF Tick, TypeOK, user
<1>2. ASSUME NEW r \in Handlers, Ask(r) PROVE TypeOK'
  <2>1. now \in Times /\ MinuteOf(now) \in Minutes /\ now \div Minute \in Minutes
    BY MinuteTypes DEF TypeOK
  <2>2. [pc |-> "incr", at |-> now, key |-> MinuteOf(now)] \in Calls
    BY <2>1 DEF Calls
  <2>3. call' \in [Handlers -> Calls]
    BY <1>2, <2>2 DEF Ask, Goes, TypeOK
  <2>4. asked' \in [Minutes -> Nat]
    BY <1>2, <2>1 DEF Ask, TypeOK
  <2> QED  BY <1>2, <2>3, <2>4 DEF Ask, TypeOK, user
<1>3. ASSUME NEW r \in Handlers, call[r].pc = "incr" \/ call[r].pc = "expire"
      PROVE  call[r].key \in Minutes /\ call[r] \in [pc : {"incr", "expire"}, at : Times, key : Minutes]
  BY <1>3 DEF TypeOK, Calls, Idle
<1>4. ASSUME NEW r \in Handlers, Passes(r) PROVE call' \in [Handlers -> Calls]
  BY <1>4 DEF Passes, Goes, TypeOK, Calls
<1>5. ASSUME NEW r \in Handlers, Incr(r) PROVE TypeOK'
  <2>1. [call[r] EXCEPT !.pc = "expire"] \in Calls
    BY <1>3, <1>5 DEF Incr, Calls
  <2>2. call' \in [Handlers -> Calls]
    BY <1>4, <1>5, <2>1 DEF Incr, Goes, TypeOK, Calls
  <2> QED  BY <1>3, <1>5, <2>2 DEF Incr, TypeOK, user
<1>6. ASSUME NEW r \in Handlers, IncrAgain(r) PROVE TypeOK'
  BY <1>3, <1>6 DEF IncrAgain, TypeOK, user
<1>7. ASSUME NEW r \in Handlers, IncrFails(r) PROVE TypeOK'
  <2>1. count' \in [Minutes -> Nat]
    <3>1. call[r].key \in Minutes
      BY <1>3, <1>7 DEF IncrFails
    <3>2. CASE count' = [count EXCEPT ![call[r].key] = @ + 1]
      BY <3>1, <3>2 DEF TypeOK
    <3> QED  BY <1>7, <3>2 DEF IncrFails, TypeOK
  <2>2. call' \in [Handlers -> Calls]
    BY <1>4, <1>7 DEF IncrFails
  <2> QED  BY <1>7, <2>1, <2>2 DEF IncrFails, TypeOK, user
<1>8. ASSUME NEW r \in Handlers, Expire(r) PROVE TypeOK'
  <2>1. now + KeyTTL \in Nat
    BY Numbers DEF TypeOK, Times
  <2>2. ends' \in [Minutes -> Nat]
    BY <1>3, <1>8, <2>1 DEF Expire, TypeOK
  <2>3. call' \in [Handlers -> Calls]
    BY <1>4, <1>8 DEF Expire
  <2> QED  BY <1>8, <2>2, <2>3 DEF Expire, TypeOK, user
<1>9. ASSUME NEW r \in Handlers, Exec(r) \/ ExecFails(r) PROVE TypeOK'
  <2>1. ASSUME NEW answer \in Answers, Try(r, Young(r), answer), call[r].pc = "exec"
        PROVE  /\ call' \in [Handlers -> Calls]
               /\ tries' \in Seq([score : Times, answer : Answers])
               /\ window' \subseteq 1 .. Len(tries')
    <3>1. call[r].at \in Times
      BY <2>1 DEF TypeOK, Calls, Idle
    <3>2. [score |-> call[r].at, answer |-> answer] \in [score : Times, answer : Answers]
      BY <3>1
    <3>3. tries' \in Seq([score : Times, answer : Answers]) /\ Len(tries') = Len(tries) + 1
      BY <2>1, <3>2 DEF Try, TypeOK
    <3>4. window' \subseteq 1 .. Len(tries')
      <4>1. window' \subseteq window \cup {Len(tries) + 1} /\ window \subseteq 1 .. Len(tries)
        BY <2>1 DEF Try, Young, TypeOK
      <4>2. Len(tries) \in Nat
        BY DEF TypeOK
      <4> QED  BY <3>3, <4>1, <4>2
    <3>5. call' \in [Handlers -> Calls]
      BY <2>1 DEF Try, Goes, TypeOK, Calls
    <3> QED  BY <3>3, <3>4, <3>5
  <2>2. \A n : Limited(n) \in Answers /\ "open" \in Answers
    BY DEF Limited, Answers
  <2>3. CASE Goes(r, Idle) /\ UNCHANGED user
    BY <1>9, <2>3 DEF Exec, ExecFails, Goes, TypeOK, Calls, user, ip
  <2>4. CASE /\ call[r].pc = "exec"
             /\ Try(r, Young(r), Limited(Cardinality(Young(r)) + 1)) \/ Try(r, Young(r), "open")
    BY <1>9, <2>1, <2>2, <2>4 DEF Exec, ExecFails, TypeOK, ip
  <2> QED  BY <1>9, <2>3, <2>4 DEF Exec, ExecFails
<1>10. CASE UNCHANGED vars
  BY <1>10 DEF vars, ip, user, TypeOK
<1> QED  BY <1>1, <1>2, <1>5, <1>6, <1>7, <1>8, <1>9, <1>10 DEF Next, Serve

-----------------------------------------------------------------------------
LEMMA OnTimeStep == TypeOK /\ OnTime /\ [Next]_vars => OnTime'
<1> SUFFICES ASSUME TypeOK, OnTime, [Next]_vars PROVE OnTime'
  OBVIOUS
<1>1. \A r \in Handlers : call[r].pc # "idle" => call[r].at \in Nat
  BY DEF TypeOK, Calls, Idle, Times
<1>2. CASE Tick
  <2>1. call' = call /\ now' = now + 1
    BY <1>2 DEF Tick
  <2>2. now \in Nat /\ MaxLate \in Nat
    BY Numbers DEF TypeOK, Times
  <2> SUFFICES ASSUME NEW r \in Handlers, call[r].pc # "idle"
               PROVE  call[r].at <= now + 1 /\ now + 1 <= call[r].at + MaxLate
    BY <2>1 DEF OnTime, MinuteOf
  <2>3. call[r].at <= now /\ call[r].at \in Nat
    BY <1>1 DEF OnTime
  <2>4. \A s \in Handlers : call[s].pc # "idle" => (now + 1) - call[s].at <= MaxLate
    BY <1>2, Zenon DEF Tick
  <2> QED  BY <2>2, <2>3, <2>4
<1>3. ASSUME NEW r \in Handlers, Serve(r) PROVE OnTime'
  <2>1. now' = now /\ \A s \in Handlers \ {r} : call'[s] = call[s]
    BY <1>3 DEF Serve, Ask, Incr, IncrAgain, IncrFails, Expire, Exec, ExecFails, Passes, Try,
                Goes, TypeOK, ip
  <2>2. \/ call'[r] = call[r]
        \/ call'[r] = Idle
        \/ call'[r] = [pc |-> "incr", at |-> now, key |-> MinuteOf(now)]
        \/ call'[r] = [pc |-> "exec", at |-> now]
        \/ call[r].pc = "incr" /\ call'[r] = [call[r] EXCEPT !.pc = "expire"]
    BY <1>3 DEF Serve, Ask, Incr, IncrAgain, IncrFails, Expire, Exec, ExecFails, Passes, Try,
                Goes, TypeOK
  <2>3. call[r].pc = "incr" => call[r] \in [pc : {"incr", "expire"}, at : Times, key : Minutes]
    BY DEF TypeOK, Calls, Idle
  <2>4. call'[r].pc # "idle" =>
           /\ call'[r].at <= now /\ now <= call'[r].at + MaxLate
           /\ call'[r].pc \in {"incr", "expire"} => call'[r].key = MinuteOf(call'[r].at)
    <3>1. now \in Nat
      BY DEF TypeOK, Times
    <3>2. CASE call[r].pc = "incr" /\ call'[r] = [call[r] EXCEPT !.pc = "expire"]
      <4>1. /\ call'[r].at = call[r].at /\ call'[r].key = call[r].key
            /\ call'[r].pc = "expire" /\ call[r].pc # "idle"
        BY <3>2, <2>3
      <4> QED  BY <3>2, <4>1 DEF OnTime
    <3>3. CASE call'[r] = call[r]
      BY <3>3 DEF OnTime
    <3>4. CASE call'[r] = Idle
      BY <3>4 DEF Idle
    <3>5. CASE \/ call'[r] = [pc |-> "incr", at |-> now, key |-> MinuteOf(now)]
               \/ call'[r] = [pc |-> "exec", at |-> now]
      BY <3>1, <3>5, Numbers
    <3> QED  BY <2>2, <3>2, <3>3, <3>4, <3>5
  <2>5. \A t : MinuteOf(t)' = MinuteOf(t)
    BY DEF MinuteOf
  <2> QED  BY <2>1, <2>4, <2>5 DEF OnTime
<1>4. CASE UNCHANGED vars
  BY <1>4 DEF OnTime, vars, MinuteOf
<1> QED  BY <1>2, <1>3, <1>4 DEF Next

\* While a request is on its way to a counter, its minute is not over.
LEMMA NotOver ==
  ASSUME TypeOK, OnTime, NEW r \in Handlers, call[r].pc \in {"incr", "expire"}
  PROVE  call[r].key \in Minutes /\ now < Over(call[r].key) /\ call[r].key * Minute <= now
<1>1. call[r].at \in Nat /\ call[r].key \in Minutes /\ now \in Nat
  BY Numbers DEF TypeOK, Calls, Idle, Times
<1>2. call[r].key = call[r].at \div Minute /\ now <= call[r].at + MaxLate /\ call[r].at <= now
  BY DEF OnTime, MinuteOf
<1>3. ASSUME NEW a \in Nat
      PROVE  (a \div Minute) * Minute <= a /\ a < (a \div Minute) * Minute + Minute
  BY Numbers, Division
<1>4. call[r].key * Minute \in Nat
  BY <1>1, MinuteTypes
<1> DEFINE start == call[r].key * Minute
<1>5. start <= call[r].at /\ call[r].at < start + Minute /\ start \in Nat
  BY <1>1, <1>2, <1>3, <1>4
<1>6. Minute \in Nat /\ MaxLate \in Nat
  BY Numbers
<1> HIDE DEF start
<1>7. now < start + Minute + MaxLate /\ start <= now
  BY <1>1, <1>2, <1>5, <1>6
<1> QED  BY <1>1, <1>7 DEF Over, start

-----------------------------------------------------------------------------
\* RateLimitIP.

LEMMA OverBounds ==
  ASSUME NEW m \in Minutes
  PROVE  Over(m) \in Nat /\ Over(m) <= m * Minute + KeyTTL /\ Over(m) <= Never
         /\ m * Minute \in Nat /\ KeyTTL \in Nat /\ Never \in Nat
<1> DEFINE start == m * Minute
<1>1. start \in Nat /\ start <= MaxTime
  BY MinuteTypes
<1> HIDE DEF start
<1>2. start + Minute + MaxLate \in Nat /\ start + Minute + MaxLate <= start + KeyTTL
      /\ start + Minute + MaxLate <= Never /\ Never \in Nat
  BY <1>1, Numbers DEF Never
<1> QED  BY <1>1, <1>2, Numbers DEF Over, start

LEMMA KeyBoundStep == TypeOK /\ OnTime /\ KeyBound /\ [Next]_vars => KeyBound'
<1> SUFFICES ASSUME TypeOK, OnTime, KeyBound, [Next]_vars, NEW m \in Minutes
             PROVE  /\ ends'[m] >= Over(m)
                    /\ through'[m] <= IPLimit
                    /\ now' < Over(m) => through'[m] <= count'[m]
  BY DEF KeyBound, Over, IPLimit, Setting
<1> DEFINE Goal == /\ ends'[m] >= Over(m)
                   /\ through'[m] <= IPLimit
                   /\ now' < Over(m) => through'[m] <= count'[m]
<1>1. /\ now \in Nat /\ Over(m) \in Nat /\ Never >= Over(m) /\ Never \in Nat
      /\ count[m] \in Nat /\ ends[m] \in Nat /\ through[m] \in Nat
  BY OverBounds DEF TypeOK, Times
<1>2. /\ ends[m] >= Over(m)
      /\ through[m] <= IPLimit
      /\ now < Over(m) => through[m] <= count[m]
  BY DEF KeyBound
<1>3. CASE Tick
  <2>1. /\ now' = now + 1 /\ through' = through
        /\ count'[m] = IF ends[m] <= now + 1 THEN 0 ELSE count[m]
        /\ ends'[m] = IF ends[m] <= now + 1 THEN Never ELSE ends[m]
    BY <1>3 DEF Tick
  <2> QED  BY <1>1, <1>2, <2>1
<1>4. ASSUME NEW r \in Handlers, Incr(r) PROVE Goal
  <2> DEFINE k == call[r].key
  <2>1. k \in Minutes /\ now < Over(k)
    BY <1>4, NotOver DEF Incr
  <2>2. /\ now' = now /\ ends' = ends
        /\ count' = [count EXCEPT ![k] = @ + 1]
        /\ \/ through' = through
           \/ count[k] + 1 <= IPLimit /\ through' = [through EXCEPT ![k] = @ + 1]
    BY <1>4 DEF Incr
  <2> HIDE DEF k
  <2>3. count'[m] = (IF m = k THEN count[m] + 1 ELSE count[m])
    BY <2>1, <2>2 DEF TypeOK
  <2>4. \/ through'[m] = through[m]
        \/ m = k /\ count[m] + 1 <= IPLimit /\ through'[m] = through[m] + 1
    BY <2>1, <2>2 DEF TypeOK
  <2> QED  BY <1>1, <1>2, <2>1, <2>2, <2>3, <2>4, Limits
<1>5. ASSUME NEW r \in Handlers, IncrAgain(r) \/ IncrFails(r) PROVE Goal
  <2> DEFINE k == call[r].key
  <2>1. k \in Minutes
    BY <1>5, NotOver DEF IncrAgain, IncrFails
  <2>2. /\ now' = now /\ ends' = ends /\ through' = through
        /\ count' = count \/ count' = [count EXCEPT ![k] = @ + 1]
    BY <1>5 DEF IncrAgain, IncrFails
  <2> HIDE DEF k
  <2>3. count'[m] = count[m] \/ count'[m] = count[m] + 1
    BY <2>1, <2>2 DEF TypeOK
  <2> QED  BY <1>1, <1>2, <2>2, <2>3
<1>6. ASSUME NEW r \in Handlers, Expire(r) PROVE Goal
  <2> DEFINE k == call[r].key
  <2>1. k \in Minutes /\ k * Minute <= now
    BY <1>6, NotOver DEF Expire
  <2>2. /\ now' = now /\ count' = count /\ through' = through
        /\ ends' = ends \/ ends' = [ends EXCEPT ![k] = now + KeyTTL]
    BY <1>6 DEF Expire
  <2> HIDE DEF k
  <2>3. Over(k) <= now + KeyTTL
    <3> DEFINE start == k * Minute
    <3>1. start \in Nat /\ start <= now /\ Over(k) \in Nat /\ Over(k) <= start + KeyTTL
          /\ KeyTTL \in Nat
      BY <2>1, OverBounds
    <3> HIDE DEF start
    <3> QED  BY <1>1, <3>1
  <2>4. ends'[m] = ends[m] \/ (m = k /\ ends'[m] = now + KeyTTL)
    BY <2>1, <2>2 DEF TypeOK
  <2> QED  BY <1>1, <1>2, <2>2, <2>3, <2>4, Numbers
<1>7. CASE UNCHANGED <<now, count, ends, through>>
  BY <1>2, <1>7
<1>8. ASSUME NEW r \in Handlers, Ask(r) \/ Exec(r) \/ ExecFails(r) PROVE Goal
  <2>1. UNCHANGED <<now, count, ends, through>>
    BY <1>8 DEF Ask, Exec, ExecFails, ip
  <2> QED  BY <2>1, <1>7
<1>9. CASE UNCHANGED vars
  BY <1>7, <1>9 DEF vars, ip
<1> QED  BY <1>3, <1>4, <1>5, <1>6, <1>8, <1>9 DEF Next, Serve

LEMMA PendingFinite == ASSUME NEW m PROVE IsFiniteSet(Pending(m)) /\ Cardinality(Pending(m)) \in Nat
  BY RateLimitAssumption, FS_Subset, FS_CardinalityType DEF Pending

LEMMA EarnedStep == TypeOK /\ Earned /\ [Next]_vars => Earned'
<1> SUFFICES ASSUME TypeOK, Earned, [Next]_vars, NEW m \in Minutes
             PROVE  count'[m] + Cardinality(Pending(m)') <= asked'[m] + again'
  BY DEF Earned
<1> DEFINE Goal == count'[m] + Cardinality(Pending(m)') <= asked'[m] + again'
<1>1. /\ count[m] \in Nat /\ asked[m] \in Nat /\ again \in Nat
      /\ Cardinality(Pending(m)) \in Nat
      /\ count[m] + Cardinality(Pending(m)) <= asked[m] + again
  BY PendingFinite DEF Earned, TypeOK
<1>2. CASE Tick
  <2>1. /\ count'[m] = IF ends[m] <= now + 1 THEN 0 ELSE count[m]
        /\ UNCHANGED <<asked, again, call>>
    BY <1>2 DEF Tick
  <2>2. Pending(m)' = Pending(m)
    BY <2>1 DEF Pending
  <2> QED  BY <1>1, <2>1, <2>2
<1>3. ASSUME NEW r \in Handlers, Ask(r) PROVE Goal
  <2> DEFINE k == MinuteOf(now)
  <2>1. k \in Minutes
    BY MinuteTypes DEF TypeOK
  <2>2. /\ count' = count /\ again' = again /\ asked' = [asked EXCEPT ![k] = @ + 1]
        /\ call[r].pc = "idle"
        /\ call' = [call EXCEPT ![r] = [pc |-> "incr", at |-> now, key |-> k]]
    BY <1>3 DEF Ask, Goes, MinuteOf
  <2> HIDE DEF k
  <2>3. asked'[m] = IF m = k THEN asked[m] + 1 ELSE asked[m]
    BY <2>1, <2>2 DEF TypeOK
  <2>4. r \notin Pending(m) /\ Pending(m)' = IF m = k THEN Pending(m) \cup {r} ELSE Pending(m)
    BY <2>2 DEF Pending, TypeOK
  <2>5. Cardinality(Pending(m) \cup {r}) = Cardinality(Pending(m)) + 1
    BY <2>4, PendingFinite, FS_AddElement
  <2> QED  BY <1>1, <2>2, <2>3, <2>4, <2>5
<1>4. ASSUME NEW r \in Handlers, Incr(r) \/ IncrFails(r) PROVE Goal
  <2> DEFINE k == call[r].key
  <2>1. k \in Minutes /\ call[r].pc = "incr"
    <3>1. call[r].pc = "incr" /\ call[r] \in Calls
      BY <1>4 DEF Incr, IncrFails, TypeOK
    <3> QED  BY <3>1 DEF Calls, Idle
  <2>2. /\ count' = count \/ count' = [count EXCEPT ![k] = @ + 1]
        /\ UNCHANGED <<asked, again>>
    BY <1>4 DEF Incr, IncrFails
  <2>3. call'[r].pc # "incr" /\ \A s \in Handlers \ {r} : call'[s] = call[s]
    <3>1. call[r] \in [pc : {"incr", "expire"}, at : Times, key : Minutes]
      BY <2>1 DEF TypeOK, Calls, Idle
    <3>2. [call[r] EXCEPT !.pc = "expire"].pc = "expire"
      BY <3>1
    <3>3. \/ Goes(r, [call[r] EXCEPT !.pc = "expire"])
          \/ Goes(r, [pc |-> "exec", at |-> now])
          \/ Goes(r, Idle)
      BY <1>4 DEF Incr, IncrFails, Passes
    <3>4. ASSUME NEW c, Goes(r, c), c.pc # "incr"
          PROVE  call'[r].pc # "incr" /\ \A s \in Handlers \ {r} : call'[s] = call[s]
      BY <3>4 DEF Goes, TypeOK
    <3> QED  BY <3>2, <3>3, <3>4 DEF Idle
  <2>4. r \in Pending(k)
    BY <2>1 DEF Pending
  <2>5. Pending(m)' = IF m = k THEN Pending(m) \ {r} ELSE Pending(m)
    BY <2>1, <2>3 DEF Pending
  <2> HIDE DEF k
  <2>6. count'[m] = count[m] \/ (m = k /\ count'[m] = count[m] + 1)
    BY <2>1, <2>2 DEF TypeOK
  <2>7. m = k => Cardinality(Pending(m) \ {r}) = Cardinality(Pending(m)) - 1
    BY <2>4, PendingFinite, FS_RemoveElement
  <2> QED  BY <1>1, <2>2, <2>5, <2>6, <2>7
<1>5. ASSUME NEW r \in Handlers, IncrAgain(r) PROVE Goal
  <2>1. /\ count' = [count EXCEPT ![call[r].key] = @ + 1] /\ asked' = asked
        /\ again' = again + 1 /\ call' = call
    BY <1>5 DEF IncrAgain
  <2>2. Pending(m)' = Pending(m)
    BY <2>1 DEF Pending
  <2>3. count'[m] = count[m] \/ count'[m] = count[m] + 1
    BY <2>1 DEF TypeOK
  <2> QED  BY <1>1, <2>1, <2>2, <2>3
<1>6. ASSUME NEW r \in Handlers, Expire(r) \/ Exec(r) \/ ExecFails(r) PROVE Goal
  <2>1. UNCHANGED <<count, asked, again>> /\ call[r].pc # "incr"
    BY <1>6 DEF Expire, Exec, ExecFails, ip
  <2>2. call'[r].pc # "incr" /\ \A s \in Handlers \ {r} : call'[s] = call[s]
    BY <1>6 DEF Expire, Exec, ExecFails, Try, Passes, Goes, TypeOK, Idle
  <2>3. Pending(m)' = Pending(m)
    BY <2>1, <2>2 DEF Pending
  <2> QED  BY <1>1, <2>1, <2>3
<1>7. CASE UNCHANGED vars
  BY <1>1, <1>7 DEF vars, ip, Pending
<1> QED  BY <1>2, <1>3, <1>4, <1>5, <1>6, <1>7 DEF Next, Serve

-----------------------------------------------------------------------------
\* RateLimitUser.

\* What a transaction does to the tries and the set.
Tried(r, answer) ==
  /\ call[r].pc = "exec" /\ call[r].at \in Times /\ now' = now
  /\ Try(r, Young(r), answer)

LEMMA Transactions ==
  ASSUME TypeOK, [Next]_vars
  PROVE  \/ UNCHANGED <<window, tries>> /\ now' \in Nat /\ now <= now'
         \/ \E r \in Handlers :
              \/ Tried(r, Limited(Cardinality(Young(r)) + 1))
              \/ Tried(r, "open")
<1>1. now \in Nat
  BY Numbers DEF TypeOK, Times
<1>2. CASE Tick
  BY <1>1, <1>2 DEF Tick, user
<1>3. ASSUME NEW r \in Handlers, Exec(r) \/ ExecFails(r)
      PROVE  \/ UNCHANGED <<window, tries>> /\ now' = now
             \/ Tried(r, Limited(Cardinality(Young(r)) + 1))
             \/ Tried(r, "open")
  <2>1. call[r].pc = "exec" /\ call[r].at \in Times
    BY <1>3 DEF Exec, ExecFails, TypeOK, Calls, Idle
  <2> QED  BY <1>3, <2>1 DEF Exec, ExecFails, Tried, user, ip
<1>4. ASSUME NEW r \in Handlers,
             Ask(r) \/ Incr(r) \/ IncrAgain(r) \/ IncrFails(r) \/ Expire(r)
      PROVE  UNCHANGED <<window, tries>> /\ now' = now
  BY <1>4 DEF Ask, Incr, IncrAgain, IncrFails, Expire, user
<1>5. CASE UNCHANGED vars
  BY <1>1, <1>5 DEF vars, user
<1> QED  BY <1>1, <1>2, <1>3, <1>4, <1>5 DEF Next, Serve

\* Every try has a time.
LEMMA TryScores == TypeOK => \A i \in 1 .. Len(tries) : tries[i].score \in Times
<1> SUFFICES ASSUME TypeOK, NEW i \in 1 .. Len(tries) PROVE tries[i].score \in Times
  OBVIOUS
<1>1. tries[i] \in [score : Times, answer : Answers]
  BY ElementOfSeq DEF TypeOK
<1> QED  BY <1>1

\* One more try, at the end.
LEMMA OneMoreTry ==
  ASSUME TypeOK, NEW r \in Handlers, NEW answer, Tried(r, answer)
  PROVE  /\ Len(tries) \in Nat /\ Len(tries') = Len(tries) + 1
         /\ \A i \in 1 .. Len(tries) : tries'[i] = tries[i] /\ tries[i].score \in Times
         /\ tries'[Len(tries) + 1] = [score |-> call[r].at, answer |-> answer]
         /\ window' = Young(r) \cup {Len(tries) + 1}
<1>1. tries \in Seq([score : Times, answer : Answers])
  BY DEF TypeOK
<1>2. /\ tries' = Append(tries, [score |-> call[r].at, answer |-> answer])
      /\ window' = Young(r) \cup {Len(tries) + 1}
  BY DEF Tried, Try
<1>3. \A i \in 1 .. Len(tries) : tries[i].score \in Times
  BY TryScores
<1> QED  BY <1>1, <1>2, <1>3

LEMMA InWindowStep == TypeOK /\ OnTime /\ InWindow /\ [Next]_vars => InWindow'
<1> SUFFICES ASSUME TypeOK, OnTime, InWindow, [Next]_vars PROVE InWindow'
  OBVIOUS
<1> DEFINE n == Len(tries)
<1>1. n \in Nat /\ now \in Nat
  BY Numbers DEF TypeOK, Times
<1>2. CASE UNCHANGED <<window, tries>> /\ now' \in Nat /\ now <= now'
  <2>1. \A i \in 1 .. n : tries[i].score \in Nat /\ tries[i].score <= now
    BY TryScores DEF Times, InWindow
  <2>2. Survivors' = Survivors
    BY <1>2 DEF Survivors
  <2>3. \A i \in 1 .. n : tries[i].score <= now'
    BY <1>1, <1>2, <2>1
  <2> QED  BY <1>2, <2>2, <2>3 DEF InWindow
<1>3. ASSUME NEW r \in Handlers, NEW answer, Tried(r, answer) PROVE InWindow'
  <2> DEFINE at == call[r].at
  <2>1. /\ Len(tries') = n + 1
        /\ \A i \in 1 .. n : tries'[i] = tries[i] /\ tries[i].score \in Nat
        /\ tries'[n + 1] = [score |-> at, answer |-> answer]
        /\ window' = Young(r) \cup {n + 1}
        /\ tries'[n + 1].score = at
    BY <1>3, OneMoreTry DEF Times
  <2>2. at \in Nat /\ at <= now /\ now' = now /\ Minute \in Nat
    BY <1>3, Numbers DEF Tried, OnTime, Times
  <2>3. \A i \in 1 .. n + 1 : tries'[i].score <= now'
    BY <1>1, <2>1, <2>2 DEF InWindow
  <2>4. Young(r) = {i \in 1 .. n :
          (\A j \in i .. n : tries[i].score >= tries[j].score - Minute)
          /\ tries[i].score >= at - Minute}
    BY DEF InWindow, Survivors, Young
  <2>5. ASSUME NEW i \in 1 .. n
        PROVE  (\A j \in i .. n + 1 : tries'[i].score >= tries'[j].score - Minute)
               <=> i \in Young(r)
    <3> HIDE DEF n, at
    <3>1. \A j \in i .. n + 1 : j \in i .. n \/ j = n + 1
      BY <1>1
    <3>2. \A j \in i .. n : j \in 1 .. n /\ j \in i .. n + 1
      BY <1>1
    <3>3. n + 1 \in i .. n + 1
      BY <1>1
    <3> QED  BY <2>1, <2>4, <3>1, <3>2, <3>3
  <2>6. \A j \in n + 1 .. n + 1 : tries'[n + 1].score >= tries'[j].score - Minute
    BY <1>1, <2>1, <2>2
  <2>7. Survivors' = Young(r) \cup {n + 1}
    <3>1. Survivors' = {i \in 1 .. n + 1 :
            \A j \in i .. n + 1 : tries'[i].score >= tries'[j].score - Minute}
      BY <2>1 DEF Survivors
    <3>2. \A i : i \in 1 .. n + 1 <=> i \in 1 .. n \/ i = n + 1
      BY <1>1
    <3>3. Young(r) \subseteq 1 .. n
      BY <2>4
    <3> HIDE DEF n
    <3> QED  BY <2>5, <2>6, <3>1, <3>2, <3>3
  <2> QED  BY <2>1, <2>3, <2>7 DEF InWindow
<1> QED  BY <1>2, <1>3, Transactions

\* The set a transaction leaves behind, as it counts it.
LEMMA YoungFacts ==
  ASSUME TypeOK, OnTime, InWindow, NEW r \in Handlers, call[r].pc = "exec"
  PROVE  /\ IsFiniteSet(Young(r)) /\ Cardinality(Young(r)) \in Nat
         /\ Young(r) \subseteq 1 .. Len(tries)
         /\ call[r].at \in Nat
         /\ \A i \in Young(r) : tries[i].score - call[r].at \in -Minute .. Minute
<1>1. Young(r) \subseteq 1 .. Len(tries)
  BY DEF TypeOK, Young
<1>2. IsFiniteSet(Young(r)) /\ Cardinality(Young(r)) \in Nat
  <2>1. IsFiniteSet(1 .. Len(tries))
    BY FS_Interval DEF TypeOK
  <2>2. IsFiniteSet(Young(r))
    BY <1>1, <2>1, FS_Subset
  <2> QED  BY <2>2, FS_CardinalityType
<1>3. call[r].at \in Nat /\ now \in Nat /\ now <= call[r].at + MaxLate
  BY Numbers DEF OnTime, TypeOK, Calls, Idle, Times
<1>4. ASSUME NEW i \in Young(r) PROVE tries[i].score - call[r].at \in -Minute .. Minute
  <2>1. tries[i].score \in Nat /\ tries[i].score <= now
    BY <1>1, TryScores DEF InWindow, Times
  <2>2. tries[i].score >= call[r].at - Minute
    BY DEF Young
  <2>3. Minute \in Nat /\ MaxLate \in Nat /\ MaxLate < Minute
    BY Numbers
  <2> QED  BY <1>3, <2>1, <2>2, <2>3
<1> QED  BY <1>1, <1>2, <1>3, <1>4

Cause(i) == {j \in 1 .. i - 1 : tries[j].score - tries[i].score \in -Minute .. Minute}

LEMMA RefusedStep ==
  TypeOK /\ OnTime /\ InWindow /\ RefusedForCause /\ [Next]_vars => RefusedForCause'
<1> SUFFICES ASSUME TypeOK, OnTime, InWindow, RefusedForCause, [Next]_vars
             PROVE  RefusedForCause'
  OBVIOUS
<1> DEFINE n == Len(tries)
<1>1. CASE UNCHANGED tries
  BY <1>1 DEF RefusedForCause
<1>2. ASSUME NEW r \in Handlers, NEW answer, Tried(r, answer),
             answer = Limited(Cardinality(Young(r)) + 1) \/ answer = "open"
      PROVE  RefusedForCause'
  <2> SUFFICES ASSUME NEW i \in 1 .. n + 1, tries'[i].answer = "refused"
               PROVE  Cardinality(Cause(i)') >= UserLimit
    BY <1>2, OneMoreTry DEF RefusedForCause, Cause, UserLimit, Setting
  <2>1. /\ n \in Nat
        /\ \A j \in 1 .. n : tries'[j] = tries[j]
        /\ tries'[n + 1] = [score |-> call[r].at, answer |-> answer]
    BY <1>2, OneMoreTry
  <2>2. CASE i \in 1 .. n
    <3>1. Cause(i)' = Cause(i)
      BY <2>1, <2>2 DEF Cause
    <3> QED  BY <2>1, <2>2, <3>1 DEF RefusedForCause, Cause
  <2>3. CASE i = n + 1
    <3>1. call[r].pc = "exec"
      BY <1>2 DEF Tried
    <3>2. Cardinality(Young(r)) + 1 > UserLimit
      BY <1>2, <2>1, <2>3 DEF Limited
    <3>3. Young(r) \subseteq Cause(i)'
      <4> SUFFICES ASSUME NEW j \in Young(r) PROVE j \in Cause(i)'
        OBVIOUS
      <4>1. j \in 1 .. i - 1 /\ tries'[j] = tries[j] /\ tries'[i].score = call[r].at
        BY <2>1, <2>3, <3>1, YoungFacts
      <4> QED  BY <3>1, <4>1, YoungFacts DEF Cause
    <3>4. IsFiniteSet(Cause(i)') /\ Cardinality(Cause(i)') \in Nat
      <4>1. Cause(i)' \subseteq 1 .. n
        BY <2>1, <2>3 DEF Cause
      <4>2. IsFiniteSet(1 .. n)
        BY <2>1, FS_Interval
      <4>3. IsFiniteSet(Cause(i)')
        BY <4>1, <4>2, FS_Subset
      <4> QED  BY <4>3, FS_CardinalityType
    <3>5. Cardinality(Young(r)) <= Cardinality(Cause(i)')
      BY <3>3, <3>4, FS_Subset
    <3> QED  BY <3>1, <3>2, <3>4, <3>5, YoungFacts, Limits
  <2> QED  BY <2>1, <2>2, <2>3
<1> QED  BY <1>1, <1>2, Transactions

\* The last of the writes that passed by a moment had all the others in its set.
LEMMA SlidingStep ==
  TypeOK /\ OnTime /\ InWindow /\ SlidingBound /\ [Next]_vars => SlidingBound'
<1> SUFFICES ASSUME TypeOK, OnTime, InWindow, SlidingBound, [Next]_vars, NEW t \in Times
             PROVE  Cardinality(PassedBy(t)') <= UserLimit
  BY DEF SlidingBound, Times, UserLimit, Setting
<1> DEFINE n == Len(tries)
<1>1. Cardinality(PassedBy(t)) <= UserLimit
  BY DEF SlidingBound
<1>2. CASE UNCHANGED tries
  BY <1>1, <1>2 DEF PassedBy
<1>3. ASSUME NEW r \in Handlers, NEW answer, Tried(r, answer),
             answer = Limited(Cardinality(Young(r)) + 1) \/ answer = "open"
      PROVE  Cardinality(PassedBy(t)') <= UserLimit
  <2>1. /\ n \in Nat /\ Len(tries') = n + 1
        /\ \A j \in 1 .. n : tries'[j] = tries[j]
        /\ tries'[n + 1] = [score |-> call[r].at, answer |-> answer]
        /\ call[r].pc = "exec"
    BY <1>3, OneMoreTry DEF Tried
  <2>2. \A i \in 1 .. n : i \in PassedBy(t)' <=> i \in PassedBy(t)
    BY <2>1 DEF PassedBy
  <2>3. PassedBy(t) \subseteq 1 .. n /\ PassedBy(t)' \subseteq 1 .. n + 1
    BY <2>1 DEF PassedBy
  <2>4. CASE n + 1 \notin PassedBy(t)'
    <3>1. PassedBy(t)' = PassedBy(t)
      <4>1. \A i \in 1 .. n + 1 : i \in 1 .. n \/ i = n + 1
        BY <2>1
      <4> HIDE DEF n
      <4> QED  BY <4>1, <2>2, <2>3, <2>4
    <3> QED  BY <1>1, <3>1
  <2>5. CASE n + 1 \in PassedBy(t)'
    <3>1. /\ answer = "passed" /\ call[r].at \in t - Minute .. t
          /\ \A j \in 1 .. n : tries[j].score <= t
      BY <2>1, <2>5 DEF PassedBy
    <3>2. Cardinality(Young(r)) + 1 <= UserLimit /\ Cardinality(Young(r)) \in Nat
      BY <1>3, <2>1, <3>1, YoungFacts, Limits DEF Limited
    <3>3. ASSUME NEW i \in 1 .. n, i \in PassedBy(t)' PROVE i \in Young(r)
      <4>1. tries[i].score >= t - Minute /\ tries[i].score \in Nat
        BY <2>1, <2>2, <3>3, TryScores DEF PassedBy, Times
      <4>2. \A j \in i .. n : tries[j].score <= t /\ tries[j].score \in Nat
        BY <2>1, <3>1, TryScores DEF Times
      <4>3. t \in Nat /\ Minute \in Nat /\ call[r].at \in Nat
        BY <2>1, Numbers, YoungFacts DEF Times
      <4>4. \A j \in i .. n : tries[i].score >= tries[j].score - Minute
        BY <4>1, <4>2, <4>3
      <4>5. tries[i].score >= call[r].at - Minute
        BY <3>1, <4>1, <4>3
      <4> QED  BY <4>4, <4>5 DEF InWindow, Survivors, Young
    <3>4. PassedBy(t)' \subseteq Young(r) \cup {n + 1}
      BY <2>1, <2>3, <3>3
    <3>5. /\ IsFiniteSet(Young(r) \cup {n + 1})
          /\ Cardinality(Young(r) \cup {n + 1}) = Cardinality(Young(r)) + 1
      <4>1. n + 1 \notin Young(r)
        BY <2>1, YoungFacts
      <4> QED  BY <2>1, <4>1, YoungFacts, FS_AddElement
    <3>6. /\ Cardinality(PassedBy(t)') <= Cardinality(Young(r)) + 1
          /\ Cardinality(PassedBy(t)') \in Nat
      BY <3>4, <3>5, FS_Subset, FS_CardinalityType
    <3> QED  BY <3>2, <3>6, Limits
  <2> QED  BY <2>4, <2>5
<1> QED  BY <1>2, <1>3, Transactions

-----------------------------------------------------------------------------
Inv ==
  /\ TypeOK /\ OnTime
  /\ KeyBound /\ Earned
  /\ InWindow /\ RefusedForCause /\ SlidingBound

LEMMA InitInv == Init => Inv
<1> SUFFICES ASSUME Init PROVE Inv
  OBVIOUS
<1>1. TypeOK
  BY TypeInit
<1>2. OnTime /\ InWindow /\ RefusedForCause
  BY DEF Init, OnTime, Idle, InWindow, Survivors, RefusedForCause
<1>3. KeyBound
  BY Limits, OverBounds DEF Init, KeyBound
<1>4. Earned
  <2>1. \A m : Pending(m) = {}
    BY DEF Init, Pending, Idle
  <2>2. \A m : Cardinality(Pending(m)) = 0
    BY <2>1, FS_EmptySet
  <2> QED  BY <2>2 DEF Init, Earned
<1>5. SlidingBound
  <2>1. \A t : PassedBy(t) = {}
    BY DEF Init, PassedBy
  <2> QED  BY <2>1, FS_EmptySet, Limits DEF SlidingBound
<1> QED  BY <1>1, <1>2, <1>3, <1>4, <1>5 DEF Inv

LEMMA InductiveInv == Spec => []Inv
<1>1. Inv /\ [Next]_vars => Inv'
  BY TypeStep, OnTimeStep, KeyBoundStep, EarnedStep, InWindowStep, RefusedStep, SlidingStep
     DEF Inv
<1> QED  BY <1>1, InitInv, PTL DEF Spec

\* Type correctness of the two middlewares.
THEOREM RateLimitType == Spec => []TypeOK
<1>1. Inv => TypeOK
  BY DEF Inv
<1> QED  BY <1>1, InductiveInv, PTL

\* RateLimitIP lets no more requests of a minute pass by its counter than the limit.
THEOREM RateLimitMinute == Spec => []MinuteBound
<1>1. Inv => MinuteBound
  BY DEF Inv, KeyBound, MinuteBound
<1> QED  BY <1>1, InductiveInv, PTL

\* The counter of RateLimitIP holds requests of its minute and repeated INCRs.
THEOREM RateLimitEarned == Spec => []CountIsEarned
<1>1. Inv => CountIsEarned
  <2> SUFFICES ASSUME Inv, NEW m \in Minutes PROVE count[m] <= asked[m] + again
    BY DEF CountIsEarned
  <2>1. /\ count[m] \in Nat /\ asked[m] \in Nat /\ again \in Nat
        /\ count[m] + Cardinality(Pending(m)) <= asked[m] + again
    BY DEF Inv, Earned, TypeOK
  <2>2. Cardinality(Pending(m)) \in Nat
    BY PendingFinite
  <2> QED  BY <2>1, <2>2
<1> QED  BY <1>1, InductiveInv, PTL

\* RateLimitUser bounds the writes of every minute, wherever it begins.
THEOREM RateLimitSliding == Spec => []SlidingBound
<1>1. Inv => SlidingBound
  BY DEF Inv
<1> QED  BY <1>1, InductiveInv, PTL

\* RateLimitUser refuses for the tries of one minute and for nothing older.
THEOREM RateLimitRefused == Spec => []RefusedForCause
<1>1. Inv => RefusedForCause
  BY DEF Inv
<1> QED  BY <1>1, InductiveInv, PTL
=============================================================================
