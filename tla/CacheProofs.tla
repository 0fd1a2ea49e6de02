------------------------------ MODULE CacheProofs ------------------------------
(***************************************************************************)
(* The detail cache of posts, and the Bloom filter that stands before it,  *)
(* for any number of processes, goroutines and keys.                       *)
(***************************************************************************)
EXTENDS PostCache, Bloom, TLAPS

-----------------------------------------------------------------------------
(***************************************************************************)
(* The cache-aside guarantee for any number of API processes, readers and  *)
(* deleters and any bounds: OnlyOvertakenFills is an invariant of          *)
(* PostCache.                                                              *)
(*                                                                         *)
(* A write of the row leaves its writer's DEL to come; a DEL that succeeds *)
(* leaves no entry; and a fill that does not show the row records that its *)
(* reader was overtaken.  The rest of the state does not matter, so very   *)
(* little of the type invariant is needed.                                 *)
(***************************************************************************)

TypeInv ==
  /\ lost \in Nat
  /\ deleter \in [Deleters -> {"idle", "checked", "dirty", "done"}]

\* Before Create there is no row, and nobody deletes it.
Uncreated ==
  creator.pc = "idle" => row = Missing /\ \A d \in Deleters : deleter[d] = "idle"

IInv == TypeInv /\ Uncreated /\ OnlyOvertakenFills

\* What the invariant looks at, apart from the bound.
seen == <<row, entry, deleter, counter, lost, creator>>

LEMMA UnseenSteps ==
  ASSUME \/ \E g \in Readers : StartGet(g) \/ LookUp(g) \/ TestBloom(g) \/ Do(g)
         \/ \E s \in Servers : \/ FlightQuery(s) \/ FlightShare(s) \/ FlightFails(s)
                               \/ Boot(s) \/ LoseBit(s)
         \/ UNCHANGED vars
  PROVE  UNCHANGED seen
BY DEF StartGet, LookUp, TestBloom, Do, FlightQuery, FlightShare, FlightFails, Land,
       Boot, LoseBit, vars, seen

LEMMA StepKeepsIInv == IInv /\ [Next]_vars => IInv'
<1> SUFFICES ASSUME IInv, [Next]_vars PROVE IInv'
  OBVIOUS
<1> USE DEF IInv, TypeInv, Uncreated, OnlyOvertakenFills, Outdated, InvalidationPending, Visible
<1>1. CASE UNCHANGED seen
  BY <1>1 DEF seen
<1>11. ASSUME NEW s \in Servers, Crash(s) PROVE IInv'
  BY <1>11 DEF Crash
<1>12. CASE AddBloom
  BY <1>12 DEF AddBloom
\* Entries that are not posts are not outdated.
<1>2. ASSUME NEW g \in Readers, SetNil(g) PROVE IInv'
  BY <1>2 DEF SetNil, SetJSON, Nil
<1>3. CASE Expire
  BY <1>3 DEF Expire, Absent
\* A fill knows whether it shows the row.
<1>4. ASSUME NEW s \in Servers, FlightSet(s) PROVE IInv'
  <2> DEFINE read == flight[s].read
             e == IF Visible(read) THEN Post(read.version, read # row) ELSE Nil
  <2>1. UNCHANGED <<row, creator, deleter, counter, lost>> /\ entry' \in {entry, e}
    BY <1>4 DEF FlightSet, SetJSON
  <2>2. CASE entry' = entry
    BY <2>1, <2>2
  <2>3. CASE entry' = e
    BY <2>1, <2>3 DEF Post, Nil
  <2> QED  BY <2>1, <2>2, <2>3
\* The writers: first the row, then the DEL, which may be lost.
<1>5. CASE InsertPost
  BY <1>5 DEF InsertPost, Missing
<1>6. ASSUME NEW d \in Deleters, CheckDelete(d) PROVE IInv'
  BY <1>6 DEF CheckDelete, Missing
<1>7. ASSUME NEW d \in Deleters, SoftDelete(d) PROVE IInv'
  BY <1>7 DEF SoftDelete
<1>8. ASSUME NEW d \in Deleters, InvalidatePost(d) PROVE IInv'
  BY <1>8 DEF InvalidatePost, Invalidate, Absent
<1>9. CASE CountCommitted
  BY <1>9 DEF CountCommitted, Missing
<1>10. CASE CountInvalidated
  BY <1>10 DEF CountInvalidated, Invalidate, Absent
<1> HIDE DEF IInv
<1> QED  BY <1>1, <1>2, <1>3, <1>4, <1>5, <1>6, <1>7, <1>8, <1>9, <1>10, <1>11, <1>12,
            UnseenSteps DEF Next, Get, Flight

(***************************************************************************)
(* While no DEL has been lost, an entry that differs from the row is about *)
(* to be dropped or was filled by an overtaken reader.                     *)
(***************************************************************************)
THEOREM CacheAside == Spec => []OnlyOvertakenFills
<1>1. Init => IInv
  BY DEF Init, IInv, TypeInv, Uncreated, OnlyOvertakenFills, Outdated, Absent
<1>2. IInv => OnlyOvertakenFills
  BY DEF IInv
<1> QED  BY <1>1, <1>2, StepKeepsIInv, PTL DEF Spec

-----------------------------------------------------------------------------
(* Types.  A request and a Create live as long as their process.            *)

ReaderStates ==
  {IdleReader}
  \cup [pc : {"lookup", "bloom", "setnil", "do", "wait"}, srv : up]
  \cup [pc : {"done"}, answer : {"post", "notfound", "error"}]
CreatorStates ==
  [pc : {"idle", "done", "died"}] \cup [pc : {"inserted", "failed"}, srv : up]

Types ==
  /\ TypeOK
  /\ reader \in [Readers -> ReaderStates]
  /\ creator \in CreatorStates

LEMMA TypesNext == Types /\ [Next]_vars => Types'
<1> SUFFICES ASSUME Types, [Next]_vars PROVE Types'
  OBVIOUS
<1> USE PostCacheAssumption DEF Types, TypeOK, ReaderStates, CreatorStates, IdleReader, Rows,
        FilterStates
\* Get: one reader moves.
<1>1. ASSUME NEW g \in Readers, StartGet(g) \/ LookUp(g) \/ TestBloom(g)
      PROVE  Types'
  BY <1>1 DEF StartGet, LookUp, TestBloom, At, Answer, Answered
<1>2. ASSUME NEW g \in Readers, SetNil(g) PROVE Types'
  BY <1>2 DEF SetNil, SetJSON, Answer, Answered, Entries, Nil
<1>3. ASSUME NEW g \in Readers, Do(g) PROVE Types'
  BY <1>3 DEF Do, At, Flights, NoFlight
\* The flight, and those who wait for it.
<1>4. ASSUME NEW s \in Servers, FlightQuery(s) PROVE Types'
  BY <1>4 DEF FlightQuery, Flights, NoFlight
<1>5. ASSUME NEW s \in Servers, FlightSet(s) PROVE Types'
  <2>1. flight[s] \in [phase : {"set", "share"}, read : Rows]
    BY <1>5 DEF FlightSet, Flights, NoFlight
  <2>2. /\ flight' = [flight EXCEPT ![s].phase = "share"]
        /\ UNCHANGED <<row, up, filter, reader, creator, deleter, counter, lost, crashes>>
    BY <1>5 DEF FlightSet
  <2>3. entry' \in Entries
    <3>1. Nil \in Entries
      BY DEF Entries
    <3>2. \A o \in BOOLEAN : Post(flight[s].read.version, o) \in Entries
      BY <2>1 DEF Entries, Post
    <3>3. (flight[s].read # row) \in BOOLEAN
      OBVIOUS
    <3> QED  BY <1>5, <3>1, <3>2, <3>3 DEF FlightSet, SetJSON
  <2> QED  BY <2>1, <2>2, <2>3 DEF Flights, NoFlight
<1>6. ASSUME NEW s \in Servers, NEW a \in {"post", "notfound", "error"}, Land(s, a)
      PROVE  Types'
  BY <1>6 DEF Land, Answered, Flights, NoFlight
<1>7. ASSUME NEW s \in Servers, FlightFails(s) \/ FlightShare(s) PROVE Types'
  BY <1>6, <1>7 DEF FlightFails, FlightShare
\* The writers.
<1>8. CASE InsertPost
  BY <1>8 DEF InsertPost, Missing
<1>9. CASE AddBloom
  BY <1>9 DEF AddBloom
<1>10. ASSUME NEW d \in Deleters, CheckDelete(d) \/ SoftDelete(d) PROVE Types'
  BY <1>10 DEF CheckDelete, SoftDelete
<1>11. ASSUME NEW d \in Deleters, InvalidatePost(d) PROVE Types'
  BY <1>11 DEF InvalidatePost, Invalidate, Entries, Absent
<1>12. CASE CountCommitted
  BY <1>12 DEF CountCommitted
<1>13. CASE CountInvalidated \/ Expire
  BY <1>13 DEF CountInvalidated, Invalidate, Expire, Entries, Absent
\* Processes.
<1>14. ASSUME NEW s \in Servers, Crash(s) PROVE Types'
  BY <1>14 DEF Crash, Flights, NoFlight
<1>15. ASSUME NEW s \in Servers, Boot(s) PROVE Types'
  BY <1>15 DEF Boot
<1>16. ASSUME NEW s \in Servers, LoseBit(s) PROVE Types'
  BY <1>16 DEF LoseBit
<1>17. CASE UNCHANGED vars
  BY <1>17 DEF vars
<1> QED  BY <1>1, <1>2, <1>3, <1>4, <1>5, <1>7, <1>8, <1>9, <1>10, <1>11, <1>12, <1>13,
            <1>14, <1>15, <1>16, <1>17 DEF Next, Get, Flight

LEMMA TypesInvariant == Spec => []Types
<1>1. Init => Types
  BY PostCacheAssumption DEF Init, Types, TypeOK, ReaderStates, CreatorStates, IdleReader,
     Rows, Missing, Entries, Absent, Flights, NoFlight, FilterStates
<1> QED  BY <1>1, TypesNext, PTL DEF Spec

\* Type correctness of everything around a post's cache entry; who waits for a
\* flight waits for one that is there.
THEOREM PostCacheType == Spec => []TypeOK
<1>1. Types => TypeOK
  BY DEF Types
<1> QED  BY <1>1, TypesInvariant, PTL

(***************************************************************************)
(* With one API process the Bloom filter of a running one knows every      *)
(* visible post whose Create is not between INSERT and Add and has not     *)
(* failed there, unless another Add has stored an older byte over its bit: *)
(* a boot loads what a dead process has not added or has lost.             *)
(***************************************************************************)
THEOREM PostCacheBloom ==
  ASSUME \A s, t \in Servers : s = t
  PROVE  Spec => []BloomComplete
<1>1. Init => BloomComplete
  BY DEF Init, BloomComplete, Visible, Missing, Knows
<1>2. Types /\ BloomComplete /\ [Next]_vars => BloomComplete'
  <2> SUFFICES ASSUME Types, BloomComplete, [Next]_vars PROVE BloomComplete'
    OBVIOUS
  <2> USE DEF BloomComplete, Visible, Knows
  <2>1. /\ up \subseteq Servers /\ creator \in CreatorStates
        /\ filter \in [Servers -> FilterStates]
    BY DEF Types, TypeOK
  <2>2. CASE UNCHANGED <<row, creator, up, filter>>
    BY <2>2
  <2>3. CASE InsertPost
    BY <2>3 DEF InsertPost
  <2>4. CASE AddBloom
    BY <2>1, <2>4 DEF AddBloom, CreatorStates
  <2>5. ASSUME NEW d \in Deleters, SoftDelete(d) PROVE BloomComplete'
    BY <2>5 DEF SoftDelete
  <2>6. CASE CountCommitted
    BY <2>6 DEF CountCommitted, Missing, Types, TypeOK, Rows
  <2>7. ASSUME NEW s \in Servers, Crash(s) PROVE BloomComplete'
    BY <2>1, <2>7 DEF Crash
  <2>8. ASSUME NEW s \in Servers, Boot(s) PROVE BloomComplete'
    BY <2>1, <2>8 DEF Boot
  <2>9. ASSUME NEW s \in Servers, LoseBit(s) PROVE BloomComplete'
    BY <2>1, <2>9 DEF LoseBit
  <2> QED
    BY <2>2, <2>3, <2>4, <2>5, <2>6, <2>7, <2>8, <2>9
       DEF Next, Get, Flight, StartGet, LookUp, TestBloom, SetNil, Do, FlightQuery,
           FlightSet, FlightShare, FlightFails, Land, CheckDelete, InvalidatePost,
           CountInvalidated, Expire, vars
<1> QED  BY <1>1, <1>2, TypesInvariant, PTL DEF Spec

-----------------------------------------------------------------------------
(***************************************************************************)
(* What the Bloom filter of a process promises with any number of callers  *)
(* of Add, for any keys, hash sums, array size, number of hash functions   *)
(* and word size: outside the bytes that two calls once held at a time,    *)
(* the bits set by the rounds already done stay set, because the byte a    *)
(* caller has loaded is still the one in memory when it stores.            *)
(***************************************************************************)

\* The rounds a running call has finished, and its copy of the byte.
Kept(p) == p \in bits \/ Byte(p) \in raced
\* The same of the next state, for the p of this one.
StillKept(p) == p \in bits' \/ Byte(p) \in raced'

RoundsDone ==
  \A a \in Adders : adder[a].pc # "idle" =>
    \A j \in Rounds : j < adder[a].i => Kept(Position(adder[a].item, j))

CopyCurrent ==
  \A a \in Adders, y \in {Byte(p) : p \in Positions} : Holds(a, y) /\ y \notin raced =>
    adder[a].word = bits \cap Word(Position(adder[a].item, adder[a].i))

\* Two callers that hold one byte have raced for it.
RacesSeen ==
  \A a, b \in Adders, y \in {Byte(p) : p \in Positions} :
    Holds(a, y) /\ Holds(b, y) /\ a # b => y \in raced

\* A stored word lies in its byte.
CopyInByte ==
  \A a \in Adders : adder[a].pc = "store" =>
    adder[a].word \subseteq Word(Position(adder[a].item, adder[a].i))

BloomInv ==
  /\ BloomTypeOK /\ RoundsDone /\ CopyInByte /\ CopyCurrent /\ RacesSeen
  /\ NoFalseNegative

-----------------------------------------------------------------------------
LEMMA PositionType ==
  ASSUME NEW x \in Items, NEW i \in Rounds
  PROVE  Position(x, i) \in Positions
<1>1. M \in Nat \ {0} /\ Hash1[x] \in Nat /\ Hash2[x] \in Nat /\ i \in Nat
  BY BloomAssumption DEF Rounds
<1>2. Hash1[x] % M \in Nat /\ Hash2[x] % M \in Nat
  BY <1>1
<1>3. \A u, v, w \in Nat : u + v * w \in Nat
  OBVIOUS
<1>4. \A n \in Nat : n % M \in 0 .. M - 1
  BY <1>1
<1> QED  BY <1>1, <1>2, <1>3, <1>4 DEF Position, Positions

\* Storing back a copy of a byte changes no other byte, and storing an up-to-
\* date copy only adds one bit.
LEMMA StoreAdds ==
  ASSUME NEW p \in Positions, NEW word, word \subseteq Word(p),
         bits' = (bits \ Word(p)) \cup word \cup {p}
  PROVE  /\ \A q \in Positions : Byte(q) # Byte(p) => (q \in bits' <=> q \in bits)
         /\ word = bits \cap Word(p) => bits' = bits \cup {p}
BY DEF Word

LEMMA AdvanceType ==
  ASSUME BloomTypeOK, NEW a \in Adders, adder[a].pc = "store", Advance(a)
  PROVE  adder' \in [Adders -> Calls] /\ added' \subseteq Items
<1> DEFINE c == adder[a]
           n == [pc |-> "load", item |-> c.item, i |-> c.i + 1]
<1>1. c.item \in Items /\ c.i \in Rounds
  BY DEF BloomTypeOK, Calls, Idle
<1>2. Idle \in Calls
  BY DEF Calls
<1>3. c.i + 1 < K => n \in Calls
  BY <1>1, BloomAssumption DEF Calls, Rounds
<1>4. IF c.i + 1 < K
        THEN adder' = [adder EXCEPT ![a] = n] /\ added' = added
        ELSE adder' = [adder EXCEPT ![a] = Idle] /\ added' = added \cup {c.item}
  BY DEF Advance
<1> HIDE DEF n, c
<1> QED  BY <1>1, <1>2, <1>3, <1>4 DEF BloomTypeOK

\* What Store does to the bits: the bits kept so far stay kept, its own is set.
LEMMA StoreKeeps ==
  ASSUME BloomInv, NEW a \in Adders, Store(a)
  PROVE  /\ raced' = raced /\ bits' \subseteq Positions
         /\ adder[a].item \in Items /\ adder[a].i \in Rounds
         /\ Position(adder[a].item, adder[a].i) \in bits'
         /\ \A q \in Positions : Kept(q) => StillKept(q)
         /\ \A q \in Positions : Byte(q) # Byte(Position(adder[a].item, adder[a].i))
                                  => (q \in bits' <=> q \in bits)
<1> DEFINE c == adder[a]
           p == Position(c.item, c.i)
<1>1. c.pc = "store" /\ raced' = raced /\ bits' = (bits \ Word(p)) \cup c.word \cup {p}
  BY DEF Store
<1>2. c.item \in Items /\ c.i \in Rounds /\ c.word \subseteq Word(p)
  BY <1>1 DEF BloomInv, BloomTypeOK, Calls, Idle, CopyInByte
<1>3. p \in Positions
  BY <1>2, PositionType
<1>4. /\ \A q \in Positions : Byte(q) # Byte(p) => (q \in bits' <=> q \in bits)
      /\ c.word = bits \cap Word(p) => bits' = bits \cup {p}
  <2> HIDE DEF p, c
  <2> QED  BY <1>1, <1>2, <1>3, StoreAdds
<1>5. Byte(p) \notin raced => c.word = bits \cap Word(p)
  BY <1>1, <1>3 DEF BloomInv, CopyCurrent, Holds
<1>6. ASSUME NEW q \in Positions, Kept(q) PROVE StillKept(q)
  BY <1>1, <1>4, <1>5, <1>6 DEF Kept, StillKept
<1>7. bits' \subseteq Positions
  BY <1>1, <1>2, <1>3 DEF Word, BloomInv, BloomTypeOK
<1> QED  BY <1>1, <1>2, <1>4, <1>6, <1>7

LEMMA StepKeepsBloomInv ==
  ASSUME BloomInv, [BloomNext]_bloomVars
  PROVE  BloomInv'
<1>1. ASSUME NEW a \in Adders, NEW x \in Items, Add(a, x) PROVE BloomInv'
  <2> DEFINE n == [pc |-> "load", item |-> x, i |-> 0]
  <2>1. /\ adder' = [adder EXCEPT ![a] = n]
        /\ bits' = bits /\ added' = added /\ raced' = raced
    BY <1>1 DEF Add
  <2>2. n \in Calls
    BY BloomAssumption DEF Calls, Rounds
  <2>3. adder'[a] = n /\ \A b \in Adders : b # a => adder'[b] = adder[b]
    BY <2>1 DEF BloomInv, BloomTypeOK
  <2>4. BloomTypeOK'
    BY <2>1, <2>2 DEF BloomInv, BloomTypeOK
  <2>5. RoundsDone'
    BY <2>1, <2>3 DEF BloomInv, RoundsDone, Rounds, Kept, StillKept
  <2>6. CopyInByte' /\ CopyCurrent' /\ RacesSeen'
    BY <2>1, <2>3 DEF BloomInv, CopyInByte, CopyCurrent, RacesSeen, Holds
  <2>7. NoFalseNegative'
    BY <2>1 DEF BloomInv, NoFalseNegative
  <2> QED  BY <2>4, <2>5, <2>6, <2>7 DEF BloomInv
<1>2. ASSUME NEW a \in Adders, Load(a) PROVE BloomInv'
  <2> DEFINE c == adder[a]
             p == Position(c.item, c.i)
             n == [pc |-> "store", item |-> c.item, i |-> c.i, word |-> bits \cap Word(p)]
  <2>1. /\ c.pc = "load" /\ adder' = [adder EXCEPT ![a] = n]
        /\ bits' = bits /\ added' = added
        /\ raced' = raced \cup {y \in {Byte(p)} : \E b \in Adders \ {a} : Holds(b, y)}
    BY <1>2 DEF Load
  <2>2. c.item \in Items /\ c.i \in Rounds
    BY <2>1 DEF BloomInv, BloomTypeOK, Calls, Idle
  <2>3. n \in Calls /\ p \in Positions
    BY <2>2, PositionType DEF Calls, Word
  <2>4. adder'[a] = n /\ \A b \in Adders : b # a => adder'[b] = adder[b]
    BY <2>1 DEF BloomInv, BloomTypeOK
  <2>5. BloomTypeOK'
    BY <2>1, <2>3 DEF BloomInv, BloomTypeOK
  <2>6. \A q : Kept(q) => StillKept(q)
    BY <2>1 DEF Kept, StillKept
  <2>7. RoundsDone'
    BY <2>1, <2>2, <2>4, <2>6 DEF BloomInv, RoundsDone, Kept, StillKept
  <2>8. \A b \in Adders : \A y : b # a => (Holds(b, y)' <=> Holds(b, y))
    BY <2>4 DEF Holds
  <2>9. \A y : Holds(a, y)' <=> y = Byte(p)
    BY <2>4 DEF Holds
  <2>10. CopyInByte' /\ CopyCurrent'
    BY <2>1, <2>4, <2>8, <2>9 DEF BloomInv, CopyInByte, CopyCurrent
  <2>11. RacesSeen'
    BY <2>1, <2>8, <2>9 DEF BloomInv, RacesSeen
  <2>12. NoFalseNegative'
    BY <2>1 DEF BloomInv, NoFalseNegative
  <2> QED  BY <2>5, <2>7, <2>10, <2>11, <2>12 DEF BloomInv
<1>3. ASSUME NEW a \in Adders, Store(a) PROVE BloomInv'
  <2> DEFINE c == adder[a]
             p == Position(c.item, c.i)
             n == [pc |-> "load", item |-> c.item, i |-> c.i + 1]
  <2>1. c.pc = "store" /\ Advance(a)
    BY <1>3 DEF Store
  <2>2. /\ raced' = raced /\ bits' \subseteq Positions
        /\ c.item \in Items /\ c.i \in Rounds /\ p \in bits'
        /\ \A q \in Positions : Kept(q) => StillKept(q)
        /\ \A q \in Positions : Byte(q) # Byte(p) => (q \in bits' <=> q \in bits)
    BY <1>3, StoreKeeps
  <2>3. BloomTypeOK'
    BY <2>1, <2>2, AdvanceType DEF BloomInv, BloomTypeOK
  <2>4. \A b \in Adders : b # a => adder'[b] = adder[b]
    BY <2>1 DEF Advance, BloomInv, BloomTypeOK
  <2>5. adder'[a] = n \/ adder'[a] = Idle
    BY <2>1 DEF Advance, BloomInv, BloomTypeOK
  <2>6. ASSUME NEW b \in Adders, b # a, adder[b].pc # "idle"
        PROVE  /\ adder[b].item \in Items /\ adder[b].i \in Rounds
               /\ Position(adder[b].item, adder[b].i) \in Positions
    <3>1. adder[b].item \in Items /\ adder[b].i \in Rounds
      BY <2>6 DEF BloomInv, BloomTypeOK, Calls, Idle
    <3> QED  BY <3>1, PositionType
  <2>7. \A j \in Rounds : j < c.i + 1 => StillKept(Position(c.item, j))
    <3>1. \A j \in Rounds : j < c.i => Kept(Position(c.item, j))
      BY <2>1 DEF BloomInv, RoundsDone
    <3>2. \A j \in Rounds : Position(c.item, j) \in Positions
      BY <2>2, PositionType
    <3>3. \A j \in Rounds : j < c.i => StillKept(Position(c.item, j))
      BY <2>2, <3>1, <3>2
    <3>4. StillKept(p)
      BY <2>2 DEF Kept, StillKept
    <3>5. \A j \in Rounds : j < c.i + 1 => j < c.i \/ j = c.i
      BY <2>2 DEF Rounds
    <3> QED  BY <3>3, <3>4, <3>5
  <2>8. RoundsDone'
    <3> SUFFICES ASSUME NEW b \in Adders, adder'[b].pc # "idle",
                        NEW j \in Rounds, j < adder'[b].i
                 PROVE  StillKept(Position(adder'[b].item, j))
      BY DEF RoundsDone, Kept, StillKept
    <3>1. CASE b = a
      BY <2>5, <2>7, <3>1 DEF Idle
    <3>2. CASE b # a
      <4>1. Kept(Position(adder[b].item, j)) /\ adder'[b] = adder[b]
        BY <2>4, <3>2 DEF BloomInv, RoundsDone
      <4>2. Position(adder[b].item, j) \in Positions
        BY <2>6, <3>2, <4>1, PositionType
      <4> QED  BY <2>2, <4>1, <4>2
    <3> QED  BY <3>1, <3>2
  <2>9. \A y : ~Holds(a, y)'
    BY <2>5 DEF Holds, Idle
  <2>10. \A b \in Adders : \A y : b # a => (Holds(b, y)' <=> Holds(b, y))
    BY <2>4 DEF Holds
  <2>11. RacesSeen' /\ CopyInByte'
    BY <2>2, <2>4, <2>5, <2>9, <2>10 DEF BloomInv, RacesSeen, CopyInByte, Idle
  <2>12. CopyCurrent'
    <3> SUFFICES ASSUME NEW b \in Adders, NEW y \in {Byte(q) : q \in Positions},
                        Holds(b, y)', y \notin raced'
                 PROVE  adder'[b].word = bits' \cap Word(Position(adder'[b].item, adder'[b].i))
      BY DEF CopyCurrent
    <3>1. b # a /\ Holds(b, y) /\ adder'[b] = adder[b] /\ y \notin raced
      BY <2>2, <2>4, <2>9, <2>10
    <3>2. Holds(a, Byte(p))
      BY <2>1 DEF Holds
    <3>3. y # Byte(p)
      BY <3>1, <3>2 DEF BloomInv, RacesSeen
    <3>4. adder[b].word = bits \cap Word(Position(adder[b].item, adder[b].i))
      BY <3>1 DEF BloomInv, CopyCurrent
    <3>5. y = Byte(Position(adder[b].item, adder[b].i))
      BY <3>1 DEF Holds
    <3> HIDE DEF p
    <3>6. bits' \cap Word(Position(adder[b].item, adder[b].i))
            = bits \cap Word(Position(adder[b].item, adder[b].i))
      BY <2>2, <3>3, <3>5 DEF Word
    <3> QED  BY <3>1, <3>4, <3>6
  <2>13. NoFalseNegative'
    <3> SUFFICES ASSUME NEW x \in added', NEW j \in Rounds
                 PROVE  StillKept(Position(x, j))
      BY DEF NoFalseNegative, Kept, StillKept
    <3>1. CASE x \in added
      <4>1. Kept(Position(x, j)) /\ x \in Items
        BY <3>1 DEF BloomInv, NoFalseNegative, Kept, BloomTypeOK
      <4>2. Position(x, j) \in Positions
        BY <4>1, PositionType
      <4> QED  BY <2>2, <4>1, <4>2
    <3>2. CASE x \notin added
      <4>1. x = c.item /\ ~(c.i + 1 < K)
        BY <2>1, <3>2 DEF Advance
      <4>2. j < c.i + 1
        BY <2>2, <4>1, BloomAssumption DEF Rounds
      <4> QED  BY <2>7, <4>1, <4>2
    <3> QED  BY <3>1, <3>2
  <2> QED  BY <2>3, <2>8, <2>11, <2>12, <2>13 DEF BloomInv
<1>4. CASE UNCHANGED bloomVars
  BY <1>4 DEF bloomVars, BloomInv, BloomTypeOK, RoundsDone, CopyInByte, CopyCurrent, RacesSeen,
              Holds, NoFalseNegative, Kept
<1> QED  BY <1>1, <1>2, <1>3, <1>4 DEF BloomNext

LEMMA BloomInitInv == BloomInit => BloomInv
BY DEF BloomInit, BloomInv, BloomTypeOK, RoundsDone, CopyInByte, CopyCurrent, RacesSeen, Holds,
       NoFalseNegative, Idle, Calls

(***************************************************************************)
(* Type correctness: calls stay within the array, and a byte is a byte.    *)
(***************************************************************************)
THEOREM BloomType == BloomSpec => []BloomTypeOK
<1>1. BloomInv /\ [BloomNext]_bloomVars => BloomInv'
  BY StepKeepsBloomInv
<1>2. BloomInv => BloomTypeOK
  BY DEF BloomInv
<1> QED  BY <1>1, <1>2, BloomInitInv, PTL DEF BloomSpec

(***************************************************************************)
(* Whatever the number of callers, a bit of an added key that is missing   *)
(* lies in a byte that two calls of Add held at a time.                    *)
(***************************************************************************)
THEOREM OnlyRacesLoseBits == BloomSpec => []NoFalseNegative
<1>1. BloomInv /\ [BloomNext]_bloomVars => BloomInv'
  BY StepKeepsBloomInv
<1>2. BloomInv => NoFalseNegative
  BY DEF BloomInv
<1> QED  BY <1>1, <1>2, BloomInitInv, PTL DEF BloomSpec

(***************************************************************************)
(* With one caller at a time, as while main loads the filter, a key that   *)
(* has been added always tests positive.                                   *)
(***************************************************************************)
THEOREM SingleAdder ==
  ASSUME \A a, b \in Adders : a = b
  PROVE  BloomSpec => [](\A x \in added : Test(x))
<1> DEFINE NoRace == raced = {}
<1>1. BloomInit => NoRace
  BY DEF BloomInit
<1>2. NoRace /\ [BloomNext]_bloomVars => NoRace'
  BY DEF BloomNext, bloomVars, Add, Load, Store
<1>3. NoRace /\ NoFalseNegative => \A x \in added : Test(x)
  BY DEF NoFalseNegative, Test
<1> QED  BY <1>1, <1>2, <1>3, OnlyRacesLoseBits, PTL DEF BloomSpec

-----------------------------------------------------------------------------
(* No bit is set that nobody asked for. *)

Known == added \cup {adder[a].item : a \in {b \in Adders : adder[b].pc # "idle"}}
Claimed(p) == \E x \in Known : \E i \in Rounds : p = Position(x, i)

\* The bits a call has copied were claimed as well.
CopyClaimed ==
  \A a \in Adders : adder[a].pc = "store" => \A p \in adder[a].word : Claimed(p)

ClaimInv == OnlyTheirBits /\ CopyClaimed

\* Once claimed, always claimed: a call that ends leaves its key in added.
LEMMA KnownGrows ==
  ASSUME BloomTypeOK, NEW a \in Adders,
         \A b \in Adders : b # a => adder'[b] = adder[b],
         \/ adder[a].pc = "idle" /\ added' = added
         \/ adder'[a].pc # "idle" /\ adder'[a].item = adder[a].item /\ added' = added
         \/ added' = added \cup {adder[a].item}
  PROVE  \A p : Claimed(p) => Claimed(p)'
<1>1. Known \subseteq Known'
  BY DEF Known
<1>2. \A x, i : Position(x, i)' = Position(x, i)
  BY DEF Position
<1>3. Rounds' = Rounds
  BY DEF Rounds
<1> QED  BY <1>1, <1>2, <1>3 DEF Claimed

LEMMA StepKeepsClaims ==
  ASSUME BloomTypeOK, ClaimInv, [BloomNext]_bloomVars
  PROVE  ClaimInv'
<1>1. \A p \in bits : Claimed(p)
  BY DEF ClaimInv, OnlyTheirBits, Claimed, Known
<1>2. (\A p \in bits' : Claimed(p)') => OnlyTheirBits'
  BY DEF OnlyTheirBits, Claimed, Known
<1>3. ASSUME NEW a \in Adders, NEW x \in Items, Add(a, x) PROVE ClaimInv'
  <2>1. /\ adder[a].pc = "idle" /\ bits' = bits /\ added' = added
        /\ adder'[a] = [pc |-> "load", item |-> x, i |-> 0]
        /\ \A b \in Adders : b # a => adder'[b] = adder[b]
    BY <1>3 DEF Add, BloomTypeOK
  <2>2. \A p : Claimed(p) => Claimed(p)'
    BY <2>1, KnownGrows
  <2>3. CopyClaimed'
    BY <2>1, <2>2 DEF ClaimInv, CopyClaimed
  <2> QED  BY <1>1, <1>2, <2>1, <2>2, <2>3 DEF ClaimInv
<1>4. ASSUME NEW a \in Adders, Load(a) PROVE ClaimInv'
  <2>1. /\ bits' = bits /\ added' = added
        /\ adder'[a].pc = "store" /\ adder'[a].item = adder[a].item
        /\ adder'[a].word \subseteq bits
        /\ \A b \in Adders : b # a => adder'[b] = adder[b]
    BY <1>4 DEF Load, BloomTypeOK
  <2>2. \A p : Claimed(p) => Claimed(p)'
    BY <2>1, KnownGrows
  <2>3. CopyClaimed'
    BY <1>1, <2>1, <2>2 DEF ClaimInv, CopyClaimed
  <2> QED  BY <1>1, <1>2, <2>1, <2>2, <2>3 DEF ClaimInv
<1>5. ASSUME NEW a \in Adders, Store(a) PROVE ClaimInv'
  <2> DEFINE c == adder[a]
             p == Position(c.item, c.i)
  <2>1. c.pc = "store" /\ Advance(a) /\ bits' = (bits \ Word(p)) \cup c.word \cup {p}
    BY <1>5 DEF Store
  <2>2. c.i \in Rounds
    BY <2>1 DEF BloomTypeOK, Calls, Idle
  <2>3. /\ \A b \in Adders : b # a => adder'[b] = adder[b]
        /\ adder'[a].pc # "store"
        /\ \/ adder'[a].pc # "idle" /\ adder'[a].item = c.item /\ added' = added
           \/ added' = added \cup {c.item}
    BY <2>1 DEF Advance, BloomTypeOK, Idle
  <2>4. \A q : Claimed(q) => Claimed(q)'
    BY <2>3, KnownGrows
  <2>5. Claimed(p)
    BY <2>1, <2>2 DEF Claimed, Known
  <2>6. \A q \in bits' : Claimed(q)'
    <3>1. \A q \in c.word : Claimed(q)
      BY <2>1 DEF ClaimInv, CopyClaimed
    <3> HIDE DEF p
    <3> QED  BY <1>1, <2>1, <2>4, <2>5, <3>1
  <2>7. CopyClaimed'
    BY <2>3, <2>4 DEF ClaimInv, CopyClaimed
  <2> QED  BY <1>2, <2>6, <2>7 DEF ClaimInv
<1>6. CASE UNCHANGED bloomVars
  BY <1>6 DEF bloomVars, ClaimInv, OnlyTheirBits, CopyClaimed, Claimed, Known
<1> QED  BY <1>3, <1>4, <1>5, <1>6 DEF BloomNext

(***************************************************************************)
(* The filter never claims a bit that no key being added, or added, has:   *)
(* whatever calls race, all that they can write back was claimed before.   *)
(***************************************************************************)
THEOREM BloomOnlyTheirBits == BloomSpec => []OnlyTheirBits
<1>1. BloomInit => ClaimInv
  BY DEF BloomInit, ClaimInv, OnlyTheirBits, CopyClaimed, Idle
<1>2. BloomTypeOK /\ ClaimInv /\ [BloomNext]_bloomVars => ClaimInv'
  BY StepKeepsClaims
<1>3. ClaimInv => OnlyTheirBits
  BY DEF ClaimInv
<1> QED  BY <1>1, <1>2, <1>3, BloomType, PTL DEF BloomSpec
=============================================================================
