-------------------------------- MODULE Bloom --------------------------------
(***************************************************************************)
(* The Bloom filter of one API process.  main loads it alone; afterwards   *)
(* every handler goroutine in PostService.Create calls Add, and nothing    *)
(* orders their calls.  Setting a bit is a read-modify-write of the byte   *)
(* it lies in: a load and a store.                                         *)
(***************************************************************************)
EXTENDS Integers

CONSTANTS
  Items,          \* the keys that are added: post ids
  Adders,         \* goroutines in Add
  M,              \* size of the bit array
  K,              \* number of derived hash functions
  WordSize,       \* bits in a byte: 8
  Hash1, Hash2    \* the two FNV-1a sums of each key

ASSUME BloomAssumption ==
  /\ M \in Nat \ {0} /\ K \in Nat \ {0} /\ WordSize \in Nat \ {0}
  /\ Hash1 \in [Items -> Nat] /\ Hash2 \in [Items -> Nat \ {0}]

VARIABLES
  bits,           \* the positions whose bit is 1
  added,          \* keys for which a call of Add has returned
  adder,          \* where each goroutine is
  raced           \* history: bytes that two calls have held a copy of at a time

bloomVars == <<bits, added, adder, raced>>

Positions == 0 .. M - 1

\* doubleHash reduces both sums; Add and Test derive the i-th position.
Position(x, i) == ((Hash1[x] % M) + i * (Hash2[x] % M)) % M
Rounds == 0 .. K - 1

Byte(p) == p \div WordSize
Word(p) == {q \in Positions : Byte(q) = Byte(p)}

Idle == [pc |-> "idle"]
Calls == {Idle} \cup [pc : {"load"}, item : Items, i : Rounds]
                \cup [pc : {"store"}, item : Items, i : Rounds, word : SUBSET Positions]

BloomInit ==
  /\ bits = {}
  /\ added = {}
  /\ adder = [a \in Adders |-> Idle]
  /\ raced = {}

Add(a, x) ==
  /\ adder[a].pc = "idle"
  /\ adder' = [adder EXCEPT ![a] = [pc |-> "load", item |-> x, i |-> 0]]
  /\ UNCHANGED <<bits, added, raced>>

\* The byte a call has read and not yet written back.
Holds(a, byte) ==
  adder[a].pc = "store" /\ Byte(Position(adder[a].item, adder[a].i)) = byte

Load(a) ==
  LET c == adder[a]
      p == Position(c.item, c.i) IN
  /\ c.pc = "load"
  /\ adder' = [adder EXCEPT ![a] = [pc |-> "store", item |-> c.item, i |-> c.i,
                                   word |-> bits \cap Word(p)]]
  /\ raced' = raced \cup {y \in {Byte(p)} : \E b \in Adders \ {a} : Holds(b, y)}
  /\ UNCHANGED <<bits, added>>

\* The loop over the hash functions, and the return.
Advance(a) ==
  LET c == adder[a] IN
  IF c.i + 1 < K
    THEN /\ adder' = [adder EXCEPT ![a] = [pc |-> "load", item |-> c.item, i |-> c.i + 1]]
         /\ added' = added
    ELSE /\ adder' = [adder EXCEPT ![a] = Idle]
         /\ added' = added \cup {c.item}

\* Mutant: the bit is assigned to the byte instead of or-ed into it.
StoreOver(a) ==
  LET c == adder[a]
      p == Position(c.item, c.i) IN
  /\ c.pc = "store"
  /\ bits' = (bits \ Word(p)) \cup {p}
  /\ Advance(a)
  /\ raced' = raced

\* Mutant: the shift is by bit / 8 and not by bit % 8.
StoreShifted(a) ==
  LET c == adder[a]
      p == Position(c.item, c.i) IN
  /\ c.pc = "store"
  /\ bits' = (bits \ Word(p)) \cup c.word
             \cup {q \in Word(p) : q % WordSize = (p \div WordSize) % WordSize}
  /\ Advance(a)
  /\ raced' = raced

Store(a) ==
  LET c == adder[a]
      p == Position(c.item, c.i) IN
  /\ c.pc = "store"
  /\ bits' = (bits \ Word(p)) \cup c.word \cup {p}
  /\ Advance(a)
  /\ raced' = raced

BloomNext == \E a \in Adders : Load(a) \/ Store(a) \/ \E x \in Items : Add(a, x)

BloomSpec == BloomInit /\ [][BloomNext]_bloomVars

Test(x) == \A i \in Rounds : Position(x, i) \in bits

-----------------------------------------------------------------------------
BloomTypeOK ==
  /\ bits \subseteq Positions
  /\ added \subseteq Items
  /\ adder \in [Adders -> Calls]
  /\ raced \subseteq {Byte(p) : p \in Positions}

(***************************************************************************)
(* No false negative, as far as it goes: every bit of a key whose Add has  *)
(* returned is set, now and for ever, unless two calls once held a copy of *)
(* its byte at the same time; then the later store overwrites what the     *)
(* earlier has set, and nothing ever sets it again.  PostService.Get       *)
(* answers 404 without asking the database for a key that tests negative.  *)
(***************************************************************************)
NoFalseNegative ==
  \A x \in added : \A i \in Rounds :
    Position(x, i) \in bits \/ Byte(Position(x, i)) \in raced

(***************************************************************************)
(* The filter claims no more than it was told: every bit that is set is a  *)
(* bit of a key being added or added, so an empty filter knows nothing and *)
(* the false-positive rate is that of the textbook.                        *)
(***************************************************************************)
OnlyTheirBits ==
  \A p \in bits : \E x \in added \cup {adder[a].item : a \in
                                        {b \in Adders : adder[b].pc # "idle"}} :
    \E i \in Rounds : p = Position(x, i)
=============================================================================
