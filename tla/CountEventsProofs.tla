-------------------------- MODULE CountEventsProofs --------------------------
(***************************************************************************)
(* How Net changes when one event joins a finite set of events.            *)
(***************************************************************************)
EXTENDS CountEvents, FiniteSetTheorems, TLAPS

(***************************************************************************)
(* An event that is new to the set adds its delta to the counter it names. *)
(* It is what one commit of the API adds to the ledger, and what one       *)
(* UPDATE of the worker adds to the column.                                *)
(***************************************************************************)
LEMMA NetAdd ==
  ASSUME NEW S, IsFiniteSet(S), NEW e \in CountEvent, e \notin S,
         NEW f, NEW p
  PROVE  /\ Net(S, f, p) \in Int
         /\ Net(S \cup {e}, f, p) =
              IF e.field = f /\ e.post = p THEN Net(S, f, p) + e.delta
                                           ELSE Net(S, f, p)
<1>1. IsFiniteSet(Of(S, f, p, 1)) /\ IsFiniteSet(Of(S, f, p, -1))
  BY FS_Subset DEF Of
<1>2. Cardinality(Of(S, f, p, 1)) \in Nat /\ Cardinality(Of(S, f, p, -1)) \in Nat
  BY <1>1, FS_CardinalityType
<1>3. e.delta \in {1, -1}
  BY DEF CountEvent
<1>4. Net(S, f, p) = Cardinality(Of(S, f, p, 1)) - Cardinality(Of(S, f, p, -1))
  BY DEF Net
<1>5. Net(S, f, p) \in Int
  BY <1>2, <1>4
<1>6. CASE ~(e.field = f /\ e.post = p)
  <2>1. Of(S \cup {e}, f, p, 1) = Of(S, f, p, 1) /\ Of(S \cup {e}, f, p, -1) = Of(S, f, p, -1)
    BY <1>6 DEF Of
  <2> QED  BY <2>1, <1>2, <1>6 DEF Net
<1>7. CASE e.field = f /\ e.post = p /\ e.delta = 1
  <2>1. Of(S \cup {e}, f, p, 1) = Of(S, f, p, 1) \cup {e} /\ Of(S \cup {e}, f, p, -1) = Of(S, f, p, -1)
    BY <1>7 DEF Of
  <2>2. e \notin Of(S, f, p, 1)
    BY DEF Of
  <2>3. Cardinality(Of(S, f, p, 1) \cup {e}) = Cardinality(Of(S, f, p, 1)) + 1
    BY <1>1, <2>2, FS_AddElement
  <2>4. Net(S \cup {e}, f, p) =
          Cardinality(Of(S, f, p, 1) \cup {e}) - Cardinality(Of(S, f, p, -1))
    BY <2>1, Zenon DEF Net
  <2>5. Net(S \cup {e}, f, p) = Net(S, f, p) + 1
    BY <2>3, <2>4, <1>2, <1>4
  <2> QED  BY <2>5, <1>7, <1>5
<1>8. CASE e.field = f /\ e.post = p /\ e.delta = -1
  <2>1. Of(S \cup {e}, f, p, 1) = Of(S, f, p, 1) /\ Of(S \cup {e}, f, p, -1) = Of(S, f, p, -1) \cup {e}
    BY <1>8 DEF Of
  <2>2. e \notin Of(S, f, p, -1)
    BY DEF Of
  <2>3. Cardinality(Of(S, f, p, -1) \cup {e}) = Cardinality(Of(S, f, p, -1)) + 1
    BY <1>1, <2>2, FS_AddElement
  <2>4. Net(S \cup {e}, f, p) =
          Cardinality(Of(S, f, p, 1)) - Cardinality(Of(S, f, p, -1) \cup {e})
    BY <2>1, Zenon DEF Net
  <2>5. Net(S \cup {e}, f, p) = Net(S, f, p) + (-1)
    BY <2>3, <2>4, <1>2, <1>4
  <2> QED  BY <2>5, <1>8, <1>5
<1> QED  BY <1>3, <1>6, <1>7, <1>8

\* A finite set of events has a sum.
LEMMA NetInt ==
  ASSUME NEW S, IsFiniteSet(S), NEW f, NEW p
  PROVE  Net(S, f, p) \in Int
<1>1. IsFiniteSet(Of(S, f, p, 1)) /\ IsFiniteSet(Of(S, f, p, -1))
  BY FS_Subset DEF Of
<1>2. Cardinality(Of(S, f, p, 1)) \in Nat /\ Cardinality(Of(S, f, p, -1)) \in Nat
  BY <1>1, FS_CardinalityType
<1>3. Net(S, f, p) = Cardinality(Of(S, f, p, 1)) - Cardinality(Of(S, f, p, -1))
  BY DEF Net
<1> QED  BY <1>2, <1>3

\* No events, no change: the counters of a fresh database are 0.
LEMMA NetEmpty ==
  ASSUME NEW f, NEW p
  PROVE  Net({}, f, p) = 0
<1>1. Of({}, f, p, 1) = {} /\ Of({}, f, p, -1) = {}
  BY DEF Of
<1> QED  BY <1>1, FS_EmptySet DEF Net

\* Events that take away are missed by nobody: without them the sum is no less.
LEMMA NetWithout ==
  ASSUME NEW T, IsFiniteSet(T), NEW S \in SUBSET T, \A e \in T \ S : e.delta = -1,
         NEW f, NEW p
  PROVE  Net(S, f, p) >= Net(T, f, p)
<1>1. Of(S, f, p, 1) = Of(T, f, p, 1) /\ Of(S, f, p, -1) \subseteq Of(T, f, p, -1)
  BY DEF Of
<1>2. IsFiniteSet(Of(T, f, p, 1)) /\ IsFiniteSet(Of(T, f, p, -1))
  BY FS_Subset DEF Of
<1>3. IsFiniteSet(Of(S, f, p, -1))
      /\ Cardinality(Of(S, f, p, -1)) <= Cardinality(Of(T, f, p, -1))
  BY <1>1, <1>2, FS_Subset
<1>4. {Cardinality(Of(T, f, p, 1)), Cardinality(Of(T, f, p, -1)),
       Cardinality(Of(S, f, p, -1))} \subseteq Nat
  BY <1>2, <1>3, FS_CardinalityType
<1>5. Net(S, f, p) = Cardinality(Of(T, f, p, 1)) - Cardinality(Of(S, f, p, -1))
  BY <1>1, Zenon DEF Net
<1>6. Net(T, f, p) = Cardinality(Of(T, f, p, 1)) - Cardinality(Of(T, f, p, -1))
  BY DEF Net
<1> QED  BY <1>3, <1>4, <1>5, <1>6

\* If every -1 has a +1 of its own, the sum is not negative.
LEMMA NetMatched ==
  ASSUME NEW S, IsFiniteSet(S), NEW f, NEW p,
         NEW g \in [Of(S, f, p, -1) -> Of(S, f, p, 1)],
         \A e, d \in Of(S, f, p, -1) : g[e] = g[d] => e = d
  PROVE  Net(S, f, p) >= 0
<1>1. IsFiniteSet(Of(S, f, p, 1)) /\ IsFiniteSet(Of(S, f, p, -1))
  BY FS_Subset DEF Of
<1>2. Cardinality(Of(S, f, p, 1)) \in Nat /\ Cardinality(Of(S, f, p, -1)) \in Nat
  BY <1>1, FS_CardinalityType
<1>3. g \in Injection(Of(S, f, p, -1), Of(S, f, p, 1))
  BY DEF Injection, IsInjective
<1>4. Cardinality(Of(S, f, p, -1)) <= Cardinality(Of(S, f, p, 1))
  BY <1>1, <1>3, FS_Injection
<1>5. Net(S, f, p) = Cardinality(Of(S, f, p, 1)) - Cardinality(Of(S, f, p, -1))
  BY DEF Net
<1> QED  BY <1>2, <1>4, <1>5
=============================================================================
