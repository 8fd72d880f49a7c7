---------------------------- MODULE LedgerLemmas ----------------------------
(***************************************************************************)
(* Facts about ledgers as values that the proofs about the rights ledger,  *)
(* the control authority and delivery share: what the sums of the code are *)
(* as cardinalities of sets of unit pairs, and what a change of states     *)
(* does to them.                                                           *)
(***************************************************************************)
EXTENDS Rights, FiniteSetTheorems, TLAPS

-----------------------------------------------------------------------------
(* Sums as cardinalities.                                                  *)

\* The unit pairs of any ledger form a finite set, so UnitsIn (the try_fold
\* sums of conserved and reset_to_checkpoint) is a natural number.
LEMMA PairsFinite ==
  ASSUME NEW r, NEW A
  PROVE  /\ IsFiniteSet(UnitPairs(r, A))
         /\ UnitsIn(r, A) \in Nat
<1>1. IsFiniteSet(Ids) /\ IsFiniteSet(1..U64Max)
  BY RightsAssumption, FS_Interval
<1>2. IsFiniteSet(Ids \X (1..U64Max))
  BY <1>1, FS_Product
<1>3. UnitPairs(r, A) \in SUBSET (Ids \X (1..U64Max))
  BY DEF UnitPairs
<1>4. IsFiniteSet(UnitPairs(r, A))
  BY <1>2, <1>3, FS_Subset
<1>5. QED
  BY <1>4, FS_CardinalityType DEF UnitsIn

\* One reservation of u units contributes u pairs.
LEMMA BlockSize ==
  ASSUME NEW id, NEW u \in Nat
  PROVE  /\ IsFiniteSet({id} \X (1..u))
         /\ Cardinality({id} \X (1..u)) = u
<1>1. IsFiniteSet({id}) /\ Cardinality({id}) = 1
  BY FS_Singleton
<1>2. IsFiniteSet(1..u) /\ Cardinality(1..u) = u
  BY FS_Interval
<1>3. /\ IsFiniteSet({id} \X (1..u))
      /\ Cardinality({id} \X (1..u)) = Cardinality({id}) * Cardinality(1..u)
  BY <1>1, <1>2, FS_Product
<1>4. Cardinality({id}) * Cardinality(1..u) = u
  BY <1>1, <1>2
<1>5. QED
  BY <1>3, <1>4

\* The cardinality of a disjoint union of finite sets.
LEMMA DisjointUnion ==
  ASSUME NEW S, NEW T, IsFiniteSet(S), IsFiniteSet(T), S \cap T = {}
  PROVE  Cardinality(S \cup T) = Cardinality(S) + Cardinality(T)
<1>1. Cardinality(S \cap T) = 0
  BY FS_EmptySet
<1>2. Cardinality(S) \in Nat /\ Cardinality(T) \in Nat
  BY FS_CardinalityType
<1>3. Cardinality(S \cup T) =
        Cardinality(S) + Cardinality(T) - Cardinality(S \cap T)
  BY FS_Union
<1>4. QED
  BY <1>1, <1>2, <1>3

\* When q differs from r only at id, where q is in one of the states A and r
\* is not, q counts exactly the units of id more than r.
LEMMA EnterStates ==
  ASSUME NEW r, NEW q, NEW A, NEW id \in Ids,
         q.reservations[id].effect \in Effects,
         StateOf(q, id) \in A, StateOf(r, id) \notin A,
         \A j \in Ids \ {id} : q.reservations[j] = r.reservations[j]
  PROVE  UnitsIn(q, A) = UnitsIn(r, A) + UnitsOf(q, id)
<1> DEFINE u == UnitsOf(q, id)
           B == {id} \X (1..u)
<1>1. u \in 0..U64Max /\ U64Max \in Nat /\ u \in Nat
  BY RightsAssumption DEF UnitsOf
<1>2. UnitPairs(q, A) = UnitPairs(r, A) \cup B
  <2>1. ASSUME NEW p \in Ids \X (1..U64Max)
        PROVE  p \in UnitPairs(q, A) <=> p \in UnitPairs(r, A) \/ p \in B
    <3>1. CASE p[1] = id
      BY <1>1, <2>1, <3>1 DEF UnitPairs, StateOf, UnitsOf
    <3>2. CASE p[1] # id
      BY <2>1, <3>2 DEF UnitPairs, StateOf
    <3>3. QED
      BY <3>1, <3>2
  <2>2. B \subseteq Ids \X (1..U64Max)
    BY <1>1
  <2>3. /\ UnitPairs(q, A) \subseteq Ids \X (1..U64Max)
        /\ UnitPairs(r, A) \subseteq Ids \X (1..U64Max)
    BY DEF UnitPairs
  <2>4. QED
    BY <2>1, <2>2, <2>3
<1>3. UnitPairs(r, A) \cap B = {}
  BY DEF UnitPairs
<1>4. IsFiniteSet(B) /\ Cardinality(B) = u
  <2> HIDE DEF u
  <2> QED BY <1>1, BlockSize
<1>5. QED
  BY <1>2, <1>3, <1>4, PairsFinite, DisjointUnion DEF UnitsIn

\* Ledgers with the same identifiers, bound to the same effects, in the
\* states A count the same units.
LEMMA SameStates ==
  ASSUME NEW r, NEW q, NEW A,
         \A j \in Ids : /\ StateOf(q, j) \in A <=> StateOf(r, j) \in A
                        /\ StateOf(r, j) \in A =>
                             q.reservations[j].effect = r.reservations[j].effect
  PROVE  /\ UnitPairs(q, A) = UnitPairs(r, A)
         /\ UnitsIn(q, A) = UnitsIn(r, A)
<1>1. UnitPairs(q, A) = UnitPairs(r, A)
  BY DEF UnitPairs
<1>2. QED
  BY <1>1 DEF UnitsIn

\* A reservation in one of the states A has at most the units counted for A.
LEMMA BlockBound ==
  ASSUME NEW r, NEW A, NEW id \in Ids, StateOf(r, id) \in A,
         r.reservations[id].effect \in Effects
  PROVE  UnitsOf(r, id) \in 0..UnitsIn(r, A)
<1> DEFINE u == UnitsOf(r, id)
           B == {id} \X (1..u)
<1>1. u \in 0..U64Max /\ U64Max \in Nat /\ u \in Nat
  BY RightsAssumption DEF UnitsOf
<1>2. B \in SUBSET UnitPairs(r, A)
  BY <1>1 DEF UnitPairs, UnitsOf
<1>3. Cardinality(B) = u
  <2> HIDE DEF u
  <2> QED BY <1>1, BlockSize
<1>4. Cardinality(B) <= Cardinality(UnitPairs(r, A))
  BY <1>2, PairsFinite, FS_Subset
<1>5. QED
  BY <1>1, <1>3, <1>4, PairsFinite DEF UnitsIn

\* A reservation whose state is one of the code's states has a real effect.
LEMMA ReservationType ==
  ASSUME NEW r \in Ledger, NEW id \in Ids
  PROVE  /\ r.reservations[id] \in Reservation \cup {Missing}
         /\ StateOf(r, id) # "Missing" =>
              /\ r.reservations[id] \in Reservation
              /\ UnitsOf(r, id) \in 0..U64Max
         /\ StateOf(r, id) = "Missing" => r.reservations[id] = Missing
BY RightsAssumption
   DEF Ledger, Reservation, Missing, StateOf, UnitsOf, States, Held

\* What reset_to_checkpoint refunds is a natural number, and is at most the
\* units held.
LEMMA RefundBound ==
  ASSUME NEW r, NEW keep
  PROVE  Refund(r, keep) \in 0..UnitsIn(r, Held)
<1> DEFINE P == {p \in UnitPairs(r, {"Reserved"}) : p[1] \notin keep}
<1>1. P \in SUBSET UnitPairs(r, Held)
  BY DEF UnitPairs, Held
<1>2. /\ IsFiniteSet(P) 
      /\ Cardinality(P) <= Cardinality(UnitPairs(r, Held))
  BY <1>1, PairsFinite, FS_Subset
<1>3. Cardinality(P) \in Nat
  BY <1>2, FS_CardinalityType
<1>4. QED
  BY <1>2, <1>3, PairsFinite DEF Refund, UnitsIn

\* A reservation that leaves the states A takes its units out of their sum.
LEMMA LeaveStates ==
  ASSUME NEW r, NEW q, NEW A, NEW id \in Ids,
         r.reservations[id].effect \in Effects,
         StateOf(r, id) \in A, StateOf(q, id) \notin A,
         \A j \in Ids \ {id} : q.reservations[j] = r.reservations[j]
  PROVE  UnitsIn(q, A) = UnitsIn(r, A) - UnitsOf(r, id)
<1>1. UnitsIn(r, A) = UnitsIn(q, A) + UnitsOf(r, id)
  BY EnterStates
<1>2. UnitsIn(r, A) \in Nat /\ UnitsIn(q, A) \in Nat
  BY PairsFinite
<1>3. UnitsOf(r, id) \in Nat
  BY RightsAssumption DEF UnitsOf
<1>4. QED
  BY <1>1, <1>2, <1>3

\* A change of one reservation's state keeps its effect and its epoch, and
\* every other reservation.
LEMMA SetStateAt ==
  ASSUME NEW r \in Ledger, NEW id \in Ids, NEW s,
         StateOf(r, id) # "Missing"
  PROVE  /\ SetState(r, id, s)[id].state = s
         /\ SetState(r, id, s)[id].effect = r.reservations[id].effect
         /\ SetState(r, id, s)[id].epoch = r.reservations[id].epoch
         /\ \A j \in Ids \ {id} : SetState(r, id, s)[j] = r.reservations[j]
BY ReservationType DEF SetState, Ledger, Reservation

\* What reset_to_checkpoint refunds is what it takes out of the held units.
LEMMA ResetMovesRefund ==
  ASSUME NEW r \in Ledger, NEW keep \in SUBSET Ids
  PROVE  UnitsIn(AfterReset(r, keep), Held) = UnitsIn(r, Held) - Refund(r, keep)
<1> DEFINE q == AfterReset(r, keep)
           P == {p \in UnitPairs(r, {"Reserved"}) : p[1] \notin keep}
<1>1. ASSUME NEW id \in Ids
      PROVE  /\ id \in Dropped(r, keep) => StateOf(q, id) = "Aborted"
             /\ id \notin Dropped(r, keep) => StateOf(q, id) = StateOf(r, id)
             /\ q.reservations[id].effect = r.reservations[id].effect
  BY ReservationType DEF AfterReset, Dropped, Ledger, StateOf, Reservation
<1>2. UnitPairs(r, Held) = UnitPairs(q, Held) \cup P
  <2> HIDE DEF q
  <2>1. ASSUME NEW p \in Ids \X (1..U64Max)
        PROVE  p \in UnitPairs(r, Held) <=> p \in UnitPairs(q, Held) \/ p \in P
    BY <1>1 DEF UnitPairs, Dropped, Held
  <2>2. QED
    BY <2>1 DEF UnitPairs
<1>3. UnitPairs(q, Held) \cap P = {}
  <2> HIDE DEF q
  <2> QED BY <1>1 DEF UnitPairs, Dropped, Held
<1>4. P \in SUBSET UnitPairs(r, {"Reserved"})
  OBVIOUS
<1>5. IsFiniteSet(P) /\ Cardinality(P) \in Nat
  BY <1>4, PairsFinite, FS_Subset, FS_CardinalityType
<1>6. Cardinality(UnitPairs(r, Held)) = Cardinality(UnitPairs(q, Held)) + Cardinality(P)
  <2> HIDE DEF q, P
  <2> QED BY <1>2, <1>3, <1>5, PairsFinite, DisjointUnion
<1>7. UnitsIn(r, Held) = UnitsIn(q, Held) + Refund(r, keep)
  BY <1>6 DEF UnitsIn, Refund
<1>8. UnitsIn(q, Held) \in Nat /\ Refund(r, keep) \in Nat
  BY <1>5, PairsFinite DEF Refund
<1>9. QED
  BY <1>7, <1>8

-----------------------------------------------------------------------------
(* Several reservations at once.                                           *)

\* The units of those reservations of ids that are in one of the states A.
UnitsAmong(r, A, ids) == Cardinality({p \in UnitPairs(r, A) : p[1] \in ids})

\* The units of some of the reservations are finitely many.
LEMMA AmongNat ==
  ASSUME NEW r, NEW A, NEW ids
  PROVE  /\ IsFiniteSet({p \in UnitPairs(r, A) : p[1] \in ids})
         /\ UnitsAmong(r, A, ids) \in Nat
<1> DEFINE P == {p \in UnitPairs(r, A) : p[1] \in ids}
<1>1. P \in SUBSET UnitPairs(r, A)
  OBVIOUS
<1>2. IsFiniteSet(P) /\ Cardinality(P) \in Nat
  BY <1>1, PairsFinite, FS_Subset, FS_CardinalityType
<1>3. QED
  BY <1>2 DEF UnitsAmong

\* Reservations that leave the states A together take exactly their units out
\* of the sum (the loops of apply_review, retirement, revocation and sweeps).
LEMMA LeaveTogether ==
  ASSUME NEW r, NEW q, NEW A, NEW ids,
         \A j \in Ids :
           /\ q.reservations[j].effect = r.reservations[j].effect
           /\ j \in ids => StateOf(r, j) \in A /\ StateOf(q, j) \notin A
           /\ j \notin ids => (StateOf(q, j) \in A <=> StateOf(r, j) \in A)
  PROVE  UnitsIn(r, A) = UnitsIn(q, A) + UnitsAmong(r, A, ids)
<1> DEFINE P == {p \in UnitPairs(r, A) : p[1] \in ids}
<1>1. UnitPairs(r, A) = UnitPairs(q, A) \cup P
  <2>1. ASSUME NEW p \in Ids \X (1..U64Max)
        PROVE  p \in UnitPairs(r, A) <=> p \in UnitPairs(q, A) \/ p \in P
    BY DEF UnitPairs
  <2>2. QED
    BY <2>1 DEF UnitPairs
<1>2. UnitPairs(q, A) \cap P = {}
  BY DEF UnitPairs
<1>3. IsFiniteSet(P)
  BY AmongNat
<1>4. QED
  BY <1>1, <1>2, <1>3, PairsFinite, DisjointUnion DEF UnitsIn, UnitsAmong

\* The units of the same reservations do not depend on the states in which
\* they are looked up.
LEMMA AmongSame ==
  ASSUME NEW r, NEW q, NEW A, NEW B, NEW ids,
         \A j \in Ids \cap ids :
           /\ q.reservations[j].effect = r.reservations[j].effect
           /\ StateOf(r, j) \in A /\ StateOf(q, j) \in B
  PROVE  UnitsAmong(r, A, ids) = UnitsAmong(q, B, ids)
<1>1. {p \in UnitPairs(r, A) : p[1] \in ids} = {p \in UnitPairs(q, B) : p[1] \in ids}
  BY DEF UnitPairs
<1>2. QED
  BY <1>1 DEF UnitsAmong

\* None and one.
LEMMA AmongFew ==
  ASSUME NEW r, NEW A
  PROVE  /\ UnitsAmong(r, A, {}) = 0
         /\ \A id \in Ids :
              StateOf(r, id) \in A /\ r.reservations[id].effect \in Effects =>
                UnitsAmong(r, A, {id}) = UnitsOf(r, id)
<1>1. UnitsAmong(r, A, {}) = 0
  <2>1. {p \in UnitPairs(r, A) : p[1] \in {}} = {}
    OBVIOUS
  <2>2. QED
    BY <2>1, FS_EmptySet DEF UnitsAmong
<1>2. ASSUME NEW id \in Ids, StateOf(r, id) \in A, r.reservations[id].effect \in Effects
      PROVE  UnitsAmong(r, A, {id}) = UnitsOf(r, id)
  <2> DEFINE u == UnitsOf(r, id)
  <2>1. u \in Nat /\ u \in 0..U64Max /\ U64Max \in Nat
    BY <1>2, RightsAssumption DEF UnitsOf
  <2>2. {p \in UnitPairs(r, A) : p[1] \in {id}} = {id} \X (1..u)
    BY <1>2, <2>1 DEF UnitPairs, UnitsOf
  <2>3. Cardinality({id} \X (1..u)) = u
    <3> HIDE DEF u
    <3> QED BY <2>1, BlockSize
  <2>4. QED
    BY <2>2, <2>3 DEF UnitsAmong
<1>3. QED
  BY <1>1, <1>2

=============================================================================
