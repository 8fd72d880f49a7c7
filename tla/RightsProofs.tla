---------------------------- MODULE RightsProofs ----------------------------
(***************************************************************************)
(* Proofs about the rights ledger, for every set of identifiers, every set *)
(* of effects and every budget.  The sums of the code are cardinalities of *)
(* sets of unit pairs, so the arithmetic of a step is the arithmetic of    *)
(* disjoint unions: a step moves the block of pairs of one reservation (or,*)
(* for a reset, of several) between the held set, the committed set and    *)
(* the free balance.                                                       *)
(***************************************************************************)
EXTENDS RightsLedger, LedgerLemmas

-----------------------------------------------------------------------------
(* The type invariant.                                                     *)

\* Every operation of Rights that returns Ok leaves a well-typed ledger: no
\* balance underflows and no counter passes u64::MAX.
LEMMA TypeStep == TypeOK /\ [Next]_rights => TypeOK'
<1> SUFFICES ASSUME TypeOK, [Next]_rights
             PROVE  TypeOK'
  OBVIOUS
<1> USE RightsAssumption DEF TypeOK
<1>0. rights \in Ledger
  OBVIOUS
<1>1. CASE RevokeEpoch
  BY <1>1 DEF RevokeEpoch, CanRevokeEpoch, AfterRevokeEpoch, Ledger
<1>2. ASSUME NEW id \in Ids, NEW e \in Effects, Reserve(id, e)
      PROVE  TypeOK'
  <2>1. [effect |-> e, epoch |-> rights.epoch, state |-> "Reserved"]
          \in Reservation
    BY DEF Ledger, Reservation, States, Held
  <2>2. rights.available - Units[e] \in 0..U64Max
    BY <1>2 DEF Ledger, Reserve, CanReserve
  <2>3. QED
    BY <1>2, <2>1, <2>2 DEF Reserve, AfterReserve, Ledger
<1>3. ASSUME NEW id \in Ids, NEW s \in States, StateOf(rights, id) # "Missing"
      PROVE  SetState(rights, id, s) \in [Ids -> Reservation \cup {Missing}]
  BY <1>3, ReservationType DEF SetState, Ledger, Reservation
<1>4. ASSUME NEW id \in Ids, NEW e \in Effects, Dispatch(id, e)
      PROVE  TypeOK'
  <2>1. SetState(rights, id, "Dispatched") \in [Ids -> Reservation \cup {Missing}]
    BY <1>3, <1>4 DEF Dispatch, CanDispatch, States, Held
  <2>2. QED
    BY <1>4, <2>1 DEF Dispatch, AfterDispatch, Ledger
<1>5. ASSUME NEW id \in Ids, MarkUnknown(id)
      PROVE  TypeOK'
  <2>1. SetState(rights, id, "Unknown") \in [Ids -> Reservation \cup {Missing}]
    BY <1>3, <1>5 DEF MarkUnknown, CanMarkUnknown, States, Held
  <2>2. QED
    BY <1>5, <2>1 DEF MarkUnknown, AfterMarkUnknown, Ledger
<1>6. ASSUME NEW id \in Ids, AbortBeforeDispatch(id)
      PROVE  TypeOK'
  <2>1. SetState(rights, id, "Aborted") \in [Ids -> Reservation \cup {Missing}]
    BY <1>3, <1>6 DEF AbortBeforeDispatch, CanAbort, States, Held
  <2>2. rights.available + UnitsOf(rights, id) \in 0..U64Max
    BY <1>6, ReservationType DEF AbortBeforeDispatch, CanAbort, Ledger
  <2>3. QED
    BY <1>6, <2>1, <2>2 DEF AbortBeforeDispatch, AfterAbort, Ledger
<1>7. ASSUME NEW id \in Ids, NEW occurred \in BOOLEAN, Reconcile(id, occurred)
      PROVE  TypeOK'
  <2>1. /\ SetState(rights, id, "Committed") \in [Ids -> Reservation \cup {Missing}]
        /\ SetState(rights, id, "Aborted") \in [Ids -> Reservation \cup {Missing}]
    BY <1>3, <1>7 DEF Reconcile, CanReconcile, Liable, States, Held
  <2>2. IF occurred THEN rights.spent + UnitsOf(rights, id) \in 0..U64Max
                    ELSE rights.available + UnitsOf(rights, id) \in 0..U64Max
    BY <1>7, ReservationType DEF Reconcile, CanReconcile, Liable, Ledger
  <2>3. QED
    BY <1>7, <2>1, <2>2 DEF Reconcile, AfterReconcile, Ledger
<1>8. ASSUME NEW keep \in SUBSET Ids, ResetToCheckpoint(keep)
      PROVE  TypeOK'
  <2>1. rights.available + Refund(rights, keep) \in 0..U64Max
    BY <1>8, RefundBound, PairsFinite DEF ResetToCheckpoint, CanReset, Ledger
  <2>2. rights.incident_count + 1 \in 0..U64Max
    BY <1>8 DEF ResetToCheckpoint, CanReset, Ledger
  <2>3. rights'.reservations \in [Ids -> Reservation \cup {Missing}]
    <3>1. ASSUME NEW id \in Ids
          PROVE  rights'.reservations[id] \in Reservation \cup {Missing}
      BY <1>8, ReservationType
         DEF ResetToCheckpoint, AfterReset, Dropped, Ledger, Reservation, States
    <3>2. QED
      BY <1>8, <3>1 DEF ResetToCheckpoint, AfterReset, Ledger
  <2>4. QED
    BY <1>8, <2>1, <2>2, <2>3 DEF ResetToCheckpoint, AfterReset, Ledger
<1>9. CASE UNCHANGED rights
  BY <1>9
<1>10. QED
  BY <1>1, <1>2, <1>4, <1>5, <1>6, <1>7, <1>8, <1>9 DEF Next

\* The balances, counters and reservations of the ledger stay in the range of
\* their Rust types whatever operations are called.
THEOREM TypeCorrect == Spec => []TypeOK
<1>1. Init => TypeOK
  BY RightsAssumption DEF Init, NewRights, TypeOK, Ledger
<1>2. QED
  BY <1>1, TypeStep, PTL DEF Spec

-----------------------------------------------------------------------------
(* Conservation.                                                           *)

\* The inductive invariant: types and conservation together.
LEMMA ConservationStep == TypeOK /\ Conservation /\ [Next]_rights => Conservation'
<1> SUFFICES ASSUME TypeOK, Conservation, [Next]_rights
             PROVE  Conservation'
  OBVIOUS
<1> DEFINE C == {"Committed"}
           held == UnitsIn(rights, Held)
<1>0. /\ rights \in Ledger
      /\ held \in Nat /\ UnitsIn(rights, C) \in Nat
      /\ rights.available \in Nat /\ rights.spent \in Nat /\ Total \in Nat
      /\ held + rights.available + rights.spent = Total
      /\ rights.spent = UnitsIn(rights, C)
  BY RightsAssumption, PairsFinite DEF TypeOK, Ledger, Conservation, Conserves
<1> SUFFICES /\ UnitsIn(rights', Held) + rights'.available + rights'.spent = Total
             /\ rights'.spent = UnitsIn(rights', C)
  BY DEF Conservation, Conserves, UnitsIn, UnitPairs, StateOf
<1>1. CASE RevokeEpoch
  <2>1. /\ rights'.available = rights.available /\ rights'.spent = rights.spent
        /\ rights'.reservations = rights.reservations
    BY <1>0, <1>1 DEF RevokeEpoch, AfterRevokeEpoch, Ledger
  <2>2. UnitsIn(rights', Held) = held /\ UnitsIn(rights', C) = UnitsIn(rights, C)
    BY <2>1, SameStates DEF StateOf
  <2>3. QED
    BY <1>0, <2>1, <2>2
<1>2. ASSUME NEW id \in Ids, NEW e \in Effects, Reserve(id, e)
      PROVE  /\ UnitsIn(rights', Held) + rights'.available + rights'.spent = Total
             /\ rights'.spent = UnitsIn(rights', C)
  <2>1. /\ rights'.available = rights.available - Units[e]
        /\ rights'.spent = rights.spent
        /\ rights'.reservations[id].effect = e
        /\ StateOf(rights', id) = "Reserved" /\ StateOf(rights, id) = "Missing"
        /\ \A j \in Ids \ {id} : rights'.reservations[j] = rights.reservations[j]
    BY <1>0, <1>2 DEF Reserve, CanReserve, AfterReserve, Ledger, StateOf, Missing
  <2>2. UnitsIn(rights', Held) = held + Units[e]
    BY <2>1, EnterStates DEF Held, UnitsOf
  <2>3. UnitsIn(rights', C) = UnitsIn(rights, C)
    <3>1. \A j \in Ids : /\ StateOf(rights', j) \in C <=> StateOf(rights, j) \in C
                         /\ StateOf(rights, j) \in C =>
                              rights'.reservations[j].effect =
                                rights.reservations[j].effect
      BY <2>1 DEF StateOf
    <3>2. QED
      BY <3>1, SameStates
  <2>4. Units[e] \in Nat
    BY RightsAssumption
  <2>5. QED
    BY <1>0, <2>1, <2>2, <2>3, <2>4
<1>3. ASSUME NEW id \in Ids, NEW s \in States,
             StateOf(rights, id) \in Held,
             rights'.reservations = SetState(rights, id, s)
      PROVE  /\ UnitsOf(rights, id) \in Nat
             /\ s \in Held => UnitsIn(rights', Held) = held
             /\ s \notin Held => UnitsIn(rights', Held) = held - UnitsOf(rights, id)
             /\ s \in C => UnitsIn(rights', C) = UnitsIn(rights, C) + UnitsOf(rights, id)
             /\ s \notin C => UnitsIn(rights', C) = UnitsIn(rights, C)
  <2>1. /\ rights.reservations[id].effect \in Effects
        /\ StateOf(rights', id) = s
        /\ rights'.reservations[id].effect = rights.reservations[id].effect
        /\ \A j \in Ids \ {id} : rights'.reservations[j] = rights.reservations[j]
        /\ StateOf(rights, id) \notin C
    BY <1>0, <1>3, ReservationType, SetStateAt DEF StateOf, Held, Reservation
  <2>2. UnitsOf(rights, id) \in Nat /\ UnitsOf(rights', id) = UnitsOf(rights, id)
    BY <2>1, RightsAssumption DEF UnitsOf
  <2>3. ASSUME s \in Held PROVE UnitsIn(rights', Held) = held
    <3>1. \A j \in Ids :
            /\ StateOf(rights', j) \in Held <=> StateOf(rights, j) \in Held
            /\ rights'.reservations[j].effect = rights.reservations[j].effect
      BY <1>3, <2>1, <2>3 DEF StateOf
    <3>2. QED
      BY <3>1, SameStates
  <2>4. ASSUME s \notin Held
        PROVE UnitsIn(rights', Held) = held - UnitsOf(rights, id)
    BY <1>3, <2>1, <2>4, LeaveStates
  <2>5. ASSUME s \in C
        PROVE UnitsIn(rights', C) = UnitsIn(rights, C) + UnitsOf(rights, id)
    BY <2>1, <2>2, <2>5, EnterStates
  <2>6. ASSUME s \notin C PROVE UnitsIn(rights', C) = UnitsIn(rights, C)
    <3>1. \A j \in Ids :
            /\ StateOf(rights', j) \in C <=> StateOf(rights, j) \in C
            /\ rights'.reservations[j].effect = rights.reservations[j].effect
      BY <1>3, <2>1, <2>6 DEF StateOf
    <3>2. QED
      BY <3>1, SameStates
  <2>7. QED
    BY <2>2, <2>3, <2>4, <2>5, <2>6
<1>4. ASSUME NEW id \in Ids, NEW e \in Effects, Dispatch(id, e)
      PROVE  /\ UnitsIn(rights', Held) + rights'.available + rights'.spent = Total
             /\ rights'.spent = UnitsIn(rights', C)
  <2>1. /\ rights'.available = rights.available /\ rights'.spent = rights.spent
        /\ rights'.reservations = SetState(rights, id, "Dispatched")
        /\ StateOf(rights, id) \in Held
    BY <1>0, <1>4 DEF Dispatch, CanDispatch, AfterDispatch, Ledger, Held
  <2>2. UnitsIn(rights', Held) = held /\ UnitsIn(rights', C) = UnitsIn(rights, C)
    BY <1>3, <2>1 DEF States, Held
  <2>3. QED
    BY <1>0, <2>1, <2>2
<1>5. ASSUME NEW id \in Ids, MarkUnknown(id)
      PROVE  /\ UnitsIn(rights', Held) + rights'.available + rights'.spent = Total
             /\ rights'.spent = UnitsIn(rights', C)
  <2>1. /\ rights'.available = rights.available /\ rights'.spent = rights.spent
        /\ rights'.reservations = SetState(rights, id, "Unknown")
        /\ StateOf(rights, id) \in Held
    BY <1>0, <1>5 DEF MarkUnknown, CanMarkUnknown, AfterMarkUnknown, Ledger, Held
  <2>2. UnitsIn(rights', Held) = held /\ UnitsIn(rights', C) = UnitsIn(rights, C)
    BY <1>3, <2>1 DEF States, Held
  <2>3. QED
    BY <1>0, <2>1, <2>2
<1>6. ASSUME NEW id \in Ids, StateOf(rights, id) \in Held,
             rights'.available = rights.available + UnitsOf(rights, id),
             rights'.spent = rights.spent,
             rights'.reservations = SetState(rights, id, "Aborted")
      PROVE  /\ UnitsIn(rights', Held) + rights'.available + rights'.spent = Total
             /\ rights'.spent = UnitsIn(rights', C)
  <2>1. /\ UnitsOf(rights, id) \in Nat
        /\ UnitsIn(rights', Held) = held - UnitsOf(rights, id)
        /\ UnitsIn(rights', C) = UnitsIn(rights, C)
    BY <1>3, <1>6 DEF States, Held
  <2>2. QED
    BY <1>0, <1>6, <2>1
<1>7. ASSUME NEW id \in Ids, AbortBeforeDispatch(id)
      PROVE  /\ UnitsIn(rights', Held) + rights'.available + rights'.spent = Total
             /\ rights'.spent = UnitsIn(rights', C)
  <2>1. /\ StateOf(rights, id) \in Held
        /\ rights'.available = rights.available + UnitsOf(rights, id)
        /\ rights'.spent = rights.spent
        /\ rights'.reservations = SetState(rights, id, "Aborted")
    BY <1>0, <1>7 DEF AbortBeforeDispatch, CanAbort, AfterAbort, Ledger, Held
  <2>2. QED
    BY <1>6, <2>1
<1>8. ASSUME NEW id \in Ids, NEW occurred \in BOOLEAN, Reconcile(id, occurred)
      PROVE  /\ UnitsIn(rights', Held) + rights'.available + rights'.spent = Total
             /\ rights'.spent = UnitsIn(rights', C)
  <2>1. StateOf(rights, id) \in Held
    BY <1>8 DEF Reconcile, CanReconcile, Liable, Held
  <2>2. CASE occurred
    <3>1. /\ rights'.available = rights.available
          /\ rights'.spent = rights.spent + UnitsOf(rights, id)
          /\ rights'.reservations = SetState(rights, id, "Committed")
      BY <1>0, <1>8, <2>2 DEF Reconcile, AfterReconcile, Ledger
    <3>2. /\ UnitsOf(rights, id) \in Nat
          /\ UnitsIn(rights', Held) = held - UnitsOf(rights, id)
          /\ UnitsIn(rights', C) = UnitsIn(rights, C) + UnitsOf(rights, id)
      BY <1>3, <2>1, <3>1 DEF States, Held
    <3>3. QED
      BY <1>0, <3>1, <3>2
  <2>3. CASE ~occurred
    <3>1. /\ rights'.available = rights.available + UnitsOf(rights, id)
          /\ rights'.spent = rights.spent
          /\ rights'.reservations = SetState(rights, id, "Aborted")
      BY <1>0, <1>8, <2>3 DEF Reconcile, AfterReconcile, Ledger
    <3>2. QED
      BY <1>6, <2>1, <3>1
  <2>4. QED
    BY <2>2, <2>3
<1>9. ASSUME NEW keep \in SUBSET Ids, ResetToCheckpoint(keep)
      PROVE  /\ UnitsIn(rights', Held) + rights'.available + rights'.spent = Total
             /\ rights'.spent = UnitsIn(rights', C)
  <2>1. rights' = AfterReset(rights, keep)
    BY <1>9 DEF ResetToCheckpoint
  <2>2. /\ rights'.available = rights.available + Refund(rights, keep)
        /\ rights'.spent = rights.spent
    BY <1>0, <2>1 DEF AfterReset, Ledger
  <2>3. UnitsIn(rights', Held) = held - Refund(rights, keep)
    BY <1>0, <2>1, ResetMovesRefund
  <2>4. UnitsIn(rights', C) = UnitsIn(rights, C)
    <3>1. \A j \in Ids : /\ StateOf(rights', j) \in C <=> StateOf(rights, j) \in C
                         /\ rights'.reservations[j].effect =
                              rights.reservations[j].effect
      BY <1>0, <2>1, ReservationType
         DEF AfterReset, Dropped, Ledger, StateOf, Reservation
    <3>2. QED
      BY <3>1, SameStates
  <2>5. Refund(rights, keep) \in Nat
    BY <1>0, RefundBound
  <2>6. QED
    BY <1>0, <2>2, <2>3, <2>4, <2>5
<1>10. CASE UNCHANGED rights
  BY <1>0, <1>10
<1>11. QED
  BY <1>1, <1>2, <1>4, <1>5, <1>7, <1>8, <1>9, <1>10 DEF Next

\* Whatever operations are called, in whatever order, the ledger conserves its
\* budget and spends exactly the units of the effects known to have occurred
\* (Rights::conserved).
THEOREM ConservationHolds == Spec => []Conservation
<1>1. Init => Conservation
  <2> SUFFICES ASSUME Init PROVE Conservation
    OBVIOUS
  <2>1. UnitPairs(rights, Held) = {} /\ UnitPairs(rights, {"Committed"}) = {}
    BY DEF Init, NewRights, UnitPairs, StateOf, Missing, Held
  <2>2. UnitsIn(rights, Held) = 0 /\ UnitsIn(rights, {"Committed"}) = 0
    BY <2>1, FS_EmptySet DEF UnitsIn
  <2>3. QED
    BY <2>2, RightsAssumption DEF Init, NewRights, Conservation, Conserves
<1>2. QED
  BY <1>1, ConservationStep, TypeCorrect, PTL DEF Spec

-----------------------------------------------------------------------------
(* Consequences of conservation.                                           *)

\* A held reservation can always be settled and a reset is never refused for
\* its arithmetic: the checked additions of abort_before_dispatch, reconcile
\* and reset_to_checkpoint cannot overflow, because what they add is part of
\* what conservation bounds by the budget.
THEOREM SettlementHolds == Spec => []SettlementNeverOverflows
<1>1. TypeOK /\ Conservation => SettlementNeverOverflows
  <2> SUFFICES ASSUME TypeOK, Conservation
               PROVE  SettlementNeverOverflows
    OBVIOUS
  <2>1. /\ rights \in Ledger
        /\ UnitsIn(rights, Held) \in Nat
        /\ rights.available \in Nat /\ rights.spent \in Nat
        /\ Total \in Nat /\ U64Max \in Nat /\ Total <= U64Max
        /\ UnitsIn(rights, Held) + rights.available + rights.spent = Total
    BY RightsAssumption, PairsFinite DEF TypeOK, Ledger, Conservation, Conserves
  <2>2. ASSUME NEW id \in Ids, StateOf(rights, id) \in Held
        PROVE  /\ rights.available + UnitsOf(rights, id) <= U64Max
               /\ rights.spent + UnitsOf(rights, id) <= U64Max
    <3>1. UnitsOf(rights, id) \in 0..UnitsIn(rights, Held)
      BY <2>1, <2>2, ReservationType, BlockBound DEF Held, Reservation
    <3>2. QED
      BY <2>1, <3>1
  <2>3. ASSUME NEW keep \in SUBSET Ids
        PROVE  rights.available + Refund(rights, keep) <= U64Max
    <3>1. Refund(rights, keep) \in 0..UnitsIn(rights, Held)
      BY RefundBound
    <3>2. QED
      BY <2>1, <3>1
  <2>4. QED
    BY <2>2, <2>3
       DEF SettlementNeverOverflows, CanAbort, CanReconcile, CanReset, Liable,
           Held, Conservation
<1>2. QED
  BY <1>1, TypeCorrect, ConservationHolds, PTL

-----------------------------------------------------------------------------
(* What a step may never do.                                               *)

\* What each operation does to one reservation, in the shape the two action
\* properties need: it is untouched, created, or keeps its effect and epoch
\* and moves along one of the edges of the code's state machine; and only the
\* operation on that identifier, or a reset dropping it, touches it.
Edge(id) ==
  \/ rights'.reservations[id] = rights.reservations[id]
  \/ rights.reservations[id] = Missing
  \/ /\ rights'.reservations[id].effect = rights.reservations[id].effect
     /\ rights'.reservations[id].epoch = rights.reservations[id].epoch
     /\ \/ /\ StateOf(rights, id) = "Reserved"
           /\ StateOf(rights', id) = "Aborted"
        \/ /\ StateOf(rights, id) = "Reserved"
           /\ rights.reservations[id].epoch = rights.epoch
           /\ StateOf(rights', id) = "Dispatched"
        \/ /\ StateOf(rights, id) = "Dispatched"
           /\ StateOf(rights', id) = "Unknown"
        \/ /\ StateOf(rights, id) \in Liable
           /\ StateOf(rights', id) \in {"Committed", "Aborted"}
           /\ rights'.incident_count = rights.incident_count
           /\ \A other \in Ids \ {id} :
                rights'.reservations[other] = rights.reservations[other]

\* Every step of the ledger moves every reservation along an edge, and no
\* step lowers the epoch.
LEMMA StepEdges ==
  TypeOK /\ [Next]_rights =>
    /\ \A id \in Ids : Edge(id)
    /\ rights'.epoch >= rights.epoch
<1> SUFFICES ASSUME TypeOK, [Next]_rights
             PROVE  /\ \A id \in Ids : Edge(id)
                    /\ rights'.epoch >= rights.epoch
  OBVIOUS
<1>0. rights \in Ledger /\ rights.epoch \in Nat
  BY RightsAssumption DEF TypeOK, Ledger
<1>1. CASE RevokeEpoch
  BY <1>0, <1>1 DEF RevokeEpoch, AfterRevokeEpoch, Ledger, Edge
<1>2. ASSUME NEW id \in Ids, NEW e \in Effects, Reserve(id, e)
      PROVE  (\A j \in Ids : Edge(j)) /\ rights'.epoch >= rights.epoch
  <2>1. /\ rights.reservations[id] = Missing
        /\ \A j \in Ids \ {id} : rights'.reservations[j] = rights.reservations[j]
        /\ rights'.epoch = rights.epoch
    BY <1>0, <1>2 DEF Reserve, CanReserve, AfterReserve, Ledger
  <2>2. QED
    BY <1>0, <2>1 DEF Edge
<1>3. ASSUME NEW id \in Ids, NEW s, StateOf(rights, id) \in Held,
             rights'.reservations = SetState(rights, id, s)
      PROVE  /\ StateOf(rights', id) = s
             /\ rights'.reservations[id].effect = rights.reservations[id].effect
             /\ rights'.reservations[id].epoch = rights.reservations[id].epoch
             /\ \A j \in Ids \ {id} :
                  rights'.reservations[j] = rights.reservations[j]
  BY <1>0, <1>3, SetStateAt DEF StateOf, Held
<1>4. ASSUME NEW id \in Ids, NEW e \in Effects, Dispatch(id, e)
      PROVE  (\A j \in Ids : Edge(j)) /\ rights'.epoch >= rights.epoch
  <2>1. /\ StateOf(rights, id) = "Reserved"
        /\ rights.reservations[id].epoch = rights.epoch
        /\ rights'.reservations = SetState(rights, id, "Dispatched")
        /\ rights'.epoch = rights.epoch
    BY <1>0, <1>4 DEF Dispatch, CanDispatch, AfterDispatch, Ledger
  <2>2. QED
    BY <1>0, <1>3, <2>1 DEF Edge, Held
<1>5. ASSUME NEW id \in Ids, MarkUnknown(id)
      PROVE  (\A j \in Ids : Edge(j)) /\ rights'.epoch >= rights.epoch
  <2>1. /\ StateOf(rights, id) = "Dispatched"
        /\ rights'.reservations = SetState(rights, id, "Unknown")
        /\ rights'.epoch = rights.epoch
    BY <1>0, <1>5 DEF MarkUnknown, CanMarkUnknown, AfterMarkUnknown, Ledger
  <2>2. QED
    BY <1>0, <1>3, <2>1 DEF Edge, Held
<1>6. ASSUME NEW id \in Ids, AbortBeforeDispatch(id)
      PROVE  (\A j \in Ids : Edge(j)) /\ rights'.epoch >= rights.epoch
  <2>1. /\ StateOf(rights, id) = "Reserved"
        /\ rights'.reservations = SetState(rights, id, "Aborted")
        /\ rights'.epoch = rights.epoch
    BY <1>0, <1>6 DEF AbortBeforeDispatch, CanAbort, AfterAbort, Ledger
  <2>2. QED
    BY <1>0, <1>3, <2>1 DEF Edge, Held
<1>7. ASSUME NEW id \in Ids, NEW occurred \in BOOLEAN, Reconcile(id, occurred)
      PROVE  (\A j \in Ids : Edge(j)) /\ rights'.epoch >= rights.epoch
  <2>1. /\ StateOf(rights, id) \in Liable
        /\ \E s \in {"Committed", "Aborted"} :
             rights'.reservations = SetState(rights, id, s)
        /\ rights'.epoch = rights.epoch
        /\ rights'.incident_count = rights.incident_count
    BY <1>0, <1>7 DEF Reconcile, CanReconcile, AfterReconcile, Ledger
  <2>2. PICK s \in {"Committed", "Aborted"} :
          rights'.reservations = SetState(rights, id, s)
    BY <2>1
  <2>3. QED
    BY <1>0, <1>3, <2>1, <2>2 DEF Edge, Held, Liable
<1>8. ASSUME NEW keep \in SUBSET Ids, ResetToCheckpoint(keep)
      PROVE  (\A j \in Ids : Edge(j)) /\ rights'.epoch >= rights.epoch
  <2>1. rights'.epoch = rights.epoch
    BY <1>0, <1>8 DEF ResetToCheckpoint, AfterReset, Ledger
  <2>2. ASSUME NEW j \in Ids
        PROVE  Edge(j)
    BY <1>0, <1>8, ReservationType
       DEF ResetToCheckpoint, AfterReset, Dropped, Ledger, Reservation,
           StateOf, Edge
  <2>3. QED
    BY <1>0, <2>1, <2>2
<1>9. CASE UNCHANGED rights
  BY <1>0, <1>9 DEF Edge
<1>10. QED
  BY <1>1, <1>2, <1>4, <1>5, <1>6, <1>7, <1>8, <1>9 DEF Next

\* A reservation that a revocation overtook is never dispatched, at any later
\* time: it waits or it is aborted (Rights::dispatch, Rights::revoke_epoch).
THEOREM StaleHolds == Spec => StaleNeverDispatched
<1>1. TypeOK /\ [Next]_rights => [StaleStaysBack]_rights
  <2> SUFFICES ASSUME TypeOK, [Next]_rights, NEW id \in Ids, Stale(id)
               PROVE  Stale(id)' \/ StateOf(rights', id) = "Aborted"
    BY DEF StaleStaysBack
  <2>1. Edge(id) /\ rights'.epoch >= rights.epoch
    BY StepEdges
  <2>2. TypeOK'
    BY TypeStep
  <2>3. /\ rights.epoch \in Nat /\ rights'.epoch \in Nat
        /\ rights.reservations[id].epoch \in Nat
        /\ rights.reservations[id] # Missing
    BY <2>2, ReservationType, RightsAssumption
       DEF TypeOK, Ledger, Stale, Reservation, StateOf, Missing
  <2>4. QED
    BY <2>1, <2>3 DEF Edge, Stale, StateOf, Liable
<1>2. QED
  BY <1>1, TypeCorrect, PTL DEF Spec, StaleNeverDispatched

\* Dispatched and unknown effects stay liabilities until a reconciliation of
\* exactly that effect, across any reset; identifiers keep their effect and
\* epoch for ever, and a settled reservation is final.
THEOREM LiabilityHolds == Spec => LiabilityPersists
<1>1. TypeOK /\ [Next]_rights => [LiabilityKept]_rights
  <2> SUFFICES ASSUME TypeOK, [Next]_rights
               PROVE  LiabilityKept
    OBVIOUS
  <2>1. \A id \in Ids : Edge(id)
    BY StepEdges
  <2>2. QED
    BY <2>1 DEF Edge, LiabilityKept, BindingKept, SettledAlone, Settled, StateOf,
                Liable, Missing
<1>2. QED
  BY <1>1, TypeCorrect, PTL DEF Spec, LiabilityPersists

=============================================================================
