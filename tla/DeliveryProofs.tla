--------------------------- MODULE DeliveryProofs ---------------------------
(***************************************************************************)
(* Proofs about the control authority and about delivery, for any          *)
(* attempts, actions, targets, budget, reviews, messages, deadlines and    *)
(* interventions.                                                          *)
(*                                                                         *)
(* The first part is about the authority as a value: every operation that  *)
(* returns Ok takes a sound authority to a sound one and never loosens it. *)
(* The second lifts that to the host of a gate (the specification of       *)
(* ControlAuthority).  The third lifts the same lemmas to the broker,      *)
(* whose controller runs the same operations, and adds what a batch of     *)
(* settlements does, what broker and endpoint know of each attempt, the    *)
(* fence, and the stream.                                                  *)
(***************************************************************************)
EXTENDS Delivery, LedgerLemmas, SequenceTheorems

-----------------------------------------------------------------------------
(* Sound authorities.                                                      *)

InUse == Held \cup {"Committed"}

\* The ledger record and the lifecycle record of one attempt agree.
Matched(r, stage, action, id) ==
  /\ StateOf(r, id) \in LedgerStates(stage[id])
  /\ StateOf(r, id) # "Missing" =>
       /\ r.reservations[id].effect = action[id]
       /\ r.reservations[id].epoch = EpochOf[action[id]]
  /\ stage[id] # "Absent" => action[id] \in Effects

\* Free and used units make up the budget, and the spent ones are those of the
\* committed effects.
Balanced(r) ==
  /\ r.available + UnitsIn(r, InUse) = Total
  /\ r.spent = UnitsIn(r, {"Committed"})

Books(r, stage, action) ==
  /\ r \in Ledger
  /\ stage \in [Ids -> Stages \cup {"Absent"}]
  /\ action \in [Ids -> Effects \cup {NoEffect}]
  /\ \A id \in Ids : Matched(r, stage, action, id)
  /\ Balanced(r)

Sound(a) == a \in AuthorityValue /\ Books(a.rights, a.stage, a.action)

\* RestrictionsBind, of any authority.
Bound(a) == \A id \in UndispatchedIds(a) : InCeiling(a, a.action[id])

\* Tightens, of any two authorities.
TightensTo(a, b) ==
  /\ b.ceiling \subseteq a.ceiling
  /\ a.suspended => b.suspended
  /\ b.rights.epoch >= a.rights.epoch
  /\ b.sequence >= a.sequence
  /\ a.rounds \subseteq b.rounds
  /\ \A id \in Ids :
       (a.stage[id] = "Authorized" /\ b.stage[id] = "Dispatching") =>
         /\ a.rights.reservations[id].epoch = a.rights.epoch
         /\ InCeiling(a, a.action[id])

Good(a, b) == Sound(b) /\ Bound(b) /\ TightensTo(a, b)

\* The ledger states of the stages, one by one.
LEMMA StagesOfLedger ==
  /\ \A s \in {"Absent", "Proposed", "Prepared", "Reviewing"} : LedgerStates(s) = {"Missing"}
  /\ LedgerStates("Authorized") = {"Reserved"}
  /\ LedgerStates("Dispatching") = {"Dispatched"}
  /\ LedgerStates("Unknown") = {"Unknown"}
  /\ LedgerStates("IrrecoverablyUnknown") = {"Unknown"}
  /\ LedgerStates("Confirmed") = {"Committed"}
  /\ LedgerStates("ConfirmedNotExecuted") = {"Aborted"}
  /\ LedgerStates("Denied") = {"Missing", "Aborted"}
  /\ LedgerStates("Cancelled") = {"Missing", "Aborted"}
BY DEF LedgerStates

\* Where the books match, the ledger state tells the stage.
LEMMA LedgerTellsStage ==
  ASSUME NEW s \in Stages \cup {"Absent"}, NEW t \in LedgerStates(s)
  PROVE  /\ t = "Reserved" <=> s = "Authorized"
         /\ t = "Dispatched" <=> s = "Dispatching"
         /\ t = "Unknown" <=> s \in {"Unknown", "IrrecoverablyUnknown"}
         /\ t = "Committed" <=> s = "Confirmed"
         /\ t \in States \cup {"Missing"}
         /\ s \in Undispatched \ {"Authorized"} => t = "Missing"
BY StagesOfLedger DEF Stages, Undispatched, InFlight, Terminal, States, Held

-----------------------------------------------------------------------------
(* The books.                                                              *)

\* A ledger whose balances are not yet known to be u64s.
Draft ==
  [available : Nat, spent : Nat, epoch : 0..U64Max, incident_count : 0..U64Max,
   reservations : [Ids -> Reservation \cup {Missing}]]

\* The reservations of freed are given back, those of charged are spent, and the
\* others keep their state or stay held; the stages follow.
Shifted(r, stage, q, after, freed, charged) ==
  /\ q \in Draft
  /\ after \in [Ids -> Stages \cup {"Absent"}]
  /\ q.available = r.available + UnitsAmong(r, InUse, freed)
  /\ q.spent = r.spent + UnitsAmong(r, InUse, charged)
  /\ \A id \in Ids :
       /\ q.reservations[id].effect = r.reservations[id].effect
       /\ q.reservations[id].epoch = r.reservations[id].epoch
       /\ id \in freed => StateOf(r, id) \in Held /\ StateOf(q, id) = "Aborted"
       /\ id \in charged => StateOf(r, id) \in Held /\ StateOf(q, id) = "Committed"
       /\ id \notin freed \cup charged =>
            \/ StateOf(q, id) = StateOf(r, id)
            \/ StateOf(r, id) \in Held /\ StateOf(q, id) \in Held
       /\ StateOf(q, id) \in LedgerStates(after[id])
       /\ stage[id] = "Absent" => after[id] = "Absent"

\* The books are kept by every such change: in particular no balance leaves the
\* range of a u64, whether or not the code checks it.
LEMMA ShiftKeepsBooks ==
  ASSUME NEW r, NEW stage, NEW action, Books(r, stage, action),
         NEW q, NEW after, NEW freed \in SUBSET Ids, NEW charged \in SUBSET Ids,
         Shifted(r, stage, q, after, freed, charged)
  PROVE  Books(q, after, action)
<1> DEFINE C == {"Committed"}
<1>1. r \in Ledger /\ Total \in 0..U64Max /\ U64Max \in Nat
  BY RightsAssumption DEF Books
<1>2. \A id \in Ids : Matched(q, after, action, id)
  <2> SUFFICES ASSUME NEW id \in Ids
               PROVE  Matched(q, after, action, id)
    OBVIOUS
  <2>1. Matched(r, stage, action, id)
    BY DEF Books
  <2>2. StateOf(q, id) # "Missing" => StateOf(r, id) # "Missing"
    BY DEF Shifted, Held
  <2>3. QED
    BY <2>1, <2>2 DEF Matched, Shifted
<1>3. UnitsIn(r, InUse) = UnitsIn(q, InUse) + UnitsAmong(r, InUse, freed)
  <2>1. \A j \in Ids :
           /\ q.reservations[j].effect = r.reservations[j].effect
           /\ j \in freed => StateOf(r, j) \in InUse /\ StateOf(q, j) \notin InUse
           /\ j \notin freed => (StateOf(q, j) \in InUse <=> StateOf(r, j) \in InUse)
    BY DEF Shifted, InUse, Held
  <2>2. QED
    BY <2>1, LeaveTogether
<1>4. UnitsIn(q, C) = UnitsIn(r, C) + UnitsAmong(r, InUse, charged)
  <2>1. \A j \in Ids :
           /\ r.reservations[j].effect = q.reservations[j].effect
           /\ j \in charged => StateOf(q, j) \in C /\ StateOf(r, j) \notin C
           /\ j \notin charged => (StateOf(r, j) \in C <=> StateOf(q, j) \in C)
    BY DEF Shifted, Held
  <2>2. UnitsIn(q, C) = UnitsIn(r, C) + UnitsAmong(q, C, charged)
    BY <2>1, LeaveTogether
  <2>3. UnitsAmong(q, C, charged) = UnitsAmong(r, InUse, charged)
    BY AmongSame DEF Shifted, InUse
  <2>4. QED
    BY <2>2, <2>3
<1>5. /\ UnitsIn(q, InUse) \in Nat /\ UnitsIn(q, C) \in Nat
      /\ UnitsIn(r, InUse) \in Nat /\ UnitsIn(r, C) \in Nat
      /\ UnitsAmong(r, InUse, freed) \in Nat /\ UnitsAmong(r, InUse, charged) \in Nat
      /\ r.available \in Nat /\ r.spent \in Nat
  <2>1. r.available \in Nat /\ r.spent \in Nat
    BY <1>1 DEF Ledger
  <2>2. QED
    BY <2>1, PairsFinite, AmongNat
<1>6. Balanced(q)
  BY <1>3, <1>4, <1>5 DEF Books, Balanced, Shifted
<1>7. UnitsIn(q, C) <= UnitsIn(q, InUse)
  <2>1. UnitPairs(q, C) \in SUBSET UnitPairs(q, InUse)
    BY DEF UnitPairs, InUse
  <2>2. QED
    BY <2>1, PairsFinite, FS_Subset DEF UnitsIn
<1>8. q.available \in Nat /\ q.spent \in Nat
  BY DEF Shifted, Draft
<1>9. q.available \in 0..U64Max /\ q.spent \in 0..U64Max
  BY <1>1, <1>5, <1>6, <1>7, <1>8 DEF Balanced
<1>10. q \in Ledger
  BY <1>9 DEF Ledger, Draft, Shifted
<1>11. QED
  BY <1>2, <1>6, <1>10 DEF Books, Shifted

\* A reservation with another state.
LEMMA Restated ==
  ASSUME NEW r \in Ledger, NEW id \in Ids, StateOf(r, id) # "Missing", NEW t \in States
  PROVE  /\ [r.reservations[id] EXCEPT !.state = t] \in Reservation
         /\ [r.reservations[id] EXCEPT !.state = t].state = t
         /\ [r.reservations[id] EXCEPT !.state = t].effect = r.reservations[id].effect
         /\ [r.reservations[id] EXCEPT !.state = t].epoch = r.reservations[id].epoch
BY ReservationType DEF Reservation

\* One reservation moves from a held state, with the balance that goes with it.
LEMMA OneStateKeepsBooks ==
  ASSUME NEW r, NEW stage, NEW action, Books(r, stage, action),
         NEW id \in Ids, NEW t \in States, NEW s \in Stages, NEW q,
         StateOf(r, id) \in Held, t \in LedgerStates(s),
         q \in Draft, q.reservations = SetState(r, id, t),
         q.available = r.available + (IF t = "Aborted" THEN UnitsOf(r, id) ELSE 0),
         q.spent = r.spent + (IF t = "Committed" THEN UnitsOf(r, id) ELSE 0)
  PROVE  Books(q, [stage EXCEPT ![id] = s], action)
<1> DEFINE after == [stage EXCEPT ![id] = s]
           freed == IF t = "Aborted" THEN {id} ELSE {}
           charged == IF t = "Committed" THEN {id} ELSE {}
<1>1. /\ r \in Ledger /\ stage \in [Ids -> Stages \cup {"Absent"}]
      /\ r.reservations \in [Ids -> Reservation \cup {Missing}]
      /\ Matched(r, stage, action, id)
      /\ r.epoch \in 0..U64Max /\ r.incident_count \in 0..U64Max
  BY DEF Books, Ledger
<1>2. StateOf(r, id) # "Missing"
  BY DEF Held
<1>3. /\ q.reservations \in [Ids -> Reservation \cup {Missing}]
      /\ StateOf(q, id) = t
      /\ q.reservations[id].effect = r.reservations[id].effect
      /\ q.reservations[id].epoch = r.reservations[id].epoch
      /\ \A j \in Ids \ {id} : q.reservations[j] = r.reservations[j]
  BY <1>1, <1>2, Restated DEF SetState, StateOf
<1>4. /\ UnitsAmong(r, InUse, {}) = 0
      /\ UnitsAmong(r, InUse, {id}) = UnitsOf(r, id)
  <2>1. r.reservations[id].effect \in Effects /\ StateOf(r, id) \in InUse
    BY <1>1, <1>2, ReservationType DEF Reservation, InUse
  <2>2. QED
    BY <2>1, AmongFew
<1>5. stage[id] # "Absent"
  BY <1>1, StagesOfLedger DEF Matched, Held
<1>6. after \in [Ids -> Stages \cup {"Absent"}]
  BY <1>1
<1>7. ASSUME NEW j \in Ids
      PROVE  /\ q.reservations[j].effect = r.reservations[j].effect
             /\ q.reservations[j].epoch = r.reservations[j].epoch
             /\ j \in freed => StateOf(r, j) \in Held /\ StateOf(q, j) = "Aborted"
             /\ j \in charged => StateOf(r, j) \in Held /\ StateOf(q, j) = "Committed"
             /\ j \notin freed \cup charged =>
                  \/ StateOf(q, j) = StateOf(r, j)
                  \/ StateOf(r, j) \in Held /\ StateOf(q, j) \in Held
             /\ StateOf(q, j) \in LedgerStates(after[j])
             /\ stage[j] = "Absent" => after[j] = "Absent"
  <2>1. CASE j = id
    BY <1>1, <1>3, <1>5, <2>1 DEF States, Held
  <2>2. CASE j # id
    <3>1. q.reservations[j] = r.reservations[j] /\ after[j] = stage[j]
      BY <1>1, <1>3, <2>2
    <3>2. Matched(r, stage, action, j)
      BY DEF Books
    <3>3. QED
      BY <2>2, <3>1, <3>2 DEF StateOf, Matched
  <2>3. QED
    BY <2>1, <2>2
<1>8. /\ q.available = r.available + UnitsAmong(r, InUse, freed)
      /\ q.spent = r.spent + UnitsAmong(r, InUse, charged)
  BY <1>4
<1> HIDE DEF after, freed, charged
<1>9. Shifted(r, stage, q, after, freed, charged)
  BY <1>3, <1>6, <1>7, <1>8 DEF Shifted
<1>10. freed \in SUBSET Ids /\ charged \in SUBSET Ids
  BY DEF freed, charged
<1>11. Books(q, after, action)
  BY <1>9, <1>10, ShiftKeepsBooks
<1>12. QED
  BY <1>11 DEF after

\* A reservation is made: its units leave the free balance.
LEMMA ReserveKeepsBooks ==
  ASSUME NEW r, NEW stage, NEW action, Books(r, stage, action),
         NEW id \in Ids, stage[id] = "Reviewing", CanReserve(r, id, action[id]),
         EpochOf[action[id]] = r.epoch
  PROVE  Books(AfterReserve(r, id, action[id]), [stage EXCEPT ![id] = "Authorized"], action)
<1> DEFINE q == AfterReserve(r, id, action[id])
           after == [stage EXCEPT ![id] = "Authorized"]
           e == action[id]
<1>1. /\ r \in Ledger /\ stage \in [Ids -> Stages \cup {"Absent"}]
      /\ r.reservations \in [Ids -> Reservation \cup {Missing}]
      /\ e \in Effects
      /\ r.epoch \in 0..U64Max /\ r.incident_count \in 0..U64Max
      /\ r.available \in Nat /\ r.spent \in 0..U64Max
  BY DEF Books, Ledger, Matched
<1>2. Units[e] \in Nat /\ U64Max \in Nat /\ Total \in 0..U64Max
  BY <1>1, RightsAssumption
<1>3. [effect |-> e, epoch |-> r.epoch, state |-> "Reserved"] \in Reservation
  BY <1>1 DEF Reservation, States, Held
<1>4. StateOf(r, id) = "Missing" /\ Units[e] <= r.available
  <2>1. r.reservations[id] = Missing /\ Units[e] <= r.available
    BY DEF CanReserve
  <2>2. QED
    BY <2>1 DEF StateOf, Missing
<1>5. /\ q.reservations \in [Ids -> Reservation \cup {Missing}]
      /\ q.reservations[id] = [effect |-> e, epoch |-> r.epoch, state |-> "Reserved"]
      /\ \A j \in Ids \ {id} : q.reservations[j] = r.reservations[j]
      /\ q.available = r.available - Units[e] /\ q.spent = r.spent
  BY <1>1, <1>3 DEF AfterReserve, Ledger
<1>6. UnitsIn(q, InUse) = UnitsIn(r, InUse) + Units[e]
  <2>1. StateOf(q, id) \in InUse /\ StateOf(r, id) \notin InUse
    BY <1>4, <1>5 DEF StateOf, InUse, Held
  <2>2. UnitsOf(q, id) = Units[e] /\ q.reservations[id].effect \in Effects
    BY <1>1, <1>5 DEF UnitsOf
  <2> HIDE DEF q, e
  <2>3. QED
    BY <1>5, <2>1, <2>2, EnterStates
<1>7. UnitsIn(q, {"Committed"}) = UnitsIn(r, {"Committed"})
  <2>1. \A j \in Ids : /\ StateOf(q, j) \in {"Committed"} <=> StateOf(r, j) \in {"Committed"}
                       /\ StateOf(r, j) \in {"Committed"} =>
                            q.reservations[j].effect = r.reservations[j].effect
    BY <1>4, <1>5 DEF StateOf
  <2> HIDE DEF q
  <2>2. QED
    BY <2>1, SameStates
<1>8. UnitsIn(q, InUse) \in Nat /\ UnitsIn(r, InUse) \in Nat
  BY PairsFinite
<1>9. Balanced(q)
  <2> HIDE DEF q
  <2> QED BY <1>1, <1>2, <1>5, <1>6, <1>7, <1>8 DEF Balanced, Books
<1>10. r.available - Units[e] \in 0..U64Max
  BY <1>1, <1>2, <1>4 DEF Ledger
<1>11. q \in Ledger
  <2>1. [r.reservations EXCEPT ![id] = [effect |-> e, epoch |-> r.epoch, state |-> "Reserved"]]
          \in [Ids -> Reservation \cup {Missing}]
    BY <1>1, <1>3
  <2>2. QED
    BY <1>1, <1>10, <2>1 DEF AfterReserve, Ledger
<1> HIDE DEF q
<1>12. ASSUME NEW j \in Ids
       PROVE  Matched(q, after, action, j)
  <2>1. CASE j = id
    BY <1>1, <1>5, <2>1, StagesOfLedger DEF Matched, StateOf
  <2>2. CASE j # id
    <3>1. q.reservations[j] = r.reservations[j] /\ after[j] = stage[j]
      BY <1>1, <1>5, <2>2
    <3>2. QED
      BY <3>1 DEF Books, Matched, StateOf
  <2>3. QED
    BY <2>1, <2>2
<1>13. after \in [Ids -> Stages \cup {"Absent"}]
  BY <1>1 DEF Stages, Undispatched
<1>14. QED
  BY <1>9, <1>11, <1>12, <1>13 DEF Books, q

\* A stage moves while the reservation stays.
LEMMA StageKeepsBooks ==
  ASSUME NEW r, NEW stage, NEW action, Books(r, stage, action),
         NEW id \in Ids, NEW s \in Stages, stage[id] # "Absent",
         StateOf(r, id) \in LedgerStates(s)
  PROVE  Books(r, [stage EXCEPT ![id] = s], action)
BY DEF Books, Matched

\* The epoch of the ledger is not part of its books.
LEMMA EpochKeepsBooks ==
  ASSUME NEW r, NEW stage, NEW action, Books(r, stage, action), NEW n \in 0..U64Max
  PROVE  /\ Books([r EXCEPT !.epoch = n], stage, action)
         /\ [r EXCEPT !.epoch = n].epoch = n
<1> DEFINE q == [r EXCEPT !.epoch = n]
<1>1. r \in Ledger
  BY DEF Books
<1>2. /\ q \in Ledger /\ q.epoch = n /\ q.reservations = r.reservations
      /\ q.available = r.available /\ q.spent = r.spent
  BY <1>1 DEF Ledger
<1> HIDE DEF q
<1>3. /\ UnitsIn(q, InUse) = UnitsIn(r, InUse)
      /\ UnitsIn(q, {"Committed"}) = UnitsIn(r, {"Committed"})
  BY <1>2, SameStates DEF StateOf
<1>4. QED
  BY <1>2, <1>3 DEF Books, Balanced, Matched, StateOf, q

\* The reservations of stopped attempts are given back.
LEMMA AbortKeepsBooks ==
  ASSUME NEW a, Sound(a), NEW ids \in SUBSET UndispatchedIds(a), NEW after,
         after \in [Ids -> Stages \cup {"Absent"}],
         \A id \in ids : after[id] \in {"Cancelled", "Denied"},
         \A id \in Ids \ ids : after[id] = a.stage[id]
  PROVE  /\ Books(AbortedAll(a, ids), after, a.action)
         /\ AbortedAll(a, ids).epoch = a.rights.epoch
<1> DEFINE r == a.rights
           q == AbortedAll(a, ids)
           freed == Permitted(a, ids)
<1>1. /\ r \in Ledger /\ Books(r, a.stage, a.action)
      /\ r.reservations \in [Ids -> Reservation \cup {Missing}]
      /\ r.epoch \in 0..U64Max /\ r.incident_count \in 0..U64Max
      /\ a.stage \in [Ids -> Stages \cup {"Absent"}]
  BY DEF Sound, Books, Ledger
<1>2. freed \in SUBSET Ids /\ freed \subseteq ids
  BY DEF Permitted, UndispatchedIds
<1>3. ASSUME NEW id \in Ids
      PROVE  /\ id \in freed => StateOf(r, id) = "Reserved"
             /\ id \in ids \ freed => StateOf(r, id) = "Missing"
             /\ id \in ids => a.stage[id] \in Undispatched
  <2>1. StateOf(r, id) \in LedgerStates(a.stage[id])
    BY DEF Sound, Books, Matched
  <2>2. a.stage[id] \in Stages \cup {"Absent"}
    BY <1>1
  <2>3. QED
    BY <2>1, <2>2, LedgerTellsStage DEF Permitted, UndispatchedIds
<1>4. UnitsAmong(r, {"Reserved"}, freed) = UnitsAmong(r, InUse, freed)
  BY <1>3, AmongSame DEF InUse, Held
<1>5. /\ q.available = r.available + UnitsAmong(r, {"Reserved"}, freed)
      /\ q.spent = r.spent /\ q.epoch = r.epoch /\ q.incident_count = r.incident_count
      /\ q.reservations =
           [id \in Ids |-> IF id \in freed THEN [r.reservations[id] EXCEPT !.state = "Aborted"]
                                          ELSE r.reservations[id]]
  BY <1>1 DEF AbortedAll, RefundOf, UnitsAmong, Ledger
<1>6. /\ UnitsAmong(r, InUse, {}) = 0 /\ r.spent \in Nat /\ r.available \in Nat
      /\ UnitsAmong(r, {"Reserved"}, freed) \in Nat
  <2>1. r.spent \in Nat /\ r.available \in Nat
    BY <1>1 DEF Ledger
  <2>2. QED
    BY <2>1, AmongFew, AmongNat
<1>7. ASSUME NEW id \in Ids
      PROVE  /\ id \in freed => /\ q.reservations[id] \in Reservation
                                /\ StateOf(q, id) = "Aborted"
                                /\ q.reservations[id].effect = r.reservations[id].effect
                                /\ q.reservations[id].epoch = r.reservations[id].epoch
             /\ id \notin freed => q.reservations[id] = r.reservations[id]
  <2> HIDE DEF q, freed
  <2>1. CASE id \in freed
    <3>1. q.reservations[id] = [r.reservations[id] EXCEPT !.state = "Aborted"]
      BY <1>5, <2>1
    <3>2. StateOf(r, id) # "Missing" /\ "Aborted" \in States
      BY <1>3, <2>1 DEF States
    <3>3. QED
      BY <1>1, <2>1, <3>1, <3>2, Restated DEF StateOf
  <2>2. CASE id \notin freed
    BY <1>5, <2>2
  <2>3. QED
    BY <2>1, <2>2
<1>8. q \in Draft
  <2>1. q.reservations \in [Ids -> Reservation \cup {Missing}]
    <3> HIDE DEF q, freed
    <3> QED BY <1>1, <1>5, <1>7
  <2>2. r.available + RefundOf(r, freed) \in Nat
    BY <1>6 DEF RefundOf, UnitsAmong
  <2>3. QED
    BY <1>1, <1>5, <1>6, <2>1, <2>2 DEF AbortedAll, Ledger, Draft
<1> HIDE DEF q, freed
<1>9. ASSUME NEW id \in Ids
      PROVE  /\ StateOf(q, id) \in LedgerStates(after[id])
             /\ a.stage[id] = "Absent" => after[id] = "Absent"
  <2>1. CASE id \in ids
    BY <1>3, <1>7, <2>1, StagesOfLedger DEF StateOf, Undispatched
  <2>2. CASE id \notin ids
    BY <1>2, <1>7, <2>2 DEF StateOf, Sound, Books, Matched
  <2>3. QED
    BY <2>1, <2>2
<1>10. Shifted(r, a.stage, q, after, freed, {})
  BY <1>3, <1>4, <1>5, <1>6, <1>7, <1>8, <1>9 DEF Shifted, StateOf, Held
<1>11. Books(q, after, a.action)
  <2> HIDE DEF r
  <2> QED BY <1>1, <1>2, <1>10, ShiftKeepsBooks
<1>12. QED
  BY <1>5, <1>11 DEF q

\* The same by the ledger's own reset, which keeps no reservation.
LEMMA ResetKeepsBooks ==
  ASSUME NEW a, Sound(a), CanReset(a.rights, {})
  PROVE  /\ Books(AfterReset(a.rights, {}), StoppedAs(a, UndispatchedIds(a), "Cancelled"),
                  a.action)
         /\ AfterReset(a.rights, {}).epoch = a.rights.epoch
<1> DEFINE r == a.rights
           q == AfterReset(r, {})
           after == StoppedAs(a, UndispatchedIds(a), "Cancelled")
           freed == Dropped(r, {})
<1>1. /\ r \in Ledger /\ Books(r, a.stage, a.action)
      /\ r.reservations \in [Ids -> Reservation \cup {Missing}]
      /\ r.epoch \in 0..U64Max /\ r.incident_count \in 0..U64Max
      /\ a.stage \in [Ids -> Stages \cup {"Absent"}]
  BY DEF Sound, Books, Ledger
<1>2. freed \in SUBSET Ids /\ \A id \in freed : StateOf(r, id) = "Reserved"
  BY DEF Dropped
<1>3. UnitsAmong(r, InUse, freed) = Refund(r, {})
  <2>1. UnitsAmong(r, {"Reserved"}, freed) = UnitsAmong(r, InUse, freed)
    BY <1>2, AmongSame DEF InUse, Held
  <2>2. {p \in UnitPairs(r, {"Reserved"}) : p[1] \in freed}
          = {p \in UnitPairs(r, {"Reserved"}) : p[1] \notin {}}
    BY DEF UnitPairs, Dropped
  <2>3. QED
    BY <2>1, <2>2 DEF UnitsAmong, Refund
<1>4. /\ q.available = r.available + Refund(r, {})
      /\ q.spent = r.spent /\ q.epoch = r.epoch /\ q.incident_count = r.incident_count + 1
      /\ q.reservations =
           [id \in Ids |-> IF id \in freed THEN [r.reservations[id] EXCEPT !.state = "Aborted"]
                                          ELSE r.reservations[id]]
  BY <1>1 DEF AfterReset, Ledger
<1>5. /\ r.incident_count + 1 \in 0..U64Max /\ r.spent \in Nat
      /\ UnitsAmong(r, InUse, {}) = 0 /\ r.available + Refund(r, {}) \in Nat
  BY <1>1, AmongFew, RefundBound, RightsAssumption DEF CanReset, Ledger
<1>6. ASSUME NEW id \in Ids
      PROVE  /\ id \in freed => /\ q.reservations[id] \in Reservation
                                /\ StateOf(q, id) = "Aborted"
                                /\ q.reservations[id].effect = r.reservations[id].effect
                                /\ q.reservations[id].epoch = r.reservations[id].epoch
             /\ id \notin freed => q.reservations[id] = r.reservations[id]
  <2> HIDE DEF q, freed
  <2>1. CASE id \in freed
    <3>1. q.reservations[id] = [r.reservations[id] EXCEPT !.state = "Aborted"]
      BY <1>4, <2>1
    <3>2. StateOf(r, id) # "Missing" /\ "Aborted" \in States
      BY <1>2, <2>1 DEF States
    <3>3. QED
      BY <1>1, <2>1, <3>1, <3>2, Restated DEF StateOf
  <2>2. CASE id \notin freed
    BY <1>4, <2>2
  <2>3. QED
    BY <2>1, <2>2
<1>7. q \in Draft
  <2>1. q.reservations \in [Ids -> Reservation \cup {Missing}]
    <3> HIDE DEF q, freed
    <3> QED BY <1>1, <1>4, <1>6
  <2>2. QED
    BY <1>1, <1>4, <1>5, <2>1 DEF AfterReset, Ledger, Draft
<1>8. after \in [Ids -> Stages \cup {"Absent"}]
  BY <1>1 DEF StoppedAs, Stages, Terminal
<1>9. ASSUME NEW id \in Ids
      PROVE  /\ StateOf(q, id) \in LedgerStates(after[id])
             /\ a.stage[id] = "Absent" => after[id] = "Absent"
  <2>1. StateOf(r, id) \in LedgerStates(a.stage[id]) /\ a.stage[id] \in Stages \cup {"Absent"}
    BY <1>1 DEF Sound, Books, Matched
  <2>2. id \in freed <=> StateOf(r, id) = "Reserved"
    BY DEF Dropped
  <2>3. CASE id \in UndispatchedIds(a)
    <3>1. after[id] = "Cancelled" /\ a.stage[id] \in Undispatched
      BY <2>3 DEF StoppedAs, UndispatchedIds
    <3>2. StateOf(r, id) \in {"Reserved", "Missing"}
      BY <2>1, <3>1, LedgerTellsStage
    <3> HIDE DEF q, freed, after
    <3>3. StateOf(q, id) \in {"Aborted", "Missing"}
      BY <1>6, <2>2, <3>2 DEF StateOf
    <3>4. QED
      BY <3>1, <3>3, StagesOfLedger DEF Undispatched
  <2>4. CASE id \notin UndispatchedIds(a)
    <3>1. after[id] = a.stage[id] /\ a.stage[id] \notin Undispatched
      BY <2>4 DEF StoppedAs, UndispatchedIds
    <3>2. StateOf(r, id) # "Reserved"
      BY <2>1, <3>1, LedgerTellsStage DEF Undispatched
    <3> HIDE DEF q, freed, after
    <3>3. QED
      BY <1>6, <2>1, <2>2, <3>1, <3>2 DEF StateOf
  <2>5. QED
    BY <2>3, <2>4
<1> HIDE DEF q, freed, after
<1>10. Shifted(r, a.stage, q, after, freed, {})
  BY <1>2, <1>3, <1>4, <1>5, <1>6, <1>7, <1>8, <1>9 DEF Shifted, StateOf, Held
<1>11. Books(q, after, a.action)
  <2> HIDE DEF r
  <2> QED BY <1>1, <1>2, <1>10, ShiftKeepsBooks
<1>12. QED
  BY <1>4, <1>11 DEF q, after

-----------------------------------------------------------------------------
(* The operations on one attempt keep an authority good.                   *)

\* What Sound gives about the fields.
LEMMA SoundFields ==
  ASSUME NEW a, Sound(a)
  PROVE  /\ a \in AuthorityValue /\ Books(a.rights, a.stage, a.action)
         /\ a.rights \in Ledger /\ a.rights.epoch \in 0..U64Max
         /\ a.stage \in [Ids -> Stages \cup {"Absent"}]
         /\ a.action \in [Ids -> Effects \cup {NoEffect}]
         /\ a.sequence \in 0..U64Max
         /\ U64Max \in Nat
BY RightsAssumption DEF Sound, Books, AuthorityValue, Ledger

\* One attempt moves to stage s, with ledger q.
LEMMA AttemptGood ==
  ASSUME NEW a, Sound(a), Bound(a), NEW id \in Ids, NEW s \in Stages, NEW q,
         Books(q, [a.stage EXCEPT ![id] = s], a.action), q.epoch = a.rights.epoch,
         s \in Undispatched => a.stage[id] \in Undispatched,
         a.stage[id] = "Authorized" /\ s = "Dispatching" =>
           /\ a.rights.reservations[id].epoch = a.rights.epoch
           /\ InCeiling(a, a.action[id]),
         NEW b, b = [a EXCEPT !.rights = q, !.stage[id] = s]
  PROVE  Good(a, b)
<1>1. a \in AuthorityValue
  BY DEF Sound
<1>2. q \in Ledger /\ [a.stage EXCEPT ![id] = s] \in [Ids -> Stages \cup {"Absent"}]
  BY DEF Books
<1>3. /\ b \in AuthorityValue
      /\ b.rights = q /\ b.stage = [a.stage EXCEPT ![id] = s] /\ b.action = a.action
      /\ b.sequence = a.sequence /\ b.suspended = a.suspended /\ b.ceiling = a.ceiling
      /\ b.rounds = a.rounds
  BY <1>1, <1>2 DEF AuthorityValue
<1>4. Sound(b)
  BY <1>3 DEF Sound
<1>5. \A j \in Ids \ {id} : b.stage[j] = a.stage[j]
  BY <1>1, <1>3 DEF AuthorityValue
<1>6. b.stage[id] = s
  BY <1>1, <1>3 DEF AuthorityValue
<1>7. Bound(b)
  BY <1>3, <1>5, <1>6 DEF Bound, UndispatchedIds, InCeiling
<1>8. a.rights.epoch >= a.rights.epoch /\ a.sequence >= a.sequence
  BY SoundFields
<1>9. TightensTo(a, b)
  BY <1>3, <1>5, <1>6, <1>8 DEF TightensTo
<1>10. QED
  BY <1>4, <1>7, <1>9 DEF Good

\* Only the stage moves.
LEMMA StageGood ==
  ASSUME NEW a, Sound(a), Bound(a), NEW id \in Ids, NEW s \in Stages,
         a.stage[id] # "Absent", StateOf(a.rights, id) \in LedgerStates(s),
         s \in Undispatched => a.stage[id] \in Undispatched, s # "Dispatching",
         NEW b, b = [a EXCEPT !.stage[id] = s]
  PROVE  Good(a, b)
<1>1. b = [a EXCEPT !.rights = a.rights, !.stage[id] = s]
  BY DEF Sound, AuthorityValue
<1>2. Books(a.rights, [a.stage EXCEPT ![id] = s], a.action)
  BY StageKeepsBooks DEF Sound
<1>3. QED
  BY <1>1, <1>2, AttemptGood

\* observe_time moves the clock and nothing that the invariant compares.
LEMMA ObserveGood ==
  ASSUME NEW a, Sound(a), Bound(a), NEW tick \in 0..MaxTick
  PROVE  Good(a, AfterObserveTime(a, tick))
<1> DEFINE b == AfterObserveTime(a, tick)
<1>1. a \in AuthorityValue /\ tick \in -1..MaxTick
  BY AuthorityAssumption DEF Sound
<1>2. /\ b \in AuthorityValue
      /\ b.rights = a.rights /\ b.stage = a.stage /\ b.action = a.action
      /\ b.sequence = a.sequence /\ b.suspended = a.suspended /\ b.ceiling = a.ceiling
      /\ b.rounds = a.rounds
  BY <1>1 DEF AfterObserveTime, AuthorityValue
<1> HIDE DEF b
<1>3. a.rights.epoch >= a.rights.epoch /\ a.sequence >= a.sequence
  BY SoundFields
<1>4. Sound(b) /\ Bound(b) /\ TightensTo(a, b)
  BY <1>2, <1>3 DEF Sound, Bound, UndispatchedIds, InCeiling, TightensTo
<1>5. QED
  BY <1>4 DEF Good, b

\* propose starts an attempt whose identifier the ledger has not used.
LEMMA ProposeGood ==
  ASSUME NEW a, Sound(a), Bound(a), NEW id \in Ids, NEW e \in Effects, CanPropose(a, id, e)
  PROVE  Good(a, AfterPropose(a, id, e))
<1> DEFINE b == AfterPropose(a, id, e)
<1>1. /\ a \in AuthorityValue /\ a.stage[id] = "Absent" /\ InCeiling(a, e)
      /\ "Proposed" \in Stages
  BY DEF Sound, CanPropose, Stages, Undispatched
<1>2. /\ b \in AuthorityValue
      /\ b.rights = a.rights /\ b.stage = [a.stage EXCEPT ![id] = "Proposed"]
      /\ b.action = [a.action EXCEPT ![id] = e]
      /\ b.sequence = a.sequence /\ b.suspended = a.suspended /\ b.ceiling = a.ceiling
      /\ b.rounds = a.rounds
  BY <1>1 DEF AfterPropose, AuthorityValue
<1> HIDE DEF b
<1>3. /\ \A j \in Ids \ {id} : b.stage[j] = a.stage[j] /\ b.action[j] = a.action[j]
      /\ b.stage[id] = "Proposed" /\ b.action[id] = e
  BY <1>1, <1>2, SoundFields
<1>4. StateOf(a.rights, id) = "Missing"
  BY <1>1, StagesOfLedger DEF Sound, Books, Matched
<1>5. Books(b.rights, b.stage, b.action)
  <2>1. ASSUME NEW j \in Ids
        PROVE  Matched(b.rights, b.stage, b.action, j)
    <3>1. CASE j = id
      BY <1>2, <1>3, <1>4, <3>1, StagesOfLedger DEF Matched
    <3>2. CASE j # id
      BY <1>2, <1>3, <3>2 DEF Sound, Books, Matched
    <3>3. QED
      BY <3>1, <3>2
  <2>2. QED
    BY <1>2, <2>1 DEF Sound, Books, AuthorityValue
<1>6. Bound(b)
  BY <1>1, <1>2, <1>3 DEF Bound, UndispatchedIds, InCeiling
<1>7. a.rights.epoch >= a.rights.epoch /\ a.sequence >= a.sequence
  BY SoundFields
<1>8. TightensTo(a, b)
  BY <1>2, <1>3, <1>7 DEF TightensTo
<1>9. QED
  BY <1>2, <1>5, <1>6, <1>8 DEF Good, Sound, b

\* prepare and begin_review move an attempt between stages without a reservation.
LEMMA EarlyGood ==
  ASSUME NEW a, Sound(a), Bound(a), NEW id \in Ids
  PROVE  /\ CanPrepare(a, id) => Good(a, AfterPrepare(a, id))
         /\ CanBeginReview(a, id) => Good(a, AfterBeginReview(a, id))
<1>1. StateOf(a.rights, id) \in LedgerStates(a.stage[id])
  BY DEF Sound, Books, Matched
<1>2. ASSUME CanPrepare(a, id)
      PROVE  Good(a, AfterPrepare(a, id))
  <2>1. a.stage[id] = "Proposed"
    BY <1>2 DEF CanPrepare
  <2>2. StateOf(a.rights, id) \in LedgerStates("Prepared")
    BY <1>1, <2>1, StagesOfLedger
  <2>3. "Prepared" \in Stages /\ "Proposed" \in Undispatched
    BY DEF Stages, Undispatched
  <2>4. QED
    BY <2>1, <2>2, <2>3, StageGood DEF AfterPrepare
<1>3. ASSUME CanBeginReview(a, id)
      PROVE  Good(a, AfterBeginReview(a, id))
  <2>1. a.stage[id] = "Prepared"
    BY <1>3 DEF CanBeginReview
  <2>2. StateOf(a.rights, id) \in LedgerStates("Reviewing")
    BY <1>1, <2>1, StagesOfLedger
  <2>3. "Reviewing" \in Stages /\ "Prepared" \in Undispatched
    BY DEF Stages, Undispatched
  <2>4. QED
    BY <2>1, <2>2, <2>3, StageGood DEF AfterBeginReview
<1>4. QED
  BY <1>2, <1>3

\* authorize reserves and moves the stage in one call, within ceiling and suspension.
LEMMA AuthorizeGood ==
  ASSUME NEW a, Sound(a), Bound(a), NEW id \in Ids, CanAuthorize(a, id)
  PROVE  Good(a, AfterAuthorize(a, id))
<1> DEFINE q == AfterReserve(a.rights, id, a.action[id])
<1>1. /\ a.stage[id] = "Reviewing" /\ CanReserve(a.rights, id, a.action[id])
      /\ EpochOf[a.action[id]] = a.rights.epoch
  BY DEF CanAuthorize, Current
<1>2. Books(q, [a.stage EXCEPT ![id] = "Authorized"], a.action)
  BY <1>1, ReserveKeepsBooks DEF Sound
<1>3. q.epoch = a.rights.epoch
  BY SoundFields DEF AfterReserve, Ledger
<1>4. AfterAuthorize(a, id) = [a EXCEPT !.rights = q, !.stage[id] = "Authorized"]
  BY DEF AfterAuthorize
<1>5. "Authorized" \in Stages /\ "Reviewing" \in Undispatched
  BY DEF Stages, Undispatched
<1> HIDE DEF q
<1>6. QED
  BY <1>1, <1>2, <1>3, <1>4, <1>5, AttemptGood

\* A state change of one reservation is a draft, whatever it does to a balance.
LEMMA DraftOf ==
  ASSUME NEW r \in Ledger, NEW id \in Ids, NEW t \in States, StateOf(r, id) # "Missing"
  PROVE  /\ SetState(r, id, t) \in [Ids -> Reservation \cup {Missing}]
         /\ UnitsOf(r, id) \in Nat
         /\ r.available \in Nat /\ r.spent \in Nat
<1>1. r.reservations \in [Ids -> Reservation \cup {Missing}]
  BY DEF Ledger
<1>2. SetState(r, id, t) \in [Ids -> Reservation \cup {Missing}]
  BY <1>1, Restated DEF SetState
<1>3. QED
  BY <1>2, ReservationType, RightsAssumption DEF Ledger

\* Ledger q is r with the reservation of id in state t, and its units given back
\* or spent if t says so.
LedgerMoves(r, q, id, t) ==
  /\ q \in Draft /\ q.reservations = SetState(r, id, t) /\ q.epoch = r.epoch
  /\ q.available = r.available + (IF t = "Aborted" THEN UnitsOf(r, id) ELSE 0)
  /\ q.spent = r.spent + (IF t = "Committed" THEN UnitsOf(r, id) ELSE 0)

\* A held reservation moves to state t and its attempt to stage s.
LEMMA HeldGood ==
  ASSUME NEW a, Sound(a), Bound(a), NEW id \in Ids, NEW t \in States, NEW s \in Stages,
         StateOf(a.rights, id) \in Held, t \in LedgerStates(s), s \notin Undispatched,
         a.stage[id] = "Authorized" /\ s = "Dispatching" =>
           /\ a.rights.reservations[id].epoch = a.rights.epoch
           /\ InCeiling(a, a.action[id]),
         NEW q, LedgerMoves(a.rights, q, id, t),
         NEW b, b = [a EXCEPT !.rights = q, !.stage[id] = s]
  PROVE  Good(a, b)
<1>1. Books(a.rights, a.stage, a.action)
  BY SoundFields
<1>2. Books(q, [a.stage EXCEPT ![id] = s], a.action)
  BY <1>1, OneStateKeepsBooks DEF LedgerMoves
<1>3. q.epoch = a.rights.epoch
  BY DEF LedgerMoves
<1>4. QED
  BY <1>2, <1>3, AttemptGood

\* The draft q of r has reservations f and balances raised by x and y.
DraftWith(r, q, f, x, y) ==
  /\ q \in Draft /\ q.reservations = f /\ q.epoch = r.epoch
  /\ q.available = r.available + x /\ q.spent = r.spent + y

\* The operations of the ledger do that.
LEMMA DraftForm ==
  ASSUME NEW r \in Ledger, NEW f \in [Ids -> Reservation \cup {Missing}], NEW x \in Nat
  PROVE  /\ DraftWith(r, [r EXCEPT !.reservations = f], f, 0, 0)
         /\ DraftWith(r, [r EXCEPT !.available = @ + x, !.reservations = f], f, x, 0)
         /\ DraftWith(r, [r EXCEPT !.spent = @ + x, !.reservations = f], f, 0, x)
<1>1. /\ r.available \in Nat /\ r.spent \in Nat
      /\ r.available + x \in Nat /\ r.spent + x \in Nat
      /\ r.available + 0 = r.available /\ r.spent + 0 = r.spent
  BY DEF Ledger
<1>2. DraftWith(r, [r EXCEPT !.reservations = f], f, 0, 0)
  BY <1>1 DEF Ledger, Draft, DraftWith
<1>3. DraftWith(r, [r EXCEPT !.available = @ + x, !.reservations = f], f, x, 0)
  <2> DEFINE q == [r EXCEPT !.available = @ + x, !.reservations = f]
  <2>1. q \in Draft
    BY <1>1 DEF Ledger, Draft
  <2>2. /\ q.reservations = f /\ q.epoch = r.epoch
        /\ q.available = r.available + x /\ q.spent = r.spent
    BY DEF Ledger
  <2>3. QED
    BY <1>1, <2>1, <2>2 DEF DraftWith
<1>4. DraftWith(r, [r EXCEPT !.spent = @ + x, !.reservations = f], f, 0, x)
  <2> DEFINE q == [r EXCEPT !.spent = @ + x, !.reservations = f]
  <2>1. q \in Draft
    BY <1>1 DEF Ledger, Draft
  <2>2. /\ q.reservations = f /\ q.epoch = r.epoch
        /\ q.available = r.available /\ q.spent = r.spent + x
    BY DEF Ledger
  <2>3. QED
    BY <1>1, <2>1, <2>2 DEF DraftWith
<1>5. QED
  BY <1>2, <1>3, <1>4

\* What dispatch, mark_unknown, abort and reconcile each do to the one reservation.
LEMMA LedgerForms ==
  ASSUME NEW r \in Ledger, NEW id \in Ids, StateOf(r, id) # "Missing"
  PROVE  /\ LedgerMoves(r, AfterDispatch(r, id), id, "Dispatched")
         /\ LedgerMoves(r, AfterMarkUnknown(r, id), id, "Unknown")
         /\ LedgerMoves(r, AfterAbort(r, id), id, "Aborted")
         /\ LedgerMoves(r, AfterReconcile(r, id, FALSE), id, "Aborted")
         /\ LedgerMoves(r, AfterReconcile(r, id, TRUE), id, "Committed")
<1> DEFINE u == UnitsOf(r, id)
           f(t) == SetState(r, id, t)
<1>1. r.available \in Nat /\ r.spent \in Nat /\ u \in Nat /\ 0 \in Nat
  BY DraftOf DEF States
<1>2. \A t \in States : f(t) \in [Ids -> Reservation \cup {Missing}]
  BY DraftOf
<1>3. /\ "Dispatched" \in States /\ "Unknown" \in States
      /\ "Aborted" \in States /\ "Committed" \in States
  BY DEF States, Held
<1>4. ASSUME NEW t \in States
      PROVE  /\ DraftWith(r, [r EXCEPT !.reservations = f(t)], f(t), 0, 0)
             /\ DraftWith(r, [r EXCEPT !.available = @ + u, !.reservations = f(t)], f(t), u, 0)
             /\ DraftWith(r, [r EXCEPT !.spent = @ + u, !.reservations = f(t)], f(t), 0, u)
  <2> DEFINE g == f(t)
  <2>1. g \in [Ids -> Reservation \cup {Missing}]
    BY <1>2
  <2> HIDE DEF g, u
  <2>2. /\ DraftWith(r, [r EXCEPT !.reservations = g], g, 0, 0)
        /\ DraftWith(r, [r EXCEPT !.available = @ + u, !.reservations = g], g, u, 0)
        /\ DraftWith(r, [r EXCEPT !.spent = @ + u, !.reservations = g], g, 0, u)
    BY <1>1, <2>1, DraftForm
  <2>3. QED
    BY <2>2 DEF g
<1>5. /\ AfterDispatch(r, id) = [r EXCEPT !.reservations = f("Dispatched")]
      /\ AfterMarkUnknown(r, id) = [r EXCEPT !.reservations = f("Unknown")]
      /\ AfterAbort(r, id) = [r EXCEPT !.available = @ + u, !.reservations = f("Aborted")]
      /\ AfterReconcile(r, id, FALSE) =
           [r EXCEPT !.available = @ + u, !.reservations = f("Aborted")]
      /\ AfterReconcile(r, id, TRUE) =
           [r EXCEPT !.spent = @ + u, !.reservations = f("Committed")]
  BY DEF AfterDispatch, AfterMarkUnknown, AfterAbort, AfterReconcile
<1> HIDE DEF u, f
<1>6. LedgerMoves(r, AfterDispatch(r, id), id, "Dispatched")
  <2> DEFINE q == AfterDispatch(r, id)
             g == f("Dispatched")
  <2>1. DraftWith(r, [r EXCEPT !.reservations = g], g, 0, 0)
    BY <1>3, <1>4 DEF g
  <2>2. q = [r EXCEPT !.reservations = g]
    BY <1>5
  <2>3. DraftWith(r, q, g, 0, 0)
    BY <2>1, <2>2
  <2> HIDE DEF q, g
  <2>4. QED
    BY <2>3 DEF LedgerMoves, DraftWith, q, g, f, u
<1>7. LedgerMoves(r, AfterMarkUnknown(r, id), id, "Unknown")
  BY <1>3, <1>4, <1>5 DEF LedgerMoves, DraftWith, f, u
<1>8. LedgerMoves(r, AfterAbort(r, id), id, "Aborted")
  BY <1>3, <1>4, <1>5 DEF LedgerMoves, DraftWith, f, u
<1>9. LedgerMoves(r, AfterReconcile(r, id, FALSE), id, "Aborted")
  BY <1>3, <1>4, <1>5 DEF LedgerMoves, DraftWith, f, u
<1>10. LedgerMoves(r, AfterReconcile(r, id, TRUE), id, "Committed")
  BY <1>3, <1>4, <1>5 DEF LedgerMoves, DraftWith, f, u
<1>11. QED
  BY <1>6, <1>7, <1>8, <1>9, <1>10

\* dispatch moves stage and reservation together, and only what is not revoked.
LEMMA DispatchGood ==
  ASSUME NEW a, Sound(a), Bound(a), NEW id \in Ids, CanDispatchAttempt(a, id)
  PROVE  Good(a, AfterDispatchAttempt(a, id))
<1>1. /\ StateOf(a.rights, id) = "Reserved"
      /\ a.rights.reservations[id].epoch = a.rights.epoch
      /\ InCeiling(a, a.action[id])
  BY DEF CanDispatchAttempt, CanDispatch, MayContinue
<1>2. /\ "Dispatched" \in States /\ "Dispatching" \in Stages \ Undispatched
      /\ "Dispatched" \in LedgerStates("Dispatching") /\ "Reserved" \in Held
  BY StagesOfLedger DEF States, Held, Stages, InFlight, Undispatched
<1>3. LedgerMoves(a.rights, AfterDispatch(a.rights, id), id, "Dispatched")
  BY <1>1, SoundFields, LedgerForms
<1>4. QED
  BY <1>1, <1>2, <1>3, HeldGood DEF AfterDispatchAttempt

\* mark_unknown and the irrecoverable mark keep the units held.
LEMMA UnknownGood ==
  ASSUME NEW a, Sound(a), Bound(a), NEW id \in Ids
  PROVE  /\ CanMarkAttemptUnknown(a, id) => Good(a, AfterMarkAttemptUnknown(a, id))
         /\ CanMarkIrrecoverable(a, id) => Good(a, AfterMarkIrrecoverable(a, id))
<1>1. ASSUME CanMarkAttemptUnknown(a, id)
      PROVE  Good(a, AfterMarkAttemptUnknown(a, id))
  <2>1. StateOf(a.rights, id) = "Dispatched"
    BY <1>1 DEF CanMarkAttemptUnknown, CanMarkUnknown
  <2>2. /\ "Unknown" \in States /\ "Unknown" \in Stages \ Undispatched
        /\ "Unknown" \in LedgerStates("Unknown") /\ "Dispatched" \in Held
    BY StagesOfLedger DEF States, Held, Stages, InFlight, Undispatched
  <2>3. LedgerMoves(a.rights, AfterMarkUnknown(a.rights, id), id, "Unknown")
    BY <2>1, SoundFields, LedgerForms
  <2>4. QED
    BY <2>1, <2>2, <2>3, HeldGood DEF AfterMarkAttemptUnknown
<1>2. ASSUME CanMarkIrrecoverable(a, id)
      PROVE  Good(a, AfterMarkIrrecoverable(a, id))
  <2>1. a.stage[id] = "Unknown"
    BY <1>2 DEF CanMarkIrrecoverable
  <2>2. StateOf(a.rights, id) \in LedgerStates("IrrecoverablyUnknown")
    BY <2>1, StagesOfLedger DEF Sound, Books, Matched
  <2>3. "IrrecoverablyUnknown" \in Stages \ Undispatched
    BY DEF Stages, InFlight, Undispatched
  <2>4. QED
    BY <2>1, <2>2, <2>3, StageGood DEF AfterMarkIrrecoverable
<1>3. QED
  BY <1>1, <1>2

\* cancel and deny give back what was reserved for work that never left.
LEMMA StopGood ==
  ASSUME NEW a, Sound(a), Bound(a), NEW id \in Ids, NEW terminal \in {"Cancelled", "Denied"},
         CanStop(a, id)
  PROVE  Good(a, AfterStop(a, id, terminal))
<1>1. a.stage[id] \in Undispatched /\ StateOf(a.rights, id) \in LedgerStates(a.stage[id])
  BY DEF CanStop, Sound, Books, Matched
<1>2. /\ terminal \in Stages \ Undispatched
      /\ LedgerStates(terminal) = {"Missing", "Aborted"}
      /\ "Aborted" \in States
  BY StagesOfLedger DEF Stages, Terminal, Undispatched, States
<1>3. CASE a.stage[id] = "Authorized"
  <2>1. StateOf(a.rights, id) \in Held /\ StateOf(a.rights, id) # "Missing"
    BY <1>1, <1>3, StagesOfLedger DEF Held
  <2>2. AfterStop(a, id, terminal) =
          [a EXCEPT !.rights = AfterAbort(a.rights, id), !.stage[id] = terminal]
    BY <1>3 DEF AfterStop
  <2>3. LedgerMoves(a.rights, AfterAbort(a.rights, id), id, "Aborted")
    BY <2>1, SoundFields, LedgerForms
  <2>4. QED
    BY <1>2, <2>1, <2>2, <2>3, HeldGood
<1>4. CASE a.stage[id] # "Authorized"
  <2>1. StateOf(a.rights, id) = "Missing" /\ a.stage[id] # "Absent"
    BY <1>1, <1>4, StagesOfLedger DEF Undispatched
  <2>2. AfterStop(a, id, terminal) = [a EXCEPT !.stage[id] = terminal]
    BY <1>4, SoundFields DEF AfterStop, AuthorityValue
  <2>3. QED
    BY <1>2, <2>1, <2>2, StageGood
<1>5. QED
  BY <1>3, <1>4

\* A recorded outcome settles stage and reservation the same way.
LEMMA OutcomeGood ==
  ASSUME NEW a, Sound(a), Bound(a), NEW id \in Ids, NEW executed \in BOOLEAN,
         CanRecordOutcome(a, id, executed)
  PROVE  Good(a, AfterRecordOutcome(a, id, executed))
<1>1. StateOf(a.rights, id) \in Held /\ StateOf(a.rights, id) # "Missing"
  BY DEF CanRecordOutcome, CanReconcile, Liable, Held
<1>2. /\ {"Confirmed", "ConfirmedNotExecuted"} \subseteq Stages \ Undispatched
      /\ "Committed" \in LedgerStates("Confirmed")
      /\ "Aborted" \in LedgerStates("ConfirmedNotExecuted")
      /\ "Committed" \in States /\ "Aborted" \in States
  BY StagesOfLedger DEF States, Stages, Terminal, Undispatched
<1>3. CASE executed
  <2>1. AfterRecordOutcome(a, id, executed) =
          [a EXCEPT !.rights = AfterReconcile(a.rights, id, TRUE), !.stage[id] = "Confirmed"]
    BY <1>3 DEF AfterRecordOutcome
  <2>2. LedgerMoves(a.rights, AfterReconcile(a.rights, id, TRUE), id, "Committed")
    BY <1>1, SoundFields, LedgerForms
  <2>3. QED
    BY <1>1, <1>2, <2>1, <2>2, HeldGood
<1>4. CASE ~executed
  <2>1. AfterRecordOutcome(a, id, executed) =
          [a EXCEPT !.rights = AfterReconcile(a.rights, id, FALSE),
                    !.stage[id] = "ConfirmedNotExecuted"]
    BY <1>4 DEF AfterRecordOutcome
  <2>2. LedgerMoves(a.rights, AfterReconcile(a.rights, id, FALSE), id, "Aborted")
    BY <1>1, SoundFields, LedgerForms
  <2>3. QED
    BY <1>1, <1>2, <2>1, <2>2, HeldGood
<1>5. QED
  BY <1>3, <1>4

-----------------------------------------------------------------------------
(* The transactions over all attempts keep an authority good.              *)

\* A new authority epoch strands reservations and changes no stage.
LEMMA RevokeEpochGood ==
  ASSUME NEW a, Sound(a), Bound(a), CanRevokeEpoch(a.rights)
  PROVE  Good(a, [a EXCEPT !.rights = AfterRevokeEpoch(@)])
<1> DEFINE q == AfterRevokeEpoch(a.rights)
           b == [a EXCEPT !.rights = q]
<1>1. /\ a \in AuthorityValue /\ a.rights.epoch \in 0..U64Max /\ U64Max \in Nat
      /\ a.sequence \in 0..U64Max
  BY SoundFields
<1>2. a.rights.epoch + 1 \in 0..U64Max
  BY <1>1 DEF CanRevokeEpoch
<1>3. Books(q, a.stage, a.action) /\ q.epoch = a.rights.epoch + 1
  BY <1>2, EpochKeepsBooks DEF Sound, AfterRevokeEpoch
<1> HIDE DEF q
<1>4. q \in Ledger
  BY <1>3 DEF Books
<1>5. /\ b \in AuthorityValue
      /\ b.rights = q /\ b.stage = a.stage /\ b.action = a.action
      /\ b.sequence = a.sequence /\ b.suspended = a.suspended /\ b.ceiling = a.ceiling
      /\ b.rounds = a.rounds
  BY <1>1, <1>4 DEF AuthorityValue
<1>6. b.rights.epoch >= a.rights.epoch /\ b.sequence >= a.sequence
  BY <1>1, <1>3, <1>5
<1> HIDE DEF b
<1>7. Sound(b) /\ Bound(b) /\ TightensTo(a, b)
  BY <1>3, <1>5, <1>6 DEF Sound, Bound, UndispatchedIds, InCeiling, TightensTo
<1>8. QED
  BY <1>7 DEF Good, b, q

\* What a revocation of everything that was not dispatched leaves.
Cleared(a, b) ==
  /\ Sound(b) /\ UndispatchedIds(b) = {}
  /\ b.action = a.action /\ b.ceiling = a.ceiling /\ b.suspended = a.suspended
  /\ b.rounds = a.rounds /\ b.sequence = a.sequence + 1
  /\ b.rights.epoch = a.rights.epoch + 1
  /\ \A id \in Ids : b.stage[id] \in {a.stage[id], "Cancelled"}
  /\ \A id \in Ids \ UndispatchedIds(a) : b.stage[id] = a.stage[id]

\* A revocation of everything aborts or denies all undispatched work and nothing else.
LEMMA RevokedClears ==
  ASSUME NEW a, Sound(a), CanRevokeAll(a), NEW d \in Consequences \cup {"None"}
  PROVE  Cleared(a, Revoked(a, d))
<1> DEFINE U == UndispatchedIds(a)
           r == AbortedAll(a, U)
           q == AfterRevokeEpoch(r)
           after == StoppedAs(a, U, "Cancelled")
           ds == DecidedAs(a, U, d)
           b == Revoked(a, d)
<1>1. /\ a \in AuthorityValue /\ a.rights.epoch \in 0..U64Max /\ U64Max \in Nat
      /\ a.sequence \in 0..U64Max /\ a.stage \in [Ids -> Stages \cup {"Absent"}]
      /\ a.rights.epoch < U64Max /\ a.sequence < U64Max
  BY SoundFields DEF CanRevokeAll, CanRevokeEpoch
<1>2. /\ after \in [Ids -> Stages \cup {"Absent"}]
      /\ \A id \in U : after[id] \in {"Cancelled", "Denied"}
      /\ \A id \in Ids \ U : after[id] = a.stage[id]
      /\ \A id \in Ids : after[id] \in {a.stage[id], "Cancelled"}
      /\ \A id \in Ids : after[id] \notin Undispatched
  BY <1>1 DEF StoppedAs, Stages, Terminal, UndispatchedIds, Undispatched
<1> HIDE DEF after
<1>3. Books(r, after, a.action) /\ r.epoch = a.rights.epoch
  BY <1>2, AbortKeepsBooks
<1> HIDE DEF r
<1>4. r.epoch + 1 \in 0..U64Max
  BY <1>1, <1>3
<1>5. Books(q, after, a.action) /\ q.epoch = a.rights.epoch + 1
  BY <1>3, <1>4, EpochKeepsBooks DEF AfterRevokeEpoch
<1> HIDE DEF q
<1>6. q \in Ledger /\ a.sequence + 1 \in 0..U64Max
  BY <1>1, <1>5 DEF Books
<1>7. ds \in [Ids -> Consequences \cup {"None"}]
  BY <1>1 DEF DecidedAs, AuthorityValue
<1> HIDE DEF ds
<1>8. b = [a EXCEPT !.rights = q, !.stage = after, !.decisions = ds, !.sequence = @ + 1]
  BY DEF Revoked, q, r, after, ds
<1> HIDE DEF b
<1>9. /\ b \in AuthorityValue
      /\ b.rights = q /\ b.stage = after /\ b.action = a.action
      /\ b.sequence = a.sequence + 1 /\ b.suspended = a.suspended /\ b.ceiling = a.ceiling
      /\ b.rounds = a.rounds
  BY <1>1, <1>2, <1>6, <1>7, <1>8 DEF AuthorityValue
<1>10. QED
  BY <1>2, <1>5, <1>9 DEF Cleared, Sound, UndispatchedIds, b

\* Once cleared, an authority may be restricted further at will.
LEMMA ClearedGood ==
  ASSUME NEW a, Sound(a), NEW m, Cleared(a, m), NEW b, b \in AuthorityValue,
         b.stage = m.stage, b.action = m.action, b.sequence = m.sequence,
         Books(b.rights, m.stage, m.action), b.rights.epoch >= m.rights.epoch,
         b.ceiling \subseteq m.ceiling, m.suspended => b.suspended, m.rounds \subseteq b.rounds
  PROVE  Good(a, b)
<1>1. /\ a.rights.epoch \in Nat /\ a.sequence \in Nat
      /\ b.rights.epoch \in Nat
  <2>1. a.rights.epoch \in Nat /\ a.sequence \in Nat
    BY SoundFields
  <2>2. b.rights.epoch \in Nat
    BY RightsAssumption DEF AuthorityValue, Ledger
  <2>3. QED
    BY <2>1, <2>2
<1>2. Sound(b)
  BY DEF Sound
<1>3. Bound(b)
  BY DEF Bound, UndispatchedIds, Cleared
<1>4. b.rights.epoch >= a.rights.epoch /\ b.sequence >= a.sequence
  BY <1>1 DEF Cleared
<1>5. TightensTo(a, b)
  BY <1>4 DEF TightensTo, Cleared
<1>6. QED
  BY <1>2, <1>3, <1>5 DEF Good

\* replace_policy: a change of rules stops undispatched work.
LEMMA ReplacePolicyGood ==
  ASSUME NEW a, Sound(a), CanRevokeAll(a)
  PROVE  Good(a, AfterReplacePolicy(a))
<1> DEFINE m == Revoked(a, "None")
<1>1. Cleared(a, m)
  BY RevokedClears
<1> HIDE DEF m
<1>2. m \in AuthorityValue /\ Books(m.rights, m.stage, m.action) /\ m.rights.epoch >= m.rights.epoch
  <2>1. Sound(m)
    BY <1>1 DEF Cleared
  <2>2. QED
    BY <2>1, SoundFields
<1>3. Good(a, m)
  BY <1>1, <1>2, ClearedGood
<1>4. QED
  BY <1>3 DEF AfterReplacePolicy, m

\* fence_authority: the run is suspended and nothing undispatched is left.
LEMMA FenceGood ==
  ASSUME NEW a, Sound(a), CanRevokeAll(a), NEW minimum \in 0..U64Max
  PROVE  /\ Good(a, AfterFence(a, minimum))
         /\ AfterFence(a, minimum).suspended
         /\ UndispatchedIds(AfterFence(a, minimum)) = {}
         /\ \A id \in Ids : AfterFence(a, minimum).stage[id] \in {a.stage[id], "Cancelled"}
         /\ \A id \in Ids \ UndispatchedIds(a) : AfterFence(a, minimum).stage[id] = a.stage[id]
         /\ AfterFence(a, minimum).action = a.action
<1> DEFINE m == Revoked(a, "None")
           n == IF m.rights.epoch < minimum THEN minimum ELSE m.rights.epoch
           q == [m.rights EXCEPT !.epoch = n]
           b == AfterFence(a, minimum)
<1>1. Cleared(a, m)
  BY RevokedClears
<1>2. b = [m EXCEPT !.rights.epoch = n, !.suspended = TRUE]
  BY DEF AfterFence
<1> HIDE DEF m
<1>3. /\ m \in AuthorityValue /\ Books(m.rights, m.stage, m.action)
      /\ m.rights.epoch \in 0..U64Max /\ U64Max \in Nat
  <2>1. Sound(m)
    BY <1>1 DEF Cleared
  <2>2. QED
    BY <2>1, SoundFields
<1>4. n \in 0..U64Max /\ n >= m.rights.epoch
  BY <1>3
<1> HIDE DEF n
<1>5. Books(q, m.stage, m.action) /\ q.epoch = n
  BY <1>3, <1>4, EpochKeepsBooks
<1>6. b = [m EXCEPT !.rights = q, !.suspended = TRUE]
  BY <1>2
<1> HIDE DEF q, b
<1>7. q \in Ledger
  BY <1>5 DEF Books
<1>8. /\ b \in AuthorityValue /\ b.rights = q /\ b.stage = m.stage /\ b.action = m.action
      /\ b.sequence = m.sequence /\ b.suspended = TRUE /\ b.ceiling = m.ceiling
      /\ b.rounds = m.rounds
  BY <1>3, <1>6, <1>7 DEF AuthorityValue
<1>9. Good(a, b)
  BY <1>1, <1>4, <1>5, <1>8, ClearedGood
<1>10. QED
  BY <1>1, <1>8, <1>9 DEF Cleared, UndispatchedIds, b

\* narrow_checkpoint only takes targets away from what was allowed.
LEMMA NarrowGood ==
  ASSUME NEW a, Sound(a), CanRevokeAll(a), NEW round \in Rounds, NEW retained \in SUBSET Targets
  PROVE  Good(a, AfterNarrowCheckpoint(a, round, retained))
<1> DEFINE m == Revoked(a, "Deny")
           b == AfterNarrowCheckpoint(a, round, retained)
<1>1. "Deny" \in Consequences
  BY DEF Consequences, Restrictions
<1>2. Cleared(a, m)
  BY <1>1, RevokedClears
<1>3. b = [m EXCEPT !.ceiling = @ \cap retained, !.rounds = @ \cup {round}]
  BY DEF AfterNarrowCheckpoint
<1> HIDE DEF m, b
<1>4. /\ m \in AuthorityValue /\ Books(m.rights, m.stage, m.action)
      /\ m.rights.epoch \in 0..U64Max /\ m.rights.epoch >= m.rights.epoch
  <2>1. Sound(m)
    BY <1>2 DEF Cleared
  <2>2. QED
    BY <2>1, SoundFields
<1>5. /\ b \in AuthorityValue /\ b.rights = m.rights /\ b.stage = m.stage
      /\ b.action = m.action /\ b.sequence = m.sequence /\ b.suspended = m.suspended
      /\ b.ceiling = m.ceiling \cap retained /\ b.rounds = m.rounds \cup {round}
  BY <1>3, <1>4 DEF AuthorityValue
<1>6. QED
  BY <1>2, <1>4, <1>5, ClearedGood DEF b

\* reset to a checkpoint: the refund and the stages of all undispatched attempts agree.
LEMMA ResetGood ==
  ASSUME NEW a, Sound(a), ~a.suspended, CanResetRights(a), NEW round \in Rounds,
         NEW retained \in SUBSET Targets, NEW threshold
  PROVE  Good(a, AfterResetRights(a, round, retained, threshold))
<1> DEFINE U == UndispatchedIds(a)
           r == AfterReset(a.rights, {})
           q == AfterRevokeEpoch(r)
           after == StoppedAs(a, U, "Cancelled")
           ds == DecidedAs(a, U, "Deny")
           b == AfterResetRights(a, round, retained, threshold)
<1>1. /\ a \in AuthorityValue /\ a.rights.epoch \in 0..U64Max /\ U64Max \in Nat
      /\ a.sequence \in 0..U64Max /\ a.stage \in [Ids -> Stages \cup {"Absent"}]
      /\ a.rights.epoch < U64Max /\ a.sequence < U64Max
  BY SoundFields DEF CanResetRights, CanRevokeEpoch
<1>2. /\ after \in [Ids -> Stages \cup {"Absent"}]
      /\ \A id \in Ids : after[id] \in {a.stage[id], "Cancelled"}
      /\ \A id \in Ids : after[id] \notin Undispatched
  BY <1>1 DEF StoppedAs, Stages, Terminal, UndispatchedIds, Undispatched
<1>3. Books(r, after, a.action) /\ r.epoch = a.rights.epoch
  BY ResetKeepsBooks DEF CanResetRights
<1> HIDE DEF r
<1>4. r.epoch + 1 \in 0..U64Max
  BY <1>1, <1>3
<1>5. Books(q, after, a.action) /\ q.epoch = a.rights.epoch + 1
  BY <1>3, <1>4, EpochKeepsBooks DEF AfterRevokeEpoch
<1>6. ds \in [Ids -> Consequences \cup {"None"}]
  BY <1>1 DEF DecidedAs, AuthorityValue, Consequences, Restrictions
<1> HIDE DEF after, ds
<1>7. b = [a EXCEPT !.rights = q, !.stage = after, !.decisions = ds, !.sequence = @ + 1,
                    !.ceiling = @ \cap retained, !.suspended = q.incident_count >= threshold,
                    !.rounds = @ \cup {round}]
  BY DEF AfterResetRights, q, r, after, ds
<1> HIDE DEF q, b
<1>8. q \in Ledger /\ a.sequence + 1 \in 0..U64Max
  BY <1>1, <1>5 DEF Books
<1> DEFINE sus == q.incident_count >= threshold
<1>9. sus \in BOOLEAN
  OBVIOUS
<1> HIDE DEF sus
<1>10. /\ b \in AuthorityValue
       /\ b.rights = q /\ b.stage = after /\ b.action = a.action
       /\ b.sequence = a.sequence + 1 /\ b.ceiling = a.ceiling \cap retained
       /\ b.rounds = a.rounds \cup {round}
  <2>1. b = [a EXCEPT !.rights = q, !.stage = after, !.decisions = ds, !.sequence = @ + 1,
                      !.ceiling = @ \cap retained, !.suspended = sus,
                      !.rounds = @ \cup {round}]
    BY <1>7 DEF sus
  <2>2. QED
    BY <1>1, <1>2, <1>6, <1>8, <1>9, <2>1 DEF AuthorityValue
<1>11. Sound(b)
  BY <1>5, <1>10 DEF Sound
<1>12. Bound(b)
  BY <1>2, <1>10 DEF Bound, UndispatchedIds
<1>13. b.rights.epoch >= a.rights.epoch /\ b.sequence >= a.sequence
  BY <1>1, <1>5, <1>10
<1>14. TightensTo(a, b)
  BY <1>2, <1>10, <1>13 DEF TightensTo
<1>15. QED
  BY <1>11, <1>12, <1>14 DEF Good, b

\* retire_invalidated: exactly the attempts it names are aborted and ended.
LEMMA RetireGood ==
  ASSUME NEW a, Sound(a), Bound(a), CanRetire(a)
  PROVE  Good(a, AfterRetire(a))
<1> DEFINE U == Invalidated(a)
           q == AbortedAll(a, U)
           after == StoppedAs(a, U, "Cancelled")
           ds == DecidedAs(a, U, "Deny")
           b == AfterRetire(a)
<1>1. /\ a \in AuthorityValue /\ a.rights.epoch \in 0..U64Max /\ U64Max \in Nat
      /\ a.sequence \in 0..U64Max /\ a.stage \in [Ids -> Stages \cup {"Absent"}]
      /\ a.sequence < U64Max /\ a.records < MaxDecisions
  BY SoundFields DEF CanRetire
<1>2. U \in SUBSET UndispatchedIds(a)
  BY DEF Invalidated
<1>3. /\ after \in [Ids -> Stages \cup {"Absent"}]
      /\ \A id \in U : after[id] \in {"Cancelled", "Denied"}
      /\ \A id \in Ids \ U : after[id] = a.stage[id]
      /\ \A id \in Ids : after[id] \in {a.stage[id], "Cancelled"}
  <2>1. U \subseteq Ids
    BY <1>2 DEF UndispatchedIds
  <2> HIDE DEF U
  <2>2. QED
    BY <1>1, <2>1 DEF StoppedAs, Stages, Terminal
<1> HIDE DEF U
<1>4. Books(q, after, a.action) /\ q.epoch = a.rights.epoch
  <2> HIDE DEF after
  <2> QED BY <1>2, <1>3, AbortKeepsBooks
<1>5. ds \in [Ids -> Consequences \cup {"None"}]
  BY <1>1 DEF DecidedAs, AuthorityValue, Consequences, Restrictions
<1>6. b = [a EXCEPT !.rights = q, !.stage = after, !.decisions = ds, !.sequence = @ + 1,
                    !.records = @ + 1]
  BY DEF AfterRetire, U
<1> HIDE DEF q, b, after, ds
<1>7. q \in Ledger /\ a.sequence + 1 \in 0..U64Max /\ a.records + 1 \in 0..MaxDecisions
  BY <1>1, <1>4, AuthorityAssumption DEF Books, AuthorityValue
<1>8. /\ b \in AuthorityValue
      /\ b.rights = q /\ b.stage = after /\ b.action = a.action
      /\ b.sequence = a.sequence + 1 /\ b.ceiling = a.ceiling /\ b.suspended = a.suspended
      /\ b.rounds = a.rounds
  BY <1>1, <1>3, <1>5, <1>6, <1>7 DEF AuthorityValue
<1>9. Sound(b)
  BY <1>4, <1>8 DEF Sound
<1>10. Bound(b)
  BY <1>3, <1>8 DEF Bound, UndispatchedIds, InCeiling, Undispatched
<1>11. b.rights.epoch >= a.rights.epoch /\ b.sequence >= a.sequence
  BY <1>1, <1>4, <1>8
<1>12. TightensTo(a, b)
  BY <1>3, <1>8, <1>11 DEF TightensTo
<1>13. QED
  BY <1>9, <1>10, <1>12 DEF Good, b

\* The inputs of a review are those of the code's types.
ReviewTyped(rv) ==
  /\ rv.attempt \in Ids /\ rv.round \in Rounds /\ rv.empirical \in Consequences
  /\ rv.retained \in SUBSET Targets

\* The join of a review is one of the consequences.
LEMMA OutcomeType ==
  ASSUME NEW rv, rv.empirical \in Consequences
  PROVE  Outcome(rv) \in Consequences
<1>1. /\ "Deny" \in Consequences /\ "Continue" \in Consequences
      /\ "HoldEffect" \in Consequences
  BY DEF Consequences, Restrictions
<1>2. \A c, d \in Consequences : Join(c, d) \in Consequences
  BY DEF Join
<1>3. QED
  BY <1>1, <1>2 DEF Outcome, Decide

\* A review cancels exactly what its restriction leaves no room for.
LEMMA ReviewGood ==
  ASSUME NEW a, Sound(a), Bound(a), NEW rv, ReviewTyped(rv), CanApplyReview(a, rv)
  PROVE  Good(a, AfterApplyReview(a, rv))
<1> DEFINE D == Denies(a, rv)
           U == Cancels(a, rv) \cup D
           q == AbortedAll(a, U)
           after == [id \in Ids |-> IF id \in D THEN "Denied"
                                   ELSE IF id \in U THEN "Cancelled" ELSE a.stage[id]]
           ds == [DecidedAs(a, U, "Deny") EXCEPT ![rv.attempt] = Outcome(rv)]
           sus == Outcome(rv) = "SuspendRun"
           b == AfterApplyReview(a, rv)
<1>1. /\ a \in AuthorityValue /\ a.rights.epoch \in 0..U64Max /\ U64Max \in Nat
      /\ a.sequence \in 0..U64Max /\ a.stage \in [Ids -> Stages \cup {"Absent"}]
      /\ a.sequence < U64Max /\ a.records < MaxDecisions /\ ~a.suspended
  BY SoundFields DEF CanApplyReview
<1>2. U \in SUBSET UndispatchedIds(a) /\ D \subseteq U
  BY DEF Cancels, Denies
<1>3. /\ after \in [Ids -> Stages \cup {"Absent"}]
      /\ \A id \in U : after[id] \in {"Cancelled", "Denied"}
      /\ \A id \in Ids \ U : after[id] = a.stage[id]
      /\ \A id \in Ids : after[id] \in {a.stage[id], "Cancelled", "Denied"}
  <2>1. U \subseteq Ids
    BY <1>2 DEF UndispatchedIds
  <2> HIDE DEF D, U
  <2>2. QED
    BY <1>1, <1>2, <2>1 DEF Stages, Terminal
<1>4. Books(q, after, a.action) /\ q.epoch = a.rights.epoch
  <2> HIDE DEF after, U
  <2> QED BY <1>2, <1>3, AbortKeepsBooks
<1>5. ds \in [Ids -> Consequences \cup {"None"}]
  <2>1. DecidedAs(a, U, "Deny") \in [Ids -> Consequences \cup {"None"}]
    BY <1>1 DEF DecidedAs, AuthorityValue, Consequences, Restrictions
  <2>2. QED
    BY <2>1, OutcomeType DEF ReviewTyped
<1>6. NextCeiling(a, rv) \subseteq a.ceiling /\ NextCeiling(a, rv) \in SUBSET Targets
  BY <1>1 DEF NextCeiling, AuthorityValue
<1>7. b = [a EXCEPT !.rights = q, !.stage = after, !.decisions = ds, !.sequence = @ + 1,
                    !.ceiling = NextCeiling(a, rv), !.suspended = sus,
                    !.rounds = @ \cup {rv.round}, !.records = @ + 1]
  BY DEF AfterApplyReview
<1>8. sus \in BOOLEAN
  OBVIOUS
<1> HIDE DEF q, b, after, ds, sus
<1>9. q \in Ledger /\ a.sequence + 1 \in 0..U64Max /\ a.records + 1 \in 0..MaxDecisions
  BY <1>1, <1>4, AuthorityAssumption DEF Books, AuthorityValue
<1>10. /\ b \in AuthorityValue
       /\ b.rights = q /\ b.stage = after /\ b.action = a.action
       /\ b.sequence = a.sequence + 1 /\ b.ceiling = NextCeiling(a, rv) /\ b.suspended = sus
       /\ b.rounds = a.rounds \cup {rv.round}
  BY <1>1, <1>3, <1>5, <1>6, <1>7, <1>8, <1>9 DEF AuthorityValue, ReviewTyped
<1>11. Sound(b)
  BY <1>4, <1>10 DEF Sound
<1>12. ASSUME NEW id \in UndispatchedIds(b)
       PROVE  InCeiling(b, b.action[id])
  <2>1. id \in Ids /\ after[id] \in Undispatched
    BY <1>10 DEF UndispatchedIds
  <2>2. id \notin U
    BY <1>3, <2>1 DEF Undispatched
  <2>3. id \in UndispatchedIds(a)
    BY <1>3, <2>1, <2>2 DEF UndispatchedIds
  <2>4. ~sus /\ (Outcome(rv) = "NarrowAuthority" => TargetOf[a.action[id]] \in NextCeiling(a, rv))
    BY <2>2, <2>3 DEF Cancels, sus
  <2>5. TargetOf[a.action[id]] \in a.ceiling
    BY <2>3 DEF Bound, InCeiling
  <2>6. TargetOf[a.action[id]] \in NextCeiling(a, rv)
    BY <2>4, <2>5 DEF NextCeiling
  <2>7. QED
    BY <1>10, <2>4, <2>6 DEF InCeiling
<1>13. Bound(b)
  BY <1>12 DEF Bound
<1>14. b.rights.epoch >= a.rights.epoch /\ b.sequence >= a.sequence
  BY <1>1, <1>4, <1>10
<1>15. TightensTo(a, b)
  BY <1>1, <1>3, <1>6, <1>10, <1>14 DEF TightensTo
<1>16. QED
  BY <1>11, <1>13, <1>15 DEF Good, b

-----------------------------------------------------------------------------
(* The control sequence tells whether anything a review looks at changed.  *)

\* While the sequence stays, so do the decisions and the ceiling.
Marks(a, b) ==
  /\ b.sequence >= a.sequence
  /\ b.sequence = a.sequence => b.decisions = a.decisions /\ b.ceiling = a.ceiling

\* Operations on one attempt, the clock and the epoch leave the sequence; what is
\* decided by them is the attempt's stage and never a decision or the ceiling.
LEMMA AttemptMarks ==
  ASSUME NEW a \in AuthorityValue, NEW id, NEW e, NEW terminal, NEW executed, NEW tick
  PROVE  /\ Marks(a, AfterObserveTime(a, tick))
         /\ Marks(a, AfterPropose(a, id, e))
         /\ Marks(a, AfterPrepare(a, id))
         /\ Marks(a, AfterBeginReview(a, id))
         /\ Marks(a, AfterAuthorize(a, id))
         /\ Marks(a, AfterDispatchAttempt(a, id))
         /\ Marks(a, AfterStop(a, id, terminal))
         /\ Marks(a, AfterMarkAttemptUnknown(a, id))
         /\ Marks(a, AfterRecordOutcome(a, id, executed))
         /\ Marks(a, AfterMarkIrrecoverable(a, id))
         /\ Marks(a, [a EXCEPT !.rights = AfterRevokeEpoch(@)])
<1>1. a.sequence \in Nat
  BY RightsAssumption DEF AuthorityValue
<1>3. Marks(a, AfterObserveTime(a, tick))
  <2> DEFINE b == AfterObserveTime(a, tick)
  <2>1. b.sequence = a.sequence /\ b.decisions = a.decisions /\ b.ceiling = a.ceiling
    BY DEF AfterObserveTime, AuthorityValue
  <2> HIDE DEF b
  <2>2. Marks(a, b)
    BY <1>1, <2>1 DEF Marks
  <2>3. QED
    BY <2>2 DEF b
<1>4. Marks(a, AfterPropose(a, id, e))
  <2> DEFINE b == AfterPropose(a, id, e)
  <2>1. b.sequence = a.sequence /\ b.decisions = a.decisions /\ b.ceiling = a.ceiling
    BY DEF AfterPropose, AuthorityValue
  <2> HIDE DEF b
  <2>2. Marks(a, b)
    BY <1>1, <2>1 DEF Marks
  <2>3. QED
    BY <2>2 DEF b
<1>2. Marks(a, AfterPrepare(a, id))
  <2> DEFINE b == AfterPrepare(a, id)
  <2>1. b.sequence = a.sequence /\ b.decisions = a.decisions /\ b.ceiling = a.ceiling
    BY DEF AfterPrepare, AuthorityValue
  <2> HIDE DEF b
  <2>2. Marks(a, b)
    BY <1>1, <2>1 DEF Marks
  <2>3. QED
    BY <2>2 DEF b
<1>5. Marks(a, AfterBeginReview(a, id))
  <2> DEFINE b == AfterBeginReview(a, id)
  <2>1. b.sequence = a.sequence /\ b.decisions = a.decisions /\ b.ceiling = a.ceiling
    BY DEF AfterBeginReview, AuthorityValue
  <2> HIDE DEF b
  <2>2. Marks(a, b)
    BY <1>1, <2>1 DEF Marks
  <2>3. QED
    BY <2>2 DEF b
<1>6. Marks(a, AfterAuthorize(a, id))
  <2> DEFINE b == AfterAuthorize(a, id)
  <2>1. b.sequence = a.sequence /\ b.decisions = a.decisions /\ b.ceiling = a.ceiling
    BY DEF AfterAuthorize, AuthorityValue
  <2> HIDE DEF b
  <2>2. Marks(a, b)
    BY <1>1, <2>1 DEF Marks
  <2>3. QED
    BY <2>2 DEF b
<1>7. Marks(a, AfterDispatchAttempt(a, id))
  <2> DEFINE b == AfterDispatchAttempt(a, id)
  <2>1. b.sequence = a.sequence /\ b.decisions = a.decisions /\ b.ceiling = a.ceiling
    BY DEF AfterDispatchAttempt, AuthorityValue
  <2> HIDE DEF b
  <2>2. Marks(a, b)
    BY <1>1, <2>1 DEF Marks
  <2>3. QED
    BY <2>2 DEF b
<1>8. Marks(a, AfterStop(a, id, terminal))
  <2> DEFINE b == AfterStop(a, id, terminal)
  <2>1. b.sequence = a.sequence /\ b.decisions = a.decisions /\ b.ceiling = a.ceiling
    BY DEF AfterStop, AuthorityValue
  <2> HIDE DEF b
  <2>2. Marks(a, b)
    BY <1>1, <2>1 DEF Marks
  <2>3. QED
    BY <2>2 DEF b
<1>9. Marks(a, AfterMarkAttemptUnknown(a, id))
  <2> DEFINE b == AfterMarkAttemptUnknown(a, id)
  <2>1. b.sequence = a.sequence /\ b.decisions = a.decisions /\ b.ceiling = a.ceiling
    BY DEF AfterMarkAttemptUnknown, AuthorityValue
  <2> HIDE DEF b
  <2>2. Marks(a, b)
    BY <1>1, <2>1 DEF Marks
  <2>3. QED
    BY <2>2 DEF b
<1>10. Marks(a, AfterRecordOutcome(a, id, executed))
  <2> DEFINE b == AfterRecordOutcome(a, id, executed)
  <2>1. b.sequence = a.sequence /\ b.decisions = a.decisions /\ b.ceiling = a.ceiling
    BY DEF AfterRecordOutcome, AuthorityValue
  <2> HIDE DEF b
  <2>2. Marks(a, b)
    BY <1>1, <2>1 DEF Marks
  <2>3. QED
    BY <2>2 DEF b
<1>11. Marks(a, AfterMarkIrrecoverable(a, id))
  <2> DEFINE b == AfterMarkIrrecoverable(a, id)
  <2>1. b.sequence = a.sequence /\ b.decisions = a.decisions /\ b.ceiling = a.ceiling
    BY DEF AfterMarkIrrecoverable, AuthorityValue
  <2> HIDE DEF b
  <2>2. Marks(a, b)
    BY <1>1, <2>1 DEF Marks
  <2>3. QED
    BY <2>2 DEF b
<1>12. Marks(a, [a EXCEPT !.rights = AfterRevokeEpoch(@)])
  <2> DEFINE b == [a EXCEPT !.rights = AfterRevokeEpoch(@)]
  <2>1. b.sequence = a.sequence /\ b.decisions = a.decisions /\ b.ceiling = a.ceiling
    BY DEF AuthorityValue
  <2> HIDE DEF b
  <2>2. Marks(a, b)
    BY <1>1, <2>1 DEF Marks
  <2>3. QED
    BY <2>2 DEF b
<1>13. QED
  BY <1>2, <1>3, <1>4, <1>5, <1>6, <1>7, <1>8, <1>9, <1>10, <1>11, <1>12

\* Every operation that writes decisions or the ceiling moves the sequence.
LEMMA RunMarks ==
  ASSUME NEW a \in AuthorityValue, NEW rv, NEW minimum, NEW round, NEW retained, NEW n
  PROVE  /\ Marks(a, AfterRetire(a))
         /\ Marks(a, AfterApplyReview(a, rv))
         /\ Marks(a, AfterReplacePolicy(a))
         /\ Marks(a, AfterFence(a, minimum))
         /\ Marks(a, AfterNarrowCheckpoint(a, round, retained))
         /\ Marks(a, AfterResetRights(a, round, retained, n))
<1>1. a.sequence \in Nat
  BY RightsAssumption DEF AuthorityValue
<1>3. Marks(a, AfterRetire(a))
  <2> DEFINE b == AfterRetire(a)
  <2>1. b.sequence = a.sequence + 1
    BY DEF AfterRetire, AuthorityValue
  <2> HIDE DEF b
  <2>2. Marks(a, b)
    BY <1>1, <2>1 DEF Marks
  <2>3. QED
    BY <2>2 DEF b
<1>4. Marks(a, AfterApplyReview(a, rv))
  <2> DEFINE b == AfterApplyReview(a, rv)
  <2>1. b.sequence = a.sequence + 1
    BY DEF AfterApplyReview, AuthorityValue
  <2> HIDE DEF b
  <2>2. Marks(a, b)
    BY <1>1, <2>1 DEF Marks
  <2>3. QED
    BY <2>2 DEF b
<1>5. Marks(a, AfterReplacePolicy(a))
  <2> DEFINE b == AfterReplacePolicy(a)
  <2>1. b.sequence = a.sequence + 1
    BY DEF AfterReplacePolicy, Revoked, AuthorityValue
  <2> HIDE DEF b
  <2>2. Marks(a, b)
    BY <1>1, <2>1 DEF Marks
  <2>3. QED
    BY <2>2 DEF b
<1>6. Marks(a, AfterFence(a, minimum))
  <2> DEFINE b == AfterFence(a, minimum)
  <2>1. b.sequence = a.sequence + 1
    BY DEF AfterFence, Revoked, AuthorityValue
  <2> HIDE DEF b
  <2>2. Marks(a, b)
    BY <1>1, <2>1 DEF Marks
  <2>3. QED
    BY <2>2 DEF b
<1>7. Marks(a, AfterNarrowCheckpoint(a, round, retained))
  <2> DEFINE b == AfterNarrowCheckpoint(a, round, retained)
  <2>1. b.sequence = a.sequence + 1
    BY DEF AfterNarrowCheckpoint, Revoked, AuthorityValue
  <2> HIDE DEF b
  <2>2. Marks(a, b)
    BY <1>1, <2>1 DEF Marks
  <2>3. QED
    BY <2>2 DEF b
<1>8. Marks(a, AfterResetRights(a, round, retained, n))
  <2> DEFINE b == AfterResetRights(a, round, retained, n)
  <2>1. b.sequence = a.sequence + 1
    BY DEF AfterResetRights, AuthorityValue
  <2> HIDE DEF b
  <2>2. Marks(a, b)
    BY <1>1, <2>1 DEF Marks
  <2>3. QED
    BY <2>2 DEF b
<1>9. QED
  BY <1>3, <1>4, <1>5, <1>6, <1>7, <1>8

-----------------------------------------------------------------------------
(* What soundness means for the variables of the machine.                  *)

\* A sound authority has stages and ledger that match, units included.
LEMMA SoundMatches == Sound(auth) => StagesMatchLedger
<1> SUFFICES ASSUME Sound(auth)
             PROVE  StagesMatchLedger
  OBVIOUS
<1> DEFINE r == auth.rights
           R == {"Reserved"}
           L == Liable \cup {"Committed"}
<1>1. /\ r \in Ledger /\ auth.stage \in [Ids -> Stages \cup {"Absent"}]
      /\ \A id \in Ids : Matched(r, auth.stage, auth.action, id)
      /\ r.available + UnitsIn(r, InUse) = Total
  BY DEF Sound, Books, Balanced
<1>2. \A id \in Ids :
        /\ StateOf(r, id) = "Reserved" <=> auth.stage[id] = "Authorized"
        /\ StateOf(r, id) \in L <=> auth.stage[id] \in InFlight \cup {"Confirmed"}
        /\ StateOf(r, id) \in R \cup L => r.reservations[id].effect = auth.action[id]
  BY <1>1, LedgerTellsStage DEF Matched, Liable, InFlight
<1>3. StageUnits({"Authorized"}) = UnitsIn(r, R)
  <2>1. {p \in Ids \X (1..U64Max) : /\ auth.stage[p[1]] \in {"Authorized"}
                                    /\ p[2] <= Units[auth.action[p[1]]]} = UnitPairs(r, R)
    BY <1>2 DEF UnitPairs
  <2>2. QED
    BY <2>1 DEF StageUnits, UnitsIn
<1>4. StageUnits(InFlight \cup {"Confirmed"}) = UnitsIn(r, L)
  <2>1. {p \in Ids \X (1..U64Max) : /\ auth.stage[p[1]] \in InFlight \cup {"Confirmed"}
                                    /\ p[2] <= Units[auth.action[p[1]]]} = UnitPairs(r, L)
    BY <1>2 DEF UnitPairs
  <2>2. QED
    BY <2>1 DEF StageUnits, UnitsIn
<1>5. UnitsIn(r, InUse) = UnitsIn(r, R) + UnitsIn(r, L)
  <2>1. UnitPairs(r, InUse) = UnitPairs(r, R) \cup UnitPairs(r, L)
    BY DEF UnitPairs, InUse, Held, Liable
  <2>2. UnitPairs(r, R) \cap UnitPairs(r, L) = {}
    BY DEF UnitPairs, Liable
  <2>3. QED
    BY <2>1, <2>2, PairsFinite, DisjointUnion DEF UnitsIn
<1>6. /\ UnitsIn(r, R) \in Nat /\ UnitsIn(r, L) \in Nat
      /\ r.available \in Nat /\ Total \in Nat
  <2>1. r.available \in Nat /\ Total \in Nat
    BY <1>1, RightsAssumption DEF Ledger
  <2>2. QED
    BY <2>1, PairsFinite
<1>7. Total - r.available - StageUnits({"Authorized"}) = StageUnits(InFlight \cup {"Confirmed"})
  <2> HIDE DEF r, R, L
  <2> QED BY <1>1, <1>3, <1>4, <1>5, <1>6
<1>8. QED
  BY <1>1, <1>7 DEF StagesMatchLedger, Matched

\* A new authority is sound and holds nothing.
LEMMA NewGood == Sound(NewAuthority) /\ Bound(NewAuthority)
<1> DEFINE a == NewAuthority
           r == NewRights
<1>1. r \in Ledger
  BY RightsAssumption DEF NewRights, Ledger
<1>2. a \in AuthorityValue
  <2>1. /\ NoTick \in -1..MaxTick /\ 0 \in 0..U64Max /\ 0 \in 0..MaxDecisions
        /\ Targets \in SUBSET Targets /\ {} \in SUBSET Rounds
    BY RightsAssumption, AuthorityAssumption DEF NoTick
  <2>2. QED
    BY <1>1, <2>1 DEF NewAuthority, AuthorityValue
<1>3. /\ a.rights = r /\ a.stage = [id \in Ids |-> "Absent"]
      /\ a.action = [id \in Ids |-> NoEffect]
  BY DEF NewAuthority
<1>4. /\ r.available = Total /\ r.spent = 0
      /\ \A id \in Ids : StateOf(r, id) = "Missing"
  BY DEF NewRights, StateOf, Missing
<1>5. UnitsIn(r, InUse) = 0 /\ UnitsIn(r, {"Committed"}) = 0
  <2>1. UnitPairs(r, InUse) = {} /\ UnitPairs(r, {"Committed"}) = {}
    BY <1>4 DEF UnitPairs, InUse, Held
  <2>2. QED
    BY <2>1, FS_EmptySet DEF UnitsIn
<1> HIDE DEF a, r
<1>6. Balanced(r)
  BY <1>4, <1>5, RightsAssumption DEF Balanced
<1>7. \A id \in Ids : Matched(r, a.stage, a.action, id)
  BY <1>3, <1>4, StagesOfLedger DEF Matched
<1>8. Sound(a)
  BY <1>1, <1>2, <1>3, <1>6, <1>7 DEF Sound, Books, AuthorityValue
<1>9. Bound(a)
  BY <1>3 DEF Bound, UndispatchedIds, Undispatched
<1>10. QED
  BY <1>8, <1>9 DEF a

-----------------------------------------------------------------------------
(* The host of a gate.                                                     *)

\* A review on its way is of the present or an earlier control state, and of the
\* present one only if it saw it.
ReviewFresh(rv) ==
  /\ ReviewTyped(rv)
  /\ rv.expected \in 0..auth.sequence
  /\ rv.expected = auth.sequence => rv.seen = Seen(auth)

\* The inductive invariant of the control machine.
ControlInv ==
  /\ Sound(auth)
  /\ Bound(auth)
  /\ \A rv \in Reviews : ReviewFresh(rv)

\* What a step of the controller does: the authority moves to a good one and
\* marks what it changed, or a review is applied or formed.
ControlStep ==
  \/ /\ Good(auth, auth') /\ Marks(auth, auth')
     /\ UNCHANGED pending
  \/ /\ \E rv \in Reviews : /\ pending' = pending \ {rv}
                            /\ CanApplyReview(auth, rv)
     /\ Good(auth, auth') /\ Marks(auth, auth')
  \/ UNCHANGED auth /\ pending' \subseteq pending
  \/ /\ UNCHANGED auth
     /\ \E p : /\ pending' = pending \cup {p}
               /\ p.kind = "review" => ReviewFresh(p)

\* Doing nothing is good.
LEMMA StillGood ==
  ASSUME Sound(auth), Bound(auth), auth' = auth
  PROVE  Good(auth, auth') /\ Marks(auth, auth')
<1>1. auth.rights.epoch >= auth.rights.epoch /\ auth.sequence >= auth.sequence
  BY SoundFields
<1>2. \A id \in Ids : ~(auth.stage[id] = "Authorized" /\ auth.stage[id] = "Dispatching")
  OBVIOUS
<1>3. TightensTo(auth, auth')
  BY <1>1, <1>2 DEF TightensTo
<1>4. QED
  BY <1>1, <1>3 DEF Good, Marks

\* Such a step keeps the invariant, loosens nothing and applies only what is fresh.
LEMMA ControlStepKeeps ==
  ASSUME ControlInv, ControlStep
  PROVE  /\ ControlInv'
         /\ Tightens
         /\ AppliedOnSeen
<1>1. Good(auth, auth') /\ Marks(auth, auth')
  BY StillGood DEF ControlInv, ControlStep
<1>2. Sound(auth)' /\ Bound(auth)'
  BY <1>1 DEF Good
<1>3. auth.sequence \in Nat /\ auth'.sequence \in Nat
  BY <1>2, RightsAssumption DEF ControlInv, Sound, AuthorityValue
<1>4. \A rv \in Reviews : ReviewFresh(rv) => ReviewFresh(rv)'
  BY <1>1, <1>3 DEF ReviewFresh, ReviewTyped, Marks, Seen
<1>5. ASSUME NEW rv \in Reviews'
      PROVE  ReviewFresh(rv)'
  <2>1. CASE rv \in pending
    BY <1>4, <1>5, <2>1 DEF ControlInv, Reviews
  <2>2. CASE rv \notin pending
    <3>1. UNCHANGED auth /\ ReviewFresh(rv)
      BY <1>5, <2>2 DEF ControlStep, Reviews
    <3>2. QED
      BY <3>1 DEF ReviewFresh, ReviewTyped, Seen
  <2>3. QED
    BY <2>1, <2>2
<1>6. Tightens
  BY <1>1 DEF Good, TightensTo, Tightens
<1>7. ASSUME NEW rv \in Reviews \ pending', auth' # auth
      PROVE  rv.seen = Seen(auth)
  <2>1. CanApplyReview(auth, rv)
    BY <1>7 DEF ControlStep, Reviews
  <2>2. QED
    BY <2>1 DEF ControlInv, ReviewFresh, CanApplyReview, Predecessor
<1>8. QED
  BY <1>2, <1>5, <1>6, <1>7 DEF ControlInv, AppliedOnSeen

-----------------------------------------------------------------------------
(* Every action of the machine is such a step.                             *)

\* A call on one attempt, the clock or the epoch.
LEMMA CallIsStep ==
  ASSUME Sound(auth), NEW b, Good(auth, b), Marks(auth, b), auth' = b, UNCHANGED Host
  PROVE  ControlStep
BY DEF ControlStep, Host

\* One attempt of a gate moves.
LEMMA AttemptSteps ==
  ASSUME ControlInv, NEW id \in Ids
  PROVE  AttemptStep(id) => ControlStep
<1> SUFFICES ASSUME AttemptStep(id)
             PROVE  ControlStep
  OBVIOUS
<1> USE DEF ControlInv
<1>1. auth \in AuthorityValue
  BY DEF Sound
<1>2. ASSUME NEW e \in Effects, Propose(id, e)
      PROVE  ControlStep
  BY <1>1, <1>2, ProposeGood, AttemptMarks, CallIsStep DEF Propose
<1>3. CASE Prepare(id)
  BY <1>1, <1>3, EarlyGood, AttemptMarks, CallIsStep DEF Prepare
<1>4. CASE BeginReview(id)
  BY <1>1, <1>4, EarlyGood, AttemptMarks, CallIsStep DEF BeginReview
<1>5. CASE Authorize(id)
  BY <1>1, <1>5, AuthorizeGood, AttemptMarks, CallIsStep DEF Authorize
<1>6. CASE Dispatch(id)
  BY <1>1, <1>6, DispatchGood, AttemptMarks, CallIsStep DEF Dispatch
<1>7. ASSUME NEW terminal \in {"Cancelled", "Denied"}, Stop(id, terminal)
      PROVE  ControlStep
  BY <1>1, <1>7, StopGood, AttemptMarks, CallIsStep DEF Stop
<1>8. CASE MarkUnknown(id)
  BY <1>1, <1>8, UnknownGood, AttemptMarks, CallIsStep DEF MarkUnknown
<1>9. CASE MarkIrrecoverable(id)
  BY <1>1, <1>9, UnknownGood, AttemptMarks, CallIsStep DEF MarkIrrecoverable
<1>10. ASSUME NEW executed \in BOOLEAN, RecordOutcome(id, executed)
       PROVE  ControlStep
  BY <1>1, <1>10, OutcomeGood, AttemptMarks, CallIsStep DEF RecordOutcome
<1>11. QED
  BY <1>2, <1>3, <1>4, <1>5, <1>6, <1>7, <1>8, <1>9, <1>10 DEF AttemptStep

\* A review is formed on the present control state.
LEMMA FormReviewSteps ==
  ASSUME ControlInv, NEW id \in Ids, NEW round \in Rounds, NEW inputs \in Inputs,
         FormReview(id, round, inputs)
  PROVE  ControlStep
<1> DEFINE rv == [kind |-> "review", attempt |-> id, expected |-> auth.sequence,
                  round |-> round, empirical |-> inputs.empirical,
                  disqualifier |-> inputs.disqualifier, incomplete |-> inputs.incomplete,
                  retained |-> inputs.retained, seen |-> Seen(auth)]
<1>1. pending' = pending \cup {rv} /\ UNCHANGED auth
  BY DEF FormReview
<1>2. inputs.empirical \in Consequences /\ inputs.retained \in SUBSET Targets
  BY ControlAssumption
<1>3. auth.sequence \in 0..auth.sequence
  BY RightsAssumption DEF ControlInv, Sound, AuthorityValue
<1>4. ReviewFresh(rv)
  BY <1>2, <1>3 DEF ReviewFresh, ReviewTyped
<1> HIDE DEF rv
<1>5. QED
  BY <1>1, <1>4 DEF ControlStep

\* A review is applied.
LEMMA ApplyReviewSteps ==
  ASSUME ControlInv, NEW rv \in Reviews, ApplyReview(rv)
  PROVE  ControlStep
<1>1. ReviewTyped(rv) /\ CanApplyReview(auth, rv)
  BY DEF ControlInv, ReviewFresh, ApplyReview
<1>2. auth' = AfterApplyReview(auth, rv) /\ pending' = pending \ {rv}
  BY DEF ApplyReview
<1>3. Good(auth, AfterApplyReview(auth, rv))
  BY <1>1, ReviewGood DEF ControlInv
<1>4. Marks(auth, AfterApplyReview(auth, rv))
  BY RunMarks DEF ControlInv, Sound
<1>5. QED
  BY <1>1, <1>2, <1>3, <1>4 DEF ControlStep

\* The steps that a gate and a policy controller have in common.
LEMMA CommonSteps ==
  ASSUME ControlInv
  PROVE  /\ \A p \in pending : Drop(p) => ControlStep
         /\ \A tick \in 0..MaxTick : ObserveTime(tick) => ControlStep
         /\ RevokeEpoch => ControlStep
<1>1. Sound(auth) /\ Bound(auth) /\ auth \in AuthorityValue
  BY DEF ControlInv, Sound
<1>2. ASSUME NEW p \in pending, Drop(p)
      PROVE  ControlStep
  BY <1>2 DEF Drop, ControlStep
<1>3. ASSUME NEW tick \in 0..MaxTick, ObserveTime(tick)
      PROVE  ControlStep
  BY <1>1, <1>3, ObserveGood, AttemptMarks, CallIsStep DEF ObserveTime
<1>4. ASSUME RevokeEpoch
      PROVE  ControlStep
  BY <1>1, <1>4, RevokeEpochGood, AttemptMarks, CallIsStep DEF RevokeEpoch
<1>5. QED
  BY <1>2, <1>3, <1>4

\* Every step of the host of a gate.
LEMMA GateSteps ==
  ASSUME ControlInv, [Next]_vars
  PROVE  ControlStep
<1>1. Sound(auth) /\ Bound(auth) /\ auth \in AuthorityValue
  BY DEF ControlInv, Sound
<1>2. ASSUME NEW id \in Ids, AttemptStep(id)
      PROVE  ControlStep
  BY <1>2, AttemptSteps
<1>3. CASE ReviewStep
  BY <1>3, FormReviewSteps, ApplyReviewSteps DEF ReviewStep
<1>4. CASE RetireInvalidated
  BY <1>1, <1>4, RetireGood, RunMarks, CallIsStep DEF RetireInvalidated
<1>5. CASE UNCHANGED vars
  BY <1>5 DEF vars, ControlStep
<1>6. QED
  BY <1>2, <1>3, <1>4, <1>5, CommonSteps DEF Next

\* The invariant holds of a gate.
THEOREM GateInvariant == Spec => []ControlInv
<1>1. Init => ControlInv
  BY NewGood DEF Init, ControlInv, Reviews
<1>2. ControlInv /\ [Next]_vars => ControlInv'
  BY GateSteps, ControlStepKeeps
<1>3. QED
  BY <1>1, <1>2, PTL DEF Spec

\* For every budget, set of attempts and review: the lifecycle stages and the
\* ledger of a gate never drift apart, and what inspect() charges by subtraction
\* is the sum over in-flight and executed attempts.
THEOREM GateStagesMatchLedger == Spec => []StagesMatchLedger
<1>1. ControlInv => StagesMatchLedger
  BY SoundMatches DEF ControlInv
<1>2. QED
  BY <1>1, GateInvariant, PTL

\* No restriction of a gate is outrun by work admitted before it.
THEOREM GateRestrictionsBind == Spec => []RestrictionsBind
<1>1. ControlInv => RestrictionsBind
  BY DEF ControlInv, Bound, InCeiling, RestrictionsBind
<1>2. QED
  BY <1>1, GateInvariant, PTL

\* No step of the host of a gate gives authority back, nor dispatches on a permit
\* that was issued before authority was taken away.
THEOREM GateNeverLoosened == Spec => NeverLoosened
<1>1. ControlInv /\ [Next]_vars => [Tightens]_vars
  BY GateSteps, ControlStepKeeps
<1>2. QED
  BY <1>1, GateInvariant, PTL DEF Spec, NeverLoosened

\* A gate applies a review only on the control state the review was formed on.
THEOREM GateReviewsAreFresh == Spec => ReviewsAreFresh
<1>1. ControlInv /\ [Next]_vars => [AppliedOnSeen]_vars
  BY GateSteps, ControlStepKeeps
<1>2. QED
  BY <1>1, GateInvariant, PTL DEF Spec, ReviewsAreFresh

-----------------------------------------------------------------------------
(* A batch of settlements.                                                 *)

\* Two good steps are one, if the second dispatches nothing.
LEMMA GoodChain ==
  ASSUME NEW a, NEW m, NEW b, Sound(a), Good(a, m), Good(m, b),
         \A id \in Ids : b.stage[id] = "Dispatching" => m.stage[id] = "Dispatching"
  PROVE  Good(a, b)
<1>1. /\ a.rights.epoch \in Nat /\ m.rights.epoch \in Nat /\ b.rights.epoch \in Nat
      /\ a.sequence \in Nat /\ m.sequence \in Nat /\ b.sequence \in Nat
  BY SoundFields DEF Good
<1>2. b.rights.epoch >= a.rights.epoch /\ b.sequence >= a.sequence
  BY <1>1 DEF Good, TightensTo
<1>3. TightensTo(a, b)
  BY <1>2 DEF Good, TightensTo
<1>4. QED
  BY <1>3 DEF Good

\* Marks compose.
LEMMA MarksChain ==
  ASSUME NEW a \in AuthorityValue, NEW m \in AuthorityValue, NEW b \in AuthorityValue,
         Marks(a, m), Marks(m, b)
  PROVE  Marks(a, b)
<1>1. a.sequence \in Nat /\ m.sequence \in Nat /\ b.sequence \in Nat
  BY RightsAssumption DEF AuthorityValue
<1>2. QED
  BY <1>1 DEF Marks

\* Disjoint batches of attempts that are out with an outcome open.
Batch(a, executed, refunded, lost) ==
  /\ executed \in SUBSET Ids /\ refunded \in SUBSET Ids /\ lost \in SUBSET Ids
  /\ executed \cap refunded = {} /\ lost \cap (executed \cup refunded) = {}
  /\ \A id \in executed \cup refunded \cup lost : a.stage[id] \in {"Dispatching", "Unknown"}

\* The stage of an attempt after a batch.
SettledStage(a, executed, refunded, lost, id) ==
  IF id \in executed THEN "Confirmed"
  ELSE IF id \in refunded THEN "ConfirmedNotExecuted"
  ELSE IF id \in lost THEN "Unknown" ELSE a.stage[id]

\* Settling a batch keeps an authority good: each attempt is charged or given back
\* once, and no balance overflows.
LEMMA SettledGood ==
  ASSUME NEW a, Sound(a), Bound(a), NEW executed, NEW refunded, NEW lost,
         Batch(a, executed, refunded, lost)
  PROVE  LET b == Settled(a, executed, refunded, lost)
         IN  /\ Good(a, b) /\ Marks(a, b)
             /\ b.action = a.action
             /\ b.rights.incident_count = a.rights.incident_count
             /\ \A id \in Ids : b.stage[id] = SettledStage(a, executed, refunded, lost, id)
<1> DEFINE all == executed \cup refunded \cup lost
           r == a.rights
           b == Settled(a, executed, refunded, lost)
           q == b.rights
           after == b.stage
           st(id) == IF id \in executed THEN "Committed"
                     ELSE IF id \in refunded THEN "Aborted" ELSE "Unknown"
<1>1. /\ a \in AuthorityValue /\ r \in Ledger /\ Books(r, a.stage, a.action)
      /\ r.reservations \in [Ids -> Reservation \cup {Missing}]
      /\ r.epoch \in 0..U64Max /\ r.incident_count \in 0..U64Max
      /\ a.stage \in [Ids -> Stages \cup {"Absent"}] /\ U64Max \in Nat
  BY SoundFields DEF Ledger
<1>2. /\ q.available = r.available + UnitsAmong(r, Liable, refunded)
      /\ q.spent = r.spent + UnitsAmong(r, Liable, executed)
      /\ q.epoch = r.epoch /\ q.incident_count = r.incident_count
      /\ q.reservations =
           [id \in Ids |-> IF id \in all THEN [r.reservations[id] EXCEPT !.state = st(id)]
                                         ELSE r.reservations[id]]
  BY <1>1 DEF Settled, UnitsAmong, AuthorityValue, Ledger
<1>3. /\ \A id \in Ids : after[id] = SettledStage(a, executed, refunded, lost, id)
      /\ DOMAIN after = Ids
  BY <1>1 DEF Settled, SettledStage, AuthorityValue
<1>4. /\ b.action = a.action /\ b.sequence = a.sequence /\ b.suspended = a.suspended
      /\ b.ceiling = a.ceiling /\ b.rounds = a.rounds /\ b.decisions = a.decisions
  BY <1>1 DEF Settled, AuthorityValue
<1>5. b = [a EXCEPT !.rights = q, !.stage = after]
  BY <1>1 DEF Settled, AuthorityValue
<1>6. \A id \in all : StateOf(r, id) \in Liable
  BY <1>1, StagesOfLedger DEF Books, Matched, Batch, Liable
<1>7. ASSUME NEW id \in Ids
      PROVE  /\ id \in all =>
                  /\ q.reservations[id] \in Reservation
                  /\ StateOf(q, id) = st(id)
                  /\ q.reservations[id].effect = r.reservations[id].effect
                  /\ q.reservations[id].epoch = r.reservations[id].epoch
             /\ id \notin all => q.reservations[id] = r.reservations[id]
  <2> DEFINE t == st(id)
  <2>1. t \in States
    BY DEF States, Held
  <2> HIDE DEF q
  <2>2. CASE id \in all
    <3>1. q.reservations[id] = [r.reservations[id] EXCEPT !.state = t]
      BY <1>2, <2>2
    <3>2. StateOf(r, id) # "Missing"
      BY <1>6, <2>2 DEF Liable
    <3> HIDE DEF t
    <3>3. /\ q.reservations[id] \in Reservation /\ q.reservations[id].state = t
          /\ q.reservations[id].effect = r.reservations[id].effect
          /\ q.reservations[id].epoch = r.reservations[id].epoch
      BY <1>1, <2>1, <3>1, <3>2, Restated
    <3>4. QED
      BY <2>2, <3>3 DEF StateOf, t
  <2>3. CASE id \notin all
    BY <1>2, <2>3
  <2>4. QED
    BY <2>2, <2>3
<1>8. /\ UnitsAmong(r, Liable, refunded) = UnitsAmong(r, InUse, refunded)
      /\ UnitsAmong(r, Liable, executed) = UnitsAmong(r, InUse, executed)
  <2>1. \A id \in all : StateOf(r, id) \in InUse
    BY <1>6 DEF InUse, Held, Liable
  <2>2. QED
    BY <1>6, <2>1, AmongSame
<1>9. r.available + UnitsAmong(r, Liable, refunded) \in Nat
      /\ r.spent + UnitsAmong(r, Liable, executed) \in Nat
  <2>1. r.available \in Nat /\ r.spent \in Nat
    BY <1>1 DEF Ledger
  <2>2. UnitsAmong(r, Liable, refunded) \in Nat /\ UnitsAmong(r, Liable, executed) \in Nat
    BY AmongNat
  <2>3. QED
    BY <2>1, <2>2
<1>10. q \in Draft
  <2>1. q.reservations \in [Ids -> Reservation \cup {Missing}]
    <3> HIDE DEF q
    <3> QED BY <1>1, <1>2, <1>7
  <2>2. DOMAIN q = DOMAIN r
    BY <1>1 DEF Settled, AuthorityValue
  <2>3. q = [available |-> q.available, spent |-> q.spent, epoch |-> q.epoch,
             incident_count |-> q.incident_count, reservations |-> q.reservations]
    BY <1>1 DEF Settled, AuthorityValue, Ledger
  <2> HIDE DEF q
  <2>4. QED
    BY <1>1, <1>2, <1>9, <2>1, <2>3 DEF Draft
<1>11. after \in [Ids -> Stages \cup {"Absent"}]
  <2>1. after = [id \in Ids |-> after[id]]
    BY <1>1 DEF Settled, AuthorityValue
  <2> HIDE DEF after
  <2>2. QED
    BY <1>1, <1>3, <2>1 DEF SettledStage, Stages, InFlight, Terminal
<1> HIDE DEF q, after
<1>12. ASSUME NEW id \in Ids
       PROVE  /\ id \in refunded => StateOf(r, id) \in Held /\ StateOf(q, id) = "Aborted"
              /\ id \in executed => StateOf(r, id) \in Held /\ StateOf(q, id) = "Committed"
              /\ id \notin refunded \cup executed =>
                   \/ StateOf(q, id) = StateOf(r, id)
                   \/ StateOf(r, id) \in Held /\ StateOf(q, id) \in Held
              /\ StateOf(q, id) \in LedgerStates(after[id])
              /\ a.stage[id] = "Absent" => after[id] = "Absent"
  <2>1. Liable \subseteq Held /\ "Unknown" \in Held
    BY DEF Liable, Held
  <2>2. StateOf(r, id) \in LedgerStates(a.stage[id])
    BY <1>1 DEF Books, Matched
  <2>3. executed \cap refunded = {} /\ (id \in all => a.stage[id] \in {"Dispatching", "Unknown"})
    BY DEF Batch
  <2>4. CASE id \in executed
    BY <1>3, <1>6, <1>7, <2>1, <2>3, <2>4, StagesOfLedger DEF SettledStage
  <2>5. CASE id \in refunded
    BY <1>3, <1>6, <1>7, <2>1, <2>3, <2>5, StagesOfLedger DEF SettledStage
  <2>6. CASE id \in lost \ (executed \cup refunded)
    BY <1>3, <1>6, <1>7, <2>1, <2>3, <2>6, StagesOfLedger DEF SettledStage
  <2>7. CASE id \notin all
    BY <1>3, <1>7, <2>2, <2>7 DEF SettledStage, StateOf
  <2>8. QED
    BY <2>4, <2>5, <2>6, <2>7
<1>13. Shifted(r, a.stage, q, after, refunded, executed)
  BY <1>2, <1>7, <1>8, <1>10, <1>11, <1>12 DEF Shifted
<1>14. Books(q, after, a.action)
  <2>1. refunded \in SUBSET Ids /\ executed \in SUBSET Ids
    BY DEF Batch
  <2> HIDE DEF r
  <2>2. QED
    BY <1>1, <1>13, <2>1, ShiftKeepsBooks
<1>15. b \in AuthorityValue /\ b.rights = q /\ b.stage = after
  <2>1. q \in Ledger
    BY <1>14 DEF Books
  <2> HIDE DEF b
  <2>2. QED
    BY <1>1, <1>5, <1>11, <2>1 DEF AuthorityValue
<1> HIDE DEF b
<1>16. Sound(b)
  BY <1>4, <1>14, <1>15 DEF Sound
<1>17. \A id \in Ids : after[id] = a.stage[id] \/ after[id] \notin Undispatched \cup {"Dispatching"}
  BY <1>3 DEF SettledStage, Undispatched
<1>18. Bound(b)
  BY <1>4, <1>15, <1>17 DEF Bound, UndispatchedIds, InCeiling
<1>19. b.rights.epoch >= a.rights.epoch /\ b.sequence >= a.sequence
  BY <1>1, <1>2, <1>4, <1>15, SoundFields
<1>20. TightensTo(a, b)
  BY <1>4, <1>15, <1>17, <1>19 DEF TightensTo
<1>21. Good(a, b) /\ Marks(a, b)
  BY <1>4, <1>16, <1>18, <1>19, <1>20 DEF Good, Marks
<1>22. QED
  BY <1>2, <1>3, <1>4, <1>15, <1>21 DEF b

-----------------------------------------------------------------------------
(* Operations of the controller that leave what is out alone.              *)

\* The stages of an attempt that was dispatched.
Departed == InFlight \cup {"Confirmed", "ConfirmedNotExecuted"}

\* No attempt departs, and none that did is touched.
Quiet(a, b) ==
  \A id \in Ids :
    /\ a.stage[id] \in Departed \/ b.stage[id] \in Departed => b.stage[id] = a.stage[id]
    /\ a.stage[id] \in Departed => b.action[id] = a.action[id]

SameIncidents(a, b) == b.rights.incident_count = a.rights.incident_count

\* Nothing of a batch of stopped attempts was dispatched.
LEMMA StoppedQuiet ==
  ASSUME NEW a, NEW b, NEW ids \in SUBSET UndispatchedIds(a), b.action = a.action,
         \A id \in ids : b.stage[id] \in {"Cancelled", "Denied"},
         \A id \in Ids \ ids : b.stage[id] = a.stage[id]
  PROVE  Quiet(a, b)
<1>1. \A id \in ids : a.stage[id] \notin Departed /\ b.stage[id] \notin Departed
  BY DEF UndispatchedIds, Undispatched, Departed, InFlight
<1>2. QED
  BY <1>1 DEF Quiet

\* Releasing reservations is not an incident.
LEMMA AbortIncidents ==
  ASSUME NEW a \in AuthorityValue, NEW ids
  PROVE  AbortedAll(a, ids).incident_count = a.rights.incident_count
BY DEF AbortedAll, AuthorityValue, Ledger

\* Reading the clock.
LEMMA ObserveQuiet ==
  ASSUME NEW a \in AuthorityValue, NEW tick
  PROVE  Quiet(a, AfterObserveTime(a, tick)) /\ SameIncidents(a, AfterObserveTime(a, tick))
BY DEF AfterObserveTime, AuthorityValue, Quiet, SameIncidents

\* Calls on one attempt before it is dispatched.
LEMMA EarlyQuiet ==
  ASSUME NEW a \in AuthorityValue, NEW id \in Ids
  PROVE  /\ CanAuthorize(a, id) =>
              Quiet(a, AfterAuthorize(a, id)) /\ SameIncidents(a, AfterAuthorize(a, id))
         /\ \A terminal \in {"Cancelled", "Denied"} : CanStop(a, id) =>
              /\ Quiet(a, AfterStop(a, id, terminal))
              /\ SameIncidents(a, AfterStop(a, id, terminal))
<1>1. ASSUME CanAuthorize(a, id)
      PROVE  Quiet(a, AfterAuthorize(a, id)) /\ SameIncidents(a, AfterAuthorize(a, id))
  <2> DEFINE b == AfterAuthorize(a, id)
  <2>1. a.stage[id] = "Reviewing"
    BY <1>1 DEF CanAuthorize
  <2>2. /\ b.action = a.action /\ b.stage = [a.stage EXCEPT ![id] = "Authorized"]
        /\ b.rights.incident_count = a.rights.incident_count
    BY DEF AfterAuthorize, AfterReserve, AuthorityValue, Ledger
  <2> HIDE DEF b
  <2>3. /\ \A j \in Ids \ {id} : b.stage[j] = a.stage[j]
        /\ b.stage[id] = "Authorized"
    BY <2>2 DEF AuthorityValue
  <2>4. Quiet(a, b)
    BY <2>1, <2>2, <2>3 DEF Quiet, Departed, InFlight
  <2>5. QED
    BY <2>2, <2>4 DEF SameIncidents, b
<1>2. ASSUME NEW terminal \in {"Cancelled", "Denied"}, CanStop(a, id)
      PROVE  /\ Quiet(a, AfterStop(a, id, terminal))
             /\ SameIncidents(a, AfterStop(a, id, terminal))
  <2> DEFINE b == AfterStop(a, id, terminal)
  <2>1. {id} \in SUBSET UndispatchedIds(a)
    BY <1>2 DEF CanStop, UndispatchedIds
  <2>2. b.action = a.action /\ b.stage = [a.stage EXCEPT ![id] = terminal]
    BY DEF AfterStop, AuthorityValue
  <2>3. b.rights.incident_count = a.rights.incident_count
    <3>1. AfterAbort(a.rights, id).incident_count = a.rights.incident_count
      BY DEF AfterAbort, AuthorityValue, Ledger
    <3>2. a.stage[id] = "Authorized" => b.rights = AfterAbort(a.rights, id)
      BY DEF AfterStop, AuthorityValue
    <3>3. a.stage[id] # "Authorized" => b.rights = a.rights
      BY DEF AfterStop, AuthorityValue
    <3> HIDE DEF b
    <3>4. QED
      BY <3>1, <3>2, <3>3
  <2> HIDE DEF b
  <2>4. /\ \A j \in Ids \ {id} : b.stage[j] = a.stage[j]
        /\ \A j \in {id} : b.stage[j] \in {"Cancelled", "Denied"}
    BY <2>2 DEF AuthorityValue
  <2> DEFINE ids == {id}
  <2> HIDE DEF ids
  <2>5. Quiet(a, b)
    <3>1. /\ ids \in SUBSET UndispatchedIds(a)
          /\ \A j \in ids : b.stage[j] \in {"Cancelled", "Denied"}
          /\ \A j \in Ids \ ids : b.stage[j] = a.stage[j]
      BY <2>1, <2>4 DEF ids
    <3>2. QED
      BY <2>2, <3>1, StoppedQuiet
  <2>6. QED
    BY <2>3, <2>5 DEF SameIncidents, b
<1>3. QED
  BY <1>1, <1>2

\* A review stops attempts, and never one that is out.
LEMMA ReviewQuiet ==
  ASSUME NEW a \in AuthorityValue, NEW rv
  PROVE  Quiet(a, AfterApplyReview(a, rv)) /\ SameIncidents(a, AfterApplyReview(a, rv))
<1> DEFINE D == Denies(a, rv)
           U == Cancels(a, rv) \cup D
           b == AfterApplyReview(a, rv)
<1>1. U \in SUBSET UndispatchedIds(a) /\ D \subseteq U
  BY DEF Cancels, Denies
<1>2. /\ b.action = a.action /\ b.rights = AbortedAll(a, U)
      /\ b.stage = [id \in Ids |-> IF id \in D THEN "Denied"
                                   ELSE IF id \in U THEN "Cancelled" ELSE a.stage[id]]
  BY DEF AfterApplyReview, AuthorityValue
<1> HIDE DEF b, U, D
<1>3. /\ \A id \in U : b.stage[id] \in {"Cancelled", "Denied"}
      /\ \A id \in Ids \ U : b.stage[id] = a.stage[id]
  BY <1>1, <1>2 DEF UndispatchedIds
<1>4. Quiet(a, b)
  BY <1>1, <1>2, <1>3, StoppedQuiet
<1>5. QED
  BY <1>2, <1>4, AbortIncidents DEF SameIncidents, b

\* The revocations stop everything that is not out.
LEMMA RevokedQuiet ==
  ASSUME NEW a \in AuthorityValue, NEW b, NEW d,
         b.action = Revoked(a, d).action, b.stage = Revoked(a, d).stage,
         b.rights.incident_count = Revoked(a, d).rights.incident_count
  PROVE  Quiet(a, b) /\ SameIncidents(a, b)
<1> DEFINE U == UndispatchedIds(a)
           r == AbortedAll(a, U)
<1>1. /\ b.action = a.action
      /\ b.stage = [id \in Ids |-> IF id \in U THEN "Cancelled" ELSE a.stage[id]]
  BY DEF Revoked, StoppedAs, AuthorityValue
<1>2. b.rights.incident_count = AfterRevokeEpoch(r).incident_count
  BY DEF Revoked, AuthorityValue
<1>3. r.incident_count = a.rights.incident_count
  BY AbortIncidents
<1>4. AfterRevokeEpoch(r).incident_count = r.incident_count
  BY DEF AfterRevokeEpoch, AbortedAll, AuthorityValue, Ledger
<1>5. U \in SUBSET UndispatchedIds(a) /\ U \subseteq Ids
  BY DEF UndispatchedIds
<1> HIDE DEF U, r
<1>6. Quiet(a, b)
  BY <1>1, <1>5, StoppedQuiet
<1>7. QED
  BY <1>2, <1>3, <1>4, <1>6 DEF SameIncidents

\* A new policy, a fence and a narrowing are such revocations.
LEMMA InterventionsQuiet ==
  ASSUME NEW a \in AuthorityValue, NEW minimum, NEW round, NEW retained
  PROVE  /\ Quiet(a, AfterReplacePolicy(a)) /\ SameIncidents(a, AfterReplacePolicy(a))
         /\ Quiet(a, AfterFence(a, minimum)) /\ SameIncidents(a, AfterFence(a, minimum))
         /\ Quiet(a, AfterNarrowCheckpoint(a, round, retained))
         /\ SameIncidents(a, AfterNarrowCheckpoint(a, round, retained))
<1>1. Quiet(a, AfterReplacePolicy(a)) /\ SameIncidents(a, AfterReplacePolicy(a))
  BY RevokedQuiet DEF AfterReplacePolicy
<1>2. Quiet(a, AfterFence(a, minimum)) /\ SameIncidents(a, AfterFence(a, minimum))
  <2> DEFINE m == Revoked(a, "None")
             b == AfterFence(a, minimum)
  <2>1. /\ DOMAIN m = DOMAIN a /\ m.rights = AfterRevokeEpoch(AbortedAll(a, UndispatchedIds(a)))
    BY DEF Revoked, AuthorityValue
  <2>2. DOMAIN m.rights = DOMAIN a.rights
    BY <2>1 DEF AfterRevokeEpoch, AbortedAll
  <2>3. b.action = m.action /\ b.stage = m.stage
    BY <2>1 DEF AfterFence, AuthorityValue
  <2>4. b.rights.incident_count = m.rights.incident_count
    BY <2>1, <2>2 DEF AfterFence, AuthorityValue, Ledger
  <2> HIDE DEF m, b
  <2>5. Quiet(a, b) /\ SameIncidents(a, b)
    BY <2>3, <2>4, RevokedQuiet DEF m
  <2>6. QED
    BY <2>5 DEF b
<1>3. /\ Quiet(a, AfterNarrowCheckpoint(a, round, retained))
      /\ SameIncidents(a, AfterNarrowCheckpoint(a, round, retained))
  <2> DEFINE m == Revoked(a, "Deny")
             b == AfterNarrowCheckpoint(a, round, retained)
  <2>1. DOMAIN m = DOMAIN a
    BY DEF Revoked
  <2>2. b.action = m.action /\ b.stage = m.stage /\ b.rights = m.rights
    BY <2>1 DEF AfterNarrowCheckpoint, AuthorityValue
  <2> HIDE DEF m, b
  <2>3. Quiet(a, b) /\ SameIncidents(a, b)
    BY <2>2, RevokedQuiet DEF m
  <2>4. QED
    BY <2>3 DEF b
<1>4. QED
  BY <1>1, <1>2, <1>3

\* A reset stops what is not out and counts the incident.
LEMMA ResetQuiet ==
  ASSUME NEW a \in AuthorityValue, NEW round, NEW retained, NEW n
  PROVE  Quiet(a, AfterResetRights(a, round, retained, n))
<1> DEFINE U == UndispatchedIds(a)
           b == AfterResetRights(a, round, retained, n)
<1>1. /\ b.action = a.action
      /\ b.stage = [id \in Ids |-> IF id \in U THEN "Cancelled" ELSE a.stage[id]]
  BY DEF AfterResetRights, StoppedAs, AuthorityValue
<1>2. U \in SUBSET UndispatchedIds(a) /\ U \subseteq Ids
  BY DEF UndispatchedIds
<1> HIDE DEF U, b
<1>3. Quiet(a, b)
  BY <1>1, <1>2, StoppedQuiet
<1>4. QED
  BY <1>3 DEF b

\* A proposal under a policy is a proposal, a preparation and the begin of a
\* review, or a proposal and its denial.
LEMMA PolicyProposalGood ==
  ASSUME NEW a, Sound(a), Bound(a), NEW id \in Ids, NEW e \in Effects,
         CanPropose(a, id, e), Current(a, e), NEW certifiable \in BOOLEAN
  PROVE  LET m == AfterPropose(a, id, e)
             b == IF certifiable THEN AfterBeginReview(AfterPrepare(m, id), id)
                                 ELSE AfterStop(m, id, "Denied")
         IN  Good(a, b) /\ Marks(a, b) /\ Quiet(a, b) /\ SameIncidents(a, b)
<1> DEFINE m == AfterPropose(a, id, e)
           p == AfterPrepare(m, id)
           v == AfterBeginReview(p, id)
           d == AfterStop(m, id, "Denied")
<1>1. a \in AuthorityValue /\ a.stage[id] = "Absent" /\ InCeiling(a, e)
  BY DEF Sound, CanPropose
<1>2. Good(a, m) /\ Marks(a, m)
  BY <1>1, ProposeGood, AttemptMarks
<1>3. /\ m.stage = [a.stage EXCEPT ![id] = "Proposed"] /\ m.action = [a.action EXCEPT ![id] = e]
      /\ m.rights = a.rights /\ m.elapsed = a.elapsed
      /\ m.suspended = a.suspended /\ m.ceiling = a.ceiling
  BY <1>1 DEF AfterPropose, AuthorityValue
<1> HIDE DEF m
<1>4. /\ m.stage[id] = "Proposed" /\ m.action[id] = e
      /\ \A j \in Ids \ {id} : m.stage[j] = a.stage[j] /\ m.action[j] = a.action[j]
  BY <1>1, <1>3 DEF AuthorityValue
<1>5. Sound(m) /\ Bound(m) /\ m \in AuthorityValue
  BY <1>2 DEF Good, Sound
<1>6. ASSUME NEW b, Good(m, b), Marks(m, b), b.stage[id] \notin Departed, b.action = m.action,
             b.rights = m.rights, \A j \in Ids \ {id} : b.stage[j] = m.stage[j]
      PROVE  Good(a, b) /\ Marks(a, b) /\ Quiet(a, b) /\ SameIncidents(a, b)
  <2>1. \A j \in Ids : b.stage[j] = "Dispatching" => m.stage[j] = "Dispatching"
    BY <1>6 DEF Departed, InFlight
  <2>2. Good(a, b)
    BY <1>2, <1>6, <2>1, GoodChain
  <2>3. b \in AuthorityValue
    BY <1>6 DEF Good, Sound
  <2>4. Marks(a, b)
    BY <1>1, <1>2, <1>5, <1>6, <2>3, MarksChain
  <2>5. Quiet(a, b)
    BY <1>1, <1>4, <1>6 DEF Quiet, Departed, InFlight
  <2>6. QED
    BY <1>3, <1>6, <2>2, <2>4, <2>5 DEF SameIncidents
<1>7. Good(a, v) /\ Marks(a, v) /\ Quiet(a, v) /\ SameIncidents(a, v)
  <2>1. CanPrepare(m, id)
    BY <1>1, <1>3, <1>4 DEF CanPrepare, InCeiling, Current
  <2>2. Good(m, p) /\ Marks(m, p)
    BY <1>5, <2>1, EarlyGood, AttemptMarks
  <2>3. /\ p.stage = [m.stage EXCEPT ![id] = "Prepared"] /\ p.action = m.action
        /\ p.suspended = m.suspended /\ p.ceiling = m.ceiling /\ p.rights = m.rights
    BY <1>5 DEF AfterPrepare, AuthorityValue
  <2> HIDE DEF p
  <2>4. p.stage[id] = "Prepared" /\ \A j \in Ids \ {id} : p.stage[j] = m.stage[j]
    BY <1>5, <2>3 DEF AuthorityValue
  <2>5. CanBeginReview(p, id)
    BY <2>1, <2>3, <2>4 DEF CanPrepare, CanBeginReview, InCeiling
  <2>6. Sound(p) /\ Bound(p) /\ p \in AuthorityValue
    BY <2>2 DEF Good, Sound
  <2>7. Good(p, v) /\ Marks(p, v)
    BY <2>5, <2>6, EarlyGood, AttemptMarks
  <2>8. v.stage = [p.stage EXCEPT ![id] = "Reviewing"] /\ v.action = p.action /\ v.rights = p.rights
    BY <2>6 DEF AfterBeginReview, AuthorityValue
  <2> HIDE DEF v
  <2>9. v.stage[id] = "Reviewing" /\ \A j \in Ids \ {id} : v.stage[j] = p.stage[j]
    BY <2>6, <2>8 DEF AuthorityValue
  <2>10. \A j \in Ids : v.stage[j] = "Dispatching" => p.stage[j] = "Dispatching"
    BY <2>9
  <2>11. Good(m, v)
    BY <1>5, <2>2, <2>7, <2>10, GoodChain
  <2>12. v \in AuthorityValue
    BY <2>11 DEF Good, Sound
  <2>13. Marks(m, v)
    BY <1>5, <2>2, <2>6, <2>7, <2>12, MarksChain
  <2>14. "Reviewing" \notin Departed
    BY DEF Departed, InFlight
  <2>15. QED
    BY <1>6, <2>3, <2>4, <2>8, <2>9, <2>11, <2>13, <2>14
<1>8. Good(a, d) /\ Marks(a, d) /\ Quiet(a, d) /\ SameIncidents(a, d)
  <2>1. CanStop(m, id)
    BY <1>4 DEF CanStop, Undispatched
  <2>2. Good(m, d) /\ Marks(m, d)
    BY <1>5, <2>1, StopGood, AttemptMarks
  <2>3. /\ d.stage = [m.stage EXCEPT ![id] = "Denied"] /\ d.action = m.action
        /\ d.rights = m.rights
    BY <1>4, <1>5 DEF AfterStop, AuthorityValue
  <2> HIDE DEF d
  <2>4. d.stage[id] = "Denied" /\ \A j \in Ids \ {id} : d.stage[j] = m.stage[j]
    BY <1>5, <2>3 DEF AuthorityValue
  <2>5. "Denied" \notin Departed
    BY DEF Departed, InFlight
  <2>6. QED
    BY <1>6, <2>2, <2>3, <2>4, <2>5
<1>9. QED
  BY <1>7, <1>8 DEF m

-----------------------------------------------------------------------------
(* Steps that leave the broker, the endpoint and their messages alone.     *)

\* An update on its way is of the present revision of the actor or an earlier one,
\* and of the present one only if it saw that actor with no incident since.
UpdateFresh(u) ==
  /\ u.expected \in 0..actor.revision
  /\ u.expected = actor.revision =>
       u.seen.actor = actor /\ u.seen.incidents = auth.rights.incident_count

ActorInv == actor.revision \in Nat /\ \A u \in Updates : UpdateFresh(u)

\* The actor stays, and updates may be formed on it.
ActorStays ==
  /\ UNCHANGED actor /\ SameIncidents(auth, auth')
  /\ \A p \in pending' \ pending : p.kind = "update" => UpdateFresh(p)

\* The actor moves on, by an update of its present revision or by a reset.
ActorMoves ==
  /\ actor'.revision = actor.revision + 1
  /\ pending' \subseteq pending
  /\ \A u \in Updates \ pending' : u.expected = actor.revision

\* What came before is then of an earlier revision.
LEMMA ActorStepKeeps ==
  ASSUME ActorInv, ActorStays \/ ActorMoves
  PROVE  ActorInv' /\ UpdatedFromSeen
<1>1. CASE ActorStays
  <2>1. \A p : UpdateFresh(p) => UpdateFresh(p)'
    BY <1>1 DEF ActorStays, SameIncidents, UpdateFresh
  <2>2. \A u \in Updates' : UpdateFresh(u)'
    BY <1>1, <2>1 DEF ActorStays, ActorInv, Updates
  <2>3. QED
    BY <1>1, <2>2 DEF ActorStays, ActorInv, UpdatedFromSeen
<1>2. CASE ActorMoves
  <2>1. ASSUME NEW u \in Updates'
        PROVE  UpdateFresh(u)'
    <3>1. u \in Updates /\ actor'.revision = actor.revision + 1
      BY <1>2, <2>1 DEF ActorMoves, Updates
    <3>2. u.expected \in 0..actor.revision /\ actor.revision \in Nat
      BY <3>1 DEF ActorInv, UpdateFresh
    <3>3. QED
      BY <3>1, <3>2 DEF UpdateFresh
  <2>2. UpdatedFromSeen
    BY <1>2 DEF ActorMoves, ActorInv, UpdateFresh, UpdatedFromSeen
  <2>3. QED
    BY <1>2, <2>1, <2>2 DEF ActorMoves, ActorInv
<1>3. QED
  BY <1>1, <1>2

QuietStep == ControlStep /\ Quiet(auth, auth') /\ UNCHANGED delivery

\* A step that leaves the controller alone moves no attempt and no incident.
LEMMA NothingQuiet ==
  ASSUME NEW a
  PROVE  Quiet(a, a) /\ SameIncidents(a, a)
BY DEF Quiet, SameIncidents

\* What the broker asks of its controller before a dispatch.
LEMMA BrokerQuiet ==
  ASSUME ControlInv, NEW id \in Ids
  PROVE  /\ \A e \in Effects, certifiable \in BOOLEAN :
              BrokerPropose(id, e, certifiable) => QuietStep /\ ActorStays
         /\ \A round \in Rounds, inputs \in Inputs :
              BrokerFormReview(id, round, inputs) => QuietStep /\ ActorStays
         /\ BrokerAuthorize(id) => QuietStep /\ ActorStays
<1>1. Sound(auth) /\ Bound(auth) /\ auth \in AuthorityValue
  BY DEF ControlInv, Sound
<1>2. ASSUME NEW e \in Effects, NEW certifiable \in BOOLEAN,
             BrokerPropose(id, e, certifiable)
      PROVE  QuietStep /\ ActorStays
  <2>1. ProposeUnderPolicy(id, e, certifiable) /\ UNCHANGED delivery
    BY <1>2 DEF BrokerPropose
  <2>2. /\ Good(auth, auth') /\ Marks(auth, auth')
        /\ Quiet(auth, auth') /\ SameIncidents(auth, auth')
    BY <1>1, <2>1, PolicyProposalGood DEF ProposeUnderPolicy
  <2>3. UNCHANGED Host
    BY <2>1 DEF ProposeUnderPolicy
  <2>4. QED
    BY <2>1, <2>2, <2>3 DEF QuietStep, ControlStep, ActorStays, Host
<1>3. ASSUME NEW round \in Rounds, NEW inputs \in Inputs, BrokerFormReview(id, round, inputs)
      PROVE  QuietStep /\ ActorStays
  <2>1. FormReview(id, round, inputs) /\ UNCHANGED delivery
    BY <1>3 DEF BrokerFormReview
  <2>2. ControlStep
    BY <2>1, FormReviewSteps
  <2>3. UNCHANGED <<auth, actor>> /\ \A p \in pending' \ pending : p.kind = "review"
    BY <2>1 DEF FormReview
  <2>4. QED
    BY <2>1, <2>2, <2>3, NothingQuiet DEF QuietStep, ActorStays
<1>4. ASSUME BrokerAuthorize(id)
      PROVE  QuietStep /\ ActorStays
  <2>1. Authorize(id) /\ UNCHANGED delivery
    BY <1>4 DEF BrokerAuthorize
  <2>2. ControlStep
    BY <2>1, AttemptSteps DEF AttemptStep
  <2>3. Quiet(auth, auth') /\ SameIncidents(auth, auth') /\ UNCHANGED <<actor, pending>>
    BY <1>1, <2>1, EarlyQuiet DEF Authorize, Host
  <2>4. QED
    BY <2>1, <2>2, <2>3 DEF QuietStep, ActorStays
<1>5. QED
  BY <1>2, <1>3, <1>4

\* A review that the broker applies.
LEMMA AppliedQuiet ==
  ASSUME ControlInv, NEW rv \in Reviews, BrokerApplyReview(rv)
  PROVE  QuietStep /\ ActorStays
<1>1. ApplyReview(rv) /\ UNCHANGED delivery /\ auth \in AuthorityValue
  BY DEF BrokerApplyReview, ControlInv, Sound
<1>2. ControlStep
  BY <1>1, ApplyReviewSteps
<1>3. Quiet(auth, auth') /\ SameIncidents(auth, auth') /\ UNCHANGED actor
      /\ pending' \subseteq pending
  BY <1>1, ReviewQuiet DEF ApplyReview
<1>4. QED
  BY <1>1, <1>2, <1>3 DEF QuietStep, ActorStays

\* A call of the controller that ends in a good authority.
LEMMA QuietCall ==
  ASSUME NEW b, Good(auth, b), Marks(auth, b), Quiet(auth, b), auth' = b,
         UNCHANGED pending, UNCHANGED delivery
  PROVE  QuietStep
BY DEF QuietStep, ControlStep

\* What the broker passes on to its controller.
LEMMA PassedOnQuiet ==
  ASSUME ControlInv, ActorInv, PassedOn
  PROVE  QuietStep /\ (ActorStays \/ ActorMoves)
<1>1. Sound(auth) /\ Bound(auth) /\ auth \in AuthorityValue /\ UNCHANGED delivery
  BY DEF ControlInv, Sound, PassedOn
<1>2. ASSUME NEW tick \in 0..MaxTick, ObserveTime(tick)
      PROVE  QuietStep /\ ActorStays
  <2>1. auth' = AfterObserveTime(auth, tick) /\ UNCHANGED Host
    BY <1>2 DEF ObserveTime
  <2>2. Quiet(auth, auth') /\ SameIncidents(auth, auth')
    BY <1>1, <2>1, ObserveQuiet
  <2>3. ControlStep
    BY <1>2, CommonSteps
  <2>4. QED
    BY <1>1, <2>1, <2>2, <2>3 DEF QuietStep, ActorStays, Host
<1>3. ASSUME NEW p \in pending, Drop(p)
      PROVE  QuietStep /\ ActorStays
  BY <1>1, <1>3, CommonSteps, NothingQuiet DEF Drop, QuietStep, ActorStays
<1>4. ASSUME NEW id \in Ids, NEW terminal \in {"Cancelled", "Denied"}, Stop(id, terminal)
      PROVE  QuietStep /\ ActorStays
  <2>1. auth' = AfterStop(auth, id, terminal) /\ CanStop(auth, id) /\ UNCHANGED Host
    BY <1>4 DEF Stop
  <2>2. Quiet(auth, auth') /\ SameIncidents(auth, auth')
    BY <1>1, <2>1, EarlyQuiet
  <2>3. ControlStep
    BY <1>4, AttemptSteps DEF AttemptStep
  <2>4. QED
    BY <1>1, <2>1, <2>2, <2>3 DEF QuietStep, ActorStays, Host
<1>5. ASSUME RevokeEpoch
      PROVE  QuietStep /\ ActorStays
  <2>1. Quiet(auth, auth') /\ SameIncidents(auth, auth') /\ UNCHANGED Host
    BY <1>1, <1>5 DEF RevokeEpoch, AfterRevokeEpoch, AuthorityValue, Ledger, Quiet, SameIncidents
  <2>2. ControlStep
    BY <1>5, CommonSteps
  <2>3. QED
    BY <1>1, <2>1, <2>2 DEF QuietStep, ActorStays, Host
<1>6. ASSUME ReplacePolicy
      PROVE  QuietStep /\ ActorStays
  <2>1. auth' = AfterReplacePolicy(auth) /\ CanRevokeAll(auth) /\ UNCHANGED Host
    BY <1>6 DEF ReplacePolicy
  <2>2. Good(auth, auth') /\ Marks(auth, auth')
    BY <1>1, <2>1, ReplacePolicyGood, RunMarks
  <2>3. Quiet(auth, auth') /\ SameIncidents(auth, auth')
    BY <1>1, <2>1, InterventionsQuiet
  <2>4. QED
    BY <1>1, <2>1, <2>2, <2>3, QuietCall DEF ActorStays, Host
<1>7. ASSUME FenceAuthority(auth.rights.epoch + 1)
      PROVE  QuietStep /\ ActorStays
  <2> DEFINE n == auth.rights.epoch + 1
  <2>1. auth' = AfterFence(auth, n) /\ CanRevokeAll(auth) /\ UNCHANGED Host
    BY <1>7 DEF FenceAuthority
  <2>2. n \in 0..U64Max
    BY <1>1, <2>1, SoundFields DEF CanRevokeAll, CanRevokeEpoch
  <2> HIDE DEF n
  <2>3. Good(auth, auth') /\ Marks(auth, auth')
    BY <1>1, <2>1, <2>2, FenceGood, RunMarks
  <2>4. Quiet(auth, auth') /\ SameIncidents(auth, auth')
    BY <1>1, <2>1, InterventionsQuiet
  <2>5. QED
    BY <1>1, <2>1, <2>3, <2>4, QuietCall DEF ActorStays, Host
<1>8. ASSUME NEW s, FormUpdate(s)
      PROVE  QuietStep /\ ActorStays
  <2> DEFINE u == [kind |-> "update", state |-> s, expected |-> actor.revision,
                   seen |-> [actor |-> actor, incidents |-> auth.rights.incident_count]]
  <2>1. pending' = pending \cup {u} /\ UNCHANGED <<auth, actor>>
    BY <1>8 DEF FormUpdate
  <2>2. u.kind # "review" /\ UpdateFresh(u)
    BY DEF UpdateFresh, ActorInv
  <2> HIDE DEF u
  <2>3. QED
    BY <1>1, <2>1, <2>2, NothingQuiet DEF QuietStep, ControlStep, ActorStays
<1>9. ASSUME NEW u \in Updates, ReplaceActor(u)
      PROVE  QuietStep /\ ActorMoves
  <2>1. /\ pending' = pending \ {u} /\ UNCHANGED auth /\ u.expected = actor.revision
        /\ actor' = [state |-> u.state, revision |-> actor.revision + 1]
    BY <1>9 DEF ReplaceActor, SameRevision
  <2>2. ActorMoves
    BY <2>1 DEF ActorMoves, Updates
  <2>3. QED
    BY <1>1, <2>1, <2>2, NothingQuiet DEF QuietStep, ControlStep
<1>10. ASSUME NEW c, CaptureCheckpoint(c)
       PROVE  QuietStep /\ ActorStays
  BY <1>1, <1>10, NothingQuiet DEF CaptureCheckpoint, QuietStep, ControlStep, ActorStays
<1>11. ASSUME NEW c, NEW round \in Rounds, NEW retained \in SUBSET Targets,
              NarrowCheckpoint(c, round, retained)
       PROVE  QuietStep /\ ActorStays
  <2>1. /\ auth' = AfterNarrowCheckpoint(auth, round, retained) /\ CanRevokeAll(auth)
        /\ UNCHANGED Host
    BY <1>11 DEF NarrowCheckpoint
  <2>2. Good(auth, auth') /\ Marks(auth, auth')
    BY <1>1, <2>1, NarrowGood, RunMarks
  <2>3. Quiet(auth, auth') /\ SameIncidents(auth, auth')
    BY <1>1, <2>1, InterventionsQuiet
  <2>4. QED
    BY <1>1, <2>1, <2>2, <2>3, QuietCall DEF ActorStays, Host
<1>12. ASSUME NEW c, NEW round \in Rounds, NEW retained \in SUBSET Targets,
              Reset(c, round, retained)
       PROVE  QuietStep /\ ActorMoves
  <2>1. /\ auth' = AfterResetRights(auth, round, retained, SuspendAtIncident)
        /\ CanContain(auth, round) /\ CanResetRights(auth) /\ UNCHANGED pending
        /\ actor'.revision = actor.revision + 1
    BY <1>12 DEF Reset
  <2>2. Good(auth, auth') /\ Marks(auth, auth')
    BY <1>1, <2>1, ResetGood, RunMarks, ControlAssumption DEF CanContain
  <2>3. Quiet(auth, auth')
    BY <1>1, <2>1, ResetQuiet
  <2>4. ActorMoves
    BY <2>1 DEF ActorMoves, Updates
  <2>5. QED
    BY <1>1, <2>1, <2>2, <2>3, <2>4, QuietCall
<1>13. ASSUME ActorStep
       PROVE  QuietStep /\ (ActorStays \/ ActorMoves)
  BY <1>8, <1>9, <1>10, <1>11, <1>12, <1>13 DEF ActorStep
<1>14. QED
  BY <1>2, <1>3, <1>4, <1>5, <1>6, <1>7, <1>13 DEF PassedOn

-----------------------------------------------------------------------------
(* What the two sides know of each attempt, of any authority a, broker b   *)
(* and endpoint ep.                                                        *)

Views == [messages : Seq({MessageOf[e] : e \in Effects}), finished : BOOLEAN]

BrokerValue ==
  [epoch : Nat, fenced : BOOLEAN, stopped : BOOLEAN, version : Nat, view : Views,
   pending : Ids \cup {NoAttempt}, sent : [Ids -> DeliveryRecord \cup {NoRecord}]]

EndpointValue ==
  [epoch : Nat, elapsed : Int, version : Nat, view : Views,
   known : [Ids -> Outcomes], published : Seq(Ids)]

SentIn(b) == {id \in Ids : b.sent[id] # NoRecord}
OpenIn(b) == {id \in SentIn(b) : b.sent[id].resolution = NoOutcome}
KnownIn(ep) == {id \in Ids : ep.known[id] # NoOutcome}
Out(ep, id) == ep.known[id].result = "Executed"

\* Stages, records and terminal records agree, attempt by attempt.
Agree(a, b, ep, id) ==
  /\ id \in SentIn(b) <=> a.stage[id] \in Departed
  /\ id \in OpenIn(b) <=> a.stage[id] \in InFlight
  /\ id \in SentIn(b) => a.action[id] \in Effects
  /\ id \notin SentIn(b) => ep.known[id] = NoOutcome
  /\ id \in SentIn(b) \ OpenIn(b) => b.sent[id].resolution = ep.known[id]
  /\ a.stage[id] = "Confirmed" => Out(ep, id)
  /\ a.stage[id] = "ConfirmedNotExecuted" => ep.known[id] # NoOutcome /\ ~Out(ep, id)

\* The publications are those of the executed attempts, each written for the
\* version it was published at.
InStep(a, ep) ==
  /\ ep.version = StartVersion + Len(ep.published)
  /\ \A k \in 1..Len(ep.published) :
       /\ Out(ep, ep.published[k])
       /\ VersionOf[TargetOf[a.action[ep.published[k]]]] = StartVersion + k - 1
  /\ \A id \in Ids : Out(ep, id) => \E k \in 1..Len(ep.published) : ep.published[k] = id

\* In a stream only the pending attempt is open, and the endpoint is at most that
\* attempt ahead of the broker.
Streamed(a, b, ep) ==
  /\ b.pending # NoAttempt => Streaming /\ Advances(b.view, a.action[b.pending])
  /\ Streaming =>
       /\ \A id \in Ids : id \in OpenIn(b) <=> id = b.pending
       /\ (b.pending # NoAttempt /\ Out(ep, b.pending)) =>
            /\ ep.view = Advanced(b.view, a.action[b.pending])
            /\ ep.version = b.version + 1
            /\ ep.known[b.pending].version = ep.version
       /\ ~(b.pending # NoAttempt /\ Out(ep, b.pending)) =>
            ep.view = b.view /\ ep.version = b.version

Delivered(a, b, ep) ==
  /\ b \in BrokerValue /\ ep \in EndpointValue
  /\ \A id \in Ids : Agree(a, b, ep, id)
  /\ InStep(a, ep)
  /\ Streamed(a, b, ep)

\* Receipts are copies of terminal records.
Receipted(ep, rs) ==
  /\ rs \in SUBSET [attempt : Ids, outcome : Outcomes]
  /\ \A r \in rs : r.outcome # NoOutcome /\ ep.known[r.attempt] = r.outcome

\* The dispatcher epochs of the two sides, the envelopes and the acknowledgments.
Fenced(b, ep, as) ==
  /\ as \in SUBSET Nat
  /\ \A e \in as : e <= ep.epoch
  /\ ep.epoch <= b.epoch
  /\ b.fenced => ep.epoch = b.epoch
  /\ \A id \in SentIn(b) : /\ b.sent[id].epoch <= b.epoch
                           /\ b.stopped => b.sent[id].epoch < b.epoch

\* The inductive invariant of delivery.
DeliveryInv ==
  /\ ControlInv
  /\ ActorInv
  /\ Delivered(auth, broker, endpoint)
  /\ Receipted(endpoint, receipts)
  /\ Fenced(broker, endpoint, acks)

\* The stream goes on with a message of an action.
LEMMA AdvancedType ==
  ASSUME NEW view \in Views, NEW e \in Effects
  PROVE  Advanced(view, e) \in Views
<1> DEFINE M == {MessageOf[x] : x \in Effects}
<1>1. MessageOf[e] \in M
  OBVIOUS
<1>2. view.messages \in Seq(M) /\ view.finished \in BOOLEAN
  BY DEF Views
<1> HIDE DEF M
<1>3. Append(view.messages, MessageOf[e]) \in Seq(M)
  BY <1>1, <1>2, AppendProperties
<1>4. QED
  BY <1>2, <1>3 DEF Advanced, Views, M

\* Attempts move only before they depart or while they are in flight.
Calm(a, b) ==
  \A id \in Ids :
    /\ \/ a.stage[id] \notin Departed /\ b.stage[id] \notin Departed
       \/ b.stage[id] = a.stage[id]
       \/ a.stage[id] \in InFlight /\ b.stage[id] \in InFlight
    /\ a.stage[id] \in Departed => b.action[id] = a.action[id]

\* The broker's own flags and epoch say nothing about attempts.
SameRecords(b, c) ==
  /\ c \in BrokerValue
  /\ c.sent = b.sent /\ c.pending = b.pending /\ c.version = b.version /\ c.view = b.view

\* Nor do the endpoint's clock and epoch.
SameAnswers(ep, fp) ==
  /\ fp \in EndpointValue
  /\ fp.known = ep.known /\ fp.published = ep.published
  /\ fp.version = ep.version /\ fp.view = ep.view

\* Whatever is out was recorded by the broker.
LEMMA OutIsSent ==
  ASSUME NEW a, NEW b, NEW ep, Delivered(a, b, ep), NEW id \in Ids, ep.known[id] # NoOutcome
  PROVE  /\ id \in SentIn(b) /\ a.stage[id] \in Departed /\ a.action[id] \in Effects
BY DEF Delivered, Agree

\* What the endpoint was given stays covered when no dispatched attempt moves.
LEMMA CalmDelivers ==
  ASSUME NEW a, NEW b, NEW ep, Delivered(a, b, ep),
         NEW c, Calm(a, c), NEW d, SameRecords(b, d), NEW fp, SameAnswers(ep, fp)
  PROVE  Delivered(c, d, fp)
<1>1. SentIn(d) = SentIn(b) /\ OpenIn(d) = OpenIn(b)
  BY DEF SentIn, OpenIn, SameRecords
<1>2. \A id \in Ids : Out(fp, id) <=> Out(ep, id)
  BY DEF Out, SameAnswers
<1>3. \A id \in SentIn(b) : c.action[id] = a.action[id]
  BY DEF Delivered, Agree, Calm, SentIn
<1>4. ASSUME NEW id \in Ids
      PROVE  Agree(c, d, fp, id)
  <2>1. Agree(a, b, ep, id)
    BY DEF Delivered
  <2>2. InFlight \subseteq Departed /\ "Confirmed" \in Departed /\ "ConfirmedNotExecuted" \in Departed
        /\ "Confirmed" \notin InFlight /\ "ConfirmedNotExecuted" \notin InFlight
    BY DEF Departed, InFlight
  <2>3. /\ c.stage[id] \in Departed <=> a.stage[id] \in Departed
        /\ c.stage[id] \in InFlight <=> a.stage[id] \in InFlight
        /\ c.stage[id] = "Confirmed" <=> a.stage[id] = "Confirmed"
        /\ c.stage[id] = "ConfirmedNotExecuted" <=> a.stage[id] = "ConfirmedNotExecuted"
    BY <2>2 DEF Calm
  <2>4. d.sent = b.sent /\ fp.known = ep.known
    BY DEF SameRecords, SameAnswers
  <2>5. QED
    BY <1>1, <1>2, <1>3, <2>1, <2>3, <2>4 DEF Agree
<1>5. InStep(c, fp)
  <2>1. /\ \A k \in 1..Len(ep.published) : ep.published[k] \in Ids
        /\ fp.published = ep.published /\ fp.version = ep.version
    BY DEF Delivered, EndpointValue, SameAnswers
  <2>2. InStep(a, ep)
    BY DEF Delivered
  <2>3. \A k \in 1..Len(ep.published) : ep.published[k] \in SentIn(b)
    <3>1. \A id \in Ids : Out(ep, id) => id \in SentIn(b)
      BY OutIsSent DEF Out, NoOutcome
    <3>2. \A k \in 1..Len(ep.published) : Out(ep, ep.published[k])
      BY <2>2 DEF InStep
    <3>3. QED
      BY <2>1, <3>1, <3>2
  <2>4. \A k \in 1..Len(ep.published) :
          c.action[ep.published[k]] = a.action[ep.published[k]] /\ Out(fp, ep.published[k])
    <3>1. \A k \in 1..Len(ep.published) : Out(ep, ep.published[k])
      BY <2>2 DEF InStep
    <3>2. QED
      BY <1>2, <1>3, <2>1, <2>3, <3>1
  <2>5. \A id \in Ids : Out(fp, id) => \E k \in 1..Len(ep.published) : ep.published[k] = id
    BY <1>2, <2>2 DEF InStep
  <2>6. QED
    BY <2>1, <2>2, <2>4, <2>5 DEF InStep
<1>6. Streamed(c, d, fp)
  <2>1. Streamed(a, b, ep) /\ b.pending \in Ids \cup {NoAttempt} /\ NoAttempt \notin Ids
    BY DeliveryAssumption DEF Delivered, BrokerValue
  <2>2. b.pending # NoAttempt => b.pending \in SentIn(b)
    BY <2>1 DEF Streamed, OpenIn
  <2>3. b.pending # NoAttempt => c.action[b.pending] = a.action[b.pending]
    BY <1>3, <2>2
  <2>4. d.pending = b.pending /\ d.version = b.version /\ d.view = b.view
        /\ fp.view = ep.view /\ fp.version = ep.version /\ fp.known = ep.known
    BY DEF SameRecords, SameAnswers
  <2>5. b.pending # NoAttempt => (Out(fp, b.pending) <=> Out(ep, b.pending))
    BY <1>2, <2>1
  <2>6. QED
    BY <1>1, <2>1, <2>3, <2>4, <2>5 DEF Streamed
<1>7. QED
  BY <1>4, <1>5, <1>6 DEF Delivered, SameRecords, SameAnswers

\* The endpoint refuses for good, or seals, attempts it has no record of.
LEMMA RecordDelivers ==
  ASSUME NEW a, NEW b, NEW ep, Delivered(a, b, ep),
         NEW ids \in SUBSET (SentIn(b) \ KnownIn(ep)),
         NEW reason \in Results \ {"Executed"}
  PROVE  LET fp == Recorded(ep, ids, reason)
         IN  /\ Delivered(a, b, fp)
             /\ fp.epoch = ep.epoch /\ fp.elapsed = ep.elapsed
             /\ \A id \in ids : fp.known[id] = NotExecuted(reason)
             /\ \A id \in Ids \ ids : fp.known[id] = ep.known[id]
             /\ \A rs : Receipted(ep, rs) => Receipted(fp, rs)
<1> DEFINE fp == Recorded(ep, ids, reason)
<1>1. ep \in EndpointValue /\ ep.known \in [Ids -> Outcomes] /\ ids \subseteq Ids
  BY DEF Delivered, EndpointValue, SentIn
<1>2. /\ NotExecuted(reason) \in Outcomes /\ NotExecuted(reason) # NoOutcome
      /\ NotExecuted(reason).result # "Executed" /\ NoOutcome.result # "Executed"
  BY DEF NotExecuted, Outcomes, NoOutcome, Results
<1>3. /\ fp.known = [id \in Ids |-> IF id \in ids THEN NotExecuted(reason) ELSE ep.known[id]]
      /\ fp.epoch = ep.epoch /\ fp.elapsed = ep.elapsed
      /\ fp.published = ep.published /\ fp.version = ep.version /\ fp.view = ep.view
  BY <1>1 DEF Recorded, EndpointValue
<1>4. fp \in EndpointValue
  <2>1. [id \in Ids |-> IF id \in ids THEN NotExecuted(reason) ELSE ep.known[id]]
          \in [Ids -> Outcomes]
    BY <1>1, <1>2
  <2>2. QED
    BY <1>1, <2>1 DEF Recorded, EndpointValue
<1> HIDE DEF fp
<1>5. /\ \A id \in ids : fp.known[id] = NotExecuted(reason)
      /\ \A id \in Ids \ ids : fp.known[id] = ep.known[id]
  BY <1>1, <1>3
<1>6. \A id \in ids : ep.known[id] = NoOutcome /\ id \in OpenIn(b) /\ a.stage[id] \in InFlight
  BY DEF Delivered, Agree, KnownIn, SentIn, OpenIn
<1>7. \A id \in Ids : Out(fp, id) <=> Out(ep, id)
  BY <1>2, <1>5, <1>6 DEF Out
<1>8. ASSUME NEW id \in Ids
      PROVE  Agree(a, b, fp, id)
  <2>1. Agree(a, b, ep, id)
    BY DEF Delivered
  <2>2. CASE id \in ids
    BY <1>2, <1>5, <1>6, <1>7, <2>1, <2>2 DEF Agree, OpenIn
  <2>3. CASE id \notin ids
    BY <1>5, <1>7, <2>1, <2>3 DEF Agree
  <2>4. QED
    BY <2>2, <2>3
<1>9. InStep(a, fp)
  <2>1. \A k \in 1..Len(ep.published) : ep.published[k] \in Ids
    BY DEF Delivered, EndpointValue
  <2>2. QED
    BY <1>3, <1>7, <2>1 DEF Delivered, InStep
<1>10. Streamed(a, b, fp)
  <2>1. Streamed(a, b, ep) /\ b.pending \in Ids \cup {NoAttempt}
    BY DEF Delivered, BrokerValue
  <2>2. b.pending # NoAttempt /\ Out(ep, b.pending) => fp.known[b.pending] = ep.known[b.pending]
    BY <1>2, <1>5, <1>6, <2>1 DEF Out
  <2>3. b.pending # NoAttempt => (Out(fp, b.pending) <=> Out(ep, b.pending))
    BY <1>7, <2>1
  <2>4. QED
    BY <1>3, <2>1, <2>2, <2>3 DEF Streamed
<1>11. Delivered(a, b, fp)
  BY <1>4, <1>8, <1>9, <1>10 DEF Delivered
<1>12. ASSUME NEW rs, Receipted(ep, rs)
       PROVE  Receipted(fp, rs)
  <2>1. \A r \in rs : r.attempt \in Ids /\ ep.known[r.attempt] # NoOutcome
    BY <1>12 DEF Receipted
  <2>2. QED
    BY <1>5, <1>6, <1>12, <2>1 DEF Receipted
<1>13. QED
  BY <1>3, <1>5, <1>11, <1>12 DEF fp

\* The endpoint with a publication more, of the action e.
WithPublished(ep, id, e) ==
  [ep EXCEPT !.known[id] = Executed(ep.version + 1),
             !.version = @ + 1,
             !.view = IF Streaming THEN Advanced(@, e) ELSE @,
             !.published = Append(@, id)]

\* The endpoint publishes an attempt it has no record of.
LEMMA PublishDelivers ==
  ASSUME NEW a, NEW b, NEW ep, Delivered(a, b, ep), NEW id \in SentIn(b) \ KnownIn(ep),
         VersionOf[TargetOf[a.action[id]]] = ep.version,
         NEW fp, fp = WithPublished(ep, id, a.action[id])
  PROVE  /\ Delivered(a, b, fp)
         /\ fp.epoch = ep.epoch /\ Out(fp, id) /\ fp.known[id] # NoOutcome
         /\ \A j \in Ids \ {id} : fp.known[j] = ep.known[j]
         /\ \A rs : Receipted(ep, rs) => Receipted(fp, rs)
<1> DEFINE n == Len(ep.published)
           view == IF Streaming THEN Advanced(ep.view, a.action[id]) ELSE ep.view
<1>1. /\ ep \in EndpointValue /\ ep.known \in [Ids -> Outcomes] /\ id \in Ids
      /\ ep.version \in Nat /\ ep.view \in Views /\ ep.published \in Seq(Ids)
      /\ a.action[id] \in Effects /\ ep.known[id] = NoOutcome /\ n \in Nat
      /\ StartVersion \in Nat
  BY DeliveryAssumption, RightsAssumption
     DEF Delivered, EndpointValue, SentIn, KnownIn, Agree
<1>2. /\ Executed(ep.version + 1) \in Outcomes /\ Executed(ep.version + 1) # NoOutcome
      /\ Executed(ep.version + 1).result = "Executed"
      /\ Executed(ep.version + 1).version = ep.version + 1
      /\ NoOutcome.result # "Executed" /\ ep.version + 1 \in Nat
  BY <1>1 DEF Executed, Outcomes, NoOutcome, Results
<1>3. view \in Views
  BY <1>1, AdvancedType
<1>4. /\ fp.known = [ep.known EXCEPT ![id] = Executed(ep.version + 1)]
      /\ fp.epoch = ep.epoch /\ fp.version = ep.version + 1
      /\ fp.published = Append(ep.published, id) /\ fp.view = view
  BY <1>1 DEF EndpointValue, WithPublished
<1>5. /\ fp.published \in Seq(Ids) /\ Len(fp.published) = n + 1
      /\ \A k \in 1..n : fp.published[k] = ep.published[k]
      /\ fp.published[n + 1] = id
  BY <1>1, <1>4, AppendProperties
<1>6. fp \in EndpointValue
  <2> HIDE DEF view
  <2>1. fp = [ep EXCEPT !.known = fp.known, !.version = fp.version, !.view = fp.view,
                        !.published = fp.published]
    BY <1>1, <1>4 DEF EndpointValue, WithPublished, view
  <2>2. fp.known \in [Ids -> Outcomes]
    BY <1>1, <1>2, <1>4
  <2>3. QED
    BY <1>1, <1>2, <1>3, <1>4, <1>5, <2>1, <2>2 DEF EndpointValue
<1>7. /\ fp.known[id] = Executed(ep.version + 1)
      /\ \A j \in Ids \ {id} : fp.known[j] = ep.known[j]
  BY <1>1, <1>4
<1>8. Out(fp, id) /\ ~Out(ep, id) /\ \A j \in Ids \ {id} : Out(fp, j) <=> Out(ep, j)
  BY <1>1, <1>2, <1>7 DEF Out
<1>9. id \in OpenIn(b) /\ a.stage[id] \in InFlight
  BY <1>1 DEF Delivered, Agree, OpenIn
<1>10. ASSUME NEW j \in Ids
       PROVE  Agree(a, b, fp, j)
  <2>1. Agree(a, b, ep, j)
    BY DEF Delivered
  <2>2. CASE j = id
    BY <1>8, <1>9, <2>1, <2>2 DEF Agree, OpenIn, InFlight
  <2>3. CASE j # id
    BY <1>7, <1>8, <2>1, <2>3 DEF Agree
  <2>4. QED
    BY <2>2, <2>3
<1>11. InStep(a, fp)
  <2>1. InStep(a, ep)
    BY DEF Delivered
  <2>0. ep.version = StartVersion + n
    BY <2>1 DEF InStep
  <2> HIDE DEF n
  <2>2. fp.version = StartVersion + Len(fp.published)
    BY <1>1, <1>4, <1>5, <2>0
  <2>3. ASSUME NEW k \in 1..Len(fp.published)
        PROVE  /\ Out(fp, fp.published[k])
               /\ VersionOf[TargetOf[a.action[fp.published[k]]]] = StartVersion + k - 1
    <3>1. CASE k = n + 1
      <4>1. fp.published[k] = id /\ StartVersion + k - 1 = ep.version
        BY <1>1, <1>5, <2>0, <3>1
      <4>2. QED
        BY <1>8, <4>1
    <3>2. CASE k # n + 1
      <4>1. k \in 1..n /\ fp.published[k] = ep.published[k] /\ ep.published[k] \in Ids
        BY <1>1, <1>5, <3>2
      <4>2. /\ Out(ep, ep.published[k])
            /\ VersionOf[TargetOf[a.action[ep.published[k]]]] = StartVersion + k - 1
        BY <2>1, <4>1 DEF InStep, n
      <4>3. QED
        BY <1>8, <4>1, <4>2
    <3>3. QED
      BY <3>1, <3>2
  <2>4. ASSUME NEW j \in Ids, Out(fp, j)
        PROVE  \E k \in 1..Len(fp.published) : fp.published[k] = j
    <3>1. CASE j = id
      <4>1. n + 1 \in 1..Len(fp.published)
        BY <1>1, <1>5
      <4>2. QED
        BY <1>5, <3>1, <4>1
    <3>2. CASE j # id
      <4>1. PICK k \in 1..n : ep.published[k] = j
        BY <1>8, <2>1, <2>4, <3>2 DEF InStep, n
      <4>2. k \in 1..Len(fp.published) /\ fp.published[k] = j
        BY <1>1, <1>5, <4>1
      <4>3. QED
        BY <4>2
    <3>3. QED
      BY <3>1, <3>2
  <2>5. QED
    BY <2>2, <2>3, <2>4 DEF InStep
<1>12. Streamed(a, b, fp)
  <2>1. Streamed(a, b, ep) /\ b.pending \in Ids \cup {NoAttempt} /\ NoAttempt \notin Ids
    BY DeliveryAssumption DEF Delivered, BrokerValue
  <2>2. ASSUME Streaming
        PROVE  /\ b.pending = id /\ id # NoAttempt
               /\ fp.view = Advanced(b.view, a.action[id])
               /\ fp.version = b.version + 1 /\ fp.known[id].version = fp.version
    <3>1. b.pending = id /\ id # NoAttempt
      BY <1>1, <1>9, <2>1, <2>2 DEF Streamed
    <3>2. ep.view = b.view /\ ep.version = b.version
      BY <1>8, <2>1, <2>2, <3>1 DEF Streamed
    <3>3. QED
      BY <1>2, <1>4, <1>7, <2>2, <3>1, <3>2
  <2> HIDE DEF view
  <2>3. QED
    BY <1>8, <2>1, <2>2 DEF Streamed
<1>13. Delivered(a, b, fp)
  BY <1>6, <1>10, <1>11, <1>12 DEF Delivered
<1>14. ASSUME NEW rs, Receipted(ep, rs)
       PROVE  Receipted(fp, rs)
  <2>1. \A r \in rs : r.attempt \in Ids /\ ep.known[r.attempt] # NoOutcome
    BY <1>14 DEF Receipted
  <2>2. QED
    BY <1>1, <1>7, <1>14, <2>1 DEF Receipted
<1>15. QED
  BY <1>2, <1>4, <1>7, <1>8, <1>13, <1>14

\* The broker with the record of a dispatch.
Dispatched(b, id, record) ==
  [b EXCEPT !.sent[id] = record, !.pending = IF Streaming THEN id ELSE @]

\* The broker dispatches an attempt: its record is the first of it.
LEMMA DispatchDelivers ==
  ASSUME NEW a, NEW b, NEW ep, Delivered(a, b, ep), NEW id \in Ids \ SentIn(b),
         NEW record \in DeliveryRecord, record.resolution = NoOutcome,
         NEW c, c.action = a.action, a.action[id] \in Effects,
         c.stage[id] = "Dispatching", \A j \in Ids \ {id} : c.stage[j] = a.stage[j],
         Streaming => b.pending = NoAttempt /\ Advances(b.view, a.action[id]),
         NEW d, d = Dispatched(b, id, record)
  PROVE  /\ Delivered(c, d, ep)
         /\ SentIn(d) = SentIn(b) \cup {id}
         /\ d.sent[id] = record /\ \A j \in Ids \ {id} : d.sent[j] = b.sent[j]
         /\ d.epoch = b.epoch /\ d.fenced = b.fenced /\ d.stopped = b.stopped
<1>1. /\ b \in BrokerValue /\ b.sent \in [Ids -> DeliveryRecord \cup {NoRecord}]
      /\ b.pending \in Ids \cup {NoAttempt} /\ id \in Ids /\ NoAttempt \notin Ids
      /\ record # NoRecord
  BY DeliveryAssumption DEF Delivered, BrokerValue
<1>2. /\ d.sent = [b.sent EXCEPT ![id] = record]
      /\ d.pending = (IF Streaming THEN id ELSE b.pending)
      /\ d.version = b.version /\ d.view = b.view
      /\ d.epoch = b.epoch /\ d.fenced = b.fenced /\ d.stopped = b.stopped
      /\ d \in BrokerValue
  BY <1>1 DEF BrokerValue, Dispatched
<1>3. d.sent[id] = record /\ \A j \in Ids \ {id} : d.sent[j] = b.sent[j]
  BY <1>1, <1>2
<1>4. SentIn(d) = SentIn(b) \cup {id} /\ OpenIn(d) = OpenIn(b) \cup {id}
  BY <1>1, <1>3 DEF SentIn, OpenIn
<1>5. ep.known[id] = NoOutcome /\ ~Out(ep, id)
  BY DEF Delivered, Agree, Out, NoOutcome
<1>6. ASSUME NEW j \in Ids
      PROVE  Agree(c, d, ep, j)
  <2>1. Agree(a, b, ep, j)
    BY DEF Delivered
  <2>2. CASE j = id
    BY <1>4, <2>2 DEF Agree, Departed, InFlight
  <2>3. CASE j # id
    BY <1>3, <1>4, <2>1, <2>3 DEF Agree
  <2>4. QED
    BY <2>2, <2>3
<1>7. InStep(c, ep)
  BY DEF Delivered, InStep
<1>8. Streamed(c, d, ep)
  <2>1. Streamed(a, b, ep)
    BY DEF Delivered
  <2>2. CASE Streaming
    BY <1>1, <1>2, <1>4, <1>5, <2>1, <2>2 DEF Streamed
  <2>3. CASE ~Streaming
    BY <1>2, <2>1, <2>3 DEF Streamed
  <2>4. QED
    BY <2>2, <2>3
<1>9. QED
  BY <1>2, <1>3, <1>4, <1>6, <1>7, <1>8 DEF Delivered

\* The broker after it accepted the receipts of some open attempts.
LEMMA ResolvedFields ==
  ASSUME NEW b \in BrokerValue, NEW ids \in SUBSET OpenIn(b), NEW k \in [Ids -> Outcomes],
         b.pending \in ids => auth.action[b.pending] \in Effects
  PROVE  LET d == Resolved(b, ids, k)
             executed == b.pending \in ids /\ k[b.pending].result = "Executed"
         IN  /\ d \in BrokerValue
             /\ d.epoch = b.epoch /\ d.fenced = b.fenced /\ d.stopped = b.stopped
             /\ \A id \in Ids \ ids : d.sent[id] = b.sent[id]
             /\ \A id \in ids : /\ d.sent[id] \in DeliveryRecord
                                /\ d.sent[id].resolution = k[id]
                                /\ d.sent[id].epoch = b.sent[id].epoch
             /\ d.pending = (IF b.pending \in ids THEN NoAttempt ELSE b.pending)
             /\ executed => /\ d.version = k[b.pending].version
                            /\ d.view = Advanced(b.view, auth.action[b.pending])
             /\ ~executed => d.version = b.version /\ d.view = b.view
<1> DEFINE d == Resolved(b, ids, k)
           sent == [id \in Ids |-> IF id \in ids THEN [b.sent[id] EXCEPT !.resolution = k[id]]
                                                 ELSE b.sent[id]]
           kept == [b EXCEPT !.sent = sent]
           executed == b.pending \in ids /\ k[b.pending].result = "Executed"
<1>1. /\ b.sent \in [Ids -> DeliveryRecord \cup {NoRecord}] /\ ids \subseteq Ids
      /\ \A id \in ids : b.sent[id] \in DeliveryRecord
      /\ \A id \in ids : k[id] \in Outcomes
  BY DEF BrokerValue, OpenIn, SentIn
<1>2. ASSUME NEW id \in ids
      PROVE  /\ [b.sent[id] EXCEPT !.resolution = k[id]] \in DeliveryRecord
             /\ [b.sent[id] EXCEPT !.resolution = k[id]].resolution = k[id]
             /\ [b.sent[id] EXCEPT !.resolution = k[id]].epoch = b.sent[id].epoch
  BY <1>1 DEF DeliveryRecord
<1>3. /\ sent \in [Ids -> DeliveryRecord \cup {NoRecord}]
      /\ \A id \in Ids \ ids : sent[id] = b.sent[id]
      /\ \A id \in ids : /\ sent[id] \in DeliveryRecord
                         /\ sent[id].resolution = k[id]
                         /\ sent[id].epoch = b.sent[id].epoch
  <2>1. \A id \in ids : sent[id] = [b.sent[id] EXCEPT !.resolution = k[id]]
    BY <1>1
  <2>2. \A id \in Ids \ ids : sent[id] = b.sent[id]
    OBVIOUS
  <2>3. sent \in [Ids -> DeliveryRecord \cup {NoRecord}]
    BY <1>1, <1>2
  <2> HIDE DEF sent
  <2>4. QED
    BY <1>2, <2>1, <2>2, <2>3
<1>4. d = (IF b.pending \notin ids THEN kept
           ELSE IF k[b.pending].result # "Executed" THEN [kept EXCEPT !.pending = NoAttempt]
           ELSE [kept EXCEPT !.pending = NoAttempt, !.version = k[b.pending].version,
                             !.view = Advanced(@, auth.action[b.pending])])
  BY DEF Resolved, BrokerValue
<1> HIDE DEF d, sent
<1>5. kept \in BrokerValue /\ kept.sent = sent /\ kept.pending = b.pending
      /\ kept.version = b.version /\ kept.view = b.view
      /\ kept.epoch = b.epoch /\ kept.fenced = b.fenced /\ kept.stopped = b.stopped
  BY <1>3 DEF BrokerValue
<1> HIDE DEF kept
<1>6. /\ d \in BrokerValue /\ d.sent = sent
      /\ d.epoch = b.epoch /\ d.fenced = b.fenced /\ d.stopped = b.stopped
      /\ d.pending = (IF b.pending \in ids THEN NoAttempt ELSE b.pending)
      /\ executed => /\ d.version = k[b.pending].version
                     /\ d.view = Advanced(b.view, auth.action[b.pending])
      /\ ~executed => d.version = b.version /\ d.view = b.view
  <2>1. CASE b.pending \notin ids
    BY <1>4, <1>5, <2>1
  <2>2. CASE b.pending \in ids /\ ~executed
    BY <1>4, <1>5, <2>2 DEF BrokerValue
  <2>3. CASE executed
    <3>1. Advanced(b.view, auth.action[b.pending]) \in Views /\ k[b.pending].version \in Nat
      BY <1>1, <2>3, AdvancedType DEF BrokerValue, Outcomes
    <3>2. d = [kept EXCEPT !.pending = NoAttempt, !.version = k[b.pending].version,
                           !.view = Advanced(b.view, auth.action[b.pending])]
      BY <1>4, <1>5, <2>3
    <3>3. QED
      BY <1>5, <2>3, <3>1, <3>2 DEF BrokerValue
  <2>4. QED
    BY <2>1, <2>2, <2>3
<1>7. QED
  BY <1>3, <1>6 DEF d

\* The broker accepts the terminal records of some open attempts, and its
\* controller settles them accordingly.
LEMMA SettleDelivers ==
  ASSUME NEW ep, Delivered(auth, broker, ep), NEW ids \in SUBSET OpenIn(broker),
         NEW k \in [Ids -> Outcomes], \A id \in ids : k[id] = ep.known[id] /\ k[id] # NoOutcome,
         NEW c, c.action = auth.action,
         \A id \in ids : c.stage[id] = IF Out(ep, id) THEN "Confirmed" ELSE "ConfirmedNotExecuted",
         \A id \in Ids \ ids : \/ c.stage[id] = auth.stage[id]
                               \/ auth.stage[id] \in InFlight /\ c.stage[id] \in InFlight
  PROVE  LET d == Resolved(broker, ids, k)
         IN  /\ Delivered(c, d, ep)
             /\ d.epoch = broker.epoch /\ d.fenced = broker.fenced /\ d.stopped = broker.stopped
             /\ SentIn(d) = SentIn(broker)
             /\ \A id \in SentIn(d) : d.sent[id].epoch = broker.sent[id].epoch
<1> DEFINE b == broker
           d == Resolved(b, ids, k)
           executed == b.pending \in ids /\ k[b.pending].result = "Executed"
<1>1. /\ b \in BrokerValue /\ b.sent \in [Ids -> DeliveryRecord \cup {NoRecord}]
      /\ ids \subseteq Ids /\ ids \subseteq SentIn(b)
      /\ NoAttempt \notin Ids /\ NoRecord \notin DeliveryRecord
      /\ \A id \in SentIn(b) : auth.action[id] \in Effects
      /\ ep \in EndpointValue
  BY DeliveryAssumption DEF Delivered, BrokerValue, OpenIn, SentIn, Agree
<1>2. /\ d \in BrokerValue
      /\ d.epoch = b.epoch /\ d.fenced = b.fenced /\ d.stopped = b.stopped
      /\ \A id \in Ids \ ids : d.sent[id] = b.sent[id]
      /\ \A id \in ids : /\ d.sent[id] \in DeliveryRecord
                         /\ d.sent[id].resolution = k[id]
                         /\ d.sent[id].epoch = b.sent[id].epoch
      /\ d.pending = (IF b.pending \in ids THEN NoAttempt ELSE b.pending)
      /\ executed => /\ d.version = k[b.pending].version
                     /\ d.view = Advanced(b.view, auth.action[b.pending])
      /\ ~executed => d.version = b.version /\ d.view = b.view
  BY <1>1, ResolvedFields
<1> HIDE DEF d
<1>3. SentIn(d) = SentIn(b) /\ OpenIn(d) = OpenIn(b) \ ids
  <2>1. \A id \in Ids : id \in SentIn(d) <=> id \in SentIn(b)
    BY <1>1, <1>2 DEF SentIn
  <2>2. \A id \in Ids : id \in OpenIn(d) <=> id \in OpenIn(b) \ ids
    BY <1>1, <1>2, <2>1 DEF OpenIn
  <2>3. QED
    BY <2>1, <2>2 DEF SentIn, OpenIn
<1>4. ASSUME NEW id \in Ids
      PROVE  Agree(c, d, ep, id)
  <2>1. Agree(auth, b, ep, id)
    BY DEF Delivered
  <2>2. CASE id \in ids
    <3>1. /\ c.stage[id] \in Departed \ InFlight
          /\ c.stage[id] = "Confirmed" <=> Out(ep, id)
      BY <2>2 DEF Departed, InFlight
    <3>2. ep.known[id] # NoOutcome /\ d.sent[id].resolution = ep.known[id]
      BY <1>2, <2>2
    <3>3. QED
      BY <1>1, <1>3, <2>2, <3>1, <3>2 DEF Agree
  <2>3. CASE id \notin ids
    <3>1. /\ c.stage[id] \in Departed <=> auth.stage[id] \in Departed
          /\ c.stage[id] \in InFlight <=> auth.stage[id] \in InFlight
          /\ c.stage[id] = "Confirmed" <=> auth.stage[id] = "Confirmed"
          /\ c.stage[id] = "ConfirmedNotExecuted" <=> auth.stage[id] = "ConfirmedNotExecuted"
      BY <2>3 DEF Departed, InFlight
    <3>2. QED
      BY <1>2, <1>3, <2>1, <2>3, <3>1 DEF Agree
  <2>4. QED
    BY <2>2, <2>3
<1>5. InStep(c, ep)
  BY DEF Delivered, InStep
<1>6. Streamed(c, d, ep)
  <2>1. Streamed(auth, b, ep) /\ b.pending \in Ids \cup {NoAttempt}
    BY DEF Delivered, BrokerValue
  <2>2. CASE b.pending \notin ids
    <3>1. Streaming => ids = {}
      BY <1>1, <2>1, <2>2 DEF Streamed
    <3>2. QED
      BY <1>2, <1>3, <2>1, <2>2, <3>1 DEF Streamed
  <2>3. CASE b.pending \in ids
    <3>1. b.pending \in Ids /\ b.pending # NoAttempt /\ Streaming
      BY <1>1, <2>1, <2>3 DEF Streamed
    <3>2. executed <=> Out(ep, b.pending)
      BY <2>3 DEF Out
    <3>3. d.pending = NoAttempt
      BY <1>2, <2>3
    <3>4. \A id \in Ids : id \in OpenIn(d) <=> id = d.pending
      BY <1>1, <1>3, <2>1, <2>3, <3>1, <3>3 DEF Streamed
    <3>5. ep.view = d.view /\ ep.version = d.version
      <4>1. CASE executed
        BY <1>2, <2>1, <2>3, <3>1, <3>2, <4>1 DEF Streamed
      <4>2. CASE ~executed
        BY <1>2, <2>1, <3>1, <3>2, <4>2 DEF Streamed
      <4>3. QED
        BY <4>1, <4>2
    <3>6. QED
      BY <3>3, <3>4, <3>5 DEF Streamed
  <2>4. QED
    BY <2>2, <2>3
<1>7. \A id \in SentIn(d) : d.sent[id].epoch = b.sent[id].epoch
  BY <1>2, <1>3 DEF SentIn
<1>8. QED
  BY <1>1, <1>2, <1>3, <1>4, <1>5, <1>6, <1>7 DEF Delivered, d

-----------------------------------------------------------------------------
(* The steps of delivery.                                                  *)

\* What every step does.
DeliveryStep ==
  /\ ControlStep
  /\ ActorStays \/ ActorMoves
  /\ Delivered(auth', broker', endpoint')
  /\ Receipted(endpoint', receipts')
  /\ Fenced(broker', endpoint', acks')
  /\ PublishesCurrent

\* A quiet step is calm.
LEMMA QuietIsCalm ==
  ASSUME NEW a, NEW b, Quiet(a, b)
  PROVE  Calm(a, b)
BY DEF Quiet, Calm

\* Same as before is calm, too.
LEMMA NothingCalm ==
  ASSUME DeliveryInv
  PROVE  /\ Calm(auth, auth) /\ SameRecords(broker, broker)
         /\ SameAnswers(endpoint, endpoint)
BY DEF DeliveryInv, Delivered, Calm, SameRecords, SameAnswers

\* Without a new executed outcome, nothing is published.
LEMMA NothingPublished ==
  ASSUME \A id \in Ids : Out(endpoint', id) => Out(endpoint, id)
  PROVE  PublishesCurrent
BY DEF PublishesCurrent, Out, NoOutcome

\* Steps of the controller alone.
LEMMA QuietDelivers ==
  ASSUME DeliveryInv, QuietStep, ActorStays \/ ActorMoves
  PROVE  DeliveryStep
<1>1. UNCHANGED <<broker, endpoint, acks, receipts>> /\ Calm(auth, auth') /\ ControlStep
  BY QuietIsCalm DEF QuietStep, delivery
<1>2. Delivered(auth', broker, endpoint)
  BY <1>1, NothingCalm, CalmDelivers DEF DeliveryInv
<1>3. PublishesCurrent
  BY <1>1, NothingPublished
<1>4. QED
  BY <1>1, <1>2, <1>3 DEF DeliveryInv, DeliveryStep

\* An acknowledgment is lost or an attempt is given up: it stays in flight.
LEMMA LostDelivers ==
  ASSUME DeliveryInv, NEW id \in Ids, AcknowledgmentLost(id) \/ AbandonUnknown(id)
  PROVE  DeliveryStep
<1>1. ControlInv /\ auth \in AuthorityValue /\ UNCHANGED <<broker, endpoint, acks, receipts>>
  BY DEF DeliveryInv, ControlInv, Sound, AcknowledgmentLost, AbandonUnknown, delivery
<1>2. CASE AcknowledgmentLost(id)
  <2>1. /\ auth' = AfterMarkAttemptUnknown(auth, id) /\ auth.stage[id] = "Dispatching"
        /\ UNCHANGED Host /\ MarkUnknown(id)
    BY <1>2 DEF AcknowledgmentLost, MarkUnknown, CanMarkAttemptUnknown
  <2>2. auth'.stage = [auth.stage EXCEPT ![id] = "Unknown"] /\ auth'.action = auth.action
    BY <1>1, <2>1 DEF AfterMarkAttemptUnknown, AuthorityValue
  <2>3. SameIncidents(auth, auth')
    BY <1>1, <2>1
       DEF AfterMarkAttemptUnknown, AfterMarkUnknown, AuthorityValue, Ledger, SameIncidents
  <2>4. Calm(auth, auth')
    BY <1>1, <2>1, <2>2 DEF Calm, InFlight, AuthorityValue
  <2>5. ControlStep
    BY <1>1, <2>1, AttemptSteps DEF AttemptStep
  <2>6. ActorStays
    BY <2>1, <2>3 DEF ActorStays, Host
  <2>7. Delivered(auth', broker, endpoint)
    BY <2>4, NothingCalm, CalmDelivers DEF DeliveryInv
  <2>8. QED
    BY <1>1, <2>5, <2>6, <2>7, NothingPublished DEF DeliveryInv, DeliveryStep
<1>3. CASE AbandonUnknown(id)
  <2>1. /\ auth' = AfterMarkIrrecoverable(auth, id) /\ auth.stage[id] = "Unknown"
        /\ UNCHANGED Host /\ MarkIrrecoverable(id)
    BY <1>3 DEF AbandonUnknown, MarkIrrecoverable, CanMarkIrrecoverable
  <2>2. /\ auth'.stage = [auth.stage EXCEPT ![id] = "IrrecoverablyUnknown"]
        /\ auth'.action = auth.action /\ auth'.rights = auth.rights
    BY <1>1, <2>1 DEF AfterMarkIrrecoverable, AuthorityValue
  <2>3. Calm(auth, auth')
    BY <1>1, <2>1, <2>2 DEF Calm, InFlight, AuthorityValue
  <2>4. ControlStep
    BY <1>1, <2>1, AttemptSteps DEF AttemptStep
  <2>5. ActorStays
    BY <2>1, <2>2 DEF ActorStays, Host, SameIncidents
  <2>6. Delivered(auth', broker, endpoint)
    BY <2>3, NothingCalm, CalmDelivers DEF DeliveryInv
  <2>7. QED
    BY <1>1, <2>4, <2>5, <2>6, NothingPublished DEF DeliveryInv, DeliveryStep
<1>4. QED
  BY <1>2, <1>3

\* A dispatch.
LEMMA DispatchSteps ==
  ASSUME DeliveryInv, NEW id \in Ids, NEW approval \in Approvals \cup {NoApproval},
         BrokerDispatch(id, approval)
  PROVE  DeliveryStep
<1> DEFINE record == [approval |-> approval, until |-> auth.elapsed + Retention,
                      epoch |-> broker.epoch, resolution |-> NoOutcome]
<1>1. /\ ControlInv /\ Sound(auth) /\ auth \in AuthorityValue
      /\ Dispatch(id) /\ id \notin Sent /\ ~broker.stopped /\ StreamReady(auth.action[id])
      /\ UNCHANGED <<endpoint, acks, receipts>>
      /\ broker' = Dispatched(broker, id, record)
  BY DEF DeliveryInv, ControlInv, Sound, BrokerDispatch, Dispatched
<1>2. /\ CanDispatchAttempt(auth, id) /\ auth' = AfterDispatchAttempt(auth, id)
      /\ UNCHANGED Host
  BY <1>1 DEF Dispatch
<1>3. auth.elapsed \in Nat /\ auth.action[id] \in Effects /\ auth.stage[id] = "Authorized"
  <2>1. auth.stage[id] = "Authorized" /\ auth.elapsed # NoTick
    BY <1>2 DEF CanDispatchAttempt, Current
  <2>2. auth.elapsed \in -1..MaxTick /\ MaxTick \in Nat
    BY <1>1, AuthorityAssumption DEF AuthorityValue
  <2>3. auth.action[id] \in Effects
    BY <1>1, <2>1 DEF Sound, Books, Matched
  <2>4. QED
    BY <2>1, <2>2, <2>3 DEF NoTick
<1>4. record \in DeliveryRecord /\ record.resolution = NoOutcome /\ record.epoch = broker.epoch
  <2>1. auth.elapsed + Retention \in Nat /\ broker.epoch \in Nat
    BY <1>3, DeliveryAssumption DEF DeliveryInv, Delivered, BrokerValue
  <2>2. NoOutcome \in Outcomes
    BY DEF NoOutcome, Outcomes
  <2>3. QED
    BY <2>1, <2>2 DEF DeliveryRecord
<1> HIDE DEF record
<1>5. auth'.stage = [auth.stage EXCEPT ![id] = "Dispatching"] /\ auth'.action = auth.action
  BY <1>1, <1>2 DEF AfterDispatchAttempt, AuthorityValue
<1>6. SameIncidents(auth, auth')
  BY <1>1, <1>2 DEF AfterDispatchAttempt, AfterDispatch, AuthorityValue, Ledger, SameIncidents
<1>7. auth'.stage[id] = "Dispatching" /\ \A j \in Ids \ {id} : auth'.stage[j] = auth.stage[j]
  BY <1>1, <1>5 DEF AuthorityValue
<1>8. Streaming => broker.pending = NoAttempt /\ Advances(broker.view, auth.action[id])
  BY <1>1 DEF StreamReady
<1>9. id \in Ids \ SentIn(broker)
  BY <1>1 DEF Sent, SentIn
<1>10. /\ Delivered(auth', broker', endpoint)
       /\ SentIn(broker') = SentIn(broker) \cup {id}
       /\ broker'.sent[id] = record /\ \A j \in Ids \ {id} : broker'.sent[j] = broker.sent[j]
       /\ broker'.epoch = broker.epoch /\ broker'.fenced = broker.fenced
       /\ broker'.stopped = broker.stopped
  <2> DEFINE c == auth'
             d == broker'
  <2>1. /\ Delivered(auth, broker, endpoint) /\ id \in Ids \ SentIn(broker)
        /\ record \in DeliveryRecord /\ record.resolution = NoOutcome
        /\ c.action = auth.action /\ auth.action[id] \in Effects
        /\ c.stage[id] = "Dispatching" /\ \A j \in Ids \ {id} : c.stage[j] = auth.stage[j]
        /\ Streaming => broker.pending = NoAttempt /\ Advances(broker.view, auth.action[id])
        /\ d = Dispatched(broker, id, record)
    BY <1>1, <1>3, <1>4, <1>5, <1>7, <1>8, <1>9 DEF DeliveryInv
  <2> HIDE DEF c, d
  <2>2. /\ Delivered(c, d, endpoint)
        /\ SentIn(d) = SentIn(broker) \cup {id}
        /\ d.sent[id] = record /\ \A j \in Ids \ {id} : d.sent[j] = broker.sent[j]
        /\ d.epoch = broker.epoch /\ d.fenced = broker.fenced
        /\ d.stopped = broker.stopped
    BY <2>1, DispatchDelivers
  <2>3. QED
    BY <2>2 DEF c, d
<1>11. Fenced(broker', endpoint', acks')
  <2>1. broker.epoch \in Nat
    BY DEF DeliveryInv, Delivered, BrokerValue
  <2>2. \A j \in SentIn(broker') : broker'.sent[j].epoch <= broker.epoch
    BY <1>4, <1>10, <2>1 DEF DeliveryInv, Fenced, SentIn
  <2>3. QED
    BY <1>1, <1>10, <2>2 DEF DeliveryInv, Fenced
<1>12. ControlStep
  BY <1>1, AttemptSteps DEF AttemptStep
<1>13. ActorStays
  BY <1>2, <1>6 DEF ActorStays, Host
<1>14. QED
  BY <1>1, <1>10, <1>11, <1>12, <1>13, NothingPublished DEF DeliveryInv, DeliveryStep

\* A receipt is accepted.
LEMMA AcceptSteps ==
  ASSUME DeliveryInv, NEW r \in receipts, AcceptReceipt(r)
  PROVE  DeliveryStep
<1> DEFINE id == r.attempt
           k == [j \in Ids |-> r.outcome]
           x == r.outcome.result = "Executed"
<1>1. /\ ControlInv /\ Sound(auth) /\ Bound(auth) /\ auth \in AuthorityValue
      /\ CanAccept(id, r.outcome) /\ auth' = AfterRecordOutcome(auth, id, x)
      /\ broker' = Resolved(broker, {id}, k) /\ UNCHANGED <<Host, endpoint, acks, receipts>>
  BY DEF DeliveryInv, ControlInv, Sound, AcceptReceipt
<1>2. /\ id \in Ids /\ r.outcome \in Outcomes /\ r.outcome # NoOutcome
      /\ endpoint.known[id] = r.outcome
  BY DEF DeliveryInv, Receipted
<1>3. id \in OpenIn(broker) /\ CanRecordOutcome(auth, id, x) /\ x \in BOOLEAN
  BY <1>1 DEF CanAccept, Unresolved, Sent, OpenIn, SentIn
<1>4. /\ auth'.stage = [auth.stage EXCEPT ![id] =
                          IF x THEN "Confirmed" ELSE "ConfirmedNotExecuted"]
      /\ auth'.action = auth.action
  BY <1>1 DEF AfterRecordOutcome, AuthorityValue
<1>5. SameIncidents(auth, auth')
  <2>1. AfterReconcile(auth.rights, id, x).incident_count = auth.rights.incident_count
    <3>1. CASE x
      BY <1>1, <3>1 DEF AfterReconcile, AuthorityValue, Ledger
    <3>2. CASE ~x
      BY <1>1, <3>2 DEF AfterReconcile, AuthorityValue, Ledger
    <3>3. QED
      BY <3>1, <3>2
  <2>2. auth'.rights = AfterReconcile(auth.rights, id, x)
    BY <1>1 DEF AfterRecordOutcome, AuthorityValue
  <2>3. QED
    BY <2>1, <2>2 DEF SameIncidents
<1>6. /\ k \in [Ids -> Outcomes] /\ k[id] = endpoint.known[id] /\ k[id] # NoOutcome
      /\ Out(endpoint, id) <=> x
  BY <1>2 DEF Out
<1>7. Good(auth, auth') /\ Marks(auth, auth')
  <2> HIDE DEF x, id
  <2> QED BY <1>1, <1>2, <1>3, OutcomeGood, AttemptMarks
<1>8. /\ auth'.stage[id] = IF Out(endpoint, id) THEN "Confirmed" ELSE "ConfirmedNotExecuted"
      /\ \A j \in Ids \ {id} : auth'.stage[j] = auth.stage[j]
  BY <1>1, <1>2, <1>4, <1>6 DEF AuthorityValue
<1> HIDE DEF k, x, id
<1>9. LET d == Resolved(broker, {id}, k)
      IN  /\ Delivered(auth', d, endpoint)
          /\ d.epoch = broker.epoch /\ d.fenced = broker.fenced /\ d.stopped = broker.stopped
          /\ SentIn(d) = SentIn(broker)
          /\ \A j \in SentIn(d) : d.sent[j].epoch = broker.sent[j].epoch
  <2> DEFINE ids == {id}
             c == auth'
  <2>1. /\ ids \in SUBSET OpenIn(broker) /\ k \in [Ids -> Outcomes]
        /\ \A j \in ids : k[j] = endpoint.known[j] /\ k[j] # NoOutcome
        /\ c.action = auth.action /\ Delivered(auth, broker, endpoint)
        /\ \A j \in ids : c.stage[j] =
             IF Out(endpoint, j) THEN "Confirmed" ELSE "ConfirmedNotExecuted"
        /\ \A j \in Ids \ ids :
             \/ c.stage[j] = auth.stage[j]
             \/ auth.stage[j] \in InFlight /\ c.stage[j] \in InFlight
    BY <1>3, <1>4, <1>6, <1>8 DEF DeliveryInv
  <2> HIDE DEF ids, c
  <2>2. LET d == Resolved(broker, ids, k)
        IN  /\ Delivered(c, d, endpoint)
            /\ d.epoch = broker.epoch /\ d.fenced = broker.fenced /\ d.stopped = broker.stopped
            /\ SentIn(d) = SentIn(broker)
            /\ \A j \in SentIn(d) : d.sent[j].epoch = broker.sent[j].epoch
    BY <2>1, SettleDelivers
  <2>3. QED
    BY <2>2 DEF ids, c
<1>10. Fenced(broker', endpoint', acks')
  BY <1>1, <1>9 DEF DeliveryInv, Fenced
<1>11. ControlStep /\ ActorStays
  BY <1>1, <1>5, <1>7 DEF ControlStep, ActorStays, Host
<1>12. QED
  BY <1>1, <1>9, <1>10, <1>11, NothingPublished DEF DeliveryInv, DeliveryStep

\* A new dispatcher epoch: whatever was sent is then of an earlier one.
LEMMA RefencedDelivers ==
  ASSUME DeliveryInv, NEW c, Calm(auth, c), NEW d, SameRecords(broker, d),
         d.epoch = broker.epoch + 1, ~d.fenced
  PROVE  Delivered(c, d, endpoint) /\ Fenced(d, endpoint, acks)
<1>1. broker \in BrokerValue /\ broker.epoch \in Nat /\ endpoint.epoch \in Nat
  BY DEF DeliveryInv, Delivered, BrokerValue, EndpointValue
<1>2. d.sent = broker.sent
  BY DEF SameRecords
<1>4. Delivered(c, d, endpoint)
  BY NothingCalm, CalmDelivers DEF DeliveryInv
<1>5. SentIn(d) = SentIn(broker)
  BY <1>2 DEF SentIn
<1>6. \A id \in SentIn(broker) : broker.sent[id].epoch \in Nat
  BY <1>1 DEF SentIn, BrokerValue, DeliveryRecord
<1>7. Fenced(broker, endpoint, acks)
  BY DEF DeliveryInv
<1>8. \A id \in SentIn(d) : d.sent[id].epoch < d.epoch /\ d.sent[id].epoch <= d.epoch
  BY <1>1, <1>2, <1>5, <1>6, <1>7 DEF Fenced
<1>9. endpoint.epoch <= d.epoch
  BY <1>1, <1>2, <1>7 DEF Fenced
<1>10. QED
  BY <1>4, <1>7, <1>8, <1>9 DEF Fenced

\* The broker with a new epoch, stopped or not, has the same records.
LEMMA RefencedFields ==
  ASSUME broker \in BrokerValue
  PROVE  LET stop == [Refenced EXCEPT !.stopped = TRUE]
         IN  /\ SameRecords(broker, Refenced) /\ Refenced.epoch = broker.epoch + 1
             /\ ~Refenced.fenced
             /\ SameRecords(broker, stop) /\ stop.epoch = broker.epoch + 1
             /\ ~stop.fenced
<1> DEFINE stop == [Refenced EXCEPT !.stopped = TRUE]
<1>1. /\ Refenced.epoch = broker.epoch + 1 /\ Refenced.fenced = FALSE
      /\ Refenced.sent = broker.sent /\ Refenced.pending = broker.pending
      /\ Refenced.version = broker.version /\ Refenced.view = broker.view
      /\ Refenced \in BrokerValue
  <2> DEFINE n == broker.epoch + 1
             b == [broker EXCEPT !.epoch = n]
  <2>1. n \in Nat
    BY DEF BrokerValue
  <2>2. Refenced = [b EXCEPT !.fenced = FALSE]
    BY DEF Refenced
  <2> HIDE DEF n
  <2>3. /\ b \in BrokerValue /\ b.epoch = n /\ b.sent = broker.sent
        /\ b.pending = broker.pending /\ b.version = broker.version /\ b.view = broker.view
    BY <2>1 DEF BrokerValue
  <2> HIDE DEF b
  <2>4. QED
    BY <2>2, <2>3 DEF BrokerValue, n
<1>2. /\ stop.epoch = Refenced.epoch /\ stop.fenced = Refenced.fenced
      /\ stop.sent = Refenced.sent /\ stop.pending = Refenced.pending
      /\ stop.version = Refenced.version /\ stop.view = Refenced.view
      /\ stop \in BrokerValue
  BY <1>1 DEF BrokerValue
<1> HIDE DEF stop
<1>3. QED
  BY <1>1, <1>2 DEF SameRecords, stop

\* The endpoint acknowledged the fence of the broker's epoch.
LEMMA ConfirmSteps ==
  ASSUME DeliveryInv, NEW epoch \in acks, ConfirmFence(epoch)
  PROVE  DeliveryStep
<1>1. /\ UNCHANGED <<auth, pending, actor, endpoint, acks, receipts>> /\ epoch = broker.epoch
      /\ broker' = [broker EXCEPT !.fenced = TRUE]
  BY DEF ConfirmFence, Acknowledges, control, vars
<1>2. broker \in BrokerValue /\ broker.epoch \in Nat /\ endpoint.epoch \in Nat
  BY DEF DeliveryInv, Delivered, BrokerValue, EndpointValue
<1>3. /\ SameRecords(broker, broker') /\ broker'.epoch = broker.epoch
      /\ broker'.stopped = broker.stopped /\ broker'.sent = broker.sent
  BY <1>1, <1>2 DEF SameRecords, BrokerValue
<1>4. Delivered(auth', broker', endpoint')
  BY <1>1, <1>3, NothingCalm, CalmDelivers DEF DeliveryInv
<1>5. Fenced(broker', endpoint', acks')
  <2>1. endpoint.epoch = broker.epoch
    BY <1>1, <1>2 DEF DeliveryInv, Fenced
  <2>2. SentIn(broker') = SentIn(broker)
    BY <1>3 DEF SentIn
  <2>3. QED
    BY <1>1, <1>3, <2>1, <2>2 DEF DeliveryInv, Fenced
<1>6. ControlStep /\ ActorStays
  BY <1>1 DEF ControlStep, ActorStays, SameIncidents
<1>7. QED
  BY <1>1, <1>4, <1>5, <1>6, NothingPublished DEF DeliveryInv, DeliveryStep

\* Acknowledgments that never came are given up on.
LEMMA InterruptedCalm ==
  ASSUME NEW a, Sound(a), Bound(a), NEW ids \in SUBSET Ids,
         \A id \in ids : a.stage[id] = "Dispatching"
  PROVE  LET b == Settled(a, {}, {}, ids)
         IN  /\ Good(a, b) /\ Marks(a, b) /\ Calm(a, b) /\ SameIncidents(a, b)
             /\ \A id \in Ids : b.stage[id] = "Dispatching" => a.stage[id] = "Dispatching"
<1> DEFINE b == Settled(a, {}, {}, ids)
<1>1. Batch(a, {}, {}, ids)
  BY DEF Batch
<1>2. /\ Good(a, b) /\ Marks(a, b) /\ b.action = a.action
      /\ b.rights.incident_count = a.rights.incident_count
      /\ \A id \in Ids : b.stage[id] = SettledStage(a, {}, {}, ids, id)
  BY <1>1, SettledGood
<1> HIDE DEF b
<1>3. \A id \in Ids : b.stage[id] = IF id \in ids THEN "Unknown" ELSE a.stage[id]
  BY <1>2 DEF SettledStage
<1>4. Calm(a, b)
  BY <1>2, <1>3 DEF Calm, InFlight
<1>5. QED
  BY <1>2, <1>3, <1>4 DEF SameIncidents, b

\* The dispatcher restarts.
LEMMA RestartSteps ==
  ASSUME DeliveryInv, RestartDispatcher
  PROVE  DeliveryStep
<1>1. /\ Sound(auth) /\ Bound(auth)
      /\ auth' = Settled(auth, {}, {}, Interrupted) /\ broker' = Refenced
      /\ UNCHANGED <<pending, actor, endpoint, acks, receipts>>
  BY DEF DeliveryInv, ControlInv, RestartDispatcher, Host
<1>2. Interrupted \in SUBSET Ids /\ \A id \in Interrupted : auth.stage[id] = "Dispatching"
  BY DEF Interrupted, Unresolved, Sent
<1>3. Good(auth, auth') /\ Marks(auth, auth') /\ Calm(auth, auth') /\ SameIncidents(auth, auth')
  BY <1>1, <1>2, InterruptedCalm
<1>4. broker \in BrokerValue
  BY DEF DeliveryInv, Delivered
<1>5. SameRecords(broker, broker') /\ broker'.epoch = broker.epoch + 1 /\ ~broker'.fenced
  BY <1>1, <1>4, RefencedFields
<1>6. Delivered(auth', broker', endpoint) /\ Fenced(broker', endpoint, acks)
  BY <1>3, <1>5, RefencedDelivers
<1>7. ControlStep /\ ActorStays
  BY <1>1, <1>3 DEF ControlStep, ActorStays
<1>8. QED
  BY <1>1, <1>6, <1>7, NothingPublished DEF DeliveryInv, DeliveryStep

\* A credibility change is a new policy and a new dispatcher epoch.
LEMMA CredibilitySteps ==
  ASSUME DeliveryInv, ChangeCredibility
  PROVE  DeliveryStep
<1>1. /\ Sound(auth) /\ Bound(auth) /\ auth \in AuthorityValue /\ CanRevokeAll(auth)
      /\ auth' = AfterReplacePolicy(auth) /\ broker' = Refenced
      /\ UNCHANGED <<pending, actor, endpoint, acks, receipts>>
  BY DEF DeliveryInv, ControlInv, Sound, ChangeCredibility, ReplacePolicy, Host
<1>2. Good(auth, auth') /\ Marks(auth, auth')
  BY <1>1, ReplacePolicyGood, RunMarks
<1>3. Calm(auth, auth') /\ SameIncidents(auth, auth')
  BY <1>1, InterventionsQuiet, QuietIsCalm
<1>4. broker \in BrokerValue
  BY DEF DeliveryInv, Delivered
<1>5. SameRecords(broker, broker') /\ broker'.epoch = broker.epoch + 1 /\ ~broker'.fenced
  BY <1>1, <1>4, RefencedFields
<1>6. Delivered(auth', broker', endpoint) /\ Fenced(broker', endpoint, acks)
  BY <1>3, <1>5, RefencedDelivers
<1>7. ControlStep /\ ActorStays
  BY <1>1, <1>2, <1>3 DEF ControlStep, ActorStays
<1>8. QED
  BY <1>1, <1>6, <1>7, NothingPublished DEF DeliveryInv, DeliveryStep

\* A stop is a fence of the authority, a restart, and the end of dispatching.
LEMMA StopSteps ==
  ASSUME DeliveryInv, RequestStop
  PROVE  DeliveryStep
<1> DEFINE n == auth.rights.epoch + 1
           m == AfterFence(auth, n)
<1>1. /\ Sound(auth) /\ Bound(auth) /\ auth \in AuthorityValue /\ CanRevokeAll(auth)
      /\ auth' = Settled(m, {}, {}, Interrupted)
      /\ broker' = [Refenced EXCEPT !.stopped = TRUE]
      /\ UNCHANGED <<pending, actor, endpoint, acks, receipts>>
  BY DEF DeliveryInv, ControlInv, Sound, RequestStop, Host
<1>2. n \in 0..U64Max
  BY <1>1, SoundFields DEF CanRevokeAll, CanRevokeEpoch
<1> HIDE DEF n
<1>3. /\ Good(auth, m) /\ Marks(auth, m) /\ Quiet(auth, m) /\ SameIncidents(auth, m)
      /\ \A id \in Ids \ UndispatchedIds(auth) : m.stage[id] = auth.stage[id]
  BY <1>1, <1>2, FenceGood, RunMarks, InterventionsQuiet
<1> HIDE DEF m
<1>4. Sound(m) /\ Bound(m) /\ m \in AuthorityValue
  BY <1>3 DEF Good, Sound
<1>5. Interrupted \in SUBSET Ids /\ \A id \in Interrupted : m.stage[id] = "Dispatching"
  BY <1>3 DEF Interrupted, Unresolved, Sent, UndispatchedIds, Undispatched
<1>6. /\ Good(m, auth') /\ Marks(m, auth') /\ Calm(m, auth') /\ SameIncidents(m, auth')
      /\ \A id \in Ids : auth'.stage[id] = "Dispatching" => m.stage[id] = "Dispatching"
  BY <1>1, <1>4, <1>5, InterruptedCalm
<1>7. auth' \in AuthorityValue
  BY <1>6 DEF Good, Sound
<1>8. Good(auth, auth')
  BY <1>1, <1>3, <1>6, GoodChain
<1>9. Marks(auth, auth')
  BY <1>1, <1>3, <1>4, <1>6, <1>7, MarksChain
<1>10. Calm(auth, auth') /\ SameIncidents(auth, auth')
  BY <1>3, <1>6 DEF Calm, Quiet, SameIncidents, Departed
<1>11. broker \in BrokerValue
  BY DEF DeliveryInv, Delivered
<1>12. SameRecords(broker, broker') /\ broker'.epoch = broker.epoch + 1 /\ ~broker'.fenced
  BY <1>1, <1>11, RefencedFields
<1>13. Delivered(auth', broker', endpoint) /\ Fenced(broker', endpoint, acks)
  BY <1>10, <1>12, RefencedDelivers
<1>14. ControlStep /\ ActorStays
  BY <1>1, <1>8, <1>9, <1>10 DEF ControlStep, ActorStays
<1>15. QED
  BY <1>1, <1>13, <1>14, NothingPublished DEF DeliveryInv, DeliveryStep

\* A step of the endpoint alone.
LEMMA EndpointOnly ==
  ASSUME DeliveryInv, UNCHANGED <<control, broker>>,
         Delivered(auth, broker, endpoint'), Receipted(endpoint', receipts'),
         Fenced(broker, endpoint', acks'), PublishesCurrent
  PROVE  DeliveryStep
<1>1. UNCHANGED <<auth, pending, actor>>
  BY DEF control, vars
<1>2. ControlStep /\ ActorStays
  BY <1>1 DEF ControlStep, ActorStays, SameIncidents
<1>3. QED
  BY <1>1, <1>2 DEF DeliveryStep

\* The endpoint's clock.
LEMMA TimeSteps ==
  ASSUME DeliveryInv, NEW tick \in 0..MaxTick, EndpointTime(tick)
  PROVE  DeliveryStep
<1>1. /\ endpoint' = [endpoint EXCEPT !.elapsed = tick]
      /\ UNCHANGED <<control, broker, acks, receipts>>
  BY DEF EndpointTime
<1>2. endpoint \in EndpointValue /\ tick \in Int
  BY AuthorityAssumption DEF DeliveryInv, Delivered
<1>3. /\ SameAnswers(endpoint, endpoint') /\ endpoint'.epoch = endpoint.epoch
      /\ endpoint'.known = endpoint.known
  BY <1>1, <1>2 DEF SameAnswers, EndpointValue
<1>4. Delivered(auth, broker, endpoint')
  BY <1>3, NothingCalm, CalmDelivers DEF DeliveryInv
<1>5. Receipted(endpoint', receipts') /\ Fenced(broker, endpoint', acks')
  BY <1>1, <1>3 DEF DeliveryInv, Receipted, Fenced
<1>6. PublishesCurrent
  BY <1>3, NothingPublished DEF Out
<1>7. QED
  BY <1>1, <1>4, <1>5, <1>6, EndpointOnly

\* The endpoint acknowledges a fence that the broker once asked for.
LEMMA InstallSteps ==
  ASSUME DeliveryInv, NEW epoch \in 0..broker.epoch, InstallFence(epoch)
  PROVE  DeliveryStep
<1>1. /\ endpoint' = [endpoint EXCEPT !.epoch = epoch] /\ epoch >= endpoint.epoch
      /\ acks' = acks \cup {epoch} /\ UNCHANGED <<control, broker, receipts>>
  BY DEF InstallFence
<1>2. /\ endpoint \in EndpointValue /\ endpoint.epoch \in Nat /\ broker.epoch \in Nat
      /\ epoch \in Nat /\ epoch <= broker.epoch
  BY DEF DeliveryInv, Delivered, EndpointValue, BrokerValue
<1>3. /\ SameAnswers(endpoint, endpoint') /\ endpoint'.epoch = epoch
      /\ endpoint'.known = endpoint.known
  BY <1>1, <1>2 DEF SameAnswers, EndpointValue
<1>4. Delivered(auth, broker, endpoint')
  BY <1>3, NothingCalm, CalmDelivers DEF DeliveryInv
<1>5. Receipted(endpoint', receipts')
  BY <1>1, <1>3 DEF DeliveryInv, Receipted
<1>6. Fenced(broker, endpoint', acks')
  <2>1. Fenced(broker, endpoint, acks)
    BY DEF DeliveryInv
  <2>2. acks' \in SUBSET Nat /\ \A e \in acks' : e <= epoch
    BY <1>1, <1>2, <2>1 DEF Fenced
  <2>3. broker.fenced => epoch = broker.epoch
    BY <1>1, <1>2, <2>1 DEF Fenced
  <2>4. QED
    BY <1>2, <1>3, <2>1, <2>2, <2>3 DEF Fenced
<1>7. PublishesCurrent
  BY <1>3, NothingPublished DEF Out
<1>8. QED
  BY <1>1, <1>4, <1>5, <1>6, <1>7, EndpointOnly

\* The endpoint answers with terminal records.
LEMMA AnswersReceipted ==
  ASSUME NEW ep \in EndpointValue, NEW rs, Receipted(ep, rs),
         NEW ids \in SUBSET Ids, \A id \in ids : ep.known[id] # NoOutcome
  PROVE  Receipted(ep, rs \cup {[attempt |-> id, outcome |-> ep.known[id]] : id \in ids})
BY DEF Receipted, EndpointValue

\* The same for one attempt.
LEMMA AnswerReceipted ==
  ASSUME NEW ep \in EndpointValue, NEW rs, Receipted(ep, rs),
         NEW id \in Ids, ep.known[id] # NoOutcome
  PROVE  Receipted(ep, rs \cup {[attempt |-> id, outcome |-> ep.known[id]]})
BY DEF Receipted, EndpointValue

\* The endpoint answers for an attempt that it has a record of, or refuses or
\* seals one that it has none of.
LEMMA AnswerSteps ==
  ASSUME DeliveryInv, NEW id \in Ids, id \in Sent,
         \/ id \in Known /\ UNCHANGED endpoint
         \/ /\ id \notin Known
            /\ \E reason \in Results \ {"Executed"} :
                 endpoint' = Recorded(endpoint, {id}, reason),
         receipts' = receipts \cup {[attempt |-> id, outcome |-> endpoint'.known[id]]},
         UNCHANGED <<control, broker, acks>>
  PROVE  DeliveryStep
<1>1. /\ Delivered(auth, broker, endpoint') /\ Receipted(endpoint', receipts)
      /\ endpoint'.epoch = endpoint.epoch /\ endpoint'.known[id] # NoOutcome
      /\ \A j \in Ids : Out(endpoint', j) => Out(endpoint, j)
  <2>1. CASE id \in Known /\ UNCHANGED endpoint
    BY <2>1 DEF DeliveryInv, Known
  <2>2. CASE id \notin Known
    <3> DEFINE ids == {id}
    <3>1. PICK reason \in Results \ {"Executed"} : endpoint' = Recorded(endpoint, ids, reason)
      BY <2>2
    <3>2. ids \in SUBSET (SentIn(broker) \ KnownIn(endpoint)) /\ ids \subseteq Ids /\ id \in ids
      BY <2>2 DEF Sent, SentIn, Known, KnownIn
    <3> HIDE DEF ids
    <3>3. /\ Delivered(auth, broker, endpoint') /\ endpoint'.epoch = endpoint.epoch
          /\ \A j \in ids : endpoint'.known[j] = NotExecuted(reason)
          /\ \A j \in Ids \ ids : endpoint'.known[j] = endpoint.known[j]
          /\ \A rs : Receipted(endpoint, rs) => Receipted(endpoint', rs)
      BY <3>1, <3>2, RecordDelivers DEF DeliveryInv
    <3>4. NotExecuted(reason) # NoOutcome /\ NotExecuted(reason).result # "Executed"
      BY DEF NotExecuted, NoOutcome, Results
    <3>5. QED
      BY <3>2, <3>3, <3>4 DEF DeliveryInv, Out
  <2>3. QED
    BY <2>1, <2>2
<1>2. Receipted(endpoint', receipts')
  BY <1>1, AnswerReceipted DEF Delivered
<1>3. Fenced(broker, endpoint', acks')
  BY <1>1 DEF DeliveryInv, Fenced
<1>4. PublishesCurrent
  BY <1>1, NothingPublished
<1>5. QED
  BY <1>1, <1>2, <1>3, <1>4, EndpointOnly

\* An envelope is delivered.
LEMMA DeliverSteps ==
  ASSUME DeliveryInv, NEW id \in Ids, Deliver(id)
  PROVE  DeliveryStep
<1>1. /\ id \in Sent /\ SameEpoch(id) /\ UNCHANGED <<control, broker, acks>>
      /\ receipts' = receipts \cup {[attempt |-> id, outcome |-> endpoint'.known[id]]}
  BY DEF Deliver, Return
<1>2. CASE id \in Known
  BY <1>1, <1>2, AnswerSteps DEF Deliver, Undecided
<1>3. CASE id \notin Known /\ Verdict(id) # "Executed"
  <2>1. endpoint' = Recorded(endpoint, {id}, Verdict(id))
    BY <1>3 DEF Deliver, Undecided, Publish
  <2>2. Verdict(id) \in Results \ {"Executed"}
    BY <1>3 DEF Verdict, Results
  <2>3. QED
    BY <1>1, <1>3, <2>1, <2>2, AnswerSteps
<1>4. CASE id \notin Known /\ Verdict(id) = "Executed"
  <2>1. endpoint' = WithPublished(endpoint, id, auth.action[id])
    BY <1>4 DEF Deliver, Undecided, Publish, WithPublished
  <2>2. VersionOf[TargetOf[auth.action[id]]] = endpoint.version
    BY <1>4 DEF Verdict
  <2>3. id \in SentIn(broker) \ KnownIn(endpoint)
    BY <1>1, <1>4 DEF Sent, SentIn, Known, KnownIn
  <2>4. /\ Delivered(auth, broker, endpoint')
        /\ endpoint'.epoch = endpoint.epoch /\ Out(endpoint', id)
        /\ endpoint'.known[id] # NoOutcome
        /\ \A j \in Ids \ {id} : endpoint'.known[j] = endpoint.known[j]
        /\ \A rs : Receipted(endpoint, rs) => Receipted(endpoint', rs)
    BY <2>1, <2>2, <2>3, PublishDelivers DEF DeliveryInv
  <2>5. Receipted(endpoint', receipts')
    BY <1>1, <2>4, AnswerReceipted DEF DeliveryInv, Delivered
  <2>6. Fenced(broker, endpoint', acks')
    BY <1>1, <2>4 DEF DeliveryInv, Fenced
  <2>7. broker.fenced => broker.sent[id].epoch = broker.epoch /\ ~broker.stopped
    <3>1. broker.sent[id].epoch = endpoint.epoch /\ broker.epoch \in Nat
      BY <1>1 DEF SameEpoch, DeliveryInv, Delivered, BrokerValue
    <3>2. QED
      BY <2>3, <3>1 DEF DeliveryInv, Fenced
  <2>8. PublishesCurrent
    BY <2>4, <2>7 DEF PublishesCurrent, NoOutcome
  <2>9. QED
    BY <1>1, <2>4, <2>5, <2>6, <2>8, EndpointOnly
<1>5. QED
  BY <1>2, <1>3, <1>4

\* The endpoint's own operations.
LEMMA EndpointSteps ==
  ASSUME DeliveryInv, EndpointStep
  PROVE  DeliveryStep
<1>1. ASSUME NEW id \in Ids, SealUnexecuted(id)
      PROVE  DeliveryStep
  <2>1. /\ id \in Sent /\ UNCHANGED <<control, broker, acks>>
        /\ \/ id \in Known /\ UNCHANGED endpoint
           \/ id \notin Known /\ endpoint' = Recorded(endpoint, {id}, "Sealed")
        /\ receipts' = receipts \cup {[attempt |-> id, outcome |->
              IF id \in Known THEN endpoint.known[id] ELSE NotExecuted("Sealed")]}
    BY <1>1 DEF SealUnexecuted, Queried
  <2>2. endpoint'.known[id] =
          IF id \in Known THEN endpoint.known[id] ELSE NotExecuted("Sealed")
    <3>1. CASE id \in Known
      BY <2>1, <3>1
    <3>2. CASE id \notin Known
      <4>1. endpoint \in EndpointValue
        BY DEF DeliveryInv, Delivered
      <4>2. endpoint'.known[id] = NotExecuted("Sealed")
        BY <2>1, <3>2, <4>1 DEF Recorded, EndpointValue
      <4>3. QED
        BY <3>2, <4>2
    <3>3. QED
      BY <3>1, <3>2
  <2>3. receipts' = receipts \cup {[attempt |-> id, outcome |-> endpoint'.known[id]]}
    BY <2>1, <2>2
  <2>4. "Sealed" \in Results \ {"Executed"}
    BY DEF Results
  <2>5. QED
    BY <2>1, <2>3, <2>4, AnswerSteps
<1>2. ASSUME NEW id \in Ids, ResolveExpired(id)
      PROVE  DeliveryStep
  <2>1. "DeadlineElapsed" \in Results \ {"Executed"}
    BY DEF Results
  <2>2. QED
    BY <1>2, <2>1, AnswerSteps DEF ResolveExpired, Queried, Return
<1>3. ASSUME NEW id \in Ids, Status(id)
      PROVE  DeliveryStep
  BY <1>3, AnswerSteps DEF Status, Return
<1>4. QED
  BY <1>1, <1>2, <1>3, TimeSteps, InstallSteps, DeliverSteps DEF EndpointStep

\* A sweep, at an endpoint with the same answers fenced to the broker's epoch.
LEMMA SweepSteps ==
  ASSUME DeliveryInv, NEW ep, SameAnswers(endpoint, ep), ep.epoch = broker.epoch,
         NEW closed \in SUBSET (Pending \ Known), NEW reason \in Results \ {"Executed"},
         Sweep(ep, closed, reason)
  PROVE  DeliveryStep
<1> DEFINE settling == Recorded(ep, closed, reason)
           answered == {id \in Pending : Retained(id) /\ settling.known[id] # NoOutcome}
           accepted == {id \in answered : CanAccept(id, settling.known[id])}
           executed == {id \in accepted : settling.known[id].result = "Executed"}
           refunded == accepted \ executed
           lost == (Pending \ answered) \cap Interrupted
           d == Resolved(broker, accepted, settling.known)
<1>1. /\ Sound(auth) /\ Bound(auth)
      /\ auth' = Settled(auth, executed, refunded, lost)
      /\ broker' = [d EXCEPT !.fenced = TRUE]
      /\ endpoint' = settling
      /\ receipts' = receipts \cup
           {[attempt |-> id, outcome |-> settling.known[id]] : id \in answered}
      /\ UNCHANGED <<pending, actor, acks>>
  BY DEF DeliveryInv, ControlInv, Sweep, Host
<1>2. Delivered(auth, broker, ep) /\ Receipted(ep, receipts)
  <2>1. Delivered(auth, broker, ep)
    BY NothingCalm, CalmDelivers DEF DeliveryInv
  <2>2. QED
    BY <2>1 DEF DeliveryInv, Receipted, SameAnswers
<1>3. closed \in SUBSET (SentIn(broker) \ KnownIn(ep)) /\ closed \subseteq Ids
  BY DEF Pending, Unresolved, Sent, SentIn, Known, KnownIn, SameAnswers
<1>4. /\ Delivered(auth, broker, settling) /\ settling.epoch = broker.epoch
      /\ \A id \in closed : settling.known[id] = NotExecuted(reason)
      /\ \A id \in Ids \ closed : settling.known[id] = ep.known[id]
      /\ Receipted(settling, receipts)
  <2>1. settling = Recorded(ep, closed, reason)
    OBVIOUS
  <2> HIDE DEF settling
  <2>2. /\ Delivered(auth, broker, settling) /\ settling.epoch = ep.epoch
        /\ \A id \in closed : settling.known[id] = NotExecuted(reason)
        /\ \A id \in Ids \ closed : settling.known[id] = ep.known[id]
        /\ Receipted(settling, receipts)
    <3> DEFINE a == auth
               b == broker
               rs == receipts
    <3>1. /\ Delivered(a, b, ep) /\ Receipted(ep, rs) /\ reason \in Results \ {"Executed"}
          /\ closed \in SUBSET (SentIn(b) \ KnownIn(ep))
      BY <1>2, <1>3
    <3> HIDE DEF a, b, rs
    <3>2. Delivered(a, b, settling)
      BY <2>1, <3>1, RecordDelivers
    <3>3. Receipted(settling, rs)
      BY <2>1, <3>1, RecordDelivers
    <3>4. /\ settling.epoch = ep.epoch
          /\ settling.known =
               [id \in Ids |-> IF id \in closed THEN NotExecuted(reason) ELSE ep.known[id]]
      BY <2>1, <3>1 DEF Delivered, EndpointValue, Recorded
    <3>5. QED
      BY <1>3, <3>2, <3>3, <3>4 DEF a, b, rs
  <2>3. QED
    BY <2>2
<1>5. \A id \in Ids : Out(settling, id) => Out(endpoint, id)
  <2>1. NotExecuted(reason).result # "Executed"
    BY DEF NotExecuted
  <2> HIDE DEF settling
  <2>2. QED
    BY <1>4, <2>1 DEF Out, SameAnswers
<1> HIDE DEF settling
<1>6. /\ answered \in SUBSET Ids /\ accepted \in SUBSET OpenIn(broker)
      /\ \A id \in answered : settling.known[id] # NoOutcome
      /\ executed \subseteq accepted /\ accepted \subseteq answered
  BY DEF Pending, Unresolved, Sent, OpenIn, SentIn
<1>7. Batch(auth, executed, refunded, lost)
  <2>1. \A id \in Pending : id \in Ids /\ auth.stage[id] \in {"Dispatching", "Unknown"}
    BY DEF Pending, Unresolved, Sent
  <2>2. answered \subseteq Pending /\ lost \subseteq Pending \ answered
    OBVIOUS
  <2> HIDE DEF answered, accepted, executed, lost
  <2>3. QED
    BY <1>6, <2>1, <2>2 DEF Batch
<1>8. \A id \in accepted : id \in executed <=> Out(settling, id)
  BY DEF Out
<1>9. lost \cap accepted = {} /\ lost \subseteq Ids /\ accepted \subseteq Ids
      /\ \A id \in lost : auth.stage[id] = "Dispatching"
  BY <1>6 DEF Interrupted, Pending, Unresolved, Sent
<1> HIDE DEF answered, accepted, executed, lost
<1>10. /\ Good(auth, auth') /\ Marks(auth, auth') /\ auth'.action = auth.action
       /\ SameIncidents(auth, auth')
       /\ \A id \in Ids : auth'.stage[id] = SettledStage(auth, executed, refunded, lost, id)
  BY <1>1, <1>7, SettledGood DEF SameIncidents
<1>11. settling \in EndpointValue /\ settling.known \in [Ids -> Outcomes]
  BY <1>4 DEF Delivered, EndpointValue
<1>12. /\ Delivered(auth', d, settling)
       /\ d.epoch = broker.epoch /\ d.fenced = broker.fenced /\ d.stopped = broker.stopped
       /\ SentIn(d) = SentIn(broker)
       /\ \A id \in SentIn(d) : d.sent[id].epoch = broker.sent[id].epoch
  <2> DEFINE c == auth'
             k == settling.known
  <2>1. /\ Delivered(auth, broker, settling) /\ accepted \in SUBSET OpenIn(broker)
        /\ k \in [Ids -> Outcomes] /\ c.action = auth.action
        /\ \A id \in accepted : k[id] = settling.known[id] /\ k[id] # NoOutcome
    BY <1>4, <1>6, <1>10, <1>11
  <2>2. \A id \in accepted : c.stage[id] =
          IF Out(settling, id) THEN "Confirmed" ELSE "ConfirmedNotExecuted"
    BY <1>6, <1>8, <1>9, <1>10 DEF SettledStage
  <2>3. \A id \in Ids \ accepted :
          \/ c.stage[id] = auth.stage[id]
          \/ auth.stage[id] \in InFlight /\ c.stage[id] \in InFlight
    BY <1>6, <1>9, <1>10 DEF SettledStage, InFlight
  <2> HIDE DEF c, k
  <2>4. LET dd == Resolved(broker, accepted, k)
        IN  /\ Delivered(c, dd, settling)
            /\ dd.epoch = broker.epoch /\ dd.fenced = broker.fenced
            /\ dd.stopped = broker.stopped
            /\ SentIn(dd) = SentIn(broker)
            /\ \A id \in SentIn(dd) : dd.sent[id].epoch = broker.sent[id].epoch
    BY <2>1, <2>2, <2>3, SettleDelivers
  <2>5. QED
    BY <2>4 DEF c, k
<1> HIDE DEF d
<1>13. /\ SameRecords(d, broker') /\ broker'.epoch = broker.epoch
       /\ broker'.stopped = broker.stopped /\ broker'.sent = d.sent
  <2>1. d \in BrokerValue
    BY <1>12 DEF Delivered
  <2>2. QED
    BY <1>1, <1>12, <2>1 DEF SameRecords, BrokerValue
<1>14. Delivered(auth', broker', endpoint')
  <2>1. Calm(auth', auth') /\ SameAnswers(settling, settling)
    BY <1>11 DEF Calm, SameAnswers
  <2> DEFINE c == auth'
             e == broker'
  <2> HIDE DEF c, e
  <2>2. Delivered(c, e, settling)
    BY <1>12, <1>13, <2>1, CalmDelivers DEF c, e
  <2>3. QED
    BY <1>1, <2>2 DEF c, e
<1>15. Receipted(endpoint', receipts')
  BY <1>1, <1>4, <1>6, <1>11, AnswersReceipted
<1>16. Fenced(broker', endpoint', acks')
  <2>1. broker.epoch \in Nat /\ endpoint.epoch \in Nat /\ Fenced(broker, endpoint, acks)
    BY DEF DeliveryInv, Delivered, BrokerValue, EndpointValue
  <2>2. ASSUME NEW e \in acks
        PROVE  e \in Nat /\ e <= broker.epoch
    <3>1. e \in Nat /\ e <= endpoint.epoch /\ endpoint.epoch <= broker.epoch
      BY <2>1 DEF Fenced
    <3>2. QED
      BY <2>1, <3>1
  <2>3. SentIn(broker') = SentIn(broker)
        /\ \A id \in SentIn(broker') : broker'.sent[id].epoch = broker.sent[id].epoch
    BY <1>12, <1>13 DEF SentIn
  <2>4. /\ endpoint'.epoch = broker.epoch /\ broker'.epoch = broker.epoch /\ acks' = acks
        /\ broker.epoch <= broker.epoch
    BY <1>1, <1>4, <1>13, <2>1
  <2>5. \A id \in SentIn(broker') : /\ broker'.sent[id].epoch <= broker.epoch
                                    /\ broker'.stopped => broker'.sent[id].epoch < broker.epoch
    BY <1>13, <2>1, <2>3 DEF Fenced
  <2>6. QED
    BY <2>2, <2>4, <2>5 DEF Fenced
<1>17. ControlStep /\ ActorStays
  BY <1>1, <1>10 DEF ControlStep, ActorStays
<1>18. PublishesCurrent
  BY <1>1, <1>5, NothingPublished
<1>19. QED
  BY <1>14, <1>15, <1>16, <1>17, <1>18 DEF DeliveryStep

\* The sweeps of the broker and of a stop.
LEMMA SweepsDeliver ==
  ASSUME DeliveryInv, ReconcilePending \/ ProgressStop
  PROVE  DeliveryStep
<1>1. endpoint \in EndpointValue /\ broker.epoch \in Nat
  BY DEF DeliveryInv, Delivered, BrokerValue
<1>2. CASE ReconcilePending
  <2> DEFINE closed == {id \in Pending \ Known :
                          Retained(id) /\ endpoint.elapsed >= ExecutionDeadline(id)}
  <2>1. Sweep(endpoint, closed, "DeadlineElapsed") /\ endpoint.epoch = broker.epoch
    BY <1>2 DEF ReconcilePending
  <2>2. closed \in SUBSET (Pending \ Known) /\ "DeadlineElapsed" \in Results \ {"Executed"}
    BY DEF Results
  <2> HIDE DEF closed
  <2>3. QED
    BY <2>1, <2>2, NothingCalm, SweepSteps
<1>3. CASE ProgressStop
  <2> DEFINE ep == [endpoint EXCEPT !.epoch = broker.epoch]
  <2>1. Sweep(ep, Withdrawn, "Sealed")
    BY <1>3 DEF ProgressStop
  <2>2. Withdrawn \in SUBSET (Pending \ Known) /\ "Sealed" \in Results \ {"Executed"}
    BY DEF Withdrawn, Results
  <2>3. SameAnswers(endpoint, ep) /\ ep.epoch = broker.epoch
    BY <1>1 DEF SameAnswers, EndpointValue
  <2> HIDE DEF ep
  <2>4. QED
    BY <2>1, <2>2, <2>3, SweepSteps
<1>4. QED
  BY <1>2, <1>3

\* Every step of delivery is such a step.
LEMMA DeliverySteps ==
  ASSUME DeliveryInv, [DeliveryNext]_allVars
  PROVE  DeliveryStep
<1>1. ControlInv /\ ActorInv
  BY DEF DeliveryInv
<1>2. ASSUME NEW id \in Ids, BrokerStep(id)
      PROVE  DeliveryStep
  <2>1. ASSUME NEW e \in Effects, NEW certifiable \in BOOLEAN, BrokerPropose(id, e, certifiable)
        PROVE  DeliveryStep
    BY <1>1, <2>1, BrokerQuiet, QuietDelivers
  <2>2. ASSUME NEW round \in Rounds, NEW inputs \in Inputs, BrokerFormReview(id, round, inputs)
        PROVE  DeliveryStep
    BY <1>1, <2>2, BrokerQuiet, QuietDelivers
  <2>3. CASE BrokerAuthorize(id)
    BY <1>1, <2>3, BrokerQuiet, QuietDelivers
  <2>4. QED
    BY <1>2, <2>1, <2>2, <2>3, DispatchSteps, LostDelivers DEF BrokerStep
<1>3. ASSUME NEW rv \in Reviews, BrokerApplyReview(rv)
      PROVE  DeliveryStep
  <2>1. QuietStep /\ ActorStays
    BY <1>1, <1>3, AppliedQuiet
  <2>2. QED
    BY <2>1, QuietDelivers
<1>4. CASE PassedOn
  BY <1>1, <1>4, PassedOnQuiet, QuietDelivers
<1>5. CASE UNCHANGED allVars
  <2>1. UNCHANGED <<auth, pending, actor>> /\ UNCHANGED delivery
    BY <1>5 DEF allVars, control, vars
  <2>2. QuietStep /\ ActorStays
    BY <2>1, NothingQuiet DEF QuietStep, ControlStep, ActorStays
  <2>3. QED
    BY <2>2, QuietDelivers
<1>6. QED
  BY <1>2, <1>3, <1>4, <1>5, AcceptSteps, ConfirmSteps, RestartSteps, CredibilitySteps,
     StopSteps, SweepsDeliver, EndpointSteps DEF DeliveryNext

-----------------------------------------------------------------------------
(* The theorems.                                                           *)

\* Nothing was dispatched yet.
LEMMA StartsDelivered == DeliveryInit => DeliveryInv
<1> SUFFICES ASSUME DeliveryInit
             PROVE  DeliveryInv
  OBVIOUS
<1> DEFINE view == [messages |-> << >>, finished |-> FALSE]
<1>1. /\ auth = NewAuthority /\ pending = {} /\ actor.revision = 0
      /\ acks = {} /\ receipts = {}
      /\ broker = [epoch |-> 0, fenced |-> FALSE, stopped |-> FALSE, version |-> StartVersion,
                   view |-> view, pending |-> NoAttempt, sent |-> [id \in Ids |-> NoRecord]]
      /\ endpoint = [epoch |-> 0, elapsed |-> NoTick, version |-> StartVersion, view |-> view,
                     known |-> [id \in Ids |-> NoOutcome], published |-> << >>]
  BY DEF DeliveryInit, Init
<1>2. ControlInv /\ ActorInv
  BY <1>1, NewGood DEF ControlInv, ActorInv, Reviews, Updates
<1>3. /\ view \in Views /\ StartVersion \in Nat /\ NoOutcome \in Outcomes /\ NoTick \in Int
      /\ << >> \in Seq(Ids)
  <2>1. << >> \in Seq({MessageOf[e] : e \in Effects}) /\ << >> \in Seq(Ids)
    BY EmptySeq
  <2>2. QED
    BY <2>1, DeliveryAssumption, RightsAssumption
       DEF Views, NoOutcome, Outcomes, NoTick
<1> HIDE DEF view
<1>4. broker \in BrokerValue
  BY <1>1, <1>3 DEF BrokerValue
<1>5. endpoint \in EndpointValue
  <2>1. [id \in Ids |-> NoOutcome] \in [Ids -> Outcomes]
    BY <1>3
  <2>2. QED
    BY <1>1, <1>3, <2>1 DEF EndpointValue
<1>6. /\ \A id \in Ids : endpoint.known[id] = NoOutcome /\ ~Out(endpoint, id)
      /\ SentIn(broker) = {} /\ OpenIn(broker) = {}
  <2>1. \A id \in Ids : endpoint.known[id] = NoOutcome
    BY <1>1
  <2>2. NoOutcome.result # "Executed"
    BY DEF NoOutcome
  <2>3. SentIn(broker) = {}
    BY <1>1 DEF SentIn
  <2>4. QED
    BY <2>1, <2>2, <2>3 DEF Out, OpenIn
<1>7. \A id \in Ids : auth.stage[id] = "Absent"
  BY <1>1 DEF NewAuthority
<1>8. \A id \in Ids : Agree(auth, broker, endpoint, id)
  BY <1>6, <1>7 DEF Agree, Departed, InFlight
<1>9. InStep(auth, endpoint)
  <2>1. endpoint.published = << >> /\ Len(endpoint.published) = 0
        /\ endpoint.version = StartVersion
    BY <1>1
  <2>2. QED
    BY <1>3, <1>6, <2>1 DEF InStep
<1>10. Streamed(auth, broker, endpoint)
  BY <1>1, <1>6, DeliveryAssumption DEF Streamed
<1>11. Receipted(endpoint, receipts) /\ Fenced(broker, endpoint, acks)
  <2>1. broker.epoch = 0 /\ endpoint.epoch = 0
    BY <1>1
  <2>2. receipts = {} /\ acks = {}
    BY <1>1
  <2>3. Fenced(broker, endpoint, acks)
    BY <1>6, <2>1, <2>2 DEF Fenced
  <2>4. Receipted(endpoint, receipts)
    BY <2>2 DEF Receipted
  <2>5. QED
    BY <2>3, <2>4
<1>12. QED
  BY <1>2, <1>4, <1>5, <1>8, <1>9, <1>10, <1>11 DEF Delivered, DeliveryInv

\* A step keeps the invariant, loosens nothing, applies only what is fresh and
\* publishes only what the fence allows.
LEMMA DeliveryStepKeeps ==
  ASSUME DeliveryInv, DeliveryStep
  PROVE  /\ DeliveryInv'
         /\ Tightens /\ AppliedOnSeen /\ UpdatedFromSeen /\ PublishesCurrent
<1>1. ControlInv' /\ Tightens /\ AppliedOnSeen
  BY ControlStepKeeps DEF DeliveryInv, DeliveryStep
<1>2. ActorInv' /\ UpdatedFromSeen
  BY ActorStepKeeps DEF DeliveryInv, DeliveryStep
<1>3. /\ Delivered(auth, broker, endpoint)' /\ Receipted(endpoint, receipts)'
      /\ Fenced(broker, endpoint, acks)' /\ PublishesCurrent
  BY DEF DeliveryStep
<1>4. QED
  BY <1>1, <1>2, <1>3 DEF DeliveryInv

\* The invariant of delivery holds whatever is lost, late or repeated, restarted,
\* reset or stopped.
THEOREM DeliveryInvariant == DeliverySpec => []DeliveryInv
<1>1. DeliveryInv /\ [DeliveryNext]_allVars => DeliveryInv'
  BY DeliverySteps, DeliveryStepKeeps
<1>2. QED
  BY <1>1, StartsDelivered, PTL DEF DeliverySpec

\* For any attempts, clocks and losses: the units of an effect that is out are
\* never given back, a confirmed attempt was published, and a refunded one never
\* will be.
THEOREM DeliveryStaysCharged == DeliverySpec => []ExecutedStaysCharged
<1>1. DeliveryInv => ExecutedStaysCharged
  <2> SUFFICES ASSUME DeliveryInv, NEW id \in Sent
               PROVE  /\ id \in PublishedIds =>
                           StateOf(auth.rights, id) \in Liable \cup {"Committed"}
                      /\ auth.stage[id] = "Confirmed" => id \in PublishedIds
                      /\ auth.stage[id] = "ConfirmedNotExecuted" =>
                           id \in Known /\ endpoint.known[id].result # "Executed"
    BY DEF ExecutedStaysCharged
  <2>1. /\ id \in Ids /\ id \in SentIn(broker) /\ Agree(auth, broker, endpoint, id)
        /\ InStep(auth, endpoint)
    BY DEF Sent, SentIn, DeliveryInv, Delivered
  <2>2. id \in PublishedIds <=> Out(endpoint, id)
    BY <2>1 DEF PublishedIds, InStep
  <2>3. StateOf(auth.rights, id) \in LedgerStates(auth.stage[id])
    BY <2>1 DEF DeliveryInv, ControlInv, Sound, Books, Matched
  <2>4. auth.stage[id] \in Departed
    BY <2>1 DEF Agree
  <2>5. Out(endpoint, id) => auth.stage[id] \in InFlight \cup {"Confirmed"}
    BY <2>1, <2>4 DEF Agree, Departed
  <2>6. auth.stage[id] \in InFlight \cup {"Confirmed"} =>
          StateOf(auth.rights, id) \in Liable \cup {"Committed"}
    BY <2>3, StagesOfLedger DEF InFlight, Liable
  <2>7. QED
    BY <2>1, <2>2, <2>5, <2>6 DEF Agree, Known, Out
<1>2. QED
  BY <1>1, DeliveryInvariant, PTL

\* The broker's records, the controller's stages and the ledger never drift apart,
\* and no restart or stop is refused by its preflight.
THEOREM DeliveryRecordsMatch == DeliverySpec => []RecordsMatchStages
<1>1. DeliveryInv => RecordsMatchStages
  <2> SUFFICES ASSUME DeliveryInv
               PROVE  RecordsMatchStages
    OBVIOUS
  <2>1. StagesMatchLedger
    BY SoundMatches DEF DeliveryInv, ControlInv
  <2>2. Sent = SentIn(broker) /\ Unresolved = OpenIn(broker) /\ Sent \subseteq Ids
    BY DEF Sent, SentIn, Unresolved, OpenIn
  <2>3. \A id \in Ids : Agree(auth, broker, endpoint, id)
    BY DEF DeliveryInv, Delivered
  <2>4. RecordsCoherent
    BY <2>2, <2>3 DEF RecordsCoherent, Agree, Departed
  <2>5. \A id \in Ids \ Sent : auth.stage[id] \notin InFlight \cup
                                 {"Confirmed", "ConfirmedNotExecuted"}
    BY <2>2, <2>3 DEF Agree, Departed
  <2>6. \A id \in Sent \ Unresolved : broker.sent[id].resolution = endpoint.known[id]
    BY <2>2, <2>3 DEF Agree
  <2>7. QED
    BY <2>1, <2>4, <2>5, <2>6 DEF RecordsMatchStages
<1>2. QED
  BY <1>1, DeliveryInvariant, PTL

\* Every publication is in its place, and a stream is never more than the pending
\* action ahead of what the broker confirmed.
THEOREM DeliveryPublishedInStep == DeliverySpec => []PublishedInStep
<1>1. DeliveryInv => PublishedInStep
  <2> SUFFICES ASSUME DeliveryInv
               PROVE  PublishedInStep
    OBVIOUS
  <2>1. InStep(auth, endpoint) /\ Streamed(auth, broker, endpoint)
    BY DEF DeliveryInv, Delivered
  <2>2. Streaming =>
          \/ endpoint.view = broker.view /\ endpoint.version = broker.version
          \/ /\ broker.pending # NoAttempt
             /\ Advances(broker.view, auth.action[broker.pending])
             /\ endpoint.view = Advanced(broker.view, auth.action[broker.pending])
             /\ endpoint.version = broker.version + 1
    BY <2>1 DEF Streamed
  <2>3. QED
    BY <2>1, <2>2 DEF InStep, PublishedInStep
<1>2. QED
  BY <1>1, DeliveryInvariant, PTL

\* Once its fence is confirmed, nothing of an earlier dispatcher is published, and
\* after a stop nothing at all.
THEOREM DeliveryFenceHolds == DeliverySpec => FenceHolds
<1>1. DeliveryInv /\ [DeliveryNext]_allVars => [PublishesCurrent]_allVars
  BY DeliverySteps, DeliveryStepKeeps
<1>2. QED
  BY <1>1, DeliveryInvariant, PTL DEF DeliverySpec, FenceHolds

\* Under delivery, too, no step gives authority back.
THEOREM DeliveryNeverLoosened == DeliverySpec => NeverLoosened
<1>1. DeliveryInv /\ [DeliveryNext]_allVars => [Tightens]_vars
  BY DeliverySteps, DeliveryStepKeeps
<1>2. QED
  BY <1>1, DeliveryInvariant, PTL DEF DeliverySpec, NeverLoosened

\* An update computed before a reset never overwrites the rewind.
THEOREM DeliveryRewindKept == DeliverySpec => RewindNotOverwritten
<1>1. DeliveryInv /\ [DeliveryNext]_allVars => [UpdatedFromSeen]_vars
  BY DeliverySteps, DeliveryStepKeeps
<1>2. QED
  BY <1>1, DeliveryInvariant, PTL DEF DeliverySpec, RewindNotOverwritten

\* Under delivery, too, a review decides only on the control state it saw.
THEOREM DeliveryReviewsAreFresh == DeliverySpec => ReviewsAreFresh
<1>1. DeliveryInv /\ [DeliveryNext]_allVars => [AppliedOnSeen]_vars
  BY DeliverySteps, DeliveryStepKeeps
<1>2. QED
  BY <1>1, DeliveryInvariant, PTL DEF DeliverySpec, ReviewsAreFresh

=============================================================================
