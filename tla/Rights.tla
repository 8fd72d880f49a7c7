------------------------------- MODULE Rights -------------------------------
(***************************************************************************)
(* The rights ledger of fa-reference (struct Rights in logical_core.rs) as *)
(* a value and the operations on it.  A ledger is a record; every          *)
(* operation is a pair of operators, the condition under which the code    *)
(* returns Ok and the ledger it then leaves.  An operation whose condition *)
(* is false returns an error and leaves the ledger as it was.              *)
(*                                                                         *)
(* The module has no variables: RightsLedger makes a state machine of it   *)
(* and the journal modules replay sequences of Events through it.          *)
(***************************************************************************)
EXTENDS Integers, FiniteSets

CONSTANTS
  Ids,        \* reservation identifiers (u64 in the code)
  Effects,    \* effects: principal, resolved target, payload and units
  Units,      \* Units[e]: the units field of effect e
  Malformed,  \* effects with an empty principal or an empty target
  NoEffect,   \* marks an identifier without a reservation
  Total,      \* the budget the ledger was created with
  U64Max      \* the largest u64, where checked_add reports Overflow

ASSUME RightsAssumption ==
  /\ IsFiniteSet(Ids)
  /\ U64Max \in Nat
  /\ Total \in 0..U64Max
  /\ Units \in [Effects -> 0..U64Max]
  /\ Malformed \subseteq Effects
  /\ NoEffect \notin Effects

Held == {"Reserved", "Dispatched", "Unknown"}
Liable == {"Dispatched", "Unknown"}
States == Held \cup {"Committed", "Aborted"}

\* An identifier that is not a key of the reservations map.
Missing == [effect |-> NoEffect, epoch |-> 0, state |-> "Missing"]

Reservation == [effect : Effects, epoch : 0..U64Max, state : States]

Ledger ==
  [available : 0..U64Max, spent : 0..U64Max, epoch : 0..U64Max,
   incident_count : 0..U64Max,
   reservations : [Ids -> Reservation \cup {Missing}]]

NewRights ==
  [available |-> Total, spent |-> 0, epoch |-> 0, incident_count |-> 0,
   reservations |-> [id \in Ids |-> Missing]]

StateOf(r, id) == r.reservations[id].state

\* The sum of effect.units over the reservations in one of the given states,
\* counted as a set of <<identifier, unit>> pairs: the pairs of different
\* reservations are disjoint, so their number is the sum.
UnitPairs(r, states) ==
  {p \in Ids \X (1..U64Max) :
     /\ StateOf(r, p[1]) \in states
     /\ p[2] <= Units[r.reservations[p[1]].effect]}

UnitsIn(r, states) == Cardinality(UnitPairs(r, states))

\* Rights::conserved.  A sum above U64Max is None in the code, never Total.
Conserves(r) == UnitsIn(r, Held) + r.available + r.spent = Total

\* The units of a reservation; only asked of identifiers that have one.
UnitsOf(r, id) == Units[r.reservations[id].effect]

SetState(r, id, s) == [r.reservations EXCEPT ![id].state = s]

-----------------------------------------------------------------------------
(* Operations: when the code returns Ok, and the ledger it leaves.         *)

CanRevokeEpoch(r) == r.epoch < U64Max

AfterRevokeEpoch(r) == [r EXCEPT !.epoch = @ + 1]

CanReserve(r, id, e) ==
  /\ r.reservations[id] = Missing
  /\ Units[e] # 0
  /\ e \notin Malformed
  /\ Units[e] <= r.available

AfterReserve(r, id, e) ==
  [r EXCEPT !.available = @ - Units[e],
            !.reservations = [@ EXCEPT ![id] =
              [effect |-> e, epoch |-> r.epoch, state |-> "Reserved"]]]

CanDispatch(r, id, e) ==
  /\ StateOf(r, id) = "Reserved"
  /\ r.reservations[id].epoch = r.epoch
  /\ r.reservations[id].effect = e

AfterDispatch(r, id) ==
  [r EXCEPT !.reservations = SetState(r, id, "Dispatched")]

CanMarkUnknown(r, id) == StateOf(r, id) = "Dispatched"

\* Mutant of AfterMarkUnknown: an unknown outcome gives its units back.
AfterMarkUnknownRefunded(r, id) ==
  [r EXCEPT !.available = @ + UnitsOf(r, id),
            !.reservations = SetState(r, id, "Unknown")]

AfterMarkUnknown(r, id) ==
  [r EXCEPT !.reservations = SetState(r, id, "Unknown")]

CanAbort(r, id) ==
  /\ StateOf(r, id) = "Reserved"
  /\ r.available + UnitsOf(r, id) <= U64Max

AfterAbort(r, id) ==
  [r EXCEPT !.available = @ + UnitsOf(r, id),
            !.reservations = SetState(r, id, "Aborted")]

CanReconcile(r, id, occurred) ==
  /\ StateOf(r, id) \in Liable
  /\ IF occurred THEN r.spent + UnitsOf(r, id) <= U64Max
                 ELSE r.available + UnitsOf(r, id) <= U64Max

\* Mutant of AfterReconcile: an effect that occurred is never charged to spent.
AfterReconcileUncharged(r, id, occurred) ==
  IF occurred
    THEN [r EXCEPT !.reservations = SetState(r, id, "Committed")]
    ELSE [r EXCEPT !.available = @ + UnitsOf(r, id),
                   !.reservations = SetState(r, id, "Aborted")]

AfterReconcile(r, id, occurred) ==
  IF occurred
    THEN [r EXCEPT !.spent = @ + UnitsOf(r, id),
                   !.reservations = SetState(r, id, "Committed")]
    ELSE [r EXCEPT !.available = @ + UnitsOf(r, id),
                   !.reservations = SetState(r, id, "Aborted")]

\* Mutant of Dropped: a reset also drops effects that were dispatched.
DroppedDispatched(r, keep) == {id \in Ids \ keep : StateOf(r, id) \in Held}

\* The reservations a reset aborts: still Reserved, and outside the checkpoint.
Dropped(r, keep) == {id \in Ids \ keep : StateOf(r, id) = "Reserved"}

Refund(r, keep) ==
  Cardinality({p \in UnitPairs(r, {"Reserved"}) : p[1] \notin keep})

CanReset(r, keep) ==
  /\ Conserves(r)
  /\ r.available + Refund(r, keep) <= U64Max
  /\ r.incident_count < U64Max

AfterReset(r, keep) ==
  [r EXCEPT !.available = @ + Refund(r, keep),
            !.incident_count = @ + 1,
            !.reservations = [id \in Ids |->
               IF id \in Dropped(r, keep)
                 THEN [r.reservations[id] EXCEPT !.state = "Aborted"]
                 ELSE r.reservations[id]]]

=============================================================================
