---------------------------- MODULE RightsLedger ----------------------------
(***************************************************************************)
(* The rights ledger as a state machine: one action per method of Rights.  *)
(* The methods may be called in any order with any arguments; a call the   *)
(* code refuses is a stuttering step.                                      *)
(***************************************************************************)
EXTENDS Rights

VARIABLE rights

Init == rights = NewRights

RevokeEpoch ==
  /\ CanRevokeEpoch(rights)
  /\ rights' = AfterRevokeEpoch(rights)

Reserve(id, e) ==
  /\ CanReserve(rights, id, e)
  /\ rights' = AfterReserve(rights, id, e)

Dispatch(id, e) ==
  /\ CanDispatch(rights, id, e)
  /\ rights' = AfterDispatch(rights, id)

MarkUnknown(id) ==
  /\ CanMarkUnknown(rights, id)
  /\ rights' = AfterMarkUnknown(rights, id)

AbortBeforeDispatch(id) ==
  /\ CanAbort(rights, id)
  /\ rights' = AfterAbort(rights, id)

Reconcile(id, occurred) ==
  /\ CanReconcile(rights, id, occurred)
  /\ rights' = AfterReconcile(rights, id, occurred)

ResetToCheckpoint(keep) ==
  /\ CanReset(rights, keep)
  /\ rights' = AfterReset(rights, keep)

Next ==
  \/ RevokeEpoch
  \/ \E id \in Ids :
       \/ \E e \in Effects : Reserve(id, e) \/ Dispatch(id, e)
       \/ MarkUnknown(id)
       \/ AbortBeforeDispatch(id)
       \/ \E occurred \in BOOLEAN : Reconcile(id, occurred)
  \/ \E keep \in SUBSET Ids : ResetToCheckpoint(keep)

Spec == Init /\ [][Next]_rights

-----------------------------------------------------------------------------
(* What makes the ledger correct.                                          *)

\* Every field of the ledger stays in the range of its Rust type.
TypeOK == rights \in Ledger

\* Rights::conserved holds after every sequence of operations, and the spent
\* balance is the units of the committed effects: no unit is created, lost,
\* refunded twice, or both refunded and spent.
Conservation ==
  /\ Conserves(rights)
  /\ rights.spent = UnitsIn(rights, {"Committed"})

\* Neither abort_before_dispatch nor reconcile nor reset_to_checkpoint can be
\* refused for Overflow: whatever the history, the units of a held reservation
\* still fit in the balance they return to.
SettlementNeverOverflows ==
  /\ \A id \in Ids :
       /\ StateOf(rights, id) = "Reserved" => CanAbort(rights, id)
       /\ StateOf(rights, id) \in Liable =>
            \A occurred \in BOOLEAN : CanReconcile(rights, id, occurred)
  /\ rights.incident_count < U64Max =>
       \A keep \in SUBSET Ids : CanReset(rights, keep)

Stale(id) ==
  /\ StateOf(rights, id) = "Reserved"
  /\ rights.reservations[id].epoch < rights.epoch

StaleStaysBack ==
  \A id \in Ids : Stale(id) => Stale(id)' \/ StateOf(rights', id) = "Aborted"

\* A reservation made before a revocation can never be dispatched: once its
\* epoch is behind the ledger's, it stays Reserved or is aborted
\* (revoke_epoch fences dispatch, and no operation refreshes an epoch).
StaleNeverDispatched == [][StaleStaysBack]_rights

Settled(r, id) == StateOf(r, id) \in {"Committed", "Aborted"}

BindingKept(id) ==
  rights.reservations[id] # Missing =>
    /\ rights'.reservations[id].effect = rights.reservations[id].effect
    /\ rights'.reservations[id].epoch = rights.reservations[id].epoch
    /\ Settled(rights, id) =>
         rights'.reservations[id] = rights.reservations[id]

SettledAlone(id) ==
  StateOf(rights, id) \in Liable /\ Settled(rights', id) =>
    /\ rights'.incident_count = rights.incident_count
    /\ \A other \in Ids \ {id} :
         rights'.reservations[other] = rights.reservations[other]

LiabilityKept == \A id \in Ids : BindingKept(id) /\ SettledAlone(id)

\* A dispatched effect is a historical liability: no operation, a checkpoint
\* reset included, refunds it except a reconciliation, which settles exactly
\* one effect and leaves the incident count alone; and no operation forgets an
\* identifier, rebinds it to another effect or epoch, or reopens a settled one.
LiabilityPersists == [][LiabilityKept]_rights

=============================================================================
