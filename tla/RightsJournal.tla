--------------------------- MODULE RightsJournal ----------------------------
(***************************************************************************)
(* The in-memory journal as a state machine: append and append_batch.  The *)
(* records are what a later replay would have to work from.                *)
(***************************************************************************)
EXTENDS Journal

VARIABLE journal

Init == journal = NewJournal

AppendEvent(ev) ==
  /\ CanAppend(journal, ev)
  /\ journal' = Extended(journal, ev)

\* A group that fails anywhere leaves the journal as it was.
AppendBatch(evs) ==
  /\ CanPrepareBatch(journal, evs)
  /\ journal' = ExtendedAll(journal, evs)

Next ==
  \/ \E ev \in Event : AppendEvent(ev)
  \/ \E evs \in Groups : AppendBatch(evs)

Spec == Init /\ [][Next]_journal

-----------------------------------------------------------------------------
(* What makes the journal correct.                                         *)

\* Strict replay accepts every history that append or append_batch produced,
\* and rebuilds from the genesis exactly the ledger and the length that the
\* live journal has: what is written can always be read back.
ReplayReproduces ==
  /\ CanReplayAll(NewJournal, journal.log)
  /\ ExtendedAll(NewJournal, journal.log) = journal

OrdinaryRecords ==
  {k \in 1..Len(journal.log) :
     journal.log[k].op \in {"Reserve", "Dispatch", "ResetToCheckpoint"}}

\* The journal as it was after its first k records.
Prefix(k) == ExtendedAll(NewJournal, SubSeq(journal.log, 1, k))

\* Reservations, dispatches and resets never consume the recovery tail, so
\* whatever ran before, a withdrawal or settlement of a live reservation is
\* refused for capacity only after the tail itself was used up by others
\* (Journal::remaining_for, RecoveryReserve).
TailReserved ==
  /\ \A k \in OrdinaryRecords :
       /\ k <= MaxRecords - ReserveRecords
       /\ Prefix(k).len <= MaxTotalBytes - ReserveBytes
  /\ \A ev \in Event :
       (/\ ev.op \in {"RevokeEpoch", "MarkUnknown", "AbortBeforeDispatch", "Reconcile"}
        /\ Applies(journal.rights, ev)
        /\ BodyLen(ev) <= MaxFrameBytes
        /\ Len(journal.log) < MaxRecords
        /\ journal.len + RecordLen(ev) <= MaxTotalBytes)
       => CanAppend(journal, ev)

\* A group is accepted exactly when its events would be accepted one by one
\* and the group keeps its own ceilings: the cheap admission test of
\* Encoder::new refuses no group that append would take, and admits none that
\* it would not.
BatchEqualsAppends ==
  \A evs \in Groups :
    CanPrepareBatch(journal, evs) <=>
      /\ evs # <<>>
      /\ Len(evs) <= BatchMaxRecords
      /\ CanAppendAll(journal, evs)
      /\ ExtendedAll(journal, evs).len - journal.len <= BatchMaxBytes

=============================================================================
