------------------------------ MODULE Journal -------------------------------
(***************************************************************************)
(* The rights-transition journal of fa-journal (journal_core.rs, batch.rs, *)
(* reserve.rs) as a value: the records it holds, the ledger they rebuild   *)
(* and its encoded length, with the admission rules of append, of grouped  *)
(* append and of strict replay.                                            *)
(*                                                                         *)
(* A record is its event; framing is the length it adds.  A Head is a      *)
(* sequence number and a checksum chained over all earlier records, so a   *)
(* head stands for the exact record sequence it closes, and that sequence  *)
(* is the head here.  The chain is taken to separate different histories;  *)
(* the code claims this for accidental corruption only.                    *)
(***************************************************************************)
EXTENDS Rights, Sequences

CONSTANTS
  EffectBytes,     \* EffectBytes[e]: bytes of e's principal, target and payload
  HeaderLen,       \* 84 for a v1 header, 120 for a v2 header
  MaxFrameBytes,   \* Limits: the largest record body
  MaxRecords,      \* Limits: records over the life of the journal
  MaxTotalBytes,   \* Limits: bytes over the life of the journal
  ReserveRecords,  \* RecoveryReserve: records kept for recovery events
  ReserveBytes,    \* RecoveryReserve: bytes kept for recovery events
  BatchMaxRecords, \* BatchLimits: records of one group
  BatchMaxBytes,   \* BatchLimits: encoded bytes of one group
  Groups           \* the event groups that callers hand in

\* Journal::configured and RecoveryReserve::check; a v1 journal has no reserve.
ASSUME JournalAssumption ==
  /\ EffectBytes \in [Effects -> Nat]
  /\ HeaderLen \in Nat
  /\ MaxFrameBytes \in Nat /\ MaxFrameBytes >= 13
  /\ MaxRecords \in Nat \ {0}
  /\ MaxTotalBytes \in Nat
  /\ ReserveRecords \in 0..MaxRecords
  /\ ReserveBytes \in Nat /\ ReserveBytes >= 21 * ReserveRecords
  /\ HeaderLen + ReserveBytes <= MaxTotalBytes
  /\ BatchMaxRecords \in Nat \ {0}
  /\ BatchMaxBytes \in Nat \ {0}

-----------------------------------------------------------------------------
(* Events: the transitions of the ledger as data.                          *)

Event ==
  [op : {"Reserve", "Dispatch"}, id : Ids, effect : Effects]
    \cup [op : {"MarkUnknown", "AbortBeforeDispatch"}, id : Ids]
    \cup [op : {"Reconcile"}, id : Ids, occurred : BOOLEAN]
    \cup [op : {"RevokeEpoch"}]
    \cup [op : {"ResetToCheckpoint"}, keep : SUBSET Ids]

ASSUME GroupsAssumption == Groups \subseteq Seq(Event)

\* Mutant of RecoveryEvents: a checkpoint reset may use the recovery tail.
RecoveryEventsWithReset ==
  {"RevokeEpoch", "MarkUnknown", "AbortBeforeDispatch", "Reconcile",
   "ResetToCheckpoint"}

\* The events that may use the recovery tail (Journal::remaining_for).
RecoveryEvents ==
  {"RevokeEpoch", "MarkUnknown", "AbortBeforeDispatch", "Reconcile"}

\* The transitions the reference model accepts; a checkpoint must name
\* reservations that exist.
Lawful(r, ev) ==
  CASE ev.op = "Reserve" -> CanReserve(r, ev.id, ev.effect)
    [] ev.op = "Dispatch" -> CanDispatch(r, ev.id, ev.effect)
    [] ev.op = "MarkUnknown" -> CanMarkUnknown(r, ev.id)
    [] ev.op = "AbortBeforeDispatch" -> CanAbort(r, ev.id)
    [] ev.op = "Reconcile" -> CanReconcile(r, ev.id, ev.occurred)
    [] ev.op = "RevokeEpoch" -> CanRevokeEpoch(r)
    [] ev.op = "ResetToCheckpoint" ->
         /\ \A id \in ev.keep : r.reservations[id] # Missing
         /\ CanReset(r, ev.keep)

Applied(r, ev) ==
  CASE ev.op = "Reserve" -> AfterReserve(r, ev.id, ev.effect)
    [] ev.op = "Dispatch" -> AfterDispatch(r, ev.id)
    [] ev.op = "MarkUnknown" -> AfterMarkUnknown(r, ev.id)
    [] ev.op = "AbortBeforeDispatch" -> AfterAbort(r, ev.id)
    [] ev.op = "Reconcile" -> AfterReconcile(r, ev.id, ev.occurred)
    [] ev.op = "RevokeEpoch" -> AfterRevokeEpoch(r)
    [] ev.op = "ResetToCheckpoint" -> AfterReset(r, ev.keep)

\* apply_event: the transition and the conservation check that follows it.
Applies(r, ev) == Lawful(r, ev) /\ Conserves(Applied(r, ev))

\* The bytes of an encoded event: a tag and its fields (encode_event).
PayloadLen(ev) ==
  CASE ev.op \in {"Reserve", "Dispatch"} -> 1 + 8 + 8 + 12 + EffectBytes[ev.effect]
    [] ev.op \in {"MarkUnknown", "AbortBeforeDispatch"} -> 1 + 8
    [] ev.op = "Reconcile" -> 1 + 8 + 1
    [] ev.op = "RevokeEpoch" -> 1
    [] ev.op = "ResetToCheckpoint" -> 1 + 4 + 8 * Cardinality(ev.keep)

BodyLen(ev) == 12 + PayloadLen(ev)
RecordLen(ev) == BodyLen(ev) + 8

-----------------------------------------------------------------------------
(* The journal value and its remaining capacity.                           *)

NewJournal == [log |-> <<>>, rights |-> NewRights, len |-> HeaderLen]

\* saturating_sub
Monus(a, b) == IF a >= b THEN a - b ELSE 0

\* Journal::capacity, for the class of the event (Journal::remaining_for).
RemainingFor(j, ev) ==
  IF ev.op \in RecoveryEvents
    THEN [records |-> MaxRecords - Len(j.log), bytes |-> MaxTotalBytes - j.len]
    ELSE [records |-> Monus(MaxRecords - ReserveRecords, Len(j.log)),
          bytes |-> Monus(MaxTotalBytes - ReserveBytes, j.len)]

\* Journal::check_growth, on the length of a record body.
CheckGrowth(j, body) ==
  /\ body >= 13
  /\ body <= MaxFrameBytes
  /\ Len(j.log) < MaxRecords
  /\ j.len + body + 8 <= MaxTotalBytes

\* Journal::check_event_growth: the global limits and those of the class.
CheckEventGrowth(j, ev) ==
  /\ CheckGrowth(j, BodyLen(ev))
  /\ RemainingFor(j, ev).records # 0
  /\ RecordLen(ev) <= RemainingFor(j, ev).bytes

\* The journal with one more record.
Extended(j, ev) ==
  [log |-> Append(j.log, ev), rights |-> Applied(j.rights, ev),
   len |-> j.len + RecordLen(ev)]

\* Mutant of CanAppend: the recovery tail is open to every event.
CanAppendIntoTail(j, ev) ==
  /\ CheckGrowth(j, BodyLen(ev))
  /\ Applies(j.rights, ev)

\* Journal::append returns Ok.
CanAppend(j, ev) ==
  LET remaining == RemainingFor(j, ev)
  IN  /\ remaining.records # 0
      /\ remaining.bytes >= 21
      /\ PayloadLen(ev) <= remaining.bytes - 20
      /\ PayloadLen(ev) <= MaxFrameBytes - 12
      /\ CheckEventGrowth(j, ev)
      /\ Applies(j.rights, ev)

\* One record of strict replay is accepted (replay_from, check_record): the
\* length is checked before the record is read, its class after it is decoded.
CanReplayRecord(j, ev) ==
  /\ CheckGrowth(j, BodyLen(ev))
  /\ CheckEventGrowth(j, ev)
  /\ Applies(j.rights, ev)

-----------------------------------------------------------------------------
(* Sequences of records.                                                   *)

\* The journal after all of evs.
ExtendedAll(j, evs) ==
  LET upto[k \in 0..Len(evs)] ==
        IF k = 0 THEN j ELSE Extended(upto[k - 1], evs[k])
  IN  upto[Len(evs)]

\* Every event of evs is accepted in turn by the condition Can.
InTurn(Can(_, _), j, evs) ==
  \A k \in 1..Len(evs) : Can(ExtendedAll(j, SubSeq(evs, 1, k - 1)), evs[k])

CanAppendAll(j, evs) == InTurn(CanAppend, j, evs)

CanReplayAll(j, evs) == InTurn(CanReplayRecord, j, evs)

\* Mutant of GroupFits: the last record slot of the journal is not counted.
GroupFitsShort(j, count) ==
  /\ count \in 1..BatchMaxRecords
  /\ Len(j.log) + count < MaxRecords
  /\ 21 * count <= BatchMaxBytes
  /\ j.len + 21 * count <= MaxTotalBytes

\* Encoder::new: the cheap admission of a whole group of count events.
GroupFits(j, count) ==
  /\ count \in 1..BatchMaxRecords
  /\ Len(j.log) + count <= MaxRecords
  /\ 21 * count <= BatchMaxBytes
  /\ j.len + 21 * count <= MaxTotalBytes

\* Encoder::push: one event of a group that started at journal j0.
CanPush(j0, j, ev) ==
  LET capacity == RemainingFor(j, ev)
      group == BatchMaxBytes - (j.len - j0.len)
      remaining == IF group <= capacity.bytes THEN group ELSE capacity.bytes
  IN  /\ capacity.records # 0
      /\ remaining >= 21
      /\ PayloadLen(ev) <= remaining - 20
      /\ PayloadLen(ev) <= MaxFrameBytes - 12
      /\ CheckEventGrowth(j, ev)
      /\ Applies(j.rights, ev)

\* Journal::prepare_batch returns Ok; its candidate is ExtendedAll(j, evs).
CanPrepareBatch(j, evs) ==
  LET Push(q, ev) == CanPush(j, q, ev)
  IN  /\ GroupFits(j, Len(evs))
      /\ InTurn(Push, j, evs)

=============================================================================
