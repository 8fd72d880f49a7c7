---------------------------- MODULE FileJournal -----------------------------
(***************************************************************************)
(* The file adapter of fa-journal (file.rs, file/recovery.rs,              *)
(* file/batch_commit.rs, file/batch_recovery.rs, file/.../resume.rs,       *)
(* replay.rs): processes that create, lock, recover, extend and release    *)
(* one journal file, on a machine that can lose power.                     *)
(*                                                                         *)
(* The file is its header, its whole records and whether an incomplete     *)
(* record follows them; "synced" is the part a power loss cannot take      *)
(* back.  A call that does I/O is a sequence of steps, so a crash can come *)
(* between any two of them.  An I/O error is a step that may happen at any *)
(* moment.                                                                 *)
(***************************************************************************)
EXTENDS Journal, SequencesExt

CONSTANTS
  Procs,      \* processes that may own the file, one at a time
  NoGroup     \* marks a caller that has no unresolved group

VARIABLES
  disk,      \* the file: header, whole records, whether a torn record follows
  synced,    \* what survives a power loss: header and number of records
  handle,    \* handle[p]: the object through which p uses the file
  retained,  \* retained[p]: the head p's caller keeps outside the journal
  group,     \* group[p]: the group, with its anchor, p's caller keeps outside
  acked,     \* the history last acknowledged or exposed by any process, for as
             \* long as the file has not been replaced
  restored   \* whether the file was ever replaced by an older copy

fileVars == <<disk, synced, handle, retained, group, acked, restored>>

\* The modes of a handle, in the order the code passes through them:
\*   created                     create_new succeeded, the lock not yet taken
\*   creating                    create holds the lock
\*   replaying, replayed         FileRecovery, while Reading and when Ready
\*   open                        FileJournal
\*   preparing                   FileBatchCommit, stage Preparing
\*   writing, ready, written     bytes being written; all written; synced
\*   failed                      a session that can only be dropped
Modes == {"closed", "created", "creating", "replaying", "replayed", "open",
          "preparing", "writing", "ready", "written", "failed"}

\* Which call a handle is in the middle of.
Calls == {"none", "commit", "cooperative", "resume", "capture"}

Closed ==
  [mode |-> "closed", call |-> "none", journal |-> NewJournal,
   poisoned |-> FALSE, minimum |-> <<>>, target |-> NewJournal,
   torn |-> FALSE, wrote |-> 0]

FileInit ==
  /\ disk = [header |-> "none", recs |-> <<>>, torn |-> FALSE]
  /\ synced = [header |-> FALSE, count |-> 0]
  /\ handle = [p \in Procs |-> Closed]
  /\ retained = [p \in Procs |-> <<>>]
  /\ group = [p \in Procs |-> NoGroup]
  /\ acked = <<>>
  /\ restored = FALSE

-----------------------------------------------------------------------------
(* Helpers.                                                                *)

Locks(h) == h.mode \notin {"closed", "created"}

\* try_lock: succeeds when no other handle holds the file lock.
LockFree == \A p \in Procs : ~Locks(handle[p])

\* The events of the group still to be written by h.
Pending(h) == SubSeq(h.target.log, Len(h.journal.log) + 1, Len(h.target.log))

\* The extent checks compare the length of the file with an expected length.
ExtentIs(count, torn) == Len(disk.recs) = count /\ disk.torn = torn

SyncedAll == [header |-> TRUE, count |-> Len(disk.recs)]

\* A healthy FileJournal: the only handle that exposes accounting.
Healthy(p) == handle[p].mode = "open" /\ ~handle[p].poisoned

\* The handle becomes, or is again, a healthy owner of journal j, and j's head
\* is what its caller is told.
Publish(p, j) ==
  /\ handle' = [handle EXCEPT ![p] =
                 [Closed EXCEPT !.mode = "open", !.journal = j]]
  /\ acked' = IF restored THEN acked ELSE j.log

-----------------------------------------------------------------------------
(* Creation.                                                               *)

\* OpenOptions::create_new: never replaces an existing file.
CreateFile(p) ==
  /\ handle[p].mode = "closed"
  /\ disk.header = "none"
  /\ disk' = [disk EXCEPT !.header = "partial"]
  /\ handle' = [handle EXCEPT ![p].mode = "created"]
  /\ UNCHANGED <<synced, retained, group, acked, restored>>

\* The lock is taken after the file exists; another process may be faster,
\* and then create returns Busy.
CreateLock(p) ==
  /\ handle[p].mode = "created"
  /\ handle' = [handle EXCEPT ![p] =
                  IF LockFree THEN [@ EXCEPT !.mode = "creating"] ELSE Closed]
  /\ UNCHANGED <<disk, synced, retained, group, acked, restored>>

CreateHeader(p) ==
  /\ handle[p].mode = "creating"
  /\ disk.header = "partial"
  /\ disk' = [disk EXCEPT !.header = "whole"]
  /\ UNCHANGED <<synced, handle, retained, group, acked, restored>>

\* Both the file and its directory are synchronized before success.
CreateSync(p) ==
  /\ handle[p].mode = "creating"
  /\ disk.header = "whole"
  /\ synced' = SyncedAll
  /\ Publish(p, NewJournal)
  /\ UNCHANGED <<disk, retained, group, restored>>

-----------------------------------------------------------------------------
(* Recovery: a locked session that replays the file from its first byte.   *)

\* begin_open: lock an existing file whose length is within the limits.
BeginOpen(p) ==
  /\ handle[p].mode = "closed"
  /\ disk.header # "none"
  /\ LockFree
  /\ ExtendedAll(NewJournal, disk.recs).len <= MaxTotalBytes
  /\ handle' = [handle EXCEPT ![p] =
                  [Closed EXCEPT !.mode = "replaying", !.minimum = retained[p]]]
  /\ UNCHANGED <<disk, synced, retained, group, acked, restored>>

\* begin_history_anchor: a healthy owner replays its own file, under the same
\* lock, to archive it; the owner's journal is kept aside for comparison.
BeginCapture(p) ==
  /\ Healthy(p)
  /\ ExtentIs(Len(handle[p].journal.log), FALSE)
  /\ handle' = [handle EXCEPT ![p] =
                  [Closed EXCEPT !.mode = "replaying", !.call = "capture",
                                 !.minimum = handle[p].journal.log,
                                 !.target = handle[p].journal]]
  /\ UNCHANGED <<disk, synced, retained, group, acked, restored>>

\* Mutant of MeetsMinimum: only the sequence number of the minimum is used.
MeetsMinimumBySequence(log, minimum) == TRUE

\* At the sequence number of the minimum the head must be the minimum.
MeetsMinimum(log, minimum) == Len(log) = Len(minimum) => log = minimum

\* check_record: one whole record, in order, chained and acceptable.
ReplayRecord(p) ==
  LET h == handle[p]
      k == Len(h.journal.log) + 1
  IN  /\ h.mode = "replaying"
      /\ disk.header = "whole"
      /\ k <= Len(disk.recs)
      /\ CanReplayRecord(h.journal, disk.recs[k])
      /\ MeetsMinimum(Append(h.journal.log, disk.recs[k]), h.minimum)
      /\ handle' = [handle EXCEPT ![p].journal = Extended(@, disk.recs[k])]
      /\ UNCHANGED <<disk, synced, retained, group, acked, restored>>

\* End of file between two records, with the minimum behind it (anchor_seen).
CleanEnd(h) ==
  /\ disk.header = "whole"
  /\ Len(h.journal.log) = Len(disk.recs)
  /\ ~disk.torn
  /\ Len(h.minimum) <= Len(h.journal.log)

ReplayEnd(p) ==
  /\ handle[p].mode = "replaying"
  /\ CleanEnd(handle[p])
  /\ handle' = [handle EXCEPT ![p].mode = "replayed"]
  /\ UNCHANGED <<disk, synced, retained, group, acked, restored>>

\* A refused record, a torn tail, a history behind the minimum or a read
\* error: the cursor latches Failed and never becomes Ready.
ReplayFail(p) ==
  /\ handle[p].mode = "replaying"
  /\ handle' = [handle EXCEPT ![p].mode = "failed"]
  /\ UNCHANGED <<disk, synced, retained, group, acked, restored>>

\* Mutant of RecoverySync: recovered records are exposed without a sync.
RecoverySyncSkipped == synced

RecoverySync == SyncedAll

\* finish: the file still has the replayed extent; the recovered records are
\* synchronized before they are exposed.
FinishOpen(p) ==
  LET h == handle[p]
  IN  /\ h.mode = "replayed"
      /\ h.call = "none"
      /\ ExtentIs(Len(h.journal.log), FALSE)
      /\ synced' = RecoverySync
      /\ Publish(p, h.journal)
      /\ UNCHANGED <<disk, retained, group, restored>>

\* finish of a capture: the reconstruction must equal the owner's journal,
\* which is handed back; nothing is synchronized.
FinishCapture(p) ==
  LET h == handle[p]
  IN  /\ h.mode = "replayed"
      /\ h.call = "capture"
      /\ h.journal = h.target
      /\ ExtentIs(Len(h.journal.log), FALSE)
      /\ Publish(p, h.target)
      /\ UNCHANGED <<disk, synced, retained, group, restored>>

-----------------------------------------------------------------------------
(* Extending the journal.                                                  *)

\* The caller keeps the group and the head before it, then starts the call.
KeepGroup(p, evs) ==
  /\ group[p] = NoGroup
  /\ group' = [group EXCEPT ![p] =
                 [anchor |-> handle[p].journal.log, events |-> evs]]

\* Mutant of Poison: the writer is not marked before its I/O.
PoisonLate(h) == h

\* The writer is marked poisoned before any I/O.
Poison(h) == [h EXCEPT !.poisoned = TRUE]

\* h starts to write the records of evs, which it has validated.
StartWriting(h, call, evs) ==
  [Poison(h) EXCEPT !.mode = "writing", !.call = call,
                    !.target = ExtendedAll(h.journal, evs)]

\* commit and commit_batch: the whole group is validated before any I/O.
Commit(p, evs) ==
  /\ Healthy(p)
  /\ KeepGroup(p, evs)
  /\ CanPrepareBatch(handle[p].journal, evs)
  /\ handle' = [handle EXCEPT ![p] = StartWriting(@, "commit", evs)]
  /\ UNCHANGED <<disk, synced, retained, acked, restored>>

\* begin_commit_batch: only the cheap admission; the owner is consumed.
BeginCommitBatch(p, evs) ==
  /\ Healthy(p)
  /\ KeepGroup(p, evs)
  /\ GroupFits(handle[p].journal, Len(evs))
  /\ handle' = [handle EXCEPT ![p].mode = "preparing",
                              ![p].call = "cooperative",
                              ![p].target = handle[p].journal]
  /\ UNCHANGED <<disk, synced, retained, acked, restored>>

\* advance in stage Preparing: one more event is validated, or the session
\* fails for good.
PrepareRecord(p) ==
  LET h == handle[p]
      evs == group[p].events
      k == Len(h.target.log) - Len(h.journal.log) + 1
      next == Extended(h.target, evs[k])
  IN  /\ h.mode = "preparing"
      /\ handle' = [handle EXCEPT ![p] =
                      IF ~CanPush(h.journal, h.target, evs[k])
                        THEN [h EXCEPT !.mode = "failed"]
                        ELSE [h EXCEPT !.target = next,
                                       !.mode = IF k = Len(evs)
                                                THEN "writing" ELSE "preparing"]]
      /\ UNCHANGED <<disk, synced, retained, group, acked, restored>>

\* A cooperative session checks the extent before every write, the other calls
\* before their first.
ChecksExtent(h) == h.call = "cooperative" \/ (h.wrote = 0 /\ ~h.torn)

\* A write call appends some of the remaining bytes: whole records, and
\* perhaps a part of the next one.
WriteSome(p) ==
  LET h == handle[p]
      n == Len(Pending(h))
  IN  /\ h.mode = "writing"
      /\ ChecksExtent(h) => ExtentIs(Len(h.journal.log) + h.wrote, h.torn)
      /\ \E k \in h.wrote..n, torn \in BOOLEAN :
           /\ k = n => ~torn
           /\ k > h.wrote \/ (torn /\ ~h.torn)
           /\ disk' = [disk EXCEPT
                        !.recs = @ \o SubSeq(Pending(h), h.wrote + 1, k),
                        !.torn = torn]
           /\ handle' = [handle EXCEPT ![p] =
                           [Poison(h) EXCEPT !.wrote = k, !.torn = torn,
                              !.mode = IF k = n THEN "ready" ELSE "writing"]]
      /\ UNCHANGED <<synced, retained, group, acked, restored>>

\* sync_all; the cooperative session checks the extent first.
SyncGroup(p) ==
  LET h == handle[p]
  IN  /\ h.mode = "ready"
      /\ h.call = "cooperative" => ExtentIs(Len(h.target.log), FALSE)
      /\ synced' = SyncedAll
      /\ handle' = [handle EXCEPT ![p] = [Poison(h) EXCEPT !.mode = "written"]]
      /\ UNCHANGED <<disk, retained, group, acked, restored>>

\* A failed extent check, write or sync: what reached the file is unknown.  A
\* commit returns to its caller with the writer poisoned, a cooperative
\* session is Failed.
WriteFail(p) ==
  LET h == handle[p]
  IN  /\ h.mode \in {"writing", "ready", "written"}
      /\ handle' = [handle EXCEPT ![p] =
                      [h EXCEPT !.mode = IF h.call = "cooperative"
                                         THEN "failed" ELSE "open",
                                !.call = "none", !.target = NewJournal,
                                !.wrote = 0, !.torn = FALSE]]
      /\ UNCHANGED <<disk, synced, retained, group, acked, restored>>

\* The candidate is installed and its head acknowledged; a resumption checks
\* the extent once more.  The caller no longer needs the group.
Install(p) ==
  LET h == handle[p]
  IN  /\ h.mode = "written"
      /\ h.call = "resume" => ExtentIs(Len(h.target.log), FALSE)
      /\ Publish(p, h.target)
      /\ group' = [group EXCEPT ![p] = NoGroup]
      /\ UNCHANGED <<disk, synced, retained, restored>>

\* history_anchor or inspect_batch met an I/O error after its reads began.
ReadFail(p) ==
  /\ Healthy(p)
  /\ handle' = [handle EXCEPT ![p] = Poison(@)]
  /\ UNCHANGED <<disk, synced, retained, group, acked, restored>>

-----------------------------------------------------------------------------
(* Resuming a group whose outcome was uncertain, after a strict reopen.    *)

\* How many records follow the anchor.
Covered(p) == Len(handle[p].journal.log) - Len(group[p].anchor)

\* The refusals of verify_batch before any read leave the owner as it was.
MayInspect(p) ==
  /\ Healthy(p)
  /\ group[p] # NoGroup
  /\ Covered(p) \in 0..Len(group[p].events)
  /\ ExtendedAll(NewJournal, group[p].anchor).len <= handle[p].journal.len

\* Mutant of MatchesGroup: the stored records after the anchor are counted,
\* not compared.
MatchesGroupByCount(p) ==
  LET g == group[p]
  IN  /\ IsPrefix(g.anchor, handle[p].journal.log)
      /\ CanPrepareBatch(ExtendedAll(NewJournal, g.anchor), g.events)
      /\ ExtentIs(Len(handle[p].journal.log), FALSE)

\* verify_batch: the exact prefix, a whole group that is still valid from it,
\* and stored records after the anchor that are the first of the group.
MatchesGroup(p) ==
  LET g == group[p]
      log == handle[p].journal.log
  IN  /\ IsPrefix(g.anchor, log)
      /\ CanPrepareBatch(ExtendedAll(NewJournal, g.anchor), g.events)
      /\ log = g.anchor \o SubSeq(g.events, 1, Covered(p))
      /\ ExtentIs(Len(log), FALSE)

\* Mutant of MissingRecords: the group is written again from its start.
MissingRecordsAll(p) == group[p].events

\* The events of the group that are not in the file yet.
MissingRecords(p) ==
  SubSeq(group[p].events, Covered(p) + 1, Len(group[p].events))

\* The missing records are validated again, from the acknowledged state.
CanResume(p) == CanPrepareBatch(handle[p].journal, MissingRecords(p))

\* The whole group is already acknowledged: its head is returned, no write.
ResumeComplete(p) ==
  /\ MayInspect(p)
  /\ MatchesGroup(p)
  /\ Covered(p) = Len(group[p].events)
  /\ group' = [group EXCEPT ![p] = NoGroup]
  /\ UNCHANGED <<disk, synced, handle, retained, acked, restored>>

\* Only the missing records are prepared and written.
ResumeWrite(p) ==
  /\ MayInspect(p)
  /\ MatchesGroup(p)
  /\ Covered(p) < Len(group[p].events)
  /\ CanResume(p)
  /\ handle' = [handle EXCEPT ![p] = StartWriting(@, "resume", MissingRecords(p))]
  /\ UNCHANGED <<disk, synced, retained, group, acked, restored>>

\* Another history follows the anchor, or the missing records are refused: the
\* owner is quarantined.
ResumeConflict(p) ==
  /\ MayInspect(p)
  /\ \/ ~MatchesGroup(p)
     \/ Covered(p) < Len(group[p].events) /\ ~CanResume(p)
  /\ handle' = [handle EXCEPT ![p] = Poison(@)]
  /\ UNCHANGED <<disk, synced, retained, group, acked, restored>>

-----------------------------------------------------------------------------
(* The caller and the machine.                                             *)

\* The caller keeps acknowledged_head, which a poisoned owner still gives.
Retain(p) ==
  /\ handle[p].mode = "open"
  /\ retained' = [retained EXCEPT ![p] = handle[p].journal.log]
  /\ UNCHANGED <<disk, synced, handle, group, acked, restored>>

\* The caller gives up on a group it could not resume.
Forget(p) ==
  /\ handle[p].mode = "closed"
  /\ group[p] # NoGroup
  /\ group' = [group EXCEPT ![p] = NoGroup]
  /\ UNCHANGED <<disk, synced, handle, retained, acked, restored>>

\* The handle is dropped, cancelled or consumed by an error, or its process
\* ends: the lock is released and the file stays as it is.
Drop(p) ==
  /\ handle[p].mode # "closed"
  /\ handle' = [handle EXCEPT ![p] = Closed]
  /\ UNCHANGED <<disk, synced, retained, group, acked, restored>>

\* Power is lost: every process ends, and any part of the file that was not
\* synchronized may be gone or incomplete.
PowerLoss ==
  /\ \E header \in (IF synced.header THEN {"whole"}
                    ELSE IF disk.header = "whole" THEN {"none", "partial", "whole"}
                    ELSE {"none", disk.header}),
        n \in synced.count..Len(disk.recs), torn \in BOOLEAN :
       /\ header # "whole" => n = 0 /\ ~torn
       /\ torn => disk.torn \/ n < Len(disk.recs)
       /\ disk' = [header |-> header, recs |-> SubSeq(disk.recs, 1, n), torn |-> torn]
       /\ synced' = [header |-> header = "whole", count |-> n]
  /\ handle' = [p \in Procs |-> Closed]
  /\ UNCHANGED <<retained, group, acked, restored>>

\* The file at rest is replaced by an older copy of itself.
RollBack ==
  /\ \A p \in Procs : handle[p].mode = "closed"
  /\ \E n \in 0..Len(disk.recs) - 1 :
       /\ disk' = [disk EXCEPT !.recs = SubSeq(@, 1, n), !.torn = FALSE]
       /\ synced' = [synced EXCEPT !.count = IF @ <= n THEN @ ELSE n]
  /\ restored' = TRUE
  /\ UNCHANGED <<handle, retained, group, acked>>

FileNext ==
  \/ \E p \in Procs :
       \/ CreateFile(p) \/ CreateLock(p) \/ CreateHeader(p) \/ CreateSync(p)
       \/ BeginOpen(p) \/ BeginCapture(p) \/ ReplayRecord(p) \/ ReplayEnd(p)
       \/ ReplayFail(p) \/ FinishOpen(p) \/ FinishCapture(p)
       \/ \E evs \in Groups : Commit(p, evs) \/ BeginCommitBatch(p, evs)
       \/ PrepareRecord(p) \/ WriteSome(p) \/ SyncGroup(p) \/ WriteFail(p)
       \/ Install(p) \/ ReadFail(p)
       \/ ResumeComplete(p) \/ ResumeWrite(p) \/ ResumeConflict(p)
       \/ Retain(p) \/ Forget(p) \/ Drop(p)
  \/ PowerLoss
  \/ RollBack

FileSpec == FileInit /\ [][FileNext]_fileVars

-----------------------------------------------------------------------------
(* What makes the file adapter correct.                                    *)

\* Whoever can read accounting reads what a restart would rebuild: the records
\* behind an unpoisoned owner are exactly the records of the file, all of them
\* synchronized, with no torn tail, and its rights are what strict replay would
\* rebuild.  And nothing acknowledged is lost: after any crashes, power losses
\* and failed writes it is a prefix of the synchronized part of the file, unless
\* someone replaced the file.  This is what "poisoned before I/O" and the sync
\* before every returned head are for.
ExposedDurable ==
  /\ \A p \in Procs : Healthy(p) =>
       /\ disk = [header |-> "whole", recs |-> handle[p].journal.log, torn |-> FALSE]
       /\ synced = SyncedAll
       /\ handle[p].journal = ExtendedAll(NewJournal, disk.recs)
  /\ ~restored => IsPrefix(acked, SubSeq(disk.recs, 1, synced.count))

\* Whatever part of a group reached the file, the whole records in it are a
\* history that strict recovery accepts (a torn record after them is refused,
\* never repaired); and once the whole original group has been verified,
\* its missing records are never refused by the second validation of
\* resume_batch: no group is stuck half written because its rest does not fit.
InterruptedResumable ==
  /\ CanReplayAll(NewJournal, disk.recs)
  /\ \A p \in Procs :
       (MayInspect(p) /\ MatchesGroup(p) /\ Covered(p) < Len(group[p].events))
         => CanResume(p)

\* A caller never obtains an owner whose history is behind, or beside, the head
\* it retained, even if the file was rolled back to an older copy and others
\* extended it differently since (the minimum of FileJournal::open).
RetainedCovered ==
  \A p \in Procs :
    handle[p].mode = "open" => IsPrefix(retained[p], handle[p].journal.log)

\* A group whose caller is told it is committed, by the commit itself or by a
\* resumption after any number of crashes, is in the journal exactly once and
\* directly after its anchor (commit_batch, resume_batch).
GroupOnce(p) ==
  (group[p] # NoGroup /\ group'[p] = NoGroup /\ handle'[p].mode = "open")
    => handle'[p].journal.log = group[p].anchor \o group[p].events

BatchExactlyOnce == [][\A p \in Procs : GroupOnce(p)]_fileVars

\* What strict replay accepts from the genesis.
Replayable(log) == CanReplayAll(NewJournal, log)

History == INSTANCE AcknowledgedHistory WITH history <- acked, Acceptable <- Replayable

\* While no one rolls the file back, the acknowledged history only grows, and
\* stays replayable: the promise of AcknowledgedHistory.
AcknowledgedOnlyGrows == History!Spec

=============================================================================
