----------------------------- MODULE FileAndon ------------------------------
(***************************************************************************)
(* fa-journal: the file of the andon ledger (file.rs, module andon) and    *)
(* the imports that append many receipts to it (evaluated_andon.rs,        *)
(* evaluated_andon/native_sync.rs), on a machine that can lose power.      *)
(*                                                                         *)
(* A record is a registered window or a confirmed false hold.  The chained *)
(* checksum is taken to tell histories apart, so a head is a history.  One *)
(* call of record or register is: validate, poison, append, sync, expose;  *)
(* an I/O error can come after any of the last three.                      *)
(***************************************************************************)
EXTENDS Andon, CongressPolicy, SequencesExt

CONSTANTS
  Procs,        \* processes that may own the file, one at a time
  MaxRecords,   \* MAX_RECORDS
  Batches,      \* what an import may be asked to append, in order
  Transcripts,  \* reviews that record_review may be given
  Policy        \* the policy of those reviews

VARIABLES
  disk,      \* the file: header, whole records, whether an incomplete one follows
  synced,    \* what survives a power loss: header, directory entry, number of records
  handle,    \* handle[p]: the FileAndonLedger of p
  cursor,    \* cursor[p]: the import that borrows p's ledger, or Unset
  retained,  \* retained[p]: the head p's caller keeps outside the file
  acked      \* the longest history of this file acknowledged to anyone

andonVars == <<disk, synced, handle, cursor, retained, acked>>

Records ==
  [kind : {"Window"}, value : Budgets] \cup [kind : {"FalseHold"}, value : Facts]

\* Imports are lists of records.
ASSUME FileAndonAssumption ==
  MaxRecords \in Nat /\ \A batch \in Batches : batch.records \in Seq(Records)

\* apply: a record that is acceptable and new changes the ledger, any other is
\* refused or answered without a change.
CanApply(l, rec) ==
  IF rec.kind = "Window" THEN CanRegister(l, rec.value) ELSE CanRecord(l, rec.value)

AfterApply(l, rec) ==
  IF ~CanApply(l, rec) THEN l
  ELSE IF rec.kind = "Window" THEN AfterRegister(l, rec.value)
  ELSE AfterRecord(l, rec.value)

\* The ledger after the first k records.
AppliedUpTo(l, records, k) ==
  LET upto[i \in 0..k] == IF i = 0 THEN l ELSE AfterApply(upto[i - 1], records[i])
  IN  upto[k]

IsRetry(l, rec) ==
  IF rec.kind = "Window" THEN WindowRetry(l, rec.value) ELSE FactRetry(l, rec.value)

\* Strict replay refuses a record that changes nothing or is not acceptable.
Replay(recs) == AppliedUpTo(NewAndon, recs, Len(recs))
Replayable(recs) ==
  /\ Len(recs) <= MaxRecords
  /\ \A k \in 1..Len(recs) : CanApply(AppliedUpTo(NewAndon, recs, k - 1), recs[k])

\* step says how far the append of pending has come.
Closed == [mode |-> "closed", ledger |-> NewAndon, log |-> <<>>, poisoned |-> FALSE,
           pending |-> Unset, step |-> "none"]

NoFile == [header |-> "none", recs |-> <<>>, torn |-> FALSE]
NotSynced == [header |-> FALSE, entry |-> FALSE, count |-> 0]

FileAndonInit ==
  /\ disk = NoFile
  /\ synced = NotSynced
  /\ handle = [p \in Procs |-> Closed]
  /\ cursor = [p \in Procs |-> Unset]
  /\ retained = [p \in Procs |-> <<>>]
  /\ acked = <<>>

\* try_lock
LockFree == \A p \in Procs : handle[p].mode \in {"closed", "created"}
Healthy(p) == handle[p].mode = "open" /\ ~handle[p].poisoned

\* sync_all of the file: not of the directory that has its name.
SyncedAll == [synced EXCEPT !.header = TRUE, !.count = Len(disk.recs)]

\* The handle exposes history log, and its caller learns the head.
Expose(p, log) ==
  /\ handle' = [handle EXCEPT ![p] =
                  [Closed EXCEPT !.mode = "open", !.ledger = Replay(log), !.log = log]]
  /\ acked' = log

-----------------------------------------------------------------------------
(* Creating, opening and dropping.                                         *)

\* create_new: never replaces an existing file.  Whatever create does next may
\* fail, or die, before or after any of its steps: Drop.
CreateFile(p) ==
  /\ handle[p].mode = "closed"
  /\ disk.header = "none"
  /\ disk' = [disk EXCEPT !.header = "partial"]
  /\ handle' = [handle EXCEPT ![p].mode = "created"]
  /\ UNCHANGED <<synced, cursor, retained, acked>>

\* The lock is taken after the file exists.  A process that is trying to open
\* it then makes it Busy: the creation ends.
CreateLock(p) ==
  /\ handle[p].mode = "created"
  /\ LockFree
  /\ handle' = [handle EXCEPT ![p].mode = "creating"]
  /\ UNCHANGED <<disk, synced, cursor, retained, acked>>

CreateHeader(p) ==
  /\ handle[p].mode = "creating"
  /\ disk.header = "partial"
  /\ disk' = [disk EXCEPT !.header = "whole"]
  /\ UNCHANGED <<synced, handle, cursor, retained, acked>>

CreateSyncFile(p) ==
  /\ handle[p].mode = "creating"
  /\ disk.header = "whole" /\ ~synced.header
  /\ synced' = SyncedAll
  /\ UNCHANGED <<disk, handle, cursor, retained, acked>>

\* Only a creation that made the directory entry durable too returns a ledger.
CreateSyncDirectory(p) ==
  /\ handle[p].mode = "creating"
  /\ synced.header
  /\ synced' = [synced EXCEPT !.entry = TRUE]
  /\ Expose(p, <<>>)
  /\ UNCHANGED <<disk, cursor, retained>>

\* Mutant of OpenSync: a recovered suffix is exposed without a sync.
OpenSyncSkipped == synced

\* The recovered suffix may never have been acknowledged; it is synchronized.
\* The directory is not, even if the creation of the file never got that far.
OpenSync == SyncedAll

\* The head that the caller retained is in the history.
MeetsMinimum(minimum) == IsPrefix(minimum, disk.recs)

\* open: strict replay of the whole file under the lock, no repair.
Open(p) ==
  /\ handle[p].mode = "closed"
  /\ LockFree
  /\ disk.header = "whole" /\ ~disk.torn
  /\ Replayable(disk.recs)
  /\ MeetsMinimum(retained[p])
  /\ synced' = OpenSync
  /\ Expose(p, disk.recs)
  /\ UNCHANGED <<disk, cursor, retained>>

\* Dropping the owner, or its process: the file stays as the system has it.
Drop(p) ==
  /\ handle[p].mode # "closed"
  /\ handle' = [handle EXCEPT ![p] = Closed]
  /\ cursor' = [cursor EXCEPT ![p] = Unset]
  /\ UNCHANGED <<disk, synced, retained, acked>>

\* Everything after the last sync may be gone, or cut in the middle: the whole
\* file while its directory entry is not synchronized, its header, its records.
PowerLoss ==
  /\ handle' = [p \in Procs |-> Closed]
  /\ cursor' = [p \in Procs |-> Unset]
  /\ \/ /\ ~synced.entry
        /\ disk' = NoFile /\ synced' = NotSynced /\ acked' = <<>>
     \/ /\ ~synced.header /\ disk.header # "none"
        /\ disk' = [disk EXCEPT !.header = "partial"]
        /\ UNCHANGED <<synced, acked>>
     \/ \E n \in synced.count..Len(disk.recs), torn \in BOOLEAN :
          /\ disk.header = "whole"
          /\ torn => (n < Len(disk.recs) \/ disk.torn)
          /\ disk' = [disk EXCEPT !.recs = SubSeq(disk.recs, 1, n), !.torn = torn]
          /\ UNCHANGED <<synced, acked>>
  /\ UNCHANGED retained

\* The caller keeps a head it was given.
Retain(p) ==
  /\ Healthy(p)
  /\ retained' = [retained EXCEPT ![p] = handle[p].log]
  /\ UNCHANGED <<disk, synced, handle, cursor, acked>>

-----------------------------------------------------------------------------
(* Publication of one record.                                              *)

\* Validation and limits come before the poison.
MayPublish(p, rec) ==
  /\ CanApply(handle[p].ledger, rec)
  /\ Len(handle[p].log) < MaxRecords

Poisoned(p, rec) ==
  [handle EXCEPT ![p].poisoned = TRUE, ![p].pending = rec, ![p].step = "begun"]

\* register_window and record_trusted of a caller that runs no import.  An exact
\* retry is answered from memory and changes nothing.
Submit(p, rec) ==
  /\ Healthy(p)
  /\ cursor[p] = Unset
  /\ MayPublish(p, rec)
  /\ handle' = Poisoned(p, rec)
  /\ UNCHANGED <<disk, synced, cursor, retained, acked>>

\* record_review: the fact is about this review, which was held on the merits
\* by exactly the helpers the fact names.
RecordReview(p, r, exact, fact) ==
  /\ Submit(p, [kind |-> "FalseHold", value |-> fact])
  /\ r.id = fact.round
  /\ r.root = fact.root
  /\ Evaluate(Policy, r, exact) \in EmpiricalHolds
  /\ {m \in r.members : r.outcome[m] \in {"Hold", "Deny"}} = fact.helpers

\* The extent check and write_all; part of the bytes may get out.
AppendBytes(p, torn) ==
  LET h == handle[p]
  IN  /\ h.step = "begun"
      /\ Len(disk.recs) = Len(h.log) /\ ~disk.torn
      /\ disk' = IF torn THEN [disk EXCEPT !.torn = TRUE]
                         ELSE [disk EXCEPT !.recs = Append(@, h.pending)]
      /\ handle' = [handle EXCEPT ![p].step = IF torn THEN "failed" ELSE "written"]
      /\ UNCHANGED <<synced, cursor, retained, acked>>

\* Any I/O call may fail: the ledger stays poisoned until it is dropped.
FailIO(p) ==
  /\ handle[p].step \in {"begun", "written"}
  /\ handle' = [handle EXCEPT ![p].step = "failed"]
  /\ UNCHANGED <<disk, synced, cursor, retained, acked>>

\* The status an import reaches after its k-th record.
StatusAfter(c, k, ledger) ==
  IF k < Len(c.batch.records) THEN "Pending"
  ELSE IF c.batch.source # Unset /\ ledger # c.batch.source THEN "Failed"
  ELSE "Complete"

\* Mutant of Advanced: a record found in the file is counted as a new one.
AdvancedAsNew(c, isNew, ledger) ==
  [c EXCEPT !.completed = @ + 1, !.newly = @ + 1,
            !.status = StatusAfter(c, c.completed + 1, ledger)]

\* The cursor after one acknowledged record.
Advanced(c, isNew, ledger) ==
  [c EXCEPT !.completed = @ + 1,
            !.newly = @ + (IF isNew THEN 1 ELSE 0),
            !.status = StatusAfter(c, c.completed + 1, ledger)]

\* Mutant of AckSync: the append is acknowledged without sync_all.
AckSyncSkipped == synced

AckSync == SyncedAll

\* sync_all returned: the candidate becomes the ledger and the head is given
\* out; an import that made the call moves on.
Acknowledge(p) ==
  LET h == handle[p]
      log == Append(h.log, h.pending)
  IN  /\ h.step = "written"
      /\ synced' = AckSync
      /\ Expose(p, log)
      /\ cursor' = IF cursor[p] = Unset THEN cursor
                   ELSE [cursor EXCEPT ![p] = Advanced(@, TRUE, Replay(log))]
      /\ UNCHANGED <<disk, retained>>

-----------------------------------------------------------------------------
(* Imports.  A batch is a list of records; a synchronization with a native *)
(* broker also has the ledger it must end with.                            *)

\* The whole batch is tried on a copy: each record is acceptable or already
\* there, and a synchronization ends with the source's ledger.
Preflight(l, batch) ==
  /\ \A k \in 1..Len(batch.records) :
       LET before == AppliedUpTo(l, batch.records, k - 1)
       IN  CanApply(before, batch.records[k]) \/ IsRetry(before, batch.records[k])
  /\ batch.source # Unset =>
       AppliedUpTo(l, batch.records, Len(batch.records)) = batch.source

\* begin: no I/O.
BeginImport(p, batch) ==
  /\ Healthy(p)
  /\ cursor[p] = Unset
  /\ Preflight(handle[p].ledger, batch)
  /\ cursor' = [cursor EXCEPT ![p] =
       [batch |-> batch, completed |-> 0, newly |-> 0, start |-> Len(handle[p].log),
        status |-> IF batch.records = <<>> THEN "Complete" ELSE "Pending"]]
  /\ UNCHANGED <<disk, synced, handle, retained, acked>>

\* advance: the status is Failed before the call and better only after it.  A
\* record the journal refuses leaves the cursor Failed.
Advance(p) ==
  LET c == cursor[p]
      rec == c.batch.records[c.completed + 1]
      l == handle[p].ledger
  IN  /\ Healthy(p)
      /\ c # Unset
      /\ c.status = "Pending"
      /\ IF IsRetry(l, rec)
           THEN /\ cursor' = [cursor EXCEPT ![p] = Advanced(c, FALSE, l)]
                /\ UNCHANGED handle
           ELSE /\ cursor' = [cursor EXCEPT ![p].status = "Failed"]
                /\ handle' = IF MayPublish(p, rec) THEN Poisoned(p, rec) ELSE handle
      /\ UNCHANGED <<disk, synced, retained, acked>>

\* finish or drop of the cursor gives the ledger back.  The borrow lasts while a
\* call is under way.
EndImport(p) ==
  /\ cursor[p] # Unset
  /\ handle[p].step \in {"none", "failed"}
  /\ cursor' = [cursor EXCEPT ![p] = Unset]
  /\ UNCHANGED <<disk, synced, handle, retained, acked>>

FileAndonNext ==
  \/ \E p \in Procs : CreateFile(p)
  \/ \E p \in Procs : CreateLock(p)
  \/ \E p \in Procs : CreateHeader(p)
  \/ \E p \in Procs : CreateSyncFile(p)
  \/ \E p \in Procs : CreateSyncDirectory(p)
  \/ \E p \in Procs : Open(p)
  \/ \E p \in Procs : Drop(p)
  \/ PowerLoss
  \/ \E p \in Procs : Retain(p)
  \/ \E p \in Procs, rec \in Records : Submit(p, rec)
  \/ \E p \in Procs, r \in Transcripts, exact \in {"Clear", "Unknown"}, f \in Facts :
       RecordReview(p, r, exact, f)
  \/ \E p \in Procs, torn \in BOOLEAN : AppendBytes(p, torn)
  \/ \E p \in Procs : FailIO(p)
  \/ \E p \in Procs : Acknowledge(p)
  \/ \E p \in Procs, batch \in Batches : BeginImport(p, batch)
  \/ \E p \in Procs : Advance(p)
  \/ \E p \in Procs : EndImport(p)

FileAndonSpec == FileAndonInit /\ [][FileAndonNext]_andonVars

-----------------------------------------------------------------------------
(* What makes the file correct.                                            *)

SyncedRecords == SubSeq(disk.recs, 1, synced.count)

\* Accounting that anyone can read, or ever could, is in the synchronized part of
\* the file and is what replay will rebuild: no observer sees a charge, or an
\* incident, that a power loss can take back out of a file that it leaves there
\* (ledger() refuses while poisoned, publish_with installs after the sync, open
\* synchronizes what it recovered, create its header).
ExposedIsDurable ==
  /\ IsPrefix(acked, SyncedRecords)
  /\ \A p \in Procs : Healthy(p) =>
       /\ IsPrefix(handle[p].log, SyncedRecords)
       /\ handle[p].ledger = Replay(handle[p].log)

\* The writer never produces what strict replay refuses: an intact file can
\* always be opened again, with exact accounts, and no round is charged twice
\* even when its first attempt was written but never acknowledged.
IntactReopens ==
  disk.header = "whole" => Replayable(disk.recs) /\ Exact(Replay(disk.recs))

\* An import counts only what is synchronized: its completed records are in the
\* file, as many of them new as the history has grown.  A preflighted batch is never
\* refused halfway and never ends in a ledger other than its source, so that an
\* import fails only by an I/O error or the record limit (begin, advance).
ImportCountsTrue ==
  \A p \in Procs : cursor[p] # Unset =>
    LET c == cursor[p]
    IN  /\ \A k \in 1..c.completed :
             \E j \in 1..synced.count : disk.recs[j] = c.batch.records[k]
        /\ Healthy(p) =>
             /\ Len(handle[p].log) = c.start + c.newly
             /\ c.status = "Failed" => Len(handle[p].log) = MaxRecords

AckedLedger == INSTANCE AndonMachine WITH ledger <- Replay(acked)

\* The one way back: a power loss takes a file whose directory entry was never
\* synchronized, and its ledger with it.  It happens: open accepts a file whose
\* creation died before the directory was synchronized, synchronizes the file
\* only, and appends to it are acknowledged.
FileTaken == ~synced.entry /\ disk'.header = "none" /\ acked' = <<>>

\* The file implements the ledger in memory: what was acknowledged, whoever owned
\* the file and whatever failed or lost power, moves as one AndonLedger does, a
\* window or a confirmation at a time, and goes back only when FileTaken: never
\* for a file whose create returned (create synchronizes the directory last).
ImplementsLedger ==
  AckedLedger!Init /\ [][acked' # acked => FileTaken \/ AckedLedger!Next]_acked

=============================================================================
