------------------------- MODULE PersistentDelivery -------------------------
(***************************************************************************)
(* Whole-process recovery of delivery (delivery/persistent.rs and below):  *)
(* one owner keeps a broker, its endpoint and a book of requests, and      *)
(* publishes every transition, or fixed sequence of them, by one atomic    *)
(* replacement of a journal file.  Reopening replays the journal, fences   *)
(* what was permitted before, and only then exposes an owner.              *)
(*                                                                         *)
(* Replay is deterministic: every input is part of its event.  A journal   *)
(* is therefore represented by the machine it replays to, its length, and  *)
(* what its admission control has seen.  The broker and the endpoint are   *)
(* reduced to what passes between them; the ledger follows the stages, as  *)
(* ControlAuthority shows.  An action is taken to be written for the       *)
(* authority epoch it is proposed under and for the endpoint's scope, and  *)
(* there are as many deliveries as attempts.  A review continues or        *)
(* suspends the run.  The events of policy updates and of credibility are  *)
(* left out, and the limit in bytes, which refuses where the limit on the  *)
(* number of events does.                                                  *)
(***************************************************************************)
EXTENDS Naturals, Sequences, FiniteSetsExt

CONSTANTS
  MaxAttempts,   \* max_attempts
  Requests,      \* durable request keys
  Specs,         \* ActionSpec values: deadline and expected version
  Ticks,         \* times that may be observed
  Retention,     \* retention_ticks
  StartVersion,  \* the version of the published resource
  MaxEvents,     \* limits.events
  Reserve,       \* the events a RecoveryReserve sets aside
  MaxOpens,      \* bound: owners created
  NoSpec, NoRequest

ASSUME PersistentAssumption ==
  /\ Specs \subseteq [deadline : Nat, version : Nat]
  /\ Ticks \subseteq Nat \ {0}
  /\ {MaxAttempts, Retention, StartVersion, MaxEvents, Reserve, MaxOpens} \subseteq Nat
  /\ NoSpec \notin Specs

Attempts == 1..MaxAttempts

VARIABLES
  disk,     \* delivery.bin: the journal that a reader finds
  durable,  \* the journal that a power loss leaves
  staged,   \* whether delivery.pending exists
  owner,    \* FileDelivery, or the absence of one
  keys,     \* FilePermit values that callers hold
  acked,    \* the journal last acknowledged to a caller
  mine      \* attempts whose dispatch the present owner has tried

vars == <<disk, durable, staged, owner, keys, acked, mine>>

Undispatched == {"Reviewing", "Authorized"}
InFlight == {"Dispatching", "Unknown"}
Terminal == {"Denied", "Cancelled", "Confirmed", "ConfirmedNotExecuted"}
Stages == Undispatched \cup InFlight \cup Terminal \cup {"IrrecoverablyUnknown", "Absent"}

NewMachine ==
  [stage |-> [a \in Attempts |-> "Absent"],
   spec |-> [a \in Attempts |-> NoSpec],
   reviewed |-> {}, permits |-> {}, envelopes |-> {},
   until |-> [a \in Attempts |-> 0],          \* retained_until of a record
   sent |-> [a \in Attempts |-> 0],           \* the epoch of its envelope
   known |-> [a \in Attempts |-> "None"],     \* the endpoint's receipts
   version |-> StartVersion, elapsed |-> 0, clock_ready |-> FALSE,
   epoch |-> 0, fence |-> 0,                  \* of the broker and at the endpoint
   fenced |-> TRUE, stopped |-> FALSE, suspended |-> FALSE,
   book |-> [r \in Requests |-> NoRequest]]

-----------------------------------------------------------------------------
(* The events: when apply accepts one and what it leaves.                  *)

Events ==
  [kind : {"Fence", "Sweep", "Stop", "ReserveRecovery"}]
  \cup [kind : {"Time", "StopProgress"}, tick : Ticks]
  \cup [kind : {"Propose"}, attempt : Attempts, spec : Specs, answer : {"Reviewing", "Denied"}]
  \cup [kind : {"SubmitRequest"}, request : Requests, spec : Specs,
        answer : {"Reviewing", "Denied", "Refused"}]
  \cup [kind : {"Review"}, attempt : Attempts, outcome : {"Continue", "SuspendRun"}]
  \cup [kind : {"Authorize", "Dispatch", "Publish", "Reconcile", "Seal", "Cancel",
                "AbandonUnknown"}, attempt : Attempts]

\* The events that need a time observed since the last fence.
Timed == {"Propose", "Review", "Authorize", "Dispatch", "Publish", "Reconcile",
          "Seal", "Sweep", "SubmitRequest"}

Recorded(m, a) == m.until[a] # 0
Retained(m, a) == m.elapsed < m.until[a]
Expired(m, a) == m.elapsed >= m.spec[a].deadline
Pending(m) == {a \in Attempts : m.stage[a] \in InFlight}

\* next_attempt: above every attempt and every number a request was given.
NextAttempt(m) ==
  1 + Max({0} \cup {a \in Attempts : m.stage[a] # "Absent"}
              \cup {m.book[r].attempt : r \in {q \in Requests : m.book[q] # NoRequest}})

Applies(m, ev) ==
  /\ ev.kind \in Timed => m.clock_ready
  /\ CASE ev.kind \in {"Fence", "ReserveRecovery", "Stop"} -> TRUE
       [] ev.kind = "Time" -> ev.tick >= m.elapsed
       [] ev.kind = "StopProgress" -> m.stopped /\ ev.tick >= m.elapsed
       [] ev.kind = "Sweep" -> m.fenced
       [] ev.kind = "Propose" -> ~m.stopped /\ ~m.suspended /\ m.stage[ev.attempt] = "Absent"
       [] ev.kind = "SubmitRequest" ->
            /\ ~m.stopped /\ ~m.suspended
            /\ m.book[ev.request] = NoRequest
            /\ NextAttempt(m) \in Attempts
       [] ev.kind = "Review" ->
            ~m.stopped /\ ~m.suspended /\ m.stage[ev.attempt] = "Reviewing"
       [] ev.kind = "Authorize" ->
            /\ ~m.stopped
            /\ m.stage[ev.attempt] = "Reviewing" /\ ev.attempt \in m.reviewed
            /\ ~Expired(m, ev.attempt)
       [] ev.kind = "Dispatch" ->
            /\ ~m.stopped /\ m.fenced
            /\ m.stage[ev.attempt] = "Authorized" /\ ev.attempt \in m.permits
            /\ ~Expired(m, ev.attempt)
       [] ev.kind = "Publish" ->
            /\ ev.attempt \in m.envelopes
            /\ m.sent[ev.attempt] = m.fence
            /\ Retained(m, ev.attempt)
       [] ev.kind = "Reconcile" ->
            /\ Recorded(m, ev.attempt)
            /\ m.stage[ev.attempt] \notin InFlight =>
                 /\ m.stage[ev.attempt] # "IrrecoverablyUnknown"
                 /\ Retained(m, ev.attempt)
       [] ev.kind = "Seal" ->
            /\ Recorded(m, ev.attempt) /\ Retained(m, ev.attempt)
            /\ m.epoch = m.fence
            /\ m.stage[ev.attempt] # "IrrecoverablyUnknown"
       [] ev.kind = "Cancel" -> m.stage[ev.attempt] \in Undispatched
       [] ev.kind = "AbandonUnknown" -> m.stage[ev.attempt] = "Unknown"

\* What the endpoint makes of the first delivery of an envelope.
Delivered(m, a) ==
  IF Expired(m, a) \/ m.spec[a].version # m.version THEN "NotExecuted" ELSE "Executed"

\* The broker hears of the attempts of asked: it accepts the receipts it finds
\* and marks the others unknown.
Settled(m, asked) ==
  [m EXCEPT !.stage = [a \in Attempts |->
     IF a \notin asked \/ m.stage[a] \notin InFlight THEN @[a]
     ELSE IF ~Retained(m, a) \/ m.known[a] = "None" THEN "Unknown"
     ELSE IF m.known[a] = "Executed" THEN "Confirmed" ELSE "ConfirmedNotExecuted"]]

\* The endpoint refuses for good the attempts of closing that it can still
\* answer for and has no receipt of.
Closed(m, closing) ==
  [m EXCEPT !.known = [a \in Attempts |->
     IF a \in closing /\ Retained(m, a) /\ @[a] = "None" THEN "NotExecuted" ELSE @[a]]]

\* Work that was not dispatched is cancelled, what was dispatched is unknown, and
\* nothing of either can be sent any more.
Withdrawn(m) ==
  [m EXCEPT !.stage = [a \in Attempts |->
                         IF @[a] \in Undispatched THEN "Cancelled"
                         ELSE IF @[a] = "Dispatching" THEN "Unknown" ELSE @[a]],
            !.permits = {}, !.envelopes = {}]

\* Mutant of Fenced: the clock is reset and nothing is fenced.
FencedNot(m) == [m EXCEPT !.clock_ready = FALSE]

\* Event::Fence: the endpoint acknowledges the new epoch at once.
Fenced(m) ==
  [Withdrawn(m) EXCEPT !.epoch = @ + 1, !.fence = m.epoch + 1, !.fenced = TRUE,
                       !.clock_ready = FALSE]

\* apply_stop: an exact retry keeps the first receipt.
Stopped(m) ==
  IF m.stopped THEN [m EXCEPT !.permits = {}, !.envelopes = {}]
  ELSE [Withdrawn(m) EXCEPT !.epoch = @ + 1, !.fenced = FALSE, !.stopped = TRUE]

\* apply_stop_progress: the fence is installed first, then what is pending is
\* sealed at the endpoint.
StopProgressed(m, tick) ==
  LET now == [m EXCEPT !.elapsed = tick, !.clock_ready = TRUE,
                       !.fence = m.epoch, !.fenced = TRUE]
  IN  Settled(Closed(now, Pending(now)), Pending(now))

After(m, ev) ==
  CASE ev.kind = "Fence" -> Fenced(m)
    [] ev.kind = "ReserveRecovery" -> m
    [] ev.kind = "Stop" -> Stopped(m)
    [] ev.kind = "Time" -> [m EXCEPT !.elapsed = ev.tick, !.clock_ready = TRUE]
    [] ev.kind = "StopProgress" -> StopProgressed(m, ev.tick)
    [] ev.kind = "Sweep" ->
         Settled(Closed(m, {a \in Pending(m) : Expired(m, a)}), Pending(m))
    [] ev.kind = "Propose" ->
         [m EXCEPT !.stage[ev.attempt] = ev.answer, !.spec[ev.attempt] = ev.spec]
    [] ev.kind = "SubmitRequest" ->
         LET a == NextAttempt(m)
             noted == [m EXCEPT !.book[ev.request] =
                         [spec |-> ev.spec, attempt |-> a, admitted |-> ev.answer # "Refused"]]
         IN  IF ev.answer = "Refused" THEN noted
             ELSE [noted EXCEPT !.stage[a] = ev.answer, !.spec[a] = ev.spec]
    [] ev.kind = "Review" ->
         IF ev.outcome = "Continue" THEN [m EXCEPT !.reviewed = @ \cup {ev.attempt}]
         ELSE [m EXCEPT !.suspended = TRUE,
                        !.stage = [a \in Attempts |->
                           IF @[a] \in Undispatched THEN "Cancelled" ELSE @[a]]]
    [] ev.kind = "Authorize" ->
         [m EXCEPT !.stage[ev.attempt] = "Authorized", !.permits = @ \cup {ev.attempt}]
    [] ev.kind = "Dispatch" ->
         [m EXCEPT !.stage[ev.attempt] = "Dispatching", !.permits = @ \ {ev.attempt},
                   !.envelopes = @ \cup {ev.attempt}, !.sent[ev.attempt] = m.epoch,
                   !.until[ev.attempt] = m.elapsed + Retention]
    [] ev.kind = "Publish" ->
         IF m.known[ev.attempt] # "None" THEN m
         ELSE [m EXCEPT !.known[ev.attempt] = Delivered(m, ev.attempt),
                        !.version = IF Delivered(m, ev.attempt) = "Executed" THEN @ + 1 ELSE @]
    [] ev.kind = "Reconcile" -> Settled(m, {ev.attempt})
    [] ev.kind = "Seal" -> Settled(Closed(m, {ev.attempt}), {ev.attempt})
    [] ev.kind = "Cancel" ->
         [m EXCEPT !.stage[ev.attempt] = "Cancelled", !.permits = @ \ {ev.attempt}]
    [] ev.kind = "AbandonUnknown" ->
         [m EXCEPT !.stage[ev.attempt] = "IrrecoverablyUnknown",
                   !.envelopes = @ \ {ev.attempt}]

-----------------------------------------------------------------------------
(* The journal: recovery_capacity.rs and commit_request_events.            *)

NewJournal ==
  [machine |-> NewMachine, count |-> 0, reserve |-> FALSE, started |-> FALSE,
   last |-> "Bootstrap"]

Class(ev) ==
  CASE ev.kind = "ReserveRecovery" -> "Install"
    [] ev.kind = "Time" -> "Bootstrap"
    [] ev.kind \in {"Fence", "Stop", "StopProgress"} -> "Recovery"
    [] OTHER -> "Work"

\* Mutant of Admits: a routine clock update may use the tail.
AdmitsClock(j, class) ==
  /\ class = "Install" => ~j.reserve /\ ~j.started
  /\ j.count + 1 <= (IF class \in {"Recovery", "Bootstrap"} \/ ~j.reserve
                       THEN MaxEvents ELSE MaxEvents - Reserve)

\* Admission::record: only recovery may use the tail, and the reserve is set
\* aside before any work, once, by an event that leaves all of it.
Admits(j, class) ==
  /\ class = "Install" =>
       /\ ~j.reserve /\ ~j.started
       /\ Reserve >= 3 /\ Reserve < MaxEvents
       /\ j.count + 1 <= MaxEvents - Reserve
  /\ j.count + 1 <= (IF class = "Recovery" \/ ~j.reserve THEN MaxEvents
                                                          ELSE MaxEvents - Reserve)

Record(j, ev) ==
  [machine |-> After(j.machine, ev), count |-> j.count + 1,
   reserve |-> (j.reserve \/ Class(ev) = "Install"),
   started |-> (j.started \/ Class(ev) \in {"Work", "Recovery"}),
   last |-> Class(ev)]

\* The journal after the first n events of a transaction, of at most three.
RecordFirst(j, evs, n) ==
  LET one == Record(j, evs[1])
      two == Record(one, evs[2])
      three == Record(two, evs[3])
  IN  CASE n = 0 -> j [] n = 1 -> one [] n = 2 -> two [] n = 3 -> three

RecordAll(j, evs) == RecordFirst(j, evs, Len(evs))

\* Each event is admitted and accepted after the ones before it.
CanRecordAll(j, evs) ==
  \A k \in 1..Len(evs) :
    LET before == RecordFirst(j, evs, k - 1)
    IN  Admits(before, Class(evs[k])) /\ Applies(before.machine, evs[k])

-----------------------------------------------------------------------------
(* The file and its owner.                                                 *)

\* How far replace comes: the pending file could not be created; it was left
\* behind by a failed write, sync or rename; it took the journal's name, with an
\* error reported by the rename or the sync of the directory; or all is well.
IoResults == {"Unstaged", "Staged", "Visible", "Done"}

NoOwner == [open |-> FALSE, journal |-> NewJournal, fault |-> FALSE, issuer |-> 0]

Init ==
  /\ disk = NewJournal
  /\ durable = NewJournal
  /\ staged = FALSE
  /\ owner = [NoOwner EXCEPT !.open = TRUE, !.issuer = 1]    \* create
  /\ keys = {}
  /\ acked = NewJournal
  /\ mine = {}

\* store.replace of the journal j.
Replace(j, io) ==
  /\ staged => io = "Unstaged"
  /\ staged' = (staged \/ io = "Staged")
  /\ disk' = IF io \in {"Visible", "Done"} THEN j ELSE disk
  /\ durable' = IF io = "Done" THEN j ELSE durable

\* Mutant of Acknowledges: success is reported once the rename was done.
AcknowledgesVisible(io) == io \in {"Visible", "Done"}

Acknowledges(io) == io = "Done"

\* The attempts that a sequence of events dispatches.
Dispatches(evs) ==
  {evs[k].attempt : k \in {i \in 1..Len(evs) : evs[i].kind = "Dispatch"}}

\* transact and commit_request_events: the candidate is installed only after the
\* replacement, and any failure closes the owner for good.
Commit(evs, io) ==
  LET j == RecordAll(owner.journal, evs)
  IN  /\ owner.open /\ ~owner.fault
      /\ CanRecordAll(owner.journal, evs)
      /\ Replace(j, io)
      /\ owner' = IF Acknowledges(io) THEN [owner EXCEPT !.journal = j]
                                      ELSE [owner EXCEPT !.fault = TRUE]
      /\ acked' = IF Acknowledges(io) THEN j ELSE acked
      /\ mine' = mine \cup Dispatches(evs)

\* The calls that publish one event and return no permit.
Plain == {ev \in Events : ev.kind \notin {"Authorize", "Dispatch"}}

Transact(ev, io) == Commit(<<ev>>, io) /\ UNCHANGED keys

Event(kind, a) == [kind |-> kind, attempt |-> a]

\* The permit is returned only after the journal holds it.
Authorize(a, io) ==
  /\ Commit(<<Event("Authorize", a)>>, io)
  /\ keys' = IF Acknowledges(io) THEN keys \cup {[issuer |-> owner.issuer, attempt |-> a]}
                                 ELSE keys

\* Rc::ptr_eq on the issuer
Issued(key) == key.issuer = owner.issuer

Dispatch(key, io) ==
  /\ Issued(key)
  /\ Commit(<<Event("Dispatch", key.attempt)>>, io)
  /\ UNCHANGED keys

Requested(r) == owner.journal.machine.book[r]

\* commit_request_publication, for a request that is still authorized.
CommitPublication(r, key, io) ==
  LET a == key.attempt
  IN  /\ Issued(key)
      /\ Requested(r) # NoRequest
      /\ Requested(r).admitted /\ Requested(r).attempt = a
      /\ owner.journal.machine.stage[a] = "Authorized"
      /\ Commit(<<Event("Dispatch", a), Event("Publish", a), Event("Reconcile", a)>>, io)
      /\ UNCHANGED keys

Observed(tick) == [kind |-> "Time", tick |-> tick]

ReconcilePendingAt(tick, io) ==
  Commit(<<Observed(tick), [kind |-> "Sweep"]>>, io) /\ UNCHANGED keys

StopAndDrain(tick, io) ==
  Commit(<<[kind |-> "Stop"], [kind |-> "StopProgress", tick |-> tick]>>, io)
  /\ UNCHANGED keys

\* cancel_and_resolve_request
CancelAndResolve(r, tick, io) ==
  LET a == Requested(r).attempt
      stage == owner.journal.machine.stage[a]
  IN  /\ Requested(r) # NoRequest
      /\ Requested(r).admitted
      /\ stage \in Undispatched \cup InFlight
      /\ Commit(<<Observed(tick),
                  Event(IF stage \in Undispatched THEN "Cancel" ELSE "Seal", a)>>, io)
      /\ UNCHANGED keys

\* open, open_reconciled and open_stopped: replay, confirm and clean up, then the
\* first transaction of the new owner.  Nothing is exposed if that fails.
OpenEvents ==
  {<<[kind |-> "Fence"]>>}
  \cup {<<[kind |-> "Fence"], Observed(t), [kind |-> "Sweep"]>> : t \in Ticks}
  \cup {<<[kind |-> "Stop"], [kind |-> "Fence"], [kind |-> "StopProgress", tick |-> t]>> :
          t \in Ticks}

Open(evs, io) ==
  LET j == RecordAll(disk, evs)
  IN  /\ ~owner.open
      /\ owner.issuer < MaxOpens
      /\ CanRecordAll(disk, evs)
      /\ disk' = IF io \in {"Visible", "Done"} THEN j ELSE disk
      /\ durable' = IF io = "Done" THEN j ELSE disk
      /\ staged' = (io = "Staged")
      /\ owner' = [open |-> Acknowledges(io), journal |-> j, fault |-> FALSE,
                   issuer |-> owner.issuer + 1]
      /\ acked' = IF Acknowledges(io) THEN j ELSE acked
      /\ mine' = {}
      /\ UNCHANGED keys

DropOwner ==
  /\ owner.open
  /\ owner' = [owner EXCEPT !.open = FALSE, !.journal = NewJournal, !.fault = FALSE]
  /\ UNCHANGED <<disk, durable, staged, keys, acked, mine>>

\* The machine stops: an unsynchronized rename may be undone.
PowerLoss ==
  /\ owner' = [owner EXCEPT !.open = FALSE, !.journal = NewJournal, !.fault = FALSE]
  /\ disk' \in {disk, durable}
  /\ durable' = disk'
  /\ keys' = {}
  /\ UNCHANGED <<staged, acked, mine>>

Next ==
  \E io \in IoResults :
    \/ \E ev \in Plain : Transact(ev, io)
    \/ \E a \in Attempts : Authorize(a, io)
    \/ \E key \in keys : Dispatch(key, io)
    \/ \E r \in Requests, key \in keys : CommitPublication(r, key, io)
    \/ \E tick \in Ticks : ReconcilePendingAt(tick, io)
    \/ \E tick \in Ticks : StopAndDrain(tick, io)
    \/ \E r \in Requests, tick \in Ticks : CancelAndResolve(r, tick, io)
    \/ \E evs \in OpenEvents : Open(evs, io)
    \/ io = "Done" /\ DropOwner
    \/ io = "Done" /\ PowerLoss

Spec == Init /\ [][Next]_vars

-----------------------------------------------------------------------------
(* What makes it correct.                                                  *)

Journals == {disk, durable} \cup (IF owner.open THEN {owner.journal} ELSE {})

\* Journal k tells nobody otherwise than journal j did: receipts, dispositions,
\* request identities, a stop and the reserve are as they were, or further on.
Extends(k, j) ==
  /\ k.count >= j.count
  /\ j.reserve => k.reserve
  /\ j.machine.stopped => k.machine.stopped
  /\ \A r \in Requests : j.machine.book[r] # NoRequest =>
       k.machine.book[r] = j.machine.book[r]
  /\ \A a \in Attempts :
       /\ j.machine.known[a] # "None" => k.machine.known[a] = j.machine.known[a]
       /\ j.machine.stage[a] \in Terminal => k.machine.stage[a] = j.machine.stage[a]

\* The journal charges every effect that ran.
ChargesExecuted(j) ==
  \A a \in Attempts : j.machine.known[a] = "Executed" =>
    j.machine.stage[a] \notin {"Cancelled", "ConfirmedNotExecuted"}

\* Whatever was acknowledged to a caller is in the file and survives a power
\* loss: no receipt, admission, cancellation or stop is taken back, whichever
\* write failed since and however often the owner was lost.  And no journal that
\* recovery could start from gives back what an effect that ran has cost.
AcknowledgedKept ==
  /\ Extends(disk, acked) /\ Extends(durable, acked)
  /\ \A j \in Journals : ChargesExecuted(j)

\* No effect runs in the name of an earlier owner: what a lost process left in
\* flight can be asked about and sealed, never sent again.
NeverResent ==
  [][\A a \in Attempts :
       (disk.machine.known[a] # "Executed" /\ disk'.machine.known[a] = "Executed")
         => a \in mine']_vars

\* With a reserve installed, no sequence of ordinary events, alone or in one
\* transaction, takes the room for stopping after it: a fence, a stop and a sweep
\* still fit.
TerminalSpaceKept ==
  \A j \in Journals : j.reserve /\ j.last # "Recovery" =>
    \A k \in 0..2 : Admits([j EXCEPT !.count = @ + k], "Recovery")

=============================================================================
