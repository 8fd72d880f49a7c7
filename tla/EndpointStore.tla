--------------------------- MODULE EndpointStore ----------------------------
(***************************************************************************)
(* The file-backed publication endpoint (delivery/endpoint/filesystem.rs   *)
(* and its codec): the transitions of the endpoint, each published by one  *)
(* atomic replacement of a file that holds the whole history, and the      *)
(* recovery key that outlives the endpoint in its process.                 *)
(*                                                                         *)
(* The process is single-threaded, so a transition with its writes is one  *)
(* step; an I/O error may stop it at any stage.  Every envelope is for     *)
(* this endpoint, its scope and its resource, and the endpoint has no      *)
(* stream.  The file is the sequence of its operations: the codec writes   *)
(* and reads each of them whole.  The limit in bytes is left out, since it *)
(* refuses at the place where the limit on mutations does.                 *)
(***************************************************************************)
EXTENDS Naturals, FiniteSets, SequencesExt

CONSTANTS
  Attempts,       \* attempts the broker may dispatch
  Envelopes,      \* DispatchEnvelope values: attempt, epoch, deadline, until, version
  Queries,        \* StatusQuery values, the same fields at a possibly later epoch
  Ticks,          \* times the clock may show
  Epochs,         \* fence requests the broker may have made
  StartVersion,   \* the resource version the endpoint was created with
  MaxDeliveries,  \* max_deliveries
  MaxMutations,   \* limits.mutations
  NoTick          \* no time was observed

Messages ==
  [attempt : Attempts, epoch : Epochs, deadline : Nat, until : Nat, version : Nat]

ASSUME EndpointStoreAssumption ==
  /\ IsFiniteSet(Attempts)
  /\ Envelopes \subseteq Messages /\ Queries \subseteq Messages
  /\ Ticks \subseteq Nat /\ NoTick \notin Ticks
  /\ {StartVersion, MaxDeliveries, MaxMutations} \subseteq Nat
  /\ Epochs \subseteq Nat

VARIABLES
  file,    \* publication.bin: the operations it holds and how many are durable
  pending, \* whether publication.pending is left in the directory
  store,   \* the endpoint: its state in memory and its FileStore
  key,     \* RecoveryState: visible revision and the latest time observed
  given,   \* receipts that the endpoint has returned
  seen,    \* the longest history that a reader of the file has seen
  restored \* somebody put an older file back

vars == <<file, pending, store, key, given, seen, restored>>

Operations ==
  [op : {"Attach"}] \cup [op : {"ObserveTime"}, tick : Ticks]
  \cup [op : {"Fence"}, epoch : Epochs] \cup [op : {"Deliver"}, message : Envelopes]
  \cup [op : {"Seal", "ResolveExpired"}, message : Queries]

-----------------------------------------------------------------------------
(* The transitions of the endpoint in memory (endpoint.rs).                *)

NewEndpoint ==
  [attached |-> FALSE, epoch |-> 0, elapsed |-> NoTick, version |-> StartVersion,
   receipts |-> [a \in Attempts |-> "None"], executions |-> 0]

NotBefore(tick, time) == IF time = NoTick THEN TRUE ELSE tick >= time

Room(e) == Cardinality({a \in Attempts : e.receipts[a] # "None"}) < MaxDeliveries

\* What validate and the two checks after it ask of an envelope or query.
Covered(e, msg) ==
  /\ e.attached
  /\ msg.epoch = e.epoch
  /\ e.elapsed # NoTick /\ e.elapsed < msg.until

\* operation.apply(e) succeeds.
Applies(e, o) ==
  CASE o.op = "Attach" -> ~e.attached
    [] o.op = "ObserveTime" -> NotBefore(o.tick, e.elapsed)
    [] o.op = "Fence" -> e.attached /\ o.epoch >= e.epoch
    [] o.op \in {"Deliver", "Seal"} ->
         Covered(e, o.message) /\ (e.receipts[o.message.attempt] # "None" \/ Room(e))
    [] o.op = "ResolveExpired" ->
         /\ Covered(e, o.message)
         /\ \/ e.receipts[o.message.attempt] # "None"
            \/ e.elapsed >= o.message.deadline /\ Room(e)

\* The outcome of a message whose attempt has no receipt yet.
Outcome(e, o) ==
  IF o.op = "Seal" THEN "Sealed"
  ELSE IF e.elapsed >= o.message.deadline THEN "DeadlineElapsed"
  ELSE IF o.message.version # e.version THEN "VersionConflict"
  ELSE "Executed"

Decided(e, o) ==
  LET a == o.message.attempt
      outcome == Outcome(e, o)
      done == IF outcome = "Executed" THEN 1 ELSE 0
  IN  IF e.receipts[a] # "None" THEN e
      ELSE [e EXCEPT !.receipts[a] = outcome,
                     !.version = @ + done, !.executions = @ + done]

\* The endpoint after it.
After(e, o) ==
  CASE o.op = "Attach" -> [e EXCEPT !.attached = TRUE]
    [] o.op = "ObserveTime" -> [e EXCEPT !.elapsed = o.tick]
    [] o.op = "Fence" -> [e EXCEPT !.epoch = o.epoch]
    [] OTHER -> Decided(e, o)

\* decode_file: each operation applies and changes the endpoint.
Replay(ops) ==
  LET upto[k \in 0..Len(ops)] ==
        IF k = 0 THEN NewEndpoint ELSE After(upto[k - 1], ops[k])
  IN  upto[Len(ops)]

Replayable(ops) ==
  /\ Len(ops) <= MaxMutations
  /\ \A k \in 1..Len(ops) :
       LET before == Replay(SubSeq(ops, 1, k - 1))
       IN  Applies(before, ops[k]) /\ After(before, ops[k]) # before

-----------------------------------------------------------------------------
(* The store.                                                              *)

Stages == {"CreatePending", "WritePending", "SyncPending", "Publish", "SyncDirectory", "Done"}

\* The rename has happened.
Visible(stage) == stage \in {"SyncDirectory", "Done"}

NoEndpoint ==
  [open |-> FALSE, memory |-> NewEndpoint, events |-> <<>>, visible_revision |-> 0,
   synchronized_revision |-> 0, clock_confirmed |-> FALSE, failure |-> FALSE]

Init ==
  /\ file = [ops |-> <<>>, synced |-> 0]
  /\ pending = FALSE
  /\ store = [NoEndpoint EXCEPT !.open = TRUE]    \* create_store
  /\ key = [visible_revision |-> 0, observed_floor |-> NoTick]
  /\ given = {}
  /\ seen = <<>>
  /\ restored = FALSE

\* check_file_store
Confirmed == store.open /\ ~store.failure /\ store.clock_confirmed

\* The conditions of file_transition before it tries the operation: no time
\* before one already observed, and no answer before the clock is confirmed.
Permitted(o) ==
  CASE o.op = "ObserveTime" ->
         /\ store.open /\ ~store.failure
         /\ NotBefore(o.tick, key.observed_floor)
    [] o.op \in {"Deliver", "Seal", "ResolveExpired"} -> Confirmed
    [] OTHER -> store.open /\ ~store.failure

\* The receipt that a message is answered with.
Answer(e, o) ==
  IF o.op \in {"Deliver", "Seal", "ResolveExpired"}
    THEN {[attempt |-> o.message.attempt, outcome |-> e.receipts[o.message.attempt]]}
    ELSE {}

\* Mutant of Returned: what was renamed into place is answered for.
ReturnedVisible(stage) == Visible(stage)

\* A receipt is returned only after both synchronizations.
Returned(stage) == stage = "Done"

\* Mutant of Installed: memory changes only with a returned receipt.
InstalledReturned(stage) == stage = "Done"

\* A visible effect is kept in memory although nothing is returned.
Installed(stage) == Visible(stage)

\* same_state
Unchanged(o) == After(store.memory, o) = store.memory

Floor(o) == IF o.op = "ObserveTime" THEN o.tick ELSE key.observed_floor

\* A time that was observed holds whether or not it can be written.
ClockAfter(o, written) ==
  IF o.op = "ObserveTime" THEN written ELSE store.clock_confirmed

AtLimit == Len(store.events) >= MaxMutations

\* The operation changes nothing: it is answered from memory and not written.
Repeat(o) ==
  /\ Permitted(o)
  /\ Applies(store.memory, o)
  /\ Unchanged(o)
  /\ store' = [store EXCEPT !.clock_confirmed = ClockAfter(o, TRUE)]
  /\ key' = [key EXCEPT !.observed_floor = Floor(o)]
  /\ given' = given \cup Answer(store.memory, o)
  /\ UNCHANGED <<file, pending, seen, restored>>

\* append refuses at the limit; only an observed time is remembered.
RefuseLimit(o) ==
  /\ Permitted(o)
  /\ Applies(store.memory, o)
  /\ ~Unchanged(o)
  /\ AtLimit
  /\ store' = [store EXCEPT !.clock_confirmed = ClockAfter(o, FALSE)]
  /\ key' = [key EXCEPT !.observed_floor = Floor(o)]
  /\ UNCHANGED <<file, pending, given, seen, restored>>

\* file_transition of an operation that is written: append, then replace_file
\* with an I/O error at stage, unless that is Done.  A failed attempt leaves the
\* pending file once it was created.
Transition(o, stage) ==
  LET e == After(store.memory, o)
      events == Append(store.events, o)
  IN  /\ Permitted(o)
      /\ Applies(store.memory, o)
      /\ ~Unchanged(o)
      /\ ~AtLimit
      /\ pending => stage = "CreatePending"
      /\ pending' = (pending \/ stage \in {"WritePending", "SyncPending", "Publish"})
      /\ file' = IF Visible(stage)
                   THEN [ops |-> events, synced |-> IF stage = "Done" THEN Len(events)
                                                    ELSE file.synced]
                   ELSE file
      /\ store' = [store EXCEPT
           !.memory = IF Installed(stage) THEN e ELSE @,
           !.events = IF Visible(stage) THEN events ELSE @,
           !.visible_revision = IF Visible(stage) THEN @ + 1 ELSE @,
           !.synchronized_revision = IF stage = "Done" THEN Len(events) ELSE @,
           !.clock_confirmed = ClockAfter(o, stage = "Done"),
           !.failure = (stage # "Done")]
      /\ key' = [visible_revision |->
                   IF Visible(stage) THEN store.visible_revision + 1 ELSE key.visible_revision,
                 observed_floor |-> Floor(o)]
      /\ given' = IF Returned(stage) THEN given \cup Answer(e, o) ELSE given
      /\ UNCHANGED <<seen, restored>>

\* status: a lookup, which needs a confirmed clock too.
Status(q) ==
  /\ Confirmed
  /\ store.memory.attached
  /\ store.memory.elapsed < q.until
  /\ store.memory.receipts[q.attempt] # "None"
  /\ given' = given \cup {[attempt |-> q.attempt, outcome |-> store.memory.receipts[q.attempt]]}
  /\ UNCHANGED <<file, pending, store, key, seen, restored>>

-----------------------------------------------------------------------------
(* Losing and reopening the endpoint.                                      *)

DropEndpoint ==
  /\ store.open
  /\ store' = NoEndpoint
  /\ UNCHANGED <<file, pending, key, given, seen, restored>>

\* The file is at the revision the key last saw.
Current == Len(file.ops) = key.visible_revision

\* Mutant of ReopenedClock: the recovered clock counts as the current one.
ReopenedClockConfirmed == TRUE

\* The time must be observed again.
ReopenedClock == FALSE

\* reopen: under the lock, strict replay, both synchronizations, and the pending
\* file of a failed attempt removed.
Reopen ==
  /\ ~store.open
  /\ Replayable(file.ops)
  /\ Current
  /\ file' = [file EXCEPT !.synced = Len(file.ops)]
  /\ pending' = FALSE
  /\ store' = [open |-> TRUE, memory |-> Replay(file.ops), events |-> file.ops,
               visible_revision |-> Len(file.ops),
               synchronized_revision |-> Len(file.ops),
               clock_confirmed |-> ReopenedClock, failure |-> FALSE]
  /\ UNCHANGED <<key, given, seen, restored>>

\* An I/O error after the synchronizations: before or after the removal of the
\* pending file.
ReopenFails(removed) ==
  /\ ~store.open
  /\ pending
  /\ Replayable(file.ops)
  /\ Current
  /\ file' = [file EXCEPT !.synced = Len(file.ops)]
  /\ pending' = ~removed
  /\ UNCHANGED <<store, key, given, seen, restored>>

\* read_file_publication: anyone may read the visible file, at any time.
Read ==
  /\ Replayable(file.ops)
  /\ seen' = file.ops
  /\ UNCHANGED <<file, pending, store, key, given, restored>>

\* Environment: an older copy of the file is put back.
RestoreOld(n) ==
  /\ ~store.open
  /\ file' = [ops |-> SubSeq(file.ops, 1, n), synced |-> n]
  /\ restored' = TRUE
  /\ UNCHANGED <<pending, store, key, given, seen>>

Next ==
  \/ \E o \in Operations : Repeat(o)
  \/ \E o \in Operations : RefuseLimit(o)
  \/ \E o \in Operations, stage \in Stages : Transition(o, stage)
  \/ \E q \in Queries : Status(q)
  \/ DropEndpoint
  \/ Reopen
  \/ \E removed \in BOOLEAN : ReopenFails(removed)
  \/ Read
  \/ \E n \in 0..(Len(file.ops) - 1) : RestoreOld(n)

Spec == Init /\ [][Next]_vars

-----------------------------------------------------------------------------
(* What makes it correct.                                                  *)

Holds(e, receipt) == e.receipts[receipt.attempt] = receipt.outcome

\* The endpoint never disagrees with the file that others may be reading, also
\* after a rename whose directory could not be synchronized: what may have been
\* seen is charged and refused a second time (file_transition, append).  While no
\* endpoint is open, what the last one left can be reopened with the key, and no
\* failed attempt stays in the way of a store that reports no failure.
MemoryIsVisible ==
  /\ store.open =>
       /\ store.memory = Replay(store.events)
       /\ Len(store.events) = store.visible_revision
       /\ store.visible_revision = key.visible_revision
       /\ file.ops = store.events
       /\ IsPrefix(seen, store.events)
       /\ ~store.failure => ~pending
  /\ ~restored => Replayable(file.ops) /\ Current

\* A returned receipt is on disk, so that no crash of the machine contradicts
\* it; and it stands for as long as the controller lives, whatever fails, however
\* often the endpoint is lost, and even if an old file is put back: an endpoint
\* that is open knows it, so it never publishes again what it answered for and
\* never publishes what it sealed.
ReceiptsKept ==
  \A r \in given :
    /\ ~restored => Holds(Replay(SubSeq(file.ops, 1, file.synced)), r)
    /\ store.open => Holds(store.memory, r)

\* No answer is decided on a clock that is behind a time already observed, also
\* when that observation could not be written and the endpoint was reopened.
ClockNeverForgotten == Confirmed => store.memory.elapsed = key.observed_floor

=============================================================================
