------------------------------ MODULE Delivery ------------------------------
(***************************************************************************)
(* Delivery of authorised effects: a broker that owns the policy           *)
(* controller (struct DeliveryBroker in delivery.rs, stopping.rs and       *)
(* endpoint/recovery.rs), a publication endpoint with a clock of its own   *)
(* (struct PublicationEndpoint in endpoint.rs), and what travels between   *)
(* them.                                                                   *)
(*                                                                         *)
(* Every message of the code can be copied and kept.  The envelope of an   *)
(* attempt, a status query on it and a fence request are copies of what    *)
(* the broker holds or once held, so a late, lost or repeated one is a     *)
(* step of the endpoint that happens late, never or again.  What the       *)
(* endpoint answers is kept in acks and receipts, from which the broker    *)
(* may be handed any element at any time.                                  *)
(*                                                                         *)
(* The controller's operations are those of ControlAuthority with Owner =  *)
(* "policy".  All actions are on the endpoint's resource, fit its byte     *)
(* limits and are proposed under its scope; with any other the code        *)
(* refuses and changes nothing.  The optional gates on policy state,       *)
(* mediation, fleet membership and publication proposals are not           *)
(* configured.  An attempt has one record, so that what names the attempt  *)
(* also names its action, approval and retention.                          *)
(***************************************************************************)
EXTENDS ControlAuthority, Sequences

CONSTANTS
  Streaming,      \* the endpoint appends messages instead of replacing a payload
  VersionOf,      \* VersionOf[t]: the resource version that target t expects
  PriorOf,        \* PriorOf[e]: the messages that stream action e was written after
  MessageOf,      \* MessageOf[e]: the message it appends, or Finish
  Finish,         \* ends the stream
  StartVersion,   \* the resource version the endpoint is created with
  Retention,      \* retention_ticks
  MaxDeliveries,  \* max_deliveries of the endpoint
  Approvals,      \* bound: second-key windows that a dispatch may carry
  Interventions,  \* bound: the kinds of intervention in the controller
  NoApproval,     \* dispatch without a second key
  NoRecord,       \* an attempt that was never dispatched
  NoAttempt       \* no stream action is pending

Results == {"Executed", "DeadlineElapsed", "VersionConflict", "StreamRejected", "Sealed"}

\* An attempt may be without an outcome yet; it is then "None".
Outcomes == [result : Results \cup {"None"}, version : Nat]

DeliveryRecord ==
  [approval : Approvals \cup {NoApproval}, until : Nat, epoch : Nat, resolution : Outcomes]

ASSUME DeliveryAssumption ==
  /\ Owner = "policy"
  /\ Streaming \in BOOLEAN
  /\ VersionOf \in [Targets -> Nat]
  /\ StartVersion \in 1..U64Max
  /\ Retention \in Nat \ {0}
  /\ MaxDeliveries \in Nat \ {0}
  /\ Interventions \subseteq {"attempt", "epoch", "policy", "fence", "actor", "credibility"}
  /\ Approvals \subseteq [issued : Nat, expires : Nat]
  /\ \A ap \in Approvals : ap.issued < ap.expires
  /\ NoApproval \notin Approvals
  /\ NoRecord \notin DeliveryRecord
  /\ NoAttempt \notin Ids

VARIABLES
  broker,    \* DeliveryBroker without its controller
  endpoint,  \* PublicationEndpoint
  acks,      \* epochs of the fence acknowledgments the endpoint has returned
  receipts   \* receipts it has returned: attempt and outcome

control == vars
delivery == <<broker, endpoint, acks, receipts>>
allVars == <<control, delivery>>

\* Only an executed outcome carries a version.
NoOutcome == [result |-> "None", version |-> 0]
NotExecuted(reason) == [result |-> reason, version |-> 0]
Executed(version) == [result |-> "Executed", version |-> version]

\* Len(published) is the execution count; the sequence says of which attempts.
DeliveryInit ==
  /\ Init
  /\ broker = [epoch |-> 0, fenced |-> FALSE, stopped |-> FALSE,
               version |-> StartVersion,
               view |-> [messages |-> << >>, finished |-> FALSE],
               pending |-> NoAttempt,
               sent |-> [id \in Ids |-> NoRecord]]
  /\ endpoint = [epoch |-> 0, elapsed |-> NoTick, version |-> StartVersion,
                 view |-> [messages |-> << >>, finished |-> FALSE],
                 known |-> [id \in Ids |-> NoOutcome],
                 published |-> << >>]
  /\ acks = {}
  /\ receipts = {}

-----------------------------------------------------------------------------
(* The stream and the records of the broker.                               *)

\* StreamView::advance
Advances(view, e) == ~view.finished /\ PriorOf[e] = view.messages

Advanced(view, e) ==
  IF MessageOf[e] = Finish
    THEN [view EXCEPT !.finished = TRUE]
    ELSE [view EXCEPT !.messages = Append(@, MessageOf[e])]

\* check_stream: one action at a time, written for the confirmed prefix.
StreamReady(e) ==
  Streaming => /\ broker.pending = NoAttempt
               /\ VersionOf[TargetOf[e]] = broker.version
               /\ Advances(broker.view, e)

Sent == {id \in Ids : broker.sent[id] # NoRecord}

Unresolved == {id \in Sent : broker.sent[id].resolution = NoOutcome}

Interrupted == {id \in Unresolved : auth.stage[id] = "Dispatching"}

\* Mutant of Pending: attempts whose acknowledgment was lost are not asked about.
PendingDispatching == Interrupted

\* pending_reconciliation
Pending == {id \in Unresolved : auth.stage[id] \in {"Dispatching", "Unknown"}}

\* The preflight of restart_dispatcher and request_stop.
RecordsCoherent ==
  \A id \in Sent :
    auth.stage[id] \in (IF id \in Unresolved THEN InFlight
                                             ELSE {"Confirmed", "ConfirmedNotExecuted"})

\* record_trusted_outcome for the attempts of executed and refunded, and
\* mark_unknown for those of lost.
Settled(a, executed, refunded, lost) ==
  LET all == executed \cup refunded \cup lost
      units(ids) == Cardinality({p \in UnitPairs(a.rights, Liable) : p[1] \in ids})
      state(id) == IF id \in executed THEN "Committed"
                   ELSE IF id \in refunded THEN "Aborted" ELSE "Unknown"
      stage(id) == IF id \in executed THEN "Confirmed"
                   ELSE IF id \in refunded THEN "ConfirmedNotExecuted" ELSE "Unknown"
  IN  [a EXCEPT
         !.rights.available = @ + units(refunded),
         !.rights.spent = @ + units(executed),
         !.rights.reservations = [id \in Ids |->
            IF id \in all THEN [@[id] EXCEPT !.state = state(id)] ELSE @[id]],
         !.stage = [id \in Ids |-> IF id \in all THEN stage(id) ELSE @[id]]]

\* accept_receipt's conditions on an attempt that is not resolved yet.
CanAccept(id, outcome) ==
  /\ id \in Unresolved
  /\ Streaming =>
       /\ broker.pending = id
       /\ outcome.result = "Executed" =>
            /\ outcome.version = broker.version + 1
            /\ Advances(broker.view, auth.action[id])
  /\ CanRecordOutcome(auth, id, outcome.result = "Executed")

\* Mutant of Resolved: the receipts are not kept with the records.
ResolvedUnkept(b, ids, known) ==
  IF b.pending \notin ids THEN b
  ELSE IF known[b.pending].result # "Executed" THEN [b EXCEPT !.pending = NoAttempt]
  ELSE [b EXCEPT !.pending = NoAttempt,
                 !.version = known[b.pending].version,
                 !.view = Advanced(@, auth.action[b.pending])]

\* Mutant of Resolved: the confirmed prefix stays behind.
ResolvedBehind(b, ids, known) ==
  [b EXCEPT !.sent = [id \in Ids |->
                IF id \in ids THEN [@[id] EXCEPT !.resolution = known[id]] ELSE @[id]],
            !.pending = IF @ \in ids THEN NoAttempt ELSE @]

\* The broker after the receipts of ids were accepted.
Resolved(b, ids, known) ==
  LET record(id) == [b.sent[id] EXCEPT !.resolution = known[id]]
      kept == [b EXCEPT !.sent = [id \in Ids |-> IF id \in ids THEN record(id) ELSE @[id]]]
  IN  IF b.pending \notin ids THEN kept
      ELSE IF known[b.pending].result # "Executed" THEN [kept EXCEPT !.pending = NoAttempt]
      ELSE [kept EXCEPT !.pending = NoAttempt,
                        !.version = known[b.pending].version,
                        !.view = Advanced(@, auth.action[b.pending])]

-----------------------------------------------------------------------------
(* The broker: what it adds to the controller's operations.                *)

BrokerPropose(id, e, certifiable) ==
  /\ ~broker.stopped
  /\ StreamReady(e)
  /\ ProposeUnderPolicy(id, e, certifiable)
  /\ UNCHANGED delivery

BrokerFormReview(id, round, inputs) ==
  /\ ~broker.stopped
  /\ FormReview(id, round, inputs)
  /\ UNCHANGED delivery

BrokerApplyReview(rv) ==
  /\ Outcome(rv) = "Continue" => ~broker.stopped
  /\ ApplyReview(rv)
  /\ UNCHANGED delivery

BrokerAuthorize(id) ==
  /\ ~broker.stopped
  /\ Authorize(id)
  /\ UNCHANGED delivery

\* The permit is consumed and the rights charged before the envelope exists.
BrokerDispatch(id, approval) ==
  LET e == auth.action[id]
  IN  /\ ~broker.stopped
      /\ broker.fenced
      /\ id \notin Sent
      /\ Cardinality(Sent) < MaxDeliveries
      /\ Dispatch(id)
      /\ StreamReady(e)
      /\ approval # NoApproval =>
           /\ approval.expires <= DeadlineOf[e]
           /\ approval.issued <= auth.elapsed /\ auth.elapsed < approval.expires
      /\ auth.elapsed + Retention <= U64Max
      /\ broker' = [broker EXCEPT
            !.sent[id] = [approval |-> approval, until |-> auth.elapsed + Retention,
                          epoch |-> broker.epoch, resolution |-> NoOutcome],
            !.pending = IF Streaming THEN id ELSE @]
      /\ UNCHANGED <<endpoint, acks, receipts>>

\* Also the effect of reconcile_status on an answer without a receipt.
AcknowledgmentLost(id) ==
  /\ id \in Sent
  /\ MarkUnknown(id)
  /\ UNCHANGED delivery

AbandonUnknown(id) ==
  /\ id \in Sent
  /\ MarkIrrecoverable(id)
  /\ UNCHANGED delivery

\* A repeated receipt is accepted and changes nothing.
AcceptReceipt(r) ==
  /\ CanAccept(r.attempt, r.outcome)
  /\ auth' = AfterRecordOutcome(auth, r.attempt, r.outcome.result = "Executed")
  /\ broker' = Resolved(broker, {r.attempt}, [id \in Ids |-> r.outcome])
  /\ UNCHANGED <<Host, endpoint, acks, receipts>>

\* Mutant of Acknowledges: an acknowledgment of an earlier fence is accepted.
AcknowledgesAny(epoch) == TRUE

Acknowledges(epoch) == epoch = broker.epoch

ConfirmFence(epoch) ==
  /\ Acknowledges(epoch)
  /\ broker' = [broker EXCEPT !.fenced = TRUE]
  /\ UNCHANGED <<control, endpoint, acks, receipts>>

\* A new dispatcher epoch, which the endpoint has not acknowledged yet.
Refenced == [broker EXCEPT !.epoch = @ + 1, !.fenced = FALSE]

RestartDispatcher ==
  /\ broker.epoch < U64Max
  /\ RecordsCoherent
  /\ auth' = Settled(auth, {}, {}, Interrupted)
  /\ broker' = Refenced
  /\ UNCHANGED <<Host, endpoint, acks, receipts>>

\* activate_credibility and withdraw_credibility, with admissible evidence.
ChangeCredibility ==
  /\ "credibility" \in Interventions
  /\ ~broker.stopped
  /\ broker.epoch < U64Max
  /\ ReplacePolicy
  /\ broker' = Refenced
  /\ UNCHANGED <<endpoint, acks, receipts>>

\* A retry of the same request returns the first receipt and changes nothing.
RequestStop ==
  /\ ~broker.stopped
  /\ broker.epoch < U64Max
  /\ RecordsCoherent
  /\ CanRevokeAll(auth)
  /\ auth' = Settled(AfterFence(auth, auth.rights.epoch + 1), {}, {}, Interrupted)
  /\ broker' = [Refenced EXCEPT !.stopped = TRUE]
  /\ UNCHANGED <<Host, endpoint, acks, receipts>>

-----------------------------------------------------------------------------
(* The endpoint.                                                           *)

ExecutionDeadline(id) ==
  LET deadline == DeadlineOf[auth.action[id]]
      approval == broker.sent[id].approval
  IN  IF approval = NoApproval \/ deadline <= approval.expires THEN deadline
                                                               ELSE approval.expires

\* The retention interval of the attempt still covers an answer.
Retained(id) == endpoint.elapsed # NoTick /\ endpoint.elapsed < broker.sent[id].until

Known == {id \in Ids : endpoint.known[id] # NoOutcome}

\* Mutant of Recorded: a sealed attempt is answered for but not remembered.
RecordedUnlessSealed(ep, ids, reason) ==
  IF reason = "Sealed" THEN ep
  ELSE [ep EXCEPT !.known = [id \in Ids |-> IF id \in ids THEN NotExecuted(reason) ELSE @[id]]]

Recorded(ep, ids, reason) ==
  [ep EXCEPT !.known = [id \in Ids |-> IF id \in ids THEN NotExecuted(reason) ELSE @[id]]]

EndpointTime(tick) ==
  /\ tick >= endpoint.elapsed
  /\ endpoint' = [endpoint EXCEPT !.elapsed = tick]
  /\ UNCHANGED <<control, broker, acks, receipts>>

\* install_fence, for a request the broker made at this or an earlier epoch.
InstallFence(epoch) ==
  /\ epoch >= endpoint.epoch
  /\ endpoint' = [endpoint EXCEPT !.epoch = epoch]
  /\ acks' = acks \cup {epoch}
  /\ UNCHANGED <<control, broker, receipts>>

Return(id) == receipts' = receipts \cup {[attempt |-> id, outcome |-> endpoint'.known[id]]}

\* The envelope was made by the dispatcher that the endpoint is fenced to.
SameEpoch(id) == broker.sent[id].epoch = endpoint.epoch

\* What the first delivery of an envelope comes to, tested in this order.
Verdict(id) ==
  LET e == auth.action[id]
  IN  IF endpoint.elapsed >= ExecutionDeadline(id) THEN "DeadlineElapsed"
      ELSE IF VersionOf[TargetOf[e]] # endpoint.version THEN "VersionConflict"
      ELSE IF Streaming /\ ~Advances(endpoint.view, e) THEN "StreamRejected"
      ELSE "Executed"

\* It publishes, or refuses for good.
Publish(id) ==
  LET approval == broker.sent[id].approval
  IN  /\ Cardinality(Known) < MaxDeliveries
      /\ approval # NoApproval => endpoint.elapsed >= approval.issued
      /\ \/ /\ Verdict(id) # "Executed"
            /\ endpoint' = Recorded(endpoint, {id}, Verdict(id))
         \/ /\ Verdict(id) = "Executed"
            /\ endpoint.version < U64Max
            /\ endpoint' = [endpoint EXCEPT
                 !.known[id] = Executed(endpoint.version + 1),
                 !.version = @ + 1,
                 !.view = IF Streaming THEN Advanced(@, auth.action[id]) ELSE @,
                 !.published = Append(@, id)]

\* Mutant of Undecided: a refusal is forgotten when the envelope comes again.
UndecidedUnlessExecuted(id) == endpoint.known[id].result # "Executed"

\* There is no terminal record of the attempt.
Undecided(id) == id \notin Known

Deliver(id) ==
  /\ id \in Sent
  /\ SameEpoch(id)
  /\ Retained(id)
  /\ IF Undecided(id) THEN Publish(id) ELSE UNCHANGED endpoint
  /\ Return(id)
  /\ UNCHANGED <<control, broker, acks>>

\* The query was made at some epoch since the dispatch; it counts only if that
\* is the epoch the endpoint is fenced to.
Queried(id) ==
  /\ id \in Sent
  /\ broker.sent[id].epoch <= endpoint.epoch
  /\ Retained(id)

SealUnexecuted(id) ==
  /\ Queried(id)
  /\ \/ id \in Known /\ UNCHANGED endpoint
     \/ /\ id \notin Known
        /\ Cardinality(Known) < MaxDeliveries
        /\ endpoint' = Recorded(endpoint, {id}, "Sealed")
  /\ receipts' = receipts \cup {[attempt |-> id, outcome |->
        IF id \in Known THEN endpoint.known[id] ELSE NotExecuted("Sealed")]}
  /\ UNCHANGED <<control, broker, acks>>

ResolveExpired(id) ==
  /\ Queried(id)
  /\ \/ id \in Known /\ UNCHANGED endpoint
     \/ /\ id \notin Known
        /\ endpoint.elapsed >= ExecutionDeadline(id)
        /\ Cardinality(Known) < MaxDeliveries
        /\ endpoint' = Recorded(endpoint, {id}, "DeadlineElapsed")
  /\ Return(id)
  /\ UNCHANGED <<control, broker, acks>>

\* status: the receipt is also handed out by a lookup, without a fence.
Status(id) ==
  /\ id \in Sent \cap Known
  /\ Retained(id)
  /\ UNCHANGED endpoint
  /\ Return(id)
  /\ UNCHANGED <<control, broker, acks>>

-----------------------------------------------------------------------------
(* Sweeps: the broker settles its pending attempts with the endpoint.      *)

\* Each pending attempt that is retained gets its terminal record or, if it is
\* one of closed, a new one; the others become unknown.  The endpoint has room
\* for them because it knows only attempts that the broker recorded.
Sweep(ep, closed, reason) ==
  LET settling == Recorded(ep, closed, reason)
      answered == {id \in Pending : Retained(id) /\ settling.known[id] # NoOutcome}
      accepted == {id \in answered : CanAccept(id, settling.known[id])}
      executed == {id \in accepted : settling.known[id].result = "Executed"}
  IN  /\ auth' = Settled(auth, executed, accepted \ executed,
                         (Pending \ answered) \cap Interrupted)
      /\ broker' = [Resolved(broker, accepted, settling.known) EXCEPT !.fenced = TRUE]
      /\ endpoint' = settling
      /\ receipts' = receipts \cup
           {[attempt |-> id, outcome |-> settling.known[id]] : id \in answered}
      /\ UNCHANGED <<Host, acks>>

ReconcilePending ==
  /\ broker.fenced
  /\ broker.epoch = endpoint.epoch
  /\ endpoint.elapsed # NoTick
  /\ Sweep(endpoint,
           {id \in Pending \ Known :
              Retained(id) /\ endpoint.elapsed >= ExecutionDeadline(id)},
           "DeadlineElapsed")

\* Mutant of Withdrawn: a stop seals only what has expired anyway.
WithdrawnExpired ==
  {id \in Pending \ Known : Retained(id) /\ endpoint.elapsed >= ExecutionDeadline(id)}

\* What a stop seals, before or after its deadline.
Withdrawn == {id \in Pending \ Known : Retained(id)}

ProgressStop ==
  /\ broker.stopped
  /\ broker.epoch >= endpoint.epoch
  /\ Sweep([endpoint EXCEPT !.epoch = broker.epoch], Withdrawn, "Sealed")

-----------------------------------------------------------------------------
BrokerStep(id) ==
  \/ \E e \in Effects, certifiable \in BOOLEAN : BrokerPropose(id, e, certifiable)
  \/ \E round \in Rounds, inputs \in Inputs : BrokerFormReview(id, round, inputs)
  \/ BrokerAuthorize(id)
  \/ \E approval \in Approvals \cup {NoApproval} : BrokerDispatch(id, approval)
  \/ AcknowledgmentLost(id) \/ AbandonUnknown(id)

\* The operations that the broker passes to its controller as they are.
PassedOn ==
  /\ \/ \E tick \in 0..MaxTick : ObserveTime(tick)
     \/ \E p \in pending : Drop(p)
     \/ /\ "attempt" \in Interventions
        /\ \E id \in Ids, terminal \in {"Cancelled", "Denied"} : Stop(id, terminal)
     \/ "epoch" \in Interventions /\ RevokeEpoch
     \/ "policy" \in Interventions /\ ReplacePolicy
     \/ "fence" \in Interventions /\ FenceAuthority(auth.rights.epoch + 1)
     \/ "actor" \in Interventions /\ ActorStep
  /\ UNCHANGED delivery

EndpointStep ==
  \/ \E tick \in 0..MaxTick : EndpointTime(tick)
  \/ \E epoch \in 0..broker.epoch : InstallFence(epoch)
  \/ \E id \in Ids :
       Deliver(id) \/ SealUnexecuted(id) \/ ResolveExpired(id) \/ Status(id)

DeliveryNext ==
  \/ \E id \in Ids : BrokerStep(id)
  \/ \E rv \in Reviews : BrokerApplyReview(rv)
  \/ \E r \in receipts : AcceptReceipt(r)
  \/ \E epoch \in acks : ConfirmFence(epoch)
  \/ RestartDispatcher \/ ChangeCredibility \/ RequestStop
  \/ ReconcilePending \/ ProgressStop
  \/ PassedOn
  \/ EndpointStep

DeliverySpec == DeliveryInit /\ [][DeliveryNext]_allVars

(* The host goes on sweeping, and after a stop calling progress_stop; it   *)
(* gets the fence it asks for to the endpoint and back.  Until a stop, the *)
(* endpoint's clock goes on; a stop only needs it to have been read once.  *)
LiveSpec ==
  /\ DeliverySpec
  /\ WF_allVars(ReconcilePending)
  /\ WF_allVars(ProgressStop)
  /\ WF_allVars(InstallFence(broker.epoch))
  /\ WF_allVars(\E epoch \in acks : ConfirmFence(epoch))
  /\ WF_allVars(/\ ~broker.stopped \/ endpoint.elapsed = NoTick
                /\ \E tick \in 0..MaxTick : tick > endpoint.elapsed /\ EndpointTime(tick))

-----------------------------------------------------------------------------
(* What makes delivery correct.                                            *)

PublishedIds == {endpoint.published[k] : k \in 1..Len(endpoint.published)}

\* A published effect stays charged, and a refund means that it was not and
\* never will be published: no lost acknowledgment, seal, expiry, restart, reset
\* or stop returns the units of an effect that is out, whatever arrives late.
\* The broker's clock and the endpoint's are independent throughout.
ExecutedStaysCharged ==
  \A id \in Sent :
    /\ id \in PublishedIds => StateOf(auth.rights, id) \in Liable \cup {"Committed"}
    /\ auth.stage[id] = "Confirmed" => id \in PublishedIds
    /\ auth.stage[id] = "ConfirmedNotExecuted" =>
         id \in Known /\ endpoint.known[id].result # "Executed"

\* The broker's records, the controller's stages and its ledger are of the same
\* attempts and agree on which are settled and how, so that a sweep that changes
\* all three never leaves one behind, and restart_dispatcher and request_stop are
\* never refused by their preflight.
RecordsMatchStages ==
  /\ StagesMatchLedger
  /\ RecordsCoherent
  /\ \A id \in Ids \ Sent : auth.stage[id] \notin InFlight \cup
                              {"Confirmed", "ConfirmedNotExecuted"}
  /\ \A id \in Sent \ Unresolved :
       broker.sent[id].resolution = endpoint.known[id]

\* Every publication is of an action written for the version that the earlier
\* publications had produced: no attempt is published twice, although its
\* envelope may be delivered any number of times.  In a stream the audience has
\* seen exactly the confirmed prefix, and with an action pending at most that
\* action's message more.
PublishedInStep ==
  /\ endpoint.version = StartVersion + Len(endpoint.published)
  /\ \A k \in 1..Len(endpoint.published) :
       VersionOf[TargetOf[auth.action[endpoint.published[k]]]] = StartVersion + k - 1
  /\ Streaming =>
       \/ endpoint.view = broker.view /\ endpoint.version = broker.version
       \/ /\ broker.pending # NoAttempt
          /\ Advances(broker.view, auth.action[broker.pending])
          /\ endpoint.view = Advanced(broker.view, auth.action[broker.pending])
          /\ endpoint.version = broker.version + 1

\* Once the broker has its fence confirmed, nothing is published that was
\* dispatched under an earlier epoch; after a stop, nothing at all.
PublishesCurrent ==
  \A id \in Ids : endpoint.known[id] = NoOutcome /\ endpoint'.known[id].result = "Executed"
                  /\ broker.fenced =>
    broker.sent[id].epoch = broker.epoch /\ ~broker.stopped

FenceHolds == [][PublishesCurrent]_allVars

\* Nothing more can be learned about the attempt.
Closed(id) ==
  \/ id \notin Unresolved
  \/ auth.stage[id] = "IrrecoverablyUnknown"
  \/ endpoint.elapsed >= broker.sent[id].until

\* A dispatched attempt is settled in the end by the sweeps alone, after any
\* number of lost answers and restarts and whether or not a stop comes, unless it
\* was given up or its retention ran out first.
DispatchedSettles == \A id \in Ids : id \in Sent ~> Closed(id)

\* A stop drains: every attempt is settled in the end without waiting for its
\* deadline, with the same two exceptions, and the endpoint is fenced.
StopDrains ==
  broker.stopped ~>
    broker.fenced /\ \A id \in Sent : Closed(id)

=============================================================================
