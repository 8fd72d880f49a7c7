-------------------------- MODULE ControlAuthority --------------------------
(***************************************************************************)
(* The owner of the control authority as a state machine: what a host may  *)
(* call on it, in any order, while reviews and actor updates formed        *)
(* earlier are still on their way.  Owner says which type of the code owns *)
(* it: "gate" is ConsequenceAuthority (gate.rs), whose host the            *)
(* specification below describes; "policy" is PolicyAuthority              *)
(* (controller.rs, governance.rs, credibility.rs), which owns a            *)
(* ContainmentAuthority (containment.rs, narrow.rs), which owns a gate,    *)
(* and whose host is the broker of Delivery.  An actor checkpoint holds    *)
(* actor state and never rights.                                           *)
(***************************************************************************)
EXTENDS Authority

CONSTANTS
  Owner,              \* "gate" or "policy"
  ActorStates,        \* bound: the states an actor may be replaced by
  StartActor,         \* the state it starts in
  CheckpointIds,      \* identities of checkpoints
  NoCheckpoint,       \* marks an unused identity
  SuspendAtIncident,  \* incidents at which a reset suspends instead
  Inputs,             \* bound: the decision inputs a review may have
  MaxPending          \* bound: reviews and updates on their way at one time

ASSUME ControlAssumption ==
  /\ Owner \in {"gate", "policy"}
  /\ SuspendAtIncident \in Nat \ {0}
  /\ Inputs \subseteq [empirical : Consequences, disqualifier : BOOLEAN,
                       incomplete : BOOLEAN, retained : SUBSET Targets]
  /\ MaxPending \in Nat

VARIABLES
  auth,         \* the authority
  pending,      \* reviews and actor updates formed, not yet applied or dropped
  actor,        \* the actor's state and its revision
  checkpoints   \* checkpoints[c]: actor state and revision when captured

vars == <<auth, pending, actor, checkpoints>>

\* What a review was formed on; not a field of the code's request.
Seen(a) == [decisions |-> a.decisions, ceiling |-> a.ceiling]

Reviews == {p \in pending : p.kind = "review"}
Updates == {p \in pending : p.kind = "update"}

Init ==
  /\ auth = NewAuthority
  /\ pending = {}
  /\ actor = [state |-> StartActor, revision |-> 0]
  /\ checkpoints = [c \in CheckpointIds |-> NoCheckpoint]

Host == <<pending, actor, checkpoints>>

-----------------------------------------------------------------------------
(* One attempt.                                                            *)

ObserveTime(tick) ==
  /\ CanObserveTime(auth, tick)
  /\ auth' = AfterObserveTime(auth, tick)
  /\ UNCHANGED Host

Propose(id, e) ==
  /\ Owner = "gate"
  /\ CanPropose(auth, id, e)
  /\ auth' = AfterPropose(auth, id, e)
  /\ UNCHANGED Host

\* PolicyAuthority proposes, prepares and begins the review in one call, or
\* denies an action that its policy is known to violate.
ProposeUnderPolicy(id, e, certifiable) ==
  /\ Owner = "policy"
  /\ CanPropose(auth, id, e)
  /\ Current(auth, e)
  /\ auth' = LET a == AfterPropose(auth, id, e)
             IN  IF certifiable THEN AfterBeginReview(AfterPrepare(a, id), id)
                                ELSE AfterStop(a, id, "Denied")
  /\ UNCHANGED Host

Prepare(id) ==
  /\ CanPrepare(auth, id)
  /\ auth' = AfterPrepare(auth, id)
  /\ UNCHANGED Host

BeginReview(id) ==
  /\ CanBeginReview(auth, id)
  /\ auth' = AfterBeginReview(auth, id)
  /\ UNCHANGED Host

Authorize(id) ==
  /\ CanAuthorize(auth, id)
  /\ auth' = AfterAuthorize(auth, id)
  /\ UNCHANGED Host

Dispatch(id) ==
  /\ CanDispatchAttempt(auth, id)
  /\ auth' = AfterDispatchAttempt(auth, id)
  /\ UNCHANGED Host

Stop(id, terminal) ==
  /\ CanStop(auth, id)
  /\ auth' = AfterStop(auth, id, terminal)
  /\ UNCHANGED Host

MarkUnknown(id) ==
  /\ CanMarkAttemptUnknown(auth, id)
  /\ auth' = AfterMarkAttemptUnknown(auth, id)
  /\ UNCHANGED Host

RecordOutcome(id, executed) ==
  /\ CanRecordOutcome(auth, id, executed)
  /\ auth' = AfterRecordOutcome(auth, id, executed)
  /\ UNCHANGED Host

MarkIrrecoverable(id) ==
  /\ CanMarkIrrecoverable(auth, id)
  /\ auth' = AfterMarkIrrecoverable(auth, id)
  /\ UNCHANGED Host

RevokeEpoch ==
  /\ CanRevokeEpoch(auth.rights)
  /\ auth' = [auth EXCEPT !.rights = AfterRevokeEpoch(@)]
  /\ UNCHANGED Host

RetireInvalidated ==
  /\ Owner = "gate"
  /\ CanRetire(auth)
  /\ auth' = AfterRetire(auth)
  /\ UNCHANGED Host

-----------------------------------------------------------------------------
(* Reviews.                                                                *)

\* A review is frozen against the control sequence of this moment.  Retained
\* targets come with a narrowing and with nothing else.
FormReview(id, round, inputs) ==
  /\ auth.stage[id] # "Absent"
  /\ Cardinality(pending) < MaxPending
  /\ Outcome(inputs) # "NarrowAuthority" => inputs.retained = Targets
  /\ pending' = pending \cup
       {[kind |-> "review", attempt |-> id, expected |-> auth.sequence, round |-> round,
         empirical |-> inputs.empirical, disqualifier |-> inputs.disqualifier,
         incomplete |-> inputs.incomplete, retained |-> inputs.retained,
         seen |-> Seen(auth)]}
  /\ UNCHANGED <<auth, actor, checkpoints>>

ApplyReview(rv) ==
  /\ Owner = "policy" => Cardinality(auth.rounds) < MaxDecisions
  /\ CanApplyReview(auth, rv)
  /\ auth' = AfterApplyReview(auth, rv)
  /\ pending' = pending \ {rv}
  /\ UNCHANGED <<actor, checkpoints>>

\* A review or an update was refused, or nobody applied it.
Drop(p) ==
  /\ pending' = pending \ {p}
  /\ UNCHANGED <<auth, actor, checkpoints>>

-----------------------------------------------------------------------------
(* Governance and containment.                                             *)

\* replace_policy; replace_congress_weights and the activation and withdrawal of
\* credibility evidence do the same to the authority.
ReplacePolicy ==
  /\ Owner = "policy"
  /\ CanRevokeAll(auth)
  /\ auth' = AfterReplacePolicy(auth)
  /\ UNCHANGED Host

FenceAuthority(minimum) ==
  /\ Owner = "policy"
  /\ CanRevokeAll(auth)
  /\ auth' = AfterFence(auth, minimum)
  /\ UNCHANGED Host

\* The host computes the actor's next state from the present one.
FormUpdate(s) ==
  /\ Owner = "policy"
  /\ Cardinality(pending) < MaxPending
  /\ pending' = pending \cup
       {[kind |-> "update", state |-> s, expected |-> actor.revision,
         seen |-> [actor |-> actor, incidents |-> auth.rights.incident_count]]}
  /\ UNCHANGED <<auth, actor, checkpoints>>

\* Mutant of SameRevision: the revision of the update is not compared.
SameRevisionAny(u) == TRUE

\* The actor is still the one the update was computed from.
SameRevision(u) == u.expected = actor.revision

\* replace_actor_state
ReplaceActor(u) ==
  /\ ~auth.suspended
  /\ SameRevision(u)
  /\ actor.revision < U64Max
  /\ actor' = [state |-> u.state, revision |-> actor.revision + 1]
  /\ pending' = pending \ {u}
  /\ UNCHANGED <<auth, checkpoints>>

CaptureCheckpoint(c) ==
  /\ Owner = "policy"
  /\ ~auth.suspended
  /\ checkpoints[c] = NoCheckpoint
  /\ checkpoints' = [checkpoints EXCEPT ![c] = actor]
  /\ UNCHANGED <<auth, pending, actor>>

\* The actor must still be the one the checkpoint holds.
NarrowCheckpoint(c, round, retained) ==
  /\ CanContain(auth, round)
  /\ checkpoints[c] = actor
  /\ CanRevokeAll(auth)
  /\ auth' = AfterNarrowCheckpoint(auth, round, retained)
  /\ UNCHANGED Host

\* Only the actor's state is rewound; at the threshold the run is suspended and
\* the actor stays where it is.
Reset(c, round, retained) ==
  /\ CanContain(auth, round)
  /\ checkpoints[c] # NoCheckpoint
  /\ actor.revision < U64Max
  /\ CanResetRights(auth)
  /\ auth' = AfterResetRights(auth, round, retained, SuspendAtIncident)
  /\ actor' = [state |-> IF auth'.suspended THEN actor.state
                                            ELSE checkpoints[c].state,
               revision |-> actor.revision + 1]
  /\ UNCHANGED <<pending, checkpoints>>

-----------------------------------------------------------------------------
AttemptStep(id) ==
  \/ \E e \in Effects : Propose(id, e)
  \/ Prepare(id) \/ BeginReview(id) \/ Authorize(id) \/ Dispatch(id)
  \/ \E terminal \in {"Cancelled", "Denied"} : Stop(id, terminal)
  \/ MarkUnknown(id) \/ MarkIrrecoverable(id)
  \/ \E executed \in BOOLEAN : RecordOutcome(id, executed)

ReviewStep ==
  \/ \E id \in Ids, round \in Rounds, inputs \in Inputs :
       FormReview(id, round, inputs)
  \/ \E rv \in Reviews : ApplyReview(rv)

\* What the host of a containment may do besides.
ActorStep ==
  \/ \E s \in ActorStates : FormUpdate(s)
  \/ \E u \in Updates : ReplaceActor(u)
  \/ \E c \in CheckpointIds : CaptureCheckpoint(c)
  \/ \E c \in CheckpointIds, round \in Rounds, retained \in SUBSET Targets :
       NarrowCheckpoint(c, round, retained) \/ Reset(c, round, retained)

\* The host of a gate.
Next ==
  \/ \E id \in Ids : AttemptStep(id)
  \/ ReviewStep
  \/ \E p \in pending : Drop(p)
  \/ \E tick \in 0..MaxTick : ObserveTime(tick)
  \/ RevokeEpoch \/ RetireInvalidated

Spec == Init /\ [][Next]_vars

-----------------------------------------------------------------------------
(* What makes the authority correct.                                       *)

\* The ledger state that an attempt in stage s must have.
LedgerStates(s) ==
  CASE s = "Authorized" -> {"Reserved"}
    [] s = "Dispatching" -> {"Dispatched"}
    [] s \in {"Unknown", "IrrecoverablyUnknown"} -> {"Unknown"}
    [] s = "Confirmed" -> {"Committed"}
    [] s = "ConfirmedNotExecuted" -> {"Aborted"}
    [] s \in {"Denied", "Cancelled"} -> {"Missing", "Aborted"}
    [] OTHER -> {"Missing"}

\* The units of the attempts in one of the stages.
StageUnits(stages) ==
  Cardinality({p \in Ids \X (1..U64Max) :
                 /\ auth.stage[p[1]] \in stages
                 /\ p[2] <= Units[auth.action[p[1]]]})

\* The two records of an attempt never drift apart: its lifecycle stage and its
\* reservation in the ledger agree, about the same action and the epoch it was
\* written for.  Every path has to keep both, including the ones that work on
\* copies of the ledger: apply_review; retire_invalidated, of the gate; and
\* narrow, reset, replace_policy and fence_authority, of the policy controller
\* (which Delivery's runs and the theorem have).  So inspect(), which computes what is
\* reserved from the stages and what is charged by subtraction, never wraps and
\* charges exactly what in-flight and executed attempts stand for.
StagesMatchLedger ==
  /\ \A id \in Ids :
       /\ StateOf(auth.rights, id) \in LedgerStates(auth.stage[id])
       /\ StateOf(auth.rights, id) # "Missing" =>
            /\ auth.rights.reservations[id].effect = auth.action[id]
            /\ auth.rights.reservations[id].epoch = EpochOf[auth.action[id]]
  /\ Total - auth.rights.available - StageUnits({"Authorized"})
       = StageUnits(InFlight \cup {"Confirmed"})

\* No restriction is outrun by work admitted before it: under a suspension no
\* attempt can still be dispatched, and none outside the target ceiling.
RestrictionsBind ==
  \A id \in UndispatchedIds(auth) :
    ~auth.suspended /\ TargetOf[auth.action[id]] \in auth.ceiling

\* A step never widens the ceiling, lifts a suspension, lowers the epoch or
\* the control sequence, or forgets a round: a rewind of the actor or a new
\* policy does not give authority back.  Nor does a permit that was issued before
\* authority was taken away: what leaves was reserved in the epoch of now, for a
\* target of the ceiling of now.
Tightens ==
  /\ auth'.ceiling \subseteq auth.ceiling
  /\ auth.suspended => auth'.suspended
  /\ auth'.rights.epoch >= auth.rights.epoch
  /\ auth'.sequence >= auth.sequence
  /\ auth.rounds \subseteq auth'.rounds
  /\ \A id \in Ids :
       (auth.stage[id] = "Authorized" /\ auth'.stage[id] = "Dispatching") =>
         /\ auth.rights.reservations[id].epoch = auth.rights.epoch
         /\ InCeiling(auth, auth.action[id])

NeverLoosened == [][Tightens]_vars

\* A review decides only on the control state it was formed on: if any decision
\* or the ceiling changed since, it is refused.
AppliedOnSeen ==
  \A rv \in Reviews \ pending' : auth' # auth => rv.seen = Seen(auth)

ReviewsAreFresh == [][AppliedOnSeen]_vars

\* An update computed before a reset never overwrites the rewind: an update
\* that takes effect was computed from the very state it replaces, with no
\* reset in between, even one that rewound to an equal state.
UpdatedFromSeen ==
  \A u \in Updates \ pending' : actor' # actor =>
    /\ u.seen.actor = actor
    /\ u.seen.incidents = auth.rights.incident_count

RewindNotOverwritten == [][UpdatedFromSeen]_vars

=============================================================================
