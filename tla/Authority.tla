------------------------------ MODULE Authority -----------------------------
(***************************************************************************)
(* The control authority of fa-reference as a value: the action lifecycle  *)
(* over the rights ledger (action.rs, action/retirement.rs), the           *)
(* consequence gate (consequence.rs, gate.rs) and the operations that      *)
(* containment and the policy controller perform on it as one transaction  *)
(* (containment.rs, narrow.rs, controller.rs, governance.rs).              *)
(*                                                                         *)
(* A frozen action is an element of Effects with the fields the authority  *)
(* looks at; the ledger's auxiliary effect is the action itself.  The      *)
(* caller supplies a snapshot in which the action's read witnesses hold;   *)
(* with any other snapshot the code refuses and changes nothing.  Identity *)
(* checks on issuer, scope and evidence root always succeed here.          *)
(***************************************************************************)
EXTENDS Rights, Consequence

CONSTANTS
  Targets,       \* exact resolved targets
  TargetOf,      \* TargetOf[e]: the target of action e
  EpochOf,       \* EpochOf[e]: the policy epoch e was written for
  DeadlineOf,    \* DeadlineOf[e]: the tick at which e expires
  Rounds,        \* review round identities
  MaxTick,       \* bound: the last clock tick observed
  MaxAttempts,   \* attempts an authority accepts over its life
  MaxDecisions   \* MAX_DECISIONS: control records over its life

ASSUME AuthorityAssumption ==
  /\ TargetOf \in [Effects -> Targets]
  /\ EpochOf \in [Effects -> Nat]
  /\ DeadlineOf \in [Effects -> Nat \ {0}]
  /\ \A e \in Effects : Units[e] > 0
  /\ MaxTick \in Nat
  /\ MaxAttempts \in Nat \ {0}
  /\ MaxDecisions \in Nat

Undispatched == {"Proposed", "Prepared", "Reviewing", "Authorized"}
InFlight == {"Dispatching", "Unknown", "IrrecoverablyUnknown"}
Terminal == {"Confirmed", "ConfirmedNotExecuted", "Denied", "Cancelled"}
Stages == Undispatched \cup InFlight \cup Terminal

NoTick == -1

AuthorityValue ==
  [rights : Ledger,
   stage : [Ids -> Stages \cup {"Absent"}],
   action : [Ids -> Effects \cup {NoEffect}],
   elapsed : -1..MaxTick,
   sequence : 0..U64Max,
   suspended : BOOLEAN,
   ceiling : SUBSET Targets,
   decisions : [Ids -> Consequences \cup {"None"}],
   rounds : SUBSET Rounds,
   records : 0..MaxDecisions]

\* A ceiling of None, the unrestricted one, is the set of all targets.
NewAuthority ==
  [rights |-> NewRights,
   stage |-> [id \in Ids |-> "Absent"],
   action |-> [id \in Ids |-> NoEffect],
   elapsed |-> NoTick,
   sequence |-> 0,
   suspended |-> FALSE,
   ceiling |-> Targets,
   decisions |-> [id \in Ids |-> "None"],
   rounds |-> {},
   records |-> 0]

-----------------------------------------------------------------------------
(* The action lifecycle, one attempt at a time.                            *)

Attempts(a) == {id \in Ids : a.stage[id] # "Absent"}

\* ConsequenceAuthority::check_ceiling
InCeiling(a, e) == ~a.suspended /\ TargetOf[e] \in a.ceiling

\* ReferenceAuthority::validate_current
Current(a, e) ==
  /\ EpochOf[e] = a.rights.epoch
  /\ a.elapsed # NoTick
  /\ a.elapsed < DeadlineOf[e]

\* check_continue: the latest decision on the attempt lets it proceed.
MayContinue(a, id) ==
  /\ a.stage[id] # "Absent"
  /\ InCeiling(a, a.action[id])
  /\ a.decisions[id] = "Continue"

CanObserveTime(a, tick) == tick >= a.elapsed
AfterObserveTime(a, tick) == [a EXCEPT !.elapsed = tick]

CanPropose(a, id, e) ==
  /\ InCeiling(a, e)
  /\ a.stage[id] = "Absent"
  /\ Cardinality(Attempts(a)) < MaxAttempts

AfterPropose(a, id, e) ==
  [a EXCEPT !.stage[id] = "Proposed", !.action[id] = e]

CanPrepare(a, id) ==
  /\ a.stage[id] = "Proposed"
  /\ InCeiling(a, a.action[id])
  /\ Current(a, a.action[id])

AfterPrepare(a, id) == [a EXCEPT !.stage[id] = "Prepared"]

CanBeginReview(a, id) ==
  a.stage[id] = "Prepared" /\ InCeiling(a, a.action[id])

AfterBeginReview(a, id) == [a EXCEPT !.stage[id] = "Reviewing"]

CanAuthorize(a, id) ==
  /\ MayContinue(a, id)
  /\ a.stage[id] = "Reviewing"
  /\ Current(a, a.action[id])
  /\ CanReserve(a.rights, id, a.action[id])

AfterAuthorize(a, id) ==
  [a EXCEPT !.rights = AfterReserve(@, id, a.action[id]),
            !.stage[id] = "Authorized"]

\* The permit names the attempt and its exact action; it is used up because the
\* attempt leaves Authorized.
CanDispatchAttempt(a, id) ==
  /\ MayContinue(a, id)
  /\ a.stage[id] = "Authorized"
  /\ Current(a, a.action[id])
  /\ CanDispatch(a.rights, id, a.action[id])

AfterDispatchAttempt(a, id) ==
  [a EXCEPT !.rights = AfterDispatch(@, id), !.stage[id] = "Dispatching"]

\* stop_before_dispatch, for cancel and deny
CanStop(a, id) ==
  /\ a.stage[id] \in Undispatched
  /\ a.stage[id] = "Authorized" => CanAbort(a.rights, id)

AfterStop(a, id, terminal) ==
  [a EXCEPT !.rights = IF a.stage[id] = "Authorized" THEN AfterAbort(@, id) ELSE @,
            !.stage[id] = terminal]

CanMarkAttemptUnknown(a, id) ==
  a.stage[id] = "Dispatching" /\ CanMarkUnknown(a.rights, id)

AfterMarkAttemptUnknown(a, id) ==
  [a EXCEPT !.rights = AfterMarkUnknown(@, id), !.stage[id] = "Unknown"]

CanRecordOutcome(a, id, executed) ==
  /\ a.stage[id] \in {"Dispatching", "Unknown"}
  /\ CanReconcile(a.rights, id, executed)

AfterRecordOutcome(a, id, executed) ==
  [a EXCEPT !.rights = AfterReconcile(@, id, executed),
            !.stage[id] = IF executed THEN "Confirmed" ELSE "ConfirmedNotExecuted"]

CanMarkIrrecoverable(a, id) == a.stage[id] = "Unknown"

AfterMarkIrrecoverable(a, id) ==
  [a EXCEPT !.stage[id] = "IrrecoverablyUnknown"]

-----------------------------------------------------------------------------
(* Transactions over all attempts.                                         *)

UndispatchedIds(a) == {id \in Ids : a.stage[id] \in Undispatched}

\* Mutant of Permitted: the reservations of stopped attempts are forgotten.
PermittedNone(a, ids) == {}

\* Of the attempts to stop, those that hold a reservation.
Permitted(a, ids) == {id \in ids : a.stage[id] = "Authorized"}

\* Units that come back when the reservations of ids are aborted.
RefundOf(r, ids) == Cardinality({p \in UnitPairs(r, {"Reserved"}) : p[1] \in ids})

\* abort_before_dispatch for every attempt of ids that holds a reservation.
CanAbortAll(a, ids) ==
  /\ Conserves(a.rights)
  /\ \A id \in Permitted(a, ids) : StateOf(a.rights, id) = "Reserved"
  /\ a.rights.available + RefundOf(a.rights, Permitted(a, ids)) <= U64Max

AbortedAll(a, ids) ==
  LET stopped == Permitted(a, ids)
  IN  [a.rights EXCEPT
         !.available = @ + RefundOf(a.rights, stopped),
         !.reservations = [id \in Ids |->
            IF id \in stopped THEN [@[id] EXCEPT !.state = "Aborted"] ELSE @[id]]]

\* The stages after the attempts of ids are stopped.
StoppedAs(a, ids, terminal) ==
  [id \in Ids |-> IF id \in ids THEN terminal ELSE a.stage[id]]

\* The decisions after those of ids are set to d.
DecidedAs(a, ids, d) ==
  [id \in Ids |-> IF id \in ids THEN d ELSE a.decisions[id]]

\* Attempts whose time or policy epoch has run out (prepare_retirement).
Invalidated(a) ==
  {id \in UndispatchedIds(a) :
     \/ a.elapsed >= DeadlineOf[a.action[id]]
     \/ EpochOf[a.action[id]] < a.rights.epoch}

\* An attempt to retire holds its own reservation if it is authorized and none
\* otherwise; the code refuses the whole batch when that is not so.
Retirable(a, id) ==
  IF a.stage[id] = "Authorized"
    THEN a.rights.reservations[id] =
           [effect |-> a.action[id], epoch |-> EpochOf[a.action[id]], state |-> "Reserved"]
    ELSE StateOf(a.rights, id) = "Missing"

CanRetire(a) ==
  /\ a.elapsed # NoTick
  /\ Invalidated(a) # {}
  /\ \A id \in Invalidated(a) : Retirable(a, id)
  /\ CanAbortAll(a, Invalidated(a))
  /\ a.records < MaxDecisions
  /\ a.sequence < U64Max

AfterRetire(a) ==
  [a EXCEPT !.rights = AbortedAll(a, Invalidated(a)),
            !.stage = StoppedAs(a, Invalidated(a), "Cancelled"),
            !.decisions = DecidedAs(a, Invalidated(a), "Deny"),
            !.sequence = @ + 1,
            !.records = @ + 1]

-----------------------------------------------------------------------------
(* Reviews.  A review rv names its attempt, the control sequence it was    *)
(* formed at, its round, the recommendation of the helpers, whether there  *)
(* is an exact disqualifier or incomplete evidence, and the targets a      *)
(* narrowing retains.                                                      *)

Outcome(rv) == Decide(rv.empirical, rv.disqualifier, rv.incomplete)

RunLevel(c) == c \in {"NarrowAuthority", "SuspendRun"}

NextCeiling(a, rv) ==
  IF Outcome(rv) = "NarrowAuthority" THEN a.ceiling \cap rv.retained ELSE a.ceiling

\* Mutant of Cancels: a narrowing leaves reservations outside it alone.
CancelsUnreserved(a, rv) ==
  {id \in UndispatchedIds(a) :
     \/ Outcome(rv) = "SuspendRun"
     \/ /\ Outcome(rv) = "NarrowAuthority"
        /\ a.stage[id] # "Authorized"
        /\ TargetOf[a.action[id]] \notin NextCeiling(a, rv)}

\* The attempts a run-level consequence cancels.
Cancels(a, rv) ==
  {id \in UndispatchedIds(a) :
     \/ Outcome(rv) = "SuspendRun"
     \/ /\ Outcome(rv) = "NarrowAuthority"
        /\ TargetOf[a.action[id]] \notin NextCeiling(a, rv)}

\* The attempt under review is denied by an exact disqualifier, even under a
\* stronger consequence for the run.
Denies(a, rv) ==
  {id \in UndispatchedIds(a) :
     id = rv.attempt /\ (rv.disqualifier \/ Outcome(rv) = "Deny")}

\* Mutant of Predecessor: the control sequence of the review is not compared.
PredecessorAny(a, rv) == TRUE

\* The review was formed against the present control state.
Predecessor(a, rv) == rv.expected = a.sequence

CanApplyReview(a, rv) ==
  LET c == Outcome(rv)
      before == a.stage[rv.attempt]
  IN  /\ ~a.suspended
      /\ Predecessor(a, rv)
      /\ rv.round \notin a.rounds
      /\ a.records < MaxDecisions
      /\ before # "Absent"
      /\ before \in Undispatched \/ RunLevel(c)
      /\ c = "Continue" => before \in {"Reviewing", "Authorized"}
      /\ a.sequence < U64Max
      /\ CanAbortAll(a, Cancels(a, rv) \cup Denies(a, rv))

AfterApplyReview(a, rv) ==
  LET stops == Cancels(a, rv) \cup Denies(a, rv)
  IN  [a EXCEPT
         !.rights = AbortedAll(a, stops),
         !.stage = [id \in Ids |-> IF id \in Denies(a, rv) THEN "Denied"
                                   ELSE IF id \in stops THEN "Cancelled"
                                   ELSE @[id]],
         !.decisions = [DecidedAs(a, stops, "Deny") EXCEPT ![rv.attempt] = Outcome(rv)],
         !.sequence = @ + 1,
         !.ceiling = NextCeiling(a, rv),
         !.suspended = Outcome(rv) = "SuspendRun",
         !.rounds = @ \cup {rv.round},
         !.records = @ + 1]

-----------------------------------------------------------------------------
(* Revocations that stop every undispatched attempt.                       *)

\* Every undispatched attempt is cancelled, its reservation released and the
\* epoch advanced, in one transaction.
CanRevokeAll(a) ==
  /\ a.sequence < U64Max
  /\ CanRevokeEpoch(a.rights)
  /\ CanAbortAll(a, UndispatchedIds(a))

Revoked(a, decision) ==
  [a EXCEPT !.rights = AfterRevokeEpoch(AbortedAll(a, UndispatchedIds(a))),
            !.stage = StoppedAs(a, UndispatchedIds(a), "Cancelled"),
            !.decisions = DecidedAs(a, UndispatchedIds(a), decision),
            !.sequence = @ + 1]

\* replace_policy and replace_congress_weights: not blocked by a suspension,
\* which they do not lift.
AfterReplacePolicy(a) == Revoked(a, "None")

\* fence_authority: the admission stop of request_stop and of an incident, with
\* the epoch below which an endpoint may already have been fenced.
AfterFence(a, minimum) ==
  [Revoked(a, "None") EXCEPT
     !.rights.epoch = IF @ < minimum THEN minimum ELSE @,
     !.suspended = TRUE]

CanContain(a, round) ==
  /\ ~a.suspended
  /\ round \notin a.rounds
  /\ Cardinality(a.rounds) < MaxDecisions

\* Mutant of AfterNarrowCheckpoint: the retained targets replace the ceiling.
AfterNarrowCheckpointReplaced(a, round, retained) ==
  [Revoked(a, "Deny") EXCEPT !.ceiling = retained,
                             !.rounds = @ \cup {round}]

\* narrow_checkpoint
AfterNarrowCheckpoint(a, round, retained) ==
  [Revoked(a, "Deny") EXCEPT !.ceiling = @ \cap retained,
                             !.rounds = @ \cup {round}]

\* ContainmentAuthority::reset on the authority: the ledger's own reset, which
\* releases all reservations, counts the incident, and is followed by a
\* revocation.
CanResetRights(a) ==
  /\ a.sequence < U64Max
  /\ CanReset(a.rights, {})
  /\ CanRevokeEpoch(a.rights)

AfterResetRights(a, round, retained, threshold) ==
  LET rights == AfterRevokeEpoch(AfterReset(a.rights, {}))
  IN  [a EXCEPT !.rights = rights,
                !.stage = StoppedAs(a, UndispatchedIds(a), "Cancelled"),
                !.decisions = DecidedAs(a, UndispatchedIds(a), "Deny"),
                !.sequence = @ + 1,
                !.ceiling = @ \cap retained,
                !.suspended = rights.incident_count >= threshold,
                !.rounds = @ \cup {round}]

=============================================================================
