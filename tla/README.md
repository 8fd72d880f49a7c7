# franken_alignment in TLA+

This directory models the part of franken_alignment that decides whether an
effect of an actor may happen, charges for it, keeps the record of it, and
delivers it. It holds TLA+ modules, TLC configurations for small instances and
TLAPS proofs. Every definition that models code names its source lines in
`PROJECT.json` (`map`). Paths below are relative to `src/crates/`.

## 1. The system

The repository is a Rust workspace with two crates that carry its logic, and
much documentation, evidence and tooling around them.

* `fa-reference` is a set of logical reference models: small owners of state
  with methods that either succeed or return an error and change nothing.
* `fa-journal` makes the transitions of two of them, the rights ledger and the
  andon ledger, durable in files.

The owners form a chain in which each wraps the one before:

    Rights  <-  ReferenceAuthority  <-  ConsequenceAuthority  <-
      ContainmentAuthority  <-  PolicyAuthority  <-  DeliveryBroker  <->  PublicationEndpoint

    Rights  <-  Journal  <-  FileJournal

    ReferenceAuthority + Round per attempt  <-  CongressAuthority
    AndonLedger  <-  FileAndonLedger  <-  imports
    PublicationEndpoint  <-  its file store
    DeliveryBroker + PublicationEndpoint + requests  <-  FileDelivery

All methods take `&mut self`, so one owner never races with itself. What is
concurrent is what outlives a call: reviews, permits, actor updates, envelopes,
receipts and fence acknowledgments are values that a host keeps, delays, repeats
or loses; broker and endpoint have clocks of their own; and processes compete
for a journal file on a machine that can lose power.

| Component | State | Operations | What makes it correct |
| --- | --- | --- | --- |
| Rights ledger, `fa-reference/src/logical_core.rs` | available and spent units, epoch, incident count, one reservation per identifier | reserve, dispatch, mark_unknown, abort_before_dispatch, reconcile, revoke_epoch, reset_to_checkpoint | no unit is created or lost; revoked reservations are never dispatched; a dispatched effect is a liability that only a reconciliation settles |
| Rights journal, `fa-journal/src/journal_core.rs`, `batch.rs`, `reserve.rs`, `replay.rs` | records, the ledger they rebuild, encoded length, limits and recovery reserve | append, append_batch, replay | what can be written can be read back; recovery events keep their reserve; groups behave as single appends |
| File adapter, `fa-journal/src/file.rs`, `file/**` | the file, what of it is synchronized, an owner and its poison flag, cooperative sessions | create, open, recover, commit, commit_batch, begin_commit_batch, history capture, inspect_batch, resume_batch | what is exposed or acknowledged is durable; retained heads are enforced; an uncertain group is resumed exactly once |
| Andon ledger, evaluated andon, `fa-reference/src/round/review.rs`, `fa-journal/src/file.rs`, `evaluated_andon.rs`, `evaluated_andon/native_sync.rs` | windows with an allowance of false stops, confirmations, incidents; the file, its owner and poison flag; import cursors | register_window, record_trusted, record_review; create, open, publish; imports | a false stop is charged once, to the window it occurred in; what is exposed is durable; an import restarted anywhere counts truly |
| Action lifecycle, `fa-reference/src/action.rs`, `action/retirement.rs` | attempts with stage and frozen action, clock, ledger | propose, prepare, begin_review, authorize, dispatch, cancel, deny, mark_unknown, outcomes, retirement | stage and reservation never disagree |
| Consequence gate, `action/consequence.rs`, `consequence/gate.rs` | latest decision per attempt, target ceiling, suspension, control sequence, used rounds | apply_review, retire_invalidated | stale reviews are refused; restrictions bind work admitted before them |
| Containment, `gate/containment.rs`, `containment/narrow.rs` | actor and its revision, checkpoints | capture, replace_actor_state, reset, narrow_checkpoint | containment only tightens; a rewind is never overwritten by an older update; no liability is rewound |
| Policy controller, `containment/session/policy/controller.rs`, `controller/**` | policy, weights, credibility evidence | propose, replace_policy, replace_congress_weights, credibility changes, fence_authority | a change of rules stops undispatched work, and nothing that is out |
| Delivery, `consequence/delivery.rs`, `delivery/endpoint.rs`, `endpoint/recovery.rs`, `delivery/stopping.rs`, `delivery/stream.rs`, `delivery/approval.rs` | dispatch records, dispatcher epoch and fence, stop request, confirmed prefix of a stream; at the endpoint version, fence, clock, terminal records | dispatch, accept_receipt, confirm_fence, restart_dispatcher, reconcile_pending, request_stop, progress_stop; deliver, status, seal_unexecuted, resolve_expired, install_fence | published is charged, refunded is never published, a confirmed fence holds, dispatched attempts are settled, stops drain |
| File-backed endpoint, `delivery/endpoint/filesystem.rs` | publication file and pending file, endpoint in memory, recovery key | every endpoint transition as an atomic replacement, reopen, read | memory agrees with what others may have read; receipts are durable and final; no observed time is forgotten |
| Persistent delivery, `delivery/persistent.rs`, `persistent/**` | journal file, broker, endpoint and request book replayed from it, fault, recovery reserve | transact, authorize, dispatch, commit_request_publication, reconcile_pending_at, stop_and_drain, cancel_and_resolve_request, open, open_stopped | acknowledged is kept; nothing in flight is sent again; there is always room to stop |
| Delivery gates: fleet, credential broker, publication, mediation and state gates, observed publication | registrations, tokens | admission checks around dispatch | not modelled |
| Commit-reveal round, `round.rs` | members, commitments, outcomes, phase | add_member, commit, open_reveals, reveal | a verdict was committed to before any verdict was known, for this round and challenge |
| Review policy, congress, reducer, credibility, `reducer.rs`, `round/review.rs`, `consequence/congress.rs`, `congress/credibility.rs` | weights, caps, thresholds; observations, labels, sealed scores, promoted policy | reduce, evaluate, evaluate_round; record_observations, record_label, seal, promote_credibility | accepted policies are fair votes; worse answers gain nothing; evidence ages; absence lends nobody weight |
| Congress-gated authority, `action/congress.rs` | lifecycle, one review per attempt | propose, commit, open_reveals, reveal, authorize, dispatch and the lifecycle's own | an effect leaves only as its own panel judged it, on the facts of the moment |
| Oversight sessions, standing oversight, governance assurance | sessions and reports around the controller | supervision steps | not modelled yet |
| Event journal, histories, witnesses, evidence views, frontiers, experiments, policy campaigns, activation, mediation, perimeter, tower, addresses, knowledge surface, observation algebra, JSON | mostly pure functions of supplied evidence | validation, replay, rendering | inputs of the authority, or out of scope (section 8) |

### What is hard here

The full list, with lines, is `hazards` in `PROJECT.json`. In short:

* A review, an actor update, a permit or a receipt is formed on one state and
  applied to a later one.
* Several transactions (apply_review, reset, narrow, replace_policy,
  fence_authority, retirement) work on copies of the ledger and must keep it in
  step with the stages.
* The answer of an endpoint may be lost while its effect happened; a late
  envelope races a seal, an expiry, a restart and a stop.
* A write may stop anywhere; what reached the disk is not known until recovery,
  and the caller may then retry a group, an import or a request that is half, or
  entirely, there. Three owners publish to files, by two protocols (append and
  sync; atomic replacement), and each has its own rule for what may be shown
  after a failure.
* A permit rests on a review of facts that change before it is used; digests may
  be copied, and verdicts come early, late or never.
* Weights go through caps, integer divisions and thresholds, and a tally is taken
  before everybody has answered.
* Limits (u64, record counts, recovery reserve, retention) are met in the middle
  of compound operations.
* Two things have to happen eventually: a dispatched attempt is settled, a stop
  drains.

## 2. Modules

    Rights                operations of the ledger on a value, no variables
      LedgerLemmas          what those operations keep, and sums over reservations
      RightsLedger          state machine of the ledger
        RightsProofs          theorems about RightsLedger
      Journal               records, limits, batches and replay on a value
        RightsJournal         in-memory journal
        AcknowledgedHistory   abstract promise of a durable journal
        FileJournal           file, locks, crashes; implements AcknowledgedHistory
          JournalProofs         theorems about RightsJournal and FileJournal
      Authority             lifecycle, gate and containment on a value
        ControlAuthority      state machine of the authority and its host
          Delivery              broker, endpoint and messages between them
            DeliveryProofs        theorems about ControlAuthority and Delivery
    Consequence           restrictions and how they join (used by Authority)
    Round                 one commit-reveal transcript as a value
    Reducer               capped tallies, a pure function
      CongressPolicy        review policy, congress policy, promotion
        Credibility           state machine of held-out evaluation and promotion
        CongressAuthority     Authority with one Round per attempt
          CongressProofs        theorems about the reducer, CongressAuthority and
                                Credibility
    Andon                 the andon ledger as a value
      AndonMachine          state machine of the ledger in memory
      FileAndon             its file and imports; implements AndonMachine
        AndonProofs           theorems about AndonMachine and FileAndon
    EndpointStore         the endpoint published to a file
      EndpointProofs        theorems about EndpointStore
    PersistentDelivery    broker, endpoint and requests in one journal file
      PersistentProofs      theorems about PersistentDelivery

The `MC*` modules give constants their values. `Rights`, `Journal`, `Authority`,
`Round`, `CongressPolicy` and `Andon` have no variables, so the compound operations of the outer owners
use the operations of the inner ones the way the code does: `CanX` is the
condition under which the code returns `Ok`, `AfterX` the state it then leaves.
A call that the code refuses changes nothing and is a stuttering step, unless
the refusal itself changes state (poisoning, quarantine, failed sessions), and
then it is an action.

### Rights, RightsLedger

One action per mutating method of `Rights`. An effect is an element of `Effects`
with its units; `Malformed` are those with an empty principal or target.
`U64Max` is where `checked_add` fails. Sums of units are cardinalities of sets of
(identifier, unit) pairs, which TLC evaluates and TLAPS reasons about with the
theorems on finite sets.

### Journal, RightsJournal

A record is its event, framing is the length it adds, and the length arithmetic
(13, 20, 21 bytes) is the code's. A head is the sequence it closes: the checksum
chain is assumed to separate histories, which the code claims for accidental
corruption only. `CanAppend`, `CanPush` and `CanReplayRecord` are three separate
translations of three places that must agree.

### FileJournal, AcknowledgedHistory

The file is its header, its whole records and a possible torn record; `synced`
is what a power loss cannot take back. A handle goes through the code's typestate
(`create`, `FileRecovery`, `FileJournal`, `FileBatchCommit`, capture, resume),
one action for each stage between I/O calls, so crash, power loss and I/O error
can come between any two. `fa-journal/README.md` says "Validation failures do not
write or change accounting. Once storage I/O starts, any error or unwind poisons
the writer", "A complete suffix is replayed, not silently dropped", and "A clean
prefix truncation cannot be detected without a sufficiently recent independent
recovery anchor"; the properties of section 3 say what these come to together.
The caller keeps a head and an unresolved group outside the journal, as the
documentation asks. `AcknowledgedHistory` is about any notion of an acceptable
history; `FileJournal` instantiates it with its own strict replay. Assumed of the platform: `sync_all` makes the file durable,
advisory locks exclude other handles and end with their process, and unsynced
data is lost from the end.

### Authority, ControlAuthority

An action is an element of `Effects` with target, policy epoch and deadline.
Snapshots in which the read witnesses hold, and trusted outcomes, are inputs.
`Owner` selects which owner is outermost, which decides what operations exist: the
plain gate (with retirement), containment, or the policy controller, which
proposes, prepares and begins the review in one call. Reviews and actor updates
are formed in one step and applied in another; the ghost field `seen` records
what they were formed on and is read by properties only.

### Delivery

The broker is `broker`, its controller is `ControlAuthority` with `Owner =
"policy"`, the endpoint is `endpoint`. Envelopes, queries and fence requests are
copies of what the broker holds or once held: delivering one late, again or
never is an endpoint step taken late, again or never. What the endpoint
answers is kept in `acks` and `receipts`, from which the broker may be handed any
element at any time. `ReconcilePending` and `ProgressStop` are one step each, as
in the code, where one call holds both objects; the loop over attempts is a bulk
update of all of them. An attempt has one dispatch record, so the comparisons of
action, approval and retention between receipt and record succeed. The optional
gates are not configured. `PassedOn` are the operations the broker hands to its
controller without looking at its own records; the constant `Interventions` says
which of them an instance includes.

### Round, Reducer, CongressPolicy

`Round` has one pair of operators per method. A digest is the tuple of its
fields: that the hash keeps tuples apart is assumed, as `round.rs` itself warns
that its hash is a reference only. `reduce` is the code's tally: clip each weight
by the member cap, scale a cohort that exceeds its cap by integer division, add
up with overflow (`MaxWord` stands for 2^64 - 1). `Evaluate` is the review of an
action, `EvaluateRound` the restriction of a run, which may be asked for while
members are still missing.

### Credibility

Observations come as one vector per case, labels in any order and from any
source; sealing freezes both, promotion turns them into weights. A stratum that
the code refuses as incomplete has weight 0. The state space is what may be reported,
labelled, sealed, promoted and used, at positions up to `MaxSequence`.

### CongressAuthority

The challenge of a round frames attempt, action, semantic epoch and evidence; the
policy is fixed when the owner is created. `world` is what the trusted caller
presents with each call, and changes between any two. `Round::commit` takes any
number, so members hand in any digest that some member could have computed
(`OfferedBy`): their own for this or another attempt, and those of other members.
`OfferedVerdicts` and `CopiedVerdicts` bound which verdicts the digests of their own
and the copied ones are about; the theorems hold for every choice of both.

### Andon, AndonMachine, FileAndon

Creation is five actions, one for each I/O call: the file, its lock, the header, the
sync of the file, the sync of its directory. It may end after any of them. `synced`
says what of the file is durable: its header, its first `count` records, and, apart
from these, its directory entry (`synced.entry`), without which a power loss takes the
whole file. `open` accepts any file with a whole header and does not synchronize the
directory, as in the code; section 3 says what follows.

One call that records is: validate, poison, append, sync, expose, with one action
for each stage between I/O calls. An exact retry is answered from memory. An
import borrows the ledger and makes one such call per record; a synchronization
with a native broker also names the ledger it must end with. `acked` is a history
variable: the longest history anyone was told of, of the file that is there.
`ImplementsLedger` maps it to the ledger of `AndonMachine` by replay, with one
exception, `FileTaken`: a power loss takes a file whose directory entry was never
synchronized. A file whose `create` returned is never such a file.

### EndpointStore

The process is single-threaded, so a transition and its I/O are one step with
the stage at which it failed as a parameter. A failure after the rename leaves the
new file visible and no receipt; a failure before it leaves the old one and a
pending file. The key survives the endpoint in its process and
refuses a file of another revision. `given`, `seen` and `restored` are history
variables.

### PersistentDelivery

Replay is deterministic, so a journal is represented by the machine it replays
to, its length and what its admission control has seen. A transaction of several
events is one replacement. Opening replays, fences and only then exposes an
owner; `mine` is a history variable with the attempts the present owner
dispatched. The broker and endpoint inside are reduced to what passes between
them, since `Delivery` has them in full.

## 3. Runs

All runs pass. `MaxTick`, `MaxPending`, `MaxAttempts`, `MaxDecisions`,
`U64Max` and the `Max…` limits of the journal are the bounds; some are limits the
code has itself, set small so that they are reached. `MaxTick` bounds clocks,
`MaxPending` bounds the values a host keeps, `Interventions` and `Approvals`
bound what happens around delivery. Deadlock checking is off throughout: every
owner may reach its limits and then refuse everything.

| Run | Instance | Properties | Shows |
| --- | --- | --- | --- |
| `rights_ledger` | 3 identifiers, effects of 1, 2 and 0 units and a malformed one, 3 units, `U64Max` = 3 = Total | Conservation, SettlementNeverOverflows, LiabilityPersists | every balance is at the overflow boundary, and no settlement is ever refused for it |
| `rights_journal` | 2 identifiers, 7 records, reserve of 2, groups that end in the reserve, on the last slot, or revoke what they reserved | ReplayReproduces, TailReserved, BatchEqualsAppends | append, grouped append and replay accept the same histories up to the limits |
| `file_journal` | 2 processes, 3 records, 2 groups, torn writes, power loss, rollback to an older copy | ExposedDurable, InterruptedResumable, RetainedCovered, AcknowledgedOnlyGrows, BatchExactlyOnce | what is exposed or acknowledged is durable and implements AcknowledgedHistory; retained heads are enforced and groups resumed exactly once, also after a rollback |
| `control_authority` | 2 attempts at 2 targets that do not both fit the budget, 2 rounds, gate as owner | StagesMatchLedger, RestrictionsBind, ReviewsAreFresh | expiry, revocation, retirement and delayed reviews keep both records of an attempt together |
| `delivery` | 2 attempts at a stream of two actions, the second of them its end, and a third action written on a forked prefix; cancellation | ExecutedStaysCharged, RecordsMatchStages, PublishedInStep, FenceHolds | no order of envelopes, seals, receipts, restarts and stops separates charge from effect, or audience from confirmed prefix by more than the pending action |
| `delivery_interventions` | 1 attempt, policy changes, credibility changes, identity fences and containment, 1 checkpoint, 2 actor states, incident threshold 2 | ExecutedStaysCharged, NeverLoosened, RewindNotOverwritten | what happens in the controller does not touch what is out, and only tightens |
| `delivery_live` | 1 attempt, perhaps with a second key, revocations, retention 2, `LiveSpec` | DispatchedSettles, StopDrains | sweeps settle every dispatched attempt; stops drain before deadlines |
| `credibility` | 2 helpers in one cohort above its cap, 3 cases (2 violations), labels that are censored or from a wrong source | NoGainFromWorse, EvidenceFresh, PromotedNeverRelaxes | a weight is an honest measure for every evidence that can be sealed |
| `congress_authority` | 2 attempts at one action, 2 members in 2 cohorts, copied permissions, 2 semantic epochs, 5 policies | TranscriptHonest, ReservedOnlyWhenReady, AcceptedPolicyFair, DispatchedAsReviewed | the panel that let an effect leave judged that effect, on those facts, independently |
| `file_andon` | 2 interchangeable processes, creations that end anywhere, 3 records, adjoining and overlapping windows, conflicting reports, 4 imports, reviews and their near misses | ExposedIsDurable, IntactReopens, ImportCountsTrue, ImplementsLedger | the file behaves as one ledger in memory across crashes, owners and interrupted imports |
| `endpoint_store` | 2 attempts at one version, 3 ticks, 2 fences, 5 mutations, failure at each of the I/O stages | MemoryIsVisible, ReceiptsKept, ClockNeverForgotten | no failure makes the endpoint contradict a receipt, a reader or a clock |
| `persistent_delivery` | 1 attempt and request, 8 events with a reserve of 3, 1 reopening, failure at each I/O result | AcknowledgedKept, NeverResent, TerminalSpaceKept | crashes and ambiguous writes neither lose an answer nor repeat an effect, and a stop always fits |

Why the bounds are enough. The ledger treats identifiers alike, and its
interactions are between an operation on one reservation and the sums over the
others: three give one operated on, one held and one settled, with sums at the
limit. In the journal the interesting positions are the last ordinary slot, the
reserve, and the last slot; seven records with a reserve of two contain
all of them with full lifecycles before. The file protocol is about one group
being interrupted and another history in its place; three records hold an
anchor and a group, or a fork of the same length, and two processes are one that
waits and one that acts. Two attempts are one that is changed and one that must not
be, or two that compete for a version. Two rounds and a clock of two ticks
let a review be overtaken by another and an attempt expire.
Two members are one that dissents and one that does not, and in one cohort above
its cap they compete for its share; `MaxWord` = 7 keeps every accepted tally
below the word and lets its scaling round. Three cases give a hit, a miss and a
false alarm at once. Five mutations of an endpoint are its attachment, a clock, a
fence and two decisions, so the limit is met with one decision to come. Eight
events are a whole request from registration to receipt with the reserve still to
come, and the reopening finds whatever its owner left. Symmetry is used on
identifiers, rounds and the processes of the andon file, in safety runs only.

What some instances do not reach, and where it is covered. With `MaxTick` = 1 no
action of `delivery` expires; in `delivery_interventions` and `control_authority` they
do. The clock of `congress_authority` stands still, so no attempt expires there; its
theorems hold for every clock, and what expiry does to an attempt is the action
lifecycle's, in `control_authority`. `MaxPending` = 1 lets a review become stale in
`control_authority` by a retirement only; two reviews that race are covered by
`GateReviewsAreFresh` and `DeliveryReviewsAreFresh`. With the reserve installed the
five ordinary events of `persistent_delivery` do not contain a dispatched attempt;
`PersistentTerminalSpaceKept` covers it for every number of events.

One thing the andon file does not keep. Above `FileAndonLedger`, `file.rs` says
"sync-before-acknowledgment publication. Keep each returned head independently of this
file [...] reopen with the last acknowledged head". `create` synchronizes the file and
then its directory (`fa-journal/src/file.rs:281-282`). A creation that dies between
the header and the directory sync leaves a file that `open` accepts, and `open`
synchronizes only the file (`file.rs:369`). TLC reaches: create, lock, header, the
creator dies, open, append, acknowledge, the caller keeps the head, power loss, no
file. `ImplementsLedger` states this as its exception `FileTaken`, without which
`file_andon` is violated by that trace; with it, the run and the theorem show that
nothing else goes back. A file whose creation did not return is therefore better not
used. `FileJournal` has no such case: its recovery synchronizes the directory too
(`file/recovery.rs:143-146`).

Each property of each run has a mutant in `PROJECT.json`: a definition that is
changed as a plausible bug would change it, kept beside the original, under which
TLC finds that property violated.

## 4. Fairness

Safety runs assume none. `LiveSpec` assumes weak fairness of: the host calling
reconcile_pending; a supervisor calling progress_stop once a stop was requested;
the fence request of the present epoch reaching the endpoint; its
acknowledgment reaching the broker; the endpoint's clock being observed, and
after a stop only until it was observed once. The broker never retries by
itself: `recovery.rs` calls a sweep "one bounded sweep of retained in-flight
obligations, never a resend", and leaves repeating it to the host. Without these
the attempt remains Unknown and charged, as that comment also says ("stay charged
and Unknown"). Restarts are not restricted by fairness but are finite, because the
dispatcher epoch is bounded (`U64Max` stands for 2^64 - 1). Receipts need no
fairness: a sweep obtains the answer within the call.

Both properties except two cases, which the code provides for: an
attempt that was given up with abandon_unknown, and one whose retention ran
out at the endpoint, after which no answer about it is trusted. In
`delivery_live` retention outlasts the clock, so the second exception does not
occur and settlement itself is shown.

## 5. Proofs

Eight modules hold proofs. Each theorem is about one state machine and holds for
every value of its constants under the named assumptions of the modules it
extends. The modules are laid out alike: lemmas about the operators, the inductive
invariant as named parts, one lemma per action that the action keeps it, and
the theorems. Before it was proved, each inductive invariant was checked by TLC on
the instance of the component's run.

Replay (of both files) and grouped append are recursive functions of a position. What they compute
is proved by ordinary induction over sets of naturals (`NatInduct`, from
well-foundedness of `<` on Nat), after a lemma has established that the recursive
definition has a value at each position (`StepwiseExists`, `StepwiseAgree`). Sums
over members are treated the same way, by induction over the subsets of a finite set
(`SetInduct`, from `NatInduct` on their cardinality).

### RightsProofs

For every finite set of identifiers, every set of effects, every budget and every
`U64Max`:

* `TypeCorrect`: `Spec => []TypeOK`.
* `ConservationHolds`: `Spec => []Conservation`.
* `SettlementHolds`: `Spec => []SettlementNeverOverflows`.
* `StaleHolds`: `Spec => StaleNeverDispatched`.
* `LiabilityHolds`: `Spec => LiabilityPersists`.

`TypeOK` and `StaleNeverDispatched` are stated in `RightsLedger` and proved here;
no run repeats them.

The assumptions are those of `RightsAssumption`: finitely many identifiers, a
budget and units that fit u64, and a value that marks the absence of an effect.

The inductive invariant is `TypeOK /\ Conservation`. `TypeOK` is inductive alone:
the guards of the code bound every addition, and a subtraction is guarded by the
budget. `Conservation` needs it. It has two conjuncts, and the
second (spent equals the units of committed effects) is stated with the first
because a reconciliation moves units between held and spent. Its steps
rest on lemmas about sums, kept in `LedgerLemmas` because the proofs of the
authority and of delivery use them too: a reservation that enters or leaves a set of states
adds or removes a block of exactly its units (`EnterStates`, `LeaveStates`), a
reservation that does neither leaves the sum alone (`SameStates`), and a reset
moves exactly its refund (`ResetMovesRefund`). `SettlementNeverOverflows` then
follows without further induction: the units of a held reservation are part
of the held sum (`BlockBound`, `RefundBound`), which together with both balances
is the budget. The two action properties follow from `StepEdges`, which says
along which edges one step can move a reservation.

### CongressProofs

For any attempts, effects, panel, salts, evidence and registered policy:

* `TranscriptsAreHonest`: `Spec => []TranscriptHonest`, whatever digests, of whichever
  members, are committed.
* `ReservedIsReady`: `Spec => []ReservedOnlyWhenReady`.
* `DispatchedAsReviewedHolds`: `Spec => DispatchedAsReviewed`.

The inductive invariant (`InvHolds`) adds three conjuncts to the two properties:
types; every existing attempt has its action and a transcript (`Paired`); and an
attempt that was never authorized has no reservation (`EarlyUnreserved`). The last
is what excludes that a transcript still changes under units in use: reveals are
only taken while Reviewing. The calls that leave transcripts alone are treated
together, by `CallsAreLifecycle`, as steps in which units come into use only where
`CheckReview` has just succeeded. `Commit`, `OpenReveals` and `Reveal` each keep
`Honest` by a lemma of their own. `DispatchedAsReviewed` then follows from the
re-check at dispatch: ready means that every member revealed, and what an honest
transcript reveals was committed to for this challenge, which is the world's.
The tally stays opaque in these three proofs: nothing in them depends on how weights
are counted. The assumptions are those of the extended modules, among them that a
digest determines its fields (`Digests` are records) and that the policy was
accepted and is of known members.

`EvidenceStaysFresh`, `CredibilitySpec => []EvidenceFresh`, is about `Credibility`: for
any manifest, reports, labels and requirements no round is evaluated under
promoted weights before their evidence was sealed or after the oldest of it
expired. Its invariant `AgeInv` ties the promotion to the seal it was made from.

The other three theorems are about how weights are counted, for any number of members,
cohorts, cases and strata and any weights, caps and thresholds:

* `AcceptedPoliciesAreFair`: `Spec => []AcceptedPolicyFair`.
* `NothingGainedFromWorse`: `CredibilitySpec => []NoGainFromWorse`.
* `PromotedStaysRestricted`: `CredibilitySpec => []PromotedNeverRelaxes`.

*Sums.* `SumOver` takes the members of a set one by one in an order nobody chose.
`AdditiveExists` shows that a function adding up the values over all subsets exists,
`SumIsAdditive` that the fold computes it. From there sums split over disjoint sets
(`SumUnion`), grow with the set and with the values (`SumGrows`, `SumCompares`,
`SumScales`) and are bounded member by member and group by group (`SumBound`,
`SumByGroup`).

*The tally.* With one vote per member `reduce` refuses nothing before it counts
(`VotesListed`, `ReduceCounts`). The share of a member of a cohort above its cap is
rounded down, so that shares scaled by the cohort's sum stay below weights scaled by
the cap: no member and no cohort counts for more than its cap (`AdmittedFacts`).
Rounding up breaks exactly this, which is the mutant of the property.

*Fair votes.* What a member counts for does not depend on what it says. The tally that
`ReviewPolicy::new` makes, in which everyone permits, therefore bounds both sums of
every other tally: none can overflow, and a panel that allows as one is ready. One more
permission only moves a share from one sum to the other (`AllowedMore`), and the bounds
per member and per cohort give the number of both that a ready review rests on
(`ReadyRests`).

*Worse answers.* `Worse` compares the counts of a stratum: same labels and absences,
no more hits, hits in time or lead, no fewer false alarms. `RetoldWorse` shows it of the
counts after the changed answer, stratum by stratum; the earliest alarm of the others,
from which a lead is counted, is not touched by it. `WorseWeighsLess` follows the code
through every division: precision is compared by cross-multiplication (`DivGrows`,
`PrecisionFalls`), recall and average lead by their common divisor. The average lead
divides by all violations; with the hits as divisor the comparison fails, which is the
mutant.

*Promoted weights.* `MeasureInv`: what was sealed is well typed, and a promotion stores
weights that `promote_credibility` accepted and capped. Such weights stay under both
caps in every part of the panel (`CappedStay`), so a member that holds counts for
the same whoever else has answered, and the weight against continuing only grows
(`PromotedTally`). All members together fit the word, because promotion counted them
once: no round under promoted weights is refused for overflow. TLC checked `MeasureInv`
on the instance of the run with its weights bounded by the largest there.

The assumptions behind these are that panels and manifests are finite and that
weights, caps and limits are natural numbers, as unsigned words are; that a manifest has
a case, which `CredibilityLedger::new` demands; and that a base weight, and a
saturation where there is a bonus, are positive, which
`CredibilityRequirements::validate` demands.

### AndonProofs

About `AndonMachine`, for any windows, budgets, rounds and confirmations:

* `WindowsStayDisjoint`: `Spec => []WindowsDisjoint`.
* `AccountsStayExact`: `Spec => []AccountsExact`.
* `NothingRefunded`: `Spec => NeverRefunded`.

The inductive invariant is type, disjointness and exactness together: a new
window may be registered after stops were charged, and only because windows are
disjoint does it cover none of those (`RegisterKeeps`), and a confirmed stop
belongs to the account of exactly one window (`OneWindow`, `RecordKeeps`).

About `FileAndon`, for any processes, batches, reviews and record limit:

* `ExposedStaysDurable`: `FileAndonSpec => []ExposedIsDurable`.
* `IntactAlwaysReopens`: `FileAndonSpec => []IntactReopens`.
* `ImportsCountTrue`: `FileAndonSpec => []ImportCountsTrue`.
* `FileImplementsLedger`: `FileAndonSpec => ImplementsLedger`, the refinement of
  `AndonMachine`, which carries the three theorems above to what the file has
  acknowledged, from its creation until it is taken: `FileTaken`, possible only while
  its directory entry was never synchronized.

`FileAndonInv` (`FileAndonInvariant`) has these parts. `FileOk`: the file replays at
every moment, also after a power loss cut it, because every beginning of a history
that replays does (`ReplayableBegins`), and no record precedes the synchronized
header, so that a power loss which cuts the header cuts no record from under it.
`AckedOk`: what was acknowledged is in the synchronized part, and the file is at most
one record longer; that record is the one whose call never returned, and without this
conjunct opening could expose several records in one step and the refinement would
fail. At most one process has the file, as creator or owner. `HandleOk`: a creator's
file is empty; the owner has the acknowledged history and its replay, and for each
step of a publication the file is that history or has the pending record after it.
`CursorOk`: an import has reached the ledger its preflight reached on a copy, so that
its next record is accepted or known, and one that is known is in the history
(`RetryRecorded`: replay knows only windows and confirmations that were recorded). The
refinement is step by step: what is acknowledged stays, is taken with its file, or
grows by one record that the ledger accepts (`AckedMoves`), and such a record is one
call of the ledger (`AppendIsCall`).

### JournalProofs

About `RightsJournal`, for any events, groups, limits and reserve:

* `JournalReplayReproduces`: `Spec => []ReplayReproduces`.
* `JournalTailReserved`: `Spec => []TailReserved`.
* `JournalBatchEqualsAppends`: `Spec => []BatchEqualsAppends`.

The inductive invariant (`JournalInvariant`) is that the journal is what strict
replay of its own records accepts and rebuilds. It is kept because `CanAppend` and
`CanPush`, which bound a group ahead of time, imply `CanReplayRecord` at each record
they let in (`AcceptedReplays`, `GroupPushes`); the converse, that the cheap
admission of a group refuses nothing that single appends would take, is
`JournalBatchEqualsAppends`.

About `FileJournal`, for any processes, groups and limits:

* `FileExposedDurable`: `FileSpec => []ExposedDurable`.
* `FileRetainedCovered`: `FileSpec => []RetainedCovered`.
* `FileInterruptedResumable`: `FileSpec => []InterruptedResumable`.
* `FileBatchExactlyOnce`: `FileSpec => BatchExactlyOnce`.
* `FileAcknowledgedOnlyGrows`: `FileSpec => AcknowledgedOnlyGrows`, the refinement of
  `AcknowledgedHistory`.

`FileInv` says, for every mode of a handle, what its owner may assume of the file:
a replaying handle holds a prefix of it (`Replaying`); an unpoisoned open one holds
exactly what is synchronized (`Exactly`); a preparing one has validated the first
events of its group and written none; a writing one has put a prefix of its group,
perhaps torn, after its own records (`Writing`). These hold of one handle at a time
because of `Exclusive`, which is why the lock is part of the invariant. `DiskOk`
says that the file replays at every moment, `AckedOk` that what was acknowledged is
a synchronized part of it until the file is replaced by an older copy. A caller that
retains a head has seen a synchronized header: without this conjunct a creation after
a power loss would seem able to hand an empty journal to a caller with a head.
`RestPrepares` is the argument behind resumption: budget and limits were checked for
the whole group before its first byte, so what remains of it, from any point on,
passes validation again.

### DeliveryProofs

About `ControlAuthority` as a plain gate, for any attempts, effects, targets,
budgets and rounds:

* `GateStagesMatchLedger`: `Spec => []StagesMatchLedger`.
* `GateRestrictionsBind`: `Spec => []RestrictionsBind`.
* `GateNeverLoosened`: `Spec => NeverLoosened`.
* `GateReviewsAreFresh`: `Spec => ReviewsAreFresh`.

The inductive invariant `ControlInv` has three parts. `Sound`: types, conservation,
and for each attempt the stage, the frozen action and the reservation in step
(`Books`); conservation is part of it because the abort of an attempt is refused, and
stage and ledger would separate, if a sum could overflow. `Bound`: nothing that was
not dispatched is outside the ceiling. `ReviewFresh`: a pending review whose sequence
number is current was formed on the current control state, which needs that each
change of that state also moves the number (`Marks`). Compound operations (reset,
narrow, replace_policy, fence_authority, retirement, apply_review) are shown to keep
`Sound` as a whole, over the set of all attempts they stop, with `ShiftKeepsBooks` and
the sums over sets of reservations of `LedgerLemmas` (`LeaveTogether`).

About `Delivery`, for any attempts, clocks, retention, streams and interventions:

* `DeliveryStaysCharged`: `DeliverySpec => []ExecutedStaysCharged`.
* `DeliveryRecordsMatch`: `DeliverySpec => []RecordsMatchStages`.
* `DeliveryPublishedInStep`: `DeliverySpec => []PublishedInStep`.
* `DeliveryFenceHolds`: `DeliverySpec => FenceHolds`.
* `DeliveryNeverLoosened`, `DeliveryRewindKept`, `DeliveryReviewsAreFresh`: the action
  properties `NeverLoosened`, `RewindNotOverwritten` and `ReviewsAreFresh`.

`DeliveryInv` adds to `ControlInv`: broker record, stage and terminal record of each
attempt agree (`Agree`); the publications are those of executed attempts, each at the
version it was written for (`InStep`); in a stream only the pending attempt is open
and the endpoint is at most that attempt ahead (`Streamed`); every receipt is a copy
of a terminal record (`Receipted`), which is why it may be accepted late or twice;
and acknowledged fences are not ahead of the endpoint, nor the endpoint of the broker
(`Fenced`). Operations that the broker hands to its controller are shown to move no
attempt that is out (`Quiet`), so they keep all of this together.

### PersistentProofs

For any attempts, requests, limits and reopenings:

* `PersistentAcknowledgedKept`: `Spec => []AcknowledgedKept`.
* `PersistentNeverResent`: `Spec => NeverResent`.
* `PersistentTerminalSpaceKept`: `Spec => []TerminalSpaceKept`.

`PersistentInv`: each journal in sight (file, power-loss copy, acknowledged, owner's)
is one a recovery could start from (`Sound`: endpoint answers only for what was
dispatched, broker settles only what it was answered, reserve untouched by ordinary
events); the file is ahead of its durable copy and both of what was acknowledged
(`Ahead`); an owner that may write agrees with all of them and holds envelopes only of
attempts it dispatched itself (`InStep`). The last is why opening fences before it
exposes an owner.

### EndpointProofs

For any attempts, fences, clocks and limits:

* `EndpointMemoryIsVisible`: `Spec => []MemoryIsVisible`.
* `EndpointReceiptsKept`: `Spec => []ReceiptsKept`.
* `EndpointClockKept`: `Spec => []ClockNeverForgotten`.

`EndpointInv`: an open endpoint is the replay of the visible file (`OpenAgrees`); the
file, as long as nobody put an older one back, is one its key accepts and holds every
receipt both in full and in what is synchronized of it (`FileAgrees`); a file that was
put back stays behind the key (`RestoredRefused`). Receipts survive a cut at
the synchronized length because a terminal record never changes (`AfterFacts`).

## 6. What is only model-checked

* `DispatchedSettles` and `StopDrains`: liveness under fairness is out of the
  prover's reach.

Every other property of a run is stated by a theorem.

### An observation on unpromoted weights

A congress policy whose members' weights exceed the cap of their cohort scales
them by the sum over the members that answered. `evaluate_round` may be called
while members are missing, and a hold then counts for more than it does once the
rest of the cohort has revealed: a restriction of the run that a partial
transcript supports may be weaker when the transcript is complete. The decision
to continue is not affected, since absence holds the effect. The comment at
`consequence/congress.rs:455` says why promotion stores capped weights, and
`PromotedNeverRelaxes` shows that they do not have this effect; its mutant, which
stores uncapped ones, does.

## 7. Assumptions about the environment

* Checksums separate histories; the file system honours sync and locks.
* Callers keep heads and groups where a crash does not reach them.
* Evidence, snapshots, recommendations and outcomes are what they claim; the
  system decides on them, it does not establish them.
* Identity checks (issuer, scope, evidence root, endpoint brand) succeed;
  values of another instance are refused by the code without effect.
* Receipts come from the endpoint only: the code gives them a process-local brand
  which, as it says, "is not a signature or a wire authentication scheme".

## 8. Not modelled

* Bytes: framing, canonical and strict JSON, stream frames, hashes, and limits in
  bytes where a limit on a count refuses at the same place.
* Read and write budgets of cooperative sessions in the file adapter, and the
  cooperative form of batch inspection and resumption.
* The optional gates of the broker (fleet, credential, publication, mediation,
  state) and observed publication; policy updates and credibility events inside
  the persistent owner.
* Policy evaluation by the controller and replay of reviews: inputs of reviews
  and proposals. Exact disqualifying votes enter a tally as its disqualifier.
* Oversight sessions, which drive the controller and the broker through the
  operations modelled here.
* Offline replay, experiments, campaigns, activation, mediation cuts, frontiers,
  observation algebra, knowledge surface, standing oversight, reports, and the
  repository's own checks under `xtask`: functions of finished inputs, without
  shared state or ordering. They are most of the repository's lines, which is why
  the map covers a small share of it: the models are of the owners of state, not
  of the functions that evaluate, render or audit what they did.
* Type-level guarantees of the Rust compiler (sealed permits, non-Clone values).
  The model gives an attempt one permit because the type cannot be copied.

## 9. Plan

Done, in this order: the ledger with its theorems, the journal, the file adapter,
the authority, delivery with the in-memory endpoint, the round with congress,
reducer and credibility, the congress-gated authority with its theorems, the andon
ledger with its file, imports and theorems, the file-backed endpoint, persistent
delivery; then the theorems about the authority and delivery, persistent delivery,
the file-backed endpoint, the age of credibility evidence, both journals, the
andon file, and capped tallies with the fairness, credibility and promotion they decide.

Next modules:

1. The delivery gates (state, mediation, fleet, credential and publication), as
   further guards and stale-able tokens around `BrokerDispatch`.
2. Oversight sessions over the controller and the broker.
3. The cooperative inspection and resumption as further modes of `FileJournal`.

Next theorems: those of the modules above; the lemmas on sums, tallies and replay are
stated without reference to the machines that use them.

## 10. Running

    tlc -workers 2 -config MCRightsLedger.cfg MCRightsLedger
    tlapm RightsProofs.tla

The module of each configuration is in `PROJECT.json` (`runs`). Every run takes
less than three minutes with two workers. The modules with proofs are
`LedgerLemmas`, `RightsProofs`, `DeliveryProofs`, `PersistentProofs`,
`EndpointProofs`, `CongressProofs`, `AndonProofs` and `JournalProofs`; the longest,
`JournalProofs`, `DeliveryProofs`, `AndonProofs` and `CongressProofs`, take several
minutes each from nothing.
