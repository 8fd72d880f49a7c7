------------------------- MODULE CongressAuthority --------------------------
(***************************************************************************)
(* action/congress.rs: an owner that lets no action through without its    *)
(* own congress.  It composes the action lifecycle (Authority) with one    *)
(* round per attempt (Round, CongressPolicy) and evaluates the round again *)
(* at dispatch.                                                            *)
(*                                                                         *)
(* The challenge a round is bound to frames the attempt, its action, the   *)
(* policy, the semantic epoch of the snapshot and the evidence bytes.  The *)
(* policy never changes, so the challenge here is the tuple of the rest.   *)
(* The snapshot is the world of the trusted caller: its epoch may move and *)
(* so may the evidence and the verdict of the exact validators.            *)
(***************************************************************************)
EXTENDS Authority, CongressPolicy

CONSTANTS
  Policies,     \* review policies a deployment may try to register
  Policy,       \* the one that was registered
  Evidence,     \* evidence a caller may present
  MaxWorld,     \* bound: the last semantic epoch of the snapshot
  OfferedVerdicts, \* bound: the verdicts members choose between
  CopiedVerdicts,  \* bound: the verdicts whose digests members copy from others
  NoReview      \* an attempt that was never proposed has no review

ASSUME CongressAuthorityAssumption ==
  /\ Policy \in Policies
  /\ Policy.members \subseteq Members
  /\ ReviewPolicyAccepted(Policy)
  /\ \A p \in Policies :
       /\ Weighted(p, p.members)
       /\ {p.min_permit_weight, p.max_hold_weight, p.min_permit_cohorts} \subseteq Nat
  /\ MaxWorld \in Nat
  /\ Roots = Ids \X Effects \X (0..MaxWorld) \X Evidence
  /\ RoundIds = Ids
  /\ OfferedVerdicts \subseteq Verdicts /\ CopiedVerdicts \subseteq Verdicts
  /\ NoReview \notin RoundValue

VARIABLES
  auth,      \* the ReferenceAuthority inside
  reviews,   \* reviews[id]: the transcript registered for the attempt
  world      \* the trusted facts: semantic epoch, evidence, exact validators

vars == <<auth, reviews, world>>

Challenge(id, e, w) == <<id, e, w.epoch, w.evidence>>

Init ==
  /\ auth = NewAuthority
  /\ reviews = [id \in Ids |-> NoReview]
  /\ world \in [epoch : {0}, evidence : Evidence, exact : {"Clear"}]

Authority(a) == auth' = a /\ UNCHANGED <<reviews, world>>

-----------------------------------------------------------------------------
(* Transitions of the authority alone.  The owner has no gate above it, so *)
(* ceiling and decisions of the value stay as they were created.           *)

ObserveTime(tick) ==
  /\ CanObserveTime(auth, tick)
  /\ Authority(AfterObserveTime(auth, tick))

Prepare(id) == CanPrepare(auth, id) /\ Authority(AfterPrepare(auth, id))

BeginReview(id) == CanBeginReview(auth, id) /\ Authority(AfterBeginReview(auth, id))

Stop(id, terminal) == CanStop(auth, id) /\ Authority(AfterStop(auth, id, terminal))

MarkUnknown(id) ==
  CanMarkAttemptUnknown(auth, id) /\ Authority(AfterMarkAttemptUnknown(auth, id))

RecordOutcome(id, executed) ==
  /\ CanRecordOutcome(auth, id, executed)
  /\ Authority(AfterRecordOutcome(auth, id, executed))

MarkIrrecoverable(id) ==
  CanMarkIrrecoverable(auth, id) /\ Authority(AfterMarkIrrecoverable(auth, id))

RevokeEpoch ==
  /\ CanRevokeEpoch(auth.rights)
  /\ Authority([auth EXCEPT !.rights = AfterRevokeEpoch(@)])

-----------------------------------------------------------------------------
(* Proposal and review.                                                    *)

\* The round with every member of the policy registered (CongressReview::new).
Empanelled(id, challenge) ==
  AfterAddMembers(NewRound(id, challenge), Policy.members)

\* Everything a reviewer will judge is frozen before the first commitment.
Propose(id, e) ==
  /\ Current(auth, e)
  /\ CanPropose(auth, id, e)
  /\ CanAddMembers(NewRound(id, Challenge(id, e, world)), Policy.members)
  /\ auth' = AfterPropose(auth, id, e)
  /\ reviews' = [reviews EXCEPT ![id] = Empanelled(id, Challenge(id, e, world))]
  /\ UNCHANGED world

Reviewing(id) == auth.stage[id] = "Reviewing"

Commit(id, m, digest) ==
  /\ Reviewing(id)
  /\ CanCommit(reviews[id], m)
  /\ reviews' = [reviews EXCEPT ![id] = AfterCommit(@, m, digest)]
  /\ UNCHANGED <<auth, world>>

OpenReveals(id) ==
  /\ Reviewing(id)
  /\ CanOpenReveals(reviews[id])
  /\ reviews' = [reviews EXCEPT ![id] = AfterOpenReveals(@)]
  /\ UNCHANGED <<auth, world>>

Reveal(id, m, verdict, salt) ==
  /\ Reviewing(id)
  /\ CanReveal(reviews[id], m, verdict, salt)
  /\ reviews' = [reviews EXCEPT ![id] = AfterReveal(@, m, verdict)]
  /\ UNCHANGED <<auth, world>>

\* Mutant of CheckReview: only the binding is compared.
CheckReviewBinding(id) == reviews[id].root = Challenge(id, auth.action[id], world)

\* Mutant of CheckReview: nothing is checked again at dispatch.
CheckReviewOnce(id) ==
  auth.stage[id] = "Reviewing" =>
    /\ reviews[id].root = Challenge(id, auth.action[id], world)
    /\ Evaluate(Policy, reviews[id], world.exact) = "Ready"

\* check_review: the review was of exactly this action and evidence, and it is
\* ready now.
CheckReview(id) ==
  /\ reviews[id].root = Challenge(id, auth.action[id], world)
  /\ Evaluate(Policy, reviews[id], world.exact) = "Ready"

\* ReferenceAuthority::authorize without a gate's decision.
Authorize(id) ==
  /\ Reviewing(id)
  /\ CheckReview(id)
  /\ Current(auth, auth.action[id])
  /\ CanReserve(auth.rights, id, auth.action[id])
  /\ Authority(AfterAuthorize(auth, id))

\* A failed check leaves the reservation held.
Dispatch(id) ==
  /\ auth.stage[id] = "Authorized"
  /\ CheckReview(id)
  /\ Current(auth, auth.action[id])
  /\ CanDispatch(auth.rights, id, auth.action[id])
  /\ Authority(AfterDispatchAttempt(auth, id))

\* The caller's world moves on between any two calls.
Change(w) ==
  /\ world' = w
  /\ w.epoch >= world.epoch
  /\ w # world
  /\ UNCHANGED <<auth, reviews>>

Worlds == [epoch : 0..MaxWorld, evidence : Evidence,
           exact : {"Clear", "Disqualified", "Unknown"}]

\* A digest is opaque, so a member may hand in any: its own for this attempt,
\* one made for another attempt, or one that it copied from another member.
OfferedBy(m) ==
  {d \in {Commitment(reviews[id], author, verdict, salt) :
            id \in {i \in Ids : reviews[i] # NoReview}, author \in Members,
            verdict \in OfferedVerdicts, salt \in Salts} :
     d.member = m \/ d.verdict \in CopiedVerdicts}

Next ==
  \/ \E tick \in 0..MaxTick : ObserveTime(tick)
  \/ \E id \in Ids, e \in Effects : Propose(id, e)
  \/ \E id \in Ids : Prepare(id)
  \/ \E id \in Ids : BeginReview(id)
  \/ \E id \in Ids, m \in Members : \E digest \in OfferedBy(m) : Commit(id, m, digest)
  \/ \E id \in Ids : OpenReveals(id)
  \/ \E id \in Ids, m \in Members, verdict \in Verdicts, salt \in Salts :
       Reveal(id, m, verdict, salt)
  \/ \E id \in Ids : Authorize(id)
  \/ \E id \in Ids : Dispatch(id)
  \/ \E id \in Ids, terminal \in {"Cancelled", "Denied"} : Stop(id, terminal)
  \/ \E id \in Ids : MarkUnknown(id)
  \/ \E id \in Ids, executed \in BOOLEAN : RecordOutcome(id, executed)
  \/ \E id \in Ids : MarkIrrecoverable(id)
  \/ RevokeEpoch
  \/ \E w \in Worlds : Change(w)

Spec == Init /\ [][Next]_vars

-----------------------------------------------------------------------------
(* What makes the owner correct.                                           *)

Reserved(id) == StateOf(auth.rights, id) = "Reserved"
Charged(id) == StateOf(auth.rights, id) \in {"Dispatched", "Unknown", "Committed"}

\* What a transcript says was decided independently and for this attempt: no
\* verdict is known while commitments can still be made, nobody joins after the
\* first commitment, and a verdict counts only as the one its member committed
\* to, for this round and this challenge.  A digest copied from another member,
\* or made for another attempt or other evidence, never becomes a verdict
\* (Round::commit, Round::open_reveals, Round::reveal).
Honest(r) ==
  /\ r.phase = "Commit" => \A m \in Members : r.outcome[m] = "Missing"
  /\ \A m \in Members :
       r.commitment[m] # NoDigest => m \in r.members /\ r.membership_frozen
  /\ \A m \in Members : r.outcome[m] # "Missing" =>
       \E salt \in Salts : r.commitment[m] = Commitment(r, m, r.outcome[m], salt)

TranscriptHonest == \A id \in Ids : reviews[id] # NoReview => Honest(reviews[id])

\* No units are held or spent for an attempt without a panel that, asked for
\* this attempt and this action, found it ready: members heard, none absent.
\* Nothing that happens after the authorization unmakes the finding.
ReservedOnlyWhenReady ==
  \A id \in Ids :
    (Reserved(id) \/ Charged(id)) =>
      /\ reviews[id].root[1] = id
      /\ reviews[id].root[2] = auth.action[id]
      /\ Evaluate(Policy, reviews[id], "Clear") = "Ready"

\* What every member of the panel committed itself to, in its own name and at a
\* time when no verdict was known, was the effect that leaves now, under the
\* evidence and the epoch of now, even if it was authorized long before.
JudgedAsIs(id) ==
  \A m \in Policy.members :
    /\ reviews[id].commitment[m].member = m
    /\ reviews[id].commitment[m].root = Challenge(id, auth.action[id], world)

DispatchedAsReviewed ==
  [][\A id \in Ids :
       (auth.stage[id] = "Authorized" /\ auth'.stage[id] = "Dispatching") =>
         world.exact = "Clear" /\ JudgedAsIs(id)]_vars

Accepted == {p \in Policies : ReviewPolicyAccepted(p)}

\* The answer of a panel under policy p, and if member m had allowed.
Ready(p, r) == Evaluate(p, r, "Clear") = "Ready"
HadAllowed(r, m) == [r EXCEPT !.outcome[m] = "Allow"]

\* Whatever a panel said, every policy that ReviewPolicy::new accepts for it is a
\* fair vote on it: no tally overflows; a panel that allows as one is ready, so
\* the thresholds can be met; a member that holds never makes it ready, because
\* it stays ready when a dissenter is taken to have allowed; and a ready review
\* rests on enough members and cohorts, none counted above its cap
\* (CongressReview::evaluate, reduce).
FairOn(p, r) ==
  LET allowing == {m \in p.members : r.outcome[m] = "Allow"}
      cohorts == {p.cohort[m] : m \in allowing}
  IN  /\ Evaluate(p, r, "Clear") # "Overflow"
      /\ allowing = p.members => Ready(p, r)
      /\ Ready(p, r) =>
           /\ \A m \in p.members : Ready(p, HadAllowed(r, m))
           /\ p.min_permit_weight <= p.caps.per_member * Cardinality(allowing)
           /\ p.min_permit_weight <= p.caps.per_cohort * Cardinality(cohorts)

AcceptedPolicyFair ==
  \A id \in Ids :
    (reviews[id] # NoReview /\ reviews[id].phase = "Reveal") =>
      \A p \in Accepted : p.members = reviews[id].members => FairOn(p, reviews[id])

=============================================================================
