---------------------------- MODULE CongressPolicy --------------------------
(***************************************************************************)
(* How a transcript becomes a decision.  round/review.rs decides whether a *)
(* review is ready; consequence/congress.rs turns a transcript, complete   *)
(* or not, into a restriction, and promotes weights derived from held-out  *)
(* evaluations into a new generation of the policy.                        *)
(*                                                                         *)
(* A policy names its members and gives each a cohort and a weight.        *)
(***************************************************************************)
EXTENDS Round, Reducer, Consequence, SequencesExt

\* Weights and caps of a policy for members S are unsigned words.
Weighted(p, S) ==
  /\ \A m \in S : p.weight[m] \in Nat
  /\ p.caps.per_member \in Nat
  /\ p.caps.per_cohort \in Nat

\* An accepted contribution to a tally, one vote per member of a set.
VotesOf(members, cohort, recommendation) ==
  SetToSeq({[lane |-> "Empirical", member |-> m, cohort |-> cohort[m],
             recommendation |-> recommendation[m]] : m \in members})

Recommendation(verdict) == IF verdict = "Allow" THEN "Permit" ELSE "Hold"

\* The tally of what a set of members of policy p said.
TallyOf(p, members, verdicts, disqualifier) ==
  reduce(VotesOf(members, p.cohort, [m \in members |-> Recommendation(verdicts[m])]),
         [m \in members |-> p.weight[m]], p.caps, disqualifier)

AllAllow == [m \in Members |-> "Allow"]

Positive(f) == {x \in DOMAIN f : f[x] > 0}

-----------------------------------------------------------------------------
(* ReviewPolicy and CongressReview.                                        *)

\* ReviewPolicy::new: some transcript reaches the thresholds, under both caps
\* and without overflow.
ReviewPolicyAccepted(p) ==
  /\ p.members # {}
  /\ Cardinality(p.members) <= MaxVotes
  /\ 0 \notin {p.caps.per_member, p.caps.per_cohort,
               p.min_permit_weight, p.min_permit_cohorts}
  /\ \E t \in {TallyOf(p, p.members, AllAllow, FALSE)} :
        /\ t.error = "None"
        /\ p.min_permit_weight <= t.permit_weight
        /\ p.min_permit_cohorts <= Cardinality(Positive(t.admitted_cohort_weights))

\* The answer to a complete, substantive transcript.
ReviewDecision(p, verdicts) ==
  LET t == TallyOf(p, p.members, verdicts, FALSE)
      permitting == {p.cohort[m] : m \in {n \in p.members :
                       verdicts[n] = "Allow" /\ t.admitted_weights[n] > 0}}
  IN  IF t.error # "None" THEN t.error
      ELSE IF t.permit_weight < p.min_permit_weight THEN "InsufficientPermitWeight"
      ELSE IF t.hold_weight > p.max_hold_weight THEN "ExcessHoldWeight"
      ELSE IF Cardinality(permitting) < p.min_permit_cohorts
        THEN "InsufficientPermitCohorts"
        ELSE "Ready"

\* The holds of a complete, substantive transcript.
EmpiricalHolds ==
  {"InsufficientPermitWeight", "ExcessHoldWeight", "InsufficientPermitCohorts"}

\* CongressReview::evaluate, of a round whose members are the policy's.
Evaluate(p, r, exact) ==
  IF exact = "Disqualified" THEN "Disqualified"
  ELSE IF exact = "Unknown" THEN "ExactEvidenceUnknown"
  ELSE IF r.phase # "Reveal" THEN "IndependentPhaseOpen"
  ELSE IF \E m \in p.members : r.outcome[m] = "Missing" THEN "MissingReveals"
  ELSE IF \E m \in p.members : r.outcome[m] = "Abstain" THEN "Abstentions"
  ELSE ReviewDecision(p, r.outcome)

-----------------------------------------------------------------------------
(* CongressPolicy.                                                         *)

\* CongressPolicy::validate
CongressPolicyValid(p) ==
  /\ p.members # {}
  /\ Cardinality(p.members) <= MaxVotes
  /\ 0 \notin {p.generation, p.caps.per_member, p.caps.per_cohort,
               p.continue_minimum, p.minimum_members, p.minimum_cohorts}
  /\ p.continue_hold_maximum < p.narrow_at
  /\ p.narrow_at < p.suspend_at
  /\ p.minimum_members <= Cardinality(p.members)
  /\ p.minimum_cohorts <= p.minimum_members
  /\ \A m \in p.members : p.weight[m] > 0

\* The restriction a tally t of policy p recommends.
Empirical(p, t) ==
  IF t.hold_weight >= p.suspend_at THEN "SuspendRun"
  ELSE IF t.hold_weight >= p.narrow_at THEN "NarrowAuthority"
  ELSE IF /\ t.permit_weight >= p.continue_minimum
          /\ t.hold_weight <= p.continue_hold_maximum
          /\ Cardinality(Positive(t.admitted_weights)) >= p.minimum_members
          /\ Cardinality(Positive(t.admitted_cohort_weights)) >= p.minimum_cohorts
    THEN "Continue" ELSE "HoldEffect"

\* The members that a decision to continue must wait for.
Absent(r) == {m \in r.members : r.outcome[m] \in {"Missing", "Abstain"}}

\* evaluate_round, then RoundEvaluation::decision: a transcript is tallied over
\* the members that answered, and absence holds the effect.
EvaluateRound(r, p, disqualifier, contradiction) ==
  LET answered == {m \in r.members : r.outcome[m] \notin {"Missing", "Abstain"}}
      t == TallyOf(p, answered, r.outcome, disqualifier)
  IN  IF r.phase # "Reveal" THEN "WrongState"
      ELSE IF ~CongressPolicyValid(p) THEN "InvalidInput"
      ELSE IF r.members # p.members THEN "Binding"
      ELSE IF t.error # "None" THEN t.error
      ELSE Decide(Empirical(p, t), disqualifier, Absent(r) # {} \/ contradiction)

-----------------------------------------------------------------------------
(* Promotion of weights measured on held-out cases.                        *)

Ppm == 1000000

\* Mutant of Promoted: the uncapped weights are stored.
PromotedUncapped(p, weights, share, generation) ==
  [p EXCEPT !.generation = generation,
            !.weight = [m \in DOMAIN p.weight |->
                          IF m \in p.members THEN weights[m] ELSE p.weight[m]]]

\* CongressPolicy::promote_credibility, from the weights the evaluation gave
\* the helpers; share bounds the part of the influence that one member and one
\* cohort may hold, in millionths.
PromotionAccepted(p, weights, share, generation) ==
  /\ CongressPolicyValid(p)
  /\ generation > p.generation
  /\ \E t \in {reduce(VotesOf(p.members, p.cohort, [m \in p.members |-> "Permit"]),
                      [m \in p.members |-> weights[m]], p.caps, FALSE)} :
        /\ t.error = "None"
        /\ t.permit_weight > 0
        /\ t.permit_weight >= p.continue_minimum
        /\ \A m \in p.members : t.admitted_weights[m] > 0
        /\ Cardinality(Positive(t.admitted_cohort_weights)) >= p.minimum_cohorts
        /\ \A m \in p.members :
              t.admitted_weights[m] * Ppm <= t.permit_weight * share.member
        /\ \A c \in DOMAIN t.admitted_cohort_weights :
              t.admitted_cohort_weights[c] * Ppm <= t.permit_weight * share.cohort

\* The stored weights are already capped, so that a missing reveal cannot pass
\* its part of the cohort's allocation on to the members that answer.
Promoted(p, weights, share, generation) ==
  LET t == reduce(VotesOf(p.members, p.cohort, [m \in p.members |-> "Permit"]),
                  [m \in p.members |-> weights[m]], p.caps, FALSE)
  IN  [p EXCEPT !.generation = generation,
                !.weight = [m \in DOMAIN p.weight |->
                   IF m \in p.members THEN t.admitted_weights[m] ELSE p.weight[m]]]

=============================================================================
