------------------------------ MODULE Reducer -------------------------------
(***************************************************************************)
(* reducer.rs: the capped tally of empirical votes.  A vote is a record    *)
(* that names its lane, member, cohort and recommendation; the text of an  *)
(* actor statement is left out because it is never read.  Identifiers are  *)
(* model values, so their length limits are left out.                      *)
(***************************************************************************)
EXTENDS Naturals, Sequences, FiniteSets, FiniteSetsExt

CONSTANTS
  MaxVotes,   \* MAX_VOTES
  MaxWord     \* u64::MAX

ASSUME ReducerAssumption == MaxVotes \in Nat /\ MaxWord \in Nat

\* A refusal, told apart from a reduction by its field error.
Refused(e) == [error |-> e]

\* What the loop over the votes meets first: an actor statement, or a member
\* that has already voted.
BadVotes(votes) ==
  {k \in 1..Len(votes) :
     \/ votes[k].lane = "ActorStatement"
     \/ \E j \in 1..(k - 1) : /\ votes[j].lane = "Empirical"
                              /\ votes[j].member = votes[k].member}

VoteRefusal(votes) ==
  IF votes[Min(BadVotes(votes))].lane = "ActorStatement"
    THEN Refused("InvalidInput") ELSE Refused("Duplicate")

\* A member's requested weight under the cap per member.
Clipped(weight, caps) ==
  IF weight < caps.per_member THEN weight ELSE caps.per_member

\* Mutant of Admitted: the remainder of the division is given away.
AdmittedRoundedUp(weight, sum, caps) ==
  IF sum > caps.per_cohort
    THEN (weight * caps.per_cohort + sum - 1) \div sum ELSE weight

\* What an over-cap cohort admits of a member is its proportional share, with
\* the remainder discarded.
Admitted(weight, sum, caps) ==
  IF sum > caps.per_cohort THEN (weight * caps.per_cohort) \div sum ELSE weight

SumOver(f, S) == MapThenSumSet(LAMBDA x : f[x], S)

\* The members of a cohort, and those with a recommendation.
InCohort(cohort, c) == {m \in DOMAIN cohort : cohort[m] = c}
Saying(recommendation, r) == {m \in DOMAIN recommendation : recommendation[m] = r}

ClippedWeights(weights, caps) == [m \in DOMAIN weights |-> Clipped(weights[m], caps)]

\* What each member counts for under both caps, whatever it recommends.
AdmittedWeights(cohort, weights, caps) ==
  LET clipped == ClippedWeights(weights, caps)
  IN  [m \in DOMAIN weights |->
         Admitted(clipped[m], SumOver(clipped, InCohort(cohort, cohort[m])), caps)]

\* The sums of a tally, of members with a cohort, a recommendation and a weight.
Counted(cohort, recommendation, weights, caps, disqualifier) ==
  LET admitted == AdmittedWeights(cohort, weights, caps)
      permit == SumOver(admitted, Saying(recommendation, "Permit"))
      hold == SumOver(admitted, Saying(recommendation, "Hold"))
  IN  IF permit > MaxWord \/ hold > MaxWord
        THEN Refused("Overflow")
        ELSE [error |-> "None",
              outcome |-> IF disqualifier THEN "Disqualified" ELSE "Empirical",
              permit_weight |-> permit,
              hold_weight |-> hold,
              admitted_weights |-> admitted,
              admitted_cohort_weights |->
                [c \in {cohort[m] : m \in DOMAIN cohort} |->
                   SumOver(admitted, InCohort(cohort, c))]]

\* The one vote of a member.
VoteOf(votes, m) == CHOOSE v \in {votes[k] : k \in 1..Len(votes)} : v.member = m

\* The tally of well-formed votes.
Tally(votes, weights, caps, disqualifier) ==
  Counted([m \in DOMAIN weights |-> VoteOf(votes, m).cohort],
          [m \in DOMAIN weights |-> VoteOf(votes, m).recommendation],
          weights, caps, disqualifier)

reduce(votes, weights, caps, disqualifier) ==
  IF Len(votes) > MaxVotes \/ Cardinality(DOMAIN weights) > MaxVotes
    THEN Refused("Limit")
  ELSE IF BadVotes(votes) # {}
    THEN VoteRefusal(votes)
  ELSE IF {votes[k].member : k \in 1..Len(votes)} # DOMAIN weights
    THEN Refused("Missing")
    ELSE Tally(votes, weights, caps, disqualifier)

=============================================================================
