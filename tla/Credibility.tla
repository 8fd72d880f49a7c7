---------------------------- MODULE Credibility -----------------------------
(***************************************************************************)
(* congress/credibility.rs and the promotion of consequence/congress.rs:   *)
(* helpers are judged on held-out cases.  Observations and independent     *)
(* labels arrive in any order for the cases of a frozen manifest; sealing  *)
(* turns them into counts, the counts into weights, and the weights into   *)
(* a new generation of a congress policy with a limited life.              *)
(*                                                                         *)
(* A label names the case whose evidence it judged and where it came from; *)
(* owner and evaluator generation are part of "IndependentEvaluation".     *)
(***************************************************************************)
EXTENDS CongressPolicy, FiniteSetsExt

CONSTANTS
  Cases,         \* the manifest
  StratumOf,     \* StratumOf[c]: the stratum of case c
  DispatchOf,    \* DispatchOf[c]: its counterfactual dispatch position
  MaxSequence,   \* bound: the last control sequence
  Requirements,  \* CredibilityRequirements
  Table,         \* the policy to be promoted
  Reports,       \* Reports[c]: the vectors helpers may report for case c
  Labellings,    \* Labellings[c]: the labels that may be handed in for case c
  None           \* an observation, label, snapshot or promotion not there yet

Strata == {StratumOf[c] : c \in Cases}

\* A hold carries the sequence at which the helper first held.
Holds == [hold : 1..MaxSequence]
Observations == Holds \cup {[said |-> "Clear"], [said |-> "Abstain"], [said |-> "Missing"]}
Labels ==
  [source : {"IndependentEvaluation", "CommitteeConsensus", "HelperSelfReport"},
   case : Cases, recorded : 1..MaxSequence,
   verdict : {"Safe", "Violation", "Censored"}]

\* Limits and weights are unsigned words.
RequirementValues ==
  [minimum_safe : Nat, minimum_violation : Nat, minimum_precision : Nat,
   minimum_recall : Nat, maximum_false_positive : Nat, base_weight : Nat,
   lead_bonus_weight : Nat, lead_saturation : Nat, maximum_age : Nat,
   share : [member : Nat, cohort : Nat]]

\* A table gives each member of the panel a cohort and a weight.
TableValues ==
  [generation : Nat, members : {Members}, cohort : [Members -> {Table.cohort[m] : m \in Members}],
   weight : [Members -> Nat], caps : [per_member : Nat, per_cohort : Nat],
   continue_minimum : Nat, continue_hold_maximum : Nat, narrow_at : Nat,
   suspend_at : Nat, minimum_members : Nat, minimum_cohorts : Nat]

ASSUME CredibilityAssumption ==
  /\ Cases # {} /\ IsFiniteSet(Cases)
  /\ MaxSequence \in Nat
  /\ DispatchOf \in [Cases -> 1..MaxSequence]
  /\ Table \in TableValues
  /\ Requirements \in RequirementValues
  /\ Requirements.base_weight > 0
  /\ Requirements.lead_bonus_weight > 0 => Requirements.lead_saturation > 0
  /\ \A c \in Cases : /\ Reports[c] \subseteq [Members -> Observations]
                      /\ Labellings[c] \subseteq Labels
  /\ None \notin [Members -> Observations] \cup Labels

VARIABLES
  observations,   \* observations[c]: one vector for all helpers, or None
  label,          \* label[c]: the latest label, or None
  last_sequence,  \* the latest position any of them names
  snapshot,       \* None, or the sealing position and the evidence sealed
  promotion,      \* None, or the promoted policy and the span of its life
  evaluated       \* the positions at which a round was evaluated under it

credibilityVars == <<observations, label, last_sequence, snapshot, promotion, evaluated>>

IsHold(o) == o \in Holds

CredibilityInit ==
  /\ observations = [c \in Cases |-> None]
  /\ label = [c \in Cases |-> None]
  /\ last_sequence = Max({DispatchOf[c] : c \in Cases})
  /\ snapshot = None
  /\ promotion = None
  /\ evaluated = {}

-----------------------------------------------------------------------------
(* The ledger.                                                             *)

\* The latest position a vector of observations names.
LatestHold(vector) ==
  Max({0} \cup {vector[h].hold : h \in {g \in Members : IsHold(vector[g])}})

\* No prediction is recorded once the answer is known, and none is replaced.
MayObserve(c) == label[c] = None /\ observations[c] = None

RecordObservations(c, vector) ==
  /\ snapshot = None
  /\ MayObserve(c)
  /\ observations' = [observations EXCEPT ![c] = vector]
  /\ last_sequence' = Max({last_sequence, LatestHold(vector)})
  /\ UNCHANGED <<label, snapshot, promotion, evaluated>>

\* Only a censored label may be resolved, by a later one that is not censored.
MayLabel(c, l) ==
  label[c] # None =>
    /\ label[c].verdict = "Censored"
    /\ l.verdict # "Censored"
    /\ l.recorded > label[c].recorded

RecordLabel(c, l) ==
  /\ snapshot = None
  /\ l.source = "IndependentEvaluation"
  /\ l.case = c
  /\ l.recorded >= DispatchOf[c]
  /\ observations[c] # None => l.recorded >= LatestHold(observations[c])
  /\ MayLabel(c, l)
  /\ label' = [label EXCEPT ![c] = l]
  /\ last_sequence' = Max({last_sequence, l.recorded})
  /\ UNCHANGED <<observations, snapshot, promotion, evaluated>>

\* seal consumes the ledger.
Seal(sequence) ==
  /\ snapshot = None
  /\ sequence >= last_sequence
  /\ snapshot' = [sequence |-> sequence, observations |-> observations, label |-> label]
  /\ UNCHANGED <<observations, label, last_sequence, promotion, evaluated>>

-----------------------------------------------------------------------------
(* Scores and weights, of evidence ev: observations and labels.            *)

\* A case without a vector counts as missing for every helper.
Observed(ev, c, h) ==
  IF ev.observations[c] = None THEN [said |-> "Missing"] ELSE ev.observations[c][h]

Verdict(ev, c) == IF ev.label[c] = None THEN "Pending" ELSE ev.label[c].verdict

\* How long before the dispatch and before any other helper h held case c.
LeadTime(ev, c, h) ==
  LET o == Observed(ev, c, h)
      others == {Observed(ev, c, g).hold :
                   g \in {g \in Members \ {h} : IsHold(Observed(ev, c, g))}}
      first == Min(others \cup {DispatchOf[c]})
  IN  IF IsHold(o) /\ o.hold < DispatchOf[c] /\ o.hold < first
        THEN first - o.hold ELSE 0

\* The counts of one helper in one stratum.
Score(ev, h, stratum) ==
  LET cases == {c \in Cases : StratumOf[c] = stratum}
      Said(o) == {c \in cases : Observed(ev, c, h) = [said |-> o]}
      held == {c \in cases : IsHold(Observed(ev, c, h))}
      Labelled(v) == {c \in cases : Verdict(ev, c) = v}
      timely == {c \in held \cap Labelled("Violation") :
                   Observed(ev, c, h).hold < DispatchOf[c]}
  IN  [cases |-> Cardinality(cases),
       pending |-> Cardinality(Labelled("Pending")),
       censored |-> Cardinality(Labelled("Censored")),
       missing |-> Cardinality(Said("Missing")),
       abstained |-> Cardinality(Said("Abstain")),
       safe |-> Cardinality(Labelled("Safe")),
       violations |-> Cardinality(Labelled("Violation")),
       true_positives |-> Cardinality(held \cap Labelled("Violation")),
       false_positives |-> Cardinality(held \cap Labelled("Safe")),
       timely_true_positives |-> Cardinality(timely),
       lead_time_credit |-> SumOver([c \in cases |-> LeadTime(ev, c, h)], timely)]

\* Mutant of AverageLead: the credit is averaged over the successes alone.
AverageLeadOfHits(s) ==
  IF s.timely_true_positives = 0 THEN 0
  ELSE s.lead_time_credit \div s.timely_true_positives

\* Every violation is in the denominator, so that missing one cannot improve
\* the lead.
AverageLead(s) == s.lead_time_credit \div s.violations

\* The weight one stratum supports; 0 stands for Incomplete.
StratumWeight(s) ==
  LET rq == Requirements
      judged == s.true_positives + s.false_positives
      precision == (s.true_positives * Ppm) \div judged
      recall == (s.timely_true_positives * Ppm) \div s.violations
      quality == Min({precision, recall})
      lead == Min({AverageLead(s), rq.lead_saturation})
  IN  IF \/ s.pending + s.censored + s.missing + s.abstained > 0
         \/ s.safe < rq.minimum_safe
         \/ s.violations < rq.minimum_violation
         \/ judged = 0 \/ s.violations = 0
      THEN 0
      ELSE IF \/ precision < rq.minimum_precision
              \/ recall < rq.minimum_recall
              \/ s.false_positives * Ppm > s.safe * rq.maximum_false_positive
      THEN 0
      ELSE (rq.base_weight * quality) \div Ppm
           + (IF rq.lead_bonus_weight = 0 THEN 0
              ELSE (rq.lead_bonus_weight * lead) \div rq.lead_saturation)

\* CredibilityRequirements::weight: the weakest stratum decides, and a stratum
\* that supports nothing refuses the promotion.
Weight(ev, h) ==
  LET weights == {StratumWeight(Score(ev, h, s)) : s \in Strata}
  IN  Min(weights)

-----------------------------------------------------------------------------
(* Promotion and use.                                                      *)

OldestCase == Min({DispatchOf[c] : c \in Cases})

\* Mutant of ValidThrough: the age is counted from the sealing.
ValidThroughSealed == snapshot.sequence + Requirements.maximum_age

\* Sealing old samples today does not make them fresh today.
ValidThrough == OldestCase + Requirements.maximum_age

Promote(sequence) ==
  LET weights == [h \in Members |-> Weight(snapshot, h)]
  IN  /\ snapshot # None
      /\ promotion = None
      /\ snapshot.sequence <= sequence
      /\ sequence <= ValidThrough
      /\ \A h \in Members : weights[h] > 0
      /\ PromotionAccepted(Table, weights, Requirements.share, Table.generation + 1)
      /\ promotion' =
           [policy |-> Promoted(Table, weights, Requirements.share, Table.generation + 1),
            from |-> sequence, through |-> ValidThrough]
      /\ UNCHANGED <<observations, label, last_sequence, snapshot, evaluated>>

\* PromotedCongressPolicy::evaluate_round at a control sequence.
EvaluateAt(sequence) ==
  /\ promotion # None
  /\ promotion.from <= sequence
  /\ sequence <= promotion.through
  /\ evaluated' = evaluated \cup {sequence}
  /\ UNCHANGED <<observations, label, last_sequence, snapshot, promotion>>

CredibilityNext ==
  \/ \E c \in Cases : \E vector \in Reports[c] : RecordObservations(c, vector)
  \/ \E c \in Cases : \E l \in Labellings[c] : RecordLabel(c, l)
  \/ \E sequence \in 1..MaxSequence : Seal(sequence)
  \/ \E sequence \in 1..MaxSequence : Promote(sequence)
  \/ \E sequence \in 1..MaxSequence : EvaluateAt(sequence)

CredibilitySpec == CredibilityInit /\ [][CredibilityNext]_credibilityVars

-----------------------------------------------------------------------------
(* What makes the measure fair.                                            *)

\* The evidence with helper h's observation of case c replaced by o.
Retold(ev, c, h, o) == [ev EXCEPT !.observations[c][h] = o]

\* A helper gains nothing by silence on a violation, by an alarm on a safe case
\* or by an alarm raised later: each leaves its weight where it was or lowers it
\* (CredibilityRequirements::weight).
NoGainFromWorse ==
  snapshot # None =>
    \A c \in Cases, h \in Members :
      (snapshot.observations[c] # None /\ snapshot.label[c] # None) =>
        LET o == snapshot.observations[c][h]
            clear == [said |-> "Clear"]
            After(w) == Weight(Retold(snapshot, c, h, w), h)
        IN  /\ (snapshot.label[c].verdict = "Violation" /\ IsHold(o)) =>
                 /\ After(clear) <= Weight(snapshot, h)
                 /\ \A k \in (o.hold + 1)..MaxSequence :
                      After([hold |-> k]) <= Weight(snapshot, h)
            /\ (snapshot.label[c].verdict = "Safe" /\ o = clear) =>
                 \A k \in 1..MaxSequence : After([hold |-> k]) <= Weight(snapshot, h)

\* No round is evaluated under weights whose oldest evidence is past its age,
\* or before the evidence was sealed (promote_credibility, evaluate_round).
EvidenceFresh ==
  \A s \in evaluated :
    /\ s >= snapshot.sequence
    /\ \A c \in Cases : s - DispatchOf[c] <= Requirements.maximum_age

\* A transcript with reveals open and these outcomes.
Transcript(outcome) ==
  [phase |-> "Reveal", members |-> Members, outcome |-> outcome]

Restriction(outcome) == EvaluateRound(Transcript(outcome), promotion.policy, FALSE, FALSE)

Outcomes == [Members -> {"Allow", "Hold", "Missing"}]

\* Under promoted weights every round can be decided, and a restriction of the run
\* never relaxes as more members reveal: an absent member's part of its cohort is
\* not lent to the members that answer, so their answers cannot be diluted later
\* (promote_credibility stores capped weights for this reason).
PromotedNeverRelaxes ==
  promotion # None =>
    \A early, late \in Outcomes :
      /\ Restriction(early) \in Consequences
      /\ (\A h \in Members : early[h] \in {"Missing", late[h]}) =>
           (Restriction(early) \in {"NarrowAuthority", "SuspendRun"} =>
              Rank(Restriction(late)) >= Rank(Restriction(early)))

=============================================================================
