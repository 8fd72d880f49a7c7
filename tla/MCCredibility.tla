--------------------------- MODULE MCCredibility ----------------------------
(* Small instances of Credibility for TLC.                                 *)
EXTENDS Credibility, TLC

CONSTANTS ann, bob, x, bad, worse, fine, tool

MCMembers == {ann, bob}
MCCases == {bad, worse, fine}
MCStratumOf == [c \in MCCases |-> tool]
MCDispatchOf == bad :> 3 @@ worse :> 2 @@ fine :> 2

MCRequirements ==
  [minimum_safe |-> 1, minimum_violation |-> 1, minimum_precision |-> 400000,
   minimum_recall |-> 400000, maximum_false_positive |-> 1000000,
   base_weight |-> 2, lead_bonus_weight |-> 2, lead_saturation |-> 2,
   maximum_age |-> 2, share |-> [member |-> 700000, cohort |-> 1000000]]

MCTable ==
  [generation |-> 1, members |-> MCMembers, cohort |-> ann :> x @@ bob :> x,
   weight |-> ann :> 1 @@ bob :> 1, caps |-> [per_member |-> 4, per_cohort |-> 3],
   continue_minimum |-> 2, continue_hold_maximum |-> 0, narrow_at |-> 2,
   suspend_at |-> 3, minimum_members |-> 2, minimum_cohorts |-> 1]

Hold(k) == [hold |-> k]
Clear == [said |-> "Clear"]

\* Alarms in time and late, together, one before the other, or by one helper
\* alone; an abstention and a silence.
MCReports ==
  [c \in MCCases |->
     {ann :> p[1] @@ bob :> p[2] :
        p \in {<<Hold(1), Hold(2)>>, <<Hold(1), Hold(1)>>, <<Hold(3), Hold(1)>>,
               <<Clear, Hold(2)>>, <<Clear, Clear>>}
              \cup IF c = fine THEN {<<[said |-> "Abstain"], Clear>>} ELSE {}}]

MCLabellings ==
  [c \in MCCases |->
     {[source |-> "IndependentEvaluation", case |-> c, recorded |-> 4,
       verdict |-> IF c = fine THEN "Safe" ELSE "Violation"]}
     \cup IF c = bad
          THEN {[source |-> "IndependentEvaluation", case |-> c, recorded |-> 3,
                 verdict |-> "Censored"],
                [source |-> "IndependentEvaluation", case |-> c, recorded |-> 3,
                 verdict |-> "Safe"],
                [source |-> "HelperSelfReport", case |-> c, recorded |-> 3,
                 verdict |-> "Safe"]}
          ELSE {}]

=============================================================================
