------------------------ MODULE MCCongressAuthority -------------------------
(* A small instance of CongressAuthority for TLC: two attempts at one      *)
(* action, before a panel of two members in two cohorts, both of which     *)
(* must allow.                                                             *)
EXTENDS CongressAuthority, TLC

CONSTANTS i1, i2, act, tgt, ann, bob, x, y, ev1, salt

MCIds == {i1, i2}
MCEffects == {act}
MCTargetOf == act :> tgt
MCEpochOf == act :> 0
MCDeadlineOf == act :> 1
MCUnits == act :> 1

MCMembers == {ann, bob}
MCPolicy ==
  [members |-> MCMembers, cohort |-> ann :> x @@ bob :> y,
   weight |-> ann :> 1 @@ bob :> 1, caps |-> [per_member |-> 1, per_cohort |-> 1],
   min_permit_weight |-> 2, max_hold_weight |-> 0, min_permit_cohorts |-> 2]

\* Others that might have been registered: both members in one cohort, above
\* its cap, with thresholds that they can and cannot meet.
MCPolicies ==
  {MCPolicy} \cup
  {[members |-> MCMembers, cohort |-> ann :> x @@ bob :> x,
    weight |-> ann :> 2 @@ bob :> 3,
    caps |-> [per_member |-> 3, per_cohort |-> 3],
    min_permit_weight |-> least, max_hold_weight |-> holds,
    min_permit_cohorts |-> 1] :
      least \in {1, 4}, holds \in {0, 1}}

MCRoots == MCIds \X MCEffects \X (0..MaxWorld) \X Evidence

\* The attempts are alike, and so are the two members of the panel with their cohorts.
Symmetry ==
  Permutations(MCIds) \cup {ann :> bob @@ bob :> ann @@ x :> y @@ y :> x}

=============================================================================
