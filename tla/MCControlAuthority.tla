------------------------ MODULE MCControlAuthority --------------------------
(* Small instances of ControlAuthority for TLC.                            *)
EXTENDS ControlAuthority, TLC

CONSTANTS i1, i2, first, later, t1, t2

TwoIds == {i1, i2}
MCTargets == {t1, t2}
MCEffects == {first, later}
\* later is written for the next epoch and does not fit beside first.
MCUnits == (first :> 1) @@ (later :> 2)
MCTargetOf == (first :> t1) @@ (later :> t2)
MCEpochOf == (first :> 0) @@ (later :> 1)
MCDeadlineOf == (first :> 1) @@ (later :> 2)

Input(empirical, disqualifier, incomplete, retained) ==
  [empirical |-> empirical, disqualifier |-> disqualifier,
   incomplete |-> incomplete, retained |-> retained]

\* Each consequence once, the stronger ones with a weaker reason beside them.
MCInputs ==
  {Input("Continue", FALSE, FALSE, MCTargets),
   Input("Continue", FALSE, TRUE, MCTargets),
   Input("Continue", TRUE, TRUE, MCTargets),
   Input("NarrowAuthority", FALSE, FALSE, {t2}),
   Input("NarrowAuthority", TRUE, FALSE, {t1}),
   Input("SuspendRun", TRUE, TRUE, MCTargets)}

Symmetry == Permutations(Ids) \cup Permutations(Rounds)

=============================================================================
