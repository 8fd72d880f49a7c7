-------------------------- MODULE MCRightsJournal ---------------------------
(* Small instances of RightsJournal for TLC.                               *)
EXTENDS RightsJournal, TLC

CONSTANTS i1, i2, small, huge

MCIds == {i1, i2}
MCEffects == {small, huge}
MCUnits == (small :> 1) @@ (huge :> 1)
\* huge does not fit a frame of MaxFrameBytes
MCEffectBytes == (small :> 3) @@ (huge :> 20)

Reserve(id) == [op |-> "Reserve", id |-> id, effect |-> small]
Dispatch(id) == [op |-> "Dispatch", id |-> id, effect |-> small]
Reconcile(id) == [op |-> "Reconcile", id |-> id, occurred |-> TRUE]
Revoke == [op |-> "RevokeEpoch"]

\* Groups that run past the ordinary capacity in the middle, that end on the
\* last record of the journal, that revoke what they reserved, and an empty one.
MCGroups ==
  {<<>>, <<Revoke>>,
   <<Reserve(i1), Dispatch(i1), Reconcile(i1)>>,
   <<Reserve(i2), Revoke, Dispatch(i2)>>,
   <<Reserve(i1), Revoke, Revoke>>,
   <<Dispatch(i1), Reconcile(i1), Reserve(i2), Revoke>>}

=============================================================================
