--------------------------- MODULE MCFileJournal ----------------------------
(* Small instances of FileJournal for TLC.                                 *)
EXTENDS FileJournal, TLC

CONSTANTS i1, small, p, q

MCIds == {i1}
MCEffects == {small}
MCUnits == small :> 1
MCEffectBytes == small :> 3

Reserve == [op |-> "Reserve", id |-> i1, effect |-> small]
Revoke == [op |-> "RevokeEpoch"]

\* Two groups that can be interrupted, refused at their first or second record,
\* completed by one another's records, or run into the limit of three records.
MCGroups == {<<Reserve>>, <<Revoke, Reserve>>}

Symmetry == Permutations(Procs)

=============================================================================
