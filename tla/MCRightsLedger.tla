--------------------------- MODULE MCRightsLedger ---------------------------
(* Small instance of RightsLedger for TLC.                                 *)
EXTENDS RightsLedger, TLC

CONSTANTS i1, i2, i3, small, large, empty, nobody

MCIds == {i1, i2, i3}
MCEffects == {small, large, empty, nobody}
MCUnits == (small :> 1) @@ (large :> 2) @@ (empty :> 0) @@ (nobody :> 1)

=============================================================================
