----------------------------- MODULE MCDelivery -----------------------------
(* Small instances of Delivery for TLC.                                    *)
EXTENDS Delivery, TLC

CONSTANTS i1, i2, first, second, third, t1, t2

TwoIds == {i1, i2}
OneId == {i1}
MCTargets == {t1, t2}
MCVersionOf == (t1 :> 1) @@ (t2 :> 2)

\* Plain actions want the first version of the resource: of two attempts one
\* comes too late.  In a stream, second continues first and finishes, and third
\* was written after a message that never went out.
OneEffect == {first}
ThreeEffects == {first, second, third}
MCUnits == [e \in Effects |-> 1]
MCTargetOf == [e \in Effects |-> IF Streaming /\ e # first THEN t2 ELSE t1]
MCEpochOf == [e \in Effects |-> 0]
MCDeadlineOf == [e \in Effects |-> IF ~Streaming /\ e = first THEN 1 ELSE 2]
MCPriorOf == [e \in Effects |-> IF e = first THEN << >>
                                ELSE IF e = second THEN <<first>> ELSE <<third>>]
MCMessageOf == [e \in Effects |-> IF e = second THEN Finish ELSE e]

Proceed == [empirical |-> "Continue", disqualifier |-> FALSE, incomplete |-> FALSE,
            retained |-> MCTargets]
MCInputs == {Proceed}

SecondKey == [issued |-> 0, expires |-> 1]
MCApprovals == {SecondKey}

Symmetry == Permutations(Ids) \cup Permutations(Rounds)

=============================================================================
