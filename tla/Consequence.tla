----------------------------- MODULE Consequence ----------------------------
(***************************************************************************)
(* consequence.rs: the chain of restrictions on an action and a run, and   *)
(* how one review becomes one of them.                                     *)
(***************************************************************************)
EXTENDS Naturals

\* The authority-restriction chain, and a place for "no decision yet".
Restrictions ==
  <<"Continue", "HoldEffect", "Deny", "NarrowAuthority", "SuspendRun">>

Consequences == {Restrictions[k] : k \in 1..5}

Rank(c) == CHOOSE k \in 1..5 : Restrictions[k] = c

Join(c, d) == IF Rank(c) >= Rank(d) THEN c ELSE d

\* reduce_reference and decide; incomplete stands for a mandatory absence or a
\* contradiction, which the code treats alike.
Decide(empirical, disqualifier, incomplete) ==
  Join(Join(empirical, IF disqualifier THEN "Deny" ELSE "Continue"),
       IF incomplete THEN "HoldEffect" ELSE "Continue")

=============================================================================
