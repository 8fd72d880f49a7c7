------------------------ MODULE AcknowledgedHistory -------------------------
(***************************************************************************)
(* What a durable journal promises, without files, locks or crashes: the   *)
(* history that was acknowledged to a caller or exposed as accounting only *)
(* ever grows, and at every moment it is a history that the journal's own  *)
(* strict replay accepts from the genesis.                                 *)
(***************************************************************************)
EXTENDS Naturals, Sequences

CONSTANT Acceptable(_)   \* what strict replay accepts

VARIABLE history

Init == history = <<>>

\* One or more records become acknowledged together.
Acknowledge ==
  /\ Len(history) < Len(history')
  /\ SubSeq(history', 1, Len(history)) = history
  /\ Acceptable(history')

Spec == Init /\ [][Acknowledge]_history

=============================================================================
