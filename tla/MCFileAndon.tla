---------------------------- MODULE MCFileAndon -----------------------------
(* Small instances of FileAndon for TLC.                                   *)
EXTENDS FileAndon, TLC

CONSTANTS p1, p2, w1, w2, here, ann, bob, x, y, root, other

\* The processes are interchangeable.
ProcSymmetry == Permutations({p1, p2})

MCMembers == {ann, bob}

\* Two adjoining windows, and one that overlaps both.
W1 == [window |-> w1, start |-> 0, end |-> 2, allowed |-> 2, cost |-> 3]
W2 == [window |-> w2, start |-> 2, end |-> 4, allowed |-> 1, cost |-> 5]
Across == [window |-> w2, start |-> 1, end |-> 3, allowed |-> 1, cost |-> 5]
MCBudgets == {W1, W2, Across}

Fact(n, report, o) ==
  [round |-> n, identity |-> here, root |-> root, helpers |-> {ann}, report |-> report,
   occurred |-> o, confirmed |-> 3, well |-> TRUE]

\* Two stopped rounds, a second report on the first that dates it differently,
\* and a stop confirmed before it occurred.
MCFacts ==
  {Fact(1, 1, 0), Fact(2, 1, 1), Fact(1, 2, 3),
   [Fact(2, 2, 3) EXCEPT !.confirmed = 2]}

Window(b) == [kind |-> "Window", value |-> b]
Hold(f) == [kind |-> "FalseHold", value |-> f]

\* Imports: nothing; a window with its stops; one whose last entry contradicts
\* the first; and a synchronization that must end with a given ledger.
MCBatches ==
  {[records |-> <<>>, source |-> Unset],
   [records |-> <<Window(W1), Hold(Fact(1, 1, 0)), Hold(Fact(2, 1, 1))>>, source |-> Unset],
   [records |-> <<Hold(Fact(1, 1, 0)), Hold(Fact(1, 2, 3))>>, source |-> Unset],
   [records |-> <<Window(W1), Hold(Fact(2, 1, 1))>>,
    source |-> Replay(<<Window(W1), Hold(Fact(2, 1, 1))>>)]}

\* A round in which ann held and bob allowed, and its near misses: not all
\* revealed, another evidence root, held by the other helper, and ready.
Held(n, r, oa, ob) ==
  [id |-> n, root |-> r, phase |-> "Reveal", membership_frozen |-> TRUE,
   members |-> MCMembers, commitment |-> [m \in MCMembers |-> NoDigest],
   outcome |-> ann :> oa @@ bob :> ob]

MCTranscripts ==
  {Held(1, root, "Hold", "Allow"), Held(1, root, "Hold", "Missing"),
   Held(1, other, "Hold", "Allow"), Held(2, root, "Allow", "Hold"),
   Held(2, root, "Allow", "Allow")}

MCPolicy ==
  [members |-> MCMembers, cohort |-> ann :> x @@ bob :> y,
   weight |-> ann :> 2 @@ bob :> 2, caps |-> [per_member |-> 2, per_cohort |-> 2],
   min_permit_weight |-> 2, max_hold_weight |-> 0, min_permit_cohorts |-> 1]

=============================================================================
