------------------------------- MODULE Round --------------------------------
(***************************************************************************)
(* round.rs: one commit-reveal transcript as a value, with one pair of     *)
(* operators per method: when it succeeds and what it leaves.              *)
(*                                                                         *)
(* A digest is the tuple of the fields it is computed from.  The code      *)
(* frames every field before it hashes them, so different tuples are       *)
(* different preimages; that the hash keeps them apart is assumed here,    *)
(* as the code's own comments warn.                                        *)
(***************************************************************************)
EXTENDS Naturals, FiniteSets

CONSTANTS
  Members,      \* identifiers that may be added to a round
  RoundIds,     \* round numbers
  Roots,        \* evidence roots
  Salts,        \* salts a member may choose
  MaxMembers,   \* MAX_MEMBERS
  NoDigest      \* the commitment of a member that has not committed

Verdicts == {"Allow", "Hold", "Deny", "Abstain"}

Digests ==
  [round : RoundIds, member : Members, root : Roots, verdict : Verdicts, salt : Salts]

ASSUME RoundAssumption ==
  /\ IsFiniteSet(Members)
  /\ MaxMembers \in Nat
  /\ NoDigest \notin Digests

RoundValue ==
  [id : RoundIds, root : Roots,
   phase : {"Commit", "Reveal"},
   membership_frozen : BOOLEAN,
   members : SUBSET Members,
   commitment : [Members -> Digests \cup {NoDigest}],
   outcome : [Members -> Verdicts \cup {"Missing"}]]

NewRound(id, root) ==
  [id |-> id, root |-> root,
   phase |-> "Commit",
   membership_frozen |-> FALSE,
   members |-> {},
   commitment |-> [m \in Members |-> NoDigest],
   outcome |-> [m \in Members |-> "Missing"]]

\* add_member for each of ms, none of which is a member yet.
CanAddMembers(r, ms) ==
  /\ r.phase = "Commit"
  /\ ~r.membership_frozen
  /\ ms \cap r.members = {}
  /\ Cardinality(r.members) + Cardinality(ms) <= MaxMembers

AfterAddMembers(r, ms) == [r EXCEPT !.members = @ \cup ms]

\* Any digest is accepted: it is opaque until it is revealed.
CanCommit(r, m) ==
  /\ r.phase = "Commit"
  /\ m \in r.members
  /\ r.commitment[m] = NoDigest

AfterCommit(r, m, digest) ==
  [r EXCEPT !.membership_frozen = TRUE, !.commitment[m] = digest]

CanOpenReveals(r) == r.phase = "Commit" /\ r.members # {}

AfterOpenReveals(r) == [r EXCEPT !.membership_frozen = TRUE, !.phase = "Reveal"]

\* The comparison value of a prospective reveal.
Commitment(r, m, verdict, salt) ==
  [round |-> r.id, member |-> m, root |-> r.root, verdict |-> verdict, salt |-> salt]

\* Mutant of CanReveal: the comparison leaves out whose digest it is.
CanRevealCopied(r, m, verdict, salt) ==
  /\ r.phase = "Reveal"
  /\ m \in r.members
  /\ \E author \in Members : r.commitment[m] = Commitment(r, author, verdict, salt)
  /\ r.outcome[m] = "Missing"

CanReveal(r, m, verdict, salt) ==
  /\ r.phase = "Reveal"
  /\ m \in r.members
  /\ r.commitment[m] = Commitment(r, m, verdict, salt)
  /\ r.outcome[m] = "Missing"

AfterReveal(r, m, verdict) == [r EXCEPT !.outcome[m] = verdict]

=============================================================================
