------------------------------- MODULE Andon --------------------------------
(***************************************************************************)
(* round/review.rs, module andon: the ledger of false stops as a value.    *)
(* Windows of occurrence time are registered with an allowance; each       *)
(* confirmed false hold is charged once, to the window it occurred in, and *)
(* exhausting the allowance opens an incident that keeps collecting.       *)
(*                                                                         *)
(* A confirmation carries its report, times and attributions; here they    *)
(* are the fields of a fact, with "well" for the checks on zero and empty  *)
(* fields.  The ledger's maps are total functions with a marker for an     *)
(* absent key.                                                             *)
(***************************************************************************)
EXTENDS Naturals, FiniteSets

CONSTANTS
  WindowIds,       \* window identifiers
  RoundNumbers,    \* review rounds that may have been stopped
  Budgets,         \* AndonBudget values a deployment may register
  Facts,           \* TrustedFalseHold values an evaluator may supply
  Identity,        \* the identity the ledger was created with
  MaxWindows,      \* MAX_WINDOWS
  MaxFalseHolds,   \* MAX_FALSE_HOLDS
  Unset            \* no budget, fact, window or round

ASSUME AndonAssumption ==
  /\ IsFiniteSet(RoundNumbers)
  /\ \A b \in Budgets : /\ b.window \in WindowIds
                        /\ {b.start, b.end, b.allowed, b.cost} \subseteq Nat
  /\ \A f \in Facts : /\ f.round \in RoundNumbers
                      /\ {f.occurred, f.confirmed} \subseteq Nat
  /\ MaxWindows \in Nat /\ MaxFalseHolds \in Nat
  /\ Unset \notin Budgets /\ Unset \notin Facts
  /\ Unset \notin WindowIds /\ Unset \notin RoundNumbers

AndonLedger ==
  [budget : [WindowIds -> Budgets \cup {Unset}],
   false_stops : [WindowIds -> Nat],
   total_cost : [WindowIds -> Nat],
   rounds : [WindowIds -> SUBSET RoundNumbers],
   opened_by : [WindowIds -> RoundNumbers \cup {Unset}],
   incident : [WindowIds -> SUBSET RoundNumbers],
   confirmation : [RoundNumbers -> Facts \cup {Unset}],
   charged_to : [RoundNumbers -> WindowIds \cup {Unset}]]

NewAndon ==
  [budget |-> [w \in WindowIds |-> Unset],
   false_stops |-> [w \in WindowIds |-> 0],
   total_cost |-> [w \in WindowIds |-> 0],
   rounds |-> [w \in WindowIds |-> {}],
   opened_by |-> [w \in WindowIds |-> Unset],
   incident |-> [w \in WindowIds |-> {}],
   confirmation |-> [r \in RoundNumbers |-> Unset],
   charged_to |-> [r \in RoundNumbers |-> Unset]]

Registered(l) == {w \in WindowIds : l.budget[w] # Unset}

Confirmed(l) == {r \in RoundNumbers : l.confirmation[r] # Unset}

-----------------------------------------------------------------------------
(* Windows.                                                                *)

\* An exact retry returns false and changes nothing, also at capacity.
WindowRetry(l, b) == l.budget[b.window] = b

Overlap(b, c) == b.start < c.end /\ c.start < b.end

\* A new window, which does not reach into another one's time.
CanRegister(l, b) ==
  /\ l.budget[b.window] = Unset
  /\ b.start < b.end
  /\ Cardinality(Registered(l)) < MaxWindows
  /\ \A w \in Registered(l) : ~Overlap(b, l.budget[w])

AfterRegister(l, b) == [l EXCEPT !.budget[b.window] = b]

-----------------------------------------------------------------------------
(* Confirmations.                                                          *)

\* The window that covers the moment the stop occurred, not the moment it was
\* confirmed.
Covers(b, f) == b.start <= f.occurred /\ f.occurred < b.end

CoveringWindow(l, f) == {w \in Registered(l) : Covers(l.budget[w], f)}

\* An exact replay is free.
FactRetry(l, f) == f.identity = Identity /\ l.confirmation[f.round] = f

CanRecord(l, f) ==
  /\ f.identity = Identity
  /\ l.confirmation[f.round] = Unset
  /\ f.well
  /\ f.occurred <= f.confirmed
  /\ Cardinality(Confirmed(l)) < MaxFalseHolds
  /\ CoveringWindow(l, f) # {}

\* The stop that reaches the allowance opens the incident.
OpensIncident(l, w) ==
  l.opened_by[w] = Unset /\ l.false_stops[w] + 1 >= l.budget[w].allowed

\* Mutant of IncidentRounds: an incident starts with the stop that opened it.
IncidentRoundsFromOpening(l, w, r) ==
  IF OpensIncident(l, w) THEN {r}
  ELSE IF l.opened_by[w] # Unset THEN l.incident[w] \cup {r}
  ELSE l.incident[w]

\* It names the stops before it and goes on to name those after it.
IncidentRounds(l, w, r) ==
  IF OpensIncident(l, w) THEN l.rounds[w] \cup {r}
  ELSE IF l.opened_by[w] # Unset THEN l.incident[w] \cup {r}
  ELSE l.incident[w]

\* record_trusted on a new round: both maps change together.
AfterRecord(l, f) ==
  LET w == CHOOSE v \in CoveringWindow(l, f) : TRUE
      r == f.round
  IN  [l EXCEPT !.false_stops[w] = @ + 1,
                !.total_cost[w] = @ + l.budget[w].cost,
                !.rounds[w] = @ \cup {r},
                !.opened_by[w] = IF OpensIncident(l, w) THEN r ELSE @,
                !.incident[w] = IncidentRounds(l, w, r),
                !.confirmation[r] = f,
                !.charged_to[r] = w]

-----------------------------------------------------------------------------
(* What a ledger must satisfy.                                             *)

\* Every window's account is the set of confirmations that occurred in it: each
\* is charged once, to one window, at its price, and to no other window however
\* late it is confirmed; the incident is open exactly when the allowance is used
\* up and then names all of them (record_trusted).
ExactFor(l, w) ==
  /\ l.rounds[w] = {r \in Confirmed(l) : l.charged_to[r] = w}
  /\ l.false_stops[w] = Cardinality(l.rounds[w])
  /\ l.budget[w] = Unset => l.rounds[w] = {} /\ l.total_cost[w] = 0
  /\ l.budget[w] # Unset =>
       /\ l.total_cost[w] = l.false_stops[w] * l.budget[w].cost
       /\ \A r \in Confirmed(l) :
            l.charged_to[r] = w <=> Covers(l.budget[w], l.confirmation[r])
       /\ l.opened_by[w] # Unset <=>
            (l.rounds[w] # {} /\ l.false_stops[w] >= l.budget[w].allowed)
  /\ l.incident[w] = IF l.opened_by[w] = Unset THEN {} ELSE l.rounds[w]
  /\ l.opened_by[w] # Unset => l.opened_by[w] \in l.rounds[w]

Exact(l) ==
  /\ \A r \in Confirmed(l) : l.charged_to[r] \in WindowIds
  /\ \A w \in WindowIds : ExactFor(l, w)

=============================================================================
