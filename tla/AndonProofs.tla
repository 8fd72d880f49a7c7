---------------------------- MODULE AndonProofs -----------------------------
(***************************************************************************)
(* Proofs about the andon ledger, for any windows, budgets, rounds and     *)
(* confirmations.  That windows never share a moment is what makes the     *)
(* window of a stop unique, and with it the account of every window the    *)
(* set of the stops it covers.                                             *)
(***************************************************************************)
EXTENDS AndonMachine, FileAndon, FiniteSetTheorems, SequenceTheorems,
        TLAPS

Disjoint(l) ==
  \A v, w \in Registered(l) : v # w => ~Overlap(l.budget[v], l.budget[w])

Good(l) == l \in AndonLedger /\ Disjoint(l) /\ Exact(l)

\* A moment lies in one window at most.
LEMMA OneWindow ==
  ASSUME NEW b \in Budgets, NEW c \in Budgets, NEW f \in Facts, Covers(b, f), Covers(c, f)
  PROVE  Overlap(b, c)
BY AndonAssumption DEF Covers, Overlap

-----------------------------------------------------------------------------
(* register_window                                                         *)

\* A new window overlaps no other, covers no stop that was charged, and so
\* starts with an empty account.
LEMMA RegisterKeeps ==
  ASSUME NEW l, Good(l), NEW b \in Budgets, CanRegister(l, b)
  PROVE  Good(AfterRegister(l, b))
<1> DEFINE w == b.window
           q == AfterRegister(l, b)
<1>0. w \in WindowIds /\ l \in AndonLedger /\ b # Unset
  BY AndonAssumption DEF Good
<1>1. /\ q \in AndonLedger
      /\ q.budget = [l.budget EXCEPT ![w] = b]
      /\ q.false_stops = l.false_stops /\ q.total_cost = l.total_cost
      /\ q.rounds = l.rounds /\ q.opened_by = l.opened_by /\ q.incident = l.incident
      /\ q.confirmation = l.confirmation /\ q.charged_to = l.charged_to
  BY <1>0 DEF AfterRegister, AndonLedger
<1>2. /\ l.budget \in [WindowIds -> Budgets \cup {Unset}]
      /\ l.confirmation \in [RoundNumbers -> Facts \cup {Unset}]
  BY <1>0 DEF AndonLedger
<1> HIDE DEF w, q
<1>3. /\ q.budget[w] = b
      /\ \A v \in WindowIds \ {w} : q.budget[v] = l.budget[v]
  BY <1>0, <1>1, <1>2
<1>4. Registered(q) = Registered(l) \cup {w} /\ Confirmed(q) = Confirmed(l)
  BY <1>0, <1>1, <1>3 DEF Registered, Confirmed
<1>5. l.budget[w] = Unset /\ \A v \in Registered(l) : ~Overlap(b, l.budget[v])
  BY DEF CanRegister, w
<1>6. \A v \in Registered(l) : ~Overlap(l.budget[v], b)
  BY <1>5 DEF Overlap
<1>7. Disjoint(q)
  BY <1>3, <1>4, <1>5, <1>6 DEF Disjoint, Good, Registered
<1>8. ASSUME NEW r \in Confirmed(l)
      PROVE  l.charged_to[r] # w /\ ~Covers(b, l.confirmation[r])
  <2> DEFINE v == l.charged_to[r]
  <2>1. v \in WindowIds
    BY DEF Good, Exact
  <2>2. l.rounds[v] = {i \in Confirmed(l) : l.charged_to[i] = v} /\ ExactFor(l, v)
    BY <2>1 DEF Good, Exact, ExactFor
  <2>3. l.budget[v] # Unset
    BY <2>2 DEF ExactFor
  <2>4. v # w /\ v \in Registered(l)
    BY <1>5, <2>1, <2>3 DEF Registered
  <2>5. Covers(l.budget[v], l.confirmation[r])
    BY <2>2, <2>3 DEF ExactFor
  <2>6. l.confirmation[r] \in Facts /\ l.budget[v] \in Budgets
    BY <1>2, <2>1, <2>3 DEF Confirmed
  <2>7. QED
    BY <1>5, <2>4, <2>5, <2>6, OneWindow
<1>9. ASSUME NEW v \in WindowIds
      PROVE  ExactFor(q, v)
  <2>1. ExactFor(l, v)
    BY DEF Good, Exact
  <2>2. CASE v # w
    BY <1>1, <1>3, <1>4, <2>1, <2>2 DEF ExactFor
  <2>3. CASE v = w
    <3>1. /\ l.rounds[w] = {} /\ l.total_cost[w] = 0 /\ l.opened_by[w] = Unset
          /\ l.false_stops[w] = 0 /\ l.incident[w] = {}
      BY <1>5, <2>1, <2>3, FS_EmptySet DEF ExactFor
    <3>2. 0 * b.cost = 0
      BY AndonAssumption
    <3>3. QED
      BY <1>0, <1>1, <1>3, <1>4, <1>8, <2>1, <2>3, <3>1, <3>2 DEF ExactFor
  <2>4. QED
    BY <2>2, <2>3
<1>10. QED
  BY <1>1, <1>4, <1>7, <1>9 DEF Good, Exact, q

-----------------------------------------------------------------------------
(* record_trusted                                                          *)

\* The window that is charged.
Charged(l, f) == CHOOSE v \in CoveringWindow(l, f) : TRUE

\* Ledger q is l with the confirmation f charged to window w.
RecordedAs(l, q, f, w) ==
  /\ w \in Registered(l) /\ Covers(l.budget[w], f)
  /\ q \in AndonLedger
  /\ q.budget = l.budget
  /\ q.false_stops = [l.false_stops EXCEPT ![w] = @ + 1]
  /\ q.total_cost = [l.total_cost EXCEPT ![w] = @ + l.budget[w].cost]
  /\ q.rounds = [l.rounds EXCEPT ![w] = @ \cup {f.round}]
  /\ q.opened_by = [l.opened_by EXCEPT ![w] = IF OpensIncident(l, w) THEN f.round ELSE @]
  /\ q.incident = [l.incident EXCEPT ![w] = IncidentRounds(l, w, f.round)]
  /\ q.confirmation = [l.confirmation EXCEPT ![f.round] = f]
  /\ q.charged_to = [l.charged_to EXCEPT ![f.round] = w]

\* The fields after a new confirmation, one by one.
LEMMA RecordFields ==
  ASSUME NEW l \in AndonLedger, NEW f \in Facts, CanRecord(l, f)
  PROVE  RecordedAs(l, AfterRecord(l, f), f, Charged(l, f))
<1> DEFINE w == Charged(l, f)
           q == AfterRecord(l, f)
<1>1. w \in CoveringWindow(l, f)
  BY DEF CanRecord, Charged
<1>2. w \in Registered(l) /\ Covers(l.budget[w], f)
  BY <1>1 DEF CoveringWindow
<1> HIDE DEF w
<1>3. w \in WindowIds /\ f.round \in RoundNumbers /\ l.budget[w] \in Budgets
  BY <1>2, AndonAssumption DEF Registered, AndonLedger
<1>4. l.budget[w].cost \in Nat /\ l.false_stops[w] + 1 \in Nat
  BY <1>3, AndonAssumption DEF AndonLedger
<1>5. l.total_cost[w] + l.budget[w].cost \in Nat
  BY <1>3, <1>4 DEF AndonLedger
<1>6. IncidentRounds(l, w, f.round) \in SUBSET RoundNumbers
  BY <1>3 DEF IncidentRounds, AndonLedger
<1>7. (IF OpensIncident(l, w) THEN f.round ELSE l.opened_by[w]) \in RoundNumbers \cup {Unset}
  BY <1>3 DEF AndonLedger
<1>8. q = [l EXCEPT !.false_stops[w] = @ + 1,
                    !.total_cost[w] = @ + l.budget[w].cost,
                    !.rounds[w] = @ \cup {f.round},
                    !.opened_by[w] = IF OpensIncident(l, w) THEN f.round ELSE @,
                    !.incident[w] = IncidentRounds(l, w, f.round),
                    !.confirmation[f.round] = f,
                    !.charged_to[f.round] = w]
  BY DEF AfterRecord, Charged, w
<1> HIDE DEF q
<1>9. /\ q.budget = l.budget
      /\ q.false_stops = [l.false_stops EXCEPT ![w] = @ + 1]
      /\ q.total_cost = [l.total_cost EXCEPT ![w] = @ + l.budget[w].cost]
      /\ q.rounds = [l.rounds EXCEPT ![w] = @ \cup {f.round}]
      /\ q.opened_by = [l.opened_by EXCEPT ![w] =
                          IF OpensIncident(l, w) THEN f.round ELSE @]
      /\ q.incident = [l.incident EXCEPT ![w] = IncidentRounds(l, w, f.round)]
      /\ q.confirmation = [l.confirmation EXCEPT ![f.round] = f]
      /\ q.charged_to = [l.charged_to EXCEPT ![f.round] = w]
  BY <1>8 DEF AndonLedger
<1>10. q = [budget |-> q.budget, false_stops |-> q.false_stops, total_cost |-> q.total_cost,
            rounds |-> q.rounds, opened_by |-> q.opened_by, incident |-> q.incident,
            confirmation |-> q.confirmation, charged_to |-> q.charged_to]
  BY <1>8 DEF AndonLedger
<1>11. /\ q.budget \in [WindowIds -> Budgets \cup {Unset}]
       /\ q.false_stops \in [WindowIds -> Nat]
       /\ q.total_cost \in [WindowIds -> Nat]
       /\ q.rounds \in [WindowIds -> SUBSET RoundNumbers]
       /\ q.opened_by \in [WindowIds -> RoundNumbers \cup {Unset}]
       /\ q.incident \in [WindowIds -> SUBSET RoundNumbers]
       /\ q.confirmation \in [RoundNumbers -> Facts \cup {Unset}]
       /\ q.charged_to \in [RoundNumbers -> WindowIds \cup {Unset}]
  BY <1>3, <1>4, <1>5, <1>6, <1>7, <1>9 DEF AndonLedger
<1>12. q \in AndonLedger
  BY <1>10, <1>11 DEF AndonLedger
<1>13. QED
  BY <1>2, <1>9, <1>12 DEF RecordedAs, w, q

\* A new stop enters the account of the one window that covers it.
LEMMA RecordKeeps ==
  ASSUME NEW l, Good(l), NEW f \in Facts, CanRecord(l, f)
  PROVE  Good(AfterRecord(l, f))
<1> DEFINE w == Charged(l, f)
           q == AfterRecord(l, f)
           r == f.round
<1>0. l \in AndonLedger /\ r \in RoundNumbers /\ f # Unset
  BY AndonAssumption DEF Good
<1>1. RecordedAs(l, q, f, w)
  BY <1>0, RecordFields
<1>2. l.confirmation[r] = Unset
  BY DEF CanRecord
<1> HIDE DEF q, w
<1>a. /\ w \in Registered(l) /\ Covers(l.budget[w], f)
      /\ q \in AndonLedger
      /\ q.budget = l.budget
      /\ q.false_stops = [l.false_stops EXCEPT ![w] = @ + 1]
      /\ q.total_cost = [l.total_cost EXCEPT ![w] = @ + l.budget[w].cost]
      /\ q.rounds = [l.rounds EXCEPT ![w] = @ \cup {r}]
      /\ q.opened_by = [l.opened_by EXCEPT ![w] = IF OpensIncident(l, w) THEN r ELSE @]
      /\ q.incident = [l.incident EXCEPT ![w] = IncidentRounds(l, w, r)]
      /\ q.confirmation = [l.confirmation EXCEPT ![r] = f]
      /\ q.charged_to = [l.charged_to EXCEPT ![r] = w]
  BY <1>1 DEF RecordedAs
<1> HIDE DEF r
<1>3. w \in WindowIds /\ l.budget[w] # Unset /\ l.budget[w] \in Budgets
  BY <1>0, <1>a DEF Registered, AndonLedger
<1>4. /\ l.confirmation \in [RoundNumbers -> Facts \cup {Unset}]
      /\ l.charged_to \in [RoundNumbers -> WindowIds \cup {Unset}]
      /\ l.false_stops \in [WindowIds -> Nat]
      /\ l.total_cost \in [WindowIds -> Nat]
      /\ l.rounds \in [WindowIds -> SUBSET RoundNumbers]
      /\ l.opened_by \in [WindowIds -> RoundNumbers \cup {Unset}]
      /\ l.incident \in [WindowIds -> SUBSET RoundNumbers]
      /\ l.budget \in [WindowIds -> Budgets \cup {Unset}]
  BY <1>0 DEF AndonLedger
<1>5. /\ Registered(q) = Registered(l)
      /\ Confirmed(q) = Confirmed(l) \cup {r}
      /\ r \notin Confirmed(l)
  BY <1>0, <1>a, <1>2, <1>4 DEF Registered, Confirmed
<1>6. /\ q.charged_to[r] = w
      /\ q.confirmation[r] = f
      /\ \A i \in RoundNumbers \ {r} : /\ q.charged_to[i] = l.charged_to[i]
                                       /\ q.confirmation[i] = l.confirmation[i]
  BY <1>0, <1>a, <1>4
<1>7. Confirmed(l) \subseteq RoundNumbers \ {r}
  BY <1>5 DEF Confirmed
<1>8. ASSUME NEW v \in WindowIds, v # w
      PROVE  ExactFor(q, v)
  <2>1. ExactFor(l, v)
    BY DEF Good, Exact
  <2>2. /\ q.false_stops[v] = l.false_stops[v] /\ q.total_cost[v] = l.total_cost[v]
        /\ q.rounds[v] = l.rounds[v] /\ q.opened_by[v] = l.opened_by[v]
        /\ q.incident[v] = l.incident[v] /\ q.budget[v] = l.budget[v]
    BY <1>a, <1>3, <1>4, <1>8
  <2>3. {i \in Confirmed(q) : q.charged_to[i] = v} = {i \in Confirmed(l) : l.charged_to[i] = v}
    BY <1>5, <1>6, <1>7, <1>8
  <2>4. l.budget[v] # Unset => ~Covers(l.budget[v], f)
    <3>1. SUFFICES ASSUME l.budget[v] # Unset, Covers(l.budget[v], f)
                   PROVE  FALSE
      OBVIOUS
    <3>2. Overlap(l.budget[v], l.budget[w])
      BY <1>a, <1>3, <1>4, <3>1, OneWindow
    <3>3. v \in Registered(l)
      BY <3>1 DEF Registered
    <3>4. QED
      BY <1>a, <1>8, <3>2, <3>3 DEF Good, Disjoint
  <2>5. l.budget[v] # Unset => \A i \in Confirmed(q) :
          q.charged_to[i] = v <=> Covers(q.budget[v], q.confirmation[i])
    BY <1>5, <1>6, <1>7, <1>8, <2>1, <2>2, <2>4 DEF ExactFor
  <2>6. QED
    BY <2>1, <2>2, <2>3, <2>5 DEF ExactFor
<1>9. ExactFor(q, w)
  <2>1. ExactFor(l, w)
    BY <1>3 DEF Good, Exact
  <2>2. /\ q.false_stops[w] = l.false_stops[w] + 1
        /\ q.total_cost[w] = l.total_cost[w] + l.budget[w].cost
        /\ q.rounds[w] = l.rounds[w] \cup {r}
        /\ q.opened_by[w] = IF OpensIncident(l, w) THEN r ELSE l.opened_by[w]
        /\ q.incident[w] = IncidentRounds(l, w, r)
        /\ q.budget[w] = l.budget[w]
    BY <1>a, <1>3, <1>4
  <2>3. q.rounds[w] = {i \in Confirmed(q) : q.charged_to[i] = w}
    BY <1>5, <1>6, <1>7, <2>1, <2>2 DEF ExactFor
  <2>4. q.false_stops[w] = Cardinality(q.rounds[w])
    <3>1. r \notin l.rounds[w]
      BY <1>5, <2>1 DEF ExactFor
    <3>2. IsFiniteSet(l.rounds[w])
      BY <1>3, <1>4, AndonAssumption, FS_Subset
    <3>3. Cardinality(l.rounds[w] \cup {r}) = Cardinality(l.rounds[w]) + 1
      BY <3>1, <3>2, FS_AddElement
    <3>4. QED
      BY <2>1, <2>2, <3>3 DEF ExactFor
  <2>5. q.total_cost[w] = q.false_stops[w] * q.budget[w].cost
    <3>1. l.total_cost[w] = l.false_stops[w] * l.budget[w].cost
      BY <1>3, <2>1 DEF ExactFor
    <3>2. l.budget[w].cost \in Nat /\ l.false_stops[w] \in Nat
      BY <1>3, <1>4, AndonAssumption
    <3>3. \A n, c \in Nat : n * c + c = (n + 1) * c
      OBVIOUS
    <3>4. QED
      BY <2>2, <3>1, <3>2, <3>3
  <2>6. \A i \in Confirmed(q) : q.charged_to[i] = w <=> Covers(q.budget[w], q.confirmation[i])
    BY <1>a, <1>3, <1>5, <1>6, <1>7, <2>1, <2>2 DEF ExactFor
  <2>7. r # Unset /\ r \in q.rounds[w]
    BY <1>0, <2>2, AndonAssumption
  <2>8. /\ l.false_stops[w] \in Nat /\ l.budget[w].allowed \in Nat
    BY <1>3, <1>4, AndonAssumption
  <2>9. q.opened_by[w] # Unset <=>
          (q.rounds[w] # {} /\ q.false_stops[w] >= q.budget[w].allowed)
    BY <1>3, <2>1, <2>2, <2>7, <2>8 DEF ExactFor, OpensIncident
  <2>10. /\ q.incident[w] = IF q.opened_by[w] = Unset THEN {} ELSE q.rounds[w]
         /\ q.opened_by[w] # Unset => q.opened_by[w] \in q.rounds[w]
    BY <2>1, <2>2, <2>7 DEF ExactFor, IncidentRounds
  <2>11. QED
    BY <1>3, <2>2, <2>3, <2>4, <2>5, <2>6, <2>9, <2>10 DEF ExactFor
<1>10. Disjoint(q)
  BY <1>a, <1>5 DEF Good, Disjoint
<1>11. \A i \in Confirmed(q) : q.charged_to[i] \in WindowIds
  BY <1>3, <1>5, <1>6, <1>7 DEF Good, Exact
<1>12. QED
  BY <1>a, <1>8, <1>9, <1>10, <1>11 DEF Good, Exact, q

-----------------------------------------------------------------------------
(* The ledger.                                                             *)

\* Every step of the ledger keeps type, disjoint windows and exact accounts.
LEMMA GoodStep == Good(ledger) /\ [Next]_ledger => Good(ledger)'
<1> SUFFICES ASSUME Good(ledger), [Next]_ledger
             PROVE  Good(ledger')
  BY DEF Good, Disjoint, Exact, ExactFor, Registered, Confirmed, Covers
<1>1. ASSUME NEW b \in Budgets, RegisterWindow(b)
      PROVE  Good(ledger')
  BY <1>1, RegisterKeeps DEF RegisterWindow
<1>2. ASSUME NEW f \in Facts, RecordTrusted(f)
      PROVE  Good(ledger')
  BY <1>2, RecordKeeps DEF RecordTrusted
<1>3. QED
  BY <1>1, <1>2 DEF Next

\* A new ledger is good.
LEMMA NewGood == Good(NewAndon)
<1>1. NewAndon \in AndonLedger
  BY DEF NewAndon, AndonLedger
<1>2. Registered(NewAndon) = {} /\ Confirmed(NewAndon) = {}
  BY DEF NewAndon, Registered, Confirmed
<1>3. ASSUME NEW w \in WindowIds
      PROVE  ExactFor(NewAndon, w)
  BY <1>2, FS_EmptySet DEF NewAndon, ExactFor
<1>4. QED
  BY <1>1, <1>2, <1>3 DEF Good, Disjoint, Exact

\* The inductive invariant of the andon ledger holds in every behaviour.
LEMMA GoodHolds == Spec => []Good(ledger)
<1>1. Init => Good(ledger)
  BY NewGood DEF Init
<1>2. QED
  BY <1>1, GoodStep, PTL DEF Spec

\* register_window: windows never share a moment.
THEOREM WindowsStayDisjoint == Spec => []WindowsDisjoint
<1>1. Good(ledger) => WindowsDisjoint
  BY DEF Good, Disjoint, WindowsDisjoint
<1>2. QED
  BY <1>1, GoodHolds, PTL

\* record_trusted: every stop is charged once, to the window it occurred in, and
\* an exhausted allowance opens an incident that names every contributor.
THEOREM AccountsStayExact == Spec => []AccountsExact
<1>1. Good(ledger) => AccountsExact
  BY DEF Good, AccountsExact
<1>2. QED
  BY <1>1, GoodHolds, PTL

\* AndonLedger has no refund: windows, confirmations and open incidents stay.
THEOREM NothingRefunded == Spec => NeverRefunded
<1>1. Good(ledger) /\ [Next]_ledger => [OnlyGrows]_ledger
  <2> SUFFICES ASSUME Good(ledger), Next
               PROVE  OnlyGrows
    OBVIOUS
  <2>0. /\ ledger \in AndonLedger
        /\ ledger.budget \in [WindowIds -> Budgets \cup {Unset}]
        /\ ledger.confirmation \in [RoundNumbers -> Facts \cup {Unset}]
        /\ ledger.charged_to \in [RoundNumbers -> WindowIds \cup {Unset}]
        /\ ledger.false_stops \in [WindowIds -> Nat]
        /\ ledger.opened_by \in [WindowIds -> RoundNumbers \cup {Unset}]
    BY DEF Good, AndonLedger
  <2>1. ASSUME NEW b \in Budgets, RegisterWindow(b)
        PROVE  OnlyGrows
    <3>1. /\ ledger'.budget = [ledger.budget EXCEPT ![b.window] = b]
          /\ ledger'.confirmation = ledger.confirmation
          /\ ledger'.charged_to = ledger.charged_to
          /\ ledger'.false_stops = ledger.false_stops
          /\ ledger'.opened_by = ledger.opened_by
      BY <2>0, <2>1 DEF RegisterWindow, AfterRegister, AndonLedger
    <3>2. ledger.budget[b.window] = Unset
      BY <2>1 DEF RegisterWindow, CanRegister
    <3>3. QED
      BY <2>0, <3>1, <3>2 DEF OnlyGrows, Registered
  <2>2. ASSUME NEW f \in Facts, RecordTrusted(f)
        PROVE  OnlyGrows
    <3> DEFINE w == Charged(ledger, f)
    <3>1. CanRecord(ledger, f) /\ ledger' = AfterRecord(ledger, f)
      BY <2>2 DEF RecordTrusted
    <3>a. RecordedAs(ledger, AfterRecord(ledger, f), f, w)
      BY <2>0, <3>1, RecordFields
    <3>2. /\ w \in Registered(ledger)
          /\ ledger'.budget = ledger.budget
          /\ ledger'.false_stops = [ledger.false_stops EXCEPT ![w] = @ + 1]
          /\ ledger'.opened_by = [ledger.opened_by EXCEPT ![w] =
                                    IF OpensIncident(ledger, w) THEN f.round ELSE @]
          /\ ledger'.confirmation = [ledger.confirmation EXCEPT ![f.round] = f]
          /\ ledger'.charged_to = [ledger.charged_to EXCEPT ![f.round] = w]
      BY <3>1, <3>a DEF RecordedAs
    <3>3. ledger.confirmation[f.round] = Unset
      BY <3>1 DEF CanRecord
    <3> HIDE DEF w
    <3>4. \A r \in Confirmed(ledger) :
            /\ ledger'.confirmation[r] = ledger.confirmation[r]
            /\ ledger'.charged_to[r] = ledger.charged_to[r]
      BY <2>0, <3>2, <3>3 DEF Confirmed
    <3>5. \A v \in WindowIds :
            /\ ledger.false_stops[v] <= ledger'.false_stops[v]
            /\ ledger.opened_by[v] # Unset => ledger'.opened_by[v] = ledger.opened_by[v]
      BY <2>0, <3>2 DEF OpensIncident
    <3>6. QED
      BY <3>2, <3>4, <3>5 DEF OnlyGrows, Registered
  <2>3. QED
    BY <2>1, <2>2 DEF Next
<1>2. QED
  BY <1>1, GoodHolds, PTL DEF Spec, NeverRefunded

-----------------------------------------------------------------------------
(* The file.  First, what a list of records does to a ledger.              *)

\* Induction over the natural numbers, for a set.
LEMMA NatInduct ==
  ASSUME NEW S, 0 \in S, \A n \in Nat : n \in S => n + 1 \in S
  PROVE  Nat \subseteq S
<1> DEFINE R == OpToRel(<, Nat)
           T == Nat \ S
<1>1. SUFFICES ASSUME T # {} PROVE FALSE
  OBVIOUS
<1>2. IsWellFoundedOn(R, Nat) /\ T \subseteq Nat
  BY NatLessThanWellFounded
<1>3. \E x \in T : \A y \in T : ~ (<<y, x>> \in R)
  <2> HIDE DEF R, T
  <2> QED BY <1>1, <1>2, WFMin
<1>4. PICK x \in T : \A y \in T : ~ (<<y, x>> \in R)
  BY <1>3
<1>5. x \in Nat /\ x # 0 /\ x \notin S
  BY <1>4
<1>6. x - 1 \in Nat /\ x - 1 < x
  BY <1>5
<1>7. <<x - 1, x>> \in R
  BY <1>5, <1>6 DEF OpToRel
<1>8. x - 1 \in S
  BY <1>4, <1>6, <1>7
<1> QED BY <1>5, <1>6, <1>8

\* f[k] is the ledger after the first k records, up to n.
Stepwise(f, l, recs, n) ==
  f = [k \in 0..n |-> IF k = 0 THEN l ELSE AfterApply(f[k - 1], recs[k])]

\* There is such a function.
LEMMA StepwiseExists ==
  ASSUME NEW l, NEW recs
  PROVE  \A n \in Nat : \E f : Stepwise(f, l, recs, n)
<1> DEFINE S == {n \in Nat : \E f : Stepwise(f, l, recs, n)}
<1>1. 0 \in S
  <2> DEFINE f == [k \in 0..0 |-> l]
  <2>1. Stepwise(f, l, recs, 0)
    BY DEF Stepwise
  <2> QED BY <2>1
<1>2. ASSUME NEW n \in Nat, n \in S
      PROVE  n + 1 \in S
  <2>1. PICK f : Stepwise(f, l, recs, n)
    BY <1>2
  <2> DEFINE g == [k \in 0..(n + 1) |->
                     IF k = n + 1 THEN AfterApply(f[n], recs[n + 1]) ELSE f[k]]
             h == [k \in 0..(n + 1) |-> IF k = 0 THEN l ELSE AfterApply(g[k - 1], recs[k])]
  <2>2. \A k \in 0..n : f[k] = IF k = 0 THEN l ELSE AfterApply(f[k - 1], recs[k])
    BY <2>1 DEF Stepwise
  <2>3. ASSUME NEW k \in 0..(n + 1)
        PROVE  g[k] = h[k]
    <3>1. CASE k = n + 1
      <4>1. g[k - 1] = f[n]
        BY <3>1
      <4>2. g[k] = AfterApply(f[n], recs[n + 1]) /\ h[k] = AfterApply(g[k - 1], recs[k])
        BY <3>1
      <4> QED BY <3>1, <4>1, <4>2
    <3>2. CASE k = 0
      BY <3>2, <2>2
    <3>3. CASE k # 0 /\ k # n + 1
      <4>1. k \in 0..n /\ k - 1 \in 0..(n + 1) /\ k - 1 # n + 1
        BY <3>3
      <4>2. g[k] = f[k] /\ g[k - 1] = f[k - 1] /\ h[k] = AfterApply(g[k - 1], recs[k])
        BY <3>3, <4>1
      <4> QED BY <2>2, <3>3, <4>1, <4>2
    <3> QED BY <3>1, <3>2, <3>3
  <2>4. g = h
    BY <2>3
  <2>5. Stepwise(g, l, recs, n + 1)
    BY <2>4 DEF Stepwise
  <2> QED BY <2>5
<1>3. Nat \subseteq S
  <2> HIDE DEF S
  <2> QED BY <1>1, <1>2, NatInduct
<1> QED BY <1>3

\* Two lists have the same first n records.
SameUpTo(recs, secs, n) == \A k \in 1..n : recs[k] = secs[k]

\* Two such functions agree as long as their records do.
LEMMA StepwiseAgree ==
  ASSUME NEW l, NEW recs, NEW secs, NEW f, NEW g,
         NEW m \in Nat, NEW n \in Nat, m <= n,
         SameUpTo(recs, secs, m), Stepwise(f, l, recs, m), Stepwise(g, l, secs, n)
  PROVE  f[m] = g[m]
<1> DEFINE S == {k \in Nat : k <= m => f[k] = g[k]}
<1>1. \A k \in 0..m : f[k] = IF k = 0 THEN l ELSE AfterApply(f[k - 1], recs[k])
  BY DEF Stepwise
<1>2. \A k \in 0..n : g[k] = IF k = 0 THEN l ELSE AfterApply(g[k - 1], secs[k])
  BY DEF Stepwise
<1>3. 0 \in S
  <2>1. f[0] = l /\ g[0] = l
    BY <1>1, <1>2
  <2> QED BY <2>1
<1>4. ASSUME NEW k \in Nat, k \in S
      PROVE  k + 1 \in S
  <2>1. SUFFICES ASSUME k + 1 <= m PROVE f[k + 1] = g[k + 1]
    OBVIOUS
  <2>2. /\ f[k] = g[k] /\ k + 1 \in 0..m /\ k + 1 \in 0..n
        /\ recs[k + 1] = secs[k + 1]
    BY <1>4, <2>1 DEF SameUpTo
  <2>3. f[k + 1] = AfterApply(f[k], recs[k + 1]) /\ g[k + 1] = AfterApply(g[k], secs[k + 1])
    BY <1>1, <1>2, <2>2
  <2> QED BY <2>2, <2>3
<1>5. Nat \subseteq S
  <2> HIDE DEF S
  <2> QED BY <1>3, <1>4, NatInduct
<1> QED BY <1>5

\* What AppliedUpTo returns is the last value of such a function.
LEMMA AppliedStepwise ==
  ASSUME NEW l, NEW recs, NEW n \in Nat
  PROVE  \E f : Stepwise(f, l, recs, n) /\ AppliedUpTo(l, recs, n) = f[n]
<1> DEFINE P(f) == f = [k \in 0..n |-> IF k = 0 THEN l ELSE AfterApply(f[k - 1], recs[k])]
           u == CHOOSE f : P(f)
<1>0. \E f : Stepwise(f, l, recs, n)
  BY StepwiseExists
<1>1. \E f : P(f)
  BY <1>0 DEF Stepwise
<1>2. P(u)
  BY <1>1
<1>3. AppliedUpTo(l, recs, n) = u[n]
  BY DEF AppliedUpTo
<1>4. Stepwise(u, l, recs, n)
  BY <1>2 DEF Stepwise
<1> QED BY <1>3, <1>4

\* The records are applied one after the other.
LEMMA AppliedSteps ==
  ASSUME NEW l, NEW recs
  PROVE  /\ AppliedUpTo(l, recs, 0) = l
         /\ \A k \in Nat : AppliedUpTo(l, recs, k + 1)
                             = AfterApply(AppliedUpTo(l, recs, k), recs[k + 1])
<1>1. AppliedUpTo(l, recs, 0) = l
  <2>1. PICK f : Stepwise(f, l, recs, 0) /\ AppliedUpTo(l, recs, 0) = f[0]
    BY AppliedStepwise
  <2> QED BY <2>1 DEF Stepwise
<1>2. ASSUME NEW k \in Nat
      PROVE  AppliedUpTo(l, recs, k + 1) = AfterApply(AppliedUpTo(l, recs, k), recs[k + 1])
  <2> DEFINE n == k + 1
  <2>1. n \in Nat /\ k <= k /\ k <= n /\ n \in 0..n /\ n # 0 /\ n - 1 = k /\ k \in 0..k
    OBVIOUS
  <2> HIDE DEF n
  <2>2. PICK f : Stepwise(f, l, recs, k) /\ AppliedUpTo(l, recs, k) = f[k]
    BY AppliedStepwise
  <2>3. PICK g : Stepwise(g, l, recs, n) /\ AppliedUpTo(l, recs, n) = g[n]
    BY <2>1, AppliedStepwise
  <2>4. SameUpTo(recs, recs, k)
    BY DEF SameUpTo
  <2>5. f[k] = g[k]
    <3>1. n \in Nat /\ k <= n /\ Stepwise(f, l, recs, k) /\ Stepwise(g, l, recs, n)
      BY <2>1, <2>2, <2>3
    <3> QED BY <2>4, <3>1, StepwiseAgree
  <2>6. g[n] = AfterApply(g[n - 1], recs[n])
    <3>1. g = [i \in 0..n |-> IF i = 0 THEN l ELSE AfterApply(g[i - 1], recs[i])]
      BY <2>3 DEF Stepwise
    <3> QED BY <2>1, <3>1
  <2>7. AppliedUpTo(l, recs, n) = AfterApply(AppliedUpTo(l, recs, k), recs[n])
    BY <2>1, <2>2, <2>3, <2>5, <2>6
  <2> QED BY <2>7 DEF n
<1> QED BY <1>1, <1>2

\* Only the records applied matter.
LEMMA AppliedSame ==
  ASSUME NEW l, NEW recs, NEW secs, NEW n \in Nat, \A k \in 1..n : recs[k] = secs[k]
  PROVE  AppliedUpTo(l, recs, n) = AppliedUpTo(l, secs, n)
<1>1. PICK f : Stepwise(f, l, recs, n) /\ AppliedUpTo(l, recs, n) = f[n]
  BY AppliedStepwise
<1>2. PICK g : Stepwise(g, l, secs, n) /\ AppliedUpTo(l, secs, n) = g[n]
  BY AppliedStepwise
<1>3. n <= n /\ n \in 0..n
  OBVIOUS
<1>4. f[n] = g[n]
  <2> DEFINE m == n
  <2>1. m \in Nat /\ n <= m /\ Stepwise(g, l, secs, m) /\ SameUpTo(recs, secs, n)
    BY <1>2, <1>3 DEF SameUpTo
  <2> HIDE DEF m
  <2> QED BY <1>1, <2>1, StepwiseAgree
<1> QED BY <1>1, <1>2, <1>3, <1>4

\* What an appended record leaves of a history.
LEMMA AppendFacts ==
  ASSUME NEW s \in Seq(Records), NEW x \in Records
  PROVE  /\ Len(s) \in Nat /\ Append(s, x) \in Seq(Records)
         /\ Len(Append(s, x)) = Len(s) + 1 /\ Append(s, x)[Len(s) + 1] = x
         /\ \A k \in 1..Len(s) : Append(s, x)[k] = s[k]
OBVIOUS

\* The first n records of a history.
LEMMA CutFacts ==
  ASSUME NEW s \in Seq(Records), NEW n \in 0..Len(s)
  PROVE  /\ n \in Nat /\ Len(s) \in Nat
         /\ SubSeq(s, 1, n) \in Seq(Records) /\ Len(SubSeq(s, 1, n)) = n
         /\ \A k \in 1..n : SubSeq(s, 1, n)[k] = s[k]
         /\ SubSeq(s, 1, Len(s)) = s
<1>1. n \in Nat /\ Len(s) \in Nat /\ \A k \in 1..n : s[k] \in Records
  OBVIOUS
<1>2. SubSeq(s, 1, n) = [k \in 1..n |-> s[k]]
  OBVIOUS
<1>3. [k \in 1..n |-> s[k]] \in Seq(Records) /\ Len([k \in 1..n |-> s[k]]) = n
  BY <1>1
<1>4. SubSeq(s, 1, Len(s)) = s
  OBVIOUS
<1> QED BY <1>1, <1>2, <1>3, <1>4

\* s is the beginning of t.
Begins(s, t) == Len(s) <= Len(t) /\ \A k \in 1..Len(s) : s[k] = t[k]

\* That is what IsPrefix says.
LEMMA BeginsIff ==
  ASSUME NEW s \in Seq(Records), NEW t \in Seq(Records)
  PROVE  IsPrefix(s, t) <=> Begins(s, t)
<1> DEFINE u == SubSeq(t, 1, Len(s))
<1>1. SubSeq(s, 1, Len(s)) = s /\ Len(s) \in Nat /\ Len(t) \in Nat
  BY CutFacts
<1>2. ASSUME IsPrefix(s, t) PROVE Begins(s, t)
  <2>1. Len(s) <= Len(t) /\ s = u
    BY <1>1, <1>2 DEF IsPrefix
  <2>2. \A k \in 1..Len(s) : u[k] = t[k]
    BY <1>1, <2>1, CutFacts
  <2> QED BY <2>1, <2>2 DEF Begins
<1>3. ASSUME Begins(s, t) PROVE IsPrefix(s, t)
  <2>1. Len(s) \in 0..Len(t)
    BY <1>1, <1>3 DEF Begins
  <2>2. u \in Seq(Records) /\ Len(u) = Len(s) /\ \A k \in 1..Len(s) : u[k] = t[k]
    BY <2>1, CutFacts
  <2> HIDE DEF u
  <2>3. u = s
    BY <1>1, <1>3, <2>2 DEF Begins
  <2> QED BY <1>1, <1>3, <2>3 DEF IsPrefix, Begins, u
<1> QED BY <1>2, <1>3

\* Replaying one record more is applying it.
LEMMA ReplayAppend ==
  ASSUME NEW s \in Seq(Records), NEW x \in Records
  PROVE  Replay(Append(s, x)) = AfterApply(Replay(s), x)
<1> DEFINE n == Len(s)
           t == Append(s, x)
<1>1. n \in Nat /\ Len(t) = n + 1 /\ t[n + 1] = x /\ \A k \in 1..n : s[k] = t[k]
  BY AppendFacts
<1> HIDE DEF n, t
<1>2. AppliedUpTo(NewAndon, t, n + 1) = AfterApply(AppliedUpTo(NewAndon, t, n), t[n + 1])
  BY <1>1, AppliedSteps
<1>3. AppliedUpTo(NewAndon, s, n) = AppliedUpTo(NewAndon, t, n)
  BY <1>1, AppliedSame
<1>4. Replay(t) = AppliedUpTo(NewAndon, t, n + 1) /\ Replay(s) = AppliedUpTo(NewAndon, s, n)
  BY <1>1 DEF Replay, n
<1> QED BY <1>1, <1>2, <1>3, <1>4 DEF t

\* A record that a ledger accepts may follow the history the ledger was rebuilt from.
LEMMA ReplayableAppend ==
  ASSUME NEW s \in Seq(Records), NEW x \in Records, Replayable(s),
         CanApply(Replay(s), x), Len(s) < MaxRecords
  PROVE  Replayable(Append(s, x))
<1> DEFINE n == Len(s)
           t == Append(s, x)
<1>1. n \in Nat /\ Len(t) = n + 1 /\ t[n + 1] = x /\ \A k \in 1..n : s[k] = t[k]
  BY AppendFacts
<1>2. /\ Replay(s) = AppliedUpTo(NewAndon, s, n) /\ n < MaxRecords
      /\ \A k \in 1..n : CanApply(AppliedUpTo(NewAndon, s, k - 1), s[k])
  BY DEF Replay, Replayable
<1> HIDE DEF n, t
<1>3. Len(t) <= MaxRecords
  BY <1>1, <1>2, FileAndonAssumption
<1>4. ASSUME NEW k \in 1..Len(t)
      PROVE  CanApply(AppliedUpTo(NewAndon, t, k - 1), t[k])
  <2> DEFINE m == k - 1
  <2>1. m \in Nat /\ m <= n /\ k \in 1..(n + 1)
    BY <1>1
  <2>2. \A i \in 1..m : s[i] = t[i]
    BY <1>1, <2>1
  <2> HIDE DEF m
  <2>3. AppliedUpTo(NewAndon, s, m) = AppliedUpTo(NewAndon, t, m)
    BY <2>1, <2>2, AppliedSame
  <2>4. CASE k = n + 1
    <3>1. m = n
      BY <1>1, <2>4 DEF m
    <3> QED BY <1>1, <1>2, <2>3, <2>4, <3>1 DEF m
  <2>5. CASE k # n + 1
    <3>1. k \in 1..n
      BY <1>1, <2>1, <2>5
    <3>2. CanApply(AppliedUpTo(NewAndon, s, m), s[k])
      BY <1>2, <3>1 DEF m
    <3> QED BY <1>1, <2>3, <3>1, <3>2 DEF m
  <2> QED BY <2>4, <2>5
<1> QED BY <1>3, <1>4 DEF Replayable, t

\* What begins a history that replays, replays; and the next record applies there.
LEMMA ReplayableBegins ==
  ASSUME NEW s \in Seq(Records), NEW t \in Seq(Records), Replayable(t), Begins(s, t)
  PROVE  /\ Replayable(s)
         /\ Len(s) < Len(t) => CanApply(Replay(s), t[Len(s) + 1])
<1> DEFINE n == Len(s)
<1>1. n \in Nat /\ Len(t) \in Nat /\ n <= Len(t) /\ \A k \in 1..n : s[k] = t[k]
  BY DEF Begins
<1>2. /\ Len(t) <= MaxRecords
      /\ \A k \in 1..Len(t) : CanApply(AppliedUpTo(NewAndon, t, k - 1), t[k])
  BY DEF Replayable
<1>3. Replay(s) = AppliedUpTo(NewAndon, s, n)
  BY DEF Replay
<1> HIDE DEF n
<1>4. ASSUME NEW m \in 0..n
      PROVE  AppliedUpTo(NewAndon, s, m) = AppliedUpTo(NewAndon, t, m)
  <2>1. m \in Nat /\ \A k \in 1..m : s[k] = t[k]
    BY <1>1
  <2> QED BY <2>1, AppliedSame
<1>5. n <= MaxRecords
  BY <1>1, <1>2, FileAndonAssumption
<1>6. ASSUME NEW k \in 1..n
      PROVE  CanApply(AppliedUpTo(NewAndon, s, k - 1), s[k])
  <2>1. k - 1 \in 0..n /\ k \in 1..Len(t)
    BY <1>1
  <2> QED BY <1>1, <1>2, <1>4, <2>1
<1>7. ASSUME n < Len(t)
      PROVE  CanApply(Replay(s), t[n + 1])
  <2>1. n + 1 \in 1..Len(t) /\ (n + 1) - 1 = n /\ n \in 0..n
    BY <1>1, <1>7
  <2>2. CanApply(AppliedUpTo(NewAndon, t, (n + 1) - 1), t[n + 1])
    BY <1>2, <2>1
  <2> QED BY <1>3, <1>4, <2>1, <2>2
<1> QED BY <1>5, <1>6, <1>7 DEF Replayable, n

\* A record is a window or a confirmation.
LEMMA RecordCases ==
  ASSUME NEW x \in Records
  PROVE  \/ x.kind = "Window" /\ x.value \in Budgets
         \/ x.kind = "FalseHold" /\ x.value \in Facts
BY DEF Records

\* Applying a record keeps a ledger good.
LEMMA ApplyKeeps ==
  ASSUME NEW l, Good(l), NEW x \in Records
  PROVE  Good(AfterApply(l, x))
<1>1. CASE ~CanApply(l, x)
  BY <1>1 DEF AfterApply
<1>2. CASE CanApply(l, x) /\ x.kind = "Window"
  <2>1. x.value \in Budgets /\ CanRegister(l, x.value) /\ AfterApply(l, x) = AfterRegister(l, x.value)
    BY <1>2, RecordCases DEF CanApply, AfterApply
  <2> QED BY <2>1, RegisterKeeps
<1>3. CASE CanApply(l, x) /\ x.kind # "Window"
  <2>1. x.value \in Facts /\ CanRecord(l, x.value) /\ AfterApply(l, x) = AfterRecord(l, x.value)
    BY <1>3, RecordCases DEF CanApply, AfterApply
  <2> QED BY <2>1, RecordKeeps
<1> QED BY <1>1, <1>2, <1>3

\* So replay rebuilds a good ledger from any records.
LEMMA ReplayGood ==
  ASSUME NEW s \in Seq(Records)
  PROVE  /\ \A k \in 0..Len(s) : Good(AppliedUpTo(NewAndon, s, k))
         /\ Good(Replay(s))
<1> DEFINE S == {k \in Nat : k <= Len(s) => Good(AppliedUpTo(NewAndon, s, k))}
<1>0. Len(s) \in Nat
  OBVIOUS
<1>1. 0 \in S
  BY AppliedSteps, NewGood
<1>2. ASSUME NEW k \in Nat, k \in S
      PROVE  k + 1 \in S
  <2>1. SUFFICES ASSUME k + 1 <= Len(s) PROVE Good(AppliedUpTo(NewAndon, s, k + 1))
    OBVIOUS
  <2>2. s[k + 1] \in Records /\ Good(AppliedUpTo(NewAndon, s, k))
    BY <1>0, <1>2, <2>1
  <2>3. AppliedUpTo(NewAndon, s, k + 1) = AfterApply(AppliedUpTo(NewAndon, s, k), s[k + 1])
    BY AppliedSteps
  <2> QED BY <2>2, <2>3, ApplyKeeps
<1>3. Nat \subseteq S
  <2> HIDE DEF S
  <2> QED BY <1>1, <1>2, NatInduct
<1>4. \A k \in 0..Len(s) : Good(AppliedUpTo(NewAndon, s, k))
  BY <1>0, <1>3
<1> QED BY <1>0, <1>4 DEF Replay

\* A ledger has no window and no confirmation that is not one of the first k records.
Known(l, s, k) ==
  /\ \A b \in Budgets : l.budget[b.window] = b =>
       \E j \in 1..k : s[j] = [kind |-> "Window", value |-> b]
  /\ \A f \in Facts : l.confirmation[f.round] = f =>
       \E j \in 1..k : s[j] = [kind |-> "FalseHold", value |-> f]

\* One more record makes itself known, and nothing else.
LEMMA ApplyKnown ==
  ASSUME NEW l, Good(l), NEW s, NEW k \in Nat, s[k + 1] \in Records, Known(l, s, k)
  PROVE  Known(AfterApply(l, s[k + 1]), s, k + 1)
<1> DEFINE x == s[k + 1]
           q == AfterApply(l, x)
<1>0. k + 1 \in 1..(k + 1) /\ \A j \in 1..k : j \in 1..(k + 1)
  OBVIOUS
<1>1. l \in AndonLedger /\ x \in Records
  BY DEF Good
<1>2. /\ l.budget \in [WindowIds -> Budgets \cup {Unset}]
      /\ l.confirmation \in [RoundNumbers -> Facts \cup {Unset}]
  BY <1>1 DEF AndonLedger
<1> HIDE DEF x
<1>3. CASE ~CanApply(l, x)
  <2>1. q = l
    BY <1>3 DEF AfterApply
  <2> QED BY <1>0, <2>1 DEF Known, x
<1>4. CASE CanApply(l, x) /\ x.kind = "Window"
  <2> DEFINE b == x.value
  <2>1. b \in Budgets /\ q = AfterRegister(l, b) /\ x = [kind |-> "Window", value |-> b]
    BY <1>1, <1>4 DEF Records, AfterApply
  <2>2. b.window \in WindowIds
    BY <2>1, AndonAssumption
  <2>3. q.budget = [l.budget EXCEPT ![b.window] = b] /\ q.confirmation = l.confirmation
    BY <1>1, <2>1 DEF AfterRegister, AndonLedger
  <2> HIDE DEF q, b
  <2>4. ASSUME NEW c \in Budgets, q.budget[c.window] = c
        PROVE  \E j \in 1..(k + 1) : s[j] = [kind |-> "Window", value |-> c]
    <3>1. c.window \in WindowIds
      BY AndonAssumption
    <3>2. CASE c.window = b.window
      <4>1. c = b
        BY <1>2, <2>2, <2>3, <2>4, <3>1, <3>2
      <4> QED BY <1>0, <2>1, <4>1 DEF x
    <3>3. CASE c.window # b.window
      <4>1. l.budget[c.window] = c
        BY <1>2, <2>2, <2>3, <2>4, <3>1, <3>3
      <4> QED BY <1>0, <4>1 DEF Known
    <3> QED BY <3>2, <3>3
  <2>5. ASSUME NEW f \in Facts, q.confirmation[f.round] = f
        PROVE  \E j \in 1..(k + 1) : s[j] = [kind |-> "FalseHold", value |-> f]
    BY <1>0, <2>3, <2>5 DEF Known
  <2> QED BY <2>4, <2>5 DEF Known, q, x
<1>5. CASE CanApply(l, x) /\ x.kind # "Window"
  <2> DEFINE g == x.value
  <2>1. /\ g \in Facts /\ q = AfterRecord(l, g) /\ CanRecord(l, g)
        /\ x = [kind |-> "FalseHold", value |-> g]
    BY <1>1, <1>5 DEF Records, AfterApply, CanApply
  <2>2. g.round \in RoundNumbers
    BY <2>1, AndonAssumption
  <2>3. q.budget = l.budget /\ q.confirmation = [l.confirmation EXCEPT ![g.round] = g]
    <3>1. RecordedAs(l, AfterRecord(l, g), g, Charged(l, g))
      <4> HIDE DEF g
      <4> QED BY <1>1, <2>1, RecordFields
    <3> DEFINE w == Charged(l, g)
    <3> HIDE DEF q, g, w
    <3>2. RecordedAs(l, q, g, w)
      BY <2>1, <3>1 DEF w
    <3> QED BY <3>2 DEF RecordedAs
  <2> HIDE DEF q, g
  <2>4. ASSUME NEW f \in Facts, q.confirmation[f.round] = f
        PROVE  \E j \in 1..(k + 1) : s[j] = [kind |-> "FalseHold", value |-> f]
    <3>1. f.round \in RoundNumbers
      BY AndonAssumption
    <3>2. CASE f.round = g.round
      <4>1. f = g
        BY <1>2, <2>2, <2>3, <2>4, <3>1, <3>2
      <4> QED BY <1>0, <2>1, <4>1 DEF x
    <3>3. CASE f.round # g.round
      <4>1. l.confirmation[f.round] = f
        BY <1>2, <2>2, <2>3, <2>4, <3>1, <3>3
      <4> QED BY <1>0, <4>1 DEF Known
    <3> QED BY <3>2, <3>3
  <2>5. ASSUME NEW c \in Budgets, q.budget[c.window] = c
        PROVE  \E j \in 1..(k + 1) : s[j] = [kind |-> "Window", value |-> c]
    BY <1>0, <2>3, <2>5 DEF Known
  <2> QED BY <2>4, <2>5 DEF Known, q, x
<1> QED BY <1>3, <1>4, <1>5

\* An exact retry is a record of the history, and is never accepted a second time.
LEMMA RetryRecorded ==
  ASSUME NEW s \in Seq(Records), NEW x \in Records, IsRetry(Replay(s), x)
  PROVE  ~CanApply(Replay(s), x) /\ \E j \in 1..Len(s) : s[j] = x
<1> DEFINE A(k) == AppliedUpTo(NewAndon, s, k)
           S == {k \in Nat : k <= Len(s) => Known(A(k), s, k)}
<1>0. Len(s) \in Nat /\ Replay(s) = A(Len(s))
  BY DEF Replay
<1>1. 0 \in S
  <2>1. A(0) = NewAndon
    BY AppliedSteps
  <2>2. ASSUME NEW b \in Budgets PROVE NewAndon.budget[b.window] # b
    BY AndonAssumption DEF NewAndon
  <2>3. ASSUME NEW f \in Facts PROVE NewAndon.confirmation[f.round] # f
    BY AndonAssumption DEF NewAndon
  <2>4. Known(NewAndon, s, 0)
    BY <2>2, <2>3 DEF Known
  <2> HIDE DEF A
  <2> QED BY <2>1, <2>4
<1>2. ASSUME NEW k \in Nat, k \in S
      PROVE  k + 1 \in S
  <2>1. SUFFICES ASSUME k + 1 <= Len(s) PROVE Known(A(k + 1), s, k + 1)
    <3> HIDE DEF A
    <3> QED OBVIOUS
  <2>2. k \in 0..Len(s) /\ s[k + 1] \in Records
    BY <1>0, <2>1
  <2>3. A(k + 1) = AfterApply(A(k), s[k + 1]) /\ Good(A(k))
    BY <2>2, AppliedSteps, ReplayGood
  <2> HIDE DEF A
  <2>4. Known(A(k), s, k)
    BY <1>0, <1>2, <2>2
  <2> QED BY <2>2, <2>3, <2>4, ApplyKnown
<1>3. Nat \subseteq S
  <2> HIDE DEF S
  <2> QED BY <1>1, <1>2, NatInduct
<1> HIDE DEF A
<1>4. Known(Replay(s), s, Len(s))
  BY <1>0, <1>3
<1>5. CASE x.kind = "Window"
  <2>1. x.value \in Budgets /\ x = [kind |-> "Window", value |-> x.value]
    BY <1>5 DEF Records
  <2>2. Replay(s).budget[x.value.window] = x.value /\ x.value # Unset
    BY <1>5, <2>1, AndonAssumption DEF IsRetry, WindowRetry
  <2>3. ~CanApply(Replay(s), x)
    BY <1>5, <2>2 DEF CanApply, CanRegister
  <2> QED BY <1>4, <2>1, <2>2, <2>3 DEF Known
<1>6. CASE x.kind # "Window"
  <2>1. x.value \in Facts /\ x = [kind |-> "FalseHold", value |-> x.value]
    BY <1>6 DEF Records
  <2>2. Replay(s).confirmation[x.value.round] = x.value /\ x.value # Unset
    BY <1>6, <2>1, AndonAssumption DEF IsRetry, FactRetry
  <2>3. ~CanApply(Replay(s), x)
    BY <1>6, <2>2 DEF CanApply, CanRecord
  <2> QED BY <1>4, <2>1, <2>2, <2>3 DEF Known
<1> QED BY <1>5, <1>6

-----------------------------------------------------------------------------
(* What holds between the file, its owners and their imports.              *)

AndonHandles ==
  [mode : {"closed", "created", "creating", "open"}, ledger : AndonLedger, log : Seq(Records),
   poisoned : BOOLEAN, pending : Records \cup {Unset},
   step : {"none", "begun", "written", "failed"}]

Cursors ==
  [batch : Batches, completed : Nat, newly : Nat, start : Nat,
   status : {"Pending", "Complete", "Failed"}]

\* The file replays, and a synchronized part of it is known to be safe; as long as
\* its header is not in that part, it has no records.
FileOk(d, y) ==
  /\ d \in [header : {"none", "partial", "whole"}, recs : Seq(Records), torn : BOOLEAN]
  /\ y \in [header : BOOLEAN, entry : BOOLEAN, count : Nat]
  /\ Replayable(d.recs)
  /\ y.count <= Len(d.recs)
  /\ y.header => d.header = "whole"
  /\ ~y.header => d.recs = <<>> /\ ~d.torn

\* What was acknowledged is in that part, and at most one record is not acknowledged.
AckedOk(a, d, y) ==
  /\ a \in Seq(Records)
  /\ Begins(a, d.recs)
  /\ Len(a) <= y.count
  /\ Len(d.recs) <= Len(a) + 1

\* A file being created has no records.  An owner holds the acknowledged history and
\* its ledger; step by step, the file is that history or has the pending record after it.
HandleOk(h, d, y, a) ==
  /\ h.mode # "open" => h.step = "none"
  /\ h.mode # "closed" => d.header # "none"
  /\ h.mode = "created" => d.header = "partial"
  /\ h.mode = "creating" => d.recs = <<>> /\ ~d.torn
  /\ h.mode = "open" =>
       /\ h.log = a /\ h.ledger = Replay(a) /\ d.header = "whole" /\ y.header
       /\ ~h.poisoned => h.step = "none"
       /\ h.step \in {"none", "begun"} => d.recs = a /\ ~d.torn /\ y.count = Len(a)
       /\ h.step \in {"begun", "written"} =>
            h.pending \in Records /\ CanApply(h.ledger, h.pending) /\ Len(a) < MaxRecords
       /\ h.step = "written" => d.recs = Append(a, h.pending) /\ ~d.torn

\* An import has come to the ledger that its preflight came to on a copy, its
\* records up to there are in the history, and a call under way is about the next one.
CursorOk(c, h) ==
  /\ h.mode = "open"
  /\ c.completed <= Len(c.batch.records)
  /\ Len(h.log) = c.start + c.newly
  /\ \E l : Preflight(l, c.batch) /\ h.ledger = AppliedUpTo(l, c.batch.records, c.completed)
  /\ \A k \in 1..c.completed : \E j \in 1..Len(h.log) : h.log[j] = c.batch.records[k]
  /\ c.status = "Pending" => c.completed < Len(c.batch.records)
  /\ h.step \in {"begun", "written"} =>
       c.completed < Len(c.batch.records) /\ h.pending = c.batch.records[c.completed + 1]
  /\ c.status = "Failed" /\ ~h.poisoned => Len(h.log) = MaxRecords

FileAndonInv ==
  /\ FileOk(disk, synced)
  /\ AckedOk(acked, disk, synced)
  /\ handle \in [Procs -> AndonHandles]
  /\ cursor \in [Procs -> Cursors \cup {Unset}]
  /\ \A p, q \in Procs : handle[p].mode # "closed" /\ handle[q].mode # "closed" => p = q
  /\ \A p \in Procs : HandleOk(handle[p], disk, synced, acked)
  /\ \A p \in Procs : cursor[p] # Unset => CursorOk(cursor[p], handle[p])

\* No handle but that of p has the file.
Alone(p) == \A q \in Procs \ {p} : handle[q].mode = "closed"

\* Whoever has the file is alone, and so is everyone as long as there is no file, or
\* there is a whole one that nobody locks.
LEMMA OwnerAlone ==
  ASSUME FileAndonInv, NEW p \in Procs,
         \/ handle[p].mode # "closed"
         \/ disk.header = "none"
         \/ disk.header = "whole" /\ LockFree
  PROVE  Alone(p)
BY DEF Alone, FileAndonInv, HandleOk, LockFree

\* The invariant after a step in which only the handle of p, its import and the file
\* change, and p is alone.
LEMMA OneMoves ==
  ASSUME FileAndonInv, NEW p \in Procs, NEW h \in AndonHandles,
         handle' = [handle EXCEPT ![p] = h],
         FileOk(disk', synced'), AckedOk(acked', disk', synced'),
         HandleOk(h, disk', synced', acked'),
         cursor' \in [Procs -> Cursors \cup {Unset}],
         \A q \in Procs \ {p} : cursor'[q] = cursor[q],
         cursor'[p] # Unset => CursorOk(cursor'[p], h),
         Alone(p)
  PROVE  FileAndonInv'
<1>1. handle \in [Procs -> AndonHandles] /\ cursor \in [Procs -> Cursors \cup {Unset}]
  BY DEF FileAndonInv
<1>2. /\ handle' \in [Procs -> AndonHandles] /\ handle'[p] = h
      /\ \A q \in Procs \ {p} : handle'[q] = handle[q]
  BY <1>1
<1>3. \A q, r \in Procs : handle'[q].mode # "closed" /\ handle'[r].mode # "closed" => q = r
  BY <1>2 DEF Alone
<1>4. ASSUME NEW q \in Procs
      PROVE  HandleOk(handle'[q], disk', synced', acked')
  <2>1. CASE q = p
    BY <1>2, <2>1
  <2>2. CASE q # p
    <3>1. HandleOk(handle[q], disk, synced, acked) /\ handle[q].mode = "closed"
      BY <2>2 DEF FileAndonInv, Alone
    <3>2. handle'[q].mode = "closed" /\ handle'[q].step = "none"
      BY <1>2, <2>2, <3>1 DEF HandleOk
    <3> QED BY <3>2 DEF HandleOk
  <2> QED BY <2>1, <2>2
<1>5. ASSUME NEW q \in Procs, cursor'[q] # Unset
      PROVE  CursorOk(cursor'[q], handle'[q])
  <2>1. CASE q = p
    BY <1>2, <1>5, <2>1
  <2>2. CASE q # p
    BY <1>2, <1>5, <2>2 DEF FileAndonInv
  <2> QED BY <2>1, <2>2
<1> QED BY <1>2, <1>3, <1>4, <1>5 DEF FileAndonInv

\* The handle that exposes a history, and the handles of a publication.
OpenedAt(log) == [Closed EXCEPT !.mode = "open", !.ledger = Replay(log), !.log = log]
Begun(h, x) == [h EXCEPT !.poisoned = TRUE, !.pending = x, !.step = "begun"]
AtStep(h, s) == [h EXCEPT !.step = s]
InMode(h, m) == [h EXCEPT !.mode = m]

\* Fields of a closed handle.
LEMMA ClosedFields ==
  /\ Closed \in AndonHandles
  /\ Closed.mode = "closed" /\ Closed.step = "none" /\ Closed.poisoned = FALSE
<1>1. NewAndon \in AndonLedger /\ <<>> \in Seq(Records)
  BY NewGood DEF Good
<1> HIDE DEF Good
<1> QED BY <1>1 DEF Closed, AndonHandles

\* Fields of one that exposes a history.
LEMMA OpenedFields ==
  ASSUME NEW log \in Seq(Records)
  PROVE  /\ OpenedAt(log) \in AndonHandles
         /\ OpenedAt(log).mode = "open" /\ OpenedAt(log).ledger = Replay(log)
         /\ OpenedAt(log).log = log /\ OpenedAt(log).step = "none"
         /\ OpenedAt(log).poisoned = FALSE
<1> DEFINE l == Replay(log)
<1>1. l \in AndonLedger
  <2>1. Good(l)
    BY ReplayGood
  <2> HIDE DEF l
  <2> QED BY <2>1 DEF Good
<1> HIDE DEF l
<1>2. Closed \in AndonHandles /\ Closed.poisoned = FALSE /\ Closed.step = "none"
  BY ClosedFields
<1>3. OpenedAt(log) = [Closed EXCEPT !.mode = "open", !.ledger = l, !.log = log]
  BY DEF OpenedAt, l
<1> HIDE DEF Closed, OpenedAt
<1> QED BY <1>1, <1>2, <1>3 DEF AndonHandles, l

\* Fields of one that is about to append.
LEMMA BegunFields ==
  ASSUME NEW h \in AndonHandles, NEW x \in Records
  PROVE  /\ Begun(h, x) \in AndonHandles
         /\ Begun(h, x).mode = h.mode /\ Begun(h, x).ledger = h.ledger
         /\ Begun(h, x).log = h.log /\ Begun(h, x).poisoned = TRUE
         /\ Begun(h, x).pending = x /\ Begun(h, x).step = "begun"
BY DEF AndonHandles, Begun

\* Fields of one that moves to another step or mode.
LEMMA HandleFields ==
  ASSUME NEW h \in AndonHandles
  PROVE  /\ \A s \in {"none", "begun", "written", "failed"} :
              /\ AtStep(h, s) \in AndonHandles
              /\ AtStep(h, s).mode = h.mode /\ AtStep(h, s).ledger = h.ledger
              /\ AtStep(h, s).log = h.log /\ AtStep(h, s).poisoned = h.poisoned
              /\ AtStep(h, s).pending = h.pending /\ AtStep(h, s).step = s
         /\ \A m \in {"closed", "created", "creating", "open"} :
              /\ InMode(h, m) \in AndonHandles
              /\ InMode(h, m).mode = m /\ InMode(h, m).step = h.step
BY DEF AndonHandles, AtStep, InMode

\* What is known of one process.
LEMMA ProcFacts ==
  ASSUME FileAndonInv, NEW p \in Procs
  PROVE  /\ handle[p] \in AndonHandles /\ handle \in [Procs -> AndonHandles]
         /\ HandleOk(handle[p], disk, synced, acked)
         /\ FileOk(disk, synced) /\ AckedOk(acked, disk, synced)
         /\ cursor \in [Procs -> Cursors \cup {Unset}]
         /\ cursor[p] # Unset => cursor[p] \in Cursors /\ CursorOk(cursor[p], handle[p])
         /\ handle[p].mode # "open" => cursor[p] = Unset
         /\ handle[p].step # "none" => handle[p].mode = "open"
BY DEF FileAndonInv, HandleOk, CursorOk

-----------------------------------------------------------------------------
(* Creating, opening, dropping and losing power keep the invariant.        *)

\* A file that does not exist.
LEMMA NoFileOk == FileOk(NoFile, NotSynced) /\ AckedOk(<<>>, NoFile, NotSynced)
<1> DEFINE none == <<>>
<1>1. none \in Seq(Records) /\ Len(none) = 0
  OBVIOUS
<1>2. Replayable(none)
  <2> HIDE DEF none
  <2>1. 0 <= MaxRecords
    BY FileAndonAssumption
  <2> QED BY <1>1, <2>1 DEF Replayable
<1>3. /\ NoFile.header = "none" /\ NoFile.recs = none /\ NoFile.torn = FALSE
      /\ NoFile \in [header : {"none", "partial", "whole"}, recs : Seq(Records), torn : BOOLEAN]
      /\ NotSynced.header = FALSE /\ NotSynced.count = 0
      /\ NotSynced \in [header : BOOLEAN, entry : BOOLEAN, count : Nat]
  BY <1>1 DEF NoFile, NotSynced
<1>4. FileOk(NoFile, NotSynced)
  BY <1>1, <1>2, <1>3 DEF FileOk
<1>5. AckedOk(none, NoFile, NotSynced)
  BY <1>1, <1>3 DEF AckedOk, Begins
<1> QED BY <1>4, <1>5

\* create begins.
LEMMA CreateFileKeeps ==
  ASSUME FileAndonInv, NEW p \in Procs, CreateFile(p)
  PROVE  FileAndonInv'
<1> DEFINE h == InMode(handle[p], "created")
<1>1. /\ handle[p] \in AndonHandles /\ handle[p].mode = "closed" /\ handle[p].step = "none"
      /\ cursor[p] = Unset /\ cursor \in [Procs -> Cursors \cup {Unset}]
  BY ProcFacts DEF CreateFile, HandleOk
<1>2. h \in AndonHandles /\ h.mode = "created" /\ h.step = "none"
  BY <1>1, HandleFields
<1>3. handle' = [handle EXCEPT ![p] = h] /\ UNCHANGED <<synced, cursor, acked>>
  BY DEF CreateFile, InMode
<1>4. Alone(p)
  BY OwnerAlone DEF CreateFile
<1>5. FileOk(disk, synced) /\ AckedOk(acked, disk, synced)
  BY ProcFacts
<1>6. /\ disk' \in [header : {"none", "partial", "whole"}, recs : Seq(Records), torn : BOOLEAN]
      /\ disk'.header = "partial" /\ disk'.recs = disk.recs /\ disk'.torn = disk.torn
      /\ disk.header = "none"
  BY <1>5 DEF CreateFile, FileOk
<1>7. FileOk(disk', synced') /\ AckedOk(acked', disk', synced')
  BY <1>3, <1>5, <1>6 DEF FileOk, AckedOk
<1> HIDE DEF h
<1>8. HandleOk(h, disk', synced', acked')
  BY <1>2, <1>6 DEF HandleOk
<1>9. /\ cursor' \in [Procs -> Cursors \cup {Unset}] /\ cursor'[p] = Unset
      /\ \A q \in Procs \ {p} : cursor'[q] = cursor[q]
  BY <1>1, <1>3
<1> QED BY <1>2, <1>3, <1>4, <1>7, <1>8, <1>9, OneMoves

\* sync_all of the file.
LEMMA SyncFields ==
  ASSUME FileOk(disk, synced), disk.header = "whole"
  PROVE  /\ SyncedAll.header = TRUE /\ SyncedAll.count = Len(disk.recs)
         /\ FileOk(disk, SyncedAll)
<1> DEFINE y == SyncedAll
<1>1. synced \in [header : BOOLEAN, entry : BOOLEAN, count : Nat] /\ Len(disk.recs) \in Nat
  BY DEF FileOk
<1>2. /\ y \in [header : BOOLEAN, entry : BOOLEAN, count : Nat]
      /\ y.header = TRUE /\ y.count = Len(disk.recs)
  BY <1>1 DEF SyncedAll
<1> HIDE DEF y
<1>3. FileOk(disk, y)
  BY <1>1, <1>2 DEF FileOk
<1> QED BY <1>2, <1>3 DEF y

\* The lock of a creation.
LEMMA CreateLockKeeps ==
  ASSUME FileAndonInv, NEW p \in Procs, CreateLock(p)
  PROVE  FileAndonInv'
<1> DEFINE h == InMode(handle[p], "creating")
<1>1. /\ handle[p] \in AndonHandles /\ handle[p].mode = "created" /\ handle[p].step = "none"
      /\ HandleOk(handle[p], disk, synced, acked)
      /\ cursor[p] = Unset /\ cursor \in [Procs -> Cursors \cup {Unset}]
      /\ FileOk(disk, synced) /\ AckedOk(acked, disk, synced)
  BY ProcFacts DEF CreateLock, HandleOk
<1>2. h \in AndonHandles /\ h.mode = "creating" /\ h.step = "none"
  BY <1>1, HandleFields
<1>3. /\ handle' = [handle EXCEPT ![p] = h] /\ disk' = disk /\ synced' = synced
      /\ cursor' = cursor /\ acked' = acked
  BY DEF CreateLock, InMode
<1>4. Alone(p)
  BY <1>1, OwnerAlone
<1>5. disk.header = "partial" /\ disk.recs = <<>> /\ ~disk.torn
  BY <1>1 DEF HandleOk, FileOk
<1> HIDE DEF h
<1>6. HandleOk(h, disk', synced', acked')
  BY <1>2, <1>3, <1>5 DEF HandleOk
<1>7. FileOk(disk', synced') /\ AckedOk(acked', disk', synced')
  BY <1>1, <1>3
<1>8. /\ cursor' \in [Procs -> Cursors \cup {Unset}] /\ cursor'[p] = Unset
      /\ \A q \in Procs \ {p} : cursor'[q] = cursor[q]
  BY <1>1, <1>3
<1> QED BY <1>2, <1>3, <1>4, <1>6, <1>7, <1>8, OneMoves

\* A step of a creation that changes the file, or what is synchronized of it, and
\* leaves it without records.
LEMMA CreatingKeeps ==
  ASSUME FileAndonInv, NEW p \in Procs, handle[p].mode = "creating",
         UNCHANGED <<handle, cursor, acked>>,
         disk'.header = "whole", disk'.recs = disk.recs, disk'.torn = disk.torn,
         FileOk(disk', synced'), synced'.count >= synced.count
  PROVE  FileAndonInv'
<1> DEFINE h == handle[p]
<1>1. /\ h \in AndonHandles /\ HandleOk(h, disk, synced, acked)
      /\ handle \in [Procs -> AndonHandles]
      /\ cursor[p] = Unset /\ cursor \in [Procs -> Cursors \cup {Unset}]
      /\ FileOk(disk, synced) /\ AckedOk(acked, disk, synced)
  BY ProcFacts
<1>2. handle' = [handle EXCEPT ![p] = h] /\ h.mode = "creating"
  BY <1>1
<1>3. Alone(p)
  BY OwnerAlone
<1> HIDE DEF h
<1>4. HandleOk(h, disk', synced', acked')
  BY <1>1, <1>2 DEF HandleOk
<1>5. AckedOk(acked', disk', synced')
  <2>1. /\ acked \in Seq(Records) /\ Len(acked) \in Nat
        /\ synced.count \in Nat /\ synced'.count \in Nat
    BY <1>1 DEF AckedOk, FileOk
  <2>2. Len(acked) <= synced.count
    BY <1>1 DEF AckedOk
  <2>3. Len(acked) <= synced'.count
    BY <2>1, <2>2
  <2> QED BY <1>1, <2>3 DEF AckedOk
<1>6. /\ cursor' \in [Procs -> Cursors \cup {Unset}] /\ cursor'[p] = Unset
      /\ \A q \in Procs \ {p} : cursor'[q] = cursor[q]
  BY <1>1
<1> QED BY <1>1, <1>2, <1>3, <1>4, <1>5, <1>6, OneMoves

\* The header goes out.
LEMMA CreateHeaderKeeps ==
  ASSUME FileAndonInv, NEW p \in Procs, CreateHeader(p)
  PROVE  FileAndonInv'
<1>1. FileOk(disk, synced)
  BY ProcFacts
<1>2. /\ disk' \in [header : {"none", "partial", "whole"}, recs : Seq(Records), torn : BOOLEAN]
      /\ disk'.header = "whole" /\ disk'.recs = disk.recs /\ disk'.torn = disk.torn
      /\ synced' = synced
  BY <1>1 DEF CreateHeader, FileOk
<1>3. FileOk(disk', synced') /\ synced'.count >= synced.count
  BY <1>1, <1>2 DEF FileOk
<1> QED BY <1>2, <1>3, CreatingKeeps DEF CreateHeader

\* The file is synchronized, its directory is not yet.
LEMMA CreateSyncFileKeeps ==
  ASSUME FileAndonInv, NEW p \in Procs, CreateSyncFile(p)
  PROVE  FileAndonInv'
<1>1. FileOk(disk, synced) /\ disk.header = "whole" /\ disk' = disk /\ synced' = SyncedAll
  BY ProcFacts DEF CreateSyncFile
<1>2. FileOk(disk', synced') /\ synced'.count = Len(disk.recs)
  BY <1>1, SyncFields
<1>3. synced'.count >= synced.count
  BY <1>1, <1>2 DEF FileOk
<1> QED BY <1>1, <1>2, <1>3, CreatingKeeps DEF CreateSyncFile

\* A handle exposes the whole file, all of it synchronized.
LEMMA ExposeKeeps ==
  ASSUME FileAndonInv, NEW p \in Procs, Alone(p), NEW log \in Seq(Records),
         Expose(p, log), FileOk(disk', synced'),
         disk'.header = "whole", disk'.recs = log, disk'.torn = FALSE,
         synced'.header = TRUE, synced'.count = Len(log),
         cursor' \in [Procs -> Cursors \cup {Unset}],
         \A q \in Procs \ {p} : cursor'[q] = cursor[q],
         cursor'[p] # Unset => CursorOk(cursor'[p], OpenedAt(log))
  PROVE  FileAndonInv'
<1> DEFINE h == OpenedAt(log)
<1>1. /\ h \in AndonHandles /\ h.mode = "open" /\ h.ledger = Replay(log) /\ h.log = log
      /\ h.step = "none" /\ h.poisoned = FALSE
  BY OpenedFields
<1>2. handle' = [handle EXCEPT ![p] = h] /\ acked' = log
  BY DEF Expose, OpenedAt
<1>3. Len(log) \in Nat
  OBVIOUS
<1>4. AckedOk(acked', disk', synced')
  BY <1>2, <1>3 DEF AckedOk, Begins
<1>5. cursor'[p] # Unset => CursorOk(cursor'[p], h)
  OBVIOUS
<1> HIDE DEF h
<1>6. HandleOk(h, disk', synced', acked')
  BY <1>1, <1>2, <1>3 DEF HandleOk
<1> QED BY <1>1, <1>2, <1>4, <1>5, <1>6, OneMoves

\* create ends: the directory is synchronized too.
LEMMA CreateSyncDirectoryKeeps ==
  ASSUME FileAndonInv, NEW p \in Procs, CreateSyncDirectory(p)
  PROVE  FileAndonInv'
<1> DEFINE log == <<>>
<1>1. /\ FileOk(disk, synced) /\ HandleOk(handle[p], disk, synced, acked)
      /\ handle[p].mode = "creating" /\ synced.header
      /\ cursor[p] = Unset /\ cursor \in [Procs -> Cursors \cup {Unset}]
  BY ProcFacts DEF CreateSyncDirectory
<1>2. Len(log) = 0 /\ log \in Seq(Records)
  OBVIOUS
<1>3. /\ Expose(p, log) /\ disk' = disk /\ cursor' = cursor
      /\ synced' = [synced EXCEPT !.entry = TRUE]
  BY DEF CreateSyncDirectory
<1>4. disk.header = "whole" /\ disk.recs = log /\ disk.torn = FALSE /\ synced.count = Len(log)
  <2>1. disk.header = "whole" /\ disk.recs = log /\ disk.torn = FALSE
    BY <1>1 DEF FileOk, HandleOk
  <2>2. synced.count \in Nat /\ synced.count <= Len(disk.recs)
    BY <1>1 DEF FileOk
  <2> QED BY <1>2, <2>1, <2>2
<1>5. /\ synced' \in [header : BOOLEAN, entry : BOOLEAN, count : Nat]
      /\ synced'.header = TRUE /\ synced'.count = synced.count
  BY <1>1, <1>3 DEF FileOk
<1> HIDE DEF log
<1>6. FileOk(disk', synced')
  BY <1>1, <1>3, <1>5 DEF FileOk
<1>7. Alone(p)
  BY <1>1, OwnerAlone
<1>8. /\ disk'.header = "whole" /\ disk'.recs = log /\ disk'.torn = FALSE
      /\ synced'.header = TRUE /\ synced'.count = Len(log)
  BY <1>3, <1>4, <1>5
<1>9. /\ cursor' \in [Procs -> Cursors \cup {Unset}] /\ cursor'[p] = Unset
      /\ \A q \in Procs \ {p} : cursor'[q] = cursor[q]
  BY <1>1, <1>3
<1> QED BY <1>2, <1>3, <1>6, <1>7, <1>8, <1>9, ExposeKeeps

\* open
LEMMA OpenKeeps ==
  ASSUME FileAndonInv, NEW p \in Procs, Open(p)
  PROVE  FileAndonInv'
<1> DEFINE log == disk.recs
<1>1. FileOk(disk, synced) /\ cursor[p] = Unset /\ cursor \in [Procs -> Cursors \cup {Unset}]
  BY ProcFacts DEF Open
<1>2. log \in Seq(Records) /\ disk.header = "whole" /\ disk.torn = FALSE
  BY <1>1 DEF Open, FileOk
<1>3. Expose(p, log) /\ disk' = disk /\ cursor' = cursor /\ synced' = SyncedAll
  BY DEF Open, OpenSync
<1>4. /\ FileOk(disk', synced') /\ synced'.header = TRUE /\ synced'.count = Len(log)
  BY <1>1, <1>2, <1>3, SyncFields
<1>5. Alone(p)
  BY <1>2, OwnerAlone DEF Open
<1>6. disk'.header = "whole" /\ disk'.recs = log /\ disk'.torn = FALSE
  BY <1>2, <1>3
<1>7. /\ cursor' \in [Procs -> Cursors \cup {Unset}] /\ cursor'[p] = Unset
      /\ \A q \in Procs \ {p} : cursor'[q] = cursor[q]
  BY <1>1, <1>3
<1> HIDE DEF log
<1> QED BY <1>2, <1>3, <1>4, <1>5, <1>6, <1>7, ExposeKeeps

\* The owner or its process ends.
LEMMA DropKeeps ==
  ASSUME FileAndonInv, NEW p \in Procs, Drop(p)
  PROVE  FileAndonInv'
<1>1. Closed \in AndonHandles /\ Closed.mode = "closed" /\ Closed.step = "none"
  BY ClosedFields
<1> HIDE DEF Closed
<1>2. /\ handle' = [handle EXCEPT ![p] = Closed] /\ UNCHANGED <<disk, synced, acked>>
      /\ cursor' = [cursor EXCEPT ![p] = Unset]
  BY DEF Drop
<1>3. /\ FileOk(disk', synced') /\ AckedOk(acked', disk', synced')
      /\ cursor \in [Procs -> Cursors \cup {Unset}]
  BY <1>2, ProcFacts
<1>4. HandleOk(Closed, disk', synced', acked')
  BY <1>1 DEF HandleOk
<1>5. /\ cursor' \in [Procs -> Cursors \cup {Unset}] /\ cursor'[p] = Unset
      /\ \A q \in Procs \ {p} : cursor'[q] = cursor[q]
  BY <1>2, <1>3
<1>6. Alone(p)
  BY OwnerAlone DEF Drop
<1> QED BY <1>1, <1>2, <1>3, <1>4, <1>5, <1>6, OneMoves

\* What a power loss leaves of the file still replays, and holds what was acknowledged
\* of the file.
LEMMA PowerLossKeeps ==
  ASSUME FileAndonInv, PowerLoss
  PROVE  FileAndonInv'
<1>1. Closed \in AndonHandles /\ Closed.mode = "closed" /\ Closed.step = "none"
  BY ClosedFields
<1> HIDE DEF Closed
<1>2. handle' = [p \in Procs |-> Closed] /\ cursor' = [p \in Procs |-> Unset]
  BY DEF PowerLoss
<1>3. FileOk(disk, synced) /\ AckedOk(acked, disk, synced)
  BY DEF FileAndonInv
<1>4. FileOk(disk', synced') /\ AckedOk(acked', disk', synced')
  <2>1. CASE disk' = NoFile /\ synced' = NotSynced /\ acked' = <<>>
    BY <2>1, NoFileOk
  <2>3. CASE /\ ~synced.header
             /\ disk' = [disk EXCEPT !.header = "partial"]
             /\ UNCHANGED <<synced, acked>>
    <3>1. /\ disk' \in [header : {"none", "partial", "whole"}, recs : Seq(Records), torn : BOOLEAN]
          /\ disk'.header = "partial" /\ disk'.recs = disk.recs /\ disk'.torn = disk.torn
      BY <1>3, <2>3 DEF FileOk
    <3> QED BY <1>3, <2>3, <3>1 DEF FileOk, AckedOk
  <2>2. ASSUME NEW n \in synced.count..Len(disk.recs), NEW torn \in BOOLEAN,
               disk.header = "whole", torn => (n < Len(disk.recs) \/ disk.torn),
               disk' = [disk EXCEPT !.recs = SubSeq(disk.recs, 1, n), !.torn = torn],
               UNCHANGED <<synced, acked>>
        PROVE  FileOk(disk', synced') /\ AckedOk(acked', disk', synced')
    <3> DEFINE d == disk.recs
               s == SubSeq(d, 1, n)
    <3>1. d \in Seq(Records) /\ n \in 0..Len(d) /\ synced.count \in Nat /\ Len(d) \in Nat
      BY <1>3 DEF FileOk
    <3>2. s \in Seq(Records) /\ Len(s) = n /\ \A k \in 1..n : s[k] = d[k]
      BY <3>1, CutFacts
    <3>3. /\ Replayable(d) /\ Begins(acked, d) /\ Len(acked) <= synced.count
          /\ Len(d) <= Len(acked) + 1 /\ acked \in Seq(Records) /\ Len(acked) \in Nat
      BY <1>3 DEF FileOk, AckedOk
    <3> HIDE DEF s
    <3>4. disk' = [disk EXCEPT !.recs = s, !.torn = torn]
      BY <2>2 DEF s
    <3>5. /\ disk' \in [header : {"none", "partial", "whole"}, recs : Seq(Records), torn : BOOLEAN]
          /\ disk'.header = "whole" /\ disk'.recs = s /\ disk'.torn = torn
      BY <1>3, <2>2, <3>2, <3>4 DEF FileOk
    <3> HIDE DEF d
    <3>6. Begins(s, d)
      BY <3>1, <3>2 DEF Begins
    <3>7. Replayable(s)
      BY <3>1, <3>2, <3>3, <3>6, ReplayableBegins
    <3>8. Begins(acked, s) /\ synced.count <= Len(s) /\ Len(s) <= Len(acked) + 1
      BY <3>1, <3>2, <3>3 DEF Begins
    <3>a. ~synced.header => s = <<>> /\ torn = FALSE
      <4> SUFFICES ASSUME ~synced.header PROVE s = <<>> /\ torn = FALSE
        OBVIOUS
      <4>1. d = <<>> /\ ~disk.torn
        BY <1>3 DEF FileOk, d
      <4>2. Len(s) = 0 /\ ~(n < Len(d))
        BY <3>1, <3>2, <4>1
      <4> QED BY <2>2, <3>2, <4>1, <4>2 DEF d
    <3>9. FileOk(disk', synced')
      BY <1>3, <2>2, <3>5, <3>7, <3>8, <3>a DEF FileOk
    <3>10. AckedOk(acked', disk', synced')
      BY <2>2, <3>3, <3>5, <3>8 DEF AckedOk
    <3> QED BY <3>9, <3>10
  <2> QED BY <2>1, <2>2, <2>3 DEF PowerLoss
<1>5. ASSUME NEW p \in Procs
      PROVE  HandleOk(handle'[p], disk', synced', acked') /\ handle'[p].mode = "closed"
  BY <1>1, <1>2 DEF HandleOk
<1>6. \A p \in Procs : cursor'[p] = Unset
  BY <1>2
<1>7. handle' \in [Procs -> AndonHandles] /\ cursor' \in [Procs -> Cursors \cup {Unset}]
  BY <1>1, <1>2
<1> QED BY <1>4, <1>5, <1>6, <1>7 DEF FileAndonInv

-----------------------------------------------------------------------------
(* The publication of a record keeps the invariant.                        *)

\* A record that passed validation and limits is about to be appended: the handle
\* is poisoned.
LEMMA BegunKeeps ==
  ASSUME FileAndonInv, NEW p \in Procs, NEW x \in Records, Healthy(p), MayPublish(p, x),
         handle' = Poisoned(p, x), UNCHANGED <<disk, synced, acked>>,
         cursor' \in [Procs -> Cursors \cup {Unset}],
         \A q \in Procs \ {p} : cursor'[q] = cursor[q],
         cursor'[p] # Unset => CursorOk(cursor'[p], Begun(handle[p], x))
  PROVE  FileAndonInv'
<1> DEFINE h == Begun(handle[p], x)
<1>1. /\ handle[p] \in AndonHandles /\ HandleOk(handle[p], disk, synced, acked)
      /\ handle[p].mode = "open" /\ handle[p].poisoned = FALSE
      /\ FileOk(disk, synced) /\ AckedOk(acked, disk, synced)
  BY ProcFacts DEF Healthy, AndonHandles
<1>2. /\ h \in AndonHandles /\ h.mode = handle[p].mode /\ h.ledger = handle[p].ledger
      /\ h.log = handle[p].log /\ h.poisoned = TRUE /\ h.pending = x /\ h.step = "begun"
  BY <1>1, BegunFields
<1>3. handle' = [handle EXCEPT ![p] = h]
  BY DEF Poisoned, Begun
<1>4. Alone(p)
  BY <1>1, OwnerAlone
<1>5. CanApply(handle[p].ledger, x) /\ Len(handle[p].log) < MaxRecords
  BY DEF MayPublish
<1>6. cursor'[p] # Unset => CursorOk(cursor'[p], h)
  OBVIOUS
<1> HIDE DEF h
<1>7. HandleOk(h, disk, synced, acked)
  BY <1>1, <1>2, <1>5 DEF HandleOk
<1>8. /\ FileOk(disk', synced') /\ AckedOk(acked', disk', synced')
      /\ HandleOk(h, disk', synced', acked')
  BY <1>1, <1>7
<1> QED BY <1>2, <1>3, <1>4, <1>6, <1>8, OneMoves

\* register_window and record_trusted.
LEMMA SubmitKeeps ==
  ASSUME FileAndonInv, NEW p \in Procs, NEW x \in Records, Submit(p, x)
  PROVE  FileAndonInv'
<1>1. /\ Healthy(p) /\ MayPublish(p, x) /\ handle' = Poisoned(p, x)
      /\ UNCHANGED <<disk, synced, acked, cursor>> /\ cursor[p] = Unset
  BY DEF Submit
<1>2. cursor \in [Procs -> Cursors \cup {Unset}]
  BY ProcFacts
<1>3. /\ cursor' \in [Procs -> Cursors \cup {Unset}] /\ cursor'[p] = Unset
      /\ \A q \in Procs \ {p} : cursor'[q] = cursor[q]
      /\ UNCHANGED <<disk, synced, acked>>
  BY <1>1, <1>2
<1> QED BY <1>1, <1>3, BegunKeeps

\* record_review
LEMMA RecordReviewKeeps ==
  ASSUME FileAndonInv, NEW p \in Procs, NEW r, NEW exact, NEW f \in Facts,
         RecordReview(p, r, exact, f)
  PROVE  FileAndonInv'
<1> DEFINE x == [kind |-> "FalseHold", value |-> f]
<1>1. x \in Records
  BY DEF Records
<1>2. Submit(p, x)
  BY DEF RecordReview
<1> HIDE DEF x
<1> QED BY <1>1, <1>2, SubmitKeeps

\* The bytes go out, all or some.
LEMMA AppendBytesKeeps ==
  ASSUME FileAndonInv, NEW p \in Procs, NEW torn \in BOOLEAN, AppendBytes(p, torn)
  PROVE  FileAndonInv'
<1> DEFINE next == IF torn THEN "failed" ELSE "written"
           h == AtStep(handle[p], next)
           x == handle[p].pending
           d == disk.recs
<1>1. /\ handle[p] \in AndonHandles /\ HandleOk(handle[p], disk, synced, acked)
      /\ FileOk(disk, synced) /\ AckedOk(acked, disk, synced)
      /\ cursor \in [Procs -> Cursors \cup {Unset}]
      /\ cursor[p] # Unset => CursorOk(cursor[p], handle[p])
      /\ handle[p].step = "begun" /\ handle[p].mode = "open"
  BY ProcFacts DEF AppendBytes
<1>2. next \in {"none", "begun", "written", "failed"}
  OBVIOUS
<1>3. /\ h \in AndonHandles /\ h.mode = handle[p].mode /\ h.ledger = handle[p].ledger
      /\ h.log = handle[p].log /\ h.poisoned = handle[p].poisoned
      /\ h.pending = x /\ h.step = next
  <2> HIDE DEF next
  <2> QED BY <1>1, <1>2, HandleFields
<1>4. handle' = [handle EXCEPT ![p] = h] /\ UNCHANGED <<synced, cursor, acked>>
  BY DEF AppendBytes, AtStep
<1>5. Alone(p)
  BY <1>1, OwnerAlone
<1>6. /\ x \in Records /\ CanApply(Replay(d), x) /\ Len(d) < MaxRecords /\ d = acked
      /\ d \in Seq(Records) /\ Replayable(d) /\ synced.count = Len(d)
      /\ disk.header = "whole" /\ handle[p].poisoned = TRUE /\ synced.header = TRUE
  BY <1>1 DEF HandleOk, FileOk, AndonHandles
<1>7. CASE torn
  <2>1. /\ disk' \in [header : {"none", "partial", "whole"}, recs : Seq(Records), torn : BOOLEAN]
        /\ disk'.recs = d /\ disk'.header = disk.header /\ next = "failed"
    BY <1>1, <1>7 DEF AppendBytes, FileOk
  <2> HIDE DEF h, next, d
  <2>2. FileOk(disk', synced')
    BY <1>1, <1>4, <1>6, <2>1 DEF FileOk, d
  <2>3. AckedOk(acked', disk', synced')
    BY <1>1, <1>4, <2>1 DEF AckedOk, d
  <2>4. HandleOk(h, disk', synced', acked')
    BY <1>1, <1>3, <1>4, <1>6, <2>1 DEF HandleOk
  <2>5. cursor'[p] # Unset => CursorOk(cursor'[p], h)
    BY <1>1, <1>3, <1>4, <2>1 DEF CursorOk
  <2>6. /\ cursor' \in [Procs -> Cursors \cup {Unset}]
        /\ \A q \in Procs \ {p} : cursor'[q] = cursor[q]
    BY <1>1, <1>4
  <2> QED BY <1>3, <1>4, <1>5, <2>2, <2>3, <2>4, <2>5, <2>6, OneMoves
<1>8. CASE ~torn
  <2> DEFINE e == Append(d, x)
  <2>1. disk' = [disk EXCEPT !.recs = e] /\ next = "written"
    BY <1>8 DEF AppendBytes
  <2>2. /\ e \in Seq(Records) /\ Len(e) = Len(d) + 1 /\ Len(d) \in Nat
        /\ \A k \in 1..Len(d) : e[k] = d[k]
    <3> HIDE DEF d, x
    <3> QED BY <1>6, AppendFacts
  <2>3. Replayable(e)
    <3> HIDE DEF d, x
    <3> QED BY <1>6, ReplayableAppend
  <2> HIDE DEF e
  <2>4. /\ disk' \in [header : {"none", "partial", "whole"}, recs : Seq(Records), torn : BOOLEAN]
        /\ disk'.recs = e /\ disk'.header = disk.header /\ disk'.torn = FALSE
    BY <1>1, <2>1, <2>2 DEF FileOk, AppendBytes
  <2> HIDE DEF h, next, d, x
  <2>5. FileOk(disk', synced')
    BY <1>1, <1>4, <1>6, <2>2, <2>3, <2>4 DEF FileOk
  <2>6. AckedOk(acked', disk', synced')
    BY <1>4, <1>6, <2>2, <2>4 DEF AckedOk, Begins
  <2>7. HandleOk(h, disk', synced', acked')
    <3>1. h.ledger = Replay(acked) /\ h.log = acked
      BY <1>1, <1>3 DEF HandleOk
    <3> QED BY <1>1, <1>3, <1>4, <1>6, <2>1, <2>4, <3>1 DEF HandleOk, e
  <2>8. cursor'[p] # Unset => CursorOk(cursor'[p], h)
    BY <1>1, <1>3, <1>4, <2>1 DEF CursorOk, x
  <2>9. /\ cursor' \in [Procs -> Cursors \cup {Unset}]
        /\ \A q \in Procs \ {p} : cursor'[q] = cursor[q]
    BY <1>1, <1>4
  <2> QED BY <1>3, <1>4, <1>5, <2>5, <2>6, <2>7, <2>8, <2>9, OneMoves
<1> QED BY <1>7, <1>8

\* An I/O error.
LEMMA FailKeeps ==
  ASSUME FileAndonInv, NEW p \in Procs, FailIO(p)
  PROVE  FileAndonInv'
<1> DEFINE h == AtStep(handle[p], "failed")
<1>1. /\ handle[p] \in AndonHandles /\ HandleOk(handle[p], disk, synced, acked)
      /\ FileOk(disk, synced) /\ AckedOk(acked, disk, synced)
      /\ cursor \in [Procs -> Cursors \cup {Unset}]
      /\ cursor[p] # Unset => CursorOk(cursor[p], handle[p])
      /\ handle[p].step # "none" /\ handle[p].mode = "open"
  BY ProcFacts DEF FailIO
<1>2. /\ h \in AndonHandles /\ h.mode = handle[p].mode /\ h.ledger = handle[p].ledger
      /\ h.log = handle[p].log /\ h.poisoned = handle[p].poisoned
      /\ h.pending = handle[p].pending /\ h.step = "failed"
  BY <1>1, HandleFields
<1>3. handle' = [handle EXCEPT ![p] = h] /\ UNCHANGED <<disk, synced, cursor, acked>>
  BY DEF FailIO, AtStep
<1>4. Alone(p)
  BY <1>1, OwnerAlone
<1> HIDE DEF h
<1>5. /\ HandleOk(h, disk', synced', acked')
      /\ FileOk(disk', synced') /\ AckedOk(acked', disk', synced')
  BY <1>1, <1>2, <1>3 DEF HandleOk
<1>6. cursor'[p] # Unset => CursorOk(cursor'[p], h)
  BY <1>1, <1>2, <1>3 DEF CursorOk
<1>7. /\ cursor' \in [Procs -> Cursors \cup {Unset}]
      /\ \A q \in Procs \ {p} : cursor'[q] = cursor[q]
  BY <1>1, <1>3
<1> QED BY <1>2, <1>3, <1>4, <1>5, <1>6, <1>7, OneMoves

-----------------------------------------------------------------------------
(* Imports keep the invariant.                                             *)

\* The records of a batch.
LEMMA BatchRecords ==
  ASSUME NEW c \in Cursors
  PROVE  /\ c.batch \in Batches /\ c.completed \in Nat /\ c.newly \in Nat /\ c.start \in Nat
         /\ c.batch.records \in Seq(Records) /\ Len(c.batch.records) \in Nat
         /\ \A k \in 1..Len(c.batch.records) : c.batch.records[k] \in Records
BY FileAndonAssumption DEF Cursors

\* The fields of a cursor that counts one more record, new or not.
LEMMA AdvancedFields ==
  ASSUME NEW c \in Cursors, NEW new \in BOOLEAN, NEW l,
         StatusAfter(c, c.completed + 1, l) \in {"Pending", "Complete"}
  PROVE  /\ Advanced(c, new, l) \in Cursors
         /\ Advanced(c, new, l).batch = c.batch /\ Advanced(c, new, l).start = c.start
         /\ Advanced(c, new, l).completed = c.completed + 1
         /\ Advanced(c, new, l).newly = c.newly + (IF new THEN 1 ELSE 0)
         /\ Advanced(c, new, l).status = StatusAfter(c, c.completed + 1, l)
<1> DEFINE s == StatusAfter(c, c.completed + 1, l)
           n == c.newly + (IF new THEN 1 ELSE 0)
           k == c.completed + 1
<1>1. c.newly \in Nat /\ c.completed \in Nat
  BY BatchRecords
<1>2. n \in Nat /\ k \in Nat /\ s \in {"Pending", "Complete", "Failed"}
  BY <1>1
<1>3. Advanced(c, new, l) = [c EXCEPT !.completed = k, !.newly = n, !.status = s]
  BY DEF Advanced, Cursors
<1> HIDE DEF s, n, k
<1>4. /\ Advanced(c, new, l) \in Cursors
      /\ Advanced(c, new, l).batch = c.batch /\ Advanced(c, new, l).start = c.start
      /\ Advanced(c, new, l).completed = k /\ Advanced(c, new, l).newly = n
      /\ Advanced(c, new, l).status = s
  BY <1>2, <1>3 DEF Cursors
<1> QED BY <1>4 DEF s, n, k

\* An import that reaches the ledger of its preflight, after one more record,
\* goes on or is complete.
LEMMA AdvanceOk ==
  ASSUME NEW c \in Cursors, NEW l, Preflight(l, c.batch), NEW new \in BOOLEAN,
         c.completed < Len(c.batch.records), NEW g \in AndonHandles, NEW h \in AndonHandles,
         CursorOk(c, g), h.mode = "open", h.step = "none",
         h.ledger = AppliedUpTo(l, c.batch.records, c.completed + 1),
         Len(h.log) = Len(g.log) + (IF new THEN 1 ELSE 0),
         \A k \in 1..Len(g.log) : h.log[k] = g.log[k],
         \E j \in 1..Len(h.log) : h.log[j] = c.batch.records[c.completed + 1]
  PROVE  Advanced(c, new, h.ledger) \in Cursors /\ CursorOk(Advanced(c, new, h.ledger), h)
<1> DEFINE k == c.completed + 1
           rs == c.batch.records
           s == StatusAfter(c, k, h.ledger)
           d == Advanced(c, new, h.ledger)
<1>1. /\ c.completed \in Nat /\ c.newly \in Nat /\ c.start \in Nat /\ Len(rs) \in Nat
      /\ k \in Nat /\ k <= Len(rs) /\ Len(g.log) \in Nat /\ Len(h.log) \in Nat
  BY BatchRecords DEF AndonHandles
<1>2. s \in {"Pending", "Complete"} /\ (s = "Pending" => k < Len(rs))
  <2>1. CASE k < Len(rs)
    BY <2>1 DEF StatusAfter
  <2>2. CASE ~(k < Len(rs))
    <3>1. k = Len(rs)
      BY <1>1, <2>2
    <3>2. c.batch.source # Unset => AppliedUpTo(l, rs, Len(rs)) = c.batch.source
      BY DEF Preflight
    <3>3. c.batch.source # Unset => h.ledger = c.batch.source
      BY <3>1, <3>2
    <3>4. s = "Complete"
      BY <2>2, <3>3 DEF StatusAfter
    <3> QED BY <3>4
  <2> QED BY <2>1, <2>2
<1>3. /\ d \in Cursors /\ d.batch = c.batch /\ d.start = c.start /\ d.completed = k
      /\ d.newly = c.newly + (IF new THEN 1 ELSE 0) /\ d.status = s
  BY <1>2, AdvancedFields
<1>4. Len(h.log) = d.start + d.newly
  <2>1. Len(g.log) = c.start + c.newly
    BY DEF CursorOk
  <2> HIDE DEF d, k, s
  <2> QED BY <1>1, <1>3, <2>1
<1>5. ASSUME NEW i \in 1..k
      PROVE  \E j \in 1..Len(h.log) : h.log[j] = rs[i]
  <2>1. CASE i = k
    BY <2>1
  <2>2. CASE i # k
    <3>1. i \in 1..c.completed
      BY <1>1, <2>2
    <3>2. PICK j \in 1..Len(g.log) : g.log[j] = rs[i]
      BY <3>1 DEF CursorOk
    <3>3. h.log[j] = g.log[j]
      BY <3>2
    <3>4. Len(h.log) = Len(g.log) \/ Len(h.log) = Len(g.log) + 1
      <4> DEFINE m == Len(g.log)
                 n == Len(h.log)
                 a == IF new THEN 1 ELSE 0
      <4>1. m \in Nat /\ n \in Nat /\ n = m + a
        BY <1>1
      <4>2. a = 0 \/ a = 1
        OBVIOUS
      <4> HIDE DEF m, n, a
      <4>3. n = m \/ n = m + 1
        BY <4>1, <4>2
      <4> QED BY <4>3 DEF m, n
    <3>5. j \in 1..Len(h.log)
      <4> DEFINE m == Len(g.log)
                 n == Len(h.log)
      <4>1. m \in Nat /\ n \in Nat /\ j \in 1..m /\ (n = m \/ n = m + 1)
        BY <1>1, <3>2, <3>4
      <4> HIDE DEF m, n
      <4>2. j \in 1..n
        BY <4>1
      <4> QED BY <4>2 DEF n
    <3> QED BY <3>2, <3>3, <3>5
  <2> QED BY <2>1, <2>2
<1>6. Preflight(l, d.batch) /\ h.ledger = AppliedUpTo(l, d.batch.records, d.completed)
  BY <1>3
<1> HIDE DEF d, k, s
<1>7. CursorOk(d, h)
  BY <1>1, <1>2, <1>3, <1>4, <1>5, <1>6 DEF CursorOk
<1> QED BY <1>3, <1>7 DEF d

\* sync_all returned.
LEMMA AcknowledgeKeeps ==
  ASSUME FileAndonInv, NEW p \in Procs, Acknowledge(p)
  PROVE  FileAndonInv'
<1> DEFINE g == handle[p]
           x == handle[p].pending
           log == Append(acked, x)
           h == OpenedAt(log)
<1>1. /\ g \in AndonHandles /\ HandleOk(g, disk, synced, acked)
      /\ FileOk(disk, synced) /\ AckedOk(acked, disk, synced)
      /\ cursor \in [Procs -> Cursors \cup {Unset}]
      /\ cursor[p] # Unset => cursor[p] \in Cursors /\ CursorOk(cursor[p], g)
      /\ g.step = "written" /\ g.mode = "open"
  BY ProcFacts DEF Acknowledge
<1>2. /\ g.log = acked /\ g.ledger = Replay(acked) /\ x \in Records
      /\ CanApply(Replay(acked), x) /\ disk.recs = log /\ disk.header = "whole"
      /\ acked \in Seq(Records)
  BY <1>1 DEF HandleOk, AckedOk
<1>3. /\ log \in Seq(Records) /\ Len(log) = Len(acked) + 1 /\ log[Len(acked) + 1] = x
      /\ \A k \in 1..Len(acked) : log[k] = acked[k]
      /\ Len(acked) \in Nat
  BY <1>2, AppendFacts
<1>4. Replay(log) = AfterApply(Replay(acked), x)
  BY <1>2, ReplayAppend
<1>5. /\ Expose(p, log) /\ UNCHANGED disk /\ synced' = SyncedAll
      /\ cursor' = IF cursor[p] = Unset THEN cursor
                   ELSE [cursor EXCEPT ![p] = Advanced(@, TRUE, Replay(log))]
  BY <1>2 DEF Acknowledge, AckSync
<1>6. Alone(p)
  BY <1>1, OwnerAlone
<1> HIDE DEF log
<1>7. /\ FileOk(disk', synced') /\ synced'.header = TRUE /\ synced'.count = Len(log)
      /\ disk'.header = "whole" /\ disk'.recs = log /\ disk'.torn = FALSE
  <2>1. disk.torn = FALSE
    BY <1>1 DEF FileOk, HandleOk
  <2> QED BY <1>1, <1>2, <1>5, <2>1, SyncFields
<1>8. /\ h \in AndonHandles /\ h.mode = "open" /\ h.ledger = Replay(log) /\ h.log = log
      /\ h.step = "none"
  BY <1>3, OpenedFields
<1>9. CASE cursor[p] = Unset
  <2>1. /\ cursor' \in [Procs -> Cursors \cup {Unset}] /\ cursor'[p] = Unset
        /\ \A q \in Procs \ {p} : cursor'[q] = cursor[q]
    BY <1>1, <1>5, <1>9
  <2> QED BY <1>2, <1>3, <1>5, <1>6, <1>7, <2>1, ExposeKeeps
<1>10. CASE cursor[p] # Unset
  <2> DEFINE c == cursor[p]
             rs == c.batch.records
             d == Advanced(c, TRUE, h.ledger)
  <2>1. c \in Cursors /\ CursorOk(c, g)
    BY <1>1, <1>10
  <2>2. PICK l : Preflight(l, c.batch) /\ g.ledger = AppliedUpTo(l, rs, c.completed)
    BY <2>1 DEF CursorOk
  <2>3. c.completed < Len(rs) /\ x = rs[c.completed + 1] /\ c.completed \in Nat
    BY <1>1, <2>1, BatchRecords DEF CursorOk
  <2>4. h.ledger = AppliedUpTo(l, rs, c.completed + 1)
    <3> HIDE DEF c, rs, h, g, x
    <3>1. AppliedUpTo(l, rs, c.completed + 1)
            = AfterApply(AppliedUpTo(l, rs, c.completed), rs[c.completed + 1])
      BY <2>3, AppliedSteps
    <3> QED BY <1>2, <1>4, <1>8, <2>2, <2>3, <3>1
  <2>5. \E j \in 1..Len(h.log) : h.log[j] = rs[c.completed + 1]
    BY <1>3, <1>8, <2>3
  <2>6. /\ Len(h.log) = Len(g.log) + (IF TRUE THEN 1 ELSE 0)
        /\ \A k \in 1..Len(g.log) : h.log[k] = g.log[k]
    BY <1>2, <1>3, <1>8
  <2> HIDE DEF c, h, g
  <2>7. d \in Cursors /\ CursorOk(d, h)
    BY <1>1, <1>8, <2>1, <2>2, <2>3, <2>4, <2>5, <2>6, AdvanceOk
  <2> HIDE DEF d
  <2>8. cursor' = [cursor EXCEPT ![p] = d]
    BY <1>5, <1>8, <1>10 DEF c, d
  <2>9. /\ cursor' \in [Procs -> Cursors \cup {Unset}] /\ cursor'[p] = d
        /\ \A q \in Procs \ {p} : cursor'[q] = cursor[q]
    BY <1>1, <2>7, <2>8
  <2>10. cursor'[p] # Unset => CursorOk(cursor'[p], OpenedAt(log))
    BY <2>7, <2>9 DEF h
  <2> QED BY <1>2, <1>3, <1>5, <1>6, <1>7, <2>9, <2>10, ExposeKeeps
<1> QED BY <1>9, <1>10

\* The invariant after a step that changes only the import of p.
LEMMA CursorMoves ==
  ASSUME FileAndonInv, NEW p \in Procs, UNCHANGED <<disk, synced, handle, acked>>,
         NEW c \in Cursors \cup {Unset}, cursor' = [cursor EXCEPT ![p] = c],
         c # Unset => CursorOk(c, handle[p])
  PROVE  FileAndonInv'
<1>1. cursor \in [Procs -> Cursors \cup {Unset}]
  BY DEF FileAndonInv
<1>2. /\ cursor' \in [Procs -> Cursors \cup {Unset}] /\ cursor'[p] = c
      /\ \A q \in Procs \ {p} : cursor'[q] = cursor[q]
  BY <1>1
<1>3. ASSUME NEW q \in Procs, cursor'[q] # Unset
      PROVE  CursorOk(cursor'[q], handle'[q])
  <2>1. CASE q = p
    BY <1>2, <1>3, <2>1
  <2>2. CASE q # p
    BY <1>2, <1>3, <2>2 DEF FileAndonInv
  <2> QED BY <2>1, <2>2
<1>4. /\ FileOk(disk', synced') /\ AckedOk(acked', disk', synced')
      /\ handle' \in [Procs -> AndonHandles]
      /\ \A q, r \in Procs : handle'[q].mode # "closed" /\ handle'[r].mode # "closed" => q = r
      /\ \A q \in Procs : HandleOk(handle'[q], disk', synced', acked')
  BY DEF FileAndonInv
<1> QED BY <1>2, <1>3, <1>4 DEF FileAndonInv

\* begin: the preflight succeeded on a copy.
LEMMA BeginImportKeeps ==
  ASSUME FileAndonInv, NEW p \in Procs, NEW batch \in Batches, BeginImport(p, batch)
  PROVE  FileAndonInv'
<1> DEFINE h == handle[p]
           s == IF batch.records = <<>> THEN "Complete" ELSE "Pending"
           c == [batch |-> batch, completed |-> 0, newly |-> 0, start |-> Len(h.log), status |-> s]
<1>1. /\ h \in AndonHandles /\ h.mode = "open" /\ h.poisoned = FALSE /\ h.step = "none"
      /\ Len(h.log) \in Nat
  BY ProcFacts DEF BeginImport, Healthy, HandleOk, AndonHandles
<1>2. batch.records \in Seq(Records) /\ Len(batch.records) \in Nat
  BY FileAndonAssumption
<1>3. s \in {"Pending", "Complete"} /\ (s = "Pending" => 0 < Len(batch.records))
  BY <1>2
<1>4. /\ Preflight(h.ledger, batch) /\ cursor' = [cursor EXCEPT ![p] = c]
      /\ UNCHANGED <<disk, synced, handle, acked>>
  BY DEF BeginImport
<1> HIDE DEF s, h
<1>5. /\ c \in Cursors /\ c.batch = batch /\ c.completed = 0 /\ c.newly = 0
      /\ c.start = Len(h.log) /\ c.status = s
  BY <1>1, <1>3 DEF Cursors
<1> HIDE DEF c
<1>6. h.ledger = AppliedUpTo(h.ledger, batch.records, 0)
  BY AppliedSteps
<1>7. \E l : Preflight(l, c.batch) /\ h.ledger = AppliedUpTo(l, c.batch.records, c.completed)
  BY <1>4, <1>5, <1>6
<1>8. CursorOk(c, h)
  BY <1>1, <1>2, <1>3, <1>5, <1>7 DEF CursorOk
<1> QED BY <1>4, <1>5, <1>8, CursorMoves DEF h

\* finish or drop of the cursor.
LEMMA EndImportKeeps ==
  ASSUME FileAndonInv, NEW p \in Procs, EndImport(p)
  PROVE  FileAndonInv'
<1>1. cursor' = [cursor EXCEPT ![p] = Unset] /\ UNCHANGED <<disk, synced, handle, acked>>
  BY DEF EndImport
<1>2. Unset \in Cursors \cup {Unset}
  OBVIOUS
<1> QED BY <1>1, <1>2, CursorMoves

\* The status of a cursor is set to Failed before its call.
FailedYet(c) == [c EXCEPT !.status = "Failed"]

\* Fields of such a cursor.
LEMMA FailedFields ==
  ASSUME NEW c \in Cursors
  PROVE  /\ FailedYet(c) \in Cursors /\ FailedYet(c).batch = c.batch
         /\ FailedYet(c).completed = c.completed /\ FailedYet(c).newly = c.newly
         /\ FailedYet(c).start = c.start /\ FailedYet(c).status = "Failed"
BY DEF FailedYet, Cursors

\* advance: a record that is there is counted, another one is appended; the journal
\* refuses none but at its limit, because the preflight came the same way.
LEMMA AdvanceKeeps ==
  ASSUME FileAndonInv, NEW p \in Procs, Advance(p)
  PROVE  FileAndonInv'
<1> DEFINE h == handle[p]
           c == cursor[p]
           rs == c.batch.records
           x == rs[c.completed + 1]
<1>1. /\ h \in AndonHandles /\ HandleOk(h, disk, synced, acked)
      /\ FileOk(disk, synced) /\ AckedOk(acked, disk, synced)
      /\ cursor \in [Procs -> Cursors \cup {Unset}]
      /\ c \in Cursors /\ CursorOk(c, h)
      /\ h.mode = "open" /\ h.poisoned = FALSE /\ c.status = "Pending"
  BY ProcFacts DEF Advance, Healthy, AndonHandles
<1>2. /\ h.log = acked /\ h.ledger = Replay(acked) /\ h.step = "none" /\ disk.recs = acked
      /\ acked \in Seq(Records) /\ Len(acked) \in Nat /\ Len(acked) <= MaxRecords
  BY <1>1 DEF HandleOk, AckedOk, FileOk, Replayable
<1>3. PICK l : Preflight(l, c.batch) /\ h.ledger = AppliedUpTo(l, rs, c.completed)
  BY <1>1 DEF CursorOk
<1>4. c.completed \in Nat /\ c.completed < Len(rs) /\ Len(rs) \in Nat /\ x \in Records
  <2>1. c.completed \in Nat /\ Len(rs) \in Nat /\ c.completed < Len(rs)
    BY <1>1, BatchRecords DEF CursorOk
  <2>2. c.completed + 1 \in 1..Len(rs)
    BY <2>1
  <2>3. \A k \in 1..Len(rs) : rs[k] \in Records
    BY <1>1, BatchRecords
  <2> HIDE DEF c, rs
  <2> QED BY <2>1, <2>2, <2>3
<1>5. UNCHANGED <<disk, synced, acked>>
  BY DEF Advance
<1>6. CASE IsRetry(h.ledger, x)
  <2> DEFINE d == Advanced(c, FALSE, h.ledger)
  <2>1. cursor' = [cursor EXCEPT ![p] = d] /\ UNCHANGED handle
    BY <1>6 DEF Advance
  <2> HIDE DEF h, c, x
  <2>2. ~CanApply(h.ledger, x) /\ \E j \in 1..Len(acked) : acked[j] = x
    BY <1>2, <1>4, <1>6, RetryRecorded
  <2>3. h.ledger = AppliedUpTo(l, rs, c.completed + 1)
    <3> HIDE DEF rs
    <3>1. AppliedUpTo(l, rs, c.completed + 1) = AfterApply(AppliedUpTo(l, rs, c.completed), x)
      BY <1>4, AppliedSteps DEF x
    <3>2. AfterApply(h.ledger, x) = h.ledger
      BY <2>2 DEF AfterApply
    <3> QED BY <1>3, <3>1, <3>2
  <2>4. /\ \E j \in 1..Len(h.log) : h.log[j] = rs[c.completed + 1]
        /\ Len(h.log) = Len(h.log) + (IF FALSE THEN 1 ELSE 0)
        /\ \A k \in 1..Len(h.log) : h.log[k] = h.log[k]
    BY <1>2, <2>2 DEF x
  <2>5. d \in Cursors /\ CursorOk(d, h)
    BY <1>1, <1>2, <1>3, <1>4, <2>3, <2>4, AdvanceOk
  <2> HIDE DEF d
  <2> QED BY <1>5, <2>1, <2>5, CursorMoves DEF h
<1>7. CASE ~IsRetry(h.ledger, x)
  <2> DEFINE d == FailedYet(c)
  <2>1. /\ cursor' = [cursor EXCEPT ![p] = d]
        /\ handle' = IF MayPublish(p, x) THEN Poisoned(p, x) ELSE handle
        /\ Healthy(p)
    BY <1>7 DEF Advance, FailedYet
  <2>2. /\ d \in Cursors /\ d.batch = c.batch /\ d.completed = c.completed
        /\ d.newly = c.newly /\ d.start = c.start /\ d.status = "Failed"
    BY <1>1, FailedFields
  <2>3. CanApply(h.ledger, x)
    <3> DEFINE k == c.completed + 1
    <3>1. k \in 1..Len(rs) /\ k - 1 = c.completed
      BY <1>4
    <3>2. \A i \in 1..Len(rs) :
            CanApply(AppliedUpTo(l, rs, i - 1), rs[i]) \/ IsRetry(AppliedUpTo(l, rs, i - 1), rs[i])
      BY <1>3 DEF Preflight
    <3> HIDE DEF c, rs, h
    <3>3. CanApply(AppliedUpTo(l, rs, k - 1), rs[k]) \/ IsRetry(AppliedUpTo(l, rs, k - 1), rs[k])
      BY <3>1, <3>2
    <3> QED BY <1>3, <1>7, <3>1, <3>3
  <2> HIDE DEF d
  <2>4. CASE MayPublish(p, x)
    <3> DEFINE g == Begun(h, x)
    <3>1. /\ g \in AndonHandles /\ g.mode = h.mode /\ g.ledger = h.ledger /\ g.log = h.log
          /\ g.poisoned = TRUE /\ g.pending = x /\ g.step = "begun"
      <4> HIDE DEF h, x
      <4> QED BY <1>1, <1>4, BegunFields
    <3> HIDE DEF g
    <3>2. CursorOk(d, g)
      BY <1>1, <1>4, <2>2, <3>1 DEF CursorOk
    <3>3. /\ cursor' \in [Procs -> Cursors \cup {Unset}] /\ cursor'[p] = d
          /\ \A q \in Procs \ {p} : cursor'[q] = cursor[q]
      BY <1>1, <2>1, <2>2
    <3>4. handle' = Poisoned(p, x) /\ x \in Records
      BY <1>4, <2>1, <2>4
    <3>5. cursor'[p] # Unset => CursorOk(cursor'[p], Begun(handle[p], x))
      BY <3>2, <3>3 DEF g
    <3> HIDE DEF x
    <3> QED BY <1>5, <2>1, <2>4, <3>3, <3>4, <3>5, BegunKeeps
  <2>5. CASE ~MayPublish(p, x)
    <3>1. Len(h.log) = MaxRecords
      BY <1>2, <2>3, <2>5, FileAndonAssumption DEF MayPublish
    <3>2. CursorOk(d, h)
      <4> HIDE DEF h
      <4> QED BY <1>1, <1>2, <1>4, <2>2, <3>1 DEF CursorOk
    <3>3. UNCHANGED handle
      BY <2>1, <2>5
    <3> QED BY <1>5, <2>1, <2>2, <3>2, <3>3, CursorMoves
  <2> QED BY <2>4, <2>5
<1> QED BY <1>6, <1>7

-----------------------------------------------------------------------------
(* The file.                                                               *)

\* A file that does not exist.
LEMMA FileAndonInitOk == FileAndonInit => FileAndonInv
<1> SUFFICES ASSUME FileAndonInit PROVE FileAndonInv
  OBVIOUS
<1>1. /\ disk = NoFile /\ synced = NotSynced /\ acked = <<>>
      /\ handle = [p \in Procs |-> Closed] /\ cursor = [p \in Procs |-> Unset]
  BY DEF FileAndonInit
<1>3. FileOk(disk, synced) /\ AckedOk(acked, disk, synced)
  BY <1>1, NoFileOk
<1>5. Closed \in AndonHandles /\ Closed.mode = "closed" /\ Closed.step = "none"
  BY ClosedFields
<1> HIDE DEF Closed
<1>6. /\ handle \in [Procs -> AndonHandles] /\ cursor \in [Procs -> Cursors \cup {Unset}]
      /\ \A p \in Procs : handle[p].mode = "closed" /\ handle[p].step = "none"
      /\ \A p \in Procs : cursor[p] = Unset
  BY <1>1, <1>5
<1>7. \A p \in Procs : HandleOk(handle[p], disk, synced, acked)
  BY <1>6 DEF HandleOk
<1> QED BY <1>3, <1>6, <1>7 DEF FileAndonInv

\* Every step keeps the invariant: one lemma per action, and a head that a caller
\* keeps for itself changes nothing the invariant is about.
LEMMA FileAndonStep == FileAndonInv /\ [FileAndonNext]_andonVars => FileAndonInv'
<1> SUFFICES ASSUME FileAndonInv, [FileAndonNext]_andonVars
             PROVE  FileAndonInv'
  OBVIOUS
<1>1. ASSUME UNCHANGED <<disk, synced, handle, cursor, acked>>
      PROVE  FileAndonInv'
  BY <1>1 DEF FileAndonInv
<1>2. ASSUME NEW p \in Procs, Retain(p) PROVE FileAndonInv'
  BY <1>1, <1>2 DEF Retain
<1>3. CASE UNCHANGED andonVars
  BY <1>1, <1>3 DEF andonVars
<1>4. CASE FileAndonNext
  BY <1>2, <1>4, CreateFileKeeps, CreateLockKeeps, CreateHeaderKeeps,
     CreateSyncFileKeeps, CreateSyncDirectoryKeeps, OpenKeeps, DropKeeps, PowerLossKeeps,
     SubmitKeeps, RecordReviewKeeps, AppendBytesKeeps, FailKeeps, AcknowledgeKeeps,
     BeginImportKeeps, AdvanceKeeps, EndImportKeeps
     DEF FileAndonNext
<1> QED BY <1>3, <1>4

\* The file of the andon ledger replays, holds everything acknowledged in its
\* synchronized part and at most one record more, has one owner at most, whose
\* memory is the replay of the acknowledged history, and imports follow their
\* preflight (FileAndonInv).
THEOREM FileAndonInvariant == FileAndonSpec => []FileAndonInv
BY FileAndonInitOk, FileAndonStep, PTL DEF FileAndonSpec

\* A history that was acknowledged is the beginning of the synchronized records.
LEMMA AckedIsSynced ==
  ASSUME FileAndonInv
  PROVE  IsPrefix(acked, SyncedRecords)
<1> DEFINE s == disk.recs
           n == synced.count
           t == SubSeq(s, 1, n)
<1>1. /\ s \in Seq(Records) /\ n \in Nat /\ n <= Len(s) /\ acked \in Seq(Records)
      /\ Begins(acked, s) /\ Len(acked) <= n
  BY DEF FileAndonInv, FileOk, AckedOk
<1>2. n \in 0..Len(s)
  BY <1>1
<1>3. t \in Seq(Records) /\ Len(t) = n /\ \A k \in 1..n : t[k] = s[k]
  BY <1>1, <1>2, CutFacts
<1> HIDE DEF s, n, t
<1>4. Len(acked) \in Nat /\ \A k \in 1..Len(acked) : k \in 1..n
  BY <1>1
<1>5. Begins(acked, t)
  BY <1>1, <1>3, <1>4 DEF Begins
<1>6. IsPrefix(acked, t)
  BY <1>1, <1>3, <1>5, BeginsIff
<1> QED BY <1>6 DEF SyncedRecords, s, n, t

\* publish_with installs after the sync and open synchronizes what it recovered:
\* nothing anyone can read, or ever could, is lost out of the file with the power.
THEOREM ExposedStaysDurable == FileAndonSpec => []ExposedIsDurable
<1>1. FileAndonInv => ExposedIsDurable
  <2> SUFFICES ASSUME FileAndonInv PROVE ExposedIsDurable
    OBVIOUS
  <2>1. ASSUME NEW p \in Procs, Healthy(p)
        PROVE  handle[p].log = acked /\ handle[p].ledger = Replay(handle[p].log)
    BY <2>1 DEF FileAndonInv, HandleOk, Healthy
  <2> QED BY <2>1, AckedIsSynced DEF ExposedIsDurable
<1> QED BY <1>1, FileAndonInvariant, PTL

\* The writer never produces what strict replay refuses, and what replay rebuilds
\* has exact accounts.
THEOREM IntactAlwaysReopens == FileAndonSpec => []IntactReopens
<1>1. FileAndonInv => IntactReopens
  <2> SUFFICES ASSUME FileAndonInv PROVE IntactReopens
    OBVIOUS
  <2>1. disk.recs \in Seq(Records) /\ Replayable(disk.recs)
    BY DEF FileAndonInv, FileOk
  <2>2. Good(Replay(disk.recs))
    BY <2>1, ReplayGood
  <2>3. Exact(Replay(disk.recs))
    BY <2>2 DEF Good
  <2> QED BY <2>1, <2>3 DEF IntactReopens
<1> QED BY <1>1, FileAndonInvariant, PTL

\* begin and advance: an import counts what is in the synchronized file, as many
\* records new as the history has grown, and a preflighted batch fails only by an
\* I/O error or at the record limit.
THEOREM ImportsCountTrue == FileAndonSpec => []ImportCountsTrue
<1>1. FileAndonInv => ImportCountsTrue
  <2> SUFFICES ASSUME FileAndonInv, NEW p \in Procs, cursor[p] # Unset
               PROVE  /\ \A k \in 1..cursor[p].completed :
                           \E j \in 1..synced.count :
                             disk.recs[j] = cursor[p].batch.records[k]
                      /\ Healthy(p) =>
                           /\ Len(handle[p].log) = cursor[p].start + cursor[p].newly
                           /\ cursor[p].status = "Failed" =>
                                Len(handle[p].log) = MaxRecords
    BY DEF ImportCountsTrue
  <2> DEFINE c == cursor[p]
             h == handle[p]
             n == synced.count
             d == disk.recs
  <2>1. /\ CursorOk(c, h) /\ HandleOk(h, disk, synced, acked)
        /\ FileOk(disk, synced) /\ AckedOk(acked, disk, synced)
    BY ProcFacts
  <2>2. /\ h.log = acked /\ acked \in Seq(Records) /\ Len(acked) <= n /\ n \in Nat
        /\ \A j \in 1..Len(acked) : acked[j] = d[j]
    BY <2>1 DEF CursorOk, HandleOk, FileOk, AckedOk, Begins
  <2>3. ASSUME NEW k \in 1..c.completed
        PROVE  \E j \in 1..n : d[j] = c.batch.records[k]
    <3>1. PICK j \in 1..Len(acked) : acked[j] = c.batch.records[k]
      BY <2>1, <2>2 DEF CursorOk
    <3>2. j \in 1..n
      <4> DEFINE m == Len(acked)
      <4>1. m \in Nat /\ m <= n /\ j \in 1..m
        BY <2>2
      <4> HIDE DEF m, n
      <4> QED BY <2>2, <4>1
    <3> QED BY <2>2, <3>1, <3>2
  <2>4. ASSUME Healthy(p)
        PROVE  Len(h.log) = c.start + c.newly /\ (c.status = "Failed" => Len(h.log) = MaxRecords)
    BY <2>1, <2>4 DEF CursorOk, Healthy
  <2> QED BY <2>3, <2>4
<1> QED BY <1>1, FileAndonInvariant, PTL

-----------------------------------------------------------------------------
(* The file implements the ledger.                                         *)

\* One record more moves the ledger as a call of AndonLedger does.
LEMMA AppendIsCall ==
  ASSUME NEW s \in Seq(Records), NEW x \in Records, CanApply(Replay(s), x)
  PROVE  \/ \E b \in Budgets : CanRegister(Replay(s), b)
                               /\ Replay(Append(s, x)) = AfterRegister(Replay(s), b)
         \/ \E f \in Facts : CanRecord(Replay(s), f)
                             /\ Replay(Append(s, x)) = AfterRecord(Replay(s), f)
<1> DEFINE l == Replay(s)
<1>1. Replay(Append(s, x)) = AfterApply(l, x) /\ CanApply(l, x)
  BY ReplayAppend
<1> HIDE DEF l
<1>2. CASE x.kind = "Window" /\ x.value \in Budgets
  BY <1>1, <1>2 DEF CanApply, AfterApply, l
<1>3. CASE x.kind = "FalseHold" /\ x.value \in Facts
  BY <1>1, <1>3 DEF CanApply, AfterApply, l
<1> QED BY <1>2, <1>3, RecordCases

\* A history that has another as its beginning, and at most one record more.
LEMMA OneMore ==
  ASSUME NEW s \in Seq(Records), NEW t \in Seq(Records), Begins(s, t), Replayable(t),
         Len(t) <= Len(s) + 1, t # s
  PROVE  \E x \in Records : CanApply(Replay(s), x) /\ t = Append(s, x)
<1> DEFINE n == Len(s)
           m == Len(t)
           x == t[Len(s) + 1]
<1>1. n \in Nat /\ m \in Nat /\ n <= m /\ m <= n + 1 /\ \A k \in 1..n : s[k] = t[k]
  BY DEF Begins
<1>2. m # n
  BY <1>1
<1>3. m = n + 1
  <2> HIDE DEF m, n
  <2> QED BY <1>1, <1>2
<1>4. x \in Records
  BY <1>1, <1>3
<1>5. CanApply(Replay(s), x)
  <2>1. Len(s) < Len(t)
    BY <1>1, <1>3
  <2> QED BY <2>1, ReplayableBegins
<1>6. t = Append(s, x)
  BY <1>1, <1>3, <1>4
<1> QED BY <1>4, <1>5, <1>6

\* What is acknowledged grows by a record the ledger accepts, or not at all, or is
\* taken with its file: a new file has no history, an opened one is the acknowledged history or holds the one
\* record whose call never returned, and an acknowledgement is of the pending record.
LEMMA AckedMoves ==
  ASSUME FileAndonInv, [FileAndonNext]_andonVars
  PROVE  \/ acked' = acked
         \/ FileTaken
         \/ \E x \in Records : CanApply(Replay(acked), x) /\ acked' = Append(acked, x)
<1>1. FileOk(disk, synced) /\ AckedOk(acked, disk, synced)
  BY DEF FileAndonInv
<1>2. ASSUME NEW p \in Procs, CreateSyncDirectory(p)
      PROVE  acked' = acked
  <2>1. disk.recs = <<>> /\ acked' = <<>>
    BY <1>2, ProcFacts DEF CreateSyncDirectory, HandleOk, Expose
  <2>2. acked \in Seq(Records) /\ Len(acked) <= Len(disk.recs) /\ Len(disk.recs) = 0
    BY <1>1, <2>1 DEF AckedOk, Begins
  <2>3. acked = <<>>
    BY <2>2
  <2> QED BY <2>1, <2>3
<1>3. ASSUME NEW p \in Procs, Open(p), acked' # acked
      PROVE  \E x \in Records : CanApply(Replay(acked), x) /\ acked' = Append(acked, x)
  <2> DEFINE t == disk.recs
  <2>1. acked' = t
    BY <1>3 DEF Open, Expose
  <2>2. /\ acked \in Seq(Records) /\ t \in Seq(Records) /\ Begins(acked, t) /\ Replayable(t)
        /\ Len(t) <= Len(acked) + 1
    BY <1>1 DEF FileOk, AckedOk
  <2>3. t # acked
    BY <1>3, <2>1
  <2> HIDE DEF t
  <2>4. \E x \in Records : CanApply(Replay(acked), x) /\ t = Append(acked, x)
    BY <2>2, <2>3, OneMore
  <2> QED BY <2>1, <2>4
<1>4. ASSUME NEW p \in Procs, Acknowledge(p)
      PROVE  \E x \in Records : CanApply(Replay(acked), x) /\ acked' = Append(acked, x)
  <2> DEFINE h == handle[p]
  <2>1. h.step = "written" /\ acked' = Append(h.log, h.pending)
    BY <1>4 DEF Acknowledge, Expose
  <2>2. HandleOk(h, disk, synced, acked) /\ h.mode = "open"
    BY <2>1, ProcFacts
  <2>3. h.log = acked /\ h.pending \in Records /\ CanApply(Replay(acked), h.pending)
    BY <2>1, <2>2 DEF HandleOk
  <2> QED BY <2>1, <2>3
<1>5. CASE UNCHANGED andonVars
  BY <1>5 DEF andonVars
<1>6. CASE PowerLoss
  <2>1. CASE ~synced.entry /\ disk' = NoFile /\ acked' = <<>>
    BY <2>1 DEF FileTaken, NoFile
  <2>2. CASE acked' = acked
    BY <2>2
  <2> QED BY <1>6, <2>1, <2>2 DEF PowerLoss
<1>7. ASSUME FileAndonNext, ~PowerLoss,
             ~\E p \in Procs : CreateSyncDirectory(p) \/ Open(p) \/ Acknowledge(p)
      PROVE  acked' = acked
  <2>1. ASSUME NEW p \in Procs, NEW x \in Records, Submit(p, x)
        PROVE  acked' = acked
    BY <2>1 DEF Submit
  <2>2. ASSUME NEW p \in Procs, NEW r, NEW exact, NEW f \in Facts, RecordReview(p, r, exact, f)
        PROVE  acked' = acked
    BY <2>2 DEF RecordReview, Submit
  <2>3. ASSUME NEW p \in Procs, NEW torn \in BOOLEAN, AppendBytes(p, torn)
        PROVE  acked' = acked
    BY <2>3 DEF AppendBytes
  <2>4. ASSUME NEW p \in Procs, Advance(p)
        PROVE  acked' = acked
    BY <2>4 DEF Advance
  <2>5. ASSUME NEW p \in Procs, NEW batch \in Batches, BeginImport(p, batch)
        PROVE  acked' = acked
    BY <2>5 DEF BeginImport
  <2>6. ASSUME NEW p \in Procs,
               \/ CreateFile(p) \/ CreateLock(p) \/ CreateHeader(p) \/ CreateSyncFile(p)
               \/ Drop(p) \/ Retain(p) \/ FailIO(p) \/ EndImport(p)
        PROVE  acked' = acked
    BY <2>6 DEF CreateFile, CreateLock, CreateHeader, CreateSyncFile, Drop, Retain, FailIO, EndImport
  <2> QED BY <1>7, <2>1, <2>2, <2>3, <2>4, <2>5, <2>6, Zenon DEF FileAndonNext
<1>8. CASE FileAndonNext
  BY <1>2, <1>3, <1>4, <1>6, <1>7, <1>8, Zenon
<1> QED BY <1>5, <1>8

\* AckedLedger has definitions of its own, the same as those of the file.
LEMMA SameDefinitions ==
  /\ AckedLedger!NewAndon = NewAndon
  /\ \A l, b : /\ AckedLedger!CanRegister(l, b) <=> CanRegister(l, b)
              /\ AckedLedger!AfterRegister(l, b) = AfterRegister(l, b)
  /\ \A l, f : /\ AckedLedger!CanRecord(l, f) <=> CanRecord(l, f)
              /\ AckedLedger!AfterRecord(l, f) = AfterRecord(l, f)
<1>1. AckedLedger!NewAndon = NewAndon
  BY DEF NewAndon, AckedLedger!NewAndon
<1>2. ASSUME NEW l, NEW b
      PROVE  AckedLedger!CanRegister(l, b) <=> CanRegister(l, b)
  BY DEF CanRegister, AckedLedger!CanRegister, Registered, AckedLedger!Registered,
         Overlap, AckedLedger!Overlap, Cardinality, AckedLedger!Cardinality
<1>3. ASSUME NEW l, NEW b
      PROVE  AckedLedger!AfterRegister(l, b) = AfterRegister(l, b)
  BY DEF AfterRegister, AckedLedger!AfterRegister
<1>4. ASSUME NEW l, NEW f
      PROVE  AckedLedger!CoveringWindow(l, f) = CoveringWindow(l, f)
  BY DEF CoveringWindow, AckedLedger!CoveringWindow, Registered, AckedLedger!Registered,
         Covers, AckedLedger!Covers
<1>5. ASSUME NEW l, NEW f
      PROVE  AckedLedger!CanRecord(l, f) <=> CanRecord(l, f)
  BY <1>4 DEF CanRecord, AckedLedger!CanRecord, Confirmed, AckedLedger!Confirmed,
         Cardinality, AckedLedger!Cardinality
<1>6. ASSUME NEW l, NEW f
      PROVE  AckedLedger!AfterRecord(l, f) = AfterRecord(l, f)
  BY Zenon DEF AfterRecord, AckedLedger!AfterRecord, IncidentRounds, AckedLedger!IncidentRounds,
         OpensIncident, AckedLedger!OpensIncident, CoveringWindow, AckedLedger!CoveringWindow,
         Registered, AckedLedger!Registered, Covers, AckedLedger!Covers
<1> QED BY <1>1, <1>2, <1>3, <1>5, <1>6

\* The acknowledged history, replayed, moves as one AndonLedger, whoever owns the
\* file and whatever fails, and goes back only when a power loss takes a file whose
\* directory entry was never synchronized: the theorems about the ledger hold of a
\* file that was created.
THEOREM FileImplementsLedger == FileAndonSpec => ImplementsLedger
<1>1. FileAndonInit => AckedLedger!Init
  <2>1. SUFFICES ASSUME FileAndonInit PROVE Replay(<<>>) = NewAndon
    BY SameDefinitions DEF AckedLedger!Init, FileAndonInit
  <2>2. Len(<<>>) = 0
    OBVIOUS
  <2>3. AppliedUpTo(NewAndon, <<>>, 0) = NewAndon
    BY AppliedSteps
  <2> QED BY <2>2, <2>3 DEF Replay
<1> DEFINE A == acked' # acked => FileTaken \/ AckedLedger!Next
<1>2. FileAndonInv /\ [FileAndonNext]_andonVars => [A]_acked
  <2> SUFFICES ASSUME FileAndonInv, [FileAndonNext]_andonVars, acked' # acked, ~FileTaken
               PROVE  AckedLedger!Next
    OBVIOUS
  <2>2. CASE \E x \in Records : CanApply(Replay(acked), x) /\ acked' = Append(acked, x)
    <3>1. PICK x \in Records : CanApply(Replay(acked), x) /\ acked' = Append(acked, x)
      BY <2>2
    <3>2. acked \in Seq(Records)
      BY DEF FileAndonInv, AckedOk
    <3>3. \/ \E b \in Budgets : CanRegister(Replay(acked), b)
                                /\ Replay(acked') = AfterRegister(Replay(acked), b)
          \/ \E f \in Facts : CanRecord(Replay(acked), f)
                              /\ Replay(acked') = AfterRecord(Replay(acked), f)
      BY <3>1, <3>2, AppendIsCall
    <3> QED BY <3>3, SameDefinitions
            DEF AckedLedger!Next, AckedLedger!RegisterWindow, AckedLedger!RecordTrusted
  <2> QED BY <2>2, AckedMoves
<1>3. FileAndonSpec => AckedLedger!Init /\ [][A]_acked
  BY <1>1, <1>2, FileAndonInvariant, PTL DEF FileAndonSpec
<1> QED BY <1>3 DEF ImplementsLedger

=============================================================================
