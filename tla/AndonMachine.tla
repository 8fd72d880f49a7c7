---------------------------- MODULE AndonMachine ----------------------------
(***************************************************************************)
(* AndonLedger as a state machine: windows and confirmations in any order, *)
(* late, repeated and contradicting each other.                            *)
(***************************************************************************)
EXTENDS Andon

VARIABLE ledger

Init == ledger = NewAndon

RegisterWindow(b) ==
  /\ CanRegister(ledger, b)
  /\ ledger' = AfterRegister(ledger, b)

RecordTrusted(f) ==
  /\ CanRecord(ledger, f)
  /\ ledger' = AfterRecord(ledger, f)

Next ==
  \/ \E b \in Budgets : RegisterWindow(b)
  \/ \E f \in Facts : RecordTrusted(f)

Spec == Init /\ [][Next]_ledger

-----------------------------------------------------------------------------

\* The ledger has the shape of an AndonLedger.
AndonTypeOK == ledger \in AndonLedger

\* Windows never share a moment, so a stop has one window at most.
WindowsDisjoint ==
  \A v, w \in Registered(ledger) : v # w => ~Overlap(ledger.budget[v], ledger.budget[w])

\* The accounts are exact after any sequence of calls (see Exact).
AccountsExact == Exact(ledger)

\* Nothing is refunded, repriced or forgotten: registered windows and recorded
\* confirmations stay, counts do not fall, and an open incident stays open with
\* its opener (the ledger has no reset and no refund).
OnlyGrows ==
  /\ \A w \in Registered(ledger) : ledger'.budget[w] = ledger.budget[w]
  /\ \A r \in Confirmed(ledger) :
       /\ ledger'.confirmation[r] = ledger.confirmation[r]
       /\ ledger'.charged_to[r] = ledger.charged_to[r]
  /\ \A w \in WindowIds :
       /\ ledger.false_stops[w] <= ledger'.false_stops[w]
       /\ ledger.opened_by[w] # Unset => ledger'.opened_by[w] = ledger.opened_by[w]

NeverRefunded == [][OnlyGrows]_ledger

=============================================================================
