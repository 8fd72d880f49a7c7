--------------------------- MODULE CongressProofs ---------------------------
(***************************************************************************)
(* Proofs about the congress: the reducer, the congress-gated owner and    *)
(* measured credibility, for any attempts, effects, members, evidence,     *)
(* cases and policies.  The argument follows the code.                     *)
(*                                                                         *)
(*  - A transcript is honest because no method of Round can make it        *)
(*    otherwise; units are only held where check_review succeeded; and a   *)
(*    dispatch re-runs the check, which an honest transcript turns into a  *)
(*    statement about what every member committed to.                      *)
(*  - reduce is a sum over members of what both caps leave of their        *)
(*    weights.  What ReviewPolicy::new checks of one tally, where everyone *)
(*    permits, is compared with every other tally by comparing sums.       *)
(*  - The weight of a helper is made of quotients of counts of cases.      *)
(*    A worse answer makes no count better, and quotients compare as their *)
(*    fractions do.                                                        *)
(*  - promote_credibility stores weights the caps have already reached;    *)
(*    they stay as they are however few members answer.                    *)
(***************************************************************************)
EXTENDS CongressAuthority, Credibility, FiniteSetTheorems, WellFoundedInduction, TLAPS

-----------------------------------------------------------------------------
(* One reservation of the ledger moves at a time.                          *)

\* Ledger q differs from ledger r in the reservation of id, now in state s.
Moves(r, q, id, s) ==
  /\ q \in Ledger
  /\ \A j \in Ids \ {id} : q.reservations[j] = r.reservations[j]
  /\ StateOf(q, id) = s

\* A reservation that exists has an effect with units.
LEMMA Existing ==
  ASSUME NEW r \in Ledger, NEW id \in Ids, StateOf(r, id) # "Missing"
  PROVE  r.reservations[id] \in Reservation /\ UnitsOf(r, id) \in 0..U64Max
BY RightsAssumption DEF Ledger, Reservation, Missing, StateOf, UnitsOf, States, Held

\* SetState keeps the reservations well typed and touches one of them.
LEMMA StateSet ==
  ASSUME NEW r \in Ledger, NEW id \in Ids, StateOf(r, id) # "Missing", NEW s \in States
  PROVE  /\ SetState(r, id, s) \in [Ids -> Reservation \cup {Missing}]
         /\ \A j \in Ids \ {id} : SetState(r, id, s)[j] = r.reservations[j]
         /\ SetState(r, id, s)[id].state = s
BY Existing DEF SetState, Ledger, Reservation

\* reserve takes the units from the balance of available ones.
LEMMA ReserveMoves ==
  ASSUME NEW r \in Ledger, NEW id \in Ids, NEW e \in Effects, CanReserve(r, id, e)
  PROVE  Moves(r, AfterReserve(r, id, e), id, "Reserved")
<1> DEFINE v == [effect |-> e, epoch |-> r.epoch, state |-> "Reserved"]
<1>1. v \in Reservation
  BY DEF Ledger, Reservation, States, Held
<1>2. r.available - Units[e] \in 0..U64Max
  BY RightsAssumption DEF Ledger, CanReserve
<1>3. [r.reservations EXCEPT ![id] = v] \in [Ids -> Reservation \cup {Missing}]
  BY <1>1 DEF Ledger
<1>4. QED
  BY <1>2, <1>3 DEF Moves, AfterReserve, Ledger, StateOf

\* mark_unknown and dispatch change no balance.
LEMMA DispatchMoves ==
  ASSUME NEW r \in Ledger, NEW id \in Ids, StateOf(r, id) # "Missing"
  PROVE  /\ Moves(r, AfterDispatch(r, id), id, "Dispatched")
         /\ Moves(r, AfterMarkUnknown(r, id), id, "Unknown")
<1>1. "Dispatched" \in States /\ "Unknown" \in States
  BY DEF States, Held
<1>2. ASSUME NEW s \in States
      PROVE  Moves(r, [r EXCEPT !.reservations = SetState(r, id, s)], id, s)
  <2> DEFINE f == SetState(r, id, s)
  <2>1. /\ f \in [Ids -> Reservation \cup {Missing}]
        /\ \A j \in Ids \ {id} : f[j] = r.reservations[j]
        /\ f[id].state = s
    BY StateSet
  <2> HIDE DEF f
  <2>2. QED
    BY <2>1 DEF Moves, Ledger, StateOf, f
<1>3. QED
  BY <1>1, <1>2 DEF AfterDispatch, AfterMarkUnknown

\* abort_before_dispatch gives them back.
LEMMA AbortMoves ==
  ASSUME NEW r \in Ledger, NEW id \in Ids, CanAbort(r, id)
  PROVE  Moves(r, AfterAbort(r, id), id, "Aborted")
<1> DEFINE f == SetState(r, id, "Aborted")
<1>1. StateOf(r, id) # "Missing"
  BY DEF CanAbort
<1>2. /\ f \in [Ids -> Reservation \cup {Missing}]
      /\ \A j \in Ids \ {id} : f[j] = r.reservations[j]
      /\ f[id].state = "Aborted"
  BY <1>1, StateSet DEF States
<1>3. r.available + UnitsOf(r, id) \in 0..U64Max
  BY <1>1, Existing, RightsAssumption DEF CanAbort, Ledger
<1> HIDE DEF f
<1>4. QED
  BY <1>2, <1>3 DEF Moves, AfterAbort, Ledger, StateOf, f

\* reconcile spends them or gives them back.
LEMMA ReconcileMoves ==
  ASSUME NEW r \in Ledger, NEW id \in Ids, NEW occurred \in BOOLEAN,
         CanReconcile(r, id, occurred)
  PROVE  Moves(r, AfterReconcile(r, id, occurred), id,
               IF occurred THEN "Committed" ELSE "Aborted")
<1>1. StateOf(r, id) # "Missing"
  BY DEF CanReconcile, Liable
<1>2. CASE occurred
  <2> DEFINE f == SetState(r, id, "Committed")
  <2>1. /\ f \in [Ids -> Reservation \cup {Missing}]
        /\ \A j \in Ids \ {id} : f[j] = r.reservations[j]
        /\ f[id].state = "Committed"
    BY <1>1, StateSet DEF States
  <2>2. r.spent + UnitsOf(r, id) \in 0..U64Max
    BY <1>1, <1>2, Existing, RightsAssumption DEF CanReconcile, Ledger
  <2> HIDE DEF f
  <2>3. QED
    BY <1>2, <2>1, <2>2 DEF Moves, AfterReconcile, Ledger, StateOf, f
<1>3. CASE ~occurred
  <2> DEFINE f == SetState(r, id, "Aborted")
  <2>1. /\ f \in [Ids -> Reservation \cup {Missing}]
        /\ \A j \in Ids \ {id} : f[j] = r.reservations[j]
        /\ f[id].state = "Aborted"
    BY <1>1, StateSet DEF States
  <2>2. r.available + UnitsOf(r, id) \in 0..U64Max
    BY <1>1, <1>3, Existing, RightsAssumption DEF CanReconcile, Ledger
  <2> HIDE DEF f
  <2>3. QED
    BY <1>3, <2>1, <2>2 DEF Moves, AfterReconcile, Ledger, StateOf, f
<1>4. QED
  BY <1>2, <1>3

-----------------------------------------------------------------------------
(* One attempt of the authority moves at a time.                           *)

Early == {"Absent", "Proposed", "Prepared", "Reviewing"}

InUse(a, id) == StateOf(a.rights, id) \in Held \cup {"Committed"}

\* The invariant: types; an attempt has its action and its review; an attempt
\* that was not authorized has no reservation; transcripts are honest; and units
\* are in use only where the review is ready.
Typed ==
  /\ auth \in AuthorityValue
  /\ reviews \in [Ids -> RoundValue \cup {NoReview}]
  /\ world \in Worlds

Paired ==
  \A id \in Ids : auth.stage[id] # "Absent" =>
    /\ auth.action[id] \in Effects
    /\ reviews[id] \in RoundValue
    /\ reviews[id] # NoReview

EarlyUnreserved ==
  \A id \in Ids : auth.stage[id] \in Early => auth.rights.reservations[id] = Missing

Inv == Typed /\ Paired /\ EarlyUnreserved /\ TranscriptHonest /\ ReservedOnlyWhenReady

\* What a call on the authority alone may do: attempts keep their actions, none
\* appears, early attempts stay without reservation, and units come into use only
\* where the check of the review has just succeeded.
LifecycleStep ==
  /\ auth' \in AuthorityValue
  /\ UNCHANGED <<reviews, world>>
  /\ auth'.action = auth.action
  /\ \A id \in Ids : auth'.stage[id] # "Absent" => auth.stage[id] # "Absent"
  /\ \A id \in Ids : auth'.stage[id] \in Early => auth'.rights.reservations[id] = Missing
  /\ \A id \in Ids : InUse(auth', id) => InUse(auth, id) \/ CheckReview(id)

\* An attempt that exists and its reservation move to stage s and ledger r.
LEMMA AttemptMoves ==
  ASSUME NEW id \in Ids, NEW r \in Ledger, NEW s \in Stages, NEW t,
         Typed, EarlyUnreserved,
         auth.stage[id] # "Absent",
         UNCHANGED <<reviews, world>>,
         auth' = [auth EXCEPT !.rights = r, !.stage[id] = s],
         \/ r = auth.rights /\ (s \in Early => auth.stage[id] \in Early)
         \/ Moves(auth.rights, r, id, t) /\ s \notin Early,
         InUse(auth', id) => InUse(auth, id) \/ CheckReview(id)
  PROVE  LifecycleStep
<1>1. auth \in AuthorityValue
  BY DEF Typed
<1>2. auth' \in AuthorityValue /\ auth'.action = auth.action
  BY <1>1 DEF AuthorityValue
<1>3. /\ auth'.stage = [auth.stage EXCEPT ![id] = s]
      /\ auth'.rights = r
      /\ auth.stage \in [Ids -> Stages \cup {"Absent"}]
  BY <1>1 DEF AuthorityValue
<1>4. \A j \in Ids \ {id} : r.reservations[j] = auth.rights.reservations[j]
  BY DEF Moves
<1>5. \A j \in Ids : auth'.stage[j] # "Absent" => auth.stage[j] # "Absent"
  BY <1>3
<1>6. ASSUME NEW j \in Ids, auth'.stage[j] \in Early
      PROVE  auth'.rights.reservations[j] = Missing
  <2>1. CASE j = id
    BY <1>3, <1>6, <2>1 DEF EarlyUnreserved
  <2>2. CASE j # id
    BY <1>3, <1>4, <1>6, <2>2 DEF EarlyUnreserved
  <2>3. QED
    BY <2>1, <2>2
<1>7. ASSUME NEW j \in Ids, InUse(auth', j)
      PROVE  InUse(auth, j) \/ CheckReview(j)
  <2>1. CASE j = id
    BY <1>7, <2>1
  <2>2. CASE j # id
    BY <1>3, <1>4, <1>7, <2>2 DEF InUse, StateOf
  <2>3. QED
    BY <2>1, <2>2
<1>8. QED
  BY <1>2, <1>5, <1>6, <1>7 DEF LifecycleStep

\* Every call that only changes the authority is a LifecycleStep.
AuthorityCall ==
  \/ \E tick \in 0..MaxTick : ObserveTime(tick)
  \/ \E id \in Ids :
       \/ Prepare(id) \/ BeginReview(id) \/ Authorize(id) \/ Dispatch(id)
       \/ \E terminal \in {"Cancelled", "Denied"} : Stop(id, terminal)
       \/ MarkUnknown(id) \/ MarkIrrecoverable(id)
       \/ \E executed \in BOOLEAN : RecordOutcome(id, executed)
  \/ RevokeEpoch

\* The calls that leave transcripts alone are steps of the lifecycle: units come into
\* use only where check_review has just succeeded.
LEMMA CallsAreLifecycle ==
  ASSUME Typed, Paired, EarlyUnreserved, AuthorityCall
  PROVE  LifecycleStep
<1> USE DEF Authority
<1>0. /\ auth \in AuthorityValue
      /\ auth.rights \in Ledger
      /\ auth.stage \in [Ids -> Stages \cup {"Absent"}]
  BY DEF Typed, AuthorityValue
<1>1. ASSUME NEW id \in Ids, NEW s \in Stages, auth.stage[id] # "Absent",
             UNCHANGED <<reviews, world>>, auth' = [auth EXCEPT !.stage[id] = s],
             s \in Early => auth.stage[id] \in Early
      PROVE  LifecycleStep
  <2>1. auth' = [auth EXCEPT !.rights = auth.rights, !.stage[id] = s]
    BY <1>0, <1>1 DEF AuthorityValue
  <2>2. auth'.rights = auth.rights
    BY <1>0, <1>1 DEF AuthorityValue
  <2>3. InUse(auth', id) => InUse(auth, id)
    BY <2>2 DEF InUse
  <2>4. QED
    BY <1>0, <1>1, <2>1, <2>3, AttemptMoves
<1>2. ASSUME NEW tick \in 0..MaxTick, ObserveTime(tick)
      PROVE  LifecycleStep
  <2>1. auth' = [auth EXCEPT !.elapsed = tick] /\ UNCHANGED <<reviews, world>>
    BY <1>2 DEF ObserveTime, AfterObserveTime
  <2>2. tick \in -1..MaxTick
    BY AuthorityAssumption
  <2>3. /\ auth' \in AuthorityValue /\ auth'.action = auth.action
        /\ auth'.stage = auth.stage /\ auth'.rights = auth.rights
    BY <1>0, <2>1, <2>2 DEF AuthorityValue
  <2>4. QED
    BY <2>1, <2>3 DEF LifecycleStep, InUse, EarlyUnreserved
<1>3. ASSUME NEW id \in Ids, Prepare(id)
      PROVE  LifecycleStep
  BY <1>1, <1>3 DEF Prepare, CanPrepare, AfterPrepare, Stages, Undispatched, Early
<1>4. ASSUME NEW id \in Ids, BeginReview(id)
      PROVE  LifecycleStep
  BY <1>1, <1>4 DEF BeginReview, CanBeginReview, AfterBeginReview, Stages, Undispatched, Early
<1>5. ASSUME NEW id \in Ids, MarkIrrecoverable(id)
      PROVE  LifecycleStep
  BY <1>1, <1>5
     DEF MarkIrrecoverable, CanMarkIrrecoverable, AfterMarkIrrecoverable, Stages, InFlight, Early
<1>6. ASSUME NEW id \in Ids, Authorize(id)
      PROVE  LifecycleStep
  <2> DEFINE e == auth.action[id]
             r == AfterReserve(auth.rights, id, e)
  <2>1. /\ CheckReview(id) /\ auth.stage[id] = "Reviewing"
        /\ CanReserve(auth.rights, id, e)
        /\ auth' = [auth EXCEPT !.rights = r, !.stage[id] = "Authorized"]
        /\ UNCHANGED <<reviews, world>>
    BY <1>6 DEF Authorize, Reviewing, AfterAuthorize
  <2>2. e \in Effects
    BY <2>1 DEF Paired
  <2>3. Moves(auth.rights, r, id, "Reserved")
    BY <1>0, <2>1, <2>2, ReserveMoves
  <2>4. r \in Ledger
    BY <2>3 DEF Moves
  <2>5. "Authorized" \in Stages /\ "Authorized" \notin Early
    BY DEF Stages, Undispatched, Early
  <2> HIDE DEF r
  <2>6. QED
    BY <2>1, <2>3, <2>4, <2>5, AttemptMoves
<1>7. ASSUME NEW id \in Ids, NEW r \in Ledger, NEW t, NEW s \in Stages \ Early,
             auth.stage[id] # "Absent", InUse(auth, id), Moves(auth.rights, r, id, t),
             UNCHANGED <<reviews, world>>, auth' = [auth EXCEPT !.rights = r, !.stage[id] = s]
      PROVE  LifecycleStep
  BY <1>7, AttemptMoves
<1>8. ASSUME NEW id \in Ids, Dispatch(id)
      PROVE  LifecycleStep
  <2>1. /\ auth.stage[id] # "Absent" /\ InUse(auth, id)
        /\ StateOf(auth.rights, id) # "Missing"
        /\ "Dispatching" \in Stages \ Early
    BY <1>8 DEF Dispatch, CanDispatch, InUse, Held, Stages, InFlight, Early
  <2>2. Moves(auth.rights, AfterDispatch(auth.rights, id), id, "Dispatched")
    BY <1>0, <2>1, DispatchMoves
  <2>3. QED
    BY <1>7, <1>8, <2>1, <2>2 DEF Dispatch, AfterDispatchAttempt, Moves
<1>9. ASSUME NEW id \in Ids, MarkUnknown(id)
      PROVE  LifecycleStep
  <2>1. /\ auth.stage[id] # "Absent" /\ InUse(auth, id)
        /\ StateOf(auth.rights, id) # "Missing"
        /\ "Unknown" \in Stages \ Early
    BY <1>9 DEF MarkUnknown, CanMarkAttemptUnknown, CanMarkUnknown, InUse, Held, Stages,
                InFlight, Early
  <2>2. Moves(auth.rights, AfterMarkUnknown(auth.rights, id), id, "Unknown")
    BY <1>0, <2>1, DispatchMoves
  <2>3. QED
    BY <1>7, <1>9, <2>1, <2>2 DEF MarkUnknown, AfterMarkAttemptUnknown, Moves
<1>10. ASSUME NEW id \in Ids, NEW executed \in BOOLEAN, RecordOutcome(id, executed)
       PROVE  LifecycleStep
  <2> DEFINE s == IF executed THEN "Confirmed" ELSE "ConfirmedNotExecuted"
             r == AfterReconcile(auth.rights, id, executed)
  <2>1. /\ auth.stage[id] # "Absent" /\ InUse(auth, id)
        /\ CanReconcile(auth.rights, id, executed)
        /\ s \in Stages \ Early
    BY <1>10 DEF RecordOutcome, CanRecordOutcome, CanReconcile, Liable, InUse, Held, Stages,
                 Terminal, Early
  <2>2. Moves(auth.rights, r, id, IF executed THEN "Committed" ELSE "Aborted")
    BY <1>0, <2>1, ReconcileMoves
  <2>3. r \in Ledger
    BY <2>2 DEF Moves
  <2>4. /\ auth' = [auth EXCEPT !.rights = r, !.stage[id] = s]
        /\ UNCHANGED <<reviews, world>>
    BY <1>10 DEF RecordOutcome, AfterRecordOutcome
  <2> HIDE DEF r, s
  <2>5. QED
    BY <1>7, <2>1, <2>2, <2>3, <2>4
<1>11. ASSUME NEW id \in Ids, NEW terminal \in {"Cancelled", "Denied"}, Stop(id, terminal)
       PROVE  LifecycleStep
  <2>1. /\ auth.stage[id] \in Undispatched
        /\ auth.stage[id] = "Authorized" => CanAbort(auth.rights, id)
        /\ UNCHANGED <<reviews, world>>
        /\ auth' = AfterStop(auth, id, terminal)
    BY <1>11 DEF Stop, CanStop
  <2>2. terminal \in Stages \ Early /\ auth.stage[id] # "Absent"
    BY <2>1 DEF Stages, Terminal, Early, Undispatched
  <2>3. CASE auth.stage[id] = "Authorized"
    <3> DEFINE r == AfterAbort(auth.rights, id)
    <3>1. Moves(auth.rights, r, id, "Aborted")
      BY <1>0, <2>1, <2>3, AbortMoves
    <3>2. r \in Ledger
      BY <3>1 DEF Moves
    <3>3. InUse(auth, id)
      BY <2>1, <2>3 DEF CanAbort, InUse, Held
    <3>4. auth' = [auth EXCEPT !.rights = r, !.stage[id] = terminal]
      BY <2>1, <2>3 DEF AfterStop
    <3> HIDE DEF r
    <3>5. QED
      BY <1>7, <2>1, <2>2, <3>1, <3>2, <3>3, <3>4
  <2>4. CASE auth.stage[id] # "Authorized"
    <3>1. auth' = [auth EXCEPT !.stage[id] = terminal]
      BY <1>0, <2>1, <2>4 DEF AfterStop, AuthorityValue
    <3>2. QED
      BY <1>1, <2>1, <2>2, <3>1
  <2>5. QED
    BY <2>3, <2>4
<1>12. ASSUME RevokeEpoch
       PROVE  LifecycleStep
  <2> DEFINE r == AfterRevokeEpoch(auth.rights)
  <2>1. r \in Ledger /\ r.reservations = auth.rights.reservations
    BY <1>0, <1>12, RightsAssumption DEF RevokeEpoch, CanRevokeEpoch, AfterRevokeEpoch, Ledger
  <2>2. auth' = [auth EXCEPT !.rights = r] /\ UNCHANGED <<reviews, world>>
    BY <1>12 DEF RevokeEpoch
  <2> HIDE DEF r
  <2>3. /\ auth' \in AuthorityValue /\ auth'.action = auth.action
        /\ auth'.stage = auth.stage /\ auth'.rights = r
    BY <1>0, <2>1, <2>2 DEF AuthorityValue
  <2>4. QED
    BY <2>1, <2>2, <2>3 DEF LifecycleStep, InUse, EarlyUnreserved, StateOf
<1>13. QED
  BY <1>2, <1>3, <1>4, <1>5, <1>6, <1>8, <1>9, <1>10, <1>11, <1>12 DEF AuthorityCall

-----------------------------------------------------------------------------
(* One transcript moves at a time.                                         *)

\* A new panel's transcript is well typed and honest.
LEMMA EmpanelledHonest ==
  ASSUME NEW id \in Ids, NEW root \in Roots
  PROVE  /\ Empanelled(id, root) \in RoundValue
         /\ Honest(Empanelled(id, root))
<1> DEFINE r == NewRound(id, root)
<1>1. r \in RoundValue
  BY CongressAuthorityAssumption DEF NewRound, RoundValue
<1>2. r.members \cup Policy.members \in SUBSET Members
  BY CongressAuthorityAssumption DEF NewRound
<1>3. Empanelled(id, root) = [r EXCEPT !.members = r.members \cup Policy.members]
  BY DEF Empanelled, AfterAddMembers
<1>4. /\ \A m \in Members : r.outcome[m] = "Missing"
      /\ \A m \in Members : r.commitment[m] = NoDigest
  BY DEF NewRound
<1> HIDE DEF r
<1>5. Empanelled(id, root) \in RoundValue
  BY <1>1, <1>2, <1>3 DEF RoundValue
<1>6. /\ Empanelled(id, root).outcome = r.outcome
      /\ Empanelled(id, root).commitment = r.commitment
  BY <1>1, <1>3 DEF RoundValue
<1>7. QED
  BY <1>4, <1>5, <1>6 DEF Honest

\* Round::commit: nothing is revealed yet, so any digest will do.
LEMMA CommitHonest ==
  ASSUME NEW r \in RoundValue, Honest(r), NEW m \in Members, CanCommit(r, m),
         NEW digest \in Digests
  PROVE  /\ AfterCommit(r, m, digest) \in RoundValue
         /\ Honest(AfterCommit(r, m, digest))
<1> DEFINE q == AfterCommit(r, m, digest)
<1>1. q \in RoundValue
  BY DEF AfterCommit, RoundValue
<1>2. /\ q.phase = r.phase /\ q.outcome = r.outcome /\ q.members = r.members
      /\ q.membership_frozen = TRUE
      /\ \A n \in Members \ {m} : q.commitment[n] = r.commitment[n]
  BY DEF AfterCommit, RoundValue
<1> HIDE DEF q
<1>3. QED
  BY <1>1, <1>2 DEF Honest, CanCommit, q

\* Round::open_reveals
LEMMA OpenHonest ==
  ASSUME NEW r \in RoundValue, Honest(r), CanOpenReveals(r)
  PROVE  /\ AfterOpenReveals(r) \in RoundValue
         /\ Honest(AfterOpenReveals(r))
<1> DEFINE q == AfterOpenReveals(r)
<1>1. q \in RoundValue
  BY DEF AfterOpenReveals, RoundValue
<1>2. /\ q.outcome = r.outcome /\ q.members = r.members /\ q.commitment = r.commitment
      /\ q.membership_frozen = TRUE /\ q.phase = "Reveal"
  BY DEF AfterOpenReveals, RoundValue
<1> HIDE DEF q
<1>3. QED
  BY <1>1, <1>2 DEF Honest, CanOpenReveals, q

\* Round::reveal: the verdict is the one that was committed to.
LEMMA RevealHonest ==
  ASSUME NEW r \in RoundValue, Honest(r), NEW m \in Members,
         NEW verdict \in Verdicts, NEW salt \in Salts, CanReveal(r, m, verdict, salt)
  PROVE  /\ AfterReveal(r, m, verdict) \in RoundValue
         /\ Honest(AfterReveal(r, m, verdict))
<1> DEFINE q == AfterReveal(r, m, verdict)
<1>1. q \in RoundValue
  BY DEF AfterReveal, RoundValue
<1>2. /\ q.phase = r.phase /\ q.id = r.id /\ q.root = r.root /\ q.members = r.members
      /\ q.commitment = r.commitment /\ q.membership_frozen = r.membership_frozen
      /\ \A n \in Members \ {m} : q.outcome[n] = r.outcome[n]
      /\ q.outcome[m] = verdict
  BY DEF AfterReveal, RoundValue
<1>3. \A n, v, s : Commitment(q, n, v, s) = Commitment(r, n, v, s)
  BY <1>2 DEF Commitment
<1> HIDE DEF q
<1>4. ASSUME NEW n \in Members, q.outcome[n] # "Missing"
      PROVE  \E s \in Salts : q.commitment[n] = Commitment(q, n, q.outcome[n], s)
  <2>1. CASE n = m
    BY <1>2, <1>3, <2>1 DEF CanReveal
  <2>2. CASE n # m
    BY <1>2, <1>3, <1>4, <2>2 DEF Honest
  <2>3. QED
    BY <2>1, <2>2
<1>5. q.phase # "Commit"
  BY <1>2 DEF CanReveal
<1>6. QED
  BY <1>1, <1>2, <1>4, <1>5 DEF Honest, q

\* One transcript is replaced by an honest one while its attempt is reviewed.
LEMMA ReviewMoves ==
  ASSUME Inv, NEW id \in Ids, NEW r \in RoundValue, Honest(r), Reviewing(id),
         reviews' = [reviews EXCEPT ![id] = r], r # NoReview, UNCHANGED <<auth, world>>
  PROVE  Inv'
<1>1. reviews \in [Ids -> RoundValue \cup {NoReview}]
  BY DEF Inv, Typed
<1>2. /\ reviews' \in [Ids -> RoundValue \cup {NoReview}]
      /\ reviews'[id] = r
      /\ \A j \in Ids \ {id} : reviews'[j] = reviews[j]
  BY <1>1
<1>3. Typed'
  BY <1>2 DEF Inv, Typed
<1>4. Paired'
  BY <1>2 DEF Inv, Paired
<1>5. EarlyUnreserved'
  BY DEF Inv, EarlyUnreserved
<1>6. TranscriptHonest'
  BY <1>2 DEF Inv, TranscriptHonest
<1>7. ReservedOnlyWhenReady'
  <2> SUFFICES ASSUME NEW j \in Ids, (Reserved(j) \/ Charged(j))'
               PROVE  (/\ reviews[j].root[1] = j
                       /\ reviews[j].root[2] = auth.action[j]
                       /\ Evaluate(Policy, reviews[j], "Clear") = "Ready")'
    BY DEF ReservedOnlyWhenReady
  <2>1. Reserved(j) \/ Charged(j)
    BY DEF Reserved, Charged
  <2>2. j # id
    BY <2>1 DEF Inv, EarlyUnreserved, Reviewing, Early, Reserved, Charged, StateOf, Missing
  <2>3. QED
    BY <1>2, <2>1, <2>2 DEF Inv, ReservedOnlyWhenReady
<1>8. QED
  BY <1>3, <1>4, <1>5, <1>6, <1>7 DEF Inv

-----------------------------------------------------------------------------
(* The invariant.                                                          *)

\* A new attempt comes with its action and its panel, and holds nothing.
LEMMA ProposeKeeps ==
  ASSUME Inv, NEW id \in Ids, NEW e \in Effects, Propose(id, e)
  PROVE  Inv'
<1> DEFINE root == Challenge(id, e, world)
           r == Empanelled(id, root)
<1>1. /\ auth \in AuthorityValue /\ world \in Worlds
      /\ reviews \in [Ids -> RoundValue \cup {NoReview}]
  BY DEF Inv, Typed
<1>2. root \in Roots
  BY <1>1, CongressAuthorityAssumption DEF Challenge, Worlds
<1>3. r \in RoundValue /\ Honest(r) /\ r # NoReview
  BY <1>2, EmpanelledHonest, CongressAuthorityAssumption
<1>4. /\ auth.stage[id] = "Absent"
      /\ auth' = [auth EXCEPT !.stage[id] = "Proposed", !.action[id] = e]
      /\ reviews' = [reviews EXCEPT ![id] = r]
      /\ world' = world
  BY DEF Propose, CanPropose, AfterPropose
<1> HIDE DEF r, root
<1>5. /\ auth' \in AuthorityValue
      /\ auth'.rights = auth.rights
      /\ auth'.stage = [auth.stage EXCEPT ![id] = "Proposed"]
      /\ auth'.action = [auth.action EXCEPT ![id] = e]
  BY <1>1, <1>4 DEF AuthorityValue, Stages, Undispatched
<1>6. /\ auth.stage \in [Ids -> Stages \cup {"Absent"}]
      /\ auth.action \in [Ids -> Effects \cup {NoEffect}]
  BY <1>1 DEF AuthorityValue
<1>7. /\ reviews' \in [Ids -> RoundValue \cup {NoReview}]
      /\ reviews'[id] = r
      /\ \A j \in Ids \ {id} : reviews'[j] = reviews[j]
  BY <1>1, <1>3, <1>4
<1>8. auth.rights.reservations[id] = Missing
  BY <1>4 DEF Inv, EarlyUnreserved, Early
<1>9. Typed'
  BY <1>1, <1>4, <1>5, <1>7 DEF Typed
<1>10. Paired'
  BY <1>3, <1>5, <1>6, <1>7 DEF Inv, Paired
<1>11. EarlyUnreserved'
  BY <1>5, <1>6, <1>8 DEF Inv, EarlyUnreserved
<1>12. TranscriptHonest'
  BY <1>3, <1>7 DEF Inv, TranscriptHonest
<1>13. ReservedOnlyWhenReady'
  <2> SUFFICES ASSUME NEW j \in Ids, (Reserved(j) \/ Charged(j))'
               PROVE  (/\ reviews[j].root[1] = j
                       /\ reviews[j].root[2] = auth.action[j]
                       /\ Evaluate(Policy, reviews[j], "Clear") = "Ready")'
    BY DEF ReservedOnlyWhenReady
  <2>1. Reserved(j) \/ Charged(j)
    BY <1>5 DEF Reserved, Charged
  <2>2. j # id
    BY <1>8, <2>1 DEF Reserved, Charged, StateOf, Missing
  <2>3. QED
    BY <1>5, <1>6, <1>7, <2>1, <2>2 DEF Inv, ReservedOnlyWhenReady
<1>14. QED
  BY <1>9, <1>10, <1>11, <1>12, <1>13 DEF Inv

\* A review that is ready now is ready when nothing speaks against the action.
LEMMA ReadyIsClear ==
  ASSUME NEW r, NEW exact \in {"Clear", "Disqualified", "Unknown"},
         Evaluate(Policy, r, exact) = "Ready"
  PROVE  /\ exact = "Clear"
         /\ r.phase = "Reveal"
         /\ \A m \in Policy.members : r.outcome[m] # "Missing"
BY DEF Evaluate

\* A call on the authority keeps the invariant.
LEMMA LifecycleKeeps ==
  ASSUME Inv, LifecycleStep
  PROVE  Inv'
<1>1. Typed'
  BY DEF Inv, Typed, LifecycleStep
<1>2. Paired'
  BY DEF Inv, Paired, LifecycleStep
<1>3. EarlyUnreserved'
  BY DEF LifecycleStep, EarlyUnreserved
<1>4. TranscriptHonest'
  BY DEF Inv, LifecycleStep, TranscriptHonest
<1>5. ReservedOnlyWhenReady'
  <2> SUFFICES ASSUME NEW j \in Ids, (Reserved(j) \/ Charged(j))'
               PROVE  (/\ reviews[j].root[1] = j
                       /\ reviews[j].root[2] = auth.action[j]
                       /\ Evaluate(Policy, reviews[j], "Clear") = "Ready")'
    BY DEF ReservedOnlyWhenReady
  <2>1. InUse(auth', j)
    BY DEF Reserved, Charged, InUse, Held
  <2>2. InUse(auth, j) \/ CheckReview(j)
    BY <2>1 DEF LifecycleStep
  <2>3. /\ reviews[j].root[1] = j
        /\ reviews[j].root[2] = auth.action[j]
        /\ Evaluate(Policy, reviews[j], "Clear") = "Ready"
    <3>1. CASE InUse(auth, j)
      BY <3>1 DEF Inv, ReservedOnlyWhenReady, Reserved, Charged, InUse, Held
    <3>2. CASE CheckReview(j)
      <4>1. world.exact \in {"Clear", "Disqualified", "Unknown"}
        BY DEF Inv, Typed, Worlds
      <4>2. QED
        BY <3>2, <4>1, ReadyIsClear DEF CheckReview, Challenge
    <3>3. QED
      BY <2>2, <3>1, <3>2
  <2>4. QED
    BY <2>3 DEF LifecycleStep
<1>6. QED
  BY <1>1, <1>2, <1>3, <1>4, <1>5 DEF Inv

\* Every step of the congress-gated owner keeps its inductive invariant.
LEMMA InvStep == Inv /\ [Next]_vars => Inv'
<1> SUFFICES ASSUME Inv, [Next]_vars
             PROVE  Inv'
  OBVIOUS
<1>0. ASSUME NEW id \in Ids, Reviewing(id)
      PROVE  reviews[id] \in RoundValue /\ Honest(reviews[id])
  BY <1>0 DEF Inv, Paired, Reviewing, TranscriptHonest
<1>1. CASE AuthorityCall
  BY <1>1, CallsAreLifecycle, LifecycleKeeps DEF Inv
<1>2. ASSUME NEW id \in Ids, NEW e \in Effects, Propose(id, e)
      PROVE  Inv'
  BY <1>2, ProposeKeeps
<1>3. ASSUME NEW id \in Ids, NEW m \in Members, NEW digest \in OfferedBy(m),
             Commit(id, m, digest)
      PROVE  Inv'
  <2>1. digest \in Digests
    <3>1. PICK i \in Ids, author \in Members, verdict \in OfferedVerdicts, salt \in Salts :
            /\ reviews[i] # NoReview
            /\ digest = Commitment(reviews[i], author, verdict, salt)
      BY DEF OfferedBy
    <3>2. reviews[i] \in RoundValue
      BY <3>1 DEF Inv, Typed
    <3>3. reviews[i].id \in RoundIds /\ reviews[i].root \in Roots
      BY <3>2 DEF RoundValue
    <3>4. verdict \in Verdicts
      BY CongressAuthorityAssumption
    <3>5. QED
      BY <3>1, <3>3, <3>4 DEF Commitment, Digests
  <2>2. Reviewing(id) /\ CanCommit(reviews[id], m)
    BY <1>3 DEF Commit
  <2>3. /\ AfterCommit(reviews[id], m, digest) \in RoundValue
        /\ Honest(AfterCommit(reviews[id], m, digest))
    BY <1>0, <2>1, <2>2, CommitHonest
  <2>4. QED
    BY <1>3, <2>2, <2>3, ReviewMoves, CongressAuthorityAssumption DEF Commit
<1>4. ASSUME NEW id \in Ids, OpenReveals(id)
      PROVE  Inv'
  <2>1. Reviewing(id) /\ CanOpenReveals(reviews[id])
    BY <1>4 DEF OpenReveals
  <2>2. /\ AfterOpenReveals(reviews[id]) \in RoundValue
        /\ Honest(AfterOpenReveals(reviews[id]))
    BY <1>0, <2>1, OpenHonest
  <2>3. QED
    BY <1>4, <2>1, <2>2, ReviewMoves, CongressAuthorityAssumption DEF OpenReveals
<1>5. ASSUME NEW id \in Ids, NEW m \in Members, NEW verdict \in Verdicts, NEW salt \in Salts,
             Reveal(id, m, verdict, salt)
      PROVE  Inv'
  <2>1. Reviewing(id) /\ CanReveal(reviews[id], m, verdict, salt)
    BY <1>5 DEF Reveal
  <2>2. /\ AfterReveal(reviews[id], m, verdict) \in RoundValue
        /\ Honest(AfterReveal(reviews[id], m, verdict))
    BY <1>0, <2>1, RevealHonest
  <2>3. QED
    BY <1>5, <2>1, <2>2, ReviewMoves, CongressAuthorityAssumption DEF Reveal
<1>6. ASSUME NEW w \in Worlds, Change(w)
      PROVE  Inv'
  BY <1>6 DEF Change, Inv, Typed, Paired, EarlyUnreserved, TranscriptHonest,
              ReservedOnlyWhenReady, Reserved, Charged
<1>7. CASE UNCHANGED vars
  BY <1>7 DEF vars, Inv, Typed, Paired, EarlyUnreserved, TranscriptHonest,
              ReservedOnlyWhenReady, Reserved, Charged
<1>8. QED
  BY <1>1, <1>2, <1>3, <1>4, <1>5, <1>6, <1>7 DEF Next, AuthorityCall

\* The invariant holds of every behaviour of the owner.
THEOREM InvHolds == Spec => []Inv
<1>1. Init => Inv
  <2> SUFFICES ASSUME Init
               PROVE  Inv
    OBVIOUS
  <2>1. NewRights \in Ledger
    BY RightsAssumption DEF NewRights, Ledger
  <2>2. auth \in AuthorityValue
    BY <2>1, AuthorityAssumption, RightsAssumption
       DEF Init, NewAuthority, AuthorityValue, NoTick
  <2>3. world \in Worlds /\ reviews \in [Ids -> RoundValue \cup {NoReview}]
    BY CongressAuthorityAssumption DEF Init, Worlds
  <2>4. /\ \A id \in Ids : auth.stage[id] = "Absent"
        /\ \A id \in Ids : auth.rights.reservations[id] = Missing
        /\ \A id \in Ids : reviews[id] = NoReview
    BY DEF Init, NewAuthority, NewRights
  <2>5. QED
    BY <2>2, <2>3, <2>4
       DEF Inv, Typed, Paired, EarlyUnreserved, TranscriptHonest, ReservedOnlyWhenReady,
           Reserved, Charged, StateOf, Missing
<1>2. QED
  BY <1>1, InvStep, PTL DEF Spec

-----------------------------------------------------------------------------
(* What the owner promises.                                                *)

\* Round: a verdict that counts is the one its member committed to, for this
\* round and this challenge, before any verdict was known, although members hand
\* in whatever digests they like, those of others included.
THEOREM TranscriptsAreHonest == Spec => []TranscriptHonest
<1>1. Inv => TranscriptHonest
  BY DEF Inv
<1>2. QED
  BY <1>1, InvHolds, PTL

\* check_review: units are held or spent only for an attempt whose own panel
\* found its own action ready.
THEOREM ReservedIsReady == Spec => []ReservedOnlyWhenReady
<1>1. Inv => ReservedOnlyWhenReady
  BY DEF Inv
<1>2. QED
  BY <1>1, InvHolds, PTL

\* Only Dispatch takes an attempt from Authorized to Dispatching, and it checks
\* the review again.
LEMMA DispatchChecks ==
  ASSUME Inv, Next, NEW id \in Ids,
         auth.stage[id] = "Authorized", auth'.stage[id] = "Dispatching"
  PROVE  CheckReview(id)
<1> USE DEF Authority
<1>0. /\ auth \in AuthorityValue
      /\ auth.stage \in [Ids -> Stages \cup {"Absent"}]
  BY DEF Inv, Typed, AuthorityValue
<1>1. ASSUME NEW j \in Ids, NEW s,
             auth'.stage = [auth.stage EXCEPT ![j] = s], s # "Dispatching"
      PROVE  FALSE
  BY <1>0, <1>1
<1>2. ASSUME auth'.stage = auth.stage
      PROVE  FALSE
  BY <1>2
<1>3. ASSUME NEW j \in Ids, NEW s, s # "Dispatching",
             \/ auth' = [auth EXCEPT !.stage[j] = s]
             \/ \E r : auth' = [auth EXCEPT !.rights = r, !.stage[j] = s]
             \/ \E e : auth' = [auth EXCEPT !.stage[j] = s, !.action[j] = e]
      PROVE  FALSE
  <2>1. auth'.stage = [auth.stage EXCEPT ![j] = s]
    BY <1>0, <1>3 DEF AuthorityValue
  <2>2. QED
    BY <1>0, <1>1, <1>3, <2>1
<1>4. ASSUME NEW tick \in 0..MaxTick, ObserveTime(tick)
      PROVE  FALSE
  BY <1>0, <1>2, <1>4 DEF ObserveTime, AfterObserveTime, AuthorityValue
<1>5. ASSUME NEW j \in Ids, NEW e \in Effects, Propose(j, e)
      PROVE  FALSE
  BY <1>3, <1>5 DEF Propose, AfterPropose
<1>6. ASSUME NEW j \in Ids, Prepare(j) \/ BeginReview(j) \/ MarkIrrecoverable(j)
      PROVE  FALSE
  BY <1>3, <1>6 DEF Prepare, AfterPrepare, BeginReview, AfterBeginReview, MarkIrrecoverable,
                    AfterMarkIrrecoverable
<1>7. ASSUME NEW j \in Ids, Authorize(j) \/ MarkUnknown(j)
      PROVE  FALSE
  BY <1>3, <1>7 DEF Authorize, AfterAuthorize, MarkUnknown, AfterMarkAttemptUnknown
<1>8. ASSUME NEW j \in Ids, NEW executed \in BOOLEAN, RecordOutcome(j, executed)
      PROVE  FALSE
  BY <1>3, <1>8 DEF RecordOutcome, AfterRecordOutcome
<1>9. ASSUME NEW j \in Ids, NEW terminal \in {"Cancelled", "Denied"}, Stop(j, terminal)
      PROVE  FALSE
  BY <1>3, <1>9 DEF Stop, AfterStop
<1>10. ASSUME RevokeEpoch
       PROVE  FALSE
  BY <1>0, <1>2, <1>10 DEF RevokeEpoch, AuthorityValue
<1>11. ASSUME UNCHANGED auth
       PROVE  FALSE
  BY <1>11
<1>12. ASSUME NEW j \in Ids, Dispatch(j)
       PROVE  CheckReview(id)
  <2>1. CASE j = id
    BY <1>12, <2>1 DEF Dispatch
  <2>2. CASE j # id
    <3>1. auth'.stage = [auth.stage EXCEPT ![j] = "Dispatching"]
      BY <1>0, <1>12 DEF Dispatch, AfterDispatchAttempt, AuthorityValue
    <3>2. QED
      BY <1>0, <2>2, <3>1
  <2>3. QED
    BY <2>1, <2>2
<1>13. QED
  BY <1>4, <1>5, <1>6, <1>7, <1>8, <1>9, <1>10, <1>11, <1>12
     DEF Next, Commit, OpenReveals, Reveal, Change

\* CongressAuthority::dispatch: what leaves is what every member of the panel
\* committed itself to before any verdict was known, under the evidence and the
\* epoch of the moment, with no exact validator against it.
THEOREM DispatchedAsReviewedHolds == Spec => DispatchedAsReviewed
<1> DEFINE A == \A id \in Ids :
                  (auth.stage[id] = "Authorized" /\ auth'.stage[id] = "Dispatching") =>
                    world.exact = "Clear" /\ JudgedAsIs(id)
<1>1. Inv /\ [Next]_vars => [A]_vars
  <2> SUFFICES ASSUME Inv, Next, NEW id \in Ids,
                      auth.stage[id] = "Authorized", auth'.stage[id] = "Dispatching"
               PROVE  world.exact = "Clear" /\ JudgedAsIs(id)
    OBVIOUS
  <2>1. CheckReview(id)
    BY DispatchChecks
  <2>2. world.exact \in {"Clear", "Disqualified", "Unknown"}
    BY DEF Inv, Typed, Worlds
  <2>3. /\ world.exact = "Clear"
        /\ \A m \in Policy.members : reviews[id].outcome[m] # "Missing"
        /\ reviews[id].root = Challenge(id, auth.action[id], world)
    BY <2>1, <2>2, ReadyIsClear DEF CheckReview
  <2>4. Honest(reviews[id])
    BY DEF Inv, Paired, TranscriptHonest
  <2>5. ASSUME NEW m \in Policy.members
        PROVE  /\ reviews[id].commitment[m].member = m
               /\ reviews[id].commitment[m].root = reviews[id].root
    <3>1. m \in Members
      BY CongressAuthorityAssumption
    <3>2. PICK salt \in Salts :
            reviews[id].commitment[m] =
              Commitment(reviews[id], m, reviews[id].outcome[m], salt)
      BY <2>3, <2>4, <3>1 DEF Honest
    <3>3. QED
      BY <3>2 DEF Commitment
  <2>6. QED
    BY <2>3, <2>5 DEF JudgedAsIs
<1>2. Spec => [][A]_vars
  BY <1>1, InvHolds, PTL DEF Spec
<1>3. QED
  BY <1>2 DEF DispatchedAsReviewed

-----------------------------------------------------------------------------
(* Sums over finite sets.                                                  *)

\* Induction over the natural numbers, for a set.
LEMMA NatInduct ==
  ASSUME NEW S, 0 \in S, \A n \in Nat : n \in S => n + 1 \in S
  PROVE  Nat \subseteq S
<1> DEFINE R == OpToRel(<, Nat)
           T == Nat \ S
<1>1. SUFFICES ASSUME T # {} PROVE FALSE
  OBVIOUS
<1>2. IsWellFoundedOn(R, Nat) /\ T \subseteq Nat
  BY NatLessThanWellFounded
<1>3. \E x \in T : \A y \in T : ~ (<<y, x>> \in R)
  <2> HIDE DEF R, T
  <2> QED BY <1>1, <1>2, WFMin
<1>4. PICK x \in T : \A y \in T : ~ (<<y, x>> \in R)
  BY <1>3
<1>5. x \in Nat /\ x # 0 /\ x \notin S
  BY <1>4
<1>6. x - 1 \in Nat /\ x - 1 < x
  BY <1>5
<1>7. <<x - 1, x>> \in R
  BY <1>5, <1>6 DEF OpToRel
<1>8. x - 1 \in S
  BY <1>4, <1>6, <1>7
<1> QED BY <1>5, <1>6, <1>8

\* Induction over the subsets of a finite set, for a set of subsets.
LEMMA SetInduct ==
  ASSUME NEW S, IsFiniteSet(S), NEW Q, {} \in Q,
         \A T \in SUBSET S : \A x \in S \ T : T \in Q => T \cup {x} \in Q
  PROVE  \A T \in SUBSET S : T \in Q
<1> DEFINE N == {n \in Nat : \A T \in SUBSET S : Cardinality(T) = n => T \in Q}
<1>1. \A T \in SUBSET S : IsFiniteSet(T) /\ Cardinality(T) \in Nat
  BY FS_Subset, FS_CardinalityType
<1>2. 0 \in N
  BY <1>1, FS_EmptySet
<1>3. ASSUME NEW n \in Nat, n \in N
      PROVE  n + 1 \in N
  <2>1. SUFFICES ASSUME NEW T \in SUBSET S, Cardinality(T) = n + 1 PROVE T \in Q
    OBVIOUS
  <2>2. T # {}
    <3>1. Cardinality({}) = 0
      BY FS_EmptySet
    <3> QED BY <2>1, <3>1
  <2>3. PICK x \in T : TRUE
    BY <2>2
  <2> DEFINE U == T \ {x}
  <2>4. U \in SUBSET S /\ x \in S \ U /\ U \cup {x} = T
    OBVIOUS
  <2>5. Cardinality(U) = n
    <3>1. IsFiniteSet(T)
      BY <1>1
    <3>2. Cardinality(U) = Cardinality(T) - 1
      BY <3>1, FS_RemoveElement
    <3> QED BY <2>1, <3>2
  <2>6. U \in Q
    BY <1>3, <2>4, <2>5
  <2> QED BY <2>4, <2>6
<1>4. Nat \subseteq N
  <2> HIDE DEF N
  <2> QED BY <1>2, <1>3, NatInduct
<1> QED BY <1>1, <1>4

\* g adds up the values of f over the subsets of S.
Additive(g, f, S) ==
  /\ g \in [SUBSET S -> Nat]
  /\ g[{}] = 0
  /\ \A T \in SUBSET S : \A x \in S \ T : g[T \cup {x}] = f[x] + g[T]

\* There is such a function.
LEMMA AdditiveExists ==
  ASSUME NEW S, IsFiniteSet(S), NEW f, \A x \in S : f[x] \in Nat
  PROVE  \E g : Additive(g, f, S)
<1> DEFINE Q == {T \in SUBSET S : \E g : Additive(g, f, T)}
<1>1. {} \in Q
  <2> DEFINE g == [T \in SUBSET {} |-> 0]
  <2>1. Additive(g, f, {})
    BY DEF Additive
  <2> QED BY <2>1
<1>2. ASSUME NEW T \in SUBSET S, NEW x \in S \ T, T \in Q
      PROVE  T \cup {x} \in Q
  <2>1. PICK g : Additive(g, f, T)
    BY <1>2
  <2> DEFINE V == T \cup {x}
             h == [U \in SUBSET V |-> IF x \in U THEN f[x] + g[U \ {x}] ELSE g[U]]
  <2>2. /\ g \in [SUBSET T -> Nat] /\ g[{}] = 0
        /\ \A U \in SUBSET T : \A y \in T \ U : g[U \cup {y}] = f[y] + g[U]
    BY <2>1 DEF Additive
  <2>3. ASSUME NEW U \in SUBSET V
        PROVE  /\ x \in U => U \ {x} \in SUBSET T /\ h[U] = f[x] + g[U \ {x}]
               /\ x \notin U => U \in SUBSET T /\ h[U] = g[U]
               /\ h[U] \in Nat
    BY <2>2
  <2>4. h \in [SUBSET V -> Nat]
    BY <2>3
  <2>5. h[{}] = 0
    BY <2>2, <2>3
  <2> HIDE DEF h
  <2>6. ASSUME NEW U \in SUBSET V, NEW y \in V \ U
        PROVE  h[U \cup {y}] = f[y] + h[U]
    <3> DEFINE W == U \cup {y}
    <3>1. W \in SUBSET V
      OBVIOUS
    <3>2. CASE y = x
      <4>1. x \in W /\ W \ {x} = U /\ x \notin U
        BY <3>2
      <4> QED BY <2>3, <3>1, <3>2, <4>1
    <3>3. CASE y # x /\ x \notin U
      <4>1. x \notin W /\ U \in SUBSET T /\ y \in T \ U
        BY <3>3
      <4>2. h[W] = g[W] /\ h[U] = g[U]
        BY <2>3, <3>1, <4>1
      <4>3. g[W] = f[y] + g[U]
        BY <2>2, <4>1
      <4> QED BY <4>2, <4>3
    <3>4. CASE y # x /\ x \in U
      <4> DEFINE X == U \ {x}
      <4>1. X \in SUBSET T /\ y \in T \ X /\ W \ {x} = X \cup {y} /\ x \in W
        BY <3>4
      <4>2. h[W] = f[x] + g[W \ {x}] /\ h[U] = f[x] + g[X]
        BY <2>3, <3>1, <3>4, <4>1
      <4>3. g[X \cup {y}] = f[y] + g[X]
        BY <2>2, <4>1
      <4>4. f[x] \in Nat /\ f[y] \in Nat /\ g[X] \in Nat
        BY <2>2, <4>1
      <4>5. h[W] = f[x] + g[X \cup {y}]
        BY <4>1, <4>2
      <4>6. h[W] = f[x] + (f[y] + g[X])
        BY <4>3, <4>5
      <4> HIDE DEF X, W
      <4>7. h[W] = f[y] + h[U]
        BY <4>2, <4>4, <4>6
      <4> QED BY <4>7 DEF W
    <3> QED BY <3>2, <3>3, <3>4
  <2>7. Additive(h, f, V)
    BY <2>4, <2>5, <2>6 DEF Additive
  <2> QED BY <2>7
<1>3. S \in Q
  <2> HIDE DEF Q
  <2>1. \A T \in SUBSET S : \A x \in S \ T : T \in Q => T \cup {x} \in Q
    BY <1>2
  <2> QED BY <1>1, <2>1, SetInduct
<1> QED BY <1>3

\* SumOver, which takes the members of the set in any order, adds up.
LEMMA SumIsAdditive ==
  ASSUME NEW S, IsFiniteSet(S), NEW f, NEW g, Additive(g, f, S)
  PROVE  SumOver(f, S) = g[S]
<1> DEFINE P(h) == h = [s \in SUBSET S |->
                         IF s = {} THEN 0
                         ELSE f[CHOOSE x \in s : TRUE] + h[s \ {CHOOSE x \in s : TRUE}]]
           u == CHOOSE h : P(h)
<1>1. /\ g \in [SUBSET S -> Nat] /\ g[{}] = 0
      /\ \A T \in SUBSET S : \A x \in S \ T : g[T \cup {x}] = f[x] + g[T]
  BY DEF Additive
<1>2. ASSUME NEW s \in SUBSET S, s # {}
      PROVE  /\ (CHOOSE x \in s : TRUE) \in s
             /\ g[s] = f[CHOOSE x \in s : TRUE] + g[s \ {CHOOSE x \in s : TRUE}]
  <2> DEFINE x == CHOOSE x \in s : TRUE
  <2>1. x \in s
    BY <1>2
  <2> HIDE DEF x
  <2>2. s \ {x} \in SUBSET S /\ x \in S \ (s \ {x}) /\ (s \ {x}) \cup {x} = s
    BY <2>1
  <2>3. g[s] = f[x] + g[s \ {x}]
    BY <1>1, <2>2
  <2> QED BY <2>1, <2>3 DEF x
<1>3. P(g)
  BY <1>1, <1>2
<1>4. P(u)
  <2>1. \E h : P(h)
    BY <1>3
  <2> QED BY <2>1
<1>5. SumOver(f, S) = u[S]
  BY DEF SumOver, MapThenSumSet, MapThenFoldSet
<1>6. \A T \in SUBSET S : u[T] = g[T]
  <2> DEFINE N == {n \in Nat : \A T \in SUBSET S : Cardinality(T) = n => u[T] = g[T]}
  <2>0. ASSUME NEW s \in SUBSET S
        PROVE  u[s] = IF s = {} THEN 0
                      ELSE f[CHOOSE x \in s : TRUE] + u[s \ {CHOOSE x \in s : TRUE}]
    BY <1>4
  <2> HIDE DEF u
  <2>1. \A T \in SUBSET S : IsFiniteSet(T) /\ Cardinality(T) \in Nat
    BY FS_Subset, FS_CardinalityType
  <2>2. 0 \in N
    BY <1>1, <2>0, <2>1, FS_EmptySet
  <2>3. ASSUME NEW n \in Nat, n \in N
        PROVE  n + 1 \in N
    <3>1. SUFFICES ASSUME NEW T \in SUBSET S, Cardinality(T) = n + 1 PROVE u[T] = g[T]
      OBVIOUS
    <3> DEFINE x == CHOOSE x \in T : TRUE
    <3>2. T # {}
      BY <3>1, FS_EmptySet
    <3>3. x \in T /\ g[T] = f[x] + g[T \ {x}]
      BY <1>2, <3>2
    <3>4. u[T] = f[x] + u[T \ {x}]
      BY <2>0, <3>2
    <3> HIDE DEF x
    <3>5. Cardinality(T \ {x}) = n
      <4>1. Cardinality(T \ {x}) = Cardinality(T) - 1
        BY <2>1, <3>3, FS_RemoveElement
      <4> QED BY <3>1, <4>1
    <3>6. u[T \ {x}] = g[T \ {x}]
      BY <2>3, <3>5
    <3> QED BY <3>3, <3>4, <3>6
  <2>4. Nat \subseteq N
    <3> HIDE DEF N
    <3> QED BY <2>2, <2>3, NatInduct
  <2> QED BY <2>1, <2>4
<1> QED BY <1>5, <1>6

\* What a sum is: nothing for nobody, and one member more adds its value.
LEMMA SumFacts ==
  ASSUME NEW S, IsFiniteSet(S), NEW f, \A x \in S : f[x] \in Nat
  PROVE  /\ SumOver(f, {}) = 0
         /\ \A T \in SUBSET S : SumOver(f, T) \in Nat
         /\ \A T \in SUBSET S : \A x \in S \ T :
              SumOver(f, T \cup {x}) = f[x] + SumOver(f, T)
<1>1. PICK g : Additive(g, f, S)
  BY AdditiveExists
<1>2. ASSUME NEW T \in SUBSET S
      PROVE  SumOver(f, T) = g[T]
  <2> DEFINE h == [U \in SUBSET T |-> g[U]]
  <2>1. Additive(h, f, T)
    BY <1>1 DEF Additive
  <2>2. IsFiniteSet(T)
    BY FS_Subset
  <2> HIDE DEF h
  <2>3. SumOver(f, T) = h[T]
    BY <2>1, <2>2, SumIsAdditive
  <2> QED BY <2>3 DEF h
<1> QED BY <1>1, <1>2 DEF Additive

\* The sum over a union of disjoint sets.
LEMMA SumUnion ==
  ASSUME NEW S, IsFiniteSet(S), NEW f, \A x \in S : f[x] \in Nat,
         NEW A \in SUBSET S, NEW B \in SUBSET S, A \cap B = {}
  PROVE  SumOver(f, A \cup B) = SumOver(f, A) + SumOver(f, B)
<1> DEFINE Q == {T \in SUBSET B : SumOver(f, A \cup T) = SumOver(f, A) + SumOver(f, T)}
<1>0. IsFiniteSet(B)
  BY FS_Subset
<1>1. {} \in Q
  <2>1. SumOver(f, {}) = 0 /\ SumOver(f, A) \in Nat /\ A \cup {} = A
    BY SumFacts
  <2> QED BY <2>1
<1>2. ASSUME NEW T \in SUBSET B, NEW x \in B \ T, T \in Q
      PROVE  T \cup {x} \in Q
  <2>1. /\ T \in SUBSET S /\ A \cup T \in SUBSET S /\ x \in S \ T /\ x \in S \ (A \cup T)
        /\ A \cup (T \cup {x}) = (A \cup T) \cup {x}
    OBVIOUS
  <2>2. SumOver(f, (A \cup T) \cup {x}) = f[x] + SumOver(f, A \cup T)
    <3> DEFINE V == A \cup T
    <3>1. V \in SUBSET S /\ x \in S \ V
      BY <2>1
    <3> HIDE DEF V
    <3>2. SumOver(f, V \cup {x}) = f[x] + SumOver(f, V)
      BY <3>1, SumFacts
    <3> QED BY <3>2 DEF V
  <2>3. SumOver(f, T \cup {x}) = f[x] + SumOver(f, T)
    BY <2>1, SumFacts
  <2>4. f[x] \in Nat /\ SumOver(f, A) \in Nat /\ SumOver(f, T) \in Nat
    BY <2>1, SumFacts
  <2>5. SumOver(f, A \cup T) = SumOver(f, A) + SumOver(f, T)
    BY <1>2
  <2>6. SumOver(f, A \cup (T \cup {x})) = f[x] + (SumOver(f, A) + SumOver(f, T))
    BY <2>1, <2>2, <2>5
  <2> DEFINE a == SumOver(f, A)
             b == SumOver(f, T)
             c == SumOver(f, T \cup {x})
             d == SumOver(f, A \cup (T \cup {x}))
             y == f[x]
  <2>7. a \in Nat /\ b \in Nat /\ y \in Nat /\ c = y + b /\ d = y + (a + b)
    BY <2>3, <2>4, <2>6
  <2> HIDE DEF a, b, c, d, y
  <2>8. d = a + c
    BY <2>7
  <2> QED BY <2>8 DEF a, c, d
<1>3. \A T \in SUBSET B : T \in Q
  <2> HIDE DEF Q
  <2> QED BY <1>0, <1>1, <1>2, SetInduct
<1> QED BY <1>3

\* More members, more weight; and no member weighs more than all.
LEMMA SumGrows ==
  ASSUME NEW S, IsFiniteSet(S), NEW f, \A x \in S : f[x] \in Nat,
         NEW B \in SUBSET S, NEW A \in SUBSET B
  PROVE  SumOver(f, A) \in Nat /\ SumOver(f, B) \in Nat /\ SumOver(f, A) <= SumOver(f, B)
<1> DEFINE C == B \ A
<1>1. A \in SUBSET S /\ C \in SUBSET S /\ A \cap C = {} /\ A \cup C = B
  OBVIOUS
<1>2. SumOver(f, A) \in Nat /\ SumOver(f, C) \in Nat /\ SumOver(f, B) \in Nat
  BY <1>1, SumFacts
<1>3. SumOver(f, A \cup C) = SumOver(f, A) + SumOver(f, C)
  <2> HIDE DEF C
  <2> QED BY <1>1, SumUnion
<1>4. SumOver(f, B) = SumOver(f, A) + SumOver(f, C)
  BY <1>1, <1>3
<1> QED BY <1>2, <1>4

\* Values that compare one by one, after scaling, compare in sum.
LEMMA SumScales ==
  ASSUME NEW S, IsFiniteSet(S), NEW f, NEW g, NEW a \in Nat, NEW b \in Nat,
         \A x \in S : f[x] \in Nat /\ g[x] \in Nat /\ a * f[x] <= b * g[x]
  PROVE  a * SumOver(f, S) <= b * SumOver(g, S)
<1> DEFINE Q == {T \in SUBSET S : a * SumOver(f, T) <= b * SumOver(g, T)}
<1>1. {} \in Q
  <2>1. SumOver(f, {}) = 0 /\ SumOver(g, {}) = 0
    BY SumFacts
  <2> QED BY <2>1
<1>2. ASSUME NEW T \in SUBSET S, NEW x \in S \ T, T \in Q
      PROVE  T \cup {x} \in Q
  <2> DEFINE u == f[x]
             v == g[x]
             p == SumOver(f, T)
             q == SumOver(g, T)
             pp == SumOver(f, T \cup {x})
             qq == SumOver(g, T \cup {x})
  <2>1. /\ u \in Nat /\ v \in Nat /\ p \in Nat /\ q \in Nat /\ pp = u + p /\ qq = v + q
        /\ a * u <= b * v /\ a * p <= b * q
    BY <1>2, SumFacts
  <2> HIDE DEF u, v, p, q, pp, qq
  <2>2. a * (u + p) = a * u + a * p /\ b * (v + q) = b * v + b * q
    BY <2>1
  <2>3. a * pp <= b * qq
    BY <2>1, <2>2
  <2> QED BY <2>3 DEF pp, qq
<1>3. S \in Q
  <2> HIDE DEF Q
  <2> QED BY <1>1, <1>2, SetInduct
<1> QED BY <1>3

\* Values that compare one by one compare in sum; equal values have equal sums.
LEMMA SumCompares ==
  ASSUME NEW S, IsFiniteSet(S), NEW f, NEW g,
         \A x \in S : f[x] \in Nat /\ g[x] \in Nat /\ f[x] <= g[x]
  PROVE  SumOver(f, S) <= SumOver(g, S)
<1>1. \A x \in S : f[x] \in Nat /\ g[x] \in Nat /\ 1 * f[x] <= 1 * g[x]
  OBVIOUS
<1>2. 1 * SumOver(f, S) <= 1 * SumOver(g, S)
  BY <1>1, SumScales
<1>3. SumOver(f, S) \in Nat /\ SumOver(g, S) \in Nat
  BY SumFacts
<1> QED BY <1>2, <1>3

\* Only the values on the set matter.
LEMMA SumSame ==
  ASSUME NEW S, IsFiniteSet(S), NEW f, NEW g,
         \A x \in S : f[x] \in Nat /\ f[x] = g[x]
  PROVE  SumOver(f, S) = SumOver(g, S)
<1>1. \A x \in S : f[x] \in Nat /\ g[x] \in Nat /\ f[x] <= g[x] /\ g[x] <= f[x]
  OBVIOUS
<1>2. SumOver(f, S) <= SumOver(g, S) /\ SumOver(g, S) <= SumOver(f, S)
  BY <1>1, SumCompares
<1>3. SumOver(f, S) \in Nat /\ SumOver(g, S) \in Nat
  BY <1>1, SumFacts
<1> QED BY <1>2, <1>3

\* A sum of values that are at most c.
LEMMA SumBound ==
  ASSUME NEW S, IsFiniteSet(S), NEW f, NEW c \in Nat,
         \A x \in S : f[x] \in Nat /\ f[x] <= c
  PROVE  SumOver(f, S) <= c * Cardinality(S)
<1> DEFINE Q == {T \in SUBSET S : SumOver(f, T) <= c * Cardinality(T)}
<1>1. {} \in Q
  <2>1. SumOver(f, {}) = 0 /\ Cardinality({}) = 0
    BY SumFacts, FS_EmptySet
  <2> QED BY <2>1
<1>2. ASSUME NEW T \in SUBSET S, NEW x \in S \ T, T \in Q
      PROVE  T \cup {x} \in Q
  <2>1. IsFiniteSet(T) /\ Cardinality(T) \in Nat
    BY FS_Subset, FS_CardinalityType
  <2>2. Cardinality(T \cup {x}) = Cardinality(T) + 1
    BY <2>1, FS_AddElement
  <2> DEFINE u == f[x]
             p == SumOver(f, T)
             pp == SumOver(f, T \cup {x})
             n == Cardinality(T)
             m == Cardinality(T \cup {x})
  <2>3. /\ u \in Nat /\ p \in Nat /\ pp = u + p /\ n \in Nat /\ m = n + 1
        /\ u <= c /\ p <= c * n
    BY <1>2, <2>1, <2>2, SumFacts
  <2> HIDE DEF u, p, pp, n, m
  <2>4. c * (n + 1) = c * n + c
    BY <2>3
  <2>5. pp <= c * m
    BY <2>3, <2>4
  <2> QED BY <2>5 DEF pp, m
<1>3. S \in Q
  <2> HIDE DEF Q
  <2> QED BY <1>1, <1>2, SetInduct
<1> QED BY <1>3

\* A sum is positive when one of its values is.
LEMMA SumPositive ==
  ASSUME NEW S, IsFiniteSet(S), NEW f, \A x \in S : f[x] \in Nat
  PROVE  SumOver(f, S) > 0 <=> \E x \in S : f[x] > 0
<1>1. SumOver(f, S) \in Nat
  BY SumFacts
<1>2. ASSUME NEW x \in S, f[x] > 0
      PROVE  SumOver(f, S) > 0
  <2>1. SumOver(f, {} \cup {x}) = f[x] + SumOver(f, {}) /\ SumOver(f, {}) = 0
    BY SumFacts
  <2>2. SumOver(f, {x}) = f[x]
    <3>1. {} \cup {x} = {x}
      OBVIOUS
    <3> QED BY <2>1, <3>1
  <2>3. SumOver(f, {x}) <= SumOver(f, S)
    BY SumGrows
  <2> QED BY <1>1, <1>2, <2>2, <2>3
<1>3. ASSUME \A x \in S : ~(f[x] > 0)
      PROVE  ~(SumOver(f, S) > 0)
  <2>1. \A x \in S : f[x] \in Nat /\ f[x] <= 0
    BY <1>3
  <2>2. SumOver(f, S) <= 0 * Cardinality(S)
    <3> DEFINE c == 0
    <3>1. c \in Nat /\ \A x \in S : f[x] \in Nat /\ f[x] <= c
      BY <2>1
    <3> HIDE DEF c
    <3>2. SumOver(f, S) <= c * Cardinality(S)
      BY <3>1, SumBound
    <3> QED BY <3>2 DEF c
  <2>3. Cardinality(S) \in Nat
    BY FS_CardinalityType
  <2> QED BY <1>1, <2>2, <2>3
<1> QED BY <1>2, <1>3

\* A sum over members whose groups are among D, when each group has at most c.
LEMMA SumByGroup ==
  ASSUME NEW S, IsFiniteSet(S), NEW f, \A x \in S : f[x] \in Nat, NEW group, NEW c \in Nat,
         NEW D, IsFiniteSet(D), \A x \in S : group[x] \in D,
         \A d \in D : SumOver(f, {x \in S : group[x] = d}) <= c
  PROVE  SumOver(f, S) <= c * Cardinality(D)
<1> DEFINE In(E) == {x \in S : group[x] \in E}
           Q == {E \in SUBSET D : SumOver(f, In(E)) <= c * Cardinality(E)}
<1>1. {} \in Q
  <2>1. In({}) = {} /\ SumOver(f, {}) = 0 /\ Cardinality({}) = 0
    BY SumFacts, FS_EmptySet
  <2> QED BY <2>1
<1>2. ASSUME NEW E \in SUBSET D, NEW d \in D \ E, E \in Q
      PROVE  E \cup {d} \in Q
  <2>1. IsFiniteSet(E) /\ Cardinality(E) \in Nat
    BY FS_Subset, FS_CardinalityType
  <2>2. Cardinality(E \cup {d}) = Cardinality(E) + 1
    BY <2>1, FS_AddElement
  <2> DEFINE A == In(E)
             B == {x \in S : group[x] = d}
  <2>3. A \in SUBSET S /\ B \in SUBSET S /\ A \cap B = {} /\ In(E \cup {d}) = A \cup B
    OBVIOUS
  <2>4. SumOver(f, A) <= c * Cardinality(E) /\ SumOver(f, B) <= c
    BY <1>2
  <2> DEFINE X == In(E \cup {d})
  <2> HIDE DEF A, B, X
  <2>5. SumOver(f, A \cup B) = SumOver(f, A) + SumOver(f, B)
    BY <2>3, SumUnion
  <2>6. SumOver(f, A) \in Nat /\ SumOver(f, B) \in Nat
    BY <2>3, SumFacts
  <2> DEFINE p == SumOver(f, A)
             q == SumOver(f, B)
             r == SumOver(f, X)
             n == Cardinality(E)
             m == Cardinality(E \cup {d})
  <2>7. /\ p \in Nat /\ q \in Nat /\ r = p + q /\ n \in Nat /\ m = n + 1
        /\ q <= c /\ p <= c * n
    BY <2>1, <2>2, <2>3, <2>4, <2>5, <2>6 DEF X
  <2> HIDE DEF p, q, r, n, m
  <2>8. c * (n + 1) = c * n + c
    BY <2>7
  <2>9. r <= c * m
    BY <2>7, <2>8
  <2> QED BY <2>9 DEF r, m, X
<1>3. D \in Q
  <2> HIDE DEF Q
  <2> QED BY <1>1, <1>2, SetInduct
<1>4. In(D) = S
  OBVIOUS
<1> QED BY <1>3, <1>4

-----------------------------------------------------------------------------
(* A tally of one vote per member.                                         *)

\* SetToSeq lists every element of a finite set once.
LEMMA ListsSet ==
  ASSUME NEW X, IsFiniteSet(X)
  PROVE  /\ SetToSeq(X) \in [1..Cardinality(X) -> X]
         /\ Len(SetToSeq(X)) = Cardinality(X)
         /\ \A i, j \in 1..Cardinality(X) : SetToSeq(X)[i] = SetToSeq(X)[j] => i = j
         /\ \A x \in X : \E i \in 1..Cardinality(X) : SetToSeq(X)[i] = x
<1> DEFINE n == Cardinality(X)
           s == SetToSeq(X)
<1>1. n \in Nat /\ \E f \in [1..n -> X] : IsInjective(f)
  BY FS_CardinalityType DEF ExistsBijection, Bijection, Injection
<1>2. s \in [1..n -> X] /\ IsInjective(s)
  BY <1>1 DEF SetToSeq
<1>3. s \in Injection(1..n, X)
  BY <1>2 DEF Injection
<1>4. IsFiniteSet(1..n) /\ Cardinality(1..n) = n
  BY <1>1, FS_Interval
<1> HIDE DEF n, s
<1>5. Cardinality(1..n) = Cardinality(X)
  BY <1>4 DEF n
<1>6. s \in Surjection(1..n, X)
  BY <1>3, <1>5, FS_Injection
<1>7. Len(s) = n
  BY <1>1, <1>2
<1> QED BY <1>2, <1>6, <1>7 DEF IsInjective, Surjection, n, s

\* The vote of member m.
Ballot(cohort, rec, m) ==
  [lane |-> "Empirical", member |-> m, cohort |-> cohort[m], recommendation |-> rec[m]]

\* Every member votes once and nobody else does.
LEMMA VotesListed ==
  ASSUME NEW S, IsFiniteSet(S), NEW cohort, NEW rec
  PROVE  /\ Len(VotesOf(S, cohort, rec)) = Cardinality(S)
         /\ BadVotes(VotesOf(S, cohort, rec)) = {}
         /\ {VotesOf(S, cohort, rec)[k].member : k \in 1..Len(VotesOf(S, cohort, rec))} = S
         /\ \A m \in S : VoteOf(VotesOf(S, cohort, rec), m) = Ballot(cohort, rec, m)
<1> DEFINE X == {Ballot(cohort, rec, m) : m \in S}
           B == [m \in S |-> Ballot(cohort, rec, m)]
           n == Cardinality(S)
           v == SetToSeq(X)
<1>1. VotesOf(S, cohort, rec) = v
  BY DEF VotesOf, Ballot
<1>2. \A m \in S : Ballot(cohort, rec, m).member = m /\ Ballot(cohort, rec, m).lane = "Empirical"
  BY DEF Ballot
<1>3. B \in Injection(S, X) /\ B \in Surjection(S, X)
  BY <1>2 DEF Injection, Surjection, IsInjective
<1>4. IsFiniteSet(X) /\ Cardinality(X) = n
  <2> HIDE DEF X, B
  <2> QED BY <1>3, FS_Surjection
<1>5. /\ v \in [1..n -> X] /\ Len(v) = n
      /\ \A i, j \in 1..n : v[i] = v[j] => i = j
      /\ \A x \in X : \E i \in 1..n : v[i] = x
  <2> HIDE DEF X
  <2> QED BY <1>4, ListsSet
<1>6. n \in Nat
  BY FS_CardinalityType
<1> HIDE DEF v, n
<1>7. \A k \in 1..n : \E m \in S : v[k] = Ballot(cohort, rec, m)
  BY <1>5
<1>8. \A k \in 1..n : v[k] = Ballot(cohort, rec, v[k].member) /\ v[k].member \in S
                      /\ v[k].lane = "Empirical"
  BY <1>2, <1>7
<1>9. \A i, j \in 1..n : v[i].member = v[j].member => i = j
  BY <1>5, <1>8
<1>10. BadVotes(v) = {}
  <2> SUFFICES ASSUME NEW k \in 1..Len(v),
                      \/ v[k].lane = "ActorStatement"
                      \/ \E j \in 1..(k - 1) : v[j].lane = "Empirical" /\ v[j].member = v[k].member
               PROVE  FALSE
    BY DEF BadVotes
  <2>1. k \in 1..n
    BY <1>5
  <2>2. v[k].lane # "ActorStatement"
    BY <1>8, <2>1
  <2>3. PICK j \in 1..(k - 1) : v[j].member = v[k].member
    BY <2>2
  <2>4. j \in 1..n /\ j # k
    BY <1>6, <2>1
  <2> QED BY <1>9, <2>1, <2>3, <2>4
<1>11. ASSUME NEW m \in S
       PROVE  \E k \in 1..n : v[k] = Ballot(cohort, rec, m)
  BY <1>5
<1>12. {v[k].member : k \in 1..n} = S
  BY <1>2, <1>8, <1>11
<1>13. ASSUME NEW m \in S
       PROVE  VoteOf(v, m) = Ballot(cohort, rec, m)
  <2> DEFINE V == {v[k] : k \in 1..Len(v)}
  <2>1. \A x \in V : x.member = m => x = Ballot(cohort, rec, m)
    BY <1>5, <1>8
  <2>2. Ballot(cohort, rec, m) \in V
    BY <1>5, <1>11
  <2>3. Ballot(cohort, rec, m).member = m
    BY <1>2
  <2> HIDE DEF V
  <2>4. (CHOOSE x \in V : x.member = m) = Ballot(cohort, rec, m)
    BY <2>1, <2>2, <2>3
  <2> QED BY <2>4 DEF VoteOf, V
<1> QED BY <1>1, <1>5, <1>10, <1>12, <1>13 DEF n

\* reduce is the count of what the members say, because none of its refusals before
\* the count applies.
LEMMA ReduceCounts ==
  ASSUME NEW S, IsFiniteSet(S), Cardinality(S) <= MaxVotes,
         NEW cohort, NEW rec, NEW w, NEW caps, NEW d
  PROVE  reduce(VotesOf(S, cohort, rec), [m \in S |-> w[m]], caps, d) =
           Counted([m \in S |-> cohort[m]], [m \in S |-> rec[m]], [m \in S |-> w[m]], caps, d)
<1> DEFINE v == VotesOf(S, cohort, rec)
           W == [m \in S |-> w[m]]
<1>1. /\ Len(v) = Cardinality(S) /\ BadVotes(v) = {}
      /\ {v[k].member : k \in 1..Len(v)} = S
      /\ \A m \in S : VoteOf(v, m) = Ballot(cohort, rec, m)
  BY VotesListed
<1>2. DOMAIN W = S
  OBVIOUS
<1>3. Cardinality(S) \in Nat /\ MaxVotes \in Nat
  BY FS_CardinalityType, ReducerAssumption
<1> HIDE DEF v, W
<1>4. reduce(v, W, caps, d) = Tally(v, W, caps, d)
  BY <1>1, <1>2, <1>3 DEF reduce
<1>5. \A m \in S : VoteOf(v, m).cohort = cohort[m] /\ VoteOf(v, m).recommendation = rec[m]
  BY <1>1 DEF Ballot
<1>6. /\ [m \in DOMAIN W |-> VoteOf(v, m).cohort] = [m \in S |-> cohort[m]]
      /\ [m \in DOMAIN W |-> VoteOf(v, m).recommendation] = [m \in S |-> rec[m]]
  BY <1>2, <1>5
<1> QED BY <1>4, <1>6 DEF Tally, v, W

-----------------------------------------------------------------------------
(* What the caps leave of the weights.                                     *)

\* Division rounds down.
LEMMA DivFacts ==
  ASSUME NEW x \in Nat, NEW s \in Nat \ {0}
  PROVE  x \div s \in Nat /\ s * (x \div s) <= x
OBVIOUS

\* A quotient is bounded by what bounds its dividend.
LEMMA DivBound ==
  ASSUME NEW x \in Nat, NEW s \in Nat \ {0}, NEW b \in Nat, x <= s * b
  PROVE  x \div s <= b
<1> DEFINE q == x \div s
<1>1. q \in Nat /\ s * q <= x
  BY DivFacts
<1> HIDE DEF q
<1>2. s * q <= s * b
  BY <1>1
<1>3. q <= b
  BY <1>1, <1>2
<1> QED BY <1>3 DEF q

\* The proportional share of a member in a cohort above its cap.
LEMMA ShareFacts ==
  ASSUME NEW a \in Nat, NEW cap \in Nat, NEW sum \in Nat, sum > cap
  PROVE  /\ (a * cap) \div sum \in Nat
         /\ (a * cap) \div sum <= a
         /\ sum * ((a * cap) \div sum) <= cap * a
<1> DEFINE x == a * cap
<1>1. x \in Nat /\ sum \in Nat \ {0} /\ x = cap * a
  OBVIOUS
<1>2. a * cap <= a * sum
  OBVIOUS
<1>3. x <= sum * a
  BY <1>2
<1> HIDE DEF x
<1>4. x \div sum \in Nat /\ sum * (x \div sum) <= x /\ x \div sum <= a
  BY <1>1, <1>3, DivFacts, DivBound
<1> QED BY <1>1, <1>4 DEF x

\* Neither a member nor a cohort counts for more than its cap.
LEMMA AdmittedFacts ==
  ASSUME NEW S, IsFiniteSet(S), NEW cohort, DOMAIN cohort = S, NEW w \in [S -> Nat],
         NEW caps, caps.per_member \in Nat, caps.per_cohort \in Nat
  PROVE  /\ AdmittedWeights(cohort, w, caps) \in [S -> Nat]
         /\ \A m \in S : AdmittedWeights(cohort, w, caps)[m] <= caps.per_member
         /\ \A c : SumOver(AdmittedWeights(cohort, w, caps), InCohort(cohort, c))
                     <= caps.per_cohort
<1> DEFINE A == AdmittedWeights(cohort, w, caps)
           C == ClippedWeights(w, caps)
           Sum(c) == SumOver(C, InCohort(cohort, c))
           cap == caps.per_cohort
<1>1. C \in [S -> Nat] /\ \A m \in S : C[m] <= caps.per_member
  BY DEF ClippedWeights, Clipped
<1>2. \A c : InCohort(cohort, c) \in SUBSET S
  BY DEF InCohort
<1>3. \A c : Sum(c) \in Nat
  <2> HIDE DEF C
  <2> QED BY <1>1, <1>2, SumFacts
<1>4. DOMAIN A = S /\ \A m \in S : A[m] = Admitted(C[m], Sum(cohort[m]), caps)
  BY DEF AdmittedWeights
<1> HIDE DEF A, C, Sum
<1>5. ASSUME NEW m \in S
      PROVE  /\ A[m] \in Nat /\ A[m] <= C[m]
             /\ Sum(cohort[m]) > cap => Sum(cohort[m]) * A[m] <= cap * C[m]
  <2> DEFINE a == C[m]
             s == Sum(cohort[m])
  <2>1. a \in Nat /\ s \in Nat /\ cap \in Nat
    BY <1>1, <1>3
  <2>2. A[m] = IF s > cap THEN (a * cap) \div s ELSE a
    BY <1>4 DEF Admitted
  <2> HIDE DEF a, s
  <2>3. CASE s > cap
    <3>1. (a * cap) \div s \in Nat /\ (a * cap) \div s <= a /\ s * ((a * cap) \div s) <= cap * a
      BY <2>1, <2>3, ShareFacts
    <3> QED BY <2>2, <2>3, <3>1 DEF a, s
  <2>4. CASE ~(s > cap)
    BY <2>1, <2>2, <2>4 DEF a, s
  <2> QED BY <2>3, <2>4
<1>6. A \in [S -> Nat]
  <2>1. \A m \in S : A[m] \in Nat
    BY <1>5
  <2>2. A = [m \in S |-> A[m]]
    BY DEF A, AdmittedWeights
  <2> QED BY <1>4, <2>1, <2>2
<1>7. ASSUME NEW m \in S
      PROVE  A[m] <= caps.per_member
  <2>1. A[m] \in Nat /\ C[m] \in Nat /\ A[m] <= C[m] /\ C[m] <= caps.per_member
    BY <1>1, <1>5
  <2> QED BY <2>1
<1>8. ASSUME NEW c
      PROVE  SumOver(A, InCohort(cohort, c)) <= cap
  <2> DEFINE I == InCohort(cohort, c)
             s == Sum(c)
             t == SumOver(A, I)
  <2>1. I \in SUBSET S /\ IsFiniteSet(I) /\ s \in Nat /\ s = SumOver(C, I)
    BY <1>2, <1>3, FS_Subset DEF Sum
  <2>2. \A m \in I : cohort[m] = c
    BY DEF InCohort
  <2>3. \A m \in I : A[m] \in Nat /\ C[m] \in Nat /\ A[m] <= C[m]
                     /\ (s > cap => s * A[m] <= cap * C[m])
    BY <1>1, <1>5, <2>1, <2>2
  <2> HIDE DEF I, s
  <2>4. t \in Nat
    BY <2>1, <2>3, SumFacts
  <2>5. CASE s > cap
    <3>1. s * SumOver(A, I) <= cap * SumOver(C, I)
      BY <2>1, <2>3, <2>5, SumScales
    <3>2. s * t <= cap * s
      BY <2>1, <3>1
    <3> HIDE DEF t
    <3> QED BY <2>1, <2>4, <2>5, <3>2 DEF t, I
  <2>6. CASE ~(s > cap)
    <3>1. SumOver(A, I) <= SumOver(C, I)
      BY <2>1, <2>3, SumCompares
    <3>2. t <= s
      BY <2>1, <3>1
    <3> HIDE DEF t
    <3>3. t <= cap
      BY <2>1, <2>4, <2>6, <3>2
    <3> QED BY <3>3 DEF t, I
  <2> QED BY <2>5, <2>6
<1> QED BY <1>6, <1>7, <1>8 DEF A

-----------------------------------------------------------------------------
(* The tally of a policy.                                                  *)

\* What a policy lets each of the members S count for.
Shares(p, S) ==
  AdmittedWeights([m \in S |-> p.cohort[m]], [m \in S |-> p.weight[m]], p.caps)

Allowing(S, verdicts) == {m \in S : verdicts[m] = "Allow"}

CohortOf(p, S, c) == {m \in S : p.cohort[m] = c}

\* The caps of reduce, for the members of a policy.
LEMMA SharesFacts ==
  ASSUME NEW S, IsFiniteSet(S), NEW p, Weighted(p, S)
  PROVE  /\ Shares(p, S) \in [S -> Nat]
         /\ \A m \in S : Shares(p, S)[m] <= p.caps.per_member
         /\ \A c : SumOver(Shares(p, S), CohortOf(p, S, c)) <= p.caps.per_cohort
<1> DEFINE cohort == [m \in S |-> p.cohort[m]]
           w == [m \in S |-> p.weight[m]]
<1>1. DOMAIN cohort = S /\ w \in [S -> Nat]
  BY DEF Weighted
<1>2. \A c : InCohort(cohort, c) = CohortOf(p, S, c)
  BY DEF InCohort, CohortOf
<1>3. Shares(p, S) = AdmittedWeights(cohort, w, p.caps)
  BY DEF Shares
<1>4. p.caps.per_member \in Nat /\ p.caps.per_cohort \in Nat
  BY DEF Weighted
<1> HIDE DEF cohort, w
<1> DEFINE A == AdmittedWeights(cohort, w, p.caps)
<1>5. /\ A \in [S -> Nat]
      /\ \A m \in S : A[m] <= p.caps.per_member
      /\ \A c : SumOver(A, InCohort(cohort, c)) <= p.caps.per_cohort
  BY <1>1, <1>4, AdmittedFacts
<1> QED BY <1>2, <1>3, <1>5

\* What the tally of a policy returns.
LEMMA TallyFacts ==
  ASSUME NEW S, IsFiniteSet(S), Cardinality(S) <= MaxVotes, NEW p, Weighted(p, S),
         NEW verdicts, NEW d
  PROVE  /\ SumOver(Shares(p, S), Allowing(S, verdicts)) \in Nat
         /\ SumOver(Shares(p, S), S \ Allowing(S, verdicts)) \in Nat
         /\ TallyOf(p, S, verdicts, d).error \in {"None", "Overflow"}
         /\ TallyOf(p, S, verdicts, d).error = "None" <=>
              /\ SumOver(Shares(p, S), Allowing(S, verdicts)) <= MaxWord
              /\ SumOver(Shares(p, S), S \ Allowing(S, verdicts)) <= MaxWord
         /\ TallyOf(p, S, verdicts, d).error = "None" =>
              /\ TallyOf(p, S, verdicts, d).permit_weight =
                   SumOver(Shares(p, S), Allowing(S, verdicts))
              /\ TallyOf(p, S, verdicts, d).hold_weight =
                   SumOver(Shares(p, S), S \ Allowing(S, verdicts))
              /\ TallyOf(p, S, verdicts, d).admitted_weights = Shares(p, S)
              /\ TallyOf(p, S, verdicts, d).admitted_cohort_weights =
                   [c \in {p.cohort[m] : m \in S} |-> SumOver(Shares(p, S), CohortOf(p, S, c))]
<1> DEFINE A == Shares(p, S)
           Y == Allowing(S, verdicts)
           N == S \ Y
           cohort == [m \in S |-> p.cohort[m]]
           w == [m \in S |-> p.weight[m]]
           rec == [m \in S |-> Recommendation(verdicts[m])]
           t == TallyOf(p, S, verdicts, d)
<1>1. t = Counted(cohort, rec, w, p.caps, d)
  <2>1. [m \in S |-> rec[m]] = rec
    OBVIOUS
  <2>2. t = reduce(VotesOf(S, p.cohort, rec), w, p.caps, d)
    BY DEF TallyOf
  <2> HIDE DEF rec, t
  <2>3. reduce(VotesOf(S, p.cohort, rec), w, p.caps, d) =
          Counted(cohort, [m \in S |-> rec[m]], w, p.caps, d)
    BY ReduceCounts
  <2> QED BY <2>1, <2>2, <2>3
<1>2. Saying(rec, "Permit") = Y /\ Saying(rec, "Hold") = N
  BY DEF Saying, Recommendation, Allowing
<1>3. AdmittedWeights(cohort, w, p.caps) = A
  BY DEF Shares
<1>4. \A c : InCohort(cohort, c) = CohortOf(p, S, c)
  BY DEF InCohort, CohortOf
<1>5. {cohort[m] : m \in DOMAIN cohort} = {p.cohort[m] : m \in S}
  OBVIOUS
<1>6. A \in [S -> Nat]
  BY SharesFacts
<1>7. Y \in SUBSET S /\ N \in SUBSET S
  BY DEF Allowing
<1> HIDE DEF A, Y, N, t, rec, w, cohort
<1>8. SumOver(A, Y) \in Nat /\ SumOver(A, N) \in Nat
  BY <1>6, <1>7, SumFacts
<1> DEFINE permit == SumOver(A, Y)
           hold == SumOver(A, N)
           groups == [c \in {p.cohort[m] : m \in S} |-> SumOver(A, CohortOf(p, S, c))]
<1>9. [c \in {cohort[m] : m \in DOMAIN cohort} |-> SumOver(A, InCohort(cohort, c))] = groups
  BY <1>4, <1>5
<1>10. t = IF permit > MaxWord \/ hold > MaxWord
             THEN [error |-> "Overflow"]
             ELSE [error |-> "None",
                   outcome |-> IF d THEN "Disqualified" ELSE "Empirical",
                   permit_weight |-> permit, hold_weight |-> hold,
                   admitted_weights |-> A, admitted_cohort_weights |-> groups]
  BY <1>1, <1>2, <1>3, <1>9 DEF Counted, Refused
<1>11. MaxWord \in Nat
  BY ReducerAssumption
<1>12. permit \in Nat /\ hold \in Nat
  BY <1>8
<1> HIDE DEF permit, hold, groups
<1>13. /\ t.error \in {"None", "Overflow"}
       /\ t.error = "None" <=> permit <= MaxWord /\ hold <= MaxWord
       /\ t.error = "None" =>
            /\ t.permit_weight = permit /\ t.hold_weight = hold
            /\ t.admitted_weights = A /\ t.admitted_cohort_weights = groups
  <2>1. CASE permit > MaxWord \/ hold > MaxWord
    <3>1. t = [error |-> "Overflow"]
      BY <1>10, <2>1
    <3>2. t.error = "Overflow"
      BY <3>1
    <3> QED BY <1>11, <1>12, <2>1, <3>2
  <2>2. CASE ~(permit > MaxWord \/ hold > MaxWord)
    <3>1. t = [error |-> "None",
                   outcome |-> IF d THEN "Disqualified" ELSE "Empirical",
                   permit_weight |-> permit, hold_weight |-> hold,
                   admitted_weights |-> A, admitted_cohort_weights |-> groups]
      BY <1>10, <2>2
    <3>2. /\ t.error = "None" /\ t.permit_weight = permit /\ t.hold_weight = hold
          /\ t.admitted_weights = A /\ t.admitted_cohort_weights = groups
      BY <3>1
    <3> QED BY <1>11, <1>12, <2>2, <3>2
  <2> QED BY <2>1, <2>2
<1> QED BY <1>12, <1>13 DEF A, Y, N, t, permit, hold, groups

-----------------------------------------------------------------------------
(* An accepted policy is a fair vote.                                      *)

\* The cohorts of the allowing members that count for something.
PermittingCohorts(p, verdicts) ==
  {p.cohort[m] : m \in {n \in p.members : verdicts[n] = "Allow" /\ Shares(p, p.members)[n] > 0}}

\* A cohort counts for something when a member of it does.
LEMMA PositiveCohorts ==
  ASSUME NEW S, IsFiniteSet(S), NEW p, Weighted(p, S), NEW g,
         g = [c \in {p.cohort[m] : m \in S} |-> SumOver(Shares(p, S), CohortOf(p, S, c))]
  PROVE  Positive(g) = {p.cohort[m] : m \in {n \in S : Shares(p, S)[n] > 0}}
<1> DEFINE A == Shares(p, S)
<1>1. A \in [S -> Nat]
  BY SharesFacts
<1> HIDE DEF A
<1>2. ASSUME NEW c
      PROVE  SumOver(A, CohortOf(p, S, c)) > 0 <=> \E m \in CohortOf(p, S, c) : A[m] > 0
  <2> DEFINE I == CohortOf(p, S, c)
  <2>1. I \in SUBSET S
    BY DEF CohortOf
  <2> HIDE DEF I
  <2>2. IsFiniteSet(I) /\ \A m \in I : A[m] \in Nat
    BY <1>1, <2>1, FS_Subset
  <2>3. SumOver(A, I) > 0 <=> \E m \in I : A[m] > 0
    BY <2>2, SumPositive
  <2> QED BY <2>3 DEF I
<1>3. /\ DOMAIN g = {p.cohort[m] : m \in S}
      /\ \A c \in DOMAIN g : g[c] = SumOver(A, CohortOf(p, S, c))
  BY DEF A
<1>4. \A c \in DOMAIN g : g[c] > 0 <=> \E m \in S : p.cohort[m] = c /\ A[m] > 0
  BY <1>2, <1>3 DEF CohortOf
<1>5. Positive(g) = {c \in DOMAIN g : \E m \in S : p.cohort[m] = c /\ A[m] > 0}
  BY <1>4 DEF Positive
<1> QED BY <1>3, <1>5 DEF A

\* ReviewPolicy::new: what an accepted policy guarantees of its members' weights.
LEMMA AcceptedFacts ==
  ASSUME NEW p, IsFiniteSet(p.members), p.members \subseteq Members,
         Weighted(p, p.members), ReviewPolicyAccepted(p)
  PROVE  /\ Cardinality(p.members) <= MaxVotes
         /\ SumOver(Shares(p, p.members), p.members) <= MaxWord
         /\ p.min_permit_weight <= SumOver(Shares(p, p.members), p.members)
         /\ p.min_permit_cohorts <=
              Cardinality({p.cohort[m] : m \in {n \in p.members : Shares(p, p.members)[n] > 0}})
<1> DEFINE S == p.members
           t == TallyOf(p, S, AllAllow, FALSE)
           g == [c \in {p.cohort[m] : m \in S} |-> SumOver(Shares(p, S), CohortOf(p, S, c))]
<1>1. /\ Cardinality(S) <= MaxVotes
      /\ t.error = "None" /\ p.min_permit_weight <= t.permit_weight
      /\ p.min_permit_cohorts <= Cardinality(Positive(t.admitted_cohort_weights))
  BY DEF ReviewPolicyAccepted
<1>2. Allowing(S, AllAllow) = S
  BY DEF Allowing, AllAllow
<1>3. /\ SumOver(Shares(p, S), S) <= MaxWord
      /\ t.permit_weight = SumOver(Shares(p, S), S)
      /\ t.admitted_cohort_weights = g
  BY <1>1, <1>2, TallyFacts
<1>4. Positive(g) = {p.cohort[m] : m \in {n \in S : Shares(p, S)[n] > 0}}
  <2> HIDE DEF S
  <2>1. IsFiniteSet(S) /\ Weighted(p, S)
    BY DEF S
  <2> QED BY <2>1, PositiveCohorts
<1> QED BY <1>1, <1>3, <1>4

\* CongressReview::evaluate: nothing but what the members say and count for decides a
\* complete, substantive transcript, and the tally of an accepted policy cannot
\* overflow.
LEMMA DecisionFacts ==
  ASSUME NEW p, IsFiniteSet(p.members), p.members \subseteq Members,
         Weighted(p, p.members), ReviewPolicyAccepted(p), NEW verdicts,
         p.min_permit_weight \in Nat, p.max_hold_weight \in Nat, p.min_permit_cohorts \in Nat
  PROVE  /\ ReviewDecision(p, verdicts) # "Overflow"
         /\ ReviewDecision(p, verdicts) = "Ready" <=>
              /\ p.min_permit_weight <=
                   SumOver(Shares(p, p.members), Allowing(p.members, verdicts))
              /\ SumOver(Shares(p, p.members), p.members \ Allowing(p.members, verdicts))
                   <= p.max_hold_weight
              /\ p.min_permit_cohorts <= Cardinality(PermittingCohorts(p, verdicts))
<1> DEFINE S == p.members
           A == Shares(p, S)
           Y == Allowing(S, verdicts)
           t == TallyOf(p, S, verdicts, FALSE)
           total == SumOver(A, S)
           permit == SumOver(A, Y)
           hold == SumOver(A, S \ Y)
           P == PermittingCohorts(p, verdicts)
<1>1. Cardinality(S) <= MaxVotes /\ total <= MaxWord
  BY AcceptedFacts
<1>2. A \in [S -> Nat]
  BY SharesFacts
<1>3. Y \in SUBSET S /\ S \ Y \in SUBSET S /\ S \in SUBSET S
  BY DEF Allowing
<1>4. /\ permit \in Nat /\ hold \in Nat /\ total \in Nat
      /\ permit <= total /\ hold <= total
  <2>1. \A m \in S : A[m] \in Nat
    BY <1>2
  <2>2. \A T \in SUBSET S : SumOver(A, T) \in Nat /\ SumOver(A, T) <= SumOver(A, S)
    <3> HIDE DEF S, A
    <3>1. IsFiniteSet(S)
      BY DEF S
    <3> QED BY <2>1, <3>1, SumGrows
  <2> QED BY <1>3, <2>2
<1>5. MaxWord \in Nat
  BY ReducerAssumption
<1>6. /\ t.error = "None" <=> permit <= MaxWord /\ hold <= MaxWord
      /\ t.error = "None" =>
           /\ t.permit_weight = permit /\ t.hold_weight = hold /\ t.admitted_weights = A
  BY <1>1, TallyFacts
<1>7. permit <= MaxWord /\ hold <= MaxWord
  <2> HIDE DEF permit, hold, total
  <2> QED BY <1>1, <1>4, <1>5
<1>8. t.error = "None" /\ t.permit_weight = permit /\ t.hold_weight = hold /\ t.admitted_weights = A
  BY <1>6, <1>7
<1>9. {p.cohort[m] : m \in {n \in S : verdicts[n] = "Allow" /\ t.admitted_weights[n] > 0}} = P
  BY <1>8 DEF PermittingCohorts
<1> HIDE DEF t, permit, hold, P
<1>10. ReviewDecision(p, verdicts) =
         IF permit < p.min_permit_weight THEN "InsufficientPermitWeight"
         ELSE IF hold > p.max_hold_weight THEN "ExcessHoldWeight"
         ELSE IF Cardinality(P) < p.min_permit_cohorts
           THEN "InsufficientPermitCohorts" ELSE "Ready"
  BY <1>8, <1>9 DEF ReviewDecision, t
<1>11. Cardinality(P) \in Nat
  <2> DEFINE Z == {n \in S : verdicts[n] = "Allow" /\ A[n] > 0}
             f == [m \in Z |-> p.cohort[m]]
  <2>1. f \in Surjection(Z, P)
    BY DEF Surjection, P, PermittingCohorts
  <2>2. IsFiniteSet(Z)
    <3>1. Z \in SUBSET S
      OBVIOUS
    <3> HIDE DEF Z
    <3> QED BY <3>1, FS_Subset
  <2> HIDE DEF Z, f
  <2>3. IsFiniteSet(P)
    BY <2>1, <2>2, FS_Surjection
  <2> QED BY <2>3, FS_CardinalityType
<1>12. /\ ReviewDecision(p, verdicts) # "Overflow"
       /\ ReviewDecision(p, verdicts) = "Ready" <=>
            /\ p.min_permit_weight <= permit /\ hold <= p.max_hold_weight
            /\ p.min_permit_cohorts <= Cardinality(P)
  BY <1>4, <1>10, <1>11
<1> QED BY <1>12 DEF permit, hold, P

\* The values of a function on a finite set are finitely many.
LEMMA ImageFinite ==
  ASSUME NEW T, IsFiniteSet(T), NEW f
  PROVE  IsFiniteSet({f[x] : x \in T}) /\ Cardinality({f[x] : x \in T}) \in Nat
<1> DEFINE X == {f[x] : x \in T}
           g == [x \in T |-> f[x]]
<1>1. g \in Surjection(T, X)
  BY DEF Surjection
<1> HIDE DEF X, g
<1>2. IsFiniteSet(X)
  BY <1>1, FS_Surjection
<1> QED BY <1>2, FS_CardinalityType DEF X

\* More permission is more weight, less weight against, and no fewer cohorts.
LEMMA AllowedMore ==
  ASSUME NEW p, IsFiniteSet(p.members), p.members \subseteq Members,
         Weighted(p, p.members), ReviewPolicyAccepted(p), NEW v, NEW w,
         p.min_permit_weight \in Nat, p.max_hold_weight \in Nat, p.min_permit_cohorts \in Nat,
         Allowing(p.members, v) \subseteq Allowing(p.members, w),
         ReviewDecision(p, v) = "Ready"
  PROVE  ReviewDecision(p, w) = "Ready"
<1> DEFINE S == p.members
           A == Shares(p, S)
           V == Allowing(S, v)
           W == Allowing(S, w)
           P == PermittingCohorts(p, v)
           Q == PermittingCohorts(p, w)
<1>1. A \in [S -> Nat]
  BY SharesFacts
<1>2. V \in SUBSET W /\ W \in SUBSET S /\ S \ W \in SUBSET (S \ V) /\ S \ V \in SUBSET S
  BY DEF Allowing
<1>3. /\ SumOver(A, V) \in Nat /\ SumOver(A, W) \in Nat /\ SumOver(A, V) <= SumOver(A, W)
      /\ SumOver(A, S \ V) \in Nat /\ SumOver(A, S \ W) \in Nat
      /\ SumOver(A, S \ W) <= SumOver(A, S \ V)
  <2> HIDE DEF S, A, V, W
  <2>1. IsFiniteSet(S) /\ \A m \in S : A[m] \in Nat
    BY <1>1 DEF S
  <2>2. SumOver(A, V) \in Nat /\ SumOver(A, W) \in Nat /\ SumOver(A, V) <= SumOver(A, W)
    BY <1>2, <2>1, SumGrows
  <2> DEFINE X == S \ W
             Y == S \ V
  <2>3. X \in SUBSET Y /\ Y \in SUBSET S
    BY <1>2
  <2> HIDE DEF X, Y
  <2>4. SumOver(A, X) \in Nat /\ SumOver(A, Y) \in Nat /\ SumOver(A, X) <= SumOver(A, Y)
    BY <2>1, <2>3, SumGrows
  <2> QED BY <2>2, <2>4 DEF X, Y
<1>4. Cardinality(P) \in Nat /\ Cardinality(Q) \in Nat /\ Cardinality(P) <= Cardinality(Q)
  <2>1. P \in SUBSET Q
    BY <1>2 DEF PermittingCohorts, Allowing
  <2>2. IsFiniteSet(Q)
    <3> DEFINE Z == {n \in S : w[n] = "Allow" /\ A[n] > 0}
               c == p.cohort
    <3>1. Q = {c[m] : m \in Z}
      BY DEF PermittingCohorts
    <3>2. Z \in SUBSET S
      OBVIOUS
    <3> HIDE DEF Z, Q, c
    <3>3. IsFiniteSet(Z)
      BY <3>2, FS_Subset
    <3> QED BY <3>1, <3>3, ImageFinite
  <2> HIDE DEF P, Q
  <2> QED BY <2>1, <2>2, FS_Subset, FS_CardinalityType
<1>5. /\ p.min_permit_weight <= SumOver(A, V)
      /\ SumOver(A, S \ V) <= p.max_hold_weight
      /\ p.min_permit_cohorts <= Cardinality(P)
  BY DecisionFacts
<1>6. /\ p.min_permit_weight <= SumOver(A, W)
      /\ SumOver(A, S \ W) <= p.max_hold_weight
      /\ p.min_permit_cohorts <= Cardinality(Q)
  <2> HIDE DEF A, P, Q, V, W, S
  <2> QED BY <1>3, <1>4, <1>5
<1> QED BY <1>6, DecisionFacts

\* A panel that allows as one is ready.
LEMMA AllAllowReady ==
  ASSUME NEW p, IsFiniteSet(p.members), p.members \subseteq Members,
         Weighted(p, p.members), ReviewPolicyAccepted(p), NEW v,
         p.min_permit_weight \in Nat, p.max_hold_weight \in Nat, p.min_permit_cohorts \in Nat,
         \A m \in p.members : v[m] = "Allow"
  PROVE  ReviewDecision(p, v) = "Ready"
<1> DEFINE S == p.members
           A == Shares(p, S)
<1>1. Allowing(S, v) = S /\ S \ Allowing(S, v) = {}
  BY DEF Allowing
<1>2. PermittingCohorts(p, v) = {p.cohort[m] : m \in {n \in S : A[n] > 0}}
  BY DEF PermittingCohorts
<1>3. SumOver(A, {}) = 0
  <2>1. \A m \in S : A[m] \in Nat
    BY SharesFacts
  <2> HIDE DEF A
  <2> QED BY <2>1, SumFacts
<1>4. /\ p.min_permit_weight <= SumOver(A, S)
      /\ p.min_permit_cohorts <= Cardinality({p.cohort[m] : m \in {n \in S : A[n] > 0}})
  BY AcceptedFacts
<1>5. /\ p.min_permit_weight <= SumOver(A, Allowing(S, v))
      /\ SumOver(A, S \ Allowing(S, v)) <= p.max_hold_weight
      /\ p.min_permit_cohorts <= Cardinality(PermittingCohorts(p, v))
  BY <1>1, <1>2, <1>3, <1>4
<1> QED BY <1>5, DecisionFacts

\* A ready review has its weight from members and from cohorts under their caps.
LEMMA ReadyRests ==
  ASSUME NEW p, IsFiniteSet(p.members), p.members \subseteq Members,
         Weighted(p, p.members), ReviewPolicyAccepted(p), NEW v,
         p.min_permit_weight \in Nat, p.max_hold_weight \in Nat, p.min_permit_cohorts \in Nat,
         ReviewDecision(p, v) = "Ready"
  PROVE  /\ p.min_permit_weight <=
              p.caps.per_member * Cardinality(Allowing(p.members, v))
         /\ p.min_permit_weight <=
              p.caps.per_cohort * Cardinality({p.cohort[m] : m \in Allowing(p.members, v)})
<1> DEFINE S == p.members
           A == Shares(p, S)
           V == Allowing(S, v)
           group == p.cohort
           D == {group[m] : m \in V}
           x == SumOver(A, V)
<1>1. /\ A \in [S -> Nat] /\ \A m \in S : A[m] <= p.caps.per_member
      /\ \A c : SumOver(A, CohortOf(p, S, c)) <= p.caps.per_cohort
  BY SharesFacts
<1>2. V \in SUBSET S /\ p.caps.per_member \in Nat /\ p.caps.per_cohort \in Nat
  BY DEF Allowing, Weighted
<1>3. p.min_permit_weight <= x
  BY DecisionFacts
<1>4. IsFiniteSet(S) /\ IsFiniteSet(V)
  BY <1>2, FS_Subset
<1>5. \A m \in V : A[m] \in Nat /\ A[m] <= p.caps.per_member
  BY <1>1, <1>2
<1>6. IsFiniteSet(D) /\ Cardinality(D) \in Nat /\ \A m \in V : group[m] \in D
  <2>1. \A m \in V : group[m] \in D
    OBVIOUS
  <2> HIDE DEF V, group
  <2> QED BY <1>4, <2>1, ImageFinite
<1>7. ASSUME NEW d \in D
      PROVE  SumOver(A, {m \in V : group[m] = d}) <= p.caps.per_cohort
  <2> DEFINE I == {m \in V : group[m] = d}
             J == CohortOf(p, S, d)
  <2>1. I \in SUBSET J /\ J \in SUBSET S
    BY <1>2 DEF CohortOf
  <2>2. SumOver(A, J) <= p.caps.per_cohort
    BY <1>1
  <2>3. \A m \in S : A[m] \in Nat
    BY <1>1
  <2> HIDE DEF I, J, S, A
  <2>4. SumOver(A, I) \in Nat /\ SumOver(A, J) \in Nat /\ SumOver(A, I) <= SumOver(A, J)
    BY <1>4, <2>1, <2>3, SumGrows
  <2>5. SumOver(A, I) <= p.caps.per_cohort
    BY <1>2, <2>2, <2>4
  <2> QED BY <2>5 DEF I
<1> HIDE DEF A, V, D, group, S
<1>8. x \in Nat /\ x <= p.caps.per_member * Cardinality(V)
  BY <1>2, <1>4, <1>5, SumBound, SumFacts
<1>9. x <= p.caps.per_cohort * Cardinality(D)
  BY <1>2, <1>4, <1>5, <1>6, <1>7, SumByGroup
<1>10. Cardinality(V) \in Nat
  BY <1>4, FS_CardinalityType
<1> DEFINE a == p.caps.per_member * Cardinality(V)
           b == p.caps.per_cohort * Cardinality(D)
<1>11. a \in Nat /\ b \in Nat
  BY <1>2, <1>6, <1>10
<1> HIDE DEF a, b, x
<1>12. p.min_permit_weight <= a /\ p.min_permit_weight <= b
  BY <1>3, <1>8, <1>9, <1>11 DEF a, b
<1> QED BY <1>12 DEF a, b, V, D, group, S

\* reduce, ReviewPolicy::new, CongressReview::evaluate: every accepted policy is a fair
\* vote on every transcript of its panel.
LEMMA AcceptedIsFair ==
  ASSUME NEW p, IsFiniteSet(p.members), p.members \subseteq Members,
         Weighted(p, p.members), ReviewPolicyAccepted(p),
         p.min_permit_weight \in Nat, p.max_hold_weight \in Nat, p.min_permit_cohorts \in Nat,
         NEW r \in RoundValue, r.phase = "Reveal"
  PROVE  FairOn(p, r)
<1> DEFINE v == r.outcome
           S == p.members
           Y == Allowing(S, v)
<1>1. v \in [Members -> Verdicts \cup {"Missing"}]
  BY DEF RoundValue
<1>2. ASSUME NEW q, q.phase = "Reveal"
      PROVE  Ready(p, q) <=>
               /\ \A m \in S : q.outcome[m] # "Missing" /\ q.outcome[m] # "Abstain"
               /\ ReviewDecision(p, q.outcome) = "Ready"
  BY <1>2 DEF Ready, Evaluate
<1>3. Evaluate(p, r, "Clear") # "Overflow"
  <2>1. ReviewDecision(p, v) # "Overflow"
    BY DecisionFacts
  <2> QED BY <2>1 DEF Evaluate
<1>4. Y = S => Ready(p, r)
  <2> SUFFICES ASSUME Y = S PROVE Ready(p, r)
    OBVIOUS
  <2>1. \A m \in S : v[m] = "Allow"
    BY DEF Allowing
  <2>2. ReviewDecision(p, v) = "Ready"
    BY <2>1, AllAllowReady
  <2> QED BY <1>2, <2>1, <2>2
<1>5. ASSUME Ready(p, r), NEW m \in S
      PROVE  Ready(p, HadAllowed(r, m))
  <2> DEFINE q == HadAllowed(r, m)
             w == q.outcome
  <2>1. q.phase = "Reveal" /\ w = [v EXCEPT ![m] = "Allow"]
    BY DEF HadAllowed, RoundValue
  <2>2. w[m] = "Allow" /\ \A n \in S \ {m} : w[n] = v[n]
    BY <1>1, <2>1
  <2>3. /\ \A n \in S : v[n] # "Missing" /\ v[n] # "Abstain"
        /\ ReviewDecision(p, v) = "Ready"
    BY <1>2, <1>5
  <2>4. \A n \in S : w[n] # "Missing" /\ w[n] # "Abstain"
    BY <2>2, <2>3
  <2>5. Allowing(S, v) \subseteq Allowing(S, w)
    BY <2>2 DEF Allowing
  <2> HIDE DEF w, q
  <2>6. ReviewDecision(p, w) = "Ready"
    BY <2>3, <2>5, AllowedMore
  <2> QED BY <1>2, <2>1, <2>4, <2>6 DEF w, q
<1>6. ASSUME Ready(p, r)
      PROVE  /\ p.min_permit_weight <= p.caps.per_member * Cardinality(Y)
             /\ p.min_permit_weight <= p.caps.per_cohort * Cardinality({p.cohort[m] : m \in Y})
  <2>1. ReviewDecision(p, v) = "Ready"
    BY <1>2, <1>6
  <2> QED BY <2>1, ReadyRests
<1> QED BY <1>3, <1>4, <1>5, <1>6 DEF FairOn, Allowing

\* ReviewPolicy::new, CongressReview::evaluate: under an accepted policy every review is
\* a fair vote, of any size the reducer takes.
THEOREM AcceptedPoliciesAreFair == Spec => []AcceptedPolicyFair
<1>1. Inv => AcceptedPolicyFair
  <2> SUFFICES ASSUME Inv, NEW id \in Ids, reviews[id] # NoReview, reviews[id].phase = "Reveal",
                      NEW p \in Accepted, p.members = reviews[id].members
               PROVE  FairOn(p, reviews[id])
    BY DEF AcceptedPolicyFair
  <2>1. reviews[id] \in RoundValue
    BY DEF Inv, Typed
  <2>2. p.members \subseteq Members
    BY <2>1 DEF RoundValue
  <2>3. IsFiniteSet(p.members)
    BY <2>2, RoundAssumption, FS_Subset
  <2>4. /\ ReviewPolicyAccepted(p) /\ Weighted(p, p.members)
        /\ p.min_permit_weight \in Nat /\ p.max_hold_weight \in Nat
        /\ p.min_permit_cohorts \in Nat
    BY CongressAuthorityAssumption DEF Accepted
  <2> QED BY <2>1, <2>2, <2>3, <2>4, AcceptedIsFair
<1> QED BY <1>1, InvHolds, PTL

-----------------------------------------------------------------------------
(* The age of evidence.                                                    *)

\* A set of naturals with an element has a least one, and Min names it.
LEMMA LeastIsLess ==
  ASSUME NEW S \in SUBSET Nat, NEW n \in S
  PROVE  Min(S) \in Nat /\ Min(S) <= n /\ Min(S) \in S
<1> DEFINE R == OpToRel(<, Nat)
<1>1. IsWellFoundedOn(R, Nat)
  BY NatLessThanWellFounded
<1>2. S \subseteq Nat /\ S # {}
  OBVIOUS
<1>3. PICK x \in S : \A y \in S : ~ (<<y, x>> \in R)
  <2> HIDE DEF R
  <2>1. \E x \in S : \A y \in S : ~ (<<y, x>> \in R)
    BY <1>1, <1>2, WFMin
  <2> QED BY <2>1
<1>4. ASSUME NEW y \in S
      PROVE  x <= y
  <2>1. x \in Nat /\ y \in Nat /\ ~ (<<y, x>> \in R)
    BY <1>3
  <2>2. y < x => <<y, x>> \in R
    BY <2>1 DEF OpToRel
  <2> HIDE DEF R
  <2> QED BY <2>1, <2>2
<1>5. Min(S) \in S /\ \A y \in S : Min(S) <= y
  BY <1>4 DEF Min
<1> QED BY <1>5

\* Who was evaluated when: under a promotion, within its span, which starts after
\* the sealing and ends with the oldest case.
AgeInv ==
  /\ evaluated \subseteq 1..MaxSequence
  /\ evaluated # {} => promotion # None
  /\ snapshot # None => snapshot.sequence \in Nat
  /\ promotion # None =>
       /\ snapshot # None
       /\ promotion.from \in Nat /\ snapshot.sequence <= promotion.from
       /\ promotion.through = ValidThrough
  /\ \A s \in evaluated : promotion.from <= s /\ s <= promotion.through

\* record_observations, record_label, seal, promote_credibility and evaluate_round
\* keep it.
LEMMA AgeInvariant == CredibilitySpec => []AgeInv
<1>1. CredibilityInit => AgeInv
  BY DEF CredibilityInit, AgeInv
<1>2. ASSUME AgeInv, [CredibilityNext]_credibilityVars
      PROVE  AgeInv'
  <2> USE <1>2 DEF AgeInv
  <2>1. ASSUME NEW c \in Cases, NEW vector \in Reports[c], RecordObservations(c, vector)
        PROVE  AgeInv'
    BY <2>1 DEF RecordObservations, ValidThrough
  <2>2. ASSUME NEW c \in Cases, NEW l \in Labellings[c], RecordLabel(c, l)
        PROVE  AgeInv'
    BY <2>2 DEF RecordLabel, ValidThrough
  <2>3. ASSUME NEW sequence \in 1..MaxSequence, Seal(sequence)
        PROVE  AgeInv'
    <3>1. promotion = None /\ promotion' = None /\ evaluated = {} /\ evaluated' = {}
      BY <2>3 DEF Seal
    <3>2. snapshot'.sequence \in Nat
      BY <2>3 DEF Seal
    <3> QED BY <3>1, <3>2
  <2>4. ASSUME NEW sequence \in 1..MaxSequence, Promote(sequence)
        PROVE  AgeInv'
    <3>1. /\ evaluated = {} /\ evaluated' = {} /\ snapshot # None /\ snapshot' = snapshot
          /\ promotion'.from = sequence /\ promotion'.through = ValidThrough
          /\ snapshot.sequence <= sequence
      BY <2>4 DEF Promote
    <3>2. ValidThrough' = ValidThrough /\ sequence \in Nat
      BY DEF ValidThrough
    <3> QED BY <3>1, <3>2
  <2>5. ASSUME NEW sequence \in 1..MaxSequence, EvaluateAt(sequence)
        PROVE  AgeInv'
    BY <2>5 DEF EvaluateAt, ValidThrough
  <2>6. CASE UNCHANGED credibilityVars
    BY <2>6 DEF credibilityVars, ValidThrough
  <2> QED BY <2>1, <2>2, <2>3, <2>4, <2>5, <2>6 DEF CredibilityNext
<1> QED BY <1>1, <1>2, PTL DEF CredibilitySpec

\* promote_credibility, evaluate_round: no round is evaluated under weights whose
\* oldest case is past its age, or before the evidence was sealed.
THEOREM EvidenceStaysFresh == CredibilitySpec => []EvidenceFresh
<1>1. AgeInv => EvidenceFresh
  <2> SUFFICES ASSUME AgeInv, NEW s \in evaluated
               PROVE  /\ s >= snapshot.sequence
                      /\ \A c \in Cases : s - DispatchOf[c] <= Requirements.maximum_age
    BY DEF EvidenceFresh
  <2>1. /\ s \in Nat /\ snapshot.sequence \in Nat /\ promotion.from \in Nat
        /\ snapshot.sequence <= promotion.from /\ promotion.from <= s
        /\ s <= ValidThrough
    BY CredibilityAssumption DEF AgeInv
  <2>2. ASSUME NEW c \in Cases
        PROVE  s - DispatchOf[c] <= Requirements.maximum_age
    <3> DEFINE D == {DispatchOf[d] : d \in Cases}
    <3>1. D \in SUBSET Nat /\ DispatchOf[c] \in D
      BY CredibilityAssumption
    <3>2. OldestCase = Min(D)
      BY DEF OldestCase
    <3>3. DispatchOf[c] \in Nat
      BY CredibilityAssumption
    <3> HIDE DEF D
    <3>4. Min(D) \in Nat /\ Min(D) <= DispatchOf[c]
      BY <3>1, LeastIsLess
    <3>5. Requirements.maximum_age \in Nat
      BY CredibilityAssumption DEF RequirementValues
    <3>6. s <= OldestCase + Requirements.maximum_age
      BY <2>1 DEF ValidThrough
    <3> QED BY <2>1, <3>2, <3>3, <3>4, <3>5, <3>6
  <2> QED BY <2>1, <2>2
<1> QED BY <1>1, AgeInvariant, PTL

-----------------------------------------------------------------------------
(* Worse counts weigh no more.                                             *)

\* The smaller of two.
LEMMA MinPair ==
  ASSUME NEW a \in Nat, NEW b \in Nat
  PROVE  Min({a, b}) = IF a <= b THEN a ELSE b
<1>1. CASE a <= b
  BY <1>1 DEF Min
<1>2. CASE ~(a <= b)
  BY <1>2 DEF Min
<1> QED BY <1>1, <1>2

\* Quotients compare as their fractions do.
LEMMA DivGrows ==
  ASSUME NEW x \in Nat, NEW y \in Nat, NEW s \in Nat \ {0}, NEW t \in Nat \ {0},
         x * t <= y * s
  PROVE  x \div s <= y \div t
<1> DEFINE q == x \div s
           r == y \div t
<1>1. q \in Nat /\ s * q <= x /\ r \in Nat
  BY DivFacts
<1>2. y < t * (r + 1)
  OBVIOUS
<1> HIDE DEF q, r
<1>3. SUFFICES ASSUME q >= r + 1 PROVE FALSE
  BY <1>1 DEF q, r
<1>4. t * (r + 1) <= t * q
  BY <1>1, <1>3
<1>5. y < t * q
  <2> DEFINE u == t * (r + 1)
             v == t * q
  <2>1. u \in Nat /\ v \in Nat /\ u <= v /\ y < u
    BY <1>1, <1>2, <1>4
  <2> HIDE DEF u, v
  <2> QED BY <2>1 DEF v
<1>6. y * s < (t * q) * s
  <2> DEFINE v == t * q
  <2>1. v \in Nat /\ y < v
    BY <1>1, <1>5
  <2> HIDE DEF v
  <2>2. y * s < v * s
    BY <2>1
  <2> QED BY <2>2 DEF v
<1>7. (t * q) * s = (s * q) * t
  BY <1>1
<1>8. (s * q) * t <= x * t
  <2> DEFINE v == s * q
  <2>1. v \in Nat /\ v <= x
    BY <1>1
  <2> HIDE DEF v
  <2>2. v * t <= x * t
    BY <2>1
  <2> QED BY <2>2 DEF v
<1> DEFINE a == y * s
           b == (t * q) * s
           c == (s * q) * t
           d == x * t
<1>9. a \in Nat /\ b \in Nat /\ c \in Nat /\ d \in Nat
  BY <1>1
<1>10. a < b /\ b = c /\ c <= d /\ d <= a
  BY <1>6, <1>7, <1>8
<1> HIDE DEF a, b, c, d
<1> QED BY <1>9, <1>10

\* The counts of a stratum.
ScoreValues ==
  [cases : Nat, pending : Nat, censored : Nat, missing : Nat, abstained : Nat, safe : Nat,
   violations : Nat, true_positives : Nat, false_positives : Nat,
   timely_true_positives : Nat, lead_time_credit : Nat]

\* Counts t are no better than s.
Worse(t, s) ==
  /\ t.pending = s.pending /\ t.censored = s.censored
  /\ t.missing = s.missing /\ t.abstained = s.abstained
  /\ t.safe = s.safe /\ t.violations = s.violations
  /\ t.true_positives <= s.true_positives
  /\ s.false_positives <= t.false_positives
  /\ t.timely_true_positives <= s.timely_true_positives
  /\ t.lead_time_credit <= s.lead_time_credit

\* Credit is given for alarms in time.
Earned(s) ==
  /\ s.timely_true_positives <= s.true_positives
  /\ s.timely_true_positives = 0 => s.lead_time_credit = 0

Judged(s) == s.true_positives + s.false_positives
Precision(s) == (s.true_positives * Ppm) \div Judged(s)
Recall(s) == (s.timely_true_positives * Ppm) \div s.violations
Quality(s) == Min({Precision(s), Recall(s)})
Lead(s) == Min({AverageLead(s), Requirements.lead_saturation})
Bonus(s) ==
  IF Requirements.lead_bonus_weight = 0 THEN 0
  ELSE (Requirements.lead_bonus_weight * Lead(s)) \div Requirements.lead_saturation

\* A stratum that counts.
Complete(s) ==
  /\ ~(s.pending + s.censored + s.missing + s.abstained > 0)
  /\ ~(s.safe < Requirements.minimum_safe)
  /\ ~(s.violations < Requirements.minimum_violation)
  /\ Judged(s) # 0 /\ s.violations # 0

Sufficient(s) ==
  /\ ~(Precision(s) < Requirements.minimum_precision)
  /\ ~(Recall(s) < Requirements.minimum_recall)
  /\ ~(s.false_positives * Ppm > s.safe * Requirements.maximum_false_positive)

\* CredibilityRequirements::weight: nothing without enough cases judged, on time and
\* rightly; otherwise the base weight scaled by the quality, and the bonus.
LEMMA StratumWeightIs ==
  ASSUME NEW s
  PROVE  StratumWeight(s) =
           IF Complete(s) /\ Sufficient(s)
             THEN (Requirements.base_weight * Quality(s)) \div Ppm + Bonus(s) ELSE 0
<1>1. CASE ~Complete(s)
  BY <1>1 DEF StratumWeight, Complete, Judged
<1>2. CASE Complete(s) /\ ~Sufficient(s)
  BY <1>2 DEF StratumWeight, Complete, Sufficient, Judged, Precision, Recall
<1>3. CASE Complete(s) /\ Sufficient(s)
  BY <1>3 DEF StratumWeight, Complete, Sufficient, Judged, Precision, Recall, Quality, Lead, Bonus
<1> QED BY <1>1, <1>2, <1>3

\* The parts of a weight are numbers.
LEMMA PartsTyped ==
  ASSUME NEW s \in ScoreValues, Complete(s)
  PROVE  /\ Judged(s) \in Nat \ {0} /\ s.violations \in Nat \ {0}
         /\ Precision(s) \in Nat /\ Recall(s) \in Nat /\ AverageLead(s) \in Nat
         /\ Quality(s) \in Nat /\ Lead(s) \in Nat /\ Bonus(s) \in Nat
         /\ Quality(s) = (IF Precision(s) <= Recall(s) THEN Precision(s) ELSE Recall(s))
         /\ Lead(s) = (IF AverageLead(s) <= Requirements.lead_saturation
                         THEN AverageLead(s) ELSE Requirements.lead_saturation)
<1>1. /\ s.true_positives \in Nat /\ s.false_positives \in Nat /\ s.violations \in Nat
      /\ s.timely_true_positives \in Nat /\ s.lead_time_credit \in Nat
  BY DEF ScoreValues
<1>2. Judged(s) \in Nat \ {0} /\ s.violations \in Nat \ {0}
  BY <1>1 DEF Judged, Complete
<1>3. Ppm \in Nat \ {0}
  BY DEF Ppm
<1>4. s.true_positives * Ppm \in Nat /\ s.timely_true_positives * Ppm \in Nat
  BY <1>1, <1>3
<1>5. Precision(s) \in Nat /\ Recall(s) \in Nat /\ AverageLead(s) \in Nat
  BY <1>1, <1>2, <1>4, DivFacts DEF Precision, Recall, AverageLead
<1>6. /\ Requirements.lead_saturation \in Nat /\ Requirements.lead_bonus_weight \in Nat
      /\ Requirements.lead_bonus_weight > 0 => Requirements.lead_saturation > 0
  BY CredibilityAssumption DEF RequirementValues
<1>7. /\ Quality(s) = (IF Precision(s) <= Recall(s) THEN Precision(s) ELSE Recall(s))
      /\ Lead(s) = (IF AverageLead(s) <= Requirements.lead_saturation
                      THEN AverageLead(s) ELSE Requirements.lead_saturation)
  BY <1>5, <1>6, MinPair DEF Quality, Lead
<1>8. Quality(s) \in Nat /\ Lead(s) \in Nat
  BY <1>5, <1>6, <1>7
<1>9. Bonus(s) \in Nat
  <2>1. CASE Requirements.lead_bonus_weight = 0
    BY <2>1 DEF Bonus
  <2>2. CASE Requirements.lead_bonus_weight # 0
    <3>1. Requirements.lead_saturation \in Nat \ {0}
      BY <1>6, <2>2
    <3>2. Requirements.lead_bonus_weight * Lead(s) \in Nat
      BY <1>6, <1>8
    <3> QED BY <2>2, <3>1, <3>2, DivFacts DEF Bonus
  <2> QED BY <2>1, <2>2
<1> QED BY <1>2, <1>5, <1>7, <1>8, <1>9

\* A weight is a number.
LEMMA StratumWeightTyped ==
  ASSUME NEW s \in ScoreValues
  PROVE  StratumWeight(s) \in Nat
<1>1. CASE Complete(s) /\ Sufficient(s)
  <2>1. Quality(s) \in Nat /\ Bonus(s) \in Nat
    BY <1>1, PartsTyped
  <2>2. Requirements.base_weight \in Nat /\ Ppm \in Nat \ {0}
    BY CredibilityAssumption DEF RequirementValues, Ppm
  <2> DEFINE x == Requirements.base_weight * Quality(s)
  <2>3. x \in Nat
    BY <2>1, <2>2
  <2> HIDE DEF x
  <2>4. x \div Ppm \in Nat
    BY <2>2, <2>3, DivFacts
  <2>5. StratumWeight(s) = x \div Ppm + Bonus(s)
    BY <1>1, StratumWeightIs DEF x
  <2> QED BY <2>1, <2>4, <2>5
<1>2. CASE ~(Complete(s) /\ Sufficient(s))
  BY <1>2, StratumWeightIs
<1> QED BY <1>1, <1>2

\* A precision falls with fewer hits and more false alarms.
LEMMA PrecisionFalls ==
  ASSUME NEW a \in Nat, NEW b \in Nat, NEW x \in Nat, NEW y \in Nat, NEW k \in Nat,
         x <= a, b <= y, a + b # 0, x + y # 0
  PROVE  (x * k) \div (x + y) <= (a * k) \div (a + b)
<1>1. x * b <= a * y
  <2>1. x * b <= a * b
    OBVIOUS
  <2>2. a * b <= a * y
    OBVIOUS
  <2> DEFINE u == x * b
             v == a * b
             w == a * y
  <2>3. u \in Nat /\ v \in Nat /\ w \in Nat /\ u <= v /\ v <= w
    BY <2>1, <2>2
  <2> HIDE DEF u, v, w
  <2>4. u <= w
    BY <2>3
  <2> QED BY <2>4 DEF u, w
<1>2. x * (a + b) <= a * (x + y)
  <2>1. x * (a + b) = x * a + x * b /\ a * (x + y) = x * a + a * y
    OBVIOUS
  <2>2. x * a \in Nat /\ x * b \in Nat /\ a * y \in Nat
    OBVIOUS
  <2> QED BY <1>1, <2>1, <2>2
<1>3. (x * k) * (a + b) <= (a * k) * (x + y)
  <2> DEFINE u == x * (a + b)
             v == a * (x + y)
  <2>1. u \in Nat /\ v \in Nat /\ u <= v
    BY <1>2
  <2>2. (x * k) * (a + b) = u * k /\ (a * k) * (x + y) = v * k
    OBVIOUS
  <2> HIDE DEF u, v
  <2>3. u * k <= v * k
    BY <2>1
  <2> QED BY <2>2, <2>3
<1>4. x * k \in Nat /\ a * k \in Nat /\ x + y \in Nat \ {0} /\ a + b \in Nat \ {0}
  OBVIOUS
<1> QED BY <1>3, <1>4, DivGrows

\* A quotient grows with its dividend.
LEMMA DivMonotone ==
  ASSUME NEW x \in Nat, NEW y \in Nat, NEW s \in Nat \ {0}, x <= y
  PROVE  x \div s <= y \div s
<1>1. x * s <= y * s
  OBVIOUS
<1> QED BY <1>1, DivGrows

\* A product grows with a factor.
LEMMA TimesMonotone ==
  ASSUME NEW x \in Nat, NEW y \in Nat, NEW k \in Nat, x <= y
  PROVE  x * k \in Nat /\ y * k \in Nat /\ x * k <= y * k
         /\ k * x \in Nat /\ k * y \in Nat /\ k * x <= k * y
OBVIOUS

\* CredibilityRequirements::weight: worse counts never weigh more.
LEMMA WorseWeighsLess ==
  ASSUME NEW s \in ScoreValues, NEW t \in ScoreValues, Worse(t, s), Earned(t)
  PROVE  StratumWeight(t) <= StratumWeight(s)
<1> USE DEF Worse
<1>0. StratumWeight(s) \in Nat /\ StratumWeight(t) \in Nat
  BY StratumWeightTyped
<1>1. CASE ~(Complete(t) /\ Sufficient(t))
  <2>1. StratumWeight(t) = 0
    BY <1>1, StratumWeightIs
  <2> QED BY <1>0, <2>1
<1>2. CASE Complete(t) /\ Sufficient(t)
  <2>1. /\ s.true_positives \in Nat /\ s.false_positives \in Nat /\ s.violations \in Nat
        /\ s.timely_true_positives \in Nat /\ s.lead_time_credit \in Nat
        /\ t.true_positives \in Nat /\ t.false_positives \in Nat /\ t.violations \in Nat
        /\ t.timely_true_positives \in Nat /\ t.lead_time_credit \in Nat
        /\ s.safe \in Nat
    BY DEF ScoreValues
  <2>2. /\ Requirements.base_weight \in Nat /\ Requirements.lead_bonus_weight \in Nat
        /\ Requirements.lead_saturation \in Nat
        /\ Requirements.lead_bonus_weight > 0 => Requirements.lead_saturation > 0
        /\ Requirements.minimum_precision \in Nat /\ Requirements.minimum_recall \in Nat
        /\ Requirements.maximum_false_positive \in Nat
        /\ Ppm \in Nat \ {0}
    BY CredibilityAssumption DEF RequirementValues, Ppm
  <2>3. CASE Judged(s) = 0
    <3>1. s.true_positives = 0
      BY <2>1, <2>3 DEF Judged
    <3>2. t.true_positives = 0 /\ t.timely_true_positives = 0 /\ t.lead_time_credit = 0
      BY <2>1, <3>1 DEF Earned
    <3>3. Precision(t) = 0 /\ AverageLead(t) = 0
      <4>1. Judged(t) \in Nat \ {0} /\ t.violations \in Nat \ {0}
        BY <1>2, PartsTyped
      <4>2. 0 * Ppm = 0
        BY <2>2
      <4>3. 0 \div Judged(t) = 0 /\ 0 \div t.violations = 0
        BY <4>1
      <4> QED BY <3>2, <4>2, <4>3 DEF Precision, AverageLead
    <3>4. Quality(t) = 0 /\ Lead(t) = 0
      <4>1. Recall(t) \in Nat
        BY <1>2, PartsTyped
      <4> QED BY <1>2, <2>2, <3>3, <4>1, PartsTyped
    <3>5. Bonus(t) = 0
      <4>1. CASE Requirements.lead_bonus_weight = 0
        BY <4>1 DEF Bonus
      <4>2. CASE Requirements.lead_bonus_weight # 0
        <5>1. Requirements.lead_bonus_weight * 0 = 0
          BY <2>2
        <5>2. Requirements.lead_saturation \in Nat \ {0}
          BY <2>2, <4>2
        <5>3. 0 \div Requirements.lead_saturation = 0
          BY <5>2
        <5> QED BY <3>4, <4>2, <5>1, <5>3 DEF Bonus
      <4> QED BY <4>1, <4>2
    <3>6. (Requirements.base_weight * Quality(t)) \div Ppm = 0
      <4>1. Requirements.base_weight * 0 = 0 /\ 0 \div Ppm = 0
        BY <2>2
      <4> QED BY <3>4, <4>1
    <3>7. StratumWeight(t) = 0
      BY <1>2, <3>5, <3>6, StratumWeightIs
    <3> QED BY <1>0, <3>7
  <2>4. CASE Judged(s) # 0
    <3>1. Complete(s)
      BY <1>2, <2>4 DEF Complete
    <3>2. Precision(t) <= Precision(s)
      <4>1. s.true_positives + s.false_positives # 0 /\ t.true_positives + t.false_positives # 0
        BY <1>2, <2>4 DEF Judged, Complete
      <4> QED BY <2>1, <2>2, <4>1, PrecisionFalls DEF Precision, Judged
    <3>3. Recall(t) <= Recall(s)
      <4> DEFINE x == t.timely_true_positives * Ppm
                 y == s.timely_true_positives * Ppm
      <4>1. x \in Nat /\ y \in Nat /\ x <= y
        BY <2>1, <2>2, TimesMonotone
      <4>2. s.violations \in Nat \ {0}
        BY <3>1, PartsTyped
      <4> HIDE DEF x, y
      <4>3. x \div s.violations <= y \div s.violations
        BY <4>1, <4>2, DivMonotone
      <4> QED BY <4>3 DEF Recall, x, y
    <3>4. AverageLead(t) <= AverageLead(s)
      <4>1. s.violations \in Nat \ {0}
        BY <3>1, PartsTyped
      <4> QED BY <2>1, <4>1, DivMonotone DEF AverageLead
    <3>5. /\ Precision(s) \in Nat /\ Recall(s) \in Nat /\ AverageLead(s) \in Nat
          /\ Quality(s) \in Nat /\ Lead(s) \in Nat /\ Bonus(s) \in Nat
          /\ Precision(t) \in Nat /\ Recall(t) \in Nat /\ AverageLead(t) \in Nat
          /\ Quality(t) \in Nat /\ Lead(t) \in Nat /\ Bonus(t) \in Nat
      BY <1>2, <3>1, PartsTyped
    <3>6. Quality(t) <= Quality(s)
      <4>1. /\ Quality(s) = (IF Precision(s) <= Recall(s) THEN Precision(s) ELSE Recall(s))
            /\ Quality(t) = (IF Precision(t) <= Recall(t) THEN Precision(t) ELSE Recall(t))
        BY <1>2, <3>1, PartsTyped
      <4> QED BY <3>2, <3>3, <3>5, <4>1
    <3>7. Lead(t) <= Lead(s)
      <4>1. /\ Lead(s) = (IF AverageLead(s) <= Requirements.lead_saturation
                            THEN AverageLead(s) ELSE Requirements.lead_saturation)
            /\ Lead(t) = (IF AverageLead(t) <= Requirements.lead_saturation
                            THEN AverageLead(t) ELSE Requirements.lead_saturation)
        BY <1>2, <3>1, PartsTyped
      <4> QED BY <2>2, <3>4, <3>5, <4>1
    <3>8. Sufficient(s)
      <4>1. s.false_positives * Ppm \in Nat /\ t.false_positives * Ppm \in Nat
            /\ s.false_positives * Ppm <= t.false_positives * Ppm
        BY <2>1, <2>2, TimesMonotone
      <4>2. ~(t.false_positives * Ppm > s.safe * Requirements.maximum_false_positive)
        BY <1>2 DEF Sufficient
      <4> DEFINE x == s.false_positives * Ppm
                 y == t.false_positives * Ppm
                 z == s.safe * Requirements.maximum_false_positive
      <4>3. z \in Nat
        BY <2>1, <2>2
      <4> HIDE DEF x, y, z
      <4>4. ~(x > z)
        BY <4>1, <4>2, <4>3 DEF x, y, z
      <4>5. /\ ~(Precision(s) < Requirements.minimum_precision)
            /\ ~(Recall(s) < Requirements.minimum_recall)
        <5>1. /\ ~(Precision(t) < Requirements.minimum_precision)
              /\ ~(Recall(t) < Requirements.minimum_recall)
          BY <1>2 DEF Sufficient
        <5> QED BY <2>2, <3>2, <3>3, <3>5, <5>1
      <4> QED BY <4>4, <4>5 DEF Sufficient, x, z
    <3>9. Bonus(t) <= Bonus(s)
      <4>1. CASE Requirements.lead_bonus_weight = 0
        BY <4>1 DEF Bonus
      <4>2. CASE Requirements.lead_bonus_weight # 0
        <5> DEFINE x == Requirements.lead_bonus_weight * Lead(t)
                   y == Requirements.lead_bonus_weight * Lead(s)
                   z == Requirements.lead_saturation
        <5>1. x \in Nat /\ y \in Nat /\ x <= y
          BY <2>2, <3>5, <3>7, TimesMonotone
        <5>2. z \in Nat \ {0}
          BY <2>2, <4>2
        <5>3. Bonus(t) = x \div z /\ Bonus(s) = y \div z
          BY <4>2 DEF Bonus
        <5> HIDE DEF x, y, z
        <5>4. x \div z <= y \div z
          BY <5>1, <5>2, DivMonotone
        <5> QED BY <5>3, <5>4
      <4> QED BY <4>1, <4>2
    <3> DEFINE x == Requirements.base_weight * Quality(t)
               y == Requirements.base_weight * Quality(s)
    <3>10. x \in Nat /\ y \in Nat /\ x <= y
      BY <2>2, <3>5, <3>6, TimesMonotone
    <3>11. StratumWeight(t) = x \div Ppm + Bonus(t) /\ StratumWeight(s) = y \div Ppm + Bonus(s)
      BY <1>2, <3>1, <3>8, StratumWeightIs
    <3> HIDE DEF x, y
    <3>12. x \div Ppm \in Nat /\ y \div Ppm \in Nat /\ x \div Ppm <= y \div Ppm
      BY <2>2, <3>10, DivFacts, DivMonotone
    <3> QED BY <3>5, <3>9, <3>11, <3>12
  <2> QED BY <2>3, <2>4
<1> QED BY <1>1, <1>2

-----------------------------------------------------------------------------
(* Scores as numbers of cases.                                             *)

\* What seal hands over.
SnapshotValues ==
  [sequence : Nat, observations : [Cases -> [Members -> Observations] \cup {None}],
   label : [Cases -> Labels \cup {None}]]

StratumCases(st) == {c \in Cases : StratumOf[c] = st}
SaidIn(ev, h, st, o) == {c \in StratumCases(st) : Observed(ev, c, h) = [said |-> o]}
HeldIn(ev, h, st) == {c \in StratumCases(st) : IsHold(Observed(ev, c, h))}
LabelledIn(ev, st, v) == {c \in StratumCases(st) : Verdict(ev, c) = v}
AlarmsIn(ev, h, st, v) == HeldIn(ev, h, st) \cap LabelledIn(ev, st, v)
TimelyIn(ev, h, st) ==
  {c \in AlarmsIn(ev, h, st, "Violation") :
     Observed(ev, c, h).hold < DispatchOf[c]}
Leads(ev, h, st) == [c \in StratumCases(st) |-> LeadTime(ev, c, h)]

\* The earliest of the dispatch and the alarms of the others.
FirstOther(ev, c, h) ==
  Min({Observed(ev, c, g).hold : g \in {g \in Members \ {h} : IsHold(Observed(ev, c, g))}}
      \cup {DispatchOf[c]})

\* CredibilitySnapshot::score counts the cases of a stratum.
LEMMA ScoreIs ==
  ASSUME NEW ev, NEW h, NEW st
  PROVE  /\ Score(ev, h, st).cases = Cardinality(StratumCases(st))
         /\ Score(ev, h, st).pending = Cardinality(LabelledIn(ev, st, "Pending"))
         /\ Score(ev, h, st).censored = Cardinality(LabelledIn(ev, st, "Censored"))
         /\ Score(ev, h, st).missing = Cardinality(SaidIn(ev, h, st, "Missing"))
         /\ Score(ev, h, st).abstained = Cardinality(SaidIn(ev, h, st, "Abstain"))
         /\ Score(ev, h, st).safe = Cardinality(LabelledIn(ev, st, "Safe"))
         /\ Score(ev, h, st).violations = Cardinality(LabelledIn(ev, st, "Violation"))
         /\ Score(ev, h, st).true_positives =
              Cardinality(AlarmsIn(ev, h, st, "Violation"))
         /\ Score(ev, h, st).false_positives =
              Cardinality(AlarmsIn(ev, h, st, "Safe"))
         /\ Score(ev, h, st).timely_true_positives = Cardinality(TimelyIn(ev, h, st))
         /\ Score(ev, h, st).lead_time_credit = SumOver(Leads(ev, h, st), TimelyIn(ev, h, st))
BY DEF Score, StratumCases, SaidIn, HeldIn, LabelledIn, AlarmsIn, TimelyIn, Leads

\* ... and nothing else.
LEMMA ScoreShape ==
  ASSUME NEW ev, NEW h, NEW st
  PROVE  Score(ev, h, st) =
              [cases |-> Score(ev, h, st).cases, pending |-> Score(ev, h, st).pending,
               censored |-> Score(ev, h, st).censored, missing |-> Score(ev, h, st).missing,
               abstained |-> Score(ev, h, st).abstained, safe |-> Score(ev, h, st).safe,
               violations |-> Score(ev, h, st).violations,
               true_positives |-> Score(ev, h, st).true_positives,
               false_positives |-> Score(ev, h, st).false_positives,
               timely_true_positives |-> Score(ev, h, st).timely_true_positives,
               lead_time_credit |-> Score(ev, h, st).lead_time_credit]
BY DEF Score

\* What a helper is taken to have said.
LEMMA ObservedTyped ==
  ASSUME NEW ev \in SnapshotValues, NEW c \in Cases, NEW h \in Members
  PROVE  /\ Observed(ev, c, h) \in Observations
         /\ IsHold(Observed(ev, c, h)) => Observed(ev, c, h).hold \in Nat
<1>1. ev.observations \in [Cases -> [Members -> Observations] \cup {None}]
  BY DEF SnapshotValues
<1>2. Observed(ev, c, h) \in Observations
  BY <1>1 DEF Observed, Observations
<1>3. \A o : IsHold(o) => o.hold \in Nat
  BY CredibilityAssumption DEF IsHold, Holds
<1> QED BY <1>2, <1>3

\* How long before the others an alarm came.
LEMMA LeadIs ==
  ASSUME NEW ev \in SnapshotValues, NEW c \in Cases, NEW h \in Members
  PROVE  /\ FirstOther(ev, c, h) \in Nat /\ DispatchOf[c] \in Nat
         /\ LeadTime(ev, c, h) =
              IF /\ IsHold(Observed(ev, c, h))
                 /\ Observed(ev, c, h).hold < DispatchOf[c]
                 /\ Observed(ev, c, h).hold < FirstOther(ev, c, h)
                THEN FirstOther(ev, c, h) - Observed(ev, c, h).hold ELSE 0
         /\ LeadTime(ev, c, h) \in Nat
<1> DEFINE G == {g \in Members \ {h} : IsHold(Observed(ev, c, g))}
           S == {Observed(ev, c, g).hold : g \in G} \cup {DispatchOf[c]}
           f == FirstOther(ev, c, h)
           o == Observed(ev, c, h)
<1>1. DispatchOf[c] \in Nat
  BY CredibilityAssumption
<1>2. S \in SUBSET Nat /\ DispatchOf[c] \in S
  BY <1>1, ObservedTyped
<1>3. f = Min(S)
  BY DEF FirstOther
<1>4. f \in Nat
  <2> HIDE DEF S
  <2> QED BY <1>2, <1>3, LeastIsLess
<1>5. LeadTime(ev, c, h) =
        IF IsHold(o) /\ o.hold < DispatchOf[c] /\ o.hold < f THEN f - o.hold ELSE 0
  BY DEF LeadTime, FirstOther
<1>6. IsHold(o) => o.hold \in Nat
  BY ObservedTyped
<1> HIDE DEF f, o
<1>7. LeadTime(ev, c, h) \in Nat
  BY <1>1, <1>4, <1>5, <1>6
<1> QED BY <1>1, <1>4, <1>5, <1>7 DEF f, o

\* Parts of the manifest can be counted.
LEMMA CasesCounted ==
  ASSUME NEW T \in SUBSET Cases
  PROVE  IsFiniteSet(T) /\ Cardinality(T) \in Nat
BY CredibilityAssumption, FS_Subset, FS_CardinalityType

\* Counts are numbers, and credit is earned in time.
LEMMA ScoreTyped ==
  ASSUME NEW ev \in SnapshotValues, NEW h \in Members, NEW st
  PROVE  Score(ev, h, st) \in ScoreValues /\ Earned(Score(ev, h, st))
<1> DEFINE s == Score(ev, h, st)
           TT == TimelyIn(ev, h, st)
           TP == AlarmsIn(ev, h, st, "Violation")
           L == Leads(ev, h, st)
<1>1. StratumCases(st) \in SUBSET Cases
  BY DEF StratumCases
<1>2. /\ \A v : LabelledIn(ev, st, v) \in SUBSET Cases
      /\ \A o : SaidIn(ev, h, st, o) \in SUBSET Cases
      /\ \A v : AlarmsIn(ev, h, st, v) \in SUBSET Cases
      /\ TT \in SUBSET TP /\ TP \in SUBSET Cases /\ TT \in SUBSET StratumCases(st)
  BY <1>1 DEF LabelledIn, SaidIn, HeldIn, AlarmsIn, TimelyIn
<1>3. \A c \in StratumCases(st) : L[c] \in Nat
  BY <1>1, LeadIs DEF Leads
<1>4. IsFiniteSet(StratumCases(st))
  BY <1>1, CasesCounted
<1>5. SumOver(L, TT) \in Nat /\ SumOver(L, {}) = 0
  <2> HIDE DEF L, TT
  <2> QED BY <1>2, <1>3, <1>4, SumFacts
<1>6. /\ s.cases \in Nat /\ s.pending \in Nat /\ s.censored \in Nat /\ s.missing \in Nat
      /\ s.abstained \in Nat /\ s.safe \in Nat /\ s.violations \in Nat
  BY <1>1, <1>2, CasesCounted, ScoreIs
<1>7. s.true_positives \in Nat /\ s.false_positives \in Nat /\ s.timely_true_positives \in Nat
  BY <1>2, CasesCounted, ScoreIs
<1>8. s.lead_time_credit \in Nat
  BY <1>5, ScoreIs
<1>9. s.timely_true_positives <= s.true_positives
  <2>1. s.timely_true_positives = Cardinality(TT) /\ s.true_positives = Cardinality(TP)
    BY ScoreIs
  <2> HIDE DEF TT, TP
  <2>2. IsFiniteSet(TP)
    BY <1>2, CasesCounted
  <2>3. Cardinality(TT) <= Cardinality(TP)
    BY <1>2, <2>2, FS_Subset
  <2> QED BY <2>1, <2>3
<1>10. s.timely_true_positives = 0 => s.lead_time_credit = 0
  <2>1. s.timely_true_positives = Cardinality(TT) /\ s.lead_time_credit = SumOver(L, TT)
    BY ScoreIs
  <2>2. IsFiniteSet(TT)
    BY <1>2, CasesCounted
  <2> HIDE DEF TT, L
  <2>3. Cardinality(TT) = 0 => TT = {}
    BY <2>2, FS_EmptySet
  <2> QED BY <1>5, <2>1, <2>3
<1>11. s \in ScoreValues
  <2>1. s = [cases |-> s.cases, pending |-> s.pending, censored |-> s.censored,
             missing |-> s.missing, abstained |-> s.abstained, safe |-> s.safe,
             violations |-> s.violations, true_positives |-> s.true_positives,
             false_positives |-> s.false_positives,
             timely_true_positives |-> s.timely_true_positives,
             lead_time_credit |-> s.lead_time_credit]
    BY ScoreShape
  <2> HIDE DEF s
  <2> QED BY <1>6, <1>7, <1>8, <2>1 DEF ScoreValues
<1> QED BY <1>9, <1>10, <1>11 DEF Earned

\* CredibilityRequirements::weight returns a number.
LEMMA WeightTyped ==
  ASSUME NEW ev \in SnapshotValues, NEW h \in Members, Cases # {}
  PROVE  /\ Weight(ev, h) \in Nat
         /\ \A st \in Strata : Weight(ev, h) <= StratumWeight(Score(ev, h, st))
         /\ \E st \in Strata : Weight(ev, h) = StratumWeight(Score(ev, h, st))
<1> DEFINE W == {StratumWeight(Score(ev, h, st)) : st \in Strata}
<1>1. W \in SUBSET Nat
  BY ScoreTyped, StratumWeightTyped
<1>2. Strata # {}
  BY DEF Strata
<1>3. PICK n : n \in W
  BY <1>2
<1>4. Weight(ev, h) = Min(W)
  BY DEF Weight
<1>5. \A k \in W : Min(W) \in Nat /\ Min(W) <= k /\ Min(W) \in W
  <2> HIDE DEF W
  <2> QED BY <1>1, LeastIsLess
<1>6. Min(W) \in Nat /\ Min(W) \in W
  BY <1>3, <1>5
<1>7. \A st \in Strata : StratumWeight(Score(ev, h, st)) \in W
  OBVIOUS
<1> QED BY <1>4, <1>5, <1>6, <1>7

-----------------------------------------------------------------------------
(* A worse answer.                                                         *)

\* Instead of old, a helper said new of a case with verdict v: nothing or later of a
\* violation, or an alarm on a safe case.
SaidWorse(v, old, new) ==
  \/ /\ v = "Violation" /\ IsHold(old)
     /\ new = [said |-> "Clear"] \/ (IsHold(new) /\ new.hold > old.hold)
  \/ v = "Safe" /\ old = [said |-> "Clear"] /\ IsHold(new)

\* What such answers are, and are not.
LEMMA SaidFacts ==
  ASSUME NEW v, NEW old, NEW new, SaidWorse(v, old, new)
  PROVE  /\ old # [said |-> "Missing"] /\ old # [said |-> "Abstain"]
         /\ new # [said |-> "Missing"] /\ new # [said |-> "Abstain"]
         /\ ~IsHold([said |-> "Clear"])
<1>1. \A x : ~IsHold([said |-> x])
  <2> SUFFICES ASSUME NEW x, IsHold([said |-> x]) PROVE FALSE
    OBVIOUS
  <2>1. DOMAIN [said |-> x] = {"hold"}
    BY DEF IsHold, Holds
  <2>2. DOMAIN [said |-> x] = {"said"}
    OBVIOUS
  <2> QED BY <2>1, <2>2
<1>2. [said |-> "Clear"] # [said |-> "Missing"] /\ [said |-> "Clear"] # [said |-> "Abstain"]
  <2>1. [said |-> "Clear"].said # [said |-> "Missing"].said
        /\ [said |-> "Clear"].said # [said |-> "Abstain"].said
    OBVIOUS
  <2> QED BY <2>1
<1> QED BY <1>1, <1>2 DEF SaidWorse

\* What is retold, and what stays as it was told.
LEMMA RetoldFacts ==
  ASSUME NEW ev \in SnapshotValues, NEW c \in Cases, ev.observations[c] # None,
         NEW h \in Members, NEW o \in Observations
  PROVE  /\ Retold(ev, c, h, o) \in SnapshotValues
         /\ Observed(ev, c, h) = ev.observations[c][h]
         /\ Observed(Retold(ev, c, h, o), c, h) = o
         /\ \A d \in Cases, g \in Members : d # c \/ g # h =>
              Observed(Retold(ev, c, h, o), d, g) = Observed(ev, d, g)
         /\ \A d \in Cases : Verdict(Retold(ev, c, h, o), d) = Verdict(ev, d)
<1> DEFINE q == Retold(ev, c, h, o)
           f == ev.observations
           x == [f[c] EXCEPT ![h] = o]
           e == [f EXCEPT ![c] = x]
<1>1. /\ f \in [Cases -> [Members -> Observations] \cup {None}]
      /\ ev.label \in [Cases -> Labels \cup {None}] /\ ev.sequence \in Nat
      /\ ev = [sequence |-> ev.sequence, observations |-> f, label |-> ev.label]
  BY DEF SnapshotValues
<1>2. q = [ev EXCEPT !.observations = e]
  BY DEF Retold
<1>3. f[c] \in [Members -> Observations]
  BY <1>1
<1>4. /\ x \in [Members -> Observations] /\ x[h] = o
      /\ \A g \in Members \ {h} : x[g] = f[c][g]
  BY <1>3
<1>5. x # None
  BY <1>4, CredibilityAssumption
<1> HIDE DEF x
<1>6. /\ e \in [Cases -> [Members -> Observations] \cup {None}] /\ e[c] = x
      /\ \A d \in Cases \ {c} : e[d] = f[d]
  BY <1>1, <1>4
<1> HIDE DEF e, f
<1>7. q = [sequence |-> ev.sequence, observations |-> e, label |-> ev.label]
  BY <1>1, <1>2
<1>8. q \in SnapshotValues /\ q.observations = e /\ q.label = ev.label
  BY <1>1, <1>6, <1>7 DEF SnapshotValues
<1>9. Observed(ev, c, h) = f[c][h]
  BY DEF Observed, f
<1>10. Observed(q, c, h) = o
  BY <1>4, <1>5, <1>6, <1>8 DEF Observed
<1>11. ASSUME NEW d \in Cases, NEW g \in Members, d # c \/ g # h
       PROVE  Observed(q, d, g) = Observed(ev, d, g)
  <2>1. CASE d # c
    BY <1>6, <1>8, <2>1 DEF Observed, f
  <2>2. CASE d = c
    <3>1. Observed(q, d, g) = x[g]
      BY <1>5, <1>6, <1>8, <2>2 DEF Observed
    <3>2. Observed(ev, d, g) = f[c][g]
      BY <2>2 DEF Observed, f
    <3> QED BY <1>4, <1>11, <2>2, <3>1, <3>2
  <2> QED BY <2>1, <2>2
<1>12. \A d \in Cases : Verdict(q, d) = Verdict(ev, d)
  BY <1>8 DEF Verdict
<1> QED BY <1>8, <1>9, <1>10, <1>11, <1>12 DEF f

\* The counts of a helper that answered worse are no better in any stratum.
LEMMA RetoldWorse ==
  ASSUME NEW ev \in SnapshotValues, NEW q \in SnapshotValues, NEW c \in Cases,
         NEW h \in Members, NEW st,
         \A d \in Cases, g \in Members : d # c \/ g # h => Observed(q, d, g) = Observed(ev, d, g),
         \A d \in Cases : Verdict(q, d) = Verdict(ev, d),
         SaidWorse(Verdict(ev, c), Observed(ev, c, h), Observed(q, c, h))
  PROVE  Worse(Score(q, h, st), Score(ev, h, st))
<1> DEFINE old == Observed(ev, c, h)
           new == Observed(q, c, h)
           v == Verdict(ev, c)
           D == StratumCases(st)
<1>1. D \in SUBSET Cases /\ IsFiniteSet(D)
  <2>1. D \in SUBSET Cases
    BY DEF StratumCases
  <2> QED BY <2>1, CasesCounted
<1>2. \A x : LabelledIn(q, st, x) = LabelledIn(ev, st, x)
  BY <1>1 DEF LabelledIn
<1>3. /\ old # [said |-> "Missing"] /\ old # [said |-> "Abstain"]
      /\ new # [said |-> "Missing"] /\ new # [said |-> "Abstain"]
      /\ ~IsHold([said |-> "Clear"])
  BY SaidFacts
<1>4. SaidIn(q, h, st, "Missing") = SaidIn(ev, h, st, "Missing")
  <2>1. \A d \in D : Observed(q, d, h) = [said |-> "Missing"] <=>
                     Observed(ev, d, h) = [said |-> "Missing"]
    BY <1>1, <1>3
  <2> QED BY <2>1 DEF SaidIn
<1>5. SaidIn(q, h, st, "Abstain") = SaidIn(ev, h, st, "Abstain")
  <2>1. \A d \in D : Observed(q, d, h) = [said |-> "Abstain"] <=>
                     Observed(ev, d, h) = [said |-> "Abstain"]
    BY <1>1, <1>3
  <2> QED BY <2>1 DEF SaidIn
<1> DEFINE TP(e) == AlarmsIn(e, h, st, "Violation")
           FP(e) == AlarmsIn(e, h, st, "Safe")
           TT(e) == TimelyIn(e, h, st)
           L(e) == Leads(e, h, st)
<1>6. \A e : TP(e) \in SUBSET D /\ FP(e) \in SUBSET D /\ TT(e) \in SUBSET D
  BY DEF AlarmsIn, HeldIn, TimelyIn
<1>7. v = "Violation" => IsHold(old) /\ (IsHold(new) => new.hold > old.hold)
  BY <1>3 DEF SaidWorse
<1>8. v = "Safe" => IsHold(new)
  BY DEF SaidWorse
<1>9. TP(q) \in SUBSET TP(ev)
  BY <1>1, <1>7 DEF AlarmsIn, HeldIn, LabelledIn
<1>10. FP(ev) \in SUBSET FP(q)
  BY <1>1, <1>8 DEF AlarmsIn, HeldIn, LabelledIn
<1>11. \A d \in D : DispatchOf[d] \in Nat /\ \A e \in SnapshotValues :
                      IsHold(Observed(e, d, h)) => Observed(e, d, h).hold \in Nat
  BY <1>1, LeadIs, ObservedTyped
<1>12. \A d \in TT(q) : /\ d \in D /\ IsHold(Observed(q, d, h))
                        /\ Verdict(ev, d) = "Violation"
                        /\ Observed(q, d, h).hold < DispatchOf[d]
  BY <1>1 DEF TimelyIn, AlarmsIn, HeldIn, LabelledIn
<1>13. TT(q) \in SUBSET TT(ev)
  <2> SUFFICES ASSUME NEW d \in TT(q) PROVE d \in TT(ev)
    OBVIOUS
  <2>1. d \in TP(ev) /\ d \in D
    BY <1>9, <1>12 DEF TimelyIn
  <2>2. Observed(ev, d, h).hold < DispatchOf[d]
    <3>1. CASE d # c
      BY <1>1, <1>12, <2>1, <3>1
    <3>2. CASE d = c
      <4>1. IsHold(old) /\ IsHold(new) /\ new.hold > old.hold /\ new.hold < DispatchOf[d]
        BY <1>7, <1>12, <3>2
      <4>2. old.hold \in Nat /\ new.hold \in Nat /\ DispatchOf[d] \in Nat
        BY <1>11, <2>1, <3>2, <4>1
      <4> QED BY <3>2, <4>1, <4>2
    <3> QED BY <3>1, <3>2
  <2> QED BY <2>1, <2>2 DEF TimelyIn
<1>14. ASSUME NEW d \in TT(q)
       PROVE  /\ L(q)[d] \in Nat /\ L(ev)[d] \in Nat
              /\ L(q)[d] <= L(ev)[d]
  <2>1. d \in D /\ d \in Cases
    BY <1>1, <1>12
  <2>2. L(q)[d] = LeadTime(q, d, h) /\ L(ev)[d] = LeadTime(ev, d, h)
    BY <2>1 DEF Leads
  <2>3. FirstOther(q, d, h) = FirstOther(ev, d, h)
    <3>1. \A g \in Members \ {h} : Observed(q, d, g) = Observed(ev, d, g)
      BY <2>1
    <3>2. {g \in Members \ {h} : IsHold(Observed(q, d, g))} =
          {g \in Members \ {h} : IsHold(Observed(ev, d, g))}
      BY <3>1
    <3>3. {Observed(q, d, g).hold : g \in {g \in Members \ {h} : IsHold(Observed(q, d, g))}} =
          {Observed(ev, d, g).hold : g \in {g \in Members \ {h} : IsHold(Observed(ev, d, g))}}
      BY <3>1, <3>2
    <3> QED BY <3>3 DEF FirstOther
  <2> DEFINE first == FirstOther(ev, d, h)
             a == Observed(ev, d, h)
             b == Observed(q, d, h)
  <2>4. /\ first \in Nat /\ DispatchOf[d] \in Nat
        /\ LeadTime(ev, d, h) = (IF IsHold(a) /\ a.hold < DispatchOf[d] /\ a.hold < first
                                   THEN first - a.hold ELSE 0)
        /\ LeadTime(q, d, h) = (IF IsHold(b) /\ b.hold < DispatchOf[d] /\ b.hold < first
                                  THEN first - b.hold ELSE 0)
        /\ LeadTime(ev, d, h) \in Nat /\ LeadTime(q, d, h) \in Nat
    BY <2>1, <2>3, LeadIs
  <2>5. IsHold(a) /\ IsHold(b) /\ a.hold \in Nat /\ b.hold \in Nat /\ a.hold <= b.hold
    <3>1. IsHold(b) /\ b.hold \in Nat
      BY <1>11, <1>12
    <3>2. CASE d # c
      BY <2>1, <3>1, <3>2
    <3>3. CASE d = c
      <4>1. IsHold(a) /\ b.hold > a.hold
        BY <1>7, <1>12, <3>1, <3>3
      <4>2. a.hold \in Nat
        BY <1>11, <2>1, <4>1
      <4> QED BY <3>1, <4>1, <4>2
    <3> QED BY <3>2, <3>3
  <2> HIDE DEF first, a, b
  <2>6. LeadTime(q, d, h) <= LeadTime(ev, d, h)
    BY <2>4, <2>5
  <2> QED BY <2>2, <2>4, <2>6
<1>15. \A d \in D : L(ev)[d] \in Nat
  BY <1>1, LeadIs DEF Leads
<1> HIDE DEF L, TT, TP, FP, D
<1>16. SumOver(L(q), TT(q)) <= SumOver(L(ev), TT(ev))
  <2>1. IsFiniteSet(TT(q))
    BY <1>1, <1>6, FS_Subset
  <2>2. SumOver(L(q), TT(q)) <= SumOver(L(ev), TT(q))
    BY <1>14, <2>1, SumCompares
  <2>3. /\ SumOver(L(ev), TT(q)) \in Nat /\ SumOver(L(ev), TT(ev)) \in Nat
        /\ SumOver(L(ev), TT(q)) <= SumOver(L(ev), TT(ev))
    BY <1>1, <1>6, <1>13, <1>15, SumGrows
  <2>4. SumOver(L(q), TT(q)) \in Nat
    BY <1>14, <2>1, SumFacts
  <2> QED BY <2>2, <2>3, <2>4
<1>17. /\ Cardinality(TP(q)) <= Cardinality(TP(ev))
       /\ Cardinality(FP(ev)) <= Cardinality(FP(q))
       /\ Cardinality(TT(q)) <= Cardinality(TT(ev))
  <2>1. IsFiniteSet(TP(ev)) /\ IsFiniteSet(FP(q)) /\ IsFiniteSet(TT(ev))
    BY <1>1, <1>6, FS_Subset
  <2> QED BY <1>9, <1>10, <1>13, <2>1, FS_Subset
<1> DEFINE s == Score(ev, h, st)
           t == Score(q, h, st)
<1>18. t.true_positives <= s.true_positives /\ s.false_positives <= t.false_positives
  BY <1>17, ScoreIs DEF TP, FP
<1>19. t.timely_true_positives <= s.timely_true_positives
       /\ t.lead_time_credit <= s.lead_time_credit
  BY <1>16, <1>17, ScoreIs DEF TT, L
<1>20. /\ t.pending = s.pending /\ t.censored = s.censored
       /\ t.safe = s.safe /\ t.violations = s.violations
  BY <1>2, ScoreIs
<1>21. t.missing = s.missing /\ t.abstained = s.abstained
  BY <1>4, <1>5, ScoreIs
<1> QED BY <1>18, <1>19, <1>20, <1>21 DEF Worse

\* A worse answer never weighs more.
LEMMA WorseNeverGains ==
  ASSUME NEW ev \in SnapshotValues, NEW c \in Cases, ev.observations[c] # None,
         NEW h \in Members, NEW o \in Observations,
         SaidWorse(Verdict(ev, c), ev.observations[c][h], o)
  PROVE  Weight(Retold(ev, c, h, o), h) <= Weight(ev, h)
<1> DEFINE q == Retold(ev, c, h, o)
<1>1. /\ q \in SnapshotValues
      /\ Observed(ev, c, h) = ev.observations[c][h] /\ Observed(q, c, h) = o
      /\ \A d \in Cases, g \in Members : d # c \/ g # h => Observed(q, d, g) = Observed(ev, d, g)
      /\ \A d \in Cases : Verdict(q, d) = Verdict(ev, d)
  BY RetoldFacts
<1> HIDE DEF q
<1>2. Cases # {}
  OBVIOUS
<1>3. PICK st \in Strata : Weight(ev, h) = StratumWeight(Score(ev, h, st))
  BY <1>2, WeightTyped
<1>4. Weight(q, h) \in Nat /\ Weight(q, h) <= StratumWeight(Score(q, h, st))
  BY <1>1, <1>2, WeightTyped
<1>5. Worse(Score(q, h, st), Score(ev, h, st))
  BY <1>1, RetoldWorse
<1> DEFINE s == Score(ev, h, st)
           t == Score(q, h, st)
<1>6. s \in ScoreValues /\ t \in ScoreValues /\ Earned(t)
  BY <1>1, ScoreTyped
<1> HIDE DEF s, t
<1>7. StratumWeight(t) <= StratumWeight(s)
  BY <1>5, <1>6, WorseWeighsLess DEF s, t
<1>8. StratumWeight(t) \in Nat /\ StratumWeight(s) \in Nat
  BY <1>6, StratumWeightTyped
<1>9. Weight(q, h) <= Weight(ev, h)
  BY <1>3, <1>4, <1>7, <1>8 DEF s, t
<1> QED BY <1>9 DEF q

-----------------------------------------------------------------------------
(* Scores are fair and promotions are capped.                              *)

\* The ledger and what was sealed are well typed.
EvidenceTyped ==
  /\ observations \in [Cases -> [Members -> Observations] \cup {None}]
  /\ label \in [Cases -> Labels \cup {None}]
  /\ snapshot # None => snapshot \in SnapshotValues

\* A promotion came out of promote_credibility, with weights of some helpers.
PromotionMade ==
  promotion # None =>
    \E weights \in [Members -> Nat] :
      /\ PromotionAccepted(Table, weights, Requirements.share, Table.generation + 1)
      /\ promotion.policy =
           Promoted(Table, weights, Requirements.share, Table.generation + 1)

MeasureInv == EvidenceTyped /\ PromotionMade

\* The ledger, seal and promote_credibility keep it.
LEMMA MeasureInvariant == CredibilitySpec => []MeasureInv
<1>1. CredibilityInit => MeasureInv
  BY DEF CredibilityInit, MeasureInv, EvidenceTyped, PromotionMade
<1>2. ASSUME MeasureInv, [CredibilityNext]_credibilityVars
      PROVE  MeasureInv'
  <2> USE <1>2 DEF MeasureInv
  <2>1. ASSUME NEW c \in Cases, NEW vector \in Reports[c], RecordObservations(c, vector)
        PROVE  MeasureInv'
    <3>1. vector \in [Members -> Observations]
      BY CredibilityAssumption
    <3> QED BY <2>1, <3>1 DEF RecordObservations, EvidenceTyped, PromotionMade
  <2>2. ASSUME NEW c \in Cases, NEW l \in Labellings[c], RecordLabel(c, l)
        PROVE  MeasureInv'
    <3>1. l \in Labels
      BY CredibilityAssumption
    <3> QED BY <2>2, <3>1 DEF RecordLabel, EvidenceTyped, PromotionMade
  <2>3. ASSUME NEW sequence \in 1..MaxSequence, Seal(sequence)
        PROVE  MeasureInv'
    <3>1. snapshot' = [sequence |-> sequence, observations |-> observations, label |-> label]
          /\ UNCHANGED <<observations, label, promotion>>
      BY <2>3 DEF Seal
    <3>2. snapshot' \in SnapshotValues
      BY <3>1, CredibilityAssumption DEF EvidenceTyped, SnapshotValues
    <3> QED BY <3>1, <3>2 DEF EvidenceTyped, PromotionMade
  <2>4. ASSUME NEW sequence \in 1..MaxSequence, Promote(sequence)
        PROVE  MeasureInv'
    <3> DEFINE weights == [h \in Members |-> Weight(snapshot, h)]
    <3>1. /\ snapshot # None /\ UNCHANGED <<observations, label, snapshot>>
          /\ PromotionAccepted(Table, weights, Requirements.share, Table.generation + 1)
          /\ promotion'.policy =
               Promoted(Table, weights, Requirements.share, Table.generation + 1)
      BY <2>4 DEF Promote
    <3>2. weights \in [Members -> Nat]
      BY <3>1, WeightTyped, CredibilityAssumption DEF EvidenceTyped
    <3> HIDE DEF weights
    <3>3. PromotionMade'
      BY <3>1, <3>2 DEF PromotionMade
    <3> QED BY <3>1, <3>3 DEF EvidenceTyped
  <2>5. ASSUME NEW sequence \in 1..MaxSequence, EvaluateAt(sequence)
        PROVE  MeasureInv'
    BY <2>5 DEF EvaluateAt, EvidenceTyped, PromotionMade
  <2>6. CASE UNCHANGED credibilityVars
    BY <2>6 DEF credibilityVars, EvidenceTyped, PromotionMade
  <2> QED BY <2>1, <2>2, <2>3, <2>4, <2>5, <2>6 DEF CredibilityNext
<1> QED BY <1>1, <1>2, PTL DEF CredibilitySpec

\* CredibilityRequirements::weight: silence on a violation, a later alarm and an alarm
\* on a safe case never raise the weight of a helper.
THEOREM NothingGainedFromWorse == CredibilitySpec => []NoGainFromWorse
<1>1. MeasureInv => NoGainFromWorse
  <2> SUFFICES ASSUME MeasureInv, snapshot # None, NEW c \in Cases, NEW h \in Members,
                      snapshot.observations[c] # None, snapshot.label[c] # None
               PROVE  LET o == snapshot.observations[c][h]
                          clear == [said |-> "Clear"]
                          After(w) == Weight(Retold(snapshot, c, h, w), h)
                      IN  /\ (snapshot.label[c].verdict = "Violation" /\ IsHold(o)) =>
                               /\ After(clear) <= Weight(snapshot, h)
                               /\ \A k \in (o.hold + 1)..MaxSequence :
                                    After([hold |-> k]) <= Weight(snapshot, h)
                          /\ (snapshot.label[c].verdict = "Safe" /\ o = clear) =>
                               \A k \in 1..MaxSequence :
                                 After([hold |-> k]) <= Weight(snapshot, h)
    BY DEF NoGainFromWorse
  <2> DEFINE ev == snapshot
             o == ev.observations[c][h]
             clear == [said |-> "Clear"]
             v == ev.label[c].verdict
  <2>1. ev \in SnapshotValues
    BY DEF MeasureInv, EvidenceTyped
  <2>2. Verdict(ev, c) = v
    BY DEF Verdict
  <2>3. o \in Observations
    BY <2>1 DEF SnapshotValues
  <2>4. clear \in Observations /\ \A k \in 1..MaxSequence : [hold |-> k] \in Observations
    BY DEF Observations, Holds
  <2>5. \A k \in 1..MaxSequence : IsHold([hold |-> k]) /\ [hold |-> k].hold = k
    BY DEF IsHold, Holds
  <2>6. \A w \in Observations :
          SaidWorse(v, o, w) => Weight(Retold(ev, c, h, w), h) <= Weight(ev, h)
    <3> HIDE DEF ev
    <3> QED BY <2>1, <2>2, WorseNeverGains DEF ev
  <2>7. ASSUME v = "Violation", IsHold(o)
        PROVE  /\ Weight(Retold(ev, c, h, clear), h) <= Weight(ev, h)
               /\ \A k \in (o.hold + 1)..MaxSequence :
                    Weight(Retold(ev, c, h, [hold |-> k]), h) <= Weight(ev, h)
    <3>1. SaidWorse(v, o, clear)
      BY <2>7 DEF SaidWorse
    <3>2. ASSUME NEW k \in (o.hold + 1)..MaxSequence
          PROVE  Weight(Retold(ev, c, h, [hold |-> k]), h) <= Weight(ev, h)
      <4>1. o.hold \in 1..MaxSequence /\ MaxSequence \in Nat
        BY <2>7, CredibilityAssumption DEF IsHold, Holds
      <4>2. k \in 1..MaxSequence /\ k > o.hold
        BY <4>1
      <4>3. IsHold([hold |-> k]) /\ [hold |-> k].hold > o.hold
        BY <2>5, <4>2
      <4>4. SaidWorse(v, o, [hold |-> k])
        BY <2>7, <4>3 DEF SaidWorse
      <4> QED BY <2>4, <2>6, <4>2, <4>4
    <3> QED BY <2>4, <2>6, <3>1, <3>2
  <2>8. ASSUME v = "Safe", o = clear, NEW k \in 1..MaxSequence
        PROVE  Weight(Retold(ev, c, h, [hold |-> k]), h) <= Weight(ev, h)
    <3>1. SaidWorse(v, o, [hold |-> k])
      BY <2>5, <2>8 DEF SaidWorse
    <3> QED BY <2>4, <2>6, <3>1
  <2> QED BY <2>7, <2>8
<1> QED BY <1>1, MeasureInvariant, PTL

-----------------------------------------------------------------------------
(* Promoted weights.                                                       *)

\* The chain of restrictions, as numbers.
LEMMA Ranks ==
  /\ Rank("Continue") = 1 /\ Rank("HoldEffect") = 2 /\ Rank("Deny") = 3
  /\ Rank("NarrowAuthority") = 4 /\ Rank("SuspendRun") = 5
<1>1. /\ Restrictions[1] = "Continue" /\ Restrictions[2] = "HoldEffect"
      /\ Restrictions[3] = "Deny" /\ Restrictions[4] = "NarrowAuthority"
      /\ Restrictions[5] = "SuspendRun"
  BY DEF Restrictions
<1>2. \A i \in 1..5 : i = 1 \/ i = 2 \/ i = 3 \/ i = 4 \/ i = 5
  OBVIOUS
<1>3. \A i, j \in 1..5 : Restrictions[i] = Restrictions[j] => i = j
  BY <1>1, <1>2
<1>4. ASSUME NEW k \in 1..5
      PROVE  Rank(Restrictions[k]) = k
  BY <1>3 DEF Rank
<1>5. 1 \in 1..5 /\ 2 \in 1..5 /\ 3 \in 1..5 /\ 4 \in 1..5 /\ 5 \in 1..5
  OBVIOUS
<1> QED BY <1>1, <1>4, <1>5

\* The answers of the empirical part.
Answers == {"Continue", "HoldEffect", "NarrowAuthority", "SuspendRun"}

\* An absence may hold an effect, and changes nothing else.
LEMMA DecideFacts ==
  ASSUME NEW e \in Answers, NEW incomplete \in BOOLEAN
  PROVE  /\ Decide(e, FALSE, incomplete) \in Answers
         /\ Rank(Decide(e, FALSE, incomplete)) >= Rank(e)
         /\ Decide(e, FALSE, incomplete) \in {"NarrowAuthority", "SuspendRun"} =>
              Decide(e, FALSE, incomplete) = e
<1> DEFINE x == IF incomplete THEN "HoldEffect" ELSE "Continue"
<1>1. Join(e, "Continue") = e
  BY Ranks DEF Join, Answers
<1>2. Decide(e, FALSE, incomplete) = Join(e, x)
  BY <1>1 DEF Decide
<1>3. x \in {"HoldEffect", "Continue"}
  OBVIOUS
<1> HIDE DEF x
<1>4. Join(e, x) = (IF Rank(e) >= Rank(x) THEN e ELSE x)
  BY DEF Join
<1>5. /\ Join(e, x) \in Answers
      /\ Rank(Join(e, x)) >= Rank(e)
      /\ Join(e, x) \in {"NarrowAuthority", "SuspendRun"} => Join(e, x) = e
  BY <1>3, <1>4, Ranks DEF Answers
<1> QED BY <1>2, <1>5, Zenon

\* Weights that the caps left alone once are left alone for any part of the members.
LEMMA CappedStay ==
  ASSUME NEW M, IsFiniteSet(M), NEW A \in [M -> Nat], NEW q, Weighted(q, M),
         \A m \in M : q.weight[m] = A[m] /\ A[m] <= q.caps.per_member,
         \A c : SumOver(A, CohortOf(q, M, c)) <= q.caps.per_cohort,
         NEW S \in SUBSET M
  PROVE  \A m \in S : Shares(q, S)[m] = A[m]
<1> DEFINE cohort == [m \in S |-> q.cohort[m]]
           w == [m \in S |-> q.weight[m]]
           C == ClippedWeights(w, q.caps)
<1>1. \A m \in S : A[m] \in Nat /\ w[m] = A[m] /\ A[m] <= q.caps.per_member
  OBVIOUS
<1>2. q.caps.per_member \in Nat /\ q.caps.per_cohort \in Nat
  BY DEF Weighted
<1>3. DOMAIN C = S /\ \A m \in S : C[m] = A[m]
  BY <1>1, <1>2 DEF ClippedWeights, Clipped
<1>4. DOMAIN cohort = S /\ DOMAIN w = S
  OBVIOUS
<1>5. Shares(q, S) = [m \in S |-> Admitted(C[m], SumOver(C, InCohort(cohort, cohort[m])), q.caps)]
  BY DEF Shares, AdmittedWeights
<1>6. ASSUME NEW c
      PROVE  SumOver(C, InCohort(cohort, c)) \in Nat
             /\ SumOver(C, InCohort(cohort, c)) <= q.caps.per_cohort
  <2> DEFINE I == InCohort(cohort, c)
             J == CohortOf(q, M, c)
  <2>1. I \in SUBSET J /\ J \in SUBSET M /\ I \in SUBSET S /\ I \in SUBSET M
    BY DEF InCohort, CohortOf
  <2>2. \A m \in M : A[m] \in Nat
    OBVIOUS
  <2>3. SumOver(A, J) <= q.caps.per_cohort
    OBVIOUS
  <2> HIDE DEF I, J, C, cohort
  <2>4. SumOver(A, I) \in Nat /\ SumOver(A, J) \in Nat /\ SumOver(A, I) <= SumOver(A, J)
    BY <2>1, <2>2, SumGrows
  <2>5. IsFiniteSet(I) /\ \A m \in I : C[m] \in Nat /\ C[m] = A[m]
    BY <1>1, <1>3, <2>1, FS_Subset
  <2>6. SumOver(C, I) = SumOver(A, I)
    BY <2>5, SumSame
  <2>7. SumOver(C, I) \in Nat /\ SumOver(C, I) <= q.caps.per_cohort
    BY <1>2, <2>3, <2>4, <2>6
  <2> QED BY <2>7 DEF I
<1> HIDE DEF C, cohort, w
<1>7. ASSUME NEW m \in S
      PROVE  Shares(q, S)[m] = A[m]
  <2> DEFINE x == SumOver(C, InCohort(cohort, cohort[m]))
  <2>1. x \in Nat /\ x <= q.caps.per_cohort
    BY <1>6
  <2>2. Shares(q, S)[m] = Admitted(C[m], x, q.caps)
    BY <1>5
  <2> HIDE DEF x
  <2>3. ~(x > q.caps.per_cohort)
    BY <1>2, <2>1
  <2> QED BY <1>3, <2>2, <2>3 DEF Admitted
<1> QED BY <1>7

\* The table to be promoted, with the weights that were measured.
Measured(weights) == [Table EXCEPT !.weight = weights]

\* The weights of policy q are A, which the caps leave alone and a word holds.
Capped(q, A) ==
  /\ A \in [Members -> Nat] /\ SumOver(A, Members) <= MaxWord
  /\ Cardinality(Members) <= MaxVotes
  /\ Weighted(q, Members)
  /\ \A m \in Members : q.weight[m] = A[m] /\ A[m] <= q.caps.per_member
  /\ \A c : SumOver(A, CohortOf(q, Members, c)) <= q.caps.per_cohort

\* promote_credibility stores such weights.
LEMMA PromotedFacts ==
  ASSUME NEW weights \in [Members -> Nat], NEW share, NEW generation \in Nat,
         PromotionAccepted(Table, weights, share, generation),
         NEW q, q = Promoted(Table, weights, share, generation),
         NEW A, A = Shares(Measured(weights), Members)
  PROVE  /\ Capped(q, A)
         /\ CongressPolicyValid(q)
         /\ q.members = Members
         /\ q.narrow_at \in Nat /\ q.suspend_at \in Nat /\ q.narrow_at < q.suspend_at
<1> DEFINE T == Measured(weights)
           t == TallyOf(T, Members, AllAllow, FALSE)
<1>0. IsFiniteSet(Members)
  BY RoundAssumption
<1>1. /\ Table \in TableValues /\ Table.members = Members
      /\ Table.weight \in [Members -> Nat]
      /\ Table.caps.per_member \in Nat /\ Table.caps.per_cohort \in Nat
      /\ Table.narrow_at \in Nat /\ Table.suspend_at \in Nat
  BY CredibilityAssumption DEF TableValues
<1>2. /\ T.weight = weights /\ T.cohort = Table.cohort /\ T.caps = Table.caps
  BY <1>1 DEF Measured, TableValues
<1>3. Weighted(T, Members)
  BY <1>1, <1>2 DEF Weighted
<1>4. [m \in Members |-> Recommendation(AllAllow[m])] = [m \in Members |-> "Permit"]
  BY DEF AllAllow, Recommendation
<1>5. reduce(VotesOf(Table.members, Table.cohort, [m \in Table.members |-> "Permit"]),
             [m \in Table.members |-> weights[m]], Table.caps, FALSE) = t
  BY <1>1, <1>2, <1>4 DEF TallyOf
<1>6. CongressPolicyValid(Table) /\ t.error = "None"
  BY <1>5 DEF PromotionAccepted
<1>7. generation # 0 /\ \A m \in Members : t.admitted_weights[m] > 0
  <2>1. generation > Table.generation /\ \A m \in Members : t.admitted_weights[m] > 0
    BY <1>1, <1>5 DEF PromotionAccepted
  <2> HIDE DEF t
  <2>2. Table.generation \in Nat
    BY <1>1 DEF TableValues
  <2>3. generation # 0
    BY <2>1, <2>2
  <2> QED BY <2>1, <2>3
<1>8. Cardinality(Members) <= MaxVotes /\ Table.narrow_at < Table.suspend_at
  BY <1>1, <1>6 DEF CongressPolicyValid
<1>9. Allowing(Members, AllAllow) = Members
  BY DEF Allowing, AllAllow
<1>10. t.admitted_weights = A /\ SumOver(A, Members) <= MaxWord
  BY <1>0, <1>3, <1>6, <1>8, <1>9, TallyFacts
<1>11. /\ A \in [Members -> Nat] /\ \A m \in Members : A[m] <= T.caps.per_member
       /\ \A c : SumOver(A, CohortOf(T, Members, c)) <= T.caps.per_cohort
  BY <1>0, <1>3, SharesFacts
<1> DEFINE W == [m \in DOMAIN Table.weight |->
                   IF m \in Table.members THEN t.admitted_weights[m] ELSE Table.weight[m]]
<1>12. q = [Table EXCEPT !.generation = generation, !.weight = W]
  BY <1>5 DEF Promoted
<1>13. W \in [Members -> Nat] /\ \A m \in Members : W[m] = A[m]
  BY <1>1, <1>10, <1>11
<1> HIDE DEF W, T, t
<1>14. /\ q.members = Members /\ q.cohort = Table.cohort /\ q.caps = Table.caps
       /\ q.narrow_at = Table.narrow_at /\ q.suspend_at = Table.suspend_at
       /\ q.weight = W /\ q.generation = generation
       /\ q.continue_minimum = Table.continue_minimum
       /\ q.continue_hold_maximum = Table.continue_hold_maximum
       /\ q.minimum_members = Table.minimum_members
       /\ q.minimum_cohorts = Table.minimum_cohorts
  BY <1>1, <1>12 DEF TableValues
<1>15. \A c : CohortOf(q, Members, c) = CohortOf(T, Members, c)
  BY <1>2, <1>14 DEF CohortOf
<1>16. Weighted(q, Members)
  BY <1>1, <1>13, <1>14 DEF Weighted
<1>17. CongressPolicyValid(q)
  <2>1. \A m \in Members : q.weight[m] > 0
    BY <1>7, <1>10, <1>13, <1>14
  <2> QED BY <1>1, <1>6, <1>7, <1>14, <2>1 DEF CongressPolicyValid
<1> QED BY <1>1, <1>2, <1>8, <1>10, <1>11, <1>13, <1>14, <1>15, <1>16, <1>17 DEF Capped

\* The members whose answers count against continuing.
Holding(outcome) == {m \in Members : outcome[m] = "Hold"}

Answered(outcome) == {m \in Members : outcome[m] # "Missing"}

\* evaluate_round under promoted weights: every member that holds counts for what it
\* always does.
LEMMA PromotedTally ==
  ASSUME NEW q, NEW A, Capped(q, A), NEW outcome \in Outcomes
  PROVE  /\ TallyOf(q, Answered(outcome), outcome, FALSE).error = "None"
         /\ TallyOf(q, Answered(outcome), outcome, FALSE).hold_weight =
              SumOver(A, Holding(outcome))
<1> USE DEF Capped
<1> DEFINE S == Answered(outcome)
           B == Shares(q, S)
           Y == Allowing(S, outcome)
           N == S \ Y
           t == TallyOf(q, S, outcome, FALSE)
<1>0. IsFiniteSet(Members)
  BY RoundAssumption
<1>1. S \in SUBSET Members /\ Y \in SUBSET S /\ N \in SUBSET S
  BY DEF Allowing, Answered
<1>2. N = Holding(outcome)
  BY DEF Allowing, Answered, Holding, Outcomes
<1> HIDE DEF S
<1>3. IsFiniteSet(S) /\ Cardinality(S) <= Cardinality(Members)
  BY <1>0, <1>1, FS_Subset
<1>4. Cardinality(S) \in Nat /\ Cardinality(Members) \in Nat /\ MaxVotes \in Nat /\ MaxWord \in Nat
  BY <1>0, <1>3, FS_CardinalityType, ReducerAssumption
<1>5. Cardinality(S) <= MaxVotes
  BY <1>3, <1>4
<1>6. Weighted(q, S)
  BY <1>1 DEF Weighted
<1>7. \A m \in S : B[m] = A[m]
  BY <1>0, <1>1, CappedStay
<1>8. \A m \in Members : A[m] \in Nat
  OBVIOUS
<1>9. ASSUME NEW X \in SUBSET S
      PROVE  SumOver(B, X) = SumOver(A, X) /\ SumOver(A, X) \in Nat /\ SumOver(A, X) <= MaxWord
  <2>1. X \in SUBSET Members /\ IsFiniteSet(X)
    BY <1>1, <1>3, FS_Subset
  <2>2. \A m \in X : B[m] \in Nat /\ B[m] = A[m]
    BY <1>7, <1>8, <2>1
  <2> HIDE DEF B
  <2>3. SumOver(B, X) = SumOver(A, X)
    BY <2>1, <2>2, SumSame
  <2> DEFINE M == Members
  <2>4. X \in SUBSET M /\ M \in SUBSET Members
    BY <2>1
  <2> HIDE DEF M
  <2>5. SumOver(A, X) \in Nat /\ SumOver(A, M) \in Nat /\ SumOver(A, X) <= SumOver(A, M)
    BY <1>0, <1>8, <2>4, SumGrows
  <2> QED BY <1>4, <2>3, <2>5 DEF M
<1>10. SumOver(B, Y) <= MaxWord /\ SumOver(B, N) <= MaxWord /\ SumOver(B, N) = SumOver(A, N)
  BY <1>1, <1>9
<1>11. /\ t.error = "None" <=> SumOver(B, Y) <= MaxWord /\ SumOver(B, N) <= MaxWord
       /\ t.error = "None" => t.hold_weight = SumOver(B, N)
  BY <1>3, <1>5, <1>6, TallyFacts
<1> QED BY <1>2, <1>10, <1>11 DEF S

\* evaluate_round, promote_credibility: under promoted weights every round is decided,
\* and a restriction of the run never relaxes as more members reveal.
THEOREM PromotedStaysRestricted == CredibilitySpec => []PromotedNeverRelaxes
<1>1. MeasureInv => PromotedNeverRelaxes
  <2> SUFFICES ASSUME MeasureInv, promotion # None, NEW early \in Outcomes, NEW late \in Outcomes
               PROVE  /\ Restriction(early) \in Consequences
                      /\ (\A h \in Members : early[h] \in {"Missing", late[h]}) =>
                           (Restriction(early) \in {"NarrowAuthority", "SuspendRun"} =>
                              Rank(Restriction(late)) >= Rank(Restriction(early)))
    BY DEF PromotedNeverRelaxes
  <2> DEFINE q == promotion.policy
  <2>1. PICK weights \in [Members -> Nat] :
          /\ PromotionAccepted(Table, weights, Requirements.share, Table.generation + 1)
          /\ q = Promoted(Table, weights, Requirements.share, Table.generation + 1)
    BY DEF MeasureInv, PromotionMade
  <2> DEFINE A == Shares(Measured(weights), Members)
  <2>2. Table.generation + 1 \in Nat
    BY CredibilityAssumption DEF TableValues
  <2> HIDE DEF q, A
  <2>3. /\ Capped(q, A) /\ CongressPolicyValid(q) /\ q.members = Members
        /\ q.narrow_at \in Nat /\ q.suspend_at \in Nat /\ q.narrow_at < q.suspend_at
    BY <2>1, <2>2, PromotedFacts DEF A
  <2> DEFINE t(o) == TallyOf(q, Answered(o), o, FALSE)
             e(o) == Empirical(q, t(o))
             Silent(o) == Absent(Transcript(o)) # {}
  <2>4. ASSUME NEW o \in Outcomes
        PROVE  /\ t(o).error = "None" /\ t(o).hold_weight = SumOver(A, Holding(o))
               /\ SumOver(A, Holding(o)) \in Nat
    <3>1. t(o).error = "None" /\ t(o).hold_weight = SumOver(A, Holding(o))
      BY <2>3, PromotedTally
    <3>2. Holding(o) \in SUBSET Members /\ IsFiniteSet(Members)
      BY RoundAssumption DEF Holding
    <3>3. SumOver(A, Holding(o)) \in Nat
      BY <2>3, <3>2, SumFacts DEF Capped
    <3> QED BY <3>1, <3>3
  <2>5. ASSUME NEW o \in Outcomes
        PROVE  Restriction(o) = Decide(e(o), FALSE, Silent(o) \/ FALSE)
    <3>1. /\ Transcript(o).phase = "Reveal" /\ Transcript(o).members = Members
          /\ Transcript(o).outcome = o
      BY DEF Transcript
    <3>2. {m \in Members : o[m] \notin {"Missing", "Abstain"}} = Answered(o)
      BY <2>5 DEF Outcomes, Answered
    <3>3. t(o).error = "None"
      BY <2>4, <2>5
    <3> QED BY <2>3, <3>1, <3>2, <3>3 DEF Restriction, EvaluateRound, q
  <2>6. /\ Restriction(early) = Decide(e(early), FALSE, Silent(early))
        /\ Restriction(late) = Decide(e(late), FALSE, Silent(late))
    BY <2>5
  <2>7. \A o : e(o) \in Answers
    BY DEF Empirical, Answers
  <2>8. Silent(early) \in BOOLEAN /\ Silent(late) \in BOOLEAN
    OBVIOUS
  <2>9. /\ Restriction(early) \in Answers /\ Restriction(late) \in Answers
        /\ Rank(Restriction(late)) >= Rank(e(late))
        /\ Restriction(early) \in {"NarrowAuthority", "SuspendRun"} =>
             Restriction(early) = e(early)
    <3> HIDE DEF e, Silent
    <3> QED BY <2>6, <2>7, <2>8, DecideFacts
  <2>10. Answers \subseteq Consequences
    BY DEF Answers, Consequences, Restrictions
  <2>11. ASSUME \A h \in Members : early[h] \in {"Missing", late[h]},
                Restriction(early) \in {"NarrowAuthority", "SuspendRun"}
         PROVE  Rank(Restriction(late)) >= Rank(Restriction(early))
    <3>1. SumOver(A, Holding(early)) <= SumOver(A, Holding(late))
      <4> DEFINE X == Holding(early)
                 Y == Holding(late)
      <4>1. X \in SUBSET Y /\ Y \in SUBSET Members
        BY <2>11 DEF Holding
      <4>2. IsFiniteSet(Members) /\ \A m \in Members : A[m] \in Nat
        BY <2>3, RoundAssumption DEF Capped
      <4> HIDE DEF X, Y
      <4>3. SumOver(A, X) <= SumOver(A, Y)
        BY <4>1, <4>2, SumGrows
      <4> QED BY <4>3 DEF X, Y
    <3> DEFINE x == t(early).hold_weight
               y == t(late).hold_weight
    <3>2. x \in Nat /\ y \in Nat /\ x <= y
      BY <2>4, <3>1
    <3>3. /\ y >= q.suspend_at => e(late) = "SuspendRun"
          /\ e(early) = "SuspendRun" => x >= q.suspend_at
          /\ e(early) = "NarrowAuthority" => x >= q.narrow_at
          /\ y >= q.narrow_at => e(late) \in {"NarrowAuthority", "SuspendRun"}
      BY DEF Empirical
    <3> HIDE DEF x, y, e, t, Silent
    <3>4. Restriction(early) = e(early)
      BY <2>9, <2>11
    <3>5. Rank(e(late)) >= Rank(e(early))
      BY <2>3, <2>11, <3>2, <3>3, <3>4, Ranks
    <3>6. \A c \in Answers : Rank(c) \in Nat
      BY Ranks DEF Answers
    <3> QED BY <2>7, <2>9, <3>4, <3>5, <3>6
  <2> QED BY <2>9, <2>10, <2>11
<1> QED BY <1>1, MeasureInvariant, PTL

=============================================================================
