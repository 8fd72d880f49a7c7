-------------------------- MODULE PersistentProofs --------------------------
(***************************************************************************)
(* Proofs about PersistentDelivery: no single event, no transaction of     *)
(* them and no failed replacement of the file takes an acknowledged fact   *)
(* back, sends an effect of an earlier owner, or uses the room kept for    *)
(* stopping.                                                               *)
(***************************************************************************)
EXTENDS PersistentDelivery, WellFoundedInduction, TLAPS

Answers == {"None", "Executed", "NotExecuted"}
Entries == [spec : Specs, attempt : Attempts, admitted : BOOLEAN]

Machines ==
  [stage : [Attempts -> Stages], spec : [Attempts -> Specs \cup {NoSpec}],
   reviewed : SUBSET Attempts, permits : SUBSET Attempts, envelopes : SUBSET Attempts,
   until : [Attempts -> Nat], sent : [Attempts -> Nat], known : [Attempts -> Answers],
   version : Nat, elapsed : Nat, clock_ready : BOOLEAN, epoch : Nat, fence : Nat,
   fenced : BOOLEAN, stopped : BOOLEAN, suspended : BOOLEAN,
   book : [Requests -> Entries \cup {NoRequest}]]

\* The stages of an attempt whose envelope has left the broker.
Departed == InFlight \cup {"IrrecoverablyUnknown", "Confirmed", "ConfirmedNotExecuted"}

\* The endpoint knows only of what was dispatched, and the broker settles only
\* what the endpoint said.
AttemptOk(m, a) ==
  /\ m.known[a] # "None" => m.stage[a] \in Departed
  /\ m.stage[a] = "Confirmed" => m.known[a] = "Executed"
  /\ m.stage[a] = "ConfirmedNotExecuted" => m.known[a] = "NotExecuted"
  /\ a \in m.envelopes => m.stage[a] \in Departed
  /\ m.until[a] # 0 => m.stage[a] \in Departed

MachineInv(m) == m \in Machines /\ \A a \in Attempts : AttemptOk(m, a)

\* A set of numbers up to a bound has a greatest member.
LEMMA BoundedMax ==
  ASSUME NEW N \in Nat, NEW S, S \subseteq 0..N, S # {}
  PROVE  Max(S) \in S /\ \A y \in S : Max(S) >= y
<1> DEFINE R == OpToRel(<, Nat)
           T == {N - x : x \in S}
<1>1. IsWellFoundedOn(R, Nat)
  BY NatLessThanWellFounded
<1>2. T \subseteq Nat /\ T # {}
  <2>1. PICK x \in S : TRUE
    OBVIOUS
  <2>2. N - x \in T
    OBVIOUS
  <2>3. \A y \in S : N - y \in Nat
    OBVIOUS
  <2> QED BY <2>2, <2>3
<1>3. \E x \in T : \A y \in T : ~ (<<y, x>> \in R)
  <2> HIDE DEF R, T
  <2> QED BY <1>1, <1>2, WFMin
<1>4. PICK x \in T : \A y \in T : ~ (<<y, x>> \in R)
  BY <1>3
<1>5. PICK z \in S : x = N - z
  BY <1>4
<1>6. ASSUME NEW y \in S
      PROVE  z >= y
  <2>1. N - y \in T
    OBVIOUS
  <2>2. ~ (<<N - y, x>> \in R)
    BY <2>1, <1>4
  <2>3. N - y \in Nat /\ x \in Nat
    BY <2>1, <1>2, <1>4
  <2>4. ~ (N - y < x)
    BY <2>2, <2>3 DEF OpToRel
  <2> QED BY <2>4, <1>5
<1> QED BY <1>5, <1>6 DEF Max

\* The attempt that a request is given is new: it is above every attempt in use.
LEMMA NextAttemptNew ==
  ASSUME NEW m \in Machines, NextAttempt(m) \in Attempts
  PROVE  m.stage[NextAttempt(m)] = "Absent"
<1> DEFINE used == {a \in Attempts : m.stage[a] # "Absent"}
           booked == {m.book[r].attempt : r \in {q \in Requests : m.book[q] # NoRequest}}
           S == {0} \cup used \cup booked
<1>1. MaxAttempts \in Nat
  BY PersistentAssumption
<1>2. booked \subseteq Attempts
  BY DEF Machines, Entries
<1>3. S \subseteq 0..MaxAttempts /\ S # {}
  BY <1>1, <1>2 DEF Attempts
<1>4. \A y \in S : Max(S) >= y
  <2> HIDE DEF S
  <2> QED BY <1>1, <1>3, BoundedMax
<1>5. Max(S) \in S
  <2> HIDE DEF S
  <2> QED BY <1>1, <1>3, BoundedMax
<1>6. NextAttempt(m) = 1 + Max(S)
  BY DEF NextAttempt
<1>7. Max(S) \in Nat
  <2> DEFINE top == Max(S)
  <2>1. top \in 0..MaxAttempts
    BY <1>5, <1>3
  <2> HIDE DEF top
  <2>2. top \in Nat
    BY <1>1, <2>1
  <2> QED BY <2>2 DEF top
<1>8. NextAttempt(m) \notin used
  <2>1. SUFFICES ASSUME NextAttempt(m) \in S PROVE FALSE
    OBVIOUS
  <2> HIDE DEF S
  <2> QED BY <2>1, <1>4, <1>6, <1>7
<1> QED BY <1>8

\* What an event may do to a machine: nothing that was said is taken back.
Advances(n, m) ==
  /\ m.stopped => n.stopped
  /\ \A r \in Requests : m.book[r] # NoRequest => n.book[r] = m.book[r]
  /\ \A a \in Attempts : m.known[a] # "None" => n.known[a] = m.known[a]
  /\ \A a \in Attempts : m.stage[a] \in Terminal => n.stage[a] = m.stage[a]

\* An effect runs only when an envelope is published, and envelopes are made by
\* dispatching.
SendsOnly(n, m, ev) ==
  /\ \A a \in Attempts : (m.known[a] # "Executed" /\ n.known[a] = "Executed") =>
       ev.kind = "Publish" /\ a \in m.envelopes
  /\ n.envelopes \subseteq m.envelopes
                            \cup (IF ev.kind = "Dispatch" THEN {ev.attempt} ELSE {})

\* The broker hears the truth: it settles only what the endpoint has answered.
LEMMA SettledGood ==
  ASSUME NEW m, MachineInv(m), NEW asked
  PROVE  /\ MachineInv(Settled(m, asked)) /\ Advances(Settled(m, asked), m)
         /\ Settled(m, asked).known = m.known
         /\ Settled(m, asked).envelopes = m.envelopes
<1> DEFINE n == Settled(m, asked)
<1>1. m \in Machines /\ \A a \in Attempts : AttemptOk(m, a)
  BY DEF MachineInv
<1>2. /\ n.known = m.known /\ n.envelopes = m.envelopes /\ n.until = m.until
      /\ n.stopped = m.stopped /\ n.book = m.book
  BY <1>1 DEF Settled, Machines
<1>3. \A a \in Attempts : n.stage[a] =
        IF a \notin asked \/ m.stage[a] \notin InFlight THEN m.stage[a]
        ELSE IF ~Retained(m, a) \/ m.known[a] = "None" THEN "Unknown"
        ELSE IF m.known[a] = "Executed" THEN "Confirmed" ELSE "ConfirmedNotExecuted"
  BY <1>1 DEF Settled, Machines
<1>4. n \in Machines
  BY <1>1 DEF Settled, Machines, Stages, Terminal, InFlight
<1> HIDE DEF n
<1>5. ASSUME NEW a \in Attempts
      PROVE  AttemptOk(n, a) /\ (m.stage[a] \in Terminal => n.stage[a] = m.stage[a])
  <2>1. AttemptOk(m, a) /\ m.known[a] \in Answers
    BY <1>1 DEF Machines
  <2>2. CASE a \notin asked \/ m.stage[a] \notin InFlight
    BY <2>1, <2>2, <1>2, <1>3 DEF AttemptOk
  <2>3. CASE a \in asked /\ m.stage[a] \in InFlight
    BY <2>1, <2>3, <1>2, <1>3 DEF AttemptOk, Departed, InFlight, Terminal, Answers
  <2> QED BY <2>2, <2>3
<1>6. MachineInv(n) /\ Advances(n, m)
  BY <1>2, <1>4, <1>5 DEF MachineInv, Advances
<1> QED BY <1>2, <1>6 DEF n

\* The endpoint refuses for good only what it can answer for and has not answered.
LEMMA ClosedGood ==
  ASSUME NEW m, MachineInv(m), NEW closing
  PROVE  /\ MachineInv(Closed(m, closing)) /\ Advances(Closed(m, closing), m)
         /\ Closed(m, closing).envelopes = m.envelopes
         /\ \A a \in Attempts : Closed(m, closing).known[a] \in {m.known[a], "NotExecuted"}
<1> DEFINE n == Closed(m, closing)
<1>1. m \in Machines /\ \A a \in Attempts : AttemptOk(m, a)
  BY DEF MachineInv
<1>2. /\ n.stage = m.stage /\ n.envelopes = m.envelopes /\ n.until = m.until
      /\ n.stopped = m.stopped /\ n.book = m.book
  BY <1>1 DEF Closed, Machines
<1>3. \A a \in Attempts : n.known[a] =
        IF a \in closing /\ Retained(m, a) /\ m.known[a] = "None"
          THEN "NotExecuted" ELSE m.known[a]
  BY <1>1 DEF Closed, Machines
<1>4. n \in Machines
  BY <1>1 DEF Closed, Machines, Answers
<1> HIDE DEF n
<1>5. ASSUME NEW a \in Attempts
      PROVE  AttemptOk(n, a) /\ (m.known[a] # "None" => n.known[a] = m.known[a])
  <2>1. AttemptOk(m, a) /\ m.until[a] \in Nat /\ m.elapsed \in Nat
    BY <1>1 DEF Machines
  <2>2. Retained(m, a) => m.until[a] # 0
    BY <2>1 DEF Retained
  <2> QED BY <2>1, <2>2, <1>2, <1>3 DEF AttemptOk
<1>6. MachineInv(n) /\ Advances(n, m)
  BY <1>2, <1>4, <1>5 DEF MachineInv, Advances
<1>7. \A a \in Attempts : n.known[a] \in {m.known[a], "NotExecuted"}
  BY <1>3
<1> QED BY <1>2, <1>6, <1>7 DEF n

\* Sealing, at the endpoint and then at the broker.
LEMMA SealedGood ==
  ASSUME NEW m, MachineInv(m), NEW closing, NEW asked,
         NEW ev, ev.kind \notin {"Publish", "Dispatch"}
  PROVE  LET n == Settled(Closed(m, closing), asked)
         IN  MachineInv(n) /\ Advances(n, m) /\ SendsOnly(n, m, ev)
<1> DEFINE c == Closed(m, closing)
           n == Settled(c, asked)
<1>1. /\ MachineInv(c) /\ Advances(c, m) /\ c.envelopes = m.envelopes
      /\ \A a \in Attempts : c.known[a] \in {m.known[a], "NotExecuted"}
  BY ClosedGood
<1>2. MachineInv(n) /\ Advances(n, c) /\ n.known = c.known /\ n.envelopes = c.envelopes
  <2> HIDE DEF c
  <2> QED BY <1>1, SettledGood
<1> HIDE DEF c, n
<1>3. Advances(n, m)
  BY <1>1, <1>2 DEF Advances
<1>4. SendsOnly(n, m, ev)
  BY <1>1, <1>2 DEF SendsOnly
<1> QED BY <1>2, <1>3, <1>4 DEF n, c

\* Withdrawing touches only work that never left, and marks what did unknown.
LEMMA WithdrawnGood ==
  ASSUME NEW m, MachineInv(m)
  PROVE  /\ MachineInv(Withdrawn(m)) /\ Advances(Withdrawn(m), m)
         /\ Withdrawn(m).known = m.known /\ Withdrawn(m).envelopes = {}
<1> DEFINE n == Withdrawn(m)
<1>1. m \in Machines /\ \A a \in Attempts : AttemptOk(m, a)
  BY DEF MachineInv
<1>2. /\ n.known = m.known /\ n.envelopes = {} /\ n.until = m.until
      /\ n.stopped = m.stopped /\ n.book = m.book
  BY <1>1 DEF Withdrawn, Machines
<1>3. \A a \in Attempts : n.stage[a] =
        IF m.stage[a] \in Undispatched THEN "Cancelled"
        ELSE IF m.stage[a] = "Dispatching" THEN "Unknown" ELSE m.stage[a]
  BY <1>1 DEF Withdrawn, Machines
<1>4. n \in Machines
  BY <1>1 DEF Withdrawn, Machines, Stages, Terminal, InFlight
<1> HIDE DEF n
<1>5. ASSUME NEW a \in Attempts
      PROVE  AttemptOk(n, a) /\ (m.stage[a] \in Terminal => n.stage[a] = m.stage[a])
  BY <1>1, <1>2, <1>3 DEF AttemptOk, Departed, InFlight, Terminal, Undispatched
<1>6. MachineInv(n) /\ Advances(n, m)
  BY <1>2, <1>4, <1>5 DEF MachineInv, Advances
<1> QED BY <1>2, <1>6 DEF n

\* What the invariant and the two relations read of a machine.
Alike(n, m) ==
  /\ n.stage = m.stage /\ n.known = m.known /\ n.until = m.until
  /\ n.envelopes \subseteq m.envelopes /\ n.book = m.book
  /\ m.stopped => n.stopped

\* A machine that differs in nothing else, or in fewer envelopes, is as good.
LEMMA AlikeGood ==
  ASSUME NEW m, MachineInv(m), NEW n \in Machines, Alike(n, m),
         NEW ev
  PROVE  MachineInv(n) /\ Advances(n, m) /\ SendsOnly(n, m, ev)
<1>1. \A a \in Attempts : AttemptOk(n, a)
  BY DEF MachineInv, AttemptOk, Alike
<1>2. Advances(n, m)
  BY DEF Advances, Alike
<1>3. SendsOnly(n, m, ev)
  BY DEF SendsOnly, Alike
<1> QED BY <1>1, <1>2, <1>3 DEF MachineInv

(* The machines that the events of After leave, by name.                   *)
Ticked(m, tick) == [m EXCEPT !.elapsed = tick, !.clock_ready = TRUE]
Proposed(m, a, spec, answer) == [m EXCEPT !.stage[a] = answer, !.spec[a] = spec]
Noted(m, a) == [m EXCEPT !.reviewed = @ \cup {a}]
Suspended(m) ==
  [m EXCEPT !.suspended = TRUE,
            !.stage = [b \in Attempts |->
               IF @[b] \in Undispatched THEN "Cancelled" ELSE @[b]]]
Authorized(m, a) == [m EXCEPT !.stage[a] = "Authorized", !.permits = @ \cup {a}]
Cancelled(m, a) == [m EXCEPT !.stage[a] = "Cancelled", !.permits = @ \ {a}]
Dispatched(m, a) ==
  [m EXCEPT !.stage[a] = "Dispatching", !.permits = @ \ {a},
            !.envelopes = @ \cup {a}, !.sent[a] = m.epoch,
            !.until[a] = m.elapsed + Retention]
Answered(m, a, v) == [m EXCEPT !.known[a] = Delivered(m, a), !.version = v]
Abandoned(m, a) ==
  [m EXCEPT !.stage[a] = "IrrecoverablyUnknown", !.envelopes = @ \ {a}]

Good(n, m, ev) == MachineInv(n) /\ Advances(n, m) /\ SendsOnly(n, m, ev)

\* Event::Fence cancels, marks unknown and recalls every envelope.
LEMMA FenceKeeps ==
  ASSUME NEW m, MachineInv(m), NEW ev
  PROVE  Good(Fenced(m), m, ev) /\ Fenced(m).envelopes = {}
<1> DEFINE w == Withdrawn(m)
           n == Fenced(m)
<1>1. /\ MachineInv(w) /\ Advances(w, m)
      /\ w.known = m.known /\ w.envelopes = {}
  BY WithdrawnGood
<1>2. m \in Machines /\ w \in Machines
  BY <1>1 DEF MachineInv
<1>3. n = [w EXCEPT !.epoch = @ + 1, !.fence = m.epoch + 1, !.fenced = TRUE,
                    !.clock_ready = FALSE]
  BY DEF Fenced
<1> HIDE DEF w, n
<1>4. n \in Machines
  <2>1. w.epoch + 1 \in Nat /\ m.epoch + 1 \in Nat
    BY <1>2 DEF Machines
  <2> QED BY <2>1, <1>2, <1>3 DEF Machines
<1>5. /\ n.stage = w.stage /\ n.known = w.known /\ n.until = w.until
      /\ n.envelopes = w.envelopes /\ n.book = w.book /\ n.stopped = w.stopped
  BY <1>2, <1>3 DEF Machines
<1>6. MachineInv(n) /\ Advances(n, w)
  BY <1>1, <1>4, <1>5, AlikeGood DEF Alike
<1>7. Advances(n, m) /\ SendsOnly(n, m, ev)
  BY <1>1, <1>5, <1>6 DEF Advances, SendsOnly
<1> QED BY <1>1, <1>5, <1>6, <1>7 DEF Good, n

\* apply_stop, the first time and again.
LEMMA StopKeeps ==
  ASSUME NEW m, MachineInv(m), NEW ev
  PROVE  Good(Stopped(m), m, ev) /\ Stopped(m).envelopes = {}
<1>0. m \in Machines
  BY DEF MachineInv
<1>1. CASE m.stopped
  <2> DEFINE n == [m EXCEPT !.permits = {}, !.envelopes = {}]
  <2>1. n \in Machines
    BY <1>0 DEF Machines
  <2>2. n.envelopes = {} /\ Alike(n, m)
    BY <1>0 DEF Machines, Alike
  <2>3. Stopped(m) = n
    BY <1>1 DEF Stopped
  <2> HIDE DEF n
  <2>4. Good(n, m, ev)
    BY <2>1, <2>2, AlikeGood DEF Good
  <2> QED BY <2>2, <2>3, <2>4
<1>2. CASE ~m.stopped
  <2> DEFINE w == Withdrawn(m)
             n == [w EXCEPT !.epoch = @ + 1, !.fenced = FALSE, !.stopped = TRUE]
  <2>1. /\ MachineInv(w) /\ Advances(w, m)
        /\ w.known = m.known /\ w.envelopes = {}
    BY WithdrawnGood
  <2>2. Stopped(m) = n
    BY <1>2 DEF Stopped
  <2>3. w \in Machines
    BY <2>1 DEF MachineInv
  <2> HIDE DEF w
  <2>4. n \in Machines
    <3>1. w.epoch + 1 \in Nat
      BY <2>3 DEF Machines
    <3> QED BY <3>1, <2>3 DEF Machines
  <2>5. /\ n.stage = w.stage /\ n.known = w.known /\ n.until = w.until
        /\ n.envelopes = w.envelopes /\ n.book = w.book /\ n.stopped
    BY <2>3 DEF Machines
  <2> HIDE DEF n
  <2>6. MachineInv(n) /\ Advances(n, w)
    BY <2>1, <2>4, <2>5, AlikeGood DEF Alike
  <2>7. Advances(n, m) /\ SendsOnly(n, m, ev)
    BY <2>1, <2>5, <2>6 DEF Advances, SendsOnly
  <2> QED BY <2>1, <2>2, <2>5, <2>6, <2>7 DEF Good
<1> QED BY <1>1, <1>2

\* Event::Time and the events of a request that leave the stages alone.
LEMMA TimeKeeps ==
  ASSUME NEW m, MachineInv(m), NEW ev, NEW tick \in Nat
  PROVE  Good(Ticked(m, tick), m, ev)
<1> DEFINE n == [m EXCEPT !.elapsed = tick, !.clock_ready = TRUE]
<1>1. n \in Machines
  BY DEF Machines, MachineInv
<1>2. Alike(n, m)
  BY DEF Machines, MachineInv, Alike
<1> HIDE DEF n
<1>3. Good(n, m, ev)
  BY <1>1, <1>2, AlikeGood DEF Good
<1> QED BY <1>3 DEF n, Ticked

\* apply_stop_progress: the fence is installed, then what is pending is sealed.
LEMMA StopProgressKeeps ==
  ASSUME NEW m, MachineInv(m), NEW ev, ev.kind = "StopProgress", NEW tick \in Nat
  PROVE  Good(StopProgressed(m, tick), m, ev)
<1> DEFINE now == [m EXCEPT !.elapsed = tick, !.clock_ready = TRUE,
                            !.fence = m.epoch, !.fenced = TRUE]
           n == Settled(Closed(now, Pending(now)), Pending(now))
<1>1. now \in Machines
  BY DEF Machines, MachineInv
<1>2. Alike(now, m)
  BY DEF Machines, MachineInv, Alike
<1>3. StopProgressed(m, tick) = n
  BY DEF StopProgressed
<1> HIDE DEF now
<1>4. MachineInv(now) /\ Advances(now, m) /\ SendsOnly(now, m, ev)
  BY <1>1, <1>2, AlikeGood
<1>5. MachineInv(n) /\ Advances(n, now) /\ SendsOnly(n, now, ev)
  BY <1>4, SealedGood
<1> HIDE DEF n
<1>6. Advances(n, m) /\ SendsOnly(n, m, ev)
  BY <1>4, <1>5, <1>2 DEF Advances, SendsOnly, Alike
<1> QED BY <1>3, <1>5, <1>6 DEF Good

\* One attempt, not yet departed, is given a stage it may have before departing;
\* stages is the function with that change.
LEMMA RestagedGood ==
  ASSUME NEW m, MachineInv(m), NEW n \in Machines, NEW a \in Attempts, NEW ev,
         m.stage[a] \in Undispatched \cup {"Absent"},
         NEW to \in Undispatched \cup {"Denied", "Cancelled"},
         \A b \in Attempts \ {a} : n.stage[b] = m.stage[b],
         n.stage[a] = to,
         n.known = m.known, n.until = m.until, n.envelopes = m.envelopes,
         n.stopped = m.stopped,
         \A r \in Requests : m.book[r] # NoRequest => n.book[r] = m.book[r]
  PROVE  Good(n, m, ev)
<1>1. \A b \in Attempts : AttemptOk(m, b)
  BY DEF MachineInv
<1>2. ASSUME NEW b \in Attempts
      PROVE  AttemptOk(n, b) /\ (m.stage[b] \in Terminal => n.stage[b] = m.stage[b])
  <2>1. CASE b # a
    BY <1>1, <2>1 DEF AttemptOk
  <2>2. CASE b = a
    <3>1. m.stage[a] \notin Departed /\ m.stage[a] \notin Terminal
      BY DEF Departed, Terminal, Undispatched, InFlight
    <3>2. m.known[a] = "None" /\ a \notin m.envelopes /\ m.until[a] = 0
      BY <1>1, <3>1 DEF AttemptOk
    <3>3. to # "Confirmed" /\ to # "ConfirmedNotExecuted"
      BY DEF Undispatched
    <3> QED BY <2>2, <3>1, <3>2, <3>3 DEF AttemptOk
  <2> QED BY <2>1, <2>2
<1>3. MachineInv(n) /\ Advances(n, m) /\ SendsOnly(n, m, ev)
  BY <1>2 DEF MachineInv, Advances, SendsOnly
<1> QED BY <1>3 DEF Good

\* Event::Propose.
LEMMA ProposeKeeps ==
  ASSUME NEW m, MachineInv(m), NEW a \in Attempts, NEW spec \in Specs,
         NEW answer \in {"Reviewing", "Denied"}, m.stage[a] = "Absent", NEW ev
  PROVE  Good(Proposed(m, a, spec, answer), m, ev)
<1> DEFINE n == [m EXCEPT !.stage[a] = answer, !.spec[a] = spec]
<1>0. m \in Machines
  BY DEF MachineInv
<1>1. n \in Machines
  BY <1>0 DEF Machines, Stages, Undispatched, Terminal
<1>2. /\ n.known = m.known /\ n.until = m.until /\ n.envelopes = m.envelopes
      /\ n.stopped = m.stopped /\ n.book = m.book
  BY <1>0 DEF Machines
<1>3. n.stage[a] = answer /\ \A b \in Attempts \ {a} : n.stage[b] = m.stage[b]
  BY <1>0 DEF Machines
<1> HIDE DEF n
<1>4. answer \in Undispatched \cup {"Denied", "Cancelled"}
  BY DEF Undispatched
<1>5. m.stage[a] \in Undispatched \cup {"Absent"}
  OBVIOUS
<1>6. Good(n, m, ev)
  BY <1>1, <1>2, <1>3, <1>4, <1>5, RestagedGood
<1> QED BY <1>6 DEF n, Proposed

\* Event::SubmitRequest: the key is bound for good, and the attempt is a new one.
LEMMA SubmitKeeps ==
  ASSUME NEW m, MachineInv(m), NEW ev, ev.kind = "SubmitRequest",
         ev.request \in Requests, ev.spec \in Specs,
         ev.answer \in {"Reviewing", "Denied", "Refused"}, Applies(m, ev)
  PROVE  Good(After(m, ev), m, ev)
<1> DEFINE a == NextAttempt(m)
           entry == [spec |-> ev.spec, attempt |-> a, admitted |-> ev.answer # "Refused"]
           noted == [m EXCEPT !.book[ev.request] = entry]
           n == [noted EXCEPT !.stage[a] = ev.answer, !.spec[a] = ev.spec]
<1>0. m \in Machines
  BY DEF MachineInv
<1>1. m.book[ev.request] = NoRequest /\ a \in Attempts
  BY DEF Applies
<1>2. m.stage[a] = "Absent"
  BY <1>0, <1>1, NextAttemptNew
<1>3. After(m, ev) = IF ev.answer = "Refused" THEN noted ELSE n
  BY DEF After
<1> HIDE DEF a
<1>4. entry \in Entries
  BY <1>1 DEF Entries
<1> HIDE DEF entry
<1>5. noted \in Machines
  BY <1>0, <1>4 DEF Machines
<1>6. /\ noted.stage = m.stage /\ noted.known = m.known /\ noted.until = m.until
      /\ noted.envelopes = m.envelopes /\ noted.stopped = m.stopped
  BY <1>0 DEF Machines
<1>7. \A r \in Requests : m.book[r] # NoRequest => noted.book[r] = m.book[r]
  BY <1>0, <1>1 DEF Machines
<1> HIDE DEF noted
<1>8. CASE ev.answer = "Refused"
  <2>1. \A b \in Attempts : AttemptOk(noted, b)
    BY <1>6 DEF MachineInv, AttemptOk
  <2>2. Good(noted, m, ev)
    BY <2>1, <1>5, <1>6, <1>7 DEF Good, MachineInv, Advances, SendsOnly
  <2> QED BY <2>2, <1>3, <1>8
<1>9. CASE ev.answer # "Refused"
  <2>1. n \in Machines
    BY <1>5, <1>1, <1>9 DEF Machines, Stages, Undispatched, Terminal
  <2>2. /\ n.known = noted.known /\ n.until = noted.until /\ n.envelopes = noted.envelopes
        /\ n.stopped = noted.stopped /\ n.book = noted.book
    BY <1>5 DEF Machines
  <2>3. n.stage[a] = ev.answer /\ \A b \in Attempts \ {a} : n.stage[b] = noted.stage[b]
    BY <1>5, <1>1 DEF Machines
  <2> HIDE DEF n
  <2>4. ev.answer \in Undispatched \cup {"Denied", "Cancelled"}
    BY <1>9 DEF Undispatched
  <2>5. m.stage[a] \in Undispatched \cup {"Absent"}
    BY <1>2
  <2>6. /\ \A b \in Attempts \ {a} : n.stage[b] = m.stage[b]
        /\ n.known = m.known /\ n.until = m.until /\ n.envelopes = m.envelopes
        /\ n.stopped = m.stopped
        /\ \A r \in Requests : m.book[r] # NoRequest => n.book[r] = m.book[r]
    BY <2>2, <2>3, <1>6, <1>7
  <2>7. Good(n, m, ev)
    BY <1>1, <2>1, <2>3, <2>4, <2>5, <2>6, RestagedGood
  <2> QED BY <2>7, <1>3, <1>9
<1> QED BY <1>8, <1>9

\* Event::Review: a note, or every attempt that has not left is cancelled.
LEMMA ReviewKeeps ==
  ASSUME NEW m, MachineInv(m), NEW a \in Attempts, NEW ev
  PROVE  Good(Noted(m, a), m, ev) /\ Good(Suspended(m), m, ev)
<1>0. m \in Machines /\ \A b \in Attempts : AttemptOk(m, b)
  BY DEF MachineInv
<1>1. Good(Noted(m, a), m, ev)
  <2> DEFINE n == [m EXCEPT !.reviewed = @ \cup {a}]
  <2>1. n \in Machines
    BY <1>0 DEF Machines
  <2>2. Alike(n, m)
    BY <1>0 DEF Machines, Alike
  <2> HIDE DEF n
  <2>3. Good(n, m, ev)
    BY <2>1, <2>2, AlikeGood DEF Good
  <2> QED BY <2>3 DEF n, Noted
<1> DEFINE n == [m EXCEPT !.suspended = TRUE,
                           !.stage = [b \in Attempts |->
                              IF @[b] \in Undispatched THEN "Cancelled" ELSE @[b]]]
<1>2. n \in Machines
  BY <1>0 DEF Machines, Stages, Terminal
<1>3. /\ n.known = m.known /\ n.until = m.until /\ n.envelopes = m.envelopes
      /\ n.stopped = m.stopped /\ n.book = m.book
  BY <1>0 DEF Machines
<1>4. \A b \in Attempts : n.stage[b] =
        IF m.stage[b] \in Undispatched THEN "Cancelled" ELSE m.stage[b]
  BY <1>0 DEF Machines
<1> HIDE DEF n
<1>5. ASSUME NEW b \in Attempts
      PROVE  AttemptOk(n, b) /\ (m.stage[b] \in Terminal => n.stage[b] = m.stage[b])
  BY <1>0, <1>3, <1>4 DEF AttemptOk, Departed, InFlight, Terminal, Undispatched
<1>6. Good(n, m, ev)
  BY <1>2, <1>3, <1>5 DEF Good, MachineInv, Advances, SendsOnly
<1> QED BY <1>1, <1>6 DEF n, Suspended

\* Event::Authorize and Event::Cancel.
LEMMA AuthorizeKeeps ==
  ASSUME NEW m, MachineInv(m), NEW a \in Attempts, m.stage[a] \in Undispatched, NEW ev
  PROVE  Good(Authorized(m, a), m, ev) /\ Good(Cancelled(m, a), m, ev)
<1>0. m \in Machines
  BY DEF MachineInv
<1>1. ASSUME NEW to \in Undispatched \cup {"Denied", "Cancelled"}, NEW p \in SUBSET Attempts
      PROVE  Good([m EXCEPT !.stage[a] = to, !.permits = p], m, ev)
  <2> DEFINE n == [m EXCEPT !.stage[a] = to, !.permits = p]
  <2>1. n \in Machines
    BY <1>0 DEF Machines, Stages, Undispatched, Terminal
  <2>2. /\ n.known = m.known /\ n.until = m.until /\ n.envelopes = m.envelopes
        /\ n.stopped = m.stopped /\ n.book = m.book
    BY <1>0 DEF Machines
  <2>3. n.stage[a] = to /\ \A b \in Attempts \ {a} : n.stage[b] = m.stage[b]
    BY <1>0 DEF Machines
  <2> HIDE DEF n
  <2>4. m.stage[a] \in Undispatched \cup {"Absent"}
    OBVIOUS
  <2>5. Good(n, m, ev)
    BY <2>1, <2>2, <2>3, <2>4, RestagedGood
  <2> QED BY <2>5 DEF n
<1>2. /\ m.permits \cup {a} \in SUBSET Attempts
      /\ m.permits \ {a} \in SUBSET Attempts
  BY <1>0 DEF Machines
<1>3. "Authorized" \in Undispatched
  BY DEF Undispatched
<1>4. Good([m EXCEPT !.stage[a] = "Authorized", !.permits = m.permits \cup {a}], m, ev)
  BY <1>1, <1>2, <1>3
<1>5. Good([m EXCEPT !.stage[a] = "Cancelled", !.permits = m.permits \ {a}], m, ev)
  BY <1>1, <1>2
<1> QED BY <1>4, <1>5 DEF Authorized, Cancelled

\* Event::Dispatch: the only event that makes an envelope.
LEMMA DispatchKeeps ==
  ASSUME NEW m, MachineInv(m), NEW a \in Attempts, m.stage[a] = "Authorized",
         NEW ev, ev.kind = "Dispatch", ev.attempt = a
  PROVE  Good(Dispatched(m, a), m, ev)
<1> DEFINE n == [m EXCEPT !.stage[a] = "Dispatching", !.permits = @ \ {a},
                          !.envelopes = @ \cup {a}, !.sent[a] = m.epoch,
                          !.until[a] = m.elapsed + Retention]
<1>0. m \in Machines /\ \A b \in Attempts : AttemptOk(m, b)
  BY DEF MachineInv
<1>1. m.elapsed + Retention \in Nat
  <2>1. Retention \in Nat
    BY PersistentAssumption
  <2> QED BY <2>1, <1>0 DEF Machines
<1>2. n \in Machines
  BY <1>0, <1>1 DEF Machines, Stages, InFlight
<1>3. /\ n.known = m.known /\ n.envelopes = m.envelopes \cup {a}
      /\ n.stopped = m.stopped /\ n.book = m.book
  BY <1>0 DEF Machines
<1>4. n.stage[a] = "Dispatching" /\ \A b \in Attempts \ {a} : n.stage[b] = m.stage[b]
  BY <1>0 DEF Machines
<1>5. \A b \in Attempts \ {a} : n.until[b] = m.until[b]
  BY <1>0 DEF Machines
<1> HIDE DEF n
<1>6. ASSUME NEW b \in Attempts
      PROVE  AttemptOk(n, b) /\ (m.stage[b] \in Terminal => n.stage[b] = m.stage[b])
  <2>1. CASE b # a
    BY <2>1, <1>0, <1>3, <1>4, <1>5 DEF AttemptOk
  <2>2. CASE b = a
    <3>1. n.stage[a] \in Departed /\ m.stage[a] \notin Terminal
      BY <1>4 DEF Departed, InFlight, Terminal
    <3> QED BY <2>2, <3>1, <1>4 DEF AttemptOk
  <2> QED BY <2>1, <2>2
<1>7. Good(n, m, ev)
  BY <1>2, <1>3, <1>6 DEF Good, MachineInv, Advances, SendsOnly
<1> QED BY <1>7 DEF n, Dispatched

\* Event::Publish: the endpoint answers once, and only for an envelope.
LEMMA PublishKeeps ==
  ASSUME NEW m, MachineInv(m), NEW a \in Attempts, a \in m.envelopes,
         m.known[a] = "None", NEW ev, ev.kind = "Publish",
         NEW v \in Nat
  PROVE  Good(Answered(m, a, v), m, ev)
<1> DEFINE n == [m EXCEPT !.known[a] = Delivered(m, a), !.version = v]
<1>0. m \in Machines /\ \A b \in Attempts : AttemptOk(m, b)
  BY DEF MachineInv
<1>1. Delivered(m, a) \in Answers
  BY DEF Delivered, Answers
<1>2. n \in Machines
  BY <1>0, <1>1 DEF Machines
<1>3. /\ n.stage = m.stage /\ n.until = m.until /\ n.envelopes = m.envelopes
      /\ n.stopped = m.stopped /\ n.book = m.book
  BY <1>0 DEF Machines
<1>4. \A b \in Attempts \ {a} : n.known[b] = m.known[b]
  BY <1>0 DEF Machines
<1> HIDE DEF n
<1>5. ASSUME NEW b \in Attempts
      PROVE  AttemptOk(n, b) /\ (m.known[b] # "None" => n.known[b] = m.known[b])
  <2>1. CASE b # a
    BY <2>1, <1>0, <1>3, <1>4 DEF AttemptOk
  <2>2. CASE b = a
    BY <2>2, <1>0, <1>3 DEF AttemptOk
  <2> QED BY <2>1, <2>2
<1>6. Good(n, m, ev)
  BY <1>2, <1>3, <1>4, <1>5 DEF Good, MachineInv, Advances, SendsOnly
<1> QED BY <1>6 DEF n, Answered

\* Event::AbandonUnknown: the attempt stays departed, and its envelope is dropped.
LEMMA AbandonKeeps ==
  ASSUME NEW m, MachineInv(m), NEW a \in Attempts, m.stage[a] = "Unknown", NEW ev
  PROVE  Good(Abandoned(m, a), m, ev)
<1> DEFINE n == [m EXCEPT !.stage[a] = "IrrecoverablyUnknown", !.envelopes = @ \ {a}]
<1>0. m \in Machines /\ \A b \in Attempts : AttemptOk(m, b)
  BY DEF MachineInv
<1>1. n \in Machines
  BY <1>0 DEF Machines, Stages
<1>2. /\ n.known = m.known /\ n.until = m.until /\ n.envelopes = m.envelopes \ {a}
      /\ n.stopped = m.stopped /\ n.book = m.book
  BY <1>0 DEF Machines
<1>3. n.stage[a] = "IrrecoverablyUnknown" /\ \A b \in Attempts \ {a} : n.stage[b] = m.stage[b]
  BY <1>0 DEF Machines
<1> HIDE DEF n
<1>4. ASSUME NEW b \in Attempts
      PROVE  AttemptOk(n, b) /\ (m.stage[b] \in Terminal => n.stage[b] = m.stage[b])
  <2>1. CASE b # a
    BY <2>1, <1>0, <1>2, <1>3 DEF AttemptOk
  <2>2. CASE b = a
    BY <2>2, <1>3 DEF AttemptOk, Departed, Terminal
  <2> QED BY <2>1, <2>2
<1>5. Good(n, m, ev)
  BY <1>1, <1>2, <1>4 DEF Good, MachineInv, Advances, SendsOnly
<1> QED BY <1>5 DEF n, Abandoned

\* The fields that an event of each kind has.
LEMMA EventFields ==
  ASSUME NEW ev \in Events
  PROVE  /\ ev.kind \in {"Time", "StopProgress"} => ev.tick \in Ticks
         /\ ev.kind = "Propose" =>
              ev.attempt \in Attempts /\ ev.spec \in Specs /\ ev.answer \in {"Reviewing", "Denied"}
         /\ ev.kind = "SubmitRequest" =>
              /\ ev.request \in Requests /\ ev.spec \in Specs
              /\ ev.answer \in {"Reviewing", "Denied", "Refused"}
         /\ ev.kind = "Review" => ev.attempt \in Attempts
         /\ ev.kind \in {"Authorize", "Dispatch", "Publish", "Reconcile", "Seal", "Cancel",
                         "AbandonUnknown"} => ev.attempt \in Attempts
         /\ ev.kind \in {"Fence", "Sweep", "Stop", "ReserveRecovery", "Time", "StopProgress",
                         "Propose", "SubmitRequest", "Review", "Authorize", "Dispatch",
                         "Publish", "Reconcile", "Seal", "Cancel", "AbandonUnknown"}
<1>1. CASE ev \in [kind : {"Fence", "Sweep", "Stop", "ReserveRecovery"}]
  BY <1>1
<1>2. CASE ev \in [kind : {"Time", "StopProgress"}, tick : Ticks]
  BY <1>2
<1>3. CASE ev \in [kind : {"Propose"}, attempt : Attempts, spec : Specs,
                   answer : {"Reviewing", "Denied"}]
  BY <1>3
<1>4. CASE ev \in [kind : {"SubmitRequest"}, request : Requests, spec : Specs,
                   answer : {"Reviewing", "Denied", "Refused"}]
  BY <1>4
<1>5. CASE ev \in [kind : {"Review"}, attempt : Attempts, outcome : {"Continue", "SuspendRun"}]
  BY <1>5
<1>6. CASE ev \in [kind : {"Authorize", "Dispatch", "Publish", "Reconcile", "Seal", "Cancel",
                           "AbandonUnknown"}, attempt : Attempts]
  BY <1>6
<1> QED BY <1>1, <1>2, <1>3, <1>4, <1>5, <1>6 DEF Events

\* The events of whole-process recovery and of the clock.
LEMMA RecoveryKeeps ==
  ASSUME NEW m, MachineInv(m), NEW ev \in Events, Applies(m, ev),
         ev.kind \in {"Fence", "ReserveRecovery", "Stop", "Time", "StopProgress", "Sweep"}
  PROVE  Good(After(m, ev), m, ev)
<1>0. Ticks \subseteq Nat
  BY PersistentAssumption
<1>1. CASE ev.kind = "Fence"
  <2>1. After(m, ev) = Fenced(m)
    BY <1>1 DEF After
  <2> QED BY <2>1, FenceKeeps
<1>2. CASE ev.kind = "ReserveRecovery"
  <2>1. After(m, ev) = m
    BY <1>2 DEF After
  <2>2. m \in Machines /\ Alike(m, m)
    BY DEF MachineInv, Alike
  <2> QED BY <2>1, <2>2, AlikeGood DEF Good
<1>3. CASE ev.kind = "Stop"
  <2>1. After(m, ev) = Stopped(m)
    BY <1>3 DEF After
  <2> QED BY <2>1, StopKeeps
<1>4. CASE ev.kind = "Time"
  <2>1. After(m, ev) = Ticked(m, ev.tick)
    BY <1>4 DEF After, Ticked
  <2>2. ev.tick \in Nat
    BY <1>0, <1>4, EventFields
  <2> QED BY <2>1, <2>2, TimeKeeps
<1>5. CASE ev.kind = "StopProgress"
  <2>1. After(m, ev) = StopProgressed(m, ev.tick)
    BY <1>5 DEF After
  <2>2. ev.tick \in Nat
    BY <1>0, <1>5, EventFields
  <2> QED BY <1>5, <2>1, <2>2, StopProgressKeeps
<1>6. CASE ev.kind = "Sweep"
  <2> DEFINE closing == {a \in Pending(m) : Expired(m, a)}
  <2>1. After(m, ev) = Settled(Closed(m, closing), Pending(m))
    BY <1>6 DEF After
  <2> HIDE DEF closing
  <2>2. ev.kind \notin {"Publish", "Dispatch"}
    BY <1>6
  <2> QED BY <2>1, <2>2, SealedGood DEF Good
<1> QED BY <1>1, <1>2, <1>3, <1>4, <1>5, <1>6

\* The events of one attempt.
LEMMA WorkKeeps ==
  ASSUME NEW m, MachineInv(m), NEW ev \in Events, Applies(m, ev),
         ev.kind \in {"Propose", "Review", "Authorize", "Dispatch", "Publish",
                      "Reconcile", "Seal", "Cancel", "AbandonUnknown"}
  PROVE  Good(After(m, ev), m, ev)
<1> DEFINE a == ev.attempt
<1>0. a \in Attempts /\ m \in Machines
  BY EventFields DEF MachineInv
<1>1. CASE ev.kind = "Propose"
  <2>1. After(m, ev) = Proposed(m, a, ev.spec, ev.answer)
    BY <1>1 DEF After, Proposed
  <2>2. ev.spec \in Specs /\ ev.answer \in {"Reviewing", "Denied"}
    BY <1>1, EventFields
  <2>3. m.stage[a] = "Absent"
    BY <1>1 DEF Applies
  <2> HIDE DEF a
  <2> QED BY <1>0, <2>1, <2>2, <2>3, ProposeKeeps
<1>2. CASE ev.kind = "Review"
  <2>1. After(m, ev) = IF ev.outcome = "Continue" THEN Noted(m, a) ELSE Suspended(m)
    BY <1>2 DEF After, Noted, Suspended
  <2> HIDE DEF a
  <2>2. CASE ev.outcome = "Continue"
    BY <1>0, <2>1, <2>2, ReviewKeeps
  <2>3. CASE ev.outcome # "Continue"
    BY <1>0, <2>1, <2>3, ReviewKeeps
  <2> QED BY <2>2, <2>3
<1>3. CASE ev.kind = "Authorize"
  <2>1. After(m, ev) = Authorized(m, a)
    BY <1>3 DEF After, Authorized
  <2>2. m.stage[a] \in Undispatched
    BY <1>3 DEF Applies, Undispatched
  <2> HIDE DEF a
  <2> QED BY <1>0, <2>1, <2>2, AuthorizeKeeps
<1>4. CASE ev.kind = "Cancel"
  <2>1. After(m, ev) = Cancelled(m, a)
    BY <1>4 DEF After, Cancelled
  <2>2. m.stage[a] \in Undispatched
    BY <1>4 DEF Applies
  <2> HIDE DEF a
  <2> QED BY <1>0, <2>1, <2>2, AuthorizeKeeps
<1>5. CASE ev.kind = "Dispatch"
  <2>1. After(m, ev) = Dispatched(m, a)
    BY <1>5 DEF After, Dispatched
  <2>2. m.stage[a] = "Authorized" /\ ev.attempt = a
    BY <1>5 DEF Applies
  <2> HIDE DEF a
  <2> QED BY <1>0, <1>5, <2>1, <2>2, DispatchKeeps
<1>6. CASE ev.kind = "Publish"
  <2>1. After(m, ev) =
          IF m.known[a] # "None" THEN m
          ELSE [m EXCEPT !.known[a] = Delivered(m, a),
                         !.version = IF Delivered(m, a) = "Executed" THEN @ + 1 ELSE @]
    BY <1>6 DEF After
  <2>2. a \in m.envelopes
    BY <1>6 DEF Applies
  <2> HIDE DEF a
  <2>3. CASE m.known[a] # "None"
    <3>1. Alike(m, m)
      BY DEF Alike
    <3> QED BY <1>0, <2>1, <2>3, <3>1, AlikeGood DEF Good
  <2>4. CASE m.known[a] = "None"
    <3> DEFINE v == IF Delivered(m, a) = "Executed" THEN m.version + 1 ELSE m.version
    <3>1. v \in Nat
      BY <1>0 DEF Machines
    <3>2. After(m, ev) = Answered(m, a, v)
      BY <2>1, <2>4 DEF Answered
    <3> HIDE DEF v
    <3> QED BY <1>0, <1>6, <2>2, <2>4, <3>1, <3>2, PublishKeeps
  <2> QED BY <2>3, <2>4
<1>7. CASE ev.kind = "Reconcile"
  <2> DEFINE asked == {a}
             n == Settled(m, asked)
  <2>1. After(m, ev) = n
    BY <1>7 DEF After
  <2> HIDE DEF asked
  <2>2. MachineInv(n) /\ Advances(n, m) /\ n.known = m.known /\ n.envelopes = m.envelopes
    BY SettledGood
  <2> HIDE DEF n
  <2>3. SendsOnly(n, m, ev)
    BY <2>2 DEF SendsOnly
  <2> QED BY <2>1, <2>2, <2>3 DEF Good
<1>8. CASE ev.kind = "Seal"
  <2> DEFINE asked == {a}
  <2>1. After(m, ev) = Settled(Closed(m, asked), asked)
    BY <1>8 DEF After
  <2> HIDE DEF asked
  <2>2. ev.kind \notin {"Publish", "Dispatch"}
    BY <1>8
  <2> QED BY <2>1, <2>2, SealedGood DEF Good
<1>9. CASE ev.kind = "AbandonUnknown"
  <2>1. After(m, ev) = Abandoned(m, a)
    BY <1>9 DEF After, Abandoned
  <2>2. m.stage[a] = "Unknown"
    BY <1>9 DEF Applies
  <2> HIDE DEF a
  <2> QED BY <1>0, <2>1, <2>2, AbandonKeeps
<1> QED BY <1>1, <1>2, <1>3, <1>4, <1>5, <1>6, <1>7, <1>8, <1>9

\* Every event that apply accepts keeps the invariant, takes nothing back and
\* runs an effect only from an envelope.
LEMMA AfterKeeps ==
  ASSUME NEW m, MachineInv(m), NEW ev \in Events, Applies(m, ev)
  PROVE  Good(After(m, ev), m, ev)
<1>1. CASE ev.kind = "SubmitRequest"
  <2>1. /\ ev.request \in Requests /\ ev.spec \in Specs
        /\ ev.answer \in {"Reviewing", "Denied", "Refused"}
    BY <1>1, EventFields
  <2> QED BY <1>1, <2>1, SubmitKeeps
<1>2. CASE ev.kind \in {"Fence", "ReserveRecovery", "Stop", "Time", "StopProgress", "Sweep"}
  BY <1>2, RecoveryKeeps
<1>3. CASE ev.kind \in {"Propose", "Review", "Authorize", "Dispatch", "Publish",
                        "Reconcile", "Seal", "Cancel", "AbandonUnknown"}
  BY <1>3, WorkKeeps
<1> QED BY <1>1, <1>2, <1>3, EventFields

-----------------------------------------------------------------------------
(* Journals.                                                               *)

JournalRecord ==
  [machine : Machines, count : Nat, reserve : BOOLEAN, started : BOOLEAN,
   last : {"Install", "Bootstrap", "Recovery", "Work"}]

\* A reserve is large enough, and nothing but recovery has used it.
ReserveOk(j) ==
  j.reserve => /\ Reserve >= 3 /\ Reserve < MaxEvents
               /\ j.last # "Recovery" => j.count <= MaxEvents - Reserve

JournalInv(j) == j \in JournalRecord /\ MachineInv(j.machine) /\ ReserveOk(j)

\* The journal of a new owner.
LEMMA NewJournalGood == JournalInv(NewJournal)
<1>1. StartVersion \in Nat
  BY PersistentAssumption
<1>2. NewMachine \in Machines
  BY <1>1 DEF NewMachine, Machines, Stages, Answers
<1>3. \A a \in Attempts : AttemptOk(NewMachine, a)
  BY DEF NewMachine, AttemptOk
<1>4. NewJournal.machine = NewMachine /\ NewJournal.reserve = FALSE
  BY DEF NewJournal
<1>5. NewJournal \in JournalRecord
  BY <1>2 DEF NewJournal, JournalRecord
<1> QED BY <1>2, <1>3, <1>4, <1>5 DEF JournalInv, MachineInv, ReserveOk

\* Nothing is taken back by nothing, nor by two steps that take nothing back.
LEMMA ExtendsOrder ==
  ASSUME NEW i, NEW j, NEW k, JournalInv(i), JournalInv(j), JournalInv(k)
  PROVE  /\ Extends(j, j)
         /\ Extends(k, j) /\ Extends(j, i) => Extends(k, i)
<1>1. i.count \in Nat /\ j.count \in Nat /\ k.count \in Nat
  BY DEF JournalInv, JournalRecord
<1>2. Extends(j, j)
  BY <1>1 DEF Extends
<1>3. ASSUME Extends(k, j), Extends(j, i)
      PROVE  Extends(k, i)
  <2>1. k.count >= i.count
    BY <1>1, <1>3 DEF Extends
  <2> QED BY <1>3, <2>1 DEF Extends
<1> QED BY <1>2, <1>3

\* One event that is admitted and accepted (Admission::record, apply).
LEMMA RecordKeeps ==
  ASSUME NEW j, JournalInv(j), NEW ev \in Events,
         Admits(j, Class(ev)), Applies(j.machine, ev)
  PROVE  /\ JournalInv(Record(j, ev)) /\ Extends(Record(j, ev), j)
         /\ SendsOnly(Record(j, ev).machine, j.machine, ev)
<1> DEFINE k == Record(j, ev)
           m == j.machine
           n == After(m, ev)
<1>1. /\ j \in JournalRecord /\ MachineInv(m) /\ ReserveOk(j)
      /\ MaxEvents \in Nat /\ Reserve \in Nat
  BY PersistentAssumption DEF JournalInv
<1>2. Good(n, m, ev)
  <2> HIDE DEF m
  <2> QED BY <1>1, AfterKeeps DEF m
<1>3. /\ k.machine = n /\ k.count = j.count + 1 /\ k.last = Class(ev)
      /\ k.reserve = (j.reserve \/ Class(ev) = "Install")
      /\ k.started = (j.started \/ Class(ev) \in {"Work", "Recovery"})
  BY DEF Record
<1>4. Class(ev) \in {"Install", "Bootstrap", "Recovery", "Work"}
  BY DEF Class
<1>5. j.count \in Nat /\ j.count + 1 \in Nat
  BY <1>1 DEF JournalRecord
<1>6. k \in JournalRecord
  <2>1. n \in Machines
    BY <1>2 DEF Good, MachineInv
  <2> HIDE DEF n
  <2> QED BY <2>1, <1>4, <1>5 DEF Record, JournalRecord, n
<1>7. ReserveOk(k)
  <2> HIDE DEF k, m, n
  <2>1. CASE Class(ev) = "Install"
    BY <2>1, <1>1, <1>3, <1>5 DEF Admits, ReserveOk
  <2>2. CASE Class(ev) = "Recovery"
    BY <2>2, <1>1, <1>3, <1>5 DEF ReserveOk
  <2>3. CASE Class(ev) \notin {"Install", "Recovery"}
    BY <2>3, <1>1, <1>3, <1>5 DEF Admits, ReserveOk
  <2> QED BY <2>1, <2>2, <2>3
<1> HIDE DEF k, n
<1>8. JournalInv(k)
  BY <1>2, <1>3, <1>6, <1>7 DEF JournalInv, Good
<1>9. Extends(k, j) /\ SendsOnly(k.machine, j.machine, ev)
  <2>1. k.count >= j.count
    BY <1>3, <1>5
  <2> QED BY <2>1, <1>2, <1>3 DEF Good, Advances, Extends
<1> QED BY <1>8, <1>9 DEF k

Publishes(evs) == \E i \in 1..Len(evs) : evs[i].kind = "Publish"

\* A transaction that recalls the envelopes first and makes no other.
Withdraws(evs) ==
  evs[1].kind \in {"Fence", "Stop"} /\ ~Publishes(evs) /\ Dispatches(evs) = {}

\* What holds after n events of a transaction that began with journal j.
Kept(j, evs, n) ==
  LET k == RecordFirst(j, evs, n)
      m == j.machine
      open == m.envelopes \cup Dispatches(evs)
  IN  /\ JournalInv(k) /\ Extends(k, j)
      /\ k.machine.envelopes \subseteq open
      /\ \A a \in Attempts : (m.known[a] # "Executed" /\ k.machine.known[a] = "Executed") =>
           Publishes(evs) /\ a \in open
      /\ n > 0 /\ Withdraws(evs) => k.machine.envelopes = {}

\* Each event of a transaction is recorded on what the ones before it left.
LEMMA RecordFirstStep ==
  ASSUME NEW j, NEW evs, NEW n \in 1..3
  PROVE  RecordFirst(j, evs, n) = Record(RecordFirst(j, evs, n - 1), evs[n])
<1>1. CASE n = 1
  BY <1>1 DEF RecordFirst
<1>2. CASE n = 2
  BY <1>2 DEF RecordFirst
<1>3. CASE n = 3
  BY <1>3 DEF RecordFirst
<1> QED BY <1>1, <1>2, <1>3

\* One more event of a transaction.
LEMMA KeptStep ==
  ASSUME NEW j, JournalInv(j), NEW evs, Len(evs) \in 1..3,
         \A i \in 1..Len(evs) : evs[i] \in Events,
         CanRecordAll(j, evs), NEW n \in 1..Len(evs), Kept(j, evs, n - 1)
  PROVE  Kept(j, evs, n)
<1> DEFINE b == RecordFirst(j, evs, n - 1)
           k == RecordFirst(j, evs, n)
           ev == evs[n]
           open == j.machine.envelopes \cup Dispatches(evs)
<1>1. ev \in Events /\ Admits(b, Class(ev)) /\ Applies(b.machine, ev)
  BY DEF CanRecordAll
<1>2. k = Record(b, ev)
  <2>1. n \in 1..3
    OBVIOUS
  <2> QED BY <2>1, RecordFirstStep
<1>3. /\ JournalInv(b) /\ Extends(b, j)
      /\ b.machine.envelopes \subseteq open
      /\ \A a \in Attempts :
           (j.machine.known[a] # "Executed" /\ b.machine.known[a] = "Executed") =>
             Publishes(evs) /\ a \in open
      /\ n - 1 > 0 /\ Withdraws(evs) => b.machine.envelopes = {}
  BY DEF Kept
<1>4. ev.kind = "Dispatch" => ev.attempt \in Dispatches(evs)
  BY DEF Dispatches
<1>5. ev.kind = "Publish" => Publishes(evs)
  BY DEF Publishes
<1>6. n = 1 => b = j /\ ev = evs[1]
  BY DEF RecordFirst
<1> HIDE DEF b, k, ev
<1>7. /\ JournalInv(k) /\ Extends(k, b)
      /\ SendsOnly(k.machine, b.machine, ev)
  BY <1>1, <1>2, <1>3, RecordKeeps
<1>8. Extends(k, j)
  BY <1>3, <1>7, ExtendsOrder
<1>9. k.machine.envelopes \subseteq open
  BY <1>3, <1>4, <1>7 DEF SendsOnly
<1>10. ASSUME NEW a \in Attempts, j.machine.known[a] # "Executed",
              k.machine.known[a] = "Executed"
       PROVE  Publishes(evs) /\ a \in open
  <2>1. CASE b.machine.known[a] = "Executed"
    BY <2>1, <1>3, <1>10
  <2>2. CASE b.machine.known[a] # "Executed"
    BY <2>2, <1>3, <1>5, <1>7, <1>10 DEF SendsOnly
  <2> QED BY <2>1, <2>2
<1>11. ASSUME Withdraws(evs)
       PROVE  k.machine.envelopes = {}
  <2>1. CASE n = 1
    <3> DEFINE m == b.machine
    <3>1. ev.kind \in {"Fence", "Stop"} /\ MachineInv(m)
      BY <2>1, <1>3, <1>6, <1>11 DEF Withdraws, JournalInv
    <3>2. k.machine = After(m, ev)
      BY <1>2 DEF Record
    <3> HIDE DEF m
    <3>3. CASE ev.kind = "Fence"
      <4>1. After(m, ev) = Fenced(m)
        BY <3>3 DEF After
      <4> QED BY <4>1, <3>1, <3>2, FenceKeeps
    <3>4. CASE ev.kind = "Stop"
      <4>1. After(m, ev) = Stopped(m)
        BY <3>4 DEF After
      <4> QED BY <4>1, <3>1, <3>2, StopKeeps
    <3> QED BY <3>1, <3>3, <3>4
  <2>2. CASE n # 1
    <3>1. b.machine.envelopes = {}
      BY <2>2, <1>3, <1>11
    <3>2. ev.kind # "Dispatch"
      BY <1>4, <1>11 DEF Withdraws
    <3> QED BY <3>1, <3>2, <1>7 DEF SendsOnly
  <2> QED BY <2>1, <2>2
<1>12. n > 0 /\ Withdraws(evs) => k.machine.envelopes = {}
  BY <1>11
<1> QED BY <1>7, <1>8, <1>9, <1>10, <1>12 DEF Kept, k

\* A whole transaction of at most three events.
LEMMA TransactionKeeps ==
  ASSUME NEW j, JournalInv(j), NEW evs, Len(evs) \in 1..3,
         \A i \in 1..Len(evs) : evs[i] \in Events,
         CanRecordAll(j, evs)
  PROVE  Kept(j, evs, Len(evs))
<1>0. Kept(j, evs, 0)
  <2>1. RecordFirst(j, evs, 0) = j
    BY DEF RecordFirst
  <2>2. Extends(j, j)
    BY ExtendsOrder
  <2> QED BY <2>1, <2>2 DEF Kept
<1>1. \A n \in 1..Len(evs) : Kept(j, evs, n - 1) => Kept(j, evs, n)
  BY KeptStep
<1>2. Kept(j, evs, 1)
  BY <1>0, <1>1
<1>3. Len(evs) >= 2 => Kept(j, evs, 2)
  BY <1>2, <1>1
<1>4. Len(evs) = 3 => Kept(j, evs, 3)
  BY <1>3, <1>1
<1> QED BY <1>2, <1>3, <1>4

-----------------------------------------------------------------------------
(* The file and its owner.                                                 *)

Owners ==
  [open : BOOLEAN, journal : JournalRecord, fault : BOOLEAN, issuer : Nat]
Keys == [issuer : Nat, attempt : Attempts]

\* An owner that may write holds what the file holds, the power-loss copy holds
\* and the callers were told, and it sends only what it dispatched itself.
InStep ==
  (owner.open /\ ~owner.fault) =>
    /\ owner.journal = disk /\ durable = disk /\ acked = disk
    /\ disk.machine.envelopes \subseteq mine

\* What every other journal is compared with: the file is ahead of its durable
\* copy, and both of what was acknowledged.
Ahead == Extends(disk, durable) /\ Extends(disk, acked) /\ Extends(durable, acked)

Sound ==
  /\ JournalInv(disk) /\ JournalInv(durable) /\ JournalInv(acked)
  /\ JournalInv(owner.journal)

PersistentInv ==
  owner \in Owners /\ keys \subseteq Keys /\ Sound /\ Ahead /\ InStep

\* The transaction of an owner that may write.
LEMMA CommitKeeps ==
  ASSUME PersistentInv, NEW evs, Len(evs) \in 1..3,
         \A i \in 1..Len(evs) : evs[i] \in Events,
         NEW io \in IoResults, Commit(evs, io)
  PROVE  /\ owner' \in Owners /\ Sound' /\ Ahead' /\ InStep'
         /\ \A a \in Attempts :
              (disk.machine.known[a] # "Executed" /\ disk'.machine.known[a] = "Executed")
                => a \in mine'
<1> DEFINE j == RecordAll(owner.journal, evs)
<1>1. /\ owner.open /\ ~owner.fault /\ CanRecordAll(owner.journal, evs)
      /\ disk' = IF io \in {"Visible", "Done"} THEN j ELSE disk
      /\ durable' = IF io = "Done" THEN j ELSE durable
      /\ owner' = IF io = "Done" THEN [owner EXCEPT !.journal = j]
                                 ELSE [owner EXCEPT !.fault = TRUE]
      /\ acked' = IF io = "Done" THEN j ELSE acked
      /\ mine' = mine \cup Dispatches(evs)
  BY DEF Commit, Replace, Acknowledges
<1>2. /\ owner.journal = disk /\ durable = disk /\ acked = disk
      /\ disk.machine.envelopes \subseteq mine /\ JournalInv(disk)
      /\ owner \in Owners
  BY <1>1 DEF PersistentInv, InStep, Sound
<1>3. Kept(disk, evs, Len(evs)) /\ j = RecordFirst(disk, evs, Len(evs))
  <2>1. Kept(disk, evs, Len(evs))
    BY <1>1, <1>2, TransactionKeeps
  <2> QED BY <2>1, <1>2 DEF RecordAll
<1> HIDE DEF j
<1>4. /\ JournalInv(j) /\ Extends(j, disk)
      /\ j.machine.envelopes \subseteq disk.machine.envelopes \cup Dispatches(evs)
      /\ \A a \in Attempts : (disk.machine.known[a] # "Executed" /\ j.machine.known[a] = "Executed")
           => a \in disk.machine.envelopes \cup Dispatches(evs)
  BY <1>3 DEF Kept
<1>5. Extends(disk, disk) /\ Extends(j, j)
  BY <1>2, <1>4, ExtendsOrder
<1>6. j \in JournalRecord
  BY <1>4 DEF JournalInv
<1>7. CASE io = "Done"
  <2>1. disk' = j /\ durable' = j /\ acked' = j /\ owner' = [owner EXCEPT !.journal = j]
    BY <1>1, <1>7
  <2>2. owner'.journal = j /\ owner' \in Owners
    BY <2>1, <1>2, <1>6 DEF Owners
  <2>3. Sound' /\ Ahead' /\ InStep'
    BY <1>1, <1>2, <1>4, <1>5, <2>1, <2>2 DEF Sound, Ahead, InStep
  <2> QED BY <1>1, <1>2, <1>4, <2>1, <2>2, <2>3
<1>8. CASE io # "Done"
  <2>1. /\ disk' \in {disk, j} /\ durable' = disk /\ acked' = disk
        /\ owner' = [owner EXCEPT !.fault = TRUE]
    BY <1>1, <1>2, <1>8
  <2>2. owner'.journal = disk /\ owner'.fault /\ owner' \in Owners
    BY <2>1, <1>2 DEF Owners
  <2>3. Sound' /\ Ahead' /\ InStep'
    BY <1>1, <1>2, <1>4, <1>5, <2>1, <2>2 DEF Sound, Ahead, InStep
  <2> QED BY <1>1, <1>2, <1>4, <2>1, <2>2, <2>3
<1> QED BY <1>7, <1>8

\* open, open_reconciled and open_stopped fence or stop before anything else.
LEMMA OpenShape ==
  ASSUME NEW evs \in OpenEvents
  PROVE  /\ Len(evs) \in 1..3 /\ \A i \in 1..Len(evs) : evs[i] \in Events
         /\ evs[1].kind \in {"Fence", "Stop"}
         /\ \A i \in 1..Len(evs) : evs[i].kind \notin {"Publish", "Dispatch"}
<1> DEFINE fence == [kind |-> "Fence"]
           stop == [kind |-> "Stop"]
           sweep == [kind |-> "Sweep"]
           Progress(t) == [kind |-> "StopProgress", tick |-> t]
<1>1. fence \in Events /\ stop \in Events /\ sweep \in Events
  BY DEF Events
<1>2. \A t \in Ticks : Observed(t) \in Events /\ Progress(t) \in Events
  BY DEF Events, Observed
<1>3. fence.kind = "Fence" /\ stop.kind = "Stop" /\ sweep.kind = "Sweep"
  OBVIOUS
<1>4. \A t : Observed(t).kind = "Time" /\ Progress(t).kind = "StopProgress"
  BY DEF Observed
<1>5. \/ evs = <<fence>>
      \/ \E t \in Ticks : evs = <<fence, Observed(t), sweep>>
      \/ \E t \in Ticks : evs = <<stop, fence, Progress(t)>>
  BY DEF OpenEvents
<1> HIDE DEF fence, stop, sweep, Progress
<1>6. CASE evs = <<fence>>
  BY <1>6, <1>1, <1>3
<1>7. ASSUME NEW t \in Ticks, evs = <<fence, Observed(t), sweep>>
      PROVE  /\ Len(evs) \in 1..3 /\ \A i \in 1..Len(evs) : evs[i] \in Events
             /\ evs[1].kind \in {"Fence", "Stop"}
             /\ \A i \in 1..Len(evs) : evs[i].kind \notin {"Publish", "Dispatch"}
  BY <1>7, <1>1, <1>2, <1>3, <1>4
<1>8. ASSUME NEW t \in Ticks, evs = <<stop, fence, Progress(t)>>
      PROVE  /\ Len(evs) \in 1..3 /\ \A i \in 1..Len(evs) : evs[i] \in Events
             /\ evs[1].kind \in {"Fence", "Stop"}
             /\ \A i \in 1..Len(evs) : evs[i].kind \notin {"Publish", "Dispatch"}
  BY <1>8, <1>1, <1>2, <1>3, <1>4
<1> QED BY <1>5, <1>6, <1>7, <1>8

\* The first transaction of a new owner, which recalls every envelope.
LEMMA OpenKeeps ==
  ASSUME PersistentInv, NEW evs \in OpenEvents, NEW io \in IoResults, Open(evs, io)
  PROVE  /\ owner' \in Owners /\ Sound' /\ Ahead' /\ InStep'
         /\ \A a \in Attempts :
              ~(disk.machine.known[a] # "Executed" /\ disk'.machine.known[a] = "Executed")
<1> DEFINE j == RecordAll(disk, evs)
<1>1. /\ CanRecordAll(disk, evs)
      /\ disk' = IF io \in {"Visible", "Done"} THEN j ELSE disk
      /\ durable' = IF io = "Done" THEN j ELSE disk
      /\ owner' = [open |-> io = "Done", journal |-> j, fault |-> FALSE,
                   issuer |-> owner.issuer + 1]
      /\ acked' = IF io = "Done" THEN j ELSE acked
      /\ mine' = {}
  BY DEF Open, Acknowledges
<1>2. /\ JournalInv(disk) /\ JournalInv(acked) /\ Extends(disk, acked)
      /\ owner.issuer + 1 \in Nat
  BY DEF PersistentInv, Sound, Ahead, Owners
<1>3. /\ Len(evs) \in 1..3 /\ \A i \in 1..Len(evs) : evs[i] \in Events
      /\ evs[1].kind \in {"Fence", "Stop"}
      /\ \A i \in 1..Len(evs) : evs[i].kind \notin {"Publish", "Dispatch"}
  BY OpenShape
<1>4. Withdraws(evs) /\ ~Publishes(evs)
  BY <1>3 DEF Withdraws, Publishes, Dispatches
<1>5. Kept(disk, evs, Len(evs)) /\ j = RecordFirst(disk, evs, Len(evs))
  <2>1. Kept(disk, evs, Len(evs))
    BY <1>1, <1>2, <1>3, TransactionKeeps
  <2> QED BY <2>1 DEF RecordAll
<1> HIDE DEF j
<1>6. /\ JournalInv(j) /\ Extends(j, disk) /\ j.machine.envelopes = {}
      /\ \A a \in Attempts :
           ~(disk.machine.known[a] # "Executed" /\ j.machine.known[a] = "Executed")
  BY <1>3, <1>4, <1>5 DEF Kept
<1>7. Extends(disk, disk) /\ Extends(j, j) /\ Extends(j, acked)
  BY <1>2, <1>6, ExtendsOrder
<1>8. owner' \in Owners /\ owner'.journal = j /\ (owner'.open <=> io = "Done")
  <2>1. j \in JournalRecord
    BY <1>6 DEF JournalInv
  <2> QED BY <2>1, <1>1, <1>2 DEF Owners
<1>9. Sound' /\ Ahead' /\ InStep'
  <2>1. CASE io = "Done"
    BY <2>1, <1>1, <1>2, <1>6, <1>7, <1>8 DEF Sound, Ahead, InStep
  <2>2. CASE io # "Done"
    BY <2>2, <1>1, <1>2, <1>6, <1>7, <1>8 DEF Sound, Ahead, InStep
  <2> QED BY <2>1, <2>2
<1>10. \A a \in Attempts :
         ~(disk.machine.known[a] # "Executed" /\ disk'.machine.known[a] = "Executed")
  BY <1>1, <1>6
<1> QED BY <1>8, <1>9, <1>10

\* The effects that ran were dispatched by the present owner.
SentByOwner ==
  \A a \in Attempts :
    (disk.machine.known[a] # "Executed" /\ disk'.machine.known[a] = "Executed") => a \in mine'

\* Every step keeps the invariant and sends nothing of an earlier owner.
LEMMA StepKeeps ==
  ASSUME PersistentInv, [Next]_vars
  PROVE  PersistentInv' /\ (UNCHANGED vars \/ SentByOwner)
<1> DEFINE Rest == owner' \in Owners /\ Sound' /\ Ahead' /\ InStep' /\ SentByOwner
<1>0. /\ owner \in Owners /\ keys \subseteq Keys
      /\ JournalInv(disk) /\ JournalInv(durable) /\ Extends(disk, durable)
      /\ \A r \in Requests : owner.journal.machine.book[r] \in Entries \cup {NoRequest}
  BY DEF PersistentInv, Sound, Ahead, JournalInv, JournalRecord, Machines
<1>1. ASSUME NEW evs, Len(evs) \in 1..3, \A i \in 1..Len(evs) : evs[i] \in Events,
             NEW io \in IoResults, Commit(evs, io)
      PROVE  Rest
  BY <1>1, CommitKeeps DEF SentByOwner
<1>2. \A a \in Attempts : \A kind \in {"Authorize", "Dispatch", "Publish", "Reconcile",
                                        "Seal", "Cancel"} : Event(kind, a) \in Events
  BY DEF Event, Events
<1>3. \A t \in Ticks : Observed(t) \in Events /\ [kind |-> "StopProgress", tick |-> t] \in Events
  BY DEF Observed, Events
<1>4. [kind |-> "Sweep"] \in Events /\ [kind |-> "Stop"] \in Events
  BY DEF Events
<1>5. ASSUME NEW x \in Events, NEW io \in IoResults, Commit(<<x>>, io)
      PROVE  Rest
  <2> DEFINE evs == <<x>>
  <2>1. Len(evs) \in 1..3 /\ \A i \in 1..Len(evs) : evs[i] \in Events
    OBVIOUS
  <2> HIDE DEF Rest
  <2>2. Commit(evs, io)
    BY <1>5
  <2> HIDE DEF evs
  <2> QED BY <2>1, <2>2, <1>1
<1>6. ASSUME NEW x \in Events, NEW y \in Events, NEW io \in IoResults, Commit(<<x, y>>, io)
      PROVE  Rest
  <2> DEFINE evs == <<x, y>>
  <2>1. Len(evs) \in 1..3 /\ \A i \in 1..Len(evs) : evs[i] \in Events
    OBVIOUS
  <2> HIDE DEF Rest
  <2>2. Commit(evs, io)
    BY <1>6
  <2> HIDE DEF evs
  <2> QED BY <2>1, <2>2, <1>1
<1>7. ASSUME NEW x \in Events, NEW y \in Events, NEW z \in Events, NEW io \in IoResults,
             Commit(<<x, y, z>>, io)
      PROVE  Rest
  <2> DEFINE evs == <<x, y, z>>
  <2>1. Len(evs) \in 1..3 /\ \A i \in 1..Len(evs) : evs[i] \in Events
    OBVIOUS
  <2> HIDE DEF Rest
  <2>2. Commit(evs, io)
    BY <1>7
  <2> HIDE DEF evs
  <2> QED BY <2>1, <2>2, <1>1
<1>8. ASSUME owner' = [owner EXCEPT !.open = FALSE, !.journal = NewJournal, !.fault = FALSE],
             disk' \in {disk, durable}, durable' \in {disk', durable}, acked' = acked,
             disk' = disk \/ durable' = disk'
      PROVE  Rest
  <2>1. JournalInv(NewJournal) /\ NewJournal \in JournalRecord
    BY NewJournalGood DEF JournalInv
  <2>2. owner' \in Owners /\ owner'.journal = NewJournal /\ ~owner'.open
    BY <1>0, <1>8, <2>1 DEF Owners
  <2>3. Extends(durable, durable) /\ Extends(disk, disk)
    BY <1>0, ExtendsOrder
  <2>4. Sound' /\ Ahead' /\ InStep'
    BY <1>8, <2>1, <2>2, <2>3 DEF PersistentInv, Sound, Ahead, InStep
  <2>5. SentByOwner
    BY <1>0, <1>8 DEF SentByOwner, Extends
  <2> QED BY <2>2, <2>4, <2>5
<1>9. CASE UNCHANGED vars
  BY <1>9 DEF vars, PersistentInv, Sound, Ahead, InStep
<1>10. ASSUME Next
       PROVE  Rest /\ keys' \subseteq Keys
  <2> HIDE DEF Rest
  <2>0. PICK io \in IoResults :
          \/ \E ev \in Plain : Transact(ev, io)
          \/ \E a \in Attempts : Authorize(a, io)
          \/ \E key \in keys : Dispatch(key, io)
          \/ \E r \in Requests, key \in keys : CommitPublication(r, key, io)
          \/ \E tick \in Ticks : ReconcilePendingAt(tick, io)
          \/ \E tick \in Ticks : StopAndDrain(tick, io)
          \/ \E r \in Requests, tick \in Ticks : CancelAndResolve(r, tick, io)
          \/ \E evs \in OpenEvents : Open(evs, io)
          \/ io = "Done" /\ DropOwner
          \/ io = "Done" /\ PowerLoss
    BY <1>10 DEF Next
  <2>1. ASSUME NEW ev \in Plain, Transact(ev, io)
        PROVE  Rest /\ keys' \subseteq Keys
    <3>1. ev \in Events /\ Commit(<<ev>>, io) /\ keys' = keys
      BY <2>1 DEF Plain, Transact
    <3> QED BY <3>1, <1>0, <1>5
  <2>2. ASSUME NEW a \in Attempts, Authorize(a, io)
        PROVE  Rest /\ keys' \subseteq Keys
    <3>1. /\ Commit(<<Event("Authorize", a)>>, io)
          /\ keys' \subseteq keys \cup {[issuer |-> owner.issuer, attempt |-> a]}
      BY <2>2 DEF Authorize
    <3>2. [issuer |-> owner.issuer, attempt |-> a] \in Keys
      BY <1>0 DEF Keys, Owners
    <3>3. Rest
      BY <3>1, <1>2, <1>5
    <3> QED BY <3>1, <3>2, <3>3, <1>0
  <2>3. ASSUME NEW key \in keys, Dispatch(key, io)
        PROVE  Rest /\ keys' \subseteq Keys
    <3>1. Commit(<<Event("Dispatch", key.attempt)>>, io) /\ keys' = keys
      BY <2>3 DEF Dispatch
    <3>2. Event("Dispatch", key.attempt) \in Events
      BY <1>0, <1>2 DEF Keys
    <3> QED BY <3>1, <3>2, <1>0, <1>5
  <2>4. ASSUME NEW r \in Requests, NEW key \in keys, CommitPublication(r, key, io)
        PROVE  Rest /\ keys' \subseteq Keys
    <3> DEFINE a == key.attempt
    <3>1. /\ Commit(<<Event("Dispatch", a), Event("Publish", a), Event("Reconcile", a)>>, io)
          /\ keys' = keys
      BY <2>4 DEF CommitPublication
    <3>2. a \in Attempts
      BY <1>0 DEF Keys
    <3>3. /\ Event("Dispatch", a) \in Events /\ Event("Publish", a) \in Events
          /\ Event("Reconcile", a) \in Events
      BY <3>2, <1>2
    <3> QED BY <3>1, <3>3, <1>0, <1>7
  <2>5. ASSUME NEW tick \in Ticks, ReconcilePendingAt(tick, io)
        PROVE  Rest /\ keys' \subseteq Keys
    <3>1. Commit(<<Observed(tick), [kind |-> "Sweep"]>>, io) /\ keys' = keys
      BY <2>5 DEF ReconcilePendingAt
    <3> QED BY <3>1, <1>0, <1>3, <1>4, <1>6
  <2>6. ASSUME NEW tick \in Ticks, StopAndDrain(tick, io)
        PROVE  Rest /\ keys' \subseteq Keys
    <3>1. /\ Commit(<<[kind |-> "Stop"], [kind |-> "StopProgress", tick |-> tick]>>, io)
          /\ keys' = keys
      BY <2>6 DEF StopAndDrain
    <3> QED BY <3>1, <1>0, <1>3, <1>4, <1>6
  <2>7. ASSUME NEW r \in Requests, NEW tick \in Ticks, CancelAndResolve(r, tick, io)
        PROVE  Rest /\ keys' \subseteq Keys
    <3> DEFINE a == Requested(r).attempt
               kind == IF owner.journal.machine.stage[a] \in Undispatched
                         THEN "Cancel" ELSE "Seal"
    <3>1. /\ Requested(r) # NoRequest /\ keys' = keys
          /\ Commit(<<Observed(tick), Event(kind, a)>>, io)
      BY <2>7 DEF CancelAndResolve
    <3>2. a \in Attempts
      BY <3>1, <1>0 DEF Requested, Entries
    <3>3. Event(kind, a) \in Events
      BY <3>2, <1>2
    <3> HIDE DEF a, kind
    <3> QED BY <3>1, <3>3, <1>0, <1>3, <1>6
  <2>8. ASSUME NEW evs \in OpenEvents, Open(evs, io)
        PROVE  Rest /\ keys' \subseteq Keys
    <3>1. keys' = keys
      BY <2>8 DEF Open
    <3>2. Rest
      BY <2>8, OpenKeeps DEF SentByOwner, Rest
    <3> QED BY <3>1, <3>2, <1>0
  <2>9. ASSUME DropOwner
        PROVE  Rest /\ keys' \subseteq Keys
    <3>1. /\ owner' = [owner EXCEPT !.open = FALSE, !.journal = NewJournal, !.fault = FALSE]
          /\ disk' = disk /\ durable' = durable /\ acked' = acked /\ keys' = keys
      BY <2>9 DEF DropOwner
    <3> QED BY <3>1, <1>0, <1>8
  <2>10. ASSUME PowerLoss
         PROVE  Rest /\ keys' \subseteq Keys
    <3>1. /\ owner' = [owner EXCEPT !.open = FALSE, !.journal = NewJournal, !.fault = FALSE]
          /\ disk' \in {disk, durable} /\ durable' = disk' /\ acked' = acked /\ keys' = {}
      BY <2>10 DEF PowerLoss
    <3> QED BY <3>1, <1>8
  <2> QED BY <2>0, <2>1, <2>2, <2>3, <2>4, <2>5, <2>6, <2>7, <2>8, <2>9, <2>10
<1> QED BY <1>9, <1>10 DEF PersistentInv

\* What a new owner and its file start with.
LEMMA InitKeeps == Init => PersistentInv
<1> SUFFICES ASSUME Init PROVE PersistentInv
  OBVIOUS
<1>1. JournalInv(NewJournal) /\ NewJournal \in JournalRecord
  BY NewJournalGood DEF JournalInv
<1>2. Extends(NewJournal, NewJournal)
  BY <1>1, ExtendsOrder
<1>3. /\ disk = NewJournal /\ durable = NewJournal /\ acked = NewJournal
      /\ keys = {} /\ owner = [NoOwner EXCEPT !.open = TRUE, !.issuer = 1]
  BY DEF Init
<1>4. owner \in Owners /\ owner.journal = NewJournal
  BY <1>1, <1>3 DEF Owners, NoOwner
<1>5. NewJournal.machine.envelopes = {}
  BY DEF NewJournal, NewMachine
<1> QED BY <1>1, <1>2, <1>3, <1>4, <1>5 DEF PersistentInv, Sound, Ahead, InStep

\* The invariant: a writing owner, its file, the copy a power loss leaves and what
\* the callers were told are one journal, and what is left of them after a
\* failure never falls behind (transact, commit_request_events, open).
THEOREM PersistentInvariant == Spec => []PersistentInv
<1>1. PersistentInv /\ [Next]_vars => PersistentInv'
  BY StepKeeps
<1> QED BY InitKeeps, <1>1, PTL DEF Spec

\* Whatever was acknowledged is in the file and survives a power loss, and no
\* journal that recovery could start from gives back what an effect has cost.
THEOREM PersistentAcknowledgedKept == Spec => []AcknowledgedKept
<1>1. PersistentInv => AcknowledgedKept
  <2> SUFFICES ASSUME PersistentInv PROVE AcknowledgedKept
    OBVIOUS
  <2>1. ASSUME NEW j, JournalInv(j)
        PROVE  ChargesExecuted(j)
    BY <2>1 DEF JournalInv, MachineInv, AttemptOk, ChargesExecuted, Departed, InFlight
  <2>2. \A j \in Journals : ChargesExecuted(j)
    BY <2>1 DEF PersistentInv, Sound, Journals
  <2> QED BY <2>2 DEF PersistentInv, Ahead, AcknowledgedKept
<1> QED BY PersistentInvariant, <1>1, PTL

\* No effect runs in the name of an earlier owner (open, Rc::ptr_eq on the issuer).
THEOREM PersistentNeverResent == Spec => NeverResent
<1>1. PersistentInv /\ [Next]_vars =>
        [\A a \in Attempts :
           (disk.machine.known[a] # "Executed" /\ disk'.machine.known[a] = "Executed")
             => a \in mine']_vars
  BY StepKeeps DEF SentByOwner
<1> QED BY PersistentInvariant, <1>1, PTL DEF Spec, NeverResent

\* With a reserve installed, a fence, a stop and a sweep still fit after any
\* ordinary event (Admission::record).
THEOREM PersistentTerminalSpaceKept == Spec => []TerminalSpaceKept
<1>1. PersistentInv => TerminalSpaceKept
  <2> SUFFICES ASSUME PersistentInv, NEW j \in Journals, j.reserve, j.last # "Recovery",
                      NEW k \in 0..2
               PROVE  Admits([j EXCEPT !.count = @ + k], "Recovery")
    BY DEF TerminalSpaceKept
  <2>1. JournalInv(j)
    BY DEF PersistentInv, Sound, Journals
  <2>2. /\ j \in JournalRecord /\ Reserve >= 3 /\ j.count <= MaxEvents - Reserve
        /\ MaxEvents \in Nat /\ Reserve \in Nat /\ j.count \in Nat
    BY <2>1, PersistentAssumption DEF JournalInv, ReserveOk, JournalRecord
  <2>3. [j EXCEPT !.count = @ + k].count = j.count + k
    BY <2>2 DEF JournalRecord
  <2>4. j.count + k + 1 <= MaxEvents
    BY <2>2
  <2> QED BY <2>3, <2>4 DEF Admits
<1> QED BY PersistentInvariant, <1>1, PTL

=============================================================================
