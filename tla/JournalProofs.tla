--------------------------- MODULE JournalProofs ----------------------------
(***************************************************************************)
(* Proofs about the rights-transition journal: append, grouped append and  *)
(* strict replay accept the same histories, and ordinary events stay out   *)
(* of the recovery tail, for any limits, events and groups.  What an event *)
(* does to the ledger is not looked into.                                  *)
(***************************************************************************)
EXTENDS RightsJournal, FileJournal, WellFoundedInduction, SequenceTheorems, FiniteSetTheorems, TLAPS

\* Induction over the natural numbers, for a set.
LEMMA NatInduct ==
  ASSUME NEW S, 0 \in S, \A n \in Nat : n \in S => n + 1 \in S
  PROVE  Nat \subseteq S
<1> DEFINE R == OpToRel(<, Nat)
           T == Nat \ S
<1>1. SUFFICES ASSUME T # {} PROVE FALSE
  OBVIOUS
<1>2. IsWellFoundedOn(R, Nat) /\ T \subseteq Nat
  BY NatLessThanWellFounded
<1>3. \E x \in T : \A y \in T : ~ (<<y, x>> \in R)
  <2> HIDE DEF R, T
  <2> QED BY <1>1, <1>2, WFMin
<1>4. PICK x \in T : \A y \in T : ~ (<<y, x>> \in R)
  BY <1>3
<1>5. x \in Nat /\ x # 0 /\ x \notin S
  BY <1>4
<1>6. x - 1 \in Nat /\ x - 1 < x
  BY <1>5
<1>7. <<x - 1, x>> \in R
  BY <1>5, <1>6 DEF OpToRel
<1>8. x - 1 \in S
  BY <1>4, <1>6, <1>7
<1> QED BY <1>5, <1>6, <1>8

-----------------------------------------------------------------------------
(* ExtendedAll adds the records one after the other.                       *)

\* f[k] is the journal after the first k events, up to n.
Stepwise(f, j, evs, n) ==
  f = [k \in 0..n |-> IF k = 0 THEN j ELSE Extended(f[k - 1], evs[k])]

\* There is such a function.
LEMMA StepwiseExists ==
  ASSUME NEW j, NEW evs
  PROVE  \A n \in Nat : \E f : Stepwise(f, j, evs, n)
<1> DEFINE S == {n \in Nat : \E f : Stepwise(f, j, evs, n)}
<1>1. 0 \in S
  <2> DEFINE f == [k \in 0..0 |-> j]
  <2>1. Stepwise(f, j, evs, 0)
    BY DEF Stepwise
  <2> QED BY <2>1
<1>2. ASSUME NEW n \in Nat, n \in S
      PROVE  n + 1 \in S
  <2>1. PICK f : Stepwise(f, j, evs, n)
    BY <1>2
  <2> DEFINE last == Extended(f[n], evs[n + 1])
             g == [k \in 0..(n + 1) |-> IF k = n + 1 THEN last ELSE f[k]]
             h == [k \in 0..(n + 1) |-> IF k = 0 THEN j ELSE Extended(g[k - 1], evs[k])]
  <2>2. \A k \in 0..n : f[k] = IF k = 0 THEN j ELSE Extended(f[k - 1], evs[k])
    BY <2>1 DEF Stepwise
  <2>3. ASSUME NEW k \in 0..(n + 1)
        PROVE  g[k] = h[k]
    <3>1. CASE k = n + 1
      <4>1. g[k - 1] = f[n]
        BY <3>1
      <4>2. g[k] = last /\ h[k] = Extended(g[k - 1], evs[k])
        BY <3>1
      <4> QED BY <3>1, <4>1, <4>2
    <3>2. CASE k = 0
      BY <3>2, <2>2
    <3>3. CASE k # 0 /\ k # n + 1
      <4>1. k \in 0..n /\ k - 1 \in 0..(n + 1) /\ k - 1 # n + 1
        BY <3>3
      <4>2. g[k] = f[k] /\ g[k - 1] = f[k - 1] /\ h[k] = Extended(g[k - 1], evs[k])
        BY <3>3, <4>1
      <4> QED BY <2>2, <3>3, <4>1, <4>2
    <3> QED BY <3>1, <3>2, <3>3
  <2>4. g = h
    BY <2>3
  <2>5. Stepwise(g, j, evs, n + 1)
    BY <2>4 DEF Stepwise
  <2> QED BY <2>5
<1>3. Nat \subseteq S
  <2> HIDE DEF S
  <2> QED BY <1>1, <1>2, NatInduct
<1> QED BY <1>3

\* Two such functions agree as long as their events do.
LEMMA StepwiseAgree ==
  ASSUME NEW j, NEW evs, NEW fvs, NEW f, NEW g, NEW m \in Nat, NEW n \in Nat, m <= n,
         \A k \in 1..m : evs[k] = fvs[k], Stepwise(f, j, evs, m), Stepwise(g, j, fvs, n)
  PROVE  \A k \in 0..m : f[k] = g[k]
<1> DEFINE S == {k \in Nat : k <= m => f[k] = g[k]}
<1>1. \A k \in 0..m : f[k] = IF k = 0 THEN j ELSE Extended(f[k - 1], evs[k])
  BY DEF Stepwise
<1>2. \A k \in 0..n : g[k] = IF k = 0 THEN j ELSE Extended(g[k - 1], fvs[k])
  BY DEF Stepwise
<1>3. 0 \in S
  <2>1. f[0] = j /\ g[0] = j
    BY <1>1, <1>2
  <2> QED BY <2>1
<1>4. ASSUME NEW k \in Nat, k \in S
      PROVE  k + 1 \in S
  <2>1. SUFFICES ASSUME k + 1 <= m PROVE f[k + 1] = g[k + 1]
    OBVIOUS
  <2>2. f[k] = g[k] /\ k + 1 \in 0..m /\ k + 1 \in 0..n /\ k + 1 \in 1..m
    BY <1>4, <2>1
  <2>3. f[k + 1] = Extended(f[k], evs[k + 1]) /\ g[k + 1] = Extended(g[k], fvs[k + 1])
    BY <1>1, <1>2, <2>2
  <2> QED BY <2>2, <2>3
<1>5. Nat \subseteq S
  <2> HIDE DEF S
  <2> QED BY <1>3, <1>4, NatInduct
<1> QED BY <1>5

\* What ExtendedAll returns is the last value of such a function.
LEMMA ExtendedStepwise ==
  ASSUME NEW j, NEW evs, Len(evs) \in Nat
  PROVE  \E f : Stepwise(f, j, evs, Len(evs)) /\ ExtendedAll(j, evs) = f[Len(evs)]
<1> DEFINE P(f) == f = [k \in 0..Len(evs) |-> IF k = 0 THEN j
                                               ELSE Extended(f[k - 1], evs[k])]
           u == CHOOSE f : P(f)
<1>1. \E f : P(f)
  <2>1. PICK f : Stepwise(f, j, evs, Len(evs))
    BY StepwiseExists
  <2>2. P(f)
    BY <2>1 DEF Stepwise
  <2> QED BY <2>2
<1>2. P(u)
  BY <1>1
<1>3. ExtendedAll(j, evs) = u[Len(evs)]
  BY DEF ExtendedAll
<1>4. Stepwise(u, j, evs, Len(evs))
  BY <1>2 DEF Stepwise
<1> QED BY <1>3, <1>4

\* Prefixes of a sequence.
LEMMA PrefixFacts ==
  ASSUME NEW D, NEW s \in Seq(D), NEW k \in 0..Len(s)
  PROVE  /\ SubSeq(s, 1, k) \in Seq(D) /\ Len(SubSeq(s, 1, k)) = k
         /\ \A i \in 1..k : SubSeq(s, 1, k)[i] = s[i]
         /\ SubSeq(s, 1, Len(s)) = s
<1>1. k \in Nat /\ 1..k \subseteq 1..Len(s) /\ Len(s) \in Nat
  OBVIOUS
<1>2. SubSeq(s, 1, k) = [i \in 1..k |-> s[i]]
  BY <1>1
<1>3. \A i \in 1..k : s[i] \in D
  BY <1>1
<1>4. SubSeq(s, 1, k) \in Seq(D) /\ Len(SubSeq(s, 1, k)) = k
  BY <1>1, <1>2, <1>3
<1>5. SubSeq(s, 1, Len(s)) = s
  OBVIOUS
<1> QED BY <1>2, <1>4, <1>5

\* The journal after the first k of the events.
After(j, evs, k) == ExtendedAll(j, SubSeq(evs, 1, k))

\* The first is the journal itself, each next has one more record, and the last is
\* the journal after all of them.
LEMMA AfterSteps ==
  ASSUME NEW j, NEW evs \in Seq(Event)
  PROVE  /\ After(j, evs, 0) = j
         /\ \A k \in 1..Len(evs) : After(j, evs, k) = Extended(After(j, evs, k - 1), evs[k])
         /\ After(j, evs, Len(evs)) = ExtendedAll(j, evs)
<1>0. Len(evs) \in Nat
  OBVIOUS
<1>1. PICK f : Stepwise(f, j, evs, Len(evs)) /\ ExtendedAll(j, evs) = f[Len(evs)]
  BY <1>0, ExtendedStepwise
<1>2. \A k \in 0..Len(evs) : f[k] = IF k = 0 THEN j ELSE Extended(f[k - 1], evs[k])
  BY <1>1 DEF Stepwise
<1>3. ASSUME NEW k \in 0..Len(evs)
      PROVE  After(j, evs, k) = f[k]
  <2> DEFINE fvs == SubSeq(evs, 1, k)
             n == Len(evs)
  <2>1. Len(fvs) = k /\ \A i \in 1..k : fvs[i] = evs[i]
    BY PrefixFacts
  <2>2. k \in Nat /\ k <= k /\ k <= n /\ n \in Nat
    BY <1>0
  <2> HIDE DEF fvs, n
  <2>3. PICK g : Stepwise(g, j, fvs, k) /\ ExtendedAll(j, fvs) = g[k]
    BY <2>1, <2>2, ExtendedStepwise
  <2>4. Stepwise(f, j, evs, n)
    BY <1>1 DEF n
  <2>5. \A i \in 0..k : g[i] = f[i]
    BY <2>1, <2>2, <2>3, <2>4, StepwiseAgree
  <2>6. g[k] = f[k]
    BY <2>2, <2>5
  <2> QED BY <2>3, <2>6 DEF After, fvs
<1>4. After(j, evs, 0) = j
  BY <1>0, <1>2, <1>3
<1>5. ASSUME NEW k \in 1..Len(evs)
      PROVE  After(j, evs, k) = Extended(After(j, evs, k - 1), evs[k])
  <2>1. k \in 0..Len(evs) /\ k - 1 \in 0..Len(evs) /\ k # 0
    BY <1>0
  <2> QED BY <2>1, <1>2, <1>3
<1>6. After(j, evs, Len(evs)) = ExtendedAll(j, evs)
  BY <1>0, <1>1, <1>3
<1> QED BY <1>4, <1>5, <1>6

-----------------------------------------------------------------------------
(* Lengths.                                                                *)

\* Every event has an encoding of at least one byte, so a record has at least 21.
LEMMA RecordLengths ==
  ASSUME NEW ev \in Event
  PROVE  /\ PayloadLen(ev) \in Nat /\ PayloadLen(ev) >= 1
         /\ BodyLen(ev) = 12 + PayloadLen(ev) /\ RecordLen(ev) = 20 + PayloadLen(ev)
<1>1. PayloadLen(ev) \in Nat /\ PayloadLen(ev) >= 1
  <2>1. CASE ev \in [op : {"Reserve", "Dispatch"}, id : Ids, effect : Effects]
    <3>1. EffectBytes[ev.effect] \in Nat /\ ev.op \in {"Reserve", "Dispatch"}
      BY <2>1, JournalAssumption
    <3>2. PayloadLen(ev) = 1 + 8 + 8 + 12 + EffectBytes[ev.effect]
      BY <3>1 DEF PayloadLen
    <3> QED BY <3>1, <3>2
  <2>2. CASE ev \in [op : {"MarkUnknown", "AbortBeforeDispatch"}, id : Ids]
    <3>1. PayloadLen(ev) = 1 + 8
      BY <2>2 DEF PayloadLen
    <3> QED BY <3>1
  <2>3. CASE ev \in [op : {"Reconcile"}, id : Ids, occurred : BOOLEAN]
    <3>1. PayloadLen(ev) = 1 + 8 + 1
      BY <2>3 DEF PayloadLen
    <3> QED BY <3>1
  <2>4. CASE ev \in [op : {"RevokeEpoch"}]
    <3>1. PayloadLen(ev) = 1
      BY <2>4 DEF PayloadLen
    <3> QED BY <3>1
  <2>5. CASE ev \in [op : {"ResetToCheckpoint"}, keep : SUBSET Ids]
    <3>1. IsFiniteSet(ev.keep)
      BY <2>5, RightsAssumption, FS_Subset
    <3>2. Cardinality(ev.keep) \in Nat
      BY <3>1, FS_CardinalityType
    <3>3. PayloadLen(ev) = 1 + 4 + 8 * Cardinality(ev.keep)
      BY <2>5 DEF PayloadLen
    <3> QED BY <3>2, <3>3
  <2> QED BY <2>1, <2>2, <2>3, <2>4, <2>5 DEF Event
<1> QED BY <1>1 DEF BodyLen, RecordLen

\* A journal value: its records and its length.
Shaped(j) == j.log \in Seq(Event) /\ j.len \in Nat

\* One more record keeps the shape.
LEMMA ExtendedShape ==
  ASSUME NEW j, NEW ev \in Event, Shaped(j)
  PROVE  /\ Shaped(Extended(j, ev))
         /\ Extended(j, ev).log = Append(j.log, ev)
         /\ Len(Extended(j, ev).log) = Len(j.log) + 1
         /\ Extended(j, ev).len = j.len + RecordLen(ev)
<1>1. Extended(j, ev).log = Append(j.log, ev) /\ Extended(j, ev).len = j.len + RecordLen(ev)
  BY DEF Extended
<1>2. j.log \in Seq(Event) /\ j.len \in Nat /\ RecordLen(ev) \in Nat
  BY RecordLengths DEF Shaped
<1>3. Append(j.log, ev) \in Seq(Event) /\ Len(Append(j.log, ev)) = Len(j.log) + 1
  BY <1>2
<1>4. j.len + RecordLen(ev) \in Nat
  BY <1>2
<1> QED BY <1>1, <1>3, <1>4 DEF Shaped

\* The journal after k events has k more records, each of 21 bytes or more, and the
\* journals on the way to it are no longer than it is.
LEMMA AfterShape ==
  ASSUME NEW j, Shaped(j), NEW evs \in Seq(Event)
  PROVE  \A k \in 0..Len(evs) :
           /\ Shaped(After(j, evs, k))
           /\ Len(After(j, evs, k).log) = Len(j.log) + k
           /\ After(j, evs, k).len >= j.len + 21 * k
           /\ \A i \in 0..k : After(j, evs, i).len <= After(j, evs, k).len
<1> DEFINE A(k) == After(j, evs, k)
           Ok(k) == /\ Shaped(A(k))
                    /\ Len(A(k).log) = Len(j.log) + k
                    /\ A(k).len >= j.len + 21 * k
                    /\ \A i \in 0..k : A(i).len \in Nat /\ A(i).len <= A(k).len
           S == {k \in Nat : k <= Len(evs) => Ok(k)}
<1>0. Len(evs) \in Nat /\ j.len \in Nat /\ j.log \in Seq(Event) /\ Len(j.log) \in Nat
  BY DEF Shaped
<1>1. 0 \in S
  <2>1. A(0) = j
    BY AfterSteps
  <2>2. \A i \in 0..0 : i = 0
    OBVIOUS
  <2> HIDE DEF A
  <2>3. /\ Shaped(A(0)) /\ Len(A(0).log) = Len(j.log) + 0
        /\ A(0).len >= j.len + 21 * 0 /\ A(0).len \in Nat /\ A(0).len <= A(0).len
    BY <1>0, <2>1
  <2>4. \A i \in 0..0 : A(i).len \in Nat /\ A(i).len <= A(0).len
    BY <2>2, <2>3
  <2> QED BY <2>3, <2>4
<1>2. ASSUME NEW k \in Nat, k \in S
      PROVE  k + 1 \in S
  <2>1. SUFFICES ASSUME k + 1 <= Len(evs) PROVE Ok(k + 1)
    <3> HIDE DEF Ok
    <3> QED OBVIOUS
  <2> DEFINE p == k + 1
  <2>2. Ok(k) /\ p \in 1..Len(evs) /\ p - 1 = k /\ p \in Nat /\ p = k + 1
    BY <1>0, <1>2, <2>1
  <2>3. A(p) = Extended(A(k), evs[p]) /\ evs[p] \in Event
    <3> HIDE DEF p
    <3>1. A(p) = Extended(A(p - 1), evs[p])
      BY <2>2, AfterSteps
    <3> QED BY <2>2, <3>1
  <2>4. RecordLen(evs[p]) \in Nat /\ RecordLen(evs[p]) >= 21
    BY <2>3, RecordLengths
  <2> HIDE DEF A, p
  <2>5. /\ Shaped(A(p)) /\ Len(A(p).log) = Len(A(k).log) + 1
        /\ A(p).len = A(k).len + RecordLen(evs[p])
    BY <2>2, <2>3, ExtendedShape
  <2>6. A(k).len \in Nat
    BY <2>2 DEF Shaped
  <2>7. A(p).len >= A(k).len
    BY <2>4, <2>5, <2>6
  <2>8. A(p).len >= j.len + 21 * p
    BY <1>0, <2>2, <2>4, <2>5, <2>6
  <2>9. Len(A(p).log) = Len(j.log) + p
    <3> DEFINE a == Len(A(k).log)
               b == Len(A(p).log)
               c == Len(j.log)
    <3>1. a = c + k /\ b = a + 1 /\ c \in Nat
      BY <1>0, <2>2, <2>5
    <3> HIDE DEF a, b, c
    <3>2. b = c + p
      BY <2>2, <3>1
    <3> QED BY <3>2 DEF b, c
  <2>10. ASSUME NEW i \in 0..p
         PROVE  A(i).len \in Nat /\ A(i).len <= A(p).len
    <3>1. A(p).len \in Nat
      BY <2>5 DEF Shaped
    <3>2. CASE i = p
      BY <3>1, <3>2
    <3>3. CASE i \in 0..k
      <4>1. A(i).len \in Nat /\ A(i).len <= A(k).len
        BY <2>2, <3>3
      <4> QED BY <2>6, <2>7, <3>1, <4>1
    <3> QED BY <2>2, <3>2, <3>3
  <2> QED BY <2>5, <2>8, <2>9, <2>10 DEF p
<1>3. Nat \subseteq S
  <2> HIDE DEF S
  <2> QED BY <1>1, <1>2, NatInduct
<1> QED BY <1>0, <1>3

-----------------------------------------------------------------------------
(* Strict replay.                                                          *)

\* A journal that strict replay of its own records accepts and rebuilds.
Replayed(j) ==
  /\ Shaped(j)
  /\ CanReplayAll(NewJournal, j.log)
  /\ ExtendedAll(NewJournal, j.log) = j

\* The empty journal.
LEMMA NewShaped == Shaped(NewJournal) /\ NewJournal.log = <<>> /\ NewJournal.len = HeaderLen
BY JournalAssumption DEF NewJournal, Shaped

\* It replays to itself.
LEMMA NewReplayed == Replayed(NewJournal)
<1> DEFINE s == NewJournal.log
<1>1. s \in Seq(Event) /\ Len(s) = 0
  BY NewShaped
<1> HIDE DEF s
<1>2. After(NewJournal, s, 0) = NewJournal /\ After(NewJournal, s, Len(s)) = ExtendedAll(NewJournal, s)
  BY <1>1, AfterSteps
<1>3. ExtendedAll(NewJournal, s) = NewJournal
  BY <1>1, <1>2
<1>4. CanReplayAll(NewJournal, s)
  BY <1>1 DEF CanReplayAll, InTurn
<1> QED BY <1>3, <1>4, NewShaped DEF Replayed, s

\* The prefixes of a sequence and of the sequence with one more element.
LEMMA AppendPrefixes ==
  ASSUME NEW s \in Seq(Event), NEW ev \in Event
  PROVE  /\ Append(s, ev) \in Seq(Event) /\ Len(Append(s, ev)) = Len(s) + 1
         /\ Append(s, ev)[Len(s) + 1] = ev
         /\ \A k \in 1..Len(s) : Append(s, ev)[k] = s[k]
         /\ \A k \in 0..Len(s) : SubSeq(Append(s, ev), 1, k) = SubSeq(s, 1, k)
<1> DEFINE t == Append(s, ev)
<1>1. t \in Seq(Event) /\ Len(t) = Len(s) + 1 /\ Len(s) \in Nat
  OBVIOUS
<1>2. t[Len(s) + 1] = ev /\ \A k \in 1..Len(s) : t[k] = s[k]
  OBVIOUS
<1> HIDE DEF t
<1>3. ASSUME NEW k \in 0..Len(s)
      PROVE  SubSeq(t, 1, k) = SubSeq(s, 1, k)
  <2>1. k \in 0..Len(t) /\ k \in Nat
    BY <1>1
  <2>2. SubSeq(t, 1, k) \in Seq(Event) /\ Len(SubSeq(t, 1, k)) = k
    BY <1>1, <2>1, PrefixFacts
  <2>3. SubSeq(s, 1, k) \in Seq(Event) /\ Len(SubSeq(s, 1, k)) = k
    BY PrefixFacts
  <2>4. \A i \in 1..k : SubSeq(t, 1, k)[i] = t[i]
    BY <1>1, <2>1, PrefixFacts
  <2>5. \A i \in 1..k : SubSeq(s, 1, k)[i] = s[i]
    BY PrefixFacts
  <2>6. \A i \in 1..k : SubSeq(t, 1, k)[i] = SubSeq(s, 1, k)[i]
    BY <1>1, <1>2, <2>4, <2>5
  <2> QED BY <2>1, <2>2, <2>3, <2>6, SeqEqual
<1> QED BY <1>1, <1>2, <1>3 DEF t

\* A record that strict replay accepts keeps the journal replayable.
LEMMA ExtendedReplayed ==
  ASSUME NEW j, Replayed(j), NEW ev \in Event, CanReplayRecord(j, ev)
  PROVE  Replayed(Extended(j, ev))
<1> DEFINE s == j.log
           t == Append(s, ev)
           n == Len(s)
           B(k) == After(NewJournal, s, k)
           A(k) == After(NewJournal, t, k)
           q == Extended(j, ev)
<1>1. s \in Seq(Event) /\ n \in Nat
  BY DEF Replayed, Shaped
<1>2. Shaped(q) /\ q.log = t
  BY ExtendedShape DEF Replayed
<1>3. /\ t \in Seq(Event) /\ Len(t) = n + 1 /\ t[n + 1] = ev
      /\ \A k \in 1..n : t[k] = s[k]
      /\ \A k \in 0..n : SubSeq(t, 1, k) = SubSeq(s, 1, k)
  BY <1>1, AppendPrefixes
<1>4. \A k \in 1..n : CanReplayRecord(B(k - 1), s[k])
  BY DEF Replayed, CanReplayAll, InTurn, After
<1>5. B(n) = j
  BY <1>1, AfterSteps DEF Replayed
<1>6. \A k \in 0..n : A(k) = B(k)
  BY <1>3 DEF After
<1> HIDE DEF s, n, t, q
<1>7. A(n + 1) = Extended(A(n), ev) /\ ExtendedAll(NewJournal, t) = A(n + 1)
  <2> DEFINE p == n + 1
  <2>1. p \in 1..Len(t) /\ p - 1 = n /\ Len(t) = p /\ t[p] = ev
    BY <1>1, <1>3
  <2> HIDE DEF p
  <2>2. A(p) = Extended(A(p - 1), t[p])
    BY <1>3, <2>1, AfterSteps
  <2>3. A(Len(t)) = ExtendedAll(NewJournal, t)
    BY <1>3, AfterSteps
  <2>4. A(p) = Extended(A(n), ev) /\ ExtendedAll(NewJournal, t) = A(p)
    BY <2>1, <2>2, <2>3
  <2> QED BY <2>4 DEF p
<1> HIDE DEF A, B
<1>8. A(n) = j
  BY <1>1, <1>5, <1>6
<1>9. ExtendedAll(NewJournal, t) = q
  BY <1>7, <1>8 DEF q
<1>10. ASSUME NEW k \in 1..Len(t)
       PROVE  CanReplayRecord(A(k - 1), t[k])
  <2>1. CASE k = n + 1
    <3>1. k - 1 = n /\ t[k] = ev
      BY <1>1, <1>3, <2>1
    <3> QED BY <1>8, <3>1
  <2>2. CASE k \in 1..n
    <3>1. k - 1 \in 0..n /\ t[k] = s[k]
      BY <1>1, <1>3, <2>2
    <3>2. A(k - 1) = B(k - 1)
      BY <1>6, <3>1
    <3> QED BY <1>4, <2>2, <3>1, <3>2
  <2> QED BY <1>1, <1>3, <2>1, <2>2
<1>11. CanReplayAll(NewJournal, t)
  BY <1>10 DEF CanReplayAll, InTurn, A, After
<1> QED BY <1>2, <1>9, <1>11 DEF Replayed, q

\* append and the encoder of a group accept no event that strict replay refuses.
LEMMA AcceptedReplays ==
  ASSUME NEW j, NEW i, NEW ev, CanAppend(j, ev) \/ CanPush(i, j, ev)
  PROVE  CanReplayRecord(j, ev)
BY DEF CanAppend, CanPush, CanReplayRecord, CheckEventGrowth

\* The events of an admitted group are each accepted where they stand.
LEMMA GroupPushes ==
  ASSUME NEW j, NEW evs
  PROVE  CanPrepareBatch(j, evs) <=>
           /\ GroupFits(j, Len(evs))
           /\ \A k \in 1..Len(evs) : CanPush(j, After(j, evs, k - 1), evs[k])
BY DEF CanPrepareBatch, InTurn, After

\* A group that prepare_batch accepts keeps the journal replayable.
LEMMA BatchReplayed ==
  ASSUME NEW j, Replayed(j), NEW evs \in Seq(Event), CanPrepareBatch(j, evs)
  PROVE  Replayed(ExtendedAll(j, evs))
<1> DEFINE A(k) == After(j, evs, k)
           S == {k \in Nat : k <= Len(evs) => Replayed(A(k))}
<1>0. Len(evs) \in Nat
  OBVIOUS
<1>1. A(0) = j /\ A(Len(evs)) = ExtendedAll(j, evs)
  BY AfterSteps
<1>2. \A k \in 1..Len(evs) : A(k) = Extended(A(k - 1), evs[k])
  BY AfterSteps
<1>3. \A k \in 1..Len(evs) : CanPush(j, A(k - 1), evs[k])
  BY GroupPushes
<1> HIDE DEF A
<1>4. 0 \in S
  BY <1>1
<1>5. ASSUME NEW k \in Nat, k \in S
      PROVE  k + 1 \in S
  <2>1. SUFFICES ASSUME k + 1 <= Len(evs) PROVE Replayed(A(k + 1))
    OBVIOUS
  <2> DEFINE p == k + 1
  <2>2. Replayed(A(k)) /\ p \in 1..Len(evs) /\ p - 1 = k
    BY <1>0, <1>5, <2>1
  <2> HIDE DEF p
  <2>3. A(p) = Extended(A(k), evs[p]) /\ CanPush(j, A(k), evs[p]) /\ evs[p] \in Event
    BY <1>2, <1>3, <2>2
  <2>4. CanReplayRecord(A(k), evs[p])
    BY <2>3, AcceptedReplays
  <2>5. Replayed(A(p))
    BY <2>2, <2>3, <2>4, ExtendedReplayed
  <2> QED BY <2>5 DEF p
<1>6. Nat \subseteq S
  <2> HIDE DEF S
  <2> QED BY <1>4, <1>5, NatInduct
<1> QED BY <1>0, <1>1, <1>6

-----------------------------------------------------------------------------
(* Capacity.                                                               *)

\* What a record that strict replay accepts leaves of the lifetime limits; an event
\* that is not a recovery event leaves the whole tail.
LEMMA ReplayCapacity ==
  ASSUME NEW j, Shaped(j), NEW ev \in Event, CanReplayRecord(j, ev)
  PROVE  /\ Len(j.log) < MaxRecords /\ j.len + RecordLen(ev) <= MaxTotalBytes
         /\ ev.op \notin RecoveryEvents =>
              /\ Len(j.log) + 1 <= MaxRecords - ReserveRecords
              /\ j.len + RecordLen(ev) <= MaxTotalBytes - ReserveBytes
<1> DEFINE n == Len(j.log)
           l == j.len
           r == RecordLen(ev)
<1>1. n \in Nat /\ l \in Nat /\ r \in Nat /\ r >= 21 /\ r = BodyLen(ev) + 8 /\ BodyLen(ev) \in Nat
  BY RecordLengths DEF Shaped
<1>2. MaxRecords \in Nat /\ MaxTotalBytes \in Nat /\ ReserveRecords \in Nat /\ ReserveBytes \in Nat
  BY JournalAssumption
<1>3. n < MaxRecords /\ l + BodyLen(ev) + 8 <= MaxTotalBytes
  BY DEF CanReplayRecord, CheckGrowth
<1>4. RemainingFor(j, ev).records # 0 /\ r <= RemainingFor(j, ev).bytes
  BY DEF CanReplayRecord, CheckEventGrowth
<1>5. ASSUME ev.op \notin RecoveryEvents
      PROVE  n + 1 <= MaxRecords - ReserveRecords /\ l + r <= MaxTotalBytes - ReserveBytes
  <2>1. /\ RemainingFor(j, ev).records = Monus(MaxRecords - ReserveRecords, n)
        /\ RemainingFor(j, ev).bytes = Monus(MaxTotalBytes - ReserveBytes, l)
    BY <1>5 DEF RemainingFor
  <2>2. Monus(MaxRecords - ReserveRecords, n) # 0 /\ r <= Monus(MaxTotalBytes - ReserveBytes, l)
    BY <1>4, <2>1
  <2> HIDE DEF n, l, r
  <2> QED BY <1>1, <1>2, <2>2 DEF Monus
<1> HIDE DEF n, l
<1>6. l + r <= MaxTotalBytes
  BY <1>1, <1>2, <1>3
<1> QED BY <1>3, <1>5, <1>6 DEF n, l

\* append is capacity, then the law of the ledger.
LEMMA AppendCapacity ==
  ASSUME NEW j, Shaped(j), NEW ev \in Event
  PROVE  CanAppend(j, ev) <=> CanReplayRecord(j, ev)
<1>1. SUFFICES ASSUME CanReplayRecord(j, ev) PROVE CanAppend(j, ev)
  BY DEF CanAppend, CanReplayRecord, CheckEventGrowth
<1> DEFINE c == RemainingFor(j, ev)
           l == PayloadLen(ev)
<1>2. l \in Nat /\ l >= 1 /\ RecordLen(ev) = 20 + l /\ BodyLen(ev) = 12 + l
  BY RecordLengths
<1>3. MaxFrameBytes \in Nat /\ MaxRecords \in Nat /\ MaxTotalBytes \in Nat
      /\ ReserveRecords \in Nat /\ ReserveBytes \in Nat /\ j.len \in Nat
  BY JournalAssumption DEF Shaped
<1>4. c.records # 0 /\ RecordLen(ev) <= c.bytes /\ BodyLen(ev) <= MaxFrameBytes
  BY <1>1 DEF CanReplayRecord, CheckEventGrowth, CheckGrowth
<1>5. c.bytes \in Int
  BY <1>3 DEF RemainingFor, Monus
<1> HIDE DEF c, l
<1>6. c.bytes >= 21 /\ l <= c.bytes - 20 /\ l <= MaxFrameBytes - 12
  BY <1>2, <1>3, <1>4, <1>5
<1> QED BY <1>1, <1>4, <1>6 DEF CanAppend, CanReplayRecord, c, l

\* A push is an append that stays within the bytes left to the group.
LEMMA PushCapacity ==
  ASSUME NEW i, NEW j, Shaped(i), Shaped(j), NEW ev \in Event
  PROVE  CanPush(i, j, ev) <=>
           CanAppend(j, ev) /\ Extended(j, ev).len - i.len <= BatchMaxBytes
<1> DEFINE c == RemainingFor(j, ev)
           l == PayloadLen(ev)
           b == c.bytes
           g == BatchMaxBytes - (j.len - i.len)
           rest == IF g <= b THEN g ELSE b
<1>1. l \in Nat /\ l >= 1 /\ RecordLen(ev) = 20 + l
  BY RecordLengths
<1>2. /\ BatchMaxBytes \in Nat /\ MaxTotalBytes \in Nat /\ ReserveBytes \in Nat
      /\ j.len \in Nat /\ i.len \in Nat
  BY JournalAssumption DEF Shaped
<1>3. b \in Int
  BY <1>2 DEF RemainingFor, Monus
<1>4. Extended(j, ev).len = j.len + (20 + l)
  BY <1>1, ExtendedShape
<1>5. CanPush(i, j, ev) <=>
        /\ c.records # 0 /\ rest >= 21 /\ l <= rest - 20 /\ l <= MaxFrameBytes - 12
        /\ CheckEventGrowth(j, ev) /\ Applies(j.rights, ev)
  BY DEF CanPush
<1>6. CanAppend(j, ev) <=>
        /\ c.records # 0 /\ b >= 21 /\ l <= b - 20 /\ l <= MaxFrameBytes - 12
        /\ CheckEventGrowth(j, ev) /\ Applies(j.rights, ev)
  BY DEF CanAppend
<1> HIDE DEF c, l, b
<1>7. rest >= 21 /\ l <= rest - 20 <=>
        /\ b >= 21 /\ l <= b - 20
        /\ (j.len + (20 + l)) - i.len <= BatchMaxBytes
  BY <1>1, <1>2, <1>3
<1>8. Extended(j, ev).len - i.len <= BatchMaxBytes <=>
        (j.len + (20 + l)) - i.len <= BatchMaxBytes
  BY <1>4
<1> HIDE DEF rest, g
<1> QED BY <1>5, <1>6, <1>7, <1>8

-----------------------------------------------------------------------------
(* The theorems.                                                           *)

JournalInv == Replayed(journal)

\* Every journal that append and append_batch produce is one that strict replay of
\* its records accepts and rebuilds.
THEOREM JournalInvariant == Spec => []JournalInv
<1> USE DEF JournalInv
<1>1. Init => JournalInv
  BY NewReplayed DEF Init
<1>2. ASSUME JournalInv, [Next]_journal
      PROVE  JournalInv'
  <2>1. ASSUME NEW ev \in Event, AppendEvent(ev)
        PROVE  JournalInv'
    <3>1. CanReplayRecord(journal, ev) /\ journal' = Extended(journal, ev)
      BY <2>1, AcceptedReplays DEF AppendEvent
    <3> QED BY <1>2, <3>1, ExtendedReplayed
  <2>2. ASSUME NEW evs \in Groups, AppendBatch(evs)
        PROVE  JournalInv'
    <3>1. CanPrepareBatch(journal, evs) /\ journal' = ExtendedAll(journal, evs)
      BY <2>2 DEF AppendBatch
    <3>2. evs \in Seq(Event)
      BY GroupsAssumption
    <3> QED BY <1>2, <3>1, <3>2, BatchReplayed
  <2> QED BY <1>2, <2>1, <2>2 DEF Next
<1> HIDE DEF JournalInv
<1> QED BY <1>1, <1>2, PTL DEF Spec

\* Strict replay accepts every history that append or append_batch produced, and
\* rebuilds exactly the live journal.
THEOREM JournalReplayReproduces == Spec => []ReplayReproduces
<1>1. JournalInv => ReplayReproduces
  BY DEF JournalInv, Replayed, ReplayReproduces
<1> QED BY <1>1, JournalInvariant, PTL

\* Ordinary events never consume the recovery tail, and a lawful recovery event is
\* refused only when the lifetime limits themselves are used up.
THEOREM JournalTailReserved == Spec => []TailReserved
<1>1. ASSUME JournalInv
      PROVE  TailReserved
  <2>1. Shaped(journal) /\ journal.log \in Seq(Event)
    BY <1>1 DEF JournalInv, Replayed, Shaped
  <2>2. ASSUME NEW k \in OrdinaryRecords
        PROVE  k <= MaxRecords - ReserveRecords /\ Prefix(k).len <= MaxTotalBytes - ReserveBytes
    <3> DEFINE s == journal.log
               B(i) == After(NewJournal, s, i)
               o == k - 1
    <3>1. k \in 1..Len(s) /\ s[k].op \in {"Reserve", "Dispatch", "ResetToCheckpoint"}
      BY DEF OrdinaryRecords
    <3>2. k \in Nat /\ o \in 0..Len(s) /\ o \in Nat /\ o + 1 = k /\ s[k] \in Event
      BY <2>1, <3>1
    <3>3. CanReplayRecord(B(o), s[k])
      BY <1>1, <3>1 DEF JournalInv, Replayed, CanReplayAll, InTurn, After
    <3>4. s[k].op \notin RecoveryEvents
      BY <3>1 DEF RecoveryEvents
    <3>5. B(k) = Extended(B(o), s[k])
      BY <2>1, <3>1, AfterSteps
    <3>6. B(k) = Prefix(k)
      BY DEF After, Prefix
    <3> HIDE DEF s, o
    <3>7. s \in Seq(Event)
      BY <2>1 DEF s
    <3>8. /\ Shaped(B(o)) /\ Len(B(o).log) = Len(NewJournal.log) + o
      BY <3>2, <3>7, NewShaped, AfterShape
    <3>9. Len(B(o).log) = o
      BY <3>2, <3>8, NewShaped
    <3> HIDE DEF B
    <3>10. /\ Len(B(o).log) + 1 <= MaxRecords - ReserveRecords
           /\ B(o).len + RecordLen(s[k]) <= MaxTotalBytes - ReserveBytes
      BY <3>2, <3>3, <3>4, <3>8, ReplayCapacity
    <3>11. B(k).len = B(o).len + RecordLen(s[k])
      BY <3>2, <3>5, <3>8, ExtendedShape
    <3>12. k <= MaxRecords - ReserveRecords
      BY <3>2, <3>9, <3>10
    <3> QED BY <3>6, <3>10, <3>11, <3>12
  <2>3. ASSUME NEW ev \in Event,
               ev.op \in {"RevokeEpoch", "MarkUnknown", "AbortBeforeDispatch", "Reconcile"},
               Applies(journal.rights, ev), BodyLen(ev) <= MaxFrameBytes,
               Len(journal.log) < MaxRecords,
               journal.len + RecordLen(ev) <= MaxTotalBytes
        PROVE  CanAppend(journal, ev)
    <3> DEFINE n == Len(journal.log)
               l == journal.len
               r == RecordLen(ev)
               b == BodyLen(ev)
    <3>1. /\ n \in Nat /\ l \in Nat /\ r \in Nat /\ b \in Nat /\ b >= 13 /\ r = b + 8
          /\ MaxRecords \in Nat /\ MaxTotalBytes \in Nat
      BY <2>1, JournalAssumption, RecordLengths DEF Shaped
    <3>2. /\ RemainingFor(journal, ev).records = MaxRecords - n
          /\ RemainingFor(journal, ev).bytes = MaxTotalBytes - l
      BY <2>3 DEF RemainingFor, RecoveryEvents
    <3>3. n < MaxRecords /\ l + r <= MaxTotalBytes
      BY <2>3
    <3> HIDE DEF n, l, r, b
    <3>4. MaxRecords - n # 0 /\ r <= MaxTotalBytes - l /\ l + b + 8 <= MaxTotalBytes
      BY <3>1, <3>3
    <3>5. CheckGrowth(journal, b)
      BY <2>3, <3>1, <3>3, <3>4 DEF CheckGrowth, n, l, b
    <3>6. CanReplayRecord(journal, ev)
      BY <2>3, <3>2, <3>4, <3>5 DEF CanReplayRecord, CheckEventGrowth, r, b
    <3> QED BY <2>1, <3>6, AppendCapacity
  <2> QED BY <2>2, <2>3 DEF TailReserved
<1> QED BY <1>1, JournalInvariant, PTL

\* A group is accepted exactly when append would take its events one by one and the
\* group keeps its own ceilings.
THEOREM JournalBatchEqualsAppends == Spec => []BatchEqualsAppends
<1>1. ASSUME JournalInv, NEW evs \in Groups
      PROVE  CanPrepareBatch(journal, evs) <=>
               /\ evs # <<>>
               /\ Len(evs) <= BatchMaxRecords
               /\ CanAppendAll(journal, evs)
               /\ ExtendedAll(journal, evs).len - journal.len <= BatchMaxBytes
  <2> DEFINE A(k) == After(journal, evs, k)
             n == Len(evs)
             l(k) == A(k).len
             l0 == journal.len
             c0 == Len(journal.log)
  <2>1. evs \in Seq(Event) /\ n \in Nat /\ Shaped(journal) /\ l0 \in Nat /\ c0 \in Nat
    BY <1>1, GroupsAssumption DEF JournalInv, Replayed, Shaped
  <2>2. A(n) = ExtendedAll(journal, evs)
    BY <2>1, AfterSteps
  <2>3. \A k \in 1..n : A(k) = Extended(A(k - 1), evs[k]) /\ evs[k] \in Event
    <3>1. \A k \in 1..n : A(k) = Extended(A(k - 1), evs[k])
      BY <2>1, AfterSteps
    <3>2. \A k \in 1..n : evs[k] \in Event
      BY <2>1
    <3> QED BY <3>1, <3>2
  <2>4. \A k \in 0..n : /\ Shaped(A(k)) /\ Len(A(k).log) = c0 + k
                        /\ l(k) >= l0 + 21 * k
                        /\ \A i \in 0..k : l(i) <= l(k)
    BY <2>1, AfterShape
  <2>5. CanAppendAll(journal, evs) <=> \A k \in 1..n : CanAppend(A(k - 1), evs[k])
    BY DEF CanAppendAll, InTurn, After
  <2>6. CanPrepareBatch(journal, evs) <=>
          GroupFits(journal, n) /\ \A k \in 1..n : CanPush(journal, A(k - 1), evs[k])
    BY GroupPushes
  <2> HIDE DEF A, n, l0, c0
  <2>7. \A k \in 0..n : l(k) \in Nat
    BY <2>4 DEF Shaped
  <2>8. ASSUME NEW k \in 1..n
        PROVE  CanPush(journal, A(k - 1), evs[k]) <=>
                 CanAppend(A(k - 1), evs[k]) /\ l(k) - l0 <= BatchMaxBytes
    <3>1. k - 1 \in 0..n
      BY <2>1
    <3>2. Shaped(A(k - 1)) /\ evs[k] \in Event /\ Extended(A(k - 1), evs[k]) = A(k)
      BY <2>3, <2>4, <3>1
    <3> QED BY <2>1, <3>2, PushCapacity DEF l0
  <2>9. BatchMaxBytes \in Nat /\ BatchMaxRecords \in Nat /\ MaxRecords \in Nat
        /\ MaxTotalBytes \in Nat
    BY JournalAssumption
  <2>10. evs = <<>> <=> n = 0
    BY <2>1 DEF n
  <2>11. ASSUME CanPrepareBatch(journal, evs)
         PROVE  /\ evs # <<>> /\ n <= BatchMaxRecords
                /\ CanAppendAll(journal, evs) /\ l(n) - l0 <= BatchMaxBytes
    <3>1. n \in 1..BatchMaxRecords
      BY <2>6, <2>11 DEF GroupFits
    <3>2. n # 0 /\ n \in 1..n /\ n <= BatchMaxRecords
      BY <2>1, <2>9, <3>1
    <3>3. \A k \in 1..n : CanAppend(A(k - 1), evs[k]) /\ l(k) - l0 <= BatchMaxBytes
      BY <2>6, <2>8, <2>11
    <3> QED BY <2>5, <2>10, <3>2, <3>3
  <2>12. ASSUME evs # <<>>, n <= BatchMaxRecords,
                CanAppendAll(journal, evs), l(n) - l0 <= BatchMaxBytes
         PROVE  CanPrepareBatch(journal, evs)
    <3>1. /\ n \in 1..BatchMaxRecords /\ n \in 1..n /\ n \in 0..n
          /\ n - 1 \in 0..n /\ n - 1 \in Nat
      BY <2>1, <2>9, <2>10, <2>12
    <3>2. ASSUME NEW k \in 1..n
          PROVE  CanPush(journal, A(k - 1), evs[k])
      <4>1. k \in 0..n
        BY <2>1
      <4>2. l(k) <= l(n) /\ l(k) \in Nat /\ l(n) \in Nat
        BY <2>4, <2>7, <3>1, <4>1
      <4> HIDE DEF l
      <4>3. l(k) - l0 <= BatchMaxBytes
        BY <2>1, <2>9, <2>12, <4>2
      <4>4. CanAppend(A(k - 1), evs[k])
        BY <2>5, <2>12
      <4> QED BY <2>8, <4>3, <4>4
    <3>3. CanAppend(A(n - 1), evs[n]) /\ Shaped(A(n - 1)) /\ evs[n] \in Event
          /\ A(n) = Extended(A(n - 1), evs[n])
      BY <2>3, <2>4, <2>5, <2>12, <3>1
    <3>4. /\ Len(A(n - 1).log) < MaxRecords
          /\ l(n - 1) + RecordLen(evs[n]) <= MaxTotalBytes
      BY <3>3, AppendCapacity, ReplayCapacity
    <3>5. l(n) = l(n - 1) + RecordLen(evs[n])
      BY <3>3, ExtendedShape
    <3>6. c0 + (n - 1) < MaxRecords
      BY <2>4, <3>1, <3>4
    <3>7. l(n) >= l0 + 21 * n /\ l(n) \in Nat /\ l(n) <= MaxTotalBytes
      BY <2>4, <2>7, <3>1, <3>4, <3>5
    <3> HIDE DEF l
    <3>8. /\ c0 + n <= MaxRecords /\ 21 * n <= BatchMaxBytes
          /\ l0 + 21 * n <= MaxTotalBytes
      BY <2>1, <2>9, <2>12, <3>6, <3>7
    <3>9. GroupFits(journal, n)
      BY <3>1, <3>8 DEF GroupFits, c0, l0
    <3> QED BY <2>6, <3>2, <3>9
  <2> QED BY <2>2, <2>11, <2>12 DEF n, l0
<1>2. JournalInv => BatchEqualsAppends
  BY <1>1 DEF BatchEqualsAppends
<1> QED BY <1>2, JournalInvariant, PTL

-----------------------------------------------------------------------------
(* Prefixes of histories, and journals as functions of their histories.    *)

\* A prefix is shorter and agrees.
LEMMA PrefixIff ==
  ASSUME NEW s \in Seq(Event), NEW t \in Seq(Event)
  PROVE  IsPrefix(s, t) <=> Len(s) <= Len(t) /\ \A i \in 1..Len(s) : s[i] = t[i]
<1> DEFINE n == Len(s)
           u == SubSeq(t, 1, n)
<1>1. n \in Nat /\ Len(t) \in Nat /\ n \in 0..n
  OBVIOUS
<1>2. SubSeq(s, 1, n) = s
  BY <1>1, PrefixFacts
<1>3. ASSUME n <= Len(t)
      PROVE  u \in Seq(Event) /\ Len(u) = n /\ \A i \in 1..n : u[i] = t[i]
  <2>1. n \in 0..Len(t)
    BY <1>1, <1>3
  <2> HIDE DEF n
  <2> QED BY <2>1, PrefixFacts
<1>4. IsPrefix(s, t) <=> n <= Len(t) /\ s = u
  BY <1>2 DEF IsPrefix
<1> HIDE DEF u
<1>5. ASSUME n <= Len(t)
      PROVE  s = u <=> \A i \in 1..n : s[i] = t[i]
  <2>1. u \in Seq(Event) /\ Len(u) = n /\ \A i \in 1..n : u[i] = t[i]
    BY <1>3, <1>5
  <2>2. ASSUME \A i \in 1..n : s[i] = t[i]
        PROVE  s = u
    <3>1. \A i \in 1..Len(s) : s[i] = u[i]
      BY <2>1, <2>2
    <3> QED BY <2>1, <3>1, SeqEqual
  <2> QED BY <2>1, <2>2
<1> QED BY <1>4, <1>5

\* The order of prefixes.
LEMMA PrefixLaws ==
  ASSUME NEW s \in Seq(Event), NEW t \in Seq(Event), NEW u \in Seq(Event)
  PROVE  /\ IsPrefix(s, s)
         /\ IsPrefix(<<>>, s)
         /\ IsPrefix(s, t) /\ IsPrefix(t, u) => IsPrefix(s, u)
         /\ IsPrefix(s, t) /\ Len(t) <= Len(s) => s = t
         /\ IsPrefix(s, s \o t)
         /\ IsPrefix(s, t) => Len(s) <= Len(t) /\ s = SubSeq(t, 1, Len(s))
<1>1. Len(s) \in Nat /\ Len(t) \in Nat /\ Len(u) \in Nat
  OBVIOUS
<1>2. IsPrefix(s, s)
  BY <1>1, PrefixIff
<1>3. IsPrefix(<<>>, s)
  <2> DEFINE e == <<>>
  <2>1. e \in Seq(Event) /\ Len(e) = 0
    OBVIOUS
  <2> HIDE DEF e
  <2>2. Len(e) <= Len(s) /\ \A i \in 1..Len(e) : e[i] = s[i]
    BY <1>1, <2>1
  <2>3. IsPrefix(e, s)
    BY <2>1, <2>2, PrefixIff
  <2> QED BY <2>3 DEF e
<1>4. ASSUME IsPrefix(s, t), IsPrefix(t, u)
      PROVE  IsPrefix(s, u)
  <2>1. Len(s) <= Len(t) /\ Len(t) <= Len(u) /\ \A i \in 1..Len(s) : s[i] = t[i]
    BY <1>4, PrefixIff
  <2>2. \A i \in 1..Len(t) : t[i] = u[i]
    BY <1>4, PrefixIff
  <2>3. Len(s) <= Len(u) /\ \A i \in 1..Len(s) : s[i] = u[i]
    BY <1>1, <2>1, <2>2
  <2> QED BY <2>3, PrefixIff
<1>5. ASSUME IsPrefix(s, t), Len(t) <= Len(s)
      PROVE  s = t
  <2>1. Len(s) = Len(t) /\ \A i \in 1..Len(s) : s[i] = t[i]
    BY <1>1, <1>5, PrefixIff
  <2> QED BY <2>1, SeqEqual
<1>6. IsPrefix(s, s \o t)
  <2> DEFINE c == s \o t
  <2>1. /\ c \in Seq(Event) /\ Len(c) = Len(s) + Len(t)
        /\ \A i \in 1..(Len(s) + Len(t)) :
             c[i] = IF i <= Len(s) THEN s[i] ELSE t[i - Len(s)]
    BY ConcatProperties
  <2> HIDE DEF c
  <2>2. \A i \in 1..Len(s) : s[i] = c[i]
    BY <1>1, <2>1
  <2>3. Len(s) <= Len(c)
    BY <1>1, <2>1
  <2>4. IsPrefix(s, c)
    BY <2>1, <2>2, <2>3, PrefixIff
  <2> QED BY <2>4 DEF c
<1>7. ASSUME IsPrefix(s, t)
      PROVE  Len(s) <= Len(t) /\ s = SubSeq(t, 1, Len(s))
  <2>1. SubSeq(s, 1, Len(s)) = s
    BY <1>1, PrefixFacts
  <2> QED BY <1>7, <2>1 DEF IsPrefix
<1> QED BY <1>2, <1>3, <1>4, <1>5, <1>6, <1>7

\* Prefixes and the first k elements.
LEMMA PrefixCut ==
  ASSUME NEW s \in Seq(Event), NEW t \in Seq(Event), NEW k \in 0..Len(t)
  PROVE  /\ SubSeq(t, 1, k) \in Seq(Event) /\ Len(SubSeq(t, 1, k)) = k
         /\ IsPrefix(SubSeq(t, 1, k), t)
         /\ IsPrefix(s, t) /\ Len(s) <= k => IsPrefix(s, SubSeq(t, 1, k))
         /\ \A i \in 0..k : SubSeq(SubSeq(t, 1, k), 1, i) = SubSeq(t, 1, i)
<1> DEFINE u == SubSeq(t, 1, k)
<1>1. u \in Seq(Event) /\ Len(u) = k /\ \A i \in 1..k : u[i] = t[i]
  BY PrefixFacts
<1>2. k \in Nat /\ Len(t) \in Nat /\ k <= Len(t) /\ Len(s) \in Nat
  OBVIOUS
<1> HIDE DEF u
<1>3. IsPrefix(u, t)
  BY <1>1, <1>2, PrefixIff
<1>4. ASSUME IsPrefix(s, t), Len(s) <= k
      PROVE  IsPrefix(s, u)
  <2>1. \A i \in 1..Len(s) : s[i] = t[i]
    BY <1>4, PrefixIff
  <2>2. \A i \in 1..Len(s) : i \in 1..k
    BY <1>2, <1>4
  <2>3. \A i \in 1..Len(s) : s[i] = u[i]
    BY <1>1, <2>1, <2>2
  <2> QED BY <1>1, <1>4, <2>3, PrefixIff
<1>5. ASSUME NEW i \in 0..k
      PROVE  SubSeq(u, 1, i) = SubSeq(t, 1, i)
  <2>1. i \in 0..Len(u) /\ i \in 0..Len(t) /\ i \in Nat
    BY <1>1, <1>2
  <2>2. /\ SubSeq(u, 1, i) \in Seq(Event) /\ Len(SubSeq(u, 1, i)) = i
        /\ \A m \in 1..i : SubSeq(u, 1, i)[m] = u[m]
    BY <1>1, <2>1, PrefixFacts
  <2>3. /\ SubSeq(t, 1, i) \in Seq(Event) /\ Len(SubSeq(t, 1, i)) = i
        /\ \A m \in 1..i : SubSeq(t, 1, i)[m] = t[m]
    BY <2>1, PrefixFacts
  <2>4. \A m \in 1..i : m \in 1..k
    BY <1>2, <2>1
  <2>5. \A m \in 1..i : SubSeq(u, 1, i)[m] = SubSeq(t, 1, i)[m]
    BY <1>1, <2>2, <2>3, <2>4
  <2> QED BY <2>2, <2>3, <2>5, SeqEqual
<1> QED BY <1>1, <1>3, <1>4, <1>5 DEF u

\* Prefixes and one more element.
LEMMA PrefixNext ==
  ASSUME NEW s \in Seq(Event), NEW t \in Seq(Event), IsPrefix(s, t), Len(s) < Len(t)
  PROVE  /\ t[Len(s) + 1] \in Event
         /\ Append(s, t[Len(s) + 1]) \in Seq(Event)
         /\ IsPrefix(s, Append(s, t[Len(s) + 1]))
         /\ IsPrefix(Append(s, t[Len(s) + 1]), t)
         /\ Append(s, t[Len(s) + 1]) = SubSeq(t, 1, Len(s) + 1)
<1> DEFINE n == Len(s)
           e == t[n + 1]
           u == Append(s, e)
<1>1. n \in Nat /\ Len(t) \in Nat /\ n + 1 \in 1..Len(t) /\ n + 1 \in 0..Len(t)
  OBVIOUS
<1>2. e \in Event
  BY <1>1
<1>3. \A i \in 1..n : s[i] = t[i]
  BY PrefixIff
<1>4. /\ u \in Seq(Event) /\ Len(u) = n + 1 /\ u[n + 1] = e
      /\ \A i \in 1..n : u[i] = s[i]
  BY <1>2, AppendPrefixes
<1>5. e = t[n + 1]
  OBVIOUS
<1> HIDE DEF e, u
<1>6. ASSUME NEW i \in 1..(n + 1)
      PROVE  u[i] = t[i]
  <2>1. i \in 1..n \/ i = n + 1
    BY <1>1
  <2> QED BY <1>3, <1>4, <1>5, <2>1
<1> HIDE DEF n
<1>7. IsPrefix(u, t)
  BY <1>1, <1>4, <1>6, PrefixIff
<1>8. IsPrefix(s, u)
  BY <1>1, <1>4, PrefixIff DEF n
<1>9. u = SubSeq(t, 1, n + 1)
  BY <1>4, <1>7, PrefixLaws
<1> QED BY <1>2, <1>4, <1>7, <1>8, <1>9 DEF n, e, u

-----------------------------------------------------------------------------
(* The file: what is on disk, and what each handle knows of it.            *)

\* The journals that strict replay of some records rebuilds.
Journals == {ExtendedAll(NewJournal, s) : s \in {t \in Seq(Event) : Replayable(t)}}

Disks == [header : {"none", "partial", "whole"}, recs : Seq(Event), torn : BOOLEAN]

Handles ==
  [mode : Modes, call : Calls, journal : Journals, poisoned : BOOLEAN,
   minimum : Seq(Event), target : Journals, torn : BOOLEAN, wrote : Nat]

\* d and y are exactly journal j, synchronized.
Exactly(j, d, y) ==
  /\ d = [header |-> "whole", recs |-> j.log, torn |-> FALSE]
  /\ y = [header |-> TRUE, count |-> Len(j.log)]

\* Handle h is replaying disk d for a caller that retains r.
Replaying(h, d, y, r) ==
  /\ IsPrefix(h.journal.log, d.recs)
  /\ Len(h.minimum) <= Len(h.journal.log) => IsPrefix(h.minimum, h.journal.log)
  /\ h.call \in {"none", "capture"}
  /\ h.call = "none" => h.minimum = r
  /\ h.call = "capture" => Exactly(h.target, d, y) /\ IsPrefix(r, h.target.log)

\* Handle h has validated the first events of group g, and written nothing.
Preparing(h, d, y, r, g) ==
  LET k == Len(h.target.log) - Len(h.journal.log)
  IN  /\ Exactly(h.journal, d, y)
      /\ IsPrefix(r, h.journal.log)
      /\ h.call = "cooperative"
      /\ g.anchor = h.journal.log
      /\ g.events \in Seq(Event)
      /\ k \in 0..(Len(g.events) - 1)
      /\ h.target.log = g.anchor \o SubSeq(g.events, 1, k)

\* Handle h has written some of what group g adds to its journal.
Writing(h, d, r, g) ==
  /\ IsPrefix(r, h.journal.log)
  /\ IsPrefix(h.journal.log, h.target.log)
  /\ h.target.log = g.anchor \o g.events
  /\ h.wrote <= Len(h.target.log) - Len(h.journal.log)
  /\ d.header = "whole"
  /\ d.recs = SubSeq(h.target.log, 1, Len(h.journal.log) + h.wrote)
  /\ d.torn = h.torn
  /\ h.call # "cooperative" => h.poisoned

\* All of it.
Wrote(h) == h.wrote = Len(h.target.log) - Len(h.journal.log) /\ ~h.torn

\* Handle h against disk d with y of it synchronized, and against what its caller
\* keeps: a head r and a group g.
HandleOk(h, d, y, r, g) ==
  /\ h.mode = "created" => d.header = "partial" /\ r = <<>>
  /\ h.mode = "creating" => d.header # "none" /\ d.recs = <<>> /\ ~d.torn /\ r = <<>>
  /\ h.mode \in {"replaying", "replayed"} => Replaying(h, d, y, r)
  /\ h.mode = "replayed" =>
       /\ d.header = "whole" /\ ~d.torn /\ Len(h.journal.log) = Len(d.recs)
       /\ Len(h.minimum) <= Len(h.journal.log)
  /\ h.mode = "open" =>
       /\ IsPrefix(r, h.journal.log)
       /\ ~h.poisoned => Exactly(h.journal, d, y)
  /\ h.mode = "preparing" => Preparing(h, d, y, r, g)
  /\ h.mode \in {"writing", "ready", "written"} => Writing(h, d, r, g)
  /\ h.mode \in {"open", "preparing"} => h.wrote = 0 /\ ~h.torn
  /\ h.mode \in {"ready", "written"} => Wrote(h)
  /\ h.mode \in {"open", "writing", "ready"} => y.header
  /\ h.mode = "written" => y = [header |-> TRUE, count |-> Len(d.recs)]

\* The file is always readable, and the acknowledged history is a synchronized part
\* of it until the file is replaced.  A caller that retains a head has seen a file
\* whose header is safe.
DiskOk ==
  /\ disk \in Disks
  /\ Replayable(disk.recs)
  /\ disk.header # "whole" => disk.recs = <<>> /\ ~disk.torn /\ ~synced.header
  /\ synced \in [header : BOOLEAN, count : Nat] /\ synced.count <= Len(disk.recs)

AckedOk ==
  /\ acked \in Seq(Event) /\ restored \in BOOLEAN
  /\ ~restored => IsPrefix(acked, SubSeq(disk.recs, 1, synced.count))
  /\ \A p \in Procs : retained[p] # <<>> => synced.header

\* What the callers keep of their groups.
GroupsOk ==
  /\ DOMAIN group = Procs
  /\ \A p \in Procs :
       group[p] = NoGroup \/ (group[p].anchor \in Seq(Event) /\ group[p].events \in Seq(Event))

\* At most one handle holds the lock, and at most one is creating the file.
Creates(h) == h.mode \in {"created", "creating"}

Exclusive ==
  \A p, q \in Procs :
    (Locks(handle[p]) /\ Locks(handle[q])) \/ (Creates(handle[p]) /\ Creates(handle[q]))
      => p = q

FileInv ==
  /\ DiskOk
  /\ AckedOk
  /\ handle \in [Procs -> Handles]
  /\ retained \in [Procs -> Seq(Event)]
  /\ GroupsOk
  /\ Exclusive
  /\ \A p \in Procs : HandleOk(handle[p], disk, synced, retained[p], group[p])

\* The records of a journal after some events are its own, then the events.
LEMMA AfterLog ==
  ASSUME NEW j, Shaped(j), NEW evs \in Seq(Event)
  PROVE  /\ \A k \in 0..Len(evs) : After(j, evs, k).log = j.log \o SubSeq(evs, 1, k)
         /\ ExtendedAll(j, evs).log = j.log \o evs
<1> DEFINE A(k) == After(j, evs, k)
           n == Len(evs)
           C(k) == j.log \o SubSeq(evs, 1, k)
           S == {k \in Nat : k <= n => A(k).log = C(k)}
<1>0. n \in Nat /\ j.log \in Seq(Event)
  BY DEF Shaped
<1>1. 0 \in S
  <2>1. A(0) = j
    BY AfterSteps
  <2>2. SubSeq(evs, 1, 0) = <<>>
    OBVIOUS
  <2>3. j.log \o <<>> = j.log
    BY <1>0, ConcatEmptySeq
  <2> HIDE DEF A
  <2> QED BY <2>1, <2>2, <2>3
<1>2. ASSUME NEW k \in Nat, k \in S
      PROVE  k + 1 \in S
  <2>1. SUFFICES ASSUME k + 1 <= n PROVE A(k + 1).log = C(k + 1)
    <3> HIDE DEF A, C
    <3> QED OBVIOUS
  <2> DEFINE p == k + 1
             e == evs[p]
             u == SubSeq(evs, 1, k)
             v == SubSeq(evs, 1, p)
  <2>2. p \in 1..n /\ p - 1 = k /\ k \in 0..n /\ p \in 0..n /\ A(k).log = C(k)
    <3>1. p \in 1..n /\ p - 1 = k /\ k \in 0..n /\ p \in 0..n
      BY <1>0, <2>1
    <3> HIDE DEF A, C
    <3>2. A(k).log = C(k)
      BY <1>0, <1>2, <2>1
    <3> QED BY <3>1, <3>2
  <2>3. e \in Event /\ A(p) = Extended(A(k), e)
    <3> HIDE DEF p
    <3>1. A(p) = Extended(A(p - 1), e)
      BY <2>2, AfterSteps
    <3> QED BY <2>2, <3>1
  <2>4. u \in Seq(Event) /\ Len(u) = k /\ v \in Seq(Event) /\ Len(v) = p
    BY <2>2, PrefixCut
  <2>5. IsPrefix(u, evs)
    BY <2>2, PrefixCut
  <2>6. Append(u, e) = v
    <3>1. k < Len(evs) /\ Len(u) < Len(evs)
      BY <1>0, <2>1, <2>4
    <3> HIDE DEF u
    <3>2. Append(u, evs[Len(u) + 1]) = SubSeq(evs, 1, Len(u) + 1)
      BY <2>4, <2>5, <3>1, PrefixNext
    <3> QED BY <2>4, <3>2
  <2>7. A(p).log = Append(A(k).log, e)
    BY <2>3 DEF Extended
  <2>8. Append(j.log \o u, e) = j.log \o Append(u, e)
    <3> HIDE DEF u, e
    <3>1. Append(j.log \o u, e) = (j.log \o u) \o <<e>>
      <4> DEFINE w == j.log \o u
      <4>1. w \in Seq(Event)
        BY <1>0, <2>4, ConcatProperties
      <4> HIDE DEF w
      <4>2. Append(w, e) = w \o <<e>>
        BY <2>3, <4>1, AppendIsConcat
      <4> QED BY <4>2 DEF w
    <3>2. Append(u, e) = u \o <<e>>
      BY <2>3, <2>4, AppendIsConcat
    <3>3. <<e>> \in Seq(Event)
      BY <2>3
    <3>4. (j.log \o u) \o <<e>> = j.log \o (u \o <<e>>)
      <4> DEFINE w == <<e>>
                 l == j.log
      <4> HIDE DEF w, l
      <4>1. w \in Seq(Event) /\ l \in Seq(Event)
        BY <1>0, <3>3 DEF w, l
      <4>2. (l \o u) \o w = l \o (u \o w)
        BY <2>4, <4>1, ConcatAssociative
      <4> QED BY <4>2 DEF w, l
    <3> QED BY <3>1, <3>2, <3>4
  <2> HIDE DEF A, u, v, e, p
  <2>9. A(p).log = j.log \o v
    BY <2>2, <2>6, <2>7, <2>8 DEF u
  <2> QED BY <2>9 DEF v, p
<1>3. Nat \subseteq S
  <2> HIDE DEF S
  <2> QED BY <1>1, <1>2, NatInduct
<1>4. \A k \in 0..n : A(k).log = C(k)
  <2> HIDE DEF A, C
  <2> QED BY <1>0, <1>3
<1>5. n \in 0..n /\ SubSeq(evs, 1, n) = evs /\ A(n) = ExtendedAll(j, evs)
  BY <1>0, PrefixFacts, AfterSteps
<1>6. A(n).log = C(n)
  BY <1>4, <1>5
<1> HIDE DEF A
<1> QED BY <1>4, <1>5, <1>6 DEF A

\* Adding a history in two parts is adding it at once.
LEMMA AfterConcat ==
  ASSUME NEW j, NEW s \in Seq(Event), NEW t \in Seq(Event)
  PROVE  /\ \A k \in 0..Len(t) :
              After(j, s \o t, Len(s) + k) = After(ExtendedAll(j, s), t, k)
         /\ ExtendedAll(j, s \o t) = ExtendedAll(ExtendedAll(j, s), t)
<1> DEFINE c == s \o t
           i == ExtendedAll(j, s)
           m == Len(s)
           n == Len(t)
           S == {k \in Nat : k <= n => After(j, c, m + k) = After(i, t, k)}
<1>1. /\ c \in Seq(Event) /\ Len(c) = m + n
      /\ \A x \in 1..(m + n) : c[x] = IF x <= m THEN s[x] ELSE t[x - m]
  BY ConcatProperties
<1>2. m \in Nat /\ n \in Nat /\ m \in 0..m
  OBVIOUS
<1>3. IsPrefix(s, c)
  BY PrefixLaws
<1> HIDE DEF c, i
<1>4. 0 \in S
  <2>1. After(i, t, 0) = i
    BY AfterSteps
  <2>2. s = SubSeq(c, 1, m)
    BY <1>1, <1>3, PrefixLaws
  <2>3. After(j, c, m) = i
    BY <2>2 DEF After, i
  <2>4. m + 0 = m
    BY <1>2
  <2> QED BY <2>1, <2>3, <2>4
<1>5. ASSUME NEW k \in Nat, k \in S
      PROVE  k + 1 \in S
  <2>1. SUFFICES ASSUME k + 1 <= n PROVE After(j, c, m + (k + 1)) = After(i, t, k + 1)
    OBVIOUS
  <2> DEFINE p == k + 1
             o == m + p
  <2>2. p \in 1..n /\ p - 1 = k /\ o \in 1..Len(c) /\ o - 1 = m + k /\ o - m = p /\ ~ (o <= m)
    BY <1>1, <1>2, <2>1
  <2>3. After(j, c, m + k) = After(i, t, k)
    BY <1>2, <1>5, <2>1
  <2> HIDE DEF p, o
  <2>4. After(j, c, o) = Extended(After(j, c, o - 1), c[o])
    BY <1>1, <2>2, AfterSteps
  <2>5. After(i, t, p) = Extended(After(i, t, p - 1), t[p])
    <3>1. \A x \in 1..n : After(i, t, x) = Extended(After(i, t, x - 1), t[x])
      BY AfterSteps
    <3> QED BY <2>2, <3>1
  <2>6. c[o] = t[p]
    BY <1>1, <2>2
  <2>7. After(j, c, o) = After(i, t, p)
    BY <2>2, <2>3, <2>4, <2>5, <2>6
  <2> QED BY <2>7 DEF o, p
<1>6. Nat \subseteq S
  <2> HIDE DEF S
  <2> QED BY <1>4, <1>5, NatInduct
<1>7. \A k \in 0..n : After(j, c, m + k) = After(i, t, k)
  BY <1>2, <1>6
<1>8. ExtendedAll(j, c) = ExtendedAll(i, t)
  <2>1. After(j, c, Len(c)) = ExtendedAll(j, c) /\ After(i, t, n) = ExtendedAll(i, t)
    BY <1>1, AfterSteps
  <2>2. After(j, c, m + n) = After(i, t, n)
    BY <1>2, <1>7
  <2> QED BY <1>1, <2>1, <2>2
<1> QED BY <1>7, <1>8 DEF c, i

\* Every first part of a replayable history is replayable.
LEMMA ReplayablePrefix ==
  ASSUME NEW s \in Seq(Event), NEW t \in Seq(Event), Replayable(t), IsPrefix(s, t)
  PROVE  Replayable(s)
<1> DEFINE n == Len(s)
<1>1. n \in Nat /\ Len(t) \in Nat /\ n <= Len(t) /\ s = SubSeq(t, 1, n) /\ n \in 0..Len(t)
  BY PrefixLaws
<1>2. \A i \in 0..n : SubSeq(s, 1, i) = SubSeq(t, 1, i)
  <2> HIDE DEF n
  <2> QED BY <1>1, PrefixCut
<1>3. \A k \in 1..n : s[k] = t[k]
  BY PrefixIff
<1>4. ASSUME NEW k \in 1..n
      PROVE  CanReplayRecord(ExtendedAll(NewJournal, SubSeq(s, 1, k - 1)), s[k])
  <2>1. k \in 1..Len(t) /\ k - 1 \in 0..n
    BY <1>1
  <2>2. CanReplayRecord(ExtendedAll(NewJournal, SubSeq(t, 1, k - 1)), t[k])
    BY <2>1 DEF Replayable, CanReplayAll, InTurn
  <2> QED BY <1>2, <1>3, <2>1, <2>2
<1> QED BY <1>4 DEF Replayable, CanReplayAll, InTurn

\* The journals are those that a replayable history rebuilds, one for each.
LEMMA JournalOfHistory ==
  ASSUME NEW s \in Seq(Event), Replayable(s)
  PROVE  /\ ExtendedAll(NewJournal, s) \in Journals
         /\ ExtendedAll(NewJournal, s).log = s
         /\ Replayed(ExtendedAll(NewJournal, s))
<1> DEFINE j == ExtendedAll(NewJournal, s)
<1>1. j \in Journals
  BY DEF Journals
<1>2. j.log = <<>> \o s
  BY NewShaped, AfterLog
<1>3. <<>> \o s = s
  BY ConcatEmptySeq
<1>4. Shaped(j)
  <2>1. After(NewJournal, s, Len(s)) = j /\ Len(s) \in 0..Len(s)
    BY AfterSteps
  <2> QED BY <2>1, NewShaped, AfterShape
<1>5. j.log = s
  BY <1>2, <1>3
<1> HIDE DEF j
<1>6. CanReplayAll(NewJournal, j.log) /\ ExtendedAll(NewJournal, j.log) = j
  BY <1>5 DEF Replayable, j
<1>7. Replayed(j)
  BY <1>4, <1>6 DEF Replayed
<1> QED BY <1>1, <1>5, <1>7 DEF j

\* Being such a journal is being rebuilt by its own records.
LEMMA JournalFacts ==
  ASSUME NEW j
  PROVE  j \in Journals <=> Replayed(j)
<1>1. ASSUME j \in Journals
      PROVE  Replayed(j)
  <2>1. PICK s \in Seq(Event) : Replayable(s) /\ j = ExtendedAll(NewJournal, s)
    BY <1>1 DEF Journals
  <2> QED BY <2>1, JournalOfHistory
<1>2. ASSUME Replayed(j)
      PROVE  j \in Journals
  <2>1. j.log \in Seq(Event) /\ Replayable(j.log) /\ j = ExtendedAll(NewJournal, j.log)
    BY <1>2 DEF Replayed, Shaped, Replayable
  <2> QED BY <2>1 DEF Journals
<1> QED BY <1>1, <1>2

\* What is known of a journal that replays.
LEMMA JournalKnown ==
  ASSUME NEW j \in Journals
  PROVE  /\ Replayed(j) /\ Shaped(j)
         /\ j.log \in Seq(Event) /\ Len(j.log) \in Nat /\ Replayable(j.log)
         /\ j = ExtendedAll(NewJournal, j.log)
<1>1. Replayed(j)
  BY JournalFacts
<1>2. Shaped(j) /\ j.log \in Seq(Event) /\ Replayable(j.log) /\ j = ExtendedAll(NewJournal, j.log)
  BY <1>1 DEF Replayed, Shaped, Replayable
<1> QED BY <1>1, <1>2

-----------------------------------------------------------------------------
(* Steps of one handle.                                                    *)

\* A released handle is one of the handles.
LEMMA ClosedHandle == Closed \in Handles /\ Closed.mode = "closed" /\ NewJournal \in Journals
<1>1. NewJournal \in Journals
  BY NewReplayed, JournalFacts
<1>2. <<>> \in Seq(Event)
  OBVIOUS
<1> QED BY <1>1, <1>2 DEF Closed, Handles, Modes, Calls

\* What the invariant says of one handle.
LEMMA HandleKnown ==
  ASSUME FileInv, NEW p \in Procs
  PROVE  /\ handle[p] \in Handles
         /\ handle[p].journal \in Journals /\ handle[p].target \in Journals
         /\ handle[p].mode \in Modes /\ handle[p].call \in Calls
         /\ handle[p].poisoned \in BOOLEAN /\ handle[p].torn \in BOOLEAN
         /\ handle[p].minimum \in Seq(Event) /\ handle[p].wrote \in Nat
         /\ HandleOk(handle[p], disk, synced, retained[p], group[p])
         /\ retained[p] \in Seq(Event)
<1>1. /\ handle[p] \in Handles /\ retained[p] \in Seq(Event)
      /\ HandleOk(handle[p], disk, synced, retained[p], group[p])
  BY DEF FileInv
<1> QED BY <1>1 DEF Handles

\* What the invariant says of the file.
LEMMA DiskKnown ==
  ASSUME FileInv
  PROVE  /\ disk.header \in {"none", "partial", "whole"}
         /\ disk.recs \in Seq(Event) /\ Len(disk.recs) \in Nat /\ disk.torn \in BOOLEAN
         /\ Replayable(disk.recs)
         /\ disk.header # "whole" => disk.recs = <<>> /\ ~disk.torn /\ ~synced.header
         /\ synced.header \in BOOLEAN /\ synced.count \in Nat /\ synced.count <= Len(disk.recs)
         /\ acked \in Seq(Event) /\ restored \in BOOLEAN
         /\ ~restored => IsPrefix(acked, SubSeq(disk.recs, 1, synced.count))
         /\ \A p \in Procs : retained[p] # <<>> => synced.header
BY DEF FileInv, DiskOk, AckedOk, Disks

\* While p holds the lock, the other handles know nothing of the file but that it
\* has no header yet.
LEMMA OthersIdle ==
  ASSUME FileInv, NEW p \in Procs, Locks(handle[p]), NEW q \in Procs, q # p,
         NEW d, NEW y, d.header = disk.header
  PROVE  HandleOk(handle[q], d, y, retained[q], group[q])
<1>1. ~Locks(handle[q])
  BY DEF FileInv, Exclusive
<1>2. handle[q].mode \in {"closed", "created"}
  BY <1>1 DEF Locks
<1>3. handle[q].mode = "created" => d.header = "partial" /\ retained[q] = <<>>
  BY HandleKnown DEF HandleOk
<1> QED BY <1>2, <1>3 DEF HandleOk

\* One handle moves to h; the lock is taken only when it is free.
LEMMA HandleMoves ==
  ASSUME FileInv, NEW p \in Procs, NEW h \in Handles,
         handle' = [handle EXCEPT ![p] = h],
         retained' \in [Procs -> Seq(Event)], GroupsOk',
         \A q \in Procs \ {p} : retained'[q] = retained[q] /\ group'[q] = group[q],
         DiskOk', AckedOk',
         HandleOk(h, disk', synced', retained'[p], group'[p]),
         Locks(h) => Locks(handle[p]) \/ LockFree,
         Creates(h) => Creates(handle[p]) \/ \A q \in Procs : ~Creates(handle[q]),
         \A q \in Procs \ {p} : HandleOk(handle[q], disk', synced', retained[q], group[q])
  PROVE  FileInv'
<1>1. /\ handle \in [Procs -> Handles] /\ Exclusive
  BY DEF FileInv
<1>2. /\ handle' \in [Procs -> Handles] /\ handle'[p] = h
      /\ \A q \in Procs \ {p} : handle'[q] = handle[q]
  BY <1>1
<1>3. ASSUME NEW q \in Procs
      PROVE  HandleOk(handle[q], disk, synced, retained[q], group[q])'
  <2>1. CASE q = p
    BY <1>2, <2>1
  <2>2. CASE q # p
    <3>1. q \in Procs \ {p}
      BY <2>2
    <3>2. handle'[q] = handle[q] /\ retained'[q] = retained[q] /\ group'[q] = group[q]
      BY <1>2, <3>1
    <3>3. HandleOk(handle[q], disk', synced', retained[q], group[q])
      BY <3>1
    <3> QED BY <3>2, <3>3
  <2> QED BY <2>1, <2>2
<1>4. Exclusive'
  <2> SUFFICES ASSUME NEW a \in Procs, NEW b \in Procs, a # b
               PROVE  /\ ~(Locks(handle'[a]) /\ Locks(handle'[b]))
                      /\ ~(Creates(handle'[a]) /\ Creates(handle'[b]))
    BY DEF Exclusive
  <2>1. /\ ~(Locks(handle[a]) /\ Locks(handle[b]))
        /\ ~(Creates(handle[a]) /\ Creates(handle[b]))
    BY <1>1 DEF Exclusive
  <2>2. LockFree => ~Locks(handle[a]) /\ ~Locks(handle[b])
    BY DEF LockFree
  <2>3. CASE a = p
    <3>1. handle'[a] = h /\ handle'[b] = handle[b]
      BY <1>2, <2>3
    <3> QED BY <2>1, <2>2, <2>3, <3>1
  <2>4. CASE b = p
    <3>1. handle'[b] = h /\ handle'[a] = handle[a]
      BY <1>2, <2>4
    <3> QED BY <2>1, <2>2, <2>4, <3>1
  <2>5. CASE a # p /\ b # p
    <3>1. handle'[a] = handle[a] /\ handle'[b] = handle[b]
      BY <1>2, <2>5
    <3> QED BY <2>1, <3>1
  <2> QED BY <2>3, <2>4, <2>5
<1> QED BY <1>2, <1>3, <1>4 DEF FileInv

\* One handle moves and the file stays as it is.
LEMMA HandleAlone ==
  ASSUME FileInv, NEW p \in Procs, NEW h \in Handles,
         handle' = [handle EXCEPT ![p] = h],
         UNCHANGED <<disk, synced, retained, acked, restored>>,
         GroupsOk', \A q \in Procs \ {p} : group'[q] = group[q],
         HandleOk(h, disk, synced, retained[p], group'[p]),
         Locks(h) => Locks(handle[p]) \/ LockFree,
         Creates(h) => Creates(handle[p])
  PROVE  FileInv'
<1>1. DiskOk' /\ AckedOk'
  BY DEF FileInv, DiskOk, AckedOk
<1>2. retained' \in [Procs -> Seq(Event)] /\ \A q \in Procs : retained'[q] = retained[q]
  BY DEF FileInv
<1>3. HandleOk(h, disk', synced', retained'[p], group'[p])
  BY <1>2
<1>4. \A q \in Procs \ {p} : HandleOk(handle[q], disk', synced', retained[q], group[q])
  BY DEF FileInv
<1>5. \A q \in Procs \ {p} : retained'[q] = retained[q] /\ group'[q] = group[q]
  BY <1>2
<1> QED BY <1>1, <1>2, <1>3, <1>4, <1>5, HandleMoves

\* A handle that is closed, has failed or was poisoned while open asks nothing of the
\* file.
LEMMA HandleInert ==
  ASSUME NEW h, NEW d, NEW y, NEW r, NEW g,
         \/ h.mode \in {"closed", "failed"}
         \/ /\ h.mode = "open" /\ h.poisoned /\ IsPrefix(r, h.journal.log) /\ y.header
            /\ h.wrote = 0 /\ ~h.torn
  PROVE  HandleOk(h, d, y, r, g) /\ ~Creates(h)
BY DEF HandleOk, Creates

\* The handle is, or is again, a healthy owner of j.
Opened(j) == [Closed EXCEPT !.mode = "open", !.journal = j]

\* Such an owner is one of the handles.
LEMMA OpenedHandle ==
  ASSUME NEW j \in Journals
  PROVE  /\ Opened(j) \in Handles /\ Opened(j).mode = "open" /\ Opened(j).journal = j
         /\ ~Opened(j).poisoned /\ Opened(j).wrote = 0 /\ ~Opened(j).torn
BY ClosedHandle DEF Opened, Closed, Handles, Modes, Calls

\* A step leaves what was acknowledged as it was, or adds to it.
Acknowledges ==
  \/ acked' = acked
  \/ acked' \in Seq(Event) /\ Replayable(acked') /\ IsPrefix(acked, acked')

\* A journal is published by the holder of the lock, on a file that is exactly this
\* journal and synchronized.  What was acknowledged before is a part of it.
LEMMA PublishKeeps ==
  ASSUME FileInv, NEW p \in Procs, NEW j \in Journals, Locks(handle[p]), Publish(p, j),
         UNCHANGED <<disk, retained, restored>>, Exactly(j, disk, synced'),
         IsPrefix(retained[p], j.log),
         GroupsOk', \A q \in Procs \ {p} : group'[q] = group[q]
  PROVE  FileInv' /\ Acknowledges
<1>1. /\ Opened(j) \in Handles /\ Opened(j).mode = "open" /\ Opened(j).journal = j
      /\ ~Opened(j).poisoned /\ Opened(j).wrote = 0 /\ ~Opened(j).torn
  BY OpenedHandle
<1>2. /\ handle' = [handle EXCEPT ![p] = Opened(j)]
      /\ acked' = IF restored THEN acked ELSE j.log
  BY DEF Publish, Opened
<1>3. /\ disk.header = "whole" /\ disk.recs = j.log /\ ~disk.torn
      /\ synced' = [header |-> TRUE, count |-> Len(j.log)]
  BY DEF Exactly
<1>4. j.log \in Seq(Event) /\ Len(j.log) \in Nat
  BY JournalKnown
<1>5. /\ synced'.count = Len(disk.recs) /\ synced' \in [header : BOOLEAN, count : Nat]
      /\ synced'.header
  BY <1>3, <1>4
<1>6. DiskOk'
  BY <1>4, <1>5, <1>3 DEF FileInv, DiskOk
<1>7. ~restored => IsPrefix(acked, j.log)
  <2> DEFINE s == disk.recs
             n == synced.count
  <2>1. s \in Seq(Event) /\ n \in 0..Len(s) /\ acked \in Seq(Event)
    BY DiskKnown
  <2>2. ~restored => IsPrefix(acked, SubSeq(s, 1, n))
    BY DiskKnown
  <2> HIDE DEF s, n
  <2> DEFINE c == SubSeq(s, 1, n)
  <2>3. c \in Seq(Event) /\ IsPrefix(c, s)
    BY <2>1, PrefixCut
  <2>4. ~restored => IsPrefix(acked, c)
    BY <2>2
  <2> HIDE DEF c
  <2>5. ~restored => IsPrefix(acked, s)
    BY <2>1, <2>3, <2>4, PrefixLaws
  <2> QED BY <1>3, <2>5 DEF s
<1>8. AckedOk'
  <2> DEFINE s == j.log
             n == Len(s)
  <2>1. SubSeq(s, 1, n) = s /\ IsPrefix(s, s)
    BY <1>4, PrefixFacts, PrefixLaws
  <2>2. acked' \in Seq(Event) /\ restored' \in BOOLEAN /\ restored' = restored
    BY <1>2, <1>4, DiskKnown
  <2>3. disk'.recs = s /\ synced'.count = n
    BY <1>3
  <2> HIDE DEF s, n
  <2>4. ~restored => IsPrefix(acked', SubSeq(s, 1, n))
    BY <1>2, <2>1 DEF s
  <2> QED BY <1>5, <2>2, <2>3, <2>4 DEF AckedOk
<1>9. retained' \in [Procs -> Seq(Event)] /\ retained' = retained
  BY DEF FileInv
<1>10. HandleOk(Opened(j), disk', synced', retained'[p], group'[p]) /\ ~Creates(Opened(j))
  BY <1>1, <1>5, <1>9 DEF HandleOk, Creates
<1>11. \A q \in Procs \ {p} : HandleOk(handle[q], disk', synced', retained[q], group[q])
  BY OthersIdle
<1>12. \A q \in Procs \ {p} : retained'[q] = retained[q] /\ group'[q] = group[q]
  BY <1>9
<1>13. FileInv'
  BY <1>1, <1>2, <1>6, <1>8, <1>9, <1>10, <1>11, <1>12, HandleMoves
<1>14. Acknowledges
  <2>1. Replayable(j.log)
    BY JournalKnown
  <2> QED BY <1>2, <1>4, <1>7, <2>1 DEF Acknowledges
<1> QED BY <1>13, <1>14

\* Handle h in another mode.
InMode(h, m) == [h EXCEPT !.mode = m]

\* Nothing else of it changes.
LEMMA InModeFields ==
  ASSUME NEW h \in Handles, NEW m \in Modes
  PROVE  /\ InMode(h, m) \in Handles
         /\ InMode(h, m).mode = m /\ InMode(h, m).call = h.call
         /\ InMode(h, m).journal = h.journal /\ InMode(h, m).target = h.target
         /\ InMode(h, m).minimum = h.minimum /\ InMode(h, m).poisoned = h.poisoned
         /\ InMode(h, m).wrote = h.wrote /\ InMode(h, m).torn = h.torn
BY DEF InMode, Handles

\* The group of another process is not touched when none is.
LEMMA GroupKept ==
  ASSUME FileInv, NEW p \in Procs, group' = group
  PROVE  GroupsOk' /\ \A q \in Procs \ {p} : group'[q] = group[q]
BY DEF FileInv, GroupsOk

\* Only the empty history has no records.
LEMMA PrefixOfEmpty ==
  ASSUME NEW s \in Seq(Event), Len(s) <= 0
  PROVE  s = <<>> /\ IsPrefix(s, <<>>)
<1> DEFINE e == <<>>
<1>1. e \in Seq(Event) /\ Len(e) = 0
  OBVIOUS
<1>2. IsPrefix(e, s)
  BY PrefixLaws
<1> HIDE DEF e
<1>3. e = s
  BY <1>1, <1>2, PrefixLaws
<1>4. IsPrefix(s, s)
  BY PrefixLaws
<1> QED BY <1>3, <1>4 DEF e

-----------------------------------------------------------------------------
(* Every action keeps the invariant: creation.                             *)

\* create_new makes the file where there was none.
LEMMA CreateFileKeeps ==
  ASSUME FileInv, NEW p \in Procs, CreateFile(p)
  PROVE  FileInv'
<1> DEFINE h == InMode(handle[p], "created")
<1>1. /\ handle[p].mode = "closed" /\ disk.header = "none"
      /\ disk' = [disk EXCEPT !.header = "partial"]
      /\ handle' = [handle EXCEPT ![p] = h]
      /\ UNCHANGED <<synced, retained, group, acked, restored>>
  BY DEF CreateFile, InMode
<1>2. h \in Handles /\ h.mode = "created"
  BY HandleKnown, InModeFields DEF Modes
<1> HIDE DEF h
<1>3. /\ disk \in Disks /\ disk'.header = "partial" /\ disk'.recs = disk.recs
      /\ disk'.torn = disk.torn /\ disk' \in Disks
  BY <1>1 DEF FileInv, DiskOk, Disks
<1>4. disk.recs = <<>> /\ ~disk.torn
  BY <1>1, DiskKnown
<1>5. DiskOk'
  BY <1>1, <1>3, <1>4 DEF FileInv, DiskOk
<1>6. AckedOk'
  BY <1>1, <1>3 DEF FileInv, AckedOk
<1>7. HandleOk(h, disk', synced', retained'[p], group'[p])
  <2>1. retained'[p] = <<>>
    BY <1>1, DiskKnown
  <2> QED BY <1>2, <1>3, <2>1 DEF HandleOk
<1>8. ASSUME NEW q \in Procs
      PROVE  /\ ~Creates(handle[q])
             /\ HandleOk(handle[q], disk', synced', retained[q], group[q])
  <2>1. HandleOk(handle[q], disk, synced, retained[q], group[q])
    BY HandleKnown
  <2>2. ~Creates(handle[q])
    BY <1>1, <2>1 DEF HandleOk, Creates
  <2>3. ASSUME NEW j, NEW y PROVE ~Exactly(j, disk, y)
    BY <1>1 DEF Exactly
  <2>4. handle[q].mode \notin {"created", "creating", "replayed", "preparing",
                               "writing", "ready", "written"}
    BY <1>1, <2>1, <2>3 DEF HandleOk, Writing, Preparing
  <2>5. handle[q].mode = "replaying" => Replaying(handle[q], disk', synced', retained[q])
    <3>1. handle[q].mode = "replaying" => Replaying(handle[q], disk, synced, retained[q])
      BY <2>1 DEF HandleOk
    <3> QED BY <1>3, <2>3, <3>1 DEF Replaying
  <2>6. handle[q].mode # "open"
    BY <1>1, <2>1, DiskKnown DEF HandleOk
  <2> QED BY <2>2, <2>4, <2>5, <2>6 DEF HandleOk
<1>9. /\ retained' \in [Procs -> Seq(Event)] /\ GroupsOk'
      /\ \A q \in Procs \ {p} : retained'[q] = retained[q] /\ group'[q] = group[q]
  BY <1>1 DEF FileInv, GroupsOk
<1>10. ~Locks(h)
  BY <1>2 DEF Locks
<1> QED BY <1>1, <1>2, <1>5, <1>6, <1>7, <1>8, <1>9, <1>10, HandleMoves

\* The lock is taken, or the file is left to the process that was faster.
LEMMA CreateLockKeeps ==
  ASSUME FileInv, NEW p \in Procs, CreateLock(p)
  PROVE  FileInv'
<1>1. /\ handle[p].mode = "created"
      /\ UNCHANGED <<disk, synced, retained, group, acked, restored>>
  BY DEF CreateLock
<1>2. GroupsOk' /\ \A q \in Procs \ {p} : group'[q] = group[q]
  BY <1>1, GroupKept
<1>3. CASE LockFree
  <2> DEFINE h == InMode(handle[p], "creating")
  <2>1. handle' = [handle EXCEPT ![p] = h]
    BY <1>3 DEF CreateLock, InMode
  <2>2. h \in Handles /\ h.mode = "creating"
    BY HandleKnown, InModeFields DEF Modes
  <2> HIDE DEF h
  <2>3. disk.header = "partial" /\ disk.recs = <<>> /\ ~disk.torn /\ retained[p] = <<>>
    BY <1>1, HandleKnown, DiskKnown DEF HandleOk
  <2>4. HandleOk(h, disk, synced, retained[p], group'[p])
    BY <2>2, <2>3 DEF HandleOk
  <2>5. Creates(handle[p])
    BY <1>1 DEF Creates
  <2> QED BY <1>1, <1>2, <1>3, <2>1, <2>2, <2>4, <2>5, HandleAlone
<1>4. CASE ~LockFree
  <2>1. handle' = [handle EXCEPT ![p] = Closed]
    BY <1>4 DEF CreateLock
  <2>2. HandleOk(Closed, disk, synced, retained[p], group'[p]) /\ ~Creates(Closed)
    BY ClosedHandle, HandleInert
  <2>3. ~Locks(Closed) /\ Closed \in Handles
    BY ClosedHandle DEF Locks
  <2> QED BY <1>1, <1>2, <2>1, <2>2, <2>3, HandleAlone
<1> QED BY <1>3, <1>4

\* The header is completed by the process that made the file; no other handle uses it.
LEMMA CreateHeaderKeeps ==
  ASSUME FileInv, NEW p \in Procs, CreateHeader(p)
  PROVE  FileInv'
<1>1. /\ handle[p].mode = "creating" /\ disk.header = "partial"
      /\ disk' = [disk EXCEPT !.header = "whole"]
      /\ UNCHANGED <<synced, handle, retained, group, acked, restored>>
  BY DEF CreateHeader
<1>2. /\ disk \in Disks /\ disk'.header = "whole" /\ disk'.recs = disk.recs
      /\ disk'.torn = disk.torn /\ disk' \in Disks
  BY <1>1 DEF FileInv, DiskOk, Disks
<1>3. disk.recs = <<>> /\ ~disk.torn
  BY <1>1, DiskKnown
<1>4. DiskOk'
  BY <1>1, <1>2, <1>3 DEF FileInv, DiskOk
<1>5. AckedOk'
  BY <1>1, <1>2 DEF FileInv, AckedOk
<1>6. ASSUME NEW q \in Procs
      PROVE  HandleOk(handle[q], disk', synced', retained[q], group[q])
  <2>1. CASE q = p
    <3>1. retained[q] = <<>>
      BY <1>1, <2>1, DiskKnown
    <3> QED BY <1>1, <1>2, <1>3, <2>1, <3>1 DEF HandleOk
  <2>2. CASE q # p
    <3>1. Locks(handle[p]) /\ Creates(handle[p])
      BY <1>1 DEF Locks, Creates
    <3>2. ~Locks(handle[q]) /\ ~Creates(handle[q])
      BY <2>2, <3>1 DEF FileInv, Exclusive
    <3>3. handle[q].mode = "closed"
      BY <3>2 DEF Locks, Creates
    <3> QED BY <3>3, HandleInert
  <2> QED BY <2>1, <2>2
<1>7. Exclusive'
  BY <1>1 DEF FileInv, Exclusive
<1> QED BY <1>1, <1>4, <1>5, <1>6, <1>7 DEF FileInv, GroupsOk

\* Creation is acknowledged once the header is synchronized.
LEMMA CreateSyncKeeps ==
  ASSUME FileInv, NEW p \in Procs, CreateSync(p)
  PROVE  FileInv' /\ Acknowledges
<1>1. /\ handle[p].mode = "creating" /\ disk.header = "whole" /\ synced' = SyncedAll
      /\ Publish(p, NewJournal) /\ UNCHANGED <<disk, retained, group, restored>>
  BY DEF CreateSync
<1>2. GroupsOk' /\ \A q \in Procs \ {p} : group'[q] = group[q]
  BY <1>1, GroupKept
<1>3. disk.recs = <<>> /\ ~disk.torn /\ retained[p] = <<>>
  BY <1>1, HandleKnown DEF HandleOk
<1>4. NewJournal \in Journals /\ NewJournal.log = <<>> /\ Locks(handle[p])
  BY <1>1, ClosedHandle, NewShaped DEF Locks
<1>5. disk = [header |-> "whole", recs |-> NewJournal.log, torn |-> FALSE]
  BY <1>1, <1>3, <1>4 DEF FileInv, DiskOk, Disks
<1>6. synced' = [header |-> TRUE, count |-> Len(NewJournal.log)]
  BY <1>1, <1>3, <1>4 DEF SyncedAll
<1>7. Exactly(NewJournal, disk, synced')
  BY <1>5, <1>6 DEF Exactly
<1>8. IsPrefix(retained[p], NewJournal.log)
  BY <1>3, <1>4, HandleKnown, PrefixLaws
<1> QED BY <1>1, <1>2, <1>4, <1>7, <1>8, PublishKeeps

\* A handle that is released, fails, or is poisoned while it stays open, leaves
\* everything else alone.
LEMMA InertKeeps ==
  ASSUME FileInv, NEW p \in Procs, NEW h \in Handles, handle' = [handle EXCEPT ![p] = h],
         UNCHANGED <<disk, synced, retained, group, acked, restored>>,
         \/ h.mode = "closed"
         \/ h.mode = "failed" /\ Locks(handle[p])
         \/ /\ h.mode = "open" /\ h.poisoned /\ IsPrefix(retained[p], h.journal.log)
            /\ synced.header /\ h.wrote = 0 /\ ~h.torn /\ Locks(handle[p])
  PROVE  FileInv'
<1>1. GroupsOk' /\ \A q \in Procs \ {p} : group'[q] = group[q]
  BY GroupKept
<1>2. HandleOk(h, disk, synced, retained[p], group'[p]) /\ ~Creates(h)
  BY HandleInert
<1>3. Locks(h) => Locks(handle[p])
  BY DEF Locks
<1> QED BY <1>1, <1>2, <1>3, HandleAlone

-----------------------------------------------------------------------------
(* Recovery.                                                               *)

\* What a session that has replayed nothing needs of the file.
LEMMA BegunReplays ==
  ASSUME FileInv, NEW r, NEW h \in Handles, h.mode = "replaying", h.journal = NewJournal,
         \/ h.call = "none" /\ h.minimum = r
         \/ h.call = "capture" /\ Exactly(h.target, disk, synced) /\ IsPrefix(r, h.target.log)
  PROVE  \A g : HandleOk(h, disk, synced, r, g)
<1>1. h.journal.log = <<>> /\ h.minimum \in Seq(Event)
  BY NewShaped DEF Handles
<1>2. IsPrefix(<<>>, disk.recs)
  BY DiskKnown, PrefixLaws
<1>3. Len(h.minimum) <= Len(<<>>) => IsPrefix(h.minimum, <<>>)
  BY <1>1, PrefixOfEmpty
<1>4. Replaying(h, disk, synced, r)
  BY <1>1, <1>2, <1>3 DEF Replaying
<1> QED BY <1>4 DEF HandleOk

\* begin_open locks the file and has checked none of it.
LEMMA BeginOpenKeeps ==
  ASSUME FileInv, NEW p \in Procs, BeginOpen(p)
  PROVE  FileInv'
<1> DEFINE r == retained[p]
           h == [Closed EXCEPT !.mode = "replaying", !.minimum = r]
<1>1. /\ LockFree /\ handle' = [handle EXCEPT ![p] = h]
      /\ UNCHANGED <<disk, synced, retained, group, acked, restored>>
  BY DEF BeginOpen
<1>2. r \in Seq(Event)
  BY HandleKnown
<1> HIDE DEF r
<1>3. /\ h \in Handles /\ h.mode = "replaying" /\ h.journal = NewJournal /\ h.call = "none"
      /\ h.minimum = r
  BY <1>2, ClosedHandle DEF Closed, Handles, Modes, Calls
<1> HIDE DEF h
<1>4. HandleOk(h, disk, synced, r, group'[p])
  BY <1>3, BegunReplays
<1>5. ~Creates(h)
  BY <1>3 DEF Creates
<1>6. GroupsOk' /\ \A q \in Procs \ {p} : group'[q] = group[q]
  BY <1>1, GroupKept
<1> QED BY <1>1, <1>3, <1>4, <1>5, <1>6, HandleAlone DEF r

\* begin_history_anchor replays the owner's own file under the owner's lock.
LEMMA BeginCaptureKeeps ==
  ASSUME FileInv, NEW p \in Procs, BeginCapture(p)
  PROVE  FileInv'
<1> DEFINE j == handle[p].journal
           h == [Closed EXCEPT !.mode = "replaying", !.call = "capture",
                               !.minimum = j.log, !.target = j]
<1>1. /\ handle[p].mode = "open" /\ ~handle[p].poisoned /\ handle' = [handle EXCEPT ![p] = h]
      /\ UNCHANGED <<disk, synced, retained, group, acked, restored>>
  BY DEF BeginCapture, Healthy
<1>2. j \in Journals /\ j.log \in Seq(Event)
  BY HandleKnown, JournalKnown
<1>3. Exactly(j, disk, synced) /\ IsPrefix(retained[p], j.log)
  BY <1>1, HandleKnown DEF HandleOk
<1>4. /\ h \in Handles /\ h.mode = "replaying" /\ h.journal = NewJournal
      /\ h.call = "capture" /\ h.target = j
  <2> HIDE DEF j
  <2> QED BY <1>2, ClosedHandle DEF Closed, Handles, Modes, Calls
<1> HIDE DEF h
<1>5. HandleOk(h, disk, synced, retained[p], group'[p])
  BY <1>3, <1>4, BegunReplays
<1>6. ~Creates(h) /\ Locks(handle[p])
  BY <1>1, <1>4 DEF Creates, Locks
<1>7. GroupsOk' /\ \A q \in Procs \ {p} : group'[q] = group[q]
  BY <1>1, GroupKept
<1> QED BY <1>1, <1>4, <1>5, <1>6, <1>7, HandleAlone

\* One more whole record is checked: what is replayed stays a first part of the file,
\* and passes through the retained head.
LEMMA ReplayRecordKeeps ==
  ASSUME FileInv, NEW p \in Procs, ReplayRecord(p)
  PROVE  FileInv'
<1> DEFINE o == handle[p]
           s == o.journal.log
           t == disk.recs
           ev == t[Len(s) + 1]
           j == Extended(o.journal, ev)
           h == [o EXCEPT !.journal = j]
           u == Append(s, ev)
<1>1. /\ o.mode = "replaying" /\ Len(s) + 1 <= Len(t) /\ disk.header = "whole"
      /\ CanReplayRecord(o.journal, ev) /\ MeetsMinimum(u, o.minimum)
      /\ handle' = [handle EXCEPT ![p] = h]
      /\ UNCHANGED <<disk, synced, retained, group, acked, restored>>
  BY DEF ReplayRecord
<1>2. /\ o \in Handles /\ o.journal \in Journals /\ o.minimum \in Seq(Event)
      /\ Replaying(o, disk, synced, retained[p])
  BY <1>1, HandleKnown DEF HandleOk
<1>3. /\ s \in Seq(Event) /\ Len(s) \in Nat /\ t \in Seq(Event) /\ Len(t) \in Nat
      /\ Replayed(o.journal) /\ Shaped(o.journal) /\ IsPrefix(s, t) /\ Len(s) < Len(t)
  BY <1>1, <1>2, DiskKnown, JournalKnown DEF Replaying
<1>4. ev \in Event /\ u \in Seq(Event) /\ IsPrefix(s, u) /\ IsPrefix(u, t)
  <2> HIDE DEF s, t
  <2> QED BY <1>3, PrefixNext
<1>5. j \in Journals /\ j.log = u /\ Len(u) = Len(s) + 1
  <2> HIDE DEF ev
  <2>1. Replayed(j)
    BY <1>1, <1>3, <1>4, ExtendedReplayed
  <2>2. j.log = u /\ Len(j.log) = Len(s) + 1
    BY <1>3, <1>4, ExtendedShape
  <2> QED BY <2>1, <2>2, JournalFacts
<1>6. /\ h \in Handles /\ h.mode = "replaying" /\ h.journal = j /\ h.call = o.call
      /\ h.minimum = o.minimum /\ h.target = o.target
  <2> HIDE DEF j, o
  <2> QED BY <1>1, <1>2, <1>5 DEF Handles
<1>7. Len(o.minimum) <= Len(u) => IsPrefix(o.minimum, u)
  <2> DEFINE m == o.minimum
  <2>1. m \in Seq(Event) /\ Len(m) \in Nat
    BY <1>2
  <2>2. Len(m) <= Len(s) => IsPrefix(m, s)
    BY <1>2 DEF Replaying
  <2>3. Len(m) = Len(u) => u = m
    BY <1>1 DEF MeetsMinimum
  <2> HIDE DEF m, s, u
  <2>4. Len(m) <= Len(s) => IsPrefix(m, u)
    BY <1>3, <1>4, <2>1, <2>2, PrefixLaws
  <2>5. Len(m) = Len(u) => IsPrefix(m, u)
    BY <1>4, <2>1, <2>3, PrefixLaws
  <2>6. Len(m) <= Len(u) => Len(m) <= Len(s) \/ Len(m) = Len(u)
    BY <1>3, <1>5, <2>1
  <2> QED BY <2>4, <2>5, <2>6 DEF m
<1> HIDE DEF h
<1>8. Replaying(h, disk, synced, retained[p])
  <2> HIDE DEF j, u, s
  <2>1. h.journal.log = u
    BY <1>5, <1>6
  <2> QED BY <1>2, <1>4, <1>6, <1>7, <2>1 DEF Replaying
<1>9. HandleOk(h, disk, synced, retained[p], group'[p])
  BY <1>6, <1>8 DEF HandleOk
<1>10. ~Creates(h) /\ Locks(handle[p])
  BY <1>1, <1>6 DEF Creates, Locks
<1>11. GroupsOk' /\ \A q \in Procs \ {p} : group'[q] = group[q]
  BY <1>1, GroupKept
<1> QED BY <1>1, <1>6, <1>9, <1>10, <1>11, HandleAlone

\* The end of the file, with the retained head behind it.
LEMMA ReplayEndKeeps ==
  ASSUME FileInv, NEW p \in Procs, ReplayEnd(p)
  PROVE  FileInv'
<1> DEFINE o == handle[p]
           h == InMode(o, "replayed")
<1>1. /\ o.mode = "replaying" /\ CleanEnd(o) /\ handle' = [handle EXCEPT ![p] = h]
      /\ UNCHANGED <<disk, synced, retained, group, acked, restored>>
  BY DEF ReplayEnd, InMode
<1>2. o \in Handles /\ Replaying(o, disk, synced, retained[p])
  BY <1>1, HandleKnown DEF HandleOk
<1>3. /\ h \in Handles /\ h.mode = "replayed" /\ h.journal = o.journal /\ h.call = o.call
      /\ h.minimum = o.minimum /\ h.target = o.target
  BY <1>2, InModeFields DEF Modes
<1> HIDE DEF h
<1>4. HandleOk(h, disk, synced, retained[p], group'[p])
  BY <1>1, <1>2, <1>3 DEF HandleOk, Replaying, CleanEnd
<1>5. ~Creates(h) /\ Locks(handle[p])
  BY <1>1, <1>3 DEF Creates, Locks
<1>6. GroupsOk' /\ \A q \in Procs \ {p} : group'[q] = group[q]
  BY <1>1, GroupKept
<1> QED BY <1>1, <1>3, <1>4, <1>5, <1>6, HandleAlone

\* A session that fails leaves the file alone.
LEMMA ReplayFailKeeps ==
  ASSUME FileInv, NEW p \in Procs, ReplayFail(p)
  PROVE  FileInv'
<1> DEFINE h == InMode(handle[p], "failed")
<1>1. /\ handle[p].mode = "replaying" /\ handle' = [handle EXCEPT ![p] = h]
      /\ UNCHANGED <<disk, synced, retained, group, acked, restored>>
  BY DEF ReplayFail, InMode
<1>2. h \in Handles /\ h.mode = "failed" /\ Locks(handle[p])
  BY <1>1, HandleKnown, InModeFields DEF Modes, Locks
<1> HIDE DEF h
<1> QED BY <1>1, <1>2, InertKeeps

\* A finished replay has read the whole file, through the head its caller retains.
LEMMA ReplayedWhole ==
  ASSUME FileInv, NEW p \in Procs, handle[p].mode = "replayed"
  PROVE  /\ handle[p].journal \in Journals /\ Locks(handle[p])
         /\ disk = [header |-> "whole", recs |-> handle[p].journal.log, torn |-> FALSE]
         /\ handle[p].call = "none" => IsPrefix(retained[p], handle[p].journal.log)
         /\ handle[p].call = "capture" =>
              /\ Exactly(handle[p].target, disk, synced)
              /\ IsPrefix(retained[p], handle[p].target.log)
<1> DEFINE h == handle[p]
           s == h.journal.log
           t == disk.recs
<1>1. /\ h.journal \in Journals /\ Replaying(h, disk, synced, retained[p])
      /\ disk.header = "whole" /\ ~disk.torn /\ Len(s) = Len(t) /\ Len(h.minimum) <= Len(s)
  BY HandleKnown DEF HandleOk
<1>2. s \in Seq(Event) /\ Len(s) \in Nat /\ t \in Seq(Event) /\ IsPrefix(s, t)
  BY <1>1, DiskKnown, JournalKnown DEF Replaying
<1>3. s = t
  <2> HIDE DEF s, t
  <2> QED BY <1>1, <1>2, PrefixLaws
<1>4. disk = [header |-> "whole", recs |-> s, torn |-> FALSE]
  BY <1>1, <1>3 DEF FileInv, DiskOk, Disks
<1> QED BY <1>1, <1>4 DEF Replaying, Locks

\* finish synchronizes what was replayed and then exposes it.
LEMMA FinishOpenKeeps ==
  ASSUME FileInv, NEW p \in Procs, FinishOpen(p)
  PROVE  FileInv' /\ Acknowledges
<1> DEFINE j == handle[p].journal
<1>1. /\ handle[p].mode = "replayed" /\ handle[p].call = "none" /\ synced' = RecoverySync
      /\ Publish(p, j) /\ UNCHANGED <<disk, retained, group, restored>>
  BY DEF FinishOpen
<1>2. /\ j \in Journals /\ Locks(handle[p]) /\ IsPrefix(retained[p], j.log)
      /\ disk = [header |-> "whole", recs |-> j.log, torn |-> FALSE]
  BY <1>1, ReplayedWhole
<1> HIDE DEF j
<1>3. Exactly(j, disk, synced')
  BY <1>1, <1>2 DEF Exactly, RecoverySync, SyncedAll
<1>4. GroupsOk' /\ \A q \in Procs \ {p} : group'[q] = group[q]
  BY <1>1, GroupKept
<1> QED BY <1>1, <1>2, <1>3, <1>4, PublishKeeps

\* finish of a capture hands the owner back as it was.
LEMMA FinishCaptureKeeps ==
  ASSUME FileInv, NEW p \in Procs, FinishCapture(p)
  PROVE  FileInv' /\ Acknowledges
<1> DEFINE j == handle[p].target
<1>1. /\ handle[p].mode = "replayed" /\ handle[p].call = "capture"
      /\ Publish(p, j) /\ UNCHANGED <<disk, synced, retained, group, restored>>
  BY DEF FinishCapture
<1>2. /\ j \in Journals /\ Locks(handle[p]) /\ IsPrefix(retained[p], j.log)
      /\ Exactly(j, disk, synced)
  BY <1>1, ReplayedWhole, HandleKnown
<1> HIDE DEF j
<1>3. Exactly(j, disk, synced')
  BY <1>1, <1>2
<1>4. GroupsOk' /\ \A q \in Procs \ {p} : group'[q] = group[q]
  BY <1>1, GroupKept
<1> QED BY <1>1, <1>2, <1>3, <1>4, PublishKeeps

-----------------------------------------------------------------------------
(* Extending the journal.                                                  *)

\* The part of t after m, cut at w and at k: what is written between two calls.
LEMMA WrittenPart ==
  ASSUME NEW t \in Seq(Event), NEW m \in Nat, NEW w \in Nat, NEW k \in Nat,
         w <= k, m + k <= Len(t)
  PROVE  /\ SubSeq(t, 1, m + w) \o SubSeq(SubSeq(t, m + 1, Len(t)), w + 1, k)
              = SubSeq(t, 1, m + k)
         /\ Len(SubSeq(t, m + 1, Len(t))) = Len(t) - m
<1> DEFINE n == Len(t)
           rest == SubSeq(t, m + 1, n)
           a == SubSeq(t, 1, m + w)
           b == SubSeq(rest, w + 1, k)
           c == SubSeq(t, 1, m + k)
<1>1. n \in Nat /\ m + w \in 0..n /\ m + k \in 0..n
  OBVIOUS
<1>2. a \in Seq(Event) /\ Len(a) = m + w /\ \A i \in 1..(m + w) : a[i] = t[i]
  BY <1>1, PrefixFacts
<1>3. c \in Seq(Event) /\ Len(c) = m + k /\ \A i \in 1..(m + k) : c[i] = t[i]
  BY <1>1, PrefixFacts
<1>4. rest \in Seq(Event) /\ Len(rest) = n - m /\ \A i \in 1..(n - m) : rest[i] = t[m + i]
  BY <1>1
<1> HIDE DEF a, c, rest
<1>5. b \in Seq(Event) /\ Len(b) = k - w /\ \A i \in 1..(k - w) : b[i] = rest[w + i]
  BY <1>1, <1>4
<1> HIDE DEF b
<1>6. /\ a \o b \in Seq(Event) /\ Len(a \o b) = Len(a) + Len(b)
      /\ \A i \in 1..(Len(a) + Len(b)) :
           (a \o b)[i] = IF i <= Len(a) THEN a[i] ELSE b[i - Len(a)]
  <2>1. a \in Seq(Event) /\ b \in Seq(Event)
    BY <1>2, <1>5
  <2> QED BY <2>1, ConcatProperties
<1>7. Len(a \o b) = m + k /\ \A i \in 1..(m + k) : (a \o b)[i] = c[i]
  <2>1. Len(a) + Len(b) = m + k
    BY <1>2, <1>5
  <2>2. ASSUME NEW i \in 1..(m + k), i <= m + w
        PROVE  (a \o b)[i] = c[i]
    <3>1. (a \o b)[i] = a[i]
      BY <1>2, <1>6, <2>1, <2>2
    <3>2. i \in 1..(m + w)
      BY <2>2
    <3> QED BY <1>2, <1>3, <3>1, <3>2
  <2>3. ASSUME NEW i \in 1..(m + k), ~(i <= m + w)
        PROVE  (a \o b)[i] = c[i]
    <3> DEFINE q == i - (m + w)
    <3>1. q \in 1..(k - w) /\ w + q \in 1..(n - m) /\ m + (w + q) = i
      BY <1>1, <2>3
    <3>2. (a \o b)[i] = b[q]
      BY <1>2, <1>6, <2>1, <2>3
    <3> HIDE DEF q
    <3>3. b[q] = rest[w + q]
      BY <1>5, <3>1
    <3>4. rest[w + q] = t[m + (w + q)]
      BY <1>4, <3>1
    <3> QED BY <1>3, <3>1, <3>2, <3>3, <3>4
  <2> QED BY <1>6, <2>1, <2>2, <2>3
<1>8. a \o b = c
  BY <1>3, <1>6, <1>7, SeqEqual
<1> QED BY <1>4, <1>8 DEF a, b, c, rest

\* The rest of a group goes where the group went.
LEMMA GroupRest ==
  ASSUME NEW s \in Seq(Event), NEW evs \in Seq(Event), NEW c \in 0..Len(evs)
  PROVE  /\ SubSeq(evs, c + 1, Len(evs)) \in Seq(Event)
         /\ Len(SubSeq(evs, c + 1, Len(evs))) = Len(evs) - c
         /\ \A i \in 1..(Len(evs) - c) : SubSeq(evs, c + 1, Len(evs))[i] = evs[c + i]
         /\ (s \o SubSeq(evs, 1, c)) \o SubSeq(evs, c + 1, Len(evs)) = s \o evs
<1> DEFINE n == Len(evs)
           a == SubSeq(evs, 1, c)
           b == SubSeq(evs, c + 1, n)
<1>1. n \in Nat /\ c \in Nat /\ c <= n
  OBVIOUS
<1>2. a \in Seq(Event) /\ Len(a) = c /\ \A i \in 1..c : a[i] = evs[i]
  BY <1>1, PrefixFacts
<1>3. b \in Seq(Event) /\ Len(b) = n - c /\ \A i \in 1..(n - c) : b[i] = evs[c + i]
  BY <1>1
<1> HIDE DEF a, b
<1>4. SubSeq(evs, 1, c) \o SubSeq(evs, c + 1, n) = SubSeq(evs, 1, n)
  <2>1. 1 \in 1..(Len(evs) + 1) /\ c \in (1 - 1)..Len(evs) /\ n \in c..Len(evs)
    BY <1>1
  <2> HIDE DEF n
  <2> QED BY <2>1, ConcatAdjacentSubSeq
<1>5. SubSeq(evs, 1, n) = evs
  BY SubSeqFull
<1>6. a \o b = evs
  BY <1>4, <1>5 DEF a, b
<1>7. (s \o a) \o b = s \o (a \o b)
  BY <1>2, <1>3, ConcatAssociative
<1> QED BY <1>3, <1>6, <1>7 DEF a, b

\* What a healthy owner is.
LEMMA HealthyKnown ==
  ASSUME FileInv, NEW p \in Procs, Healthy(p)
  PROVE  /\ handle[p].mode = "open" /\ ~handle[p].poisoned
         /\ handle[p].wrote = 0 /\ ~handle[p].torn
         /\ Locks(handle[p]) /\ handle[p].journal \in Journals
         /\ Exactly(handle[p].journal, disk, synced) /\ synced.header
         /\ IsPrefix(retained[p], handle[p].journal.log)
BY HandleKnown DEF Healthy, HandleOk, Locks

\* The owner h after it started to write evs.
LEMMA StartFields ==
  ASSUME NEW h \in Handles, NEW call \in {"commit", "resume"}, NEW evs,
         ExtendedAll(h.journal, evs) \in Journals
  PROVE  /\ StartWriting(h, call, evs) \in Handles
         /\ StartWriting(h, call, evs).mode = "writing"
         /\ StartWriting(h, call, evs).call = call
         /\ StartWriting(h, call, evs).target = ExtendedAll(h.journal, evs)
         /\ StartWriting(h, call, evs).journal = h.journal
         /\ StartWriting(h, call, evs).poisoned
         /\ StartWriting(h, call, evs).wrote = h.wrote
         /\ StartWriting(h, call, evs).torn = h.torn
<1> DEFINE t == ExtendedAll(h.journal, evs)
<1>1. t \in Journals
  OBVIOUS
<1> HIDE DEF t
<1> DEFINE i == [h EXCEPT !.poisoned = TRUE]
           e == [i EXCEPT !.mode = "writing", !.call = call, !.target = t]
<1>2. /\ i \in Handles /\ i.journal = h.journal /\ i.poisoned = TRUE /\ i.wrote = h.wrote
      /\ i.torn = h.torn
  BY DEF Handles
<1>3. StartWriting(h, call, evs) = e
  BY DEF StartWriting, Poison, t
<1> HIDE DEF i
<1>4. /\ e \in Handles /\ e.mode = "writing" /\ e.call = call /\ e.target = t
      /\ e.journal = i.journal /\ e.poisoned = i.poisoned /\ e.wrote = i.wrote
      /\ e.torn = i.torn
  BY <1>1, <1>2 DEF Handles, Modes, Calls
<1> HIDE DEF e
<1> QED BY <1>2, <1>3, <1>4 DEF t

\* The first step of commit, commit_batch and resume_batch: the events were accepted
\* as a group, the owner is poisoned and nothing is written yet.
LEMMA StartKeeps ==
  ASSUME FileInv, NEW p \in Procs, Healthy(p), NEW evs \in Seq(Event),
         NEW call \in {"commit", "resume"}, CanPrepareBatch(handle[p].journal, evs),
         handle' = [handle EXCEPT ![p] = StartWriting(handle[p], call, evs)],
         UNCHANGED <<disk, synced, retained, acked, restored>>,
         GroupsOk', \A q \in Procs \ {p} : group'[q] = group[q],
         handle[p].journal.log \o evs = group'[p].anchor \o group'[p].events
  PROVE  FileInv'
<1> DEFINE o == handle[p]
           j == o.journal
           t == ExtendedAll(j, evs)
           h == StartWriting(o, call, evs)
           s == j.log
           u == t.log
<1>1. /\ o \in Handles /\ j \in Journals /\ Exactly(j, disk, synced) /\ synced.header
      /\ o.wrote = 0 /\ ~o.torn /\ IsPrefix(retained[p], s) /\ Locks(o)
  BY HandleKnown, HealthyKnown
<1>2. Replayed(j) /\ Shaped(j) /\ s \in Seq(Event) /\ Len(s) \in Nat
  BY <1>1, JournalKnown
<1>3. Replayed(t) /\ u = s \o evs
  BY <1>2, BatchReplayed, AfterLog
<1>4. t \in Journals
  BY <1>3, JournalFacts
<1>5. u \in Seq(Event) /\ Len(u) \in Nat
  BY <1>4, JournalKnown
<1>6. /\ h \in Handles /\ h.mode = "writing" /\ h.call = call /\ h.target = t
      /\ h.journal = j /\ h.poisoned /\ h.wrote = 0 /\ ~h.torn
  BY <1>1, <1>4, StartFields
<1>7. disk.header = "whole" /\ disk.recs = s /\ disk.torn = FALSE
  BY <1>1 DEF Exactly
<1> HIDE DEF h, t, u, s
<1>8. IsPrefix(s, u) /\ Len(s) <= Len(u) /\ s = SubSeq(u, 1, Len(s))
  BY <1>2, <1>3, <1>5, PrefixLaws
<1>9. Writing(h, disk, retained[p], group'[p])
  <2>1. h.journal.log = s /\ h.target.log = u
    BY <1>6 DEF s, u
  <2>2. Len(s) + 0 = Len(s) /\ 0 <= Len(u) - Len(s)
    BY <1>2, <1>5, <1>8
  <2>3. u = group'[p].anchor \o group'[p].events
    BY <1>3 DEF s
  <2>4. h.torn = FALSE
    BY <1>6 DEF Handles
  <2>5. IsPrefix(retained[p], s)
    BY <1>1
  <2>6. disk.torn = h.torn /\ h.wrote = 0
    BY <1>6, <1>7, <2>4
  <2> HIDE DEF j, o
  <2> QED BY <1>6, <1>7, <1>8, <2>1, <2>2, <2>3, <2>5, <2>6 DEF Writing
<1>10. HandleOk(h, disk, synced, retained[p], group'[p])
  BY <1>1, <1>6, <1>9 DEF HandleOk
<1>11. ~Creates(h)
  BY <1>6 DEF Creates
<1>12. handle' = [handle EXCEPT ![p] = h]
  BY DEF h
<1> QED BY <1>1, <1>6, <1>10, <1>11, <1>12, HandleAlone

\* The caller keeps its group.
LEMMA KeepGroupKeeps ==
  ASSUME FileInv, NEW p \in Procs, NEW evs \in Groups, KeepGroup(p, evs)
  PROVE  /\ GroupsOk' /\ evs \in Seq(Event)
         /\ group'[p].anchor = handle[p].journal.log /\ group'[p].events = evs
         /\ \A q \in Procs \ {p} : group'[q] = group[q]
<1> DEFINE g == [anchor |-> handle[p].journal.log, events |-> evs]
<1>1. group' = [group EXCEPT ![p] = g] /\ DOMAIN group = Procs
  BY DEF KeepGroup, FileInv, GroupsOk
<1>2. g.anchor = handle[p].journal.log /\ g.events = evs
  OBVIOUS
<1>3. g.anchor \in Seq(Event) /\ g.events \in Seq(Event)
  BY HandleKnown, JournalKnown, GroupsAssumption
<1> HIDE DEF g
<1>4. group'[p] = g /\ DOMAIN group' = Procs /\ \A q \in Procs \ {p} : group'[q] = group[q]
  BY <1>1
<1>5. GroupsOk'
  BY <1>3, <1>4 DEF GroupsOk, FileInv
<1> QED BY <1>2, <1>3, <1>4, <1>5

\* commit and commit_batch.
LEMMA CommitKeeps ==
  ASSUME FileInv, NEW p \in Procs, NEW evs \in Groups, Commit(p, evs)
  PROVE  FileInv'
<1>1. /\ Healthy(p) /\ KeepGroup(p, evs) /\ CanPrepareBatch(handle[p].journal, evs)
      /\ handle' = [handle EXCEPT ![p] = StartWriting(handle[p], "commit", evs)]
      /\ UNCHANGED <<disk, synced, retained, acked, restored>>
  BY DEF Commit
<1>2. /\ GroupsOk' /\ evs \in Seq(Event)
      /\ group'[p].anchor = handle[p].journal.log /\ group'[p].events = evs
      /\ \A q \in Procs \ {p} : group'[q] = group[q]
  BY <1>1, KeepGroupKeeps
<1> QED BY <1>1, <1>2, StartKeeps

\* begin_commit_batch has validated none of its group yet.
LEMMA BeginCommitBatchKeeps ==
  ASSUME FileInv, NEW p \in Procs, NEW evs \in Groups, BeginCommitBatch(p, evs)
  PROVE  FileInv'
<1> DEFINE o == handle[p]
           j == o.journal
           h == [o EXCEPT !.mode = "preparing", !.call = "cooperative", !.target = j]
           s == j.log
<1>1. /\ Healthy(p) /\ KeepGroup(p, evs) /\ GroupFits(j, Len(evs))
      /\ handle' = [handle EXCEPT ![p] = h]
      /\ UNCHANGED <<disk, synced, retained, acked, restored>>
  BY DEF BeginCommitBatch
<1>2. /\ GroupsOk' /\ evs \in Seq(Event)
      /\ group'[p].anchor = s /\ group'[p].events = evs
      /\ \A q \in Procs \ {p} : group'[q] = group[q]
  BY <1>1, KeepGroupKeeps
<1>3. /\ o \in Handles /\ j \in Journals /\ Exactly(j, disk, synced) /\ synced.header
      /\ o.wrote = 0 /\ ~o.torn /\ IsPrefix(retained[p], s) /\ Locks(o)
  BY <1>1, HandleKnown, HealthyKnown
<1>4. s \in Seq(Event) /\ Len(s) \in Nat /\ Len(evs) \in Nat /\ Len(evs) >= 1
  BY <1>1, <1>2, <1>3, JournalKnown DEF GroupFits
<1>5. /\ h \in Handles /\ h.mode = "preparing" /\ h.call = "cooperative" /\ h.target = j
      /\ h.journal = j /\ h.wrote = 0 /\ ~h.torn
  <2> HIDE DEF o, j
  <2>1. o.journal = j
    BY DEF j
  <2> QED BY <1>3, <2>1 DEF Handles, Modes, Calls
<1> HIDE DEF h
<1>6. Preparing(h, disk, synced, retained[p], group'[p])
  <2>1. Len(h.target.log) - Len(h.journal.log) = 0 /\ h.target.log = s /\ h.journal.log = s
    BY <1>4, <1>5
  <2>2. SubSeq(evs, 1, 0) = <<>> /\ s \o <<>> = s
    BY <1>2, <1>4, ConcatEmptySeq
  <2>3. 0 \in 0..(Len(evs) - 1) /\ s = s \o SubSeq(evs, 1, 0)
    BY <1>4, <2>2
  <2> HIDE DEF s, j
  <2> QED BY <1>2, <1>3, <1>5, <2>1, <2>3 DEF Preparing
<1>7. HandleOk(h, disk, synced, retained[p], group'[p])
  BY <1>5, <1>6 DEF HandleOk
<1>8. ~Creates(h)
  BY <1>5 DEF Creates
<1> QED BY <1>1, <1>2, <1>3, <1>5, <1>7, <1>8, HandleAlone

\* The handle h with one more validated event, of which target is the result.
Prepared(h, target, mode) == [h EXCEPT !.target = target, !.mode = mode]

\* One more event of the group is validated: the candidate stays the journal with the
\* first events of the group, and is written only when it has all of them.
LEMMA PrepareRecordKeeps ==
  ASSUME FileInv, NEW p \in Procs, PrepareRecord(p)
  PROVE  FileInv'
<1> DEFINE o == handle[p]
           g == group[p]
           evs == g.events
           s == o.journal.log
           u == o.target.log
           k == Len(u) - Len(s)
           x == k + 1
           ev == evs[x]
           t == Extended(o.target, ev)
           mode == IF x = Len(evs) THEN "writing" ELSE "preparing"
<1>1. /\ o.mode = "preparing"
      /\ handle' = [handle EXCEPT ![p] =
                      IF ~CanPush(o.journal, o.target, ev)
                        THEN InMode(o, "failed") ELSE Prepared(o, t, mode)]
      /\ UNCHANGED <<disk, synced, retained, group, acked, restored>>
  BY DEF PrepareRecord, InMode, Prepared
<1>2. /\ o \in Handles /\ o.journal \in Journals /\ o.target \in Journals
      /\ Preparing(o, disk, synced, retained[p], g) /\ Locks(o)
      /\ o.wrote = 0 /\ ~o.torn
  BY <1>1, HandleKnown DEF HandleOk, Locks
<1>3. GroupsOk' /\ (\A q \in Procs \ {p} : group'[q] = group[q]) /\ group'[p] = g
  BY <1>1, GroupKept
<1>4. CASE ~CanPush(o.journal, o.target, ev)
  <2> DEFINE h == InMode(o, "failed")
  <2>1. handle' = [handle EXCEPT ![p] = h]
    BY <1>1, <1>4
  <2>2. h \in Handles /\ h.mode = "failed"
    BY <1>2, InModeFields DEF Modes
  <2> HIDE DEF h
  <2> QED BY <1>1, <1>2, <2>1, <2>2, InertKeeps
<1>5. CASE CanPush(o.journal, o.target, ev)
  <2> DEFINE h == Prepared(o, t, mode)
             n == Len(evs)
             v == t.log
  <2>1. handle' = [handle EXCEPT ![p] = h]
    BY <1>1, <1>5
  <2>2. /\ s \in Seq(Event) /\ Len(s) \in Nat /\ u \in Seq(Event) /\ Len(u) \in Nat
        /\ Shaped(o.target) /\ Replayed(o.target)
    BY <1>2, JournalKnown
  <2>3. /\ g.anchor = s /\ evs \in Seq(Event) /\ n \in Nat /\ k \in 0..(n - 1)
        /\ u = s \o SubSeq(evs, 1, k) /\ o.call = "cooperative"
        /\ Exactly(o.journal, disk, synced) /\ IsPrefix(retained[p], s)
    <3>1. /\ g.anchor = s /\ evs \in Seq(Event) /\ k \in 0..(n - 1)
          /\ u = g.anchor \o SubSeq(evs, 1, k) /\ o.call = "cooperative"
          /\ Exactly(o.journal, disk, synced) /\ IsPrefix(retained[p], s)
      <4> HIDE DEF o, g
      <4> QED BY <1>2 DEF Preparing
    <3>2. n \in Nat
      BY <3>1
    <3> HIDE DEF n, k, s, u, evs
    <3> QED BY <3>1, <3>2
  <2>4. x \in 1..n /\ x \in 0..n /\ x - 1 = k /\ k \in Nat
    <3> HIDE DEF k, n
    <3> QED BY <2>3
  <2>5. ev \in Event
    <3> HIDE DEF x, evs
    <3> QED BY <2>3, <2>4
  <2>6. t \in Journals /\ v = Append(u, ev)
    <3> HIDE DEF ev
    <3>1. CanReplayRecord(o.target, ev)
      BY <1>5, AcceptedReplays
    <3>2. Replayed(t) /\ v = Append(u, ev)
      BY <2>2, <2>5, <3>1, ExtendedReplayed, ExtendedShape
    <3> QED BY <3>2, JournalFacts
  <2>7. v = s \o SubSeq(evs, 1, x) /\ Len(v) - Len(s) = x /\ v \in Seq(Event) /\ Len(v) \in Nat
    <3> DEFINE a == SubSeq(evs, 1, k)
               b == SubSeq(evs, 1, x)
    <3> HIDE DEF k, x, ev
    <3>1. a \in Seq(Event) /\ b \in Seq(Event) /\ Len(b) = x
      BY <2>3, <2>4, PrefixFacts
    <3>2. b = a \o <<ev>>
      <4>1. x \in 1..Len(evs) /\ 1 \in 1..Len(evs) /\ x \in 1..Len(evs)
        BY <2>3, <2>4
      <4>2. SubSeq(evs, 1, x) = SubSeq(evs, 1, x - 1) \o <<evs[x]>>
        BY <2>3, <4>1, SubSeqRecursiveSecond
      <4> QED BY <2>4, <4>2 DEF ev
    <3>3. <<ev>> \in Seq(Event) /\ Append(u, ev) = u \o <<ev>>
      <4>1. <<ev>> \in Seq(Event)
        BY <2>5
      <4> HIDE DEF u
      <4>2. Append(u, ev) = u \o <<ev>>
        BY <2>2, <2>5, AppendIsConcat
      <4> QED BY <4>1, <4>2
    <3>4. (s \o a) \o <<ev>> = s \o (a \o <<ev>>)
      <4> DEFINE c == <<ev>>
      <4>1. c \in Seq(Event)
        BY <3>3
      <4> HIDE DEF c, a, s
      <4>2. (s \o a) \o c = s \o (a \o c)
        BY <2>2, <3>1, <4>1, ConcatAssociative
      <4> QED BY <4>2 DEF c
    <3>5. v = s \o b
      BY <2>3, <2>6, <3>2, <3>3, <3>4
    <3> HIDE DEF a, b
    <3>6. s \o b \in Seq(Event) /\ Len(s \o b) = Len(s) + Len(b)
      BY <2>2, <3>1, ConcatProperties
    <3> HIDE DEF v
    <3> QED BY <2>2, <2>4, <3>1, <3>5, <3>6 DEF b
  <2>8. /\ h \in Handles /\ h.mode = mode /\ h.target = t /\ h.journal = o.journal
        /\ h.call = o.call /\ h.wrote = 0 /\ ~h.torn
    <3>1. mode \in Modes
      BY DEF Modes
    <3> HIDE DEF t, mode, o
    <3> QED BY <1>2, <2>6, <3>1 DEF Prepared, Handles
  <2>9. h.journal.log = s /\ h.target.log = v
    BY <2>8
  <2> HIDE DEF h, v, s, u, t, k, x
  <2>10. HandleOk(h, disk, synced, retained[p], g) /\ ~Creates(h)
    <3>1. CASE x = n
      <4>1. v = g.anchor \o evs
        BY <2>3, <2>7, <3>1, SubSeqFull
      <4>2. IsPrefix(s, v) /\ s = SubSeq(v, 1, Len(s)) /\ Len(s) <= Len(v)
        <5>1. v = s \o evs
          BY <2>3, <4>1
        <5>2. IsPrefix(s, s \o evs)
          BY <2>2, <2>3, PrefixLaws
        <5>3. IsPrefix(s, v)
          BY <5>1, <5>2
        <5> QED BY <2>2, <2>7, <5>3, PrefixLaws
      <4>3. disk.header = "whole" /\ disk.recs = s /\ disk.torn = FALSE /\ synced.header
        BY <2>3 DEF Exactly, s
      <4>4. h.torn = FALSE /\ disk.torn = h.torn
        BY <2>8, <4>3 DEF Handles
      <4>5. Len(s) + 0 = Len(s) /\ 0 <= Len(v) - Len(s)
        BY <2>2, <2>7, <4>2
      <4>6. Writing(h, disk, retained[p], g)
        BY <2>3, <2>8, <2>9, <4>1, <4>2, <4>3, <4>4, <4>5 DEF Writing
      <4>7. h.mode = "writing"
        BY <2>8, <3>1
      <4> QED BY <4>3, <4>6, <4>7 DEF HandleOk, Creates
    <3>2. CASE x # n
      <4>1. h.mode = "preparing"
        BY <2>8, <3>2
      <4>2. x \in 0..(n - 1)
        BY <2>3, <2>4, <3>2
      <4>3. Preparing(h, disk, synced, retained[p], g)
        BY <2>3, <2>7, <2>8, <2>9, <4>2 DEF Preparing
      <4> QED BY <2>8, <4>1, <4>3 DEF HandleOk, Creates
    <3> QED BY <3>1, <3>2
  <2> HIDE DEF g
  <2> QED BY <1>1, <1>2, <1>3, <2>1, <2>8, <2>10, HandleAlone
<1> QED BY <1>4, <1>5

\* What is known while a group is written.
LEMMA WritingKnown ==
  ASSUME FileInv, NEW p \in Procs, handle[p].mode \in {"writing", "ready", "written"}
  PROVE  /\ Writing(handle[p], disk, retained[p], group[p]) /\ Locks(handle[p])
         /\ handle[p].journal.log \in Seq(Event) /\ Len(handle[p].journal.log) \in Nat
         /\ handle[p].target.log \in Seq(Event) /\ Len(handle[p].target.log) \in Nat
         /\ Len(handle[p].journal.log) <= Len(handle[p].target.log)
         /\ Replayable(handle[p].target.log)
         /\ synced.header /\ ~Creates(handle[p])
         /\ handle[p].mode \in {"ready", "written"} => Wrote(handle[p])
         /\ handle[p].mode = "written" => synced = [header |-> TRUE, count |-> Len(disk.recs)]
<1> DEFINE h == handle[p]
<1>1. /\ h.journal \in Journals /\ h.target \in Journals
      /\ HandleOk(h, disk, synced, retained[p], group[p])
  BY HandleKnown
<1>2. /\ Writing(h, disk, retained[p], group[p]) /\ Locks(h) /\ ~Creates(h)
      /\ h.mode \in {"ready", "written"} => Wrote(h)
      /\ h.mode = "written" => synced = [header |-> TRUE, count |-> Len(disk.recs)]
  <2> HIDE DEF h
  <2> QED BY <1>1 DEF HandleOk, Locks, Creates, h
<1>3. synced.header
  <2>1. h.mode \in {"writing", "ready"} => synced.header
    BY <1>1 DEF HandleOk
  <2> QED BY <1>2, <2>1
<1>4. /\ h.journal.log \in Seq(Event) /\ Len(h.journal.log) \in Nat
      /\ h.target.log \in Seq(Event) /\ Len(h.target.log) \in Nat
      /\ Replayable(h.target.log)
  BY <1>1, JournalKnown
<1>5. Len(h.journal.log) <= Len(h.target.log)
  <2> DEFINE s == h.journal.log
             t == h.target.log
  <2>1. IsPrefix(s, t)
    BY <1>2 DEF Writing
  <2> HIDE DEF s, t
  <2> QED BY <1>4, <2>1, PrefixLaws DEF s, t
<1> QED BY <1>2, <1>3, <1>4, <1>5

\* Handle h after a write call that brought it to k records.
WroteTo(h, k, torn, mode) ==
  [Poison(h) EXCEPT !.wrote = k, !.torn = torn, !.mode = mode]

\* Only its progress changed.
LEMMA WroteFields ==
  ASSUME NEW h \in Handles, NEW k \in Nat, NEW torn \in BOOLEAN, NEW mode \in Modes
  PROVE  /\ WroteTo(h, k, torn, mode) \in Handles
         /\ WroteTo(h, k, torn, mode).mode = mode /\ WroteTo(h, k, torn, mode).poisoned
         /\ WroteTo(h, k, torn, mode).journal = h.journal
         /\ WroteTo(h, k, torn, mode).target = h.target
         /\ WroteTo(h, k, torn, mode).wrote = k /\ WroteTo(h, k, torn, mode).torn = torn
<1> DEFINE i == [h EXCEPT !.poisoned = TRUE]
           e == [i EXCEPT !.wrote = k, !.torn = torn, !.mode = mode]
<1>1. i \in Handles /\ i.journal = h.journal /\ i.target = h.target /\ i.poisoned = TRUE
  BY DEF Handles
<1>2. WroteTo(h, k, torn, mode) = e
  BY DEF WroteTo, Poison
<1> HIDE DEF i
<1>3. /\ e \in Handles /\ e.mode = mode /\ e.poisoned = i.poisoned /\ e.journal = i.journal
      /\ e.target = i.target /\ e.wrote = k /\ e.torn = torn
  BY <1>1 DEF Handles
<1> HIDE DEF e
<1> QED BY <1>1, <1>2, <1>3

\* A write call appends the next whole records of the group, and perhaps a part of one
\* more: the records of the file stay a first part of the candidate, so they replay,
\* and what was synchronized is not touched.
LEMMA WriteSomeKeeps ==
  ASSUME FileInv, NEW p \in Procs, WriteSome(p)
  PROVE  FileInv'
<1> DEFINE o == handle[p]
           s == o.journal.log
           t == o.target.log
           m == Len(s)
           w == o.wrote
           rest == Pending(o)
           n == Len(rest)
           d == disk.recs
<1>1. /\ o.mode = "writing" /\ UNCHANGED <<synced, retained, group, acked, restored>>
  BY DEF WriteSome
<1>2. PICK k \in w..n, torn \in BOOLEAN :
        /\ k = n => ~torn
        /\ disk' = [disk EXCEPT !.recs = @ \o SubSeq(rest, w + 1, k), !.torn = torn]
        /\ handle' = [handle EXCEPT ![p] =
                        WroteTo(o, k, torn, IF k = n THEN "ready" ELSE "writing")]
  BY DEF WriteSome, WroteTo
<1> DEFINE mode == IF k = n THEN "ready" ELSE "writing"
           h == WroteTo(o, k, torn, mode)
           e == disk'.recs
<1>3. /\ o \in Handles /\ w \in Nat /\ Writing(o, disk, retained[p], group[p]) /\ Locks(o)
      /\ s \in Seq(Event) /\ m \in Nat /\ t \in Seq(Event) /\ Len(t) \in Nat /\ m <= Len(t)
      /\ Replayable(t) /\ synced.header
  BY <1>1, HandleKnown, WritingKnown
<1>4. /\ IsPrefix(retained[p], s) /\ IsPrefix(s, t)
      /\ t = group[p].anchor \o group[p].events
      /\ w <= Len(t) - m /\ d = SubSeq(t, 1, m + w) /\ disk.header = "whole"
  BY <1>3 DEF Writing
<1>5. n = Len(t) - m /\ rest = SubSeq(t, m + 1, Len(t))
  <2>1. rest = SubSeq(t, m + 1, Len(t))
    BY DEF Pending
  <2> HIDE DEF rest, t, m, w
  <2>2. w <= w /\ m + w <= Len(t)
    <3> DEFINE l == Len(t)
    <3>1. l \in Nat /\ w \in Nat /\ m \in Nat /\ w <= l - m
      BY <1>3, <1>4
    <3> HIDE DEF l
    <3>2. m + w <= l
      BY <3>1
    <3> QED BY <3>1, <3>2 DEF l
  <2>3. Len(SubSeq(t, m + 1, Len(t))) = Len(t) - m
    BY <1>3, <2>2, WrittenPart
  <2> QED BY <2>1, <2>3
<1>6. k \in Nat /\ w <= k /\ m + k <= Len(t) /\ m + k \in 0..Len(t) /\ m + w \in 0..Len(t)
      /\ m + w <= m + k
  <2> HIDE DEF n, w, m, t
  <2> DEFINE l == Len(t)
  <2>1. /\ l \in Nat /\ w \in Nat /\ m \in Nat /\ w <= l - m /\ n = l - m
        /\ k \in w..n
    BY <1>2, <1>3, <1>4, <1>5
  <2> HIDE DEF l
  <2>2. /\ k \in Nat /\ w <= k /\ m + k <= l /\ m + k \in 0..l /\ m + w \in 0..l
        /\ m + w <= m + k
    BY <2>1
  <2> QED BY <2>2 DEF l
<1>7. /\ disk' \in [header : {"none", "partial", "whole"}, recs : {e}, torn : BOOLEAN]
      /\ disk'.header = "whole" /\ disk'.torn = torn /\ e = d \o SubSeq(rest, w + 1, k)
  <2>1. disk \in Disks
    BY DEF FileInv, DiskOk
  <2> HIDE DEF rest, w, n
  <2> QED BY <1>2, <1>4, <2>1 DEF Disks
<1>8. e = SubSeq(t, 1, m + k)
  <2> HIDE DEF t, m, w, rest, e, d
  <2>1. SubSeq(t, 1, m + w) \o SubSeq(SubSeq(t, m + 1, Len(t)), w + 1, k) = SubSeq(t, 1, m + k)
    BY <1>3, <1>6, WrittenPart
  <2> QED BY <1>4, <1>5, <1>7, <2>1
<1>9. e \in Seq(Event) /\ Len(e) = m + k /\ Replayable(e) /\ Len(d) = m + w
  <2> HIDE DEF t, m, w, e, d
  <2> DEFINE a == m + k
             b == m + w
  <2>1. a \in 0..Len(t) /\ b \in 0..Len(t) /\ e = SubSeq(t, 1, a) /\ d = SubSeq(t, 1, b)
    BY <1>4, <1>6, <1>8
  <2> HIDE DEF a, b
  <2>2. e \in Seq(Event) /\ Len(e) = a /\ IsPrefix(e, t)
    BY <1>3, <2>1, PrefixCut
  <2>3. Len(d) = b
    BY <1>3, <2>1, PrefixCut
  <2>4. Replayable(e)
    BY <1>3, <2>2, ReplayablePrefix
  <2> QED BY <2>2, <2>3, <2>4 DEF a, b
<1>10. disk' \in Disks
  <2> HIDE DEF e
  <2> QED BY <1>7, <1>9 DEF Disks
<1>11. synced'.count \in Nat /\ synced'.count <= Len(d) /\ synced'.count <= Len(e)
  <2> HIDE DEF m, w, e
  <2>1. synced.count \in Nat /\ synced.count <= Len(d)
    BY DiskKnown
  <2> QED BY <1>1, <1>3, <1>6, <1>9, <2>1
<1>12. DiskOk'
  <2> HIDE DEF m, w
  <2>1. synced' \in [header : BOOLEAN, count : Nat]
    BY <1>1 DEF FileInv, DiskOk
  <2> QED BY <1>7, <1>9, <1>10, <1>11, <2>1 DEF DiskOk
<1>13. SubSeq(e, 1, synced'.count) = SubSeq(d, 1, synced'.count)
  <2> DEFINE a == m + k
             b == m + w
             c == synced'.count
  <2> HIDE DEF t, m, w, e, d
  <2>1. /\ a \in 0..Len(t) /\ b \in 0..Len(t) /\ e = SubSeq(t, 1, a) /\ d = SubSeq(t, 1, b)
        /\ c \in 0..a /\ c \in 0..b
    <3>1. a \in 0..Len(t) /\ b \in 0..Len(t) /\ e = SubSeq(t, 1, a) /\ d = SubSeq(t, 1, b)
      BY <1>4, <1>6, <1>8
    <3>2. /\ c \in Nat /\ c <= Len(d) /\ c <= Len(e) /\ Len(d) = b /\ Len(e) = a
          /\ a \in Nat /\ b \in Nat
      BY <1>3, <1>6, <1>9, <1>11
    <3> HIDE DEF a, b, c
    <3> QED BY <3>1, <3>2
  <2> HIDE DEF a, b, c
  <2>2. SubSeq(e, 1, c) = SubSeq(t, 1, c)
    BY <1>3, <2>1, PrefixCut
  <2>3. SubSeq(d, 1, c) = SubSeq(t, 1, c)
    BY <1>3, <2>1, PrefixCut
  <2> QED BY <2>2, <2>3 DEF c
<1>14. AckedOk'
  <2> HIDE DEF e
  <2>1. SubSeq(disk'.recs, 1, synced'.count) = SubSeq(disk.recs, 1, synced.count)
    BY <1>1, <1>13 DEF e
  <2> QED BY <1>1, <2>1 DEF FileInv, AckedOk
<1>15. /\ h \in Handles /\ h.mode = mode /\ h.poisoned /\ h.journal = o.journal
       /\ h.target = o.target /\ h.wrote = k /\ h.torn = torn
  <2>1. mode \in Modes
    BY DEF Modes
  <2> HIDE DEF mode
  <2> QED BY <1>2, <1>3, <1>6, <2>1, WroteFields
<1> HIDE DEF h
<1>16. HandleOk(h, disk', synced', retained'[p], group'[p]) /\ ~Creates(h)
  <2>1. h.journal.log = s /\ h.target.log = t /\ retained'[p] = retained[p] /\ group'[p] = group[p]
    BY <1>1, <1>15
  <2>2. k <= Len(t) - m
    <3> HIDE DEF t, m
    <3> QED BY <1>3, <1>6
  <2>3. Writing(h, disk', retained'[p], group'[p])
    <3> HIDE DEF t, s
    <3> QED BY <1>4, <1>7, <1>8, <1>15, <2>1, <2>2 DEF Writing, m, e
  <2>4. mode = "ready" => Wrote(h)
    <3>1. mode = "ready" => k = n
      BY DEF mode
    <3> HIDE DEF t, s, n
    <3> QED BY <1>2, <1>5, <1>15, <2>1, <3>1 DEF Wrote, m
  <2>5. mode \in {"ready", "writing"} /\ synced'.header
    BY <1>1, <1>3 DEF mode
  <2> HIDE DEF mode
  <2> QED BY <1>15, <2>3, <2>4, <2>5 DEF HandleOk, Creates
<1>17. \A q \in Procs \ {p} : HandleOk(handle[q], disk', synced', retained[q], group[q])
  <2>1. disk'.header = disk.header
    BY <1>4, <1>7
  <2> QED BY <1>3, <2>1, OthersIdle
<1>18. /\ retained' \in [Procs -> Seq(Event)] /\ GroupsOk'
       /\ \A q \in Procs \ {p} : retained'[q] = retained[q] /\ group'[q] = group[q]
  BY <1>1 DEF FileInv, GroupsOk
<1>19. handle' = [handle EXCEPT ![p] = h]
  BY <1>2 DEF h
<1> HIDE DEF o
<1> QED BY <1>3, <1>12, <1>14, <1>15, <1>16, <1>17, <1>18, <1>19, HandleMoves DEF o

\* The acknowledged history is a first part of the file.
LEMMA AckedInFile ==
  ASSUME FileInv, ~restored
  PROVE  IsPrefix(acked, disk.recs) /\ Len(acked) <= synced.count
<1> DEFINE s == disk.recs
           n == synced.count
           c == SubSeq(s, 1, n)
<1>1. s \in Seq(Event) /\ n \in 0..Len(s) /\ acked \in Seq(Event) /\ IsPrefix(acked, c)
  BY DiskKnown
<1> HIDE DEF s, n
<1>2. c \in Seq(Event) /\ Len(c) = n /\ IsPrefix(c, s)
  BY <1>1, PrefixCut
<1> HIDE DEF c
<1>3. IsPrefix(acked, s) /\ Len(acked) <= Len(c)
  BY <1>1, <1>2, PrefixLaws
<1> QED BY <1>2, <1>3 DEF s, n

\* sync_all: the group is durable, and not yet acknowledged.
LEMMA SyncGroupKeeps ==
  ASSUME FileInv, NEW p \in Procs, SyncGroup(p)
  PROVE  FileInv'
<1> DEFINE o == handle[p]
           d == disk.recs
<1>1. /\ o.mode = "ready" /\ synced' = [header |-> TRUE, count |-> Len(d)]
      /\ handle' = [handle EXCEPT ![p] = [Poison(o) EXCEPT !.mode = "written"]]
      /\ UNCHANGED <<disk, retained, group, acked, restored>>
  BY DEF SyncGroup, SyncedAll
<1> DEFINE e == [Poison(o) EXCEPT !.mode = "written"]
<1>2. /\ o \in Handles /\ Writing(o, disk, retained[p], group[p]) /\ Locks(o) /\ Wrote(o)
  BY <1>1, HandleKnown, WritingKnown
<1>3. /\ e \in Handles /\ e.mode = "written" /\ e.journal = o.journal /\ e.target = o.target
      /\ e.wrote = o.wrote /\ e.torn = o.torn /\ e.poisoned
  <2> DEFINE i == [o EXCEPT !.poisoned = TRUE]
  <2>1. /\ i \in Handles /\ i.journal = o.journal /\ i.target = o.target /\ i.wrote = o.wrote
        /\ i.torn = o.torn /\ i.poisoned = TRUE
    <3> HIDE DEF o
    <3> QED BY <1>2 DEF Handles
  <2>2. e = [i EXCEPT !.mode = "written"]
    BY DEF Poison
  <2> HIDE DEF i, e, o
  <2>3. /\ e \in Handles /\ e.mode = "written" /\ e.journal = i.journal /\ e.target = i.target
        /\ e.wrote = i.wrote /\ e.torn = i.torn /\ e.poisoned = i.poisoned
    BY <2>1, <2>2 DEF Handles, Modes
  <2> QED BY <2>1, <2>3
<1>4. /\ synced' \in [header : BOOLEAN, count : Nat] /\ synced'.header
      /\ synced'.count = Len(d) /\ d \in Seq(Event) /\ Len(d) \in Nat
  BY <1>1, DiskKnown
<1>5. disk.header = "whole"
  BY <1>2 DEF Writing
<1>6. DiskOk'
  BY <1>1, <1>4, <1>5 DEF FileInv, DiskOk
<1>7. AckedOk'
  <2>1. SubSeq(d, 1, Len(d)) = d
    BY <1>4, SubSeqFull
  <2>2. ~restored => IsPrefix(acked, d)
    BY AckedInFile
  <2> QED BY <1>1, <1>4, <2>1, <2>2 DEF FileInv, AckedOk
<1> HIDE DEF e
<1>8. HandleOk(e, disk', synced', retained'[p], group'[p]) /\ ~Creates(e)
  <2>1. Writing(e, disk', retained'[p], group'[p])
    BY <1>1, <1>2, <1>3 DEF Writing
  <2>2. Wrote(e)
    BY <1>2, <1>3 DEF Wrote
  <2> QED BY <1>1, <1>3, <2>1, <2>2 DEF HandleOk, Creates
<1>9. \A q \in Procs \ {p} : HandleOk(handle[q], disk', synced', retained[q], group[q])
  BY <1>1, <1>2, OthersIdle
<1>10. /\ retained' \in [Procs -> Seq(Event)] /\ GroupsOk'
       /\ \A q \in Procs \ {p} : retained'[q] = retained[q] /\ group'[q] = group[q]
  BY <1>1 DEF FileInv, GroupsOk
<1>11. handle' = [handle EXCEPT ![p] = e]
  BY <1>1 DEF e
<1> HIDE DEF o
<1> QED BY <1>2, <1>3, <1>6, <1>7, <1>8, <1>9, <1>10, <1>11, HandleMoves DEF o

\* A failed call leaves a poisoned owner or a failed session, whatever reached the file.
LEMMA WriteFailKeeps ==
  ASSUME FileInv, NEW p \in Procs, WriteFail(p)
  PROVE  FileInv'
<1> DEFINE o == handle[p]
           mode == IF o.call = "cooperative" THEN "failed" ELSE "open"
           h == [o EXCEPT !.mode = mode, !.call = "none", !.target = NewJournal,
                          !.wrote = 0, !.torn = FALSE]
<1>1. /\ o.mode \in {"writing", "ready", "written"} /\ handle' = [handle EXCEPT ![p] = h]
      /\ UNCHANGED <<disk, synced, retained, group, acked, restored>>
  BY DEF WriteFail
<1>2. o \in Handles /\ Writing(o, disk, retained[p], group[p]) /\ Locks(o) /\ synced.header
  BY <1>1, HandleKnown, WritingKnown
<1>3. /\ h \in Handles /\ h.mode = mode /\ h.journal = o.journal /\ h.poisoned = o.poisoned
      /\ h.wrote = 0 /\ ~h.torn
  <2>1. mode \in Modes
    BY DEF Modes
  <2> HIDE DEF mode, o
  <2> QED BY <1>2, <2>1, ClosedHandle DEF Handles, Calls
<1> HIDE DEF h
<1>4. /\ IsPrefix(retained[p], h.journal.log)
      /\ mode = "failed" \/ (mode = "open" /\ h.poisoned)
  BY <1>2, <1>3 DEF Writing
<1> HIDE DEF o, mode
<1> QED BY <1>1, <1>2, <1>3, <1>4, InertKeeps DEF o

\* The group of p is resolved.
LEMMA GroupDropped ==
  ASSUME FileInv, NEW p \in Procs, group' = [group EXCEPT ![p] = NoGroup]
  PROVE  /\ GroupsOk' /\ group'[p] = NoGroup
         /\ \A q \in Procs \ {p} : group'[q] = group[q]
BY DEF FileInv, GroupsOk

\* The candidate that Install publishes is exactly the synchronized file.
LEMMA WrittenExactly ==
  ASSUME FileInv, NEW p \in Procs, handle[p].mode = "written"
  PROVE  /\ handle[p].target \in Journals /\ Exactly(handle[p].target, disk, synced)
         /\ IsPrefix(retained[p], handle[p].target.log)
         /\ handle[p].target.log = group[p].anchor \o group[p].events
<1> DEFINE h == handle[p]
           s == h.journal.log
           t == h.target.log
           r == retained[p]
<1>1. /\ h.target \in Journals /\ Writing(h, disk, r, group[p]) /\ Wrote(h)
      /\ s \in Seq(Event) /\ Len(s) \in Nat /\ t \in Seq(Event) /\ Len(t) \in Nat
      /\ synced = [header |-> TRUE, count |-> Len(disk.recs)] /\ r \in Seq(Event)
      /\ h.torn \in BOOLEAN
  BY HandleKnown, WritingKnown
<1>2. /\ IsPrefix(r, s) /\ IsPrefix(s, t) /\ t = group[p].anchor \o group[p].events
      /\ disk.header = "whole" /\ disk.recs = SubSeq(t, 1, Len(s) + h.wrote)
      /\ disk.torn = h.torn /\ h.wrote = Len(t) - Len(s) /\ ~h.torn
  BY <1>1 DEF Writing, Wrote
<1> HIDE DEF s, t, r
<1>3. Len(s) + h.wrote = Len(t)
  BY <1>1, <1>2
<1>4. disk.recs = t
  BY <1>1, <1>2, <1>3, SubSeqFull
<1>5. disk = [header |-> "whole", recs |-> t, torn |-> FALSE]
  BY <1>1, <1>2, <1>4 DEF FileInv, DiskOk, Disks
<1>6. Exactly(h.target, disk, synced)
  BY <1>1, <1>4, <1>5 DEF Exactly, t
<1>7. IsPrefix(r, t)
  <2>1. r \in Seq(Event) /\ s \in Seq(Event) /\ t \in Seq(Event)
    BY <1>1
  <2>2. IsPrefix(r, s) /\ IsPrefix(s, t)
    BY <1>2
  <2> QED BY <2>1, <2>2, PrefixLaws
<1> QED BY <1>1, <1>2, <1>6, <1>7 DEF r, t

\* The candidate is installed and acknowledged.
LEMMA InstallKeeps ==
  ASSUME FileInv, NEW p \in Procs, Install(p)
  PROVE  FileInv' /\ Acknowledges
<1> DEFINE j == handle[p].target
<1>1. /\ handle[p].mode = "written" /\ Publish(p, j)
      /\ group' = [group EXCEPT ![p] = NoGroup]
      /\ UNCHANGED <<disk, synced, retained, restored>>
  BY DEF Install
<1>2. j \in Journals /\ Exactly(j, disk, synced) /\ IsPrefix(retained[p], j.log)
  BY <1>1, WrittenExactly
<1>3. Locks(handle[p])
  BY <1>1 DEF Locks
<1>4. GroupsOk' /\ \A q \in Procs \ {p} : group'[q] = group[q]
  BY <1>1, GroupDropped
<1> HIDE DEF j
<1>5. Exactly(j, disk, synced')
  BY <1>1, <1>2
<1> QED BY <1>1, <1>2, <1>3, <1>4, <1>5, PublishKeeps

\* A healthy owner is poisoned.
LEMMA PoisonKeeps ==
  ASSUME FileInv, NEW p \in Procs, Healthy(p),
         handle' = [handle EXCEPT ![p] = Poison(handle[p])],
         UNCHANGED <<disk, synced, retained, group, acked, restored>>
  PROVE  FileInv'
<1> DEFINE o == handle[p]
           h == Poison(o)
<1>1. /\ o \in Handles /\ Locks(o) /\ o.mode = "open" /\ synced.header
      /\ IsPrefix(retained[p], o.journal.log) /\ o.wrote = 0 /\ ~o.torn
  BY HandleKnown, HealthyKnown
<1>2. /\ h \in Handles /\ h.mode = o.mode /\ h.poisoned /\ h.journal = o.journal
      /\ h.wrote = o.wrote /\ h.torn = o.torn
  <2> HIDE DEF o
  <2> QED BY <1>1 DEF Poison, Handles
<1>3. handle' = [handle EXCEPT ![p] = h]
  OBVIOUS
<1> HIDE DEF h, o
<1> QED BY <1>1, <1>2, <1>3, InertKeeps DEF o

\* ReadFail and ResumeConflict are such steps.
LEMMA PoisonStepsKeep ==
  ASSUME FileInv, NEW p \in Procs, ReadFail(p) \/ ResumeConflict(p)
  PROVE  FileInv'
<1>1. /\ Healthy(p) /\ handle' = [handle EXCEPT ![p] = Poison(handle[p])]
      /\ UNCHANGED <<disk, synced, retained, group, acked, restored>>
  <2>1. CASE ReadFail(p)
    BY <2>1 DEF ReadFail
  <2>2. CASE ResumeConflict(p)
    BY <2>2 DEF ResumeConflict, MayInspect
  <2> QED BY <2>1, <2>2
<1> QED BY <1>1, PoisonKeeps

-----------------------------------------------------------------------------
(* Resumption, the caller and the machine.                                 *)

\* A group that verify_batch matched with the file.
LEMMA MatchedGroup ==
  ASSUME FileInv, NEW p \in Procs, MayInspect(p), MatchesGroup(p)
  PROVE  /\ group[p].anchor \in Seq(Event) /\ group[p].events \in Seq(Event)
         /\ Covered(p) \in 0..Len(group[p].events)
         /\ handle[p].journal.log = group[p].anchor \o SubSeq(group[p].events, 1, Covered(p))
         /\ MissingRecords(p) \in Seq(Event)
         /\ handle[p].journal.log \o MissingRecords(p) = group[p].anchor \o group[p].events
<1> DEFINE a == group[p].anchor
           evs == group[p].events
           c == Covered(p)
           s == handle[p].journal.log
<1>1. a \in Seq(Event) /\ evs \in Seq(Event)
  BY DEF FileInv, GroupsOk, MayInspect
<1>2. c \in 0..Len(evs) /\ s = a \o SubSeq(evs, 1, c)
  BY DEF MayInspect, MatchesGroup
<1>3. MissingRecords(p) = SubSeq(evs, c + 1, Len(evs))
  BY DEF MissingRecords
<1> HIDE DEF a, evs, c, s
<1>4. /\ SubSeq(evs, c + 1, Len(evs)) \in Seq(Event)
      /\ (a \o SubSeq(evs, 1, c)) \o SubSeq(evs, c + 1, Len(evs)) = a \o evs
  BY <1>1, <1>2, GroupRest
<1>5. MissingRecords(p) \in Seq(Event) /\ s \o MissingRecords(p) = a \o evs
  BY <1>2, <1>3, <1>4
<1> QED BY <1>1, <1>2, <1>5 DEF a, evs, c, s

\* Only the missing records are written.
LEMMA ResumeWriteKeeps ==
  ASSUME FileInv, NEW p \in Procs, ResumeWrite(p)
  PROVE  FileInv'
<1> DEFINE evs == MissingRecords(p)
<1>1. /\ MayInspect(p) /\ MatchesGroup(p) /\ Healthy(p)
      /\ CanPrepareBatch(handle[p].journal, evs)
      /\ handle' = [handle EXCEPT ![p] = StartWriting(handle[p], "resume", evs)]
      /\ UNCHANGED <<disk, synced, retained, group, acked, restored>>
  BY DEF ResumeWrite, MayInspect, CanResume
<1>2. evs \in Seq(Event) /\ handle[p].journal.log \o evs = group[p].anchor \o group[p].events
  BY <1>1, MatchedGroup
<1>3. GroupsOk' /\ \A q \in Procs \ {p} : group'[q] = group[q]
  BY <1>1, GroupKept
<1> HIDE DEF evs
<1>4. handle[p].journal.log \o evs = group'[p].anchor \o group'[p].events
  BY <1>1, <1>2
<1> QED BY <1>1, <1>2, <1>3, <1>4, StartKeeps

\* A caller that resolves or forgets its group while its handle is closed or open.
LEMMA GroupStepsKeep ==
  ASSUME FileInv, NEW p \in Procs, ResumeComplete(p) \/ Forget(p)
  PROVE  FileInv'
<1> DEFINE h == handle[p]
<1>1. /\ h.mode \in {"open", "closed"} /\ group' = [group EXCEPT ![p] = NoGroup]
      /\ UNCHANGED <<disk, synced, handle, retained, acked, restored>>
  <2>1. CASE ResumeComplete(p)
    BY <2>1 DEF ResumeComplete, MayInspect, Healthy
  <2>2. CASE Forget(p)
    BY <2>2 DEF Forget
  <2> QED BY <2>1, <2>2
<1>2. GroupsOk' /\ \A q \in Procs \ {p} : group'[q] = group[q]
  BY <1>1, GroupDropped
<1>3. h \in Handles /\ HandleOk(h, disk, synced, retained[p], group[p])
  BY HandleKnown
<1>4. HandleOk(h, disk, synced, retained[p], group'[p]) /\ ~Creates(h)
  <2> HIDE DEF h
  <2> QED BY <1>1, <1>3 DEF HandleOk, Creates
<1>5. handle' = [handle EXCEPT ![p] = h]
  BY <1>1 DEF FileInv
<1> HIDE DEF h
<1> QED BY <1>1, <1>2, <1>3, <1>4, <1>5, HandleAlone DEF h

\* acknowledged_head is kept outside the journal.
LEMMA RetainKeeps ==
  ASSUME FileInv, NEW p \in Procs, Retain(p)
  PROVE  FileInv'
<1> DEFINE h == handle[p]
           s == h.journal.log
<1>1. /\ h.mode = "open" /\ retained' = [retained EXCEPT ![p] = s]
      /\ UNCHANGED <<disk, synced, handle, group, acked, restored>>
  BY DEF Retain
<1>2. /\ h \in Handles /\ h.journal \in Journals
      /\ HandleOk(h, disk, synced, retained[p], group[p])
  BY HandleKnown
<1>3. s \in Seq(Event) /\ IsPrefix(s, s)
  BY <1>2, JournalKnown, PrefixLaws
<1>4. synced.header
  BY <1>1, <1>2 DEF HandleOk
<1> HIDE DEF s
<1>5. /\ retained' \in [Procs -> Seq(Event)] /\ retained'[p] = s
      /\ \A q \in Procs \ {p} : retained'[q] = retained[q]
  BY <1>1, <1>3 DEF FileInv
<1>6. DiskOk' /\ AckedOk'
  BY <1>1, <1>4 DEF FileInv, DiskOk, AckedOk
<1>7. HandleOk(h, disk', synced', retained'[p], group'[p]) /\ ~Creates(h)
  <2>1. retained'[p] = h.journal.log
    BY <1>5 DEF s
  <2> HIDE DEF h
  <2> QED BY <1>1, <1>2, <1>3, <1>5, <2>1 DEF HandleOk, Creates
<1>8. \A q \in Procs \ {p} : HandleOk(handle[q], disk', synced', retained[q], group[q])
  BY <1>1 DEF FileInv
<1>9. GroupsOk' /\ \A q \in Procs \ {p} : group'[q] = group[q]
  BY <1>1, GroupKept
<1>10. handle' = [handle EXCEPT ![p] = h]
  BY <1>1 DEF FileInv
<1> HIDE DEF h
<1> QED BY <1>2, <1>5, <1>6, <1>7, <1>8, <1>9, <1>10, HandleMoves DEF h

\* A handle is dropped.
LEMMA DropKeeps ==
  ASSUME FileInv, NEW p \in Procs, Drop(p)
  PROVE  FileInv'
<1>1. /\ handle' = [handle EXCEPT ![p] = Closed]
      /\ UNCHANGED <<disk, synced, retained, group, acked, restored>>
  BY DEF Drop
<1> QED BY <1>1, ClosedHandle, InertKeeps

\* All handles are released and some of the file may be gone.
LEMMA AllClosed ==
  ASSUME FileInv, handle' = [p \in Procs |-> Closed], UNCHANGED <<retained, group>>,
         DiskOk', AckedOk'
  PROVE  FileInv'
<1>1. /\ handle' \in [Procs -> Handles] /\ \A p \in Procs : handle'[p] = Closed
  BY ClosedHandle
<1>2. ~Locks(Closed) /\ ~Creates(Closed)
  BY ClosedHandle DEF Locks, Creates
<1>3. Exclusive'
  BY <1>1, <1>2 DEF Exclusive
<1>4. \A p \in Procs : HandleOk(handle'[p], disk', synced', retained'[p], group'[p])
  BY <1>1, ClosedHandle, HandleInert
<1>5. retained' \in [Procs -> Seq(Event)] /\ GroupsOk'
  BY DEF FileInv, GroupsOk
<1> QED BY <1>1, <1>3, <1>4, <1>5 DEF FileInv

\* A power loss leaves what was synchronized, and whole records of the rest.
LEMMA PowerLossKeeps ==
  ASSUME FileInv, PowerLoss
  PROVE  FileInv'
<1> DEFINE s == disk.recs
           c == synced.count
<1>1. PICK header \in (IF synced.header THEN {"whole"}
                       ELSE IF disk.header = "whole" THEN {"none", "partial", "whole"}
                       ELSE {"none", disk.header}),
           n \in c..Len(s), torn \in BOOLEAN :
        /\ header # "whole" => n = 0 /\ ~torn
        /\ disk' = [header |-> header, recs |-> SubSeq(s, 1, n), torn |-> torn]
        /\ synced' = [header |-> header = "whole", count |-> n]
  BY DEF PowerLoss
<1>2. /\ handle' = [p \in Procs |-> Closed] /\ UNCHANGED <<retained, group, acked, restored>>
  BY DEF PowerLoss
<1> DEFINE e == SubSeq(s, 1, n)
<1>3. /\ s \in Seq(Event) /\ Len(s) \in Nat /\ c \in Nat /\ c <= Len(s) /\ Replayable(s)
      /\ disk.header \in {"none", "partial", "whole"} /\ acked \in Seq(Event)
      /\ synced.header \in BOOLEAN
  BY DiskKnown
<1>4. /\ header \in {"none", "partial", "whole"}
      /\ synced.header => header = "whole"
  BY <1>1, <1>3
<1>5. n \in Nat /\ n \in 0..Len(s) /\ c <= n
  <2> HIDE DEF c
  <2> QED BY <1>1, <1>3
<1> HIDE DEF s
<1>6. e \in Seq(Event) /\ Len(e) = n /\ IsPrefix(e, s)
  BY <1>3, <1>5, PrefixCut
<1>7. SubSeq(e, 1, n) = e
  BY <1>6, SubSeqFull
<1>8. Replayable(e)
  <2> HIDE DEF e
  <2> QED BY <1>3, <1>6, ReplayablePrefix
<1>9. n = 0 => e = <<>>
  <2> HIDE DEF e
  <2> QED BY <1>6, PrefixOfEmpty
<1>10. ~restored => IsPrefix(acked, e)
  <2>1. ~restored => IsPrefix(acked, s) /\ Len(acked) <= c
    BY AckedInFile DEF s
  <2>2. Len(acked) \in Nat
    BY <1>3
  <2> HIDE DEF c
  <2>3. ~restored => IsPrefix(acked, s) /\ Len(acked) <= n
    BY <1>3, <1>5, <2>1, <2>2
  <2> QED BY <1>3, <1>5, <2>3, PrefixCut
<1>11. /\ disk'.header = header /\ disk'.recs = e /\ disk'.torn = torn
       /\ synced'.header = (header = "whole") /\ synced'.count = n
  BY <1>1
<1> HIDE DEF e
<1>12. disk' \in Disks /\ synced' \in [header : BOOLEAN, count : Nat]
  <2>1. disk' = [header |-> header, recs |-> e, torn |-> torn]
    BY <1>1 DEF e
  <2>2. (header = "whole") \in BOOLEAN
    OBVIOUS
  <2> QED BY <1>1, <1>4, <1>5, <1>6, <2>1, <2>2 DEF Disks
<1>13. DiskOk'
  <2>1. header # "whole" => e = <<>> /\ ~torn
    BY <1>1, <1>9
  <2> QED BY <1>5, <1>6, <1>8, <1>11, <1>12, <2>1 DEF DiskOk
<1>14. AckedOk'
  <2>1. \A p \in Procs : retained'[p] # <<>> => synced'.header
    BY <1>2, <1>4, <1>11, DiskKnown
  <2>2. acked' \in Seq(Event) /\ restored' \in BOOLEAN
    BY <1>2, DiskKnown
  <2>3. ~restored' => IsPrefix(acked', SubSeq(disk'.recs, 1, synced'.count))
    BY <1>2, <1>7, <1>10, <1>11
  <2> QED BY <2>1, <2>2, <2>3 DEF AckedOk
<1> QED BY <1>2, <1>13, <1>14, AllClosed

\* The file at rest is replaced by an older copy.
LEMMA RollBackKeeps ==
  ASSUME FileInv, RollBack
  PROVE  FileInv'
<1> DEFINE s == disk.recs
           c == synced.count
<1>1. PICK n \in 0..Len(s) - 1 :
        /\ disk' = [disk EXCEPT !.recs = SubSeq(s, 1, n), !.torn = FALSE]
        /\ synced' = [synced EXCEPT !.count = IF c <= n THEN c ELSE n]
  BY DEF RollBack
<1>2. /\ \A p \in Procs : handle[p].mode = "closed"
      /\ restored' = TRUE /\ UNCHANGED <<handle, retained, group, acked>>
  BY DEF RollBack
<1> DEFINE e == SubSeq(s, 1, n)
           m == IF c <= n THEN c ELSE n
<1>3. /\ s \in Seq(Event) /\ Len(s) \in Nat /\ c \in Nat /\ Replayable(s)
      /\ disk.header \in {"none", "partial", "whole"}
  BY DiskKnown
<1>4. n \in Nat /\ n \in 0..Len(s) /\ n < Len(s)
  BY <1>1, <1>3
<1>5. disk.header = "whole"
  <2>1. disk.header # "whole" => Len(s) = 0
    BY DiskKnown
  <2> QED BY <1>4, <2>1
<1>6. m \in Nat /\ m <= n
  <2> HIDE DEF c
  <2> QED BY <1>3, <1>4
<1> HIDE DEF s, m
<1>7. e \in Seq(Event) /\ Len(e) = n /\ IsPrefix(e, s)
  BY <1>3, <1>4, PrefixCut
<1> HIDE DEF e
<1>8. Replayable(e)
  BY <1>3, <1>7, ReplayablePrefix
<1>9. disk' \in Disks /\ disk'.header = "whole" /\ disk'.recs = e
  <2>1. disk' = [disk EXCEPT !.recs = e, !.torn = FALSE]
    BY <1>1 DEF e
  <2>2. disk \in Disks
    BY DEF FileInv, DiskOk
  <2> QED BY <1>5, <1>7, <2>1, <2>2 DEF Disks
<1>10. /\ synced' \in [header : BOOLEAN, count : Nat] /\ synced'.header = synced.header
       /\ synced'.count = m
  <2>1. synced \in [header : BOOLEAN, count : Nat]
    BY DEF FileInv, DiskOk
  <2>2. synced' = [synced EXCEPT !.count = m]
    BY <1>1 DEF m
  <2> QED BY <1>6, <2>1, <2>2
<1>11. DiskOk'
  BY <1>6, <1>7, <1>8, <1>9, <1>10 DEF DiskOk
<1>12. AckedOk'
  BY <1>2, <1>10, DiskKnown DEF AckedOk
<1>13. handle' \in [Procs -> Handles] /\ retained' \in [Procs -> Seq(Event)] /\ GroupsOk' /\ Exclusive'
  BY <1>2 DEF FileInv, GroupsOk, Exclusive
<1>14. \A p \in Procs : HandleOk(handle'[p], disk', synced', retained'[p], group'[p])
  BY <1>2, HandleInert
<1> QED BY <1>11, <1>12, <1>13, <1>14 DEF FileInv

-----------------------------------------------------------------------------
(* The results about the file.                                             *)

\* Every step keeps the invariant and only adds to what was acknowledged.
LEMMA FileStep ==
  ASSUME FileInv, [FileNext]_fileVars
  PROVE  FileInv' /\ Acknowledges
<1>1. CASE UNCHANGED fileVars
  BY <1>1 DEF fileVars, FileInv, DiskOk, AckedOk, GroupsOk, Exclusive, Acknowledges, LockFree
<1>2. ASSUME NEW p \in Procs,
             CreateSync(p) \/ FinishOpen(p) \/ FinishCapture(p) \/ Install(p)
      PROVE  FileInv' /\ Acknowledges
  BY <1>2, CreateSyncKeeps, FinishOpenKeeps, FinishCaptureKeeps, InstallKeeps
<1>3. ASSUME NEW p \in Procs,
             CreateFile(p) \/ CreateLock(p) \/ CreateHeader(p)
      PROVE  FileInv' /\ Acknowledges
  <2>1. acked' = acked
    BY <1>3 DEF CreateFile, CreateLock, CreateHeader
  <2> QED BY <1>3, <2>1, CreateFileKeeps, CreateLockKeeps, CreateHeaderKeeps DEF Acknowledges
<1>4. ASSUME NEW p \in Procs,
             BeginOpen(p) \/ BeginCapture(p) \/ ReplayRecord(p) \/ ReplayEnd(p) \/ ReplayFail(p)
      PROVE  FileInv' /\ Acknowledges
  <2>1. acked' = acked
    BY <1>4 DEF BeginOpen, BeginCapture, ReplayRecord, ReplayEnd, ReplayFail
  <2> QED BY <1>4, <2>1, BeginOpenKeeps, BeginCaptureKeeps, ReplayRecordKeeps, ReplayEndKeeps,
             ReplayFailKeeps DEF Acknowledges
<1>5. ASSUME NEW p \in Procs, NEW evs \in Groups, Commit(p, evs) \/ BeginCommitBatch(p, evs)
      PROVE  FileInv' /\ Acknowledges
  <2>1. acked' = acked
    BY <1>5 DEF Commit, BeginCommitBatch
  <2> QED BY <1>5, <2>1, CommitKeeps, BeginCommitBatchKeeps DEF Acknowledges
<1>6. ASSUME NEW p \in Procs,
             PrepareRecord(p) \/ WriteSome(p) \/ SyncGroup(p) \/ WriteFail(p)
      PROVE  FileInv' /\ Acknowledges
  <2>1. acked' = acked
    BY <1>6 DEF PrepareRecord, WriteSome, SyncGroup, WriteFail
  <2> QED BY <1>6, <2>1, PrepareRecordKeeps, WriteSomeKeeps, SyncGroupKeeps, WriteFailKeeps
          DEF Acknowledges
<1>7. ASSUME NEW p \in Procs,
             ReadFail(p) \/ ResumeConflict(p) \/ ResumeWrite(p) \/ ResumeComplete(p) \/ Forget(p)
      PROVE  FileInv' /\ Acknowledges
  <2>1. acked' = acked
    BY <1>7 DEF ReadFail, ResumeConflict, ResumeWrite, ResumeComplete, Forget
  <2> QED BY <1>7, <2>1, PoisonStepsKeep, ResumeWriteKeeps, GroupStepsKeep DEF Acknowledges
<1>8. ASSUME NEW p \in Procs, Retain(p) \/ Drop(p)
      PROVE  FileInv' /\ Acknowledges
  <2>1. acked' = acked
    BY <1>8 DEF Retain, Drop
  <2> QED BY <1>8, <2>1, RetainKeeps, DropKeeps DEF Acknowledges
<1>9. CASE PowerLoss \/ RollBack
  <2>1. acked' = acked
    BY <1>9 DEF PowerLoss, RollBack
  <2> QED BY <1>9, <2>1, PowerLossKeeps, RollBackKeeps DEF Acknowledges
<1> QED BY <1>1, <1>2, <1>3, <1>4, <1>5, <1>6, <1>7, <1>8, <1>9 DEF FileNext

\* There is no file, and nobody has heard of one.
LEMMA FileStart == FileInit => FileInv
<1> SUFFICES ASSUME FileInit PROVE FileInv
  OBVIOUS
<1> DEFINE e == <<>>
<1>1. e \in Seq(Event) /\ Len(e) = 0 /\ SubSeq(e, 1, 0) = e
  OBVIOUS
<1>2. IsPrefix(e, e) /\ Replayable(e)
  <2>1. Replayable(NewJournal.log) /\ NewJournal.log = e
    BY ClosedHandle, JournalKnown, NewShaped
  <2> QED BY <1>1, <2>1, PrefixLaws
<1> HIDE DEF e
<1>3. /\ disk = [header |-> "none", recs |-> e, torn |-> FALSE]
      /\ synced = [header |-> FALSE, count |-> 0]
      /\ handle = [p \in Procs |-> Closed] /\ retained = [p \in Procs |-> e]
      /\ group = [p \in Procs |-> NoGroup] /\ acked = e /\ restored = FALSE
  BY DEF FileInit, e
<1>4. /\ disk.header = "none" /\ disk.recs = e /\ disk.torn = FALSE /\ disk \in Disks
      /\ synced.header = FALSE /\ synced.count = 0
      /\ synced \in [header : BOOLEAN, count : Nat]
  BY <1>1, <1>3 DEF Disks
<1>5. DiskOk
  BY <1>1, <1>2, <1>4 DEF DiskOk, e
<1>6. AckedOk
  BY <1>1, <1>2, <1>3, <1>4 DEF AckedOk, e
<1>7. handle \in [Procs -> Handles] /\ \A p \in Procs : handle[p] = Closed
  BY <1>3, ClosedHandle
<1>8. ~Locks(Closed) /\ ~Creates(Closed)
  BY ClosedHandle DEF Locks, Creates
<1>9. Exclusive
  BY <1>7, <1>8 DEF Exclusive
<1>10. \A p \in Procs : HandleOk(handle[p], disk, synced, retained[p], group[p])
  BY <1>7, ClosedHandle, HandleInert
<1>11. retained \in [Procs -> Seq(Event)] /\ GroupsOk
  BY <1>1, <1>3 DEF GroupsOk
<1> QED BY <1>5, <1>6, <1>7, <1>9, <1>10, <1>11 DEF FileInv

\* The invariant of the file adapter, for any number of processes, any group of events
\* and any limits: what each handle may assume of the file in each of its modes, through
\* crashes, power losses, torn writes, failed calls and a replaced file.
THEOREM FileInvariant == FileSpec => []FileInv
<1>1. FileInit => FileInv
  BY FileStart
<1>2. FileInv /\ [FileNext]_fileVars => FileInv'
  BY FileStep
<1> QED BY <1>1, <1>2, PTL DEF FileSpec

\* Accounting that a healthy owner exposes is exactly what a restart would rebuild, and
\* nothing acknowledged is lost unless the file was replaced.
THEOREM FileExposedDurable == FileSpec => []ExposedDurable
<1>1. ASSUME FileInv PROVE ExposedDurable
  <2>1. ASSUME NEW p \in Procs, Healthy(p)
        PROVE  /\ disk = [header |-> "whole", recs |-> handle[p].journal.log, torn |-> FALSE]
               /\ synced = SyncedAll
               /\ handle[p].journal = ExtendedAll(NewJournal, disk.recs)
    <3> DEFINE j == handle[p].journal
    <3>1. j \in Journals /\ Exactly(j, disk, synced)
      BY <1>1, <2>1, HealthyKnown
    <3>2. j = ExtendedAll(NewJournal, j.log)
      BY <3>1, JournalKnown
    <3> HIDE DEF j
    <3>3. /\ disk = [header |-> "whole", recs |-> j.log, torn |-> FALSE] /\ disk.recs = j.log
          /\ synced = [header |-> TRUE, count |-> Len(j.log)]
      BY <3>1 DEF Exactly
    <3>4. synced = SyncedAll
      BY <3>3 DEF SyncedAll
    <3> QED BY <3>2, <3>3, <3>4 DEF j
  <2>2. ~restored => IsPrefix(acked, SubSeq(disk.recs, 1, synced.count))
    BY <1>1, DiskKnown
  <2> QED BY <2>1, <2>2 DEF ExposedDurable
<1> QED BY <1>1, FileInvariant, PTL

\* No caller gets an owner behind or beside the head it retained.
THEOREM FileRetainedCovered == FileSpec => []RetainedCovered
<1>1. FileInv => RetainedCovered
  BY HandleKnown DEF RetainedCovered, HandleOk
<1> QED BY <1>1, FileInvariant, PTL

\* A group ends once, where its caller can see it: by the commit that wrote it, by a
\* resumption that found all of it, or by a caller that gives up on it.
LEMMA GroupOnceStep ==
  ASSUME FileInv, [FileNext]_fileVars, NEW q \in Procs
  PROVE  GroupOnce(q)
<1> SUFFICES ASSUME group[q] # NoGroup, group'[q] = NoGroup, handle'[q].mode = "open"
             PROVE  handle'[q].journal.log = group[q].anchor \o group[q].events
  BY DEF GroupOnce
<1>1. group' # group
  OBVIOUS
<1>2. ~UNCHANGED fileVars /\ ~PowerLoss /\ ~RollBack
  BY <1>1 DEF fileVars, PowerLoss, RollBack
<1>3. ASSUME NEW p \in Procs
      PROVE  /\ ~CreateFile(p) /\ ~CreateLock(p) /\ ~CreateHeader(p) /\ ~CreateSync(p)
             /\ ~BeginOpen(p) /\ ~BeginCapture(p) /\ ~ReplayRecord(p) /\ ~ReplayEnd(p)
             /\ ~ReplayFail(p) /\ ~FinishOpen(p) /\ ~FinishCapture(p)
  BY <1>1 DEF CreateFile, CreateLock, CreateHeader, CreateSync, BeginOpen, BeginCapture,
              ReplayRecord, ReplayEnd, ReplayFail, FinishOpen, FinishCapture
<1>4. ASSUME NEW p \in Procs
      PROVE  /\ ~PrepareRecord(p) /\ ~WriteSome(p) /\ ~SyncGroup(p) /\ ~WriteFail(p)
             /\ ~ReadFail(p) /\ ~ResumeWrite(p) /\ ~ResumeConflict(p) /\ ~Retain(p) /\ ~Drop(p)
  BY <1>1 DEF PrepareRecord, WriteSome, SyncGroup, WriteFail, ReadFail, ResumeWrite,
              ResumeConflict, Retain, Drop
<1>5. ASSUME NEW p \in Procs, NEW evs \in Groups
      PROVE  ~Commit(p, evs) /\ ~BeginCommitBatch(p, evs)
  <2>1. ASSUME KeepGroup(p, evs) PROVE FALSE
    <3>1. group[p] = NoGroup /\ \A r \in Procs \ {p} : group'[r] = group[r]
      BY <2>1, KeepGroupKeeps DEF KeepGroup
    <3> QED BY <3>1
  <2> QED BY <2>1 DEF Commit, BeginCommitBatch
<1>6. ASSUME NEW p \in Procs, group' = [group EXCEPT ![p] = NoGroup]
      PROVE  p = q
  BY <1>6, GroupDropped
<1>7. ASSUME NEW p \in Procs, Install(p)
      PROVE  handle'[q].journal.log = group[q].anchor \o group[q].events
  <2> DEFINE j == handle[p].target
  <2>1. handle[p].mode = "written" /\ Publish(p, j) /\ p = q
    BY <1>6, <1>7 DEF Install
  <2>2. j \in Journals /\ j.log = group[q].anchor \o group[q].events
    BY <2>1, WrittenExactly
  <2> HIDE DEF j
  <2>3. handle' = [handle EXCEPT ![p] = Opened(j)] /\ Opened(j).journal = j
    BY <2>1, <2>2, OpenedHandle DEF Publish, Opened
  <2>4. handle'[q].journal = j
    BY <2>1, <2>3 DEF FileInv
  <2> QED BY <2>2, <2>4
<1>8. ASSUME NEW p \in Procs, ResumeComplete(p)
      PROVE  handle'[q].journal.log = group[q].anchor \o group[q].events
  <2>1. /\ MayInspect(p) /\ MatchesGroup(p) /\ Covered(p) = Len(group[p].events)
        /\ handle' = handle /\ p = q
    BY <1>6, <1>8 DEF ResumeComplete
  <2>2. /\ group[p].events \in Seq(Event)
        /\ handle[p].journal.log = group[p].anchor \o SubSeq(group[p].events, 1, Covered(p))
    BY <2>1, MatchedGroup
  <2>3. SubSeq(group[p].events, 1, Len(group[p].events)) = group[p].events
    BY <2>2, SubSeqFull
  <2> QED BY <2>1, <2>2, <2>3
<1>9. ASSUME NEW p \in Procs
      PROVE  ~Forget(p)
  BY <1>6 DEF Forget
<1> QED BY <1>2, <1>3, <1>4, <1>5, <1>7, <1>8, <1>9 DEF FileNext

\* Told that its group is committed, a caller finds it exactly once, directly after its
\* anchor.
THEOREM FileBatchExactlyOnce == FileSpec => BatchExactlyOnce
<1>1. FileInv /\ [FileNext]_fileVars => [\A p \in Procs : GroupOnce(p)]_fileVars
  BY GroupOnceStep
<1> QED BY <1>1, FileInvariant, PTL DEF FileSpec, BatchExactlyOnce

\* The file adapter implements AcknowledgedHistory: what it acknowledged only grows, and
\* replays at every moment.
THEOREM FileAcknowledgedOnlyGrows == FileSpec => AcknowledgedOnlyGrows
<1>1. FileInit => History!Init
  BY DEF FileInit, History!Init
<1>2. FileInv /\ [FileNext]_fileVars => [History!Acknowledge]_acked
  <2> SUFFICES ASSUME FileInv, [FileNext]_fileVars, acked' # acked PROVE History!Acknowledge
    OBVIOUS
  <2>1. acked' \in Seq(Event) /\ Replayable(acked') /\ IsPrefix(acked, acked')
    BY FileStep DEF Acknowledges
  <2> DEFINE s == acked
             t == acked'
  <2>2. s \in Seq(Event) /\ t \in Seq(Event) /\ IsPrefix(s, t) /\ s # t
    BY <2>1, DiskKnown
  <2> HIDE DEF s, t
  <2>3. Len(s) <= Len(t) /\ s = SubSeq(t, 1, Len(s)) /\ ~(Len(t) <= Len(s))
    BY <2>2, PrefixLaws
  <2>4. Len(s) \in Nat /\ Len(t) \in Nat
    BY <2>2
  <2>5. Len(s) < Len(t)
    BY <2>3, <2>4
  <2> QED BY <2>1, <2>3, <2>5 DEF History!Acknowledge, s, t
<1> QED BY <1>1, <1>2, FileInvariant, PTL DEF FileSpec, AcknowledgedOnlyGrows, History!Spec

\* What is left of an admitted group is admitted from wherever an interruption left the
\* journal: the group's budget and the journal's limits were checked for all of it.
LEMMA RestPrepares ==
  ASSUME NEW a, Shaped(a), NEW evs \in Seq(Event), CanPrepareBatch(a, evs),
         NEW c \in Nat, c < Len(evs)
  PROVE  CanPrepareBatch(After(a, evs, c), SubSeq(evs, c + 1, Len(evs)))
<1> DEFINE n == Len(evs)
           A(k) == After(a, evs, k)
           j == After(a, evs, c)
           u == SubSeq(evs, 1, c)
           rest == SubSeq(evs, c + 1, n)
           m == n - c
<1>1. n \in Nat /\ c \in 0..n /\ m \in Nat /\ m >= 1 /\ m <= n /\ c + m = n /\ n \in 1..n
      /\ n \in 0..n /\ 0 \in 0..c
  OBVIOUS
<1>2. /\ rest \in Seq(Event) /\ Len(rest) = m
      /\ \A k \in 1..m : rest[k] = evs[c + k]
      /\ (<<>> \o u) \o rest = <<>> \o evs
  <2>1. <<>> \in Seq(Event)
    OBVIOUS
  <2> QED BY <1>1, <2>1, GroupRest
<1>3. u \in Seq(Event) /\ Len(u) = c
  BY <1>1, PrefixFacts
<1> HIDE DEF u, rest, m
<1>4. u \o rest = evs
  <2>1. <<>> \o u = u /\ <<>> \o evs = evs
    BY <1>3, ConcatEmptySeq
  <2> QED BY <1>2, <2>1
<1>5. j = ExtendedAll(a, u)
  BY DEF After, u
<1>6. \A k \in 0..m : A(c + k) = After(j, rest, k)
  <2>1. \A k \in 0..Len(rest) : After(a, u \o rest, Len(u) + k) = After(ExtendedAll(a, u), rest, k)
    <3>1. u \in Seq(Event) /\ rest \in Seq(Event)
      BY <1>2, <1>3
    <3> HIDE DEF j, A
    <3> QED BY <3>1, AfterConcat
  <2> QED BY <1>2, <1>3, <1>4, <1>5, <2>1
<1>7. \A k \in 0..n : /\ Shaped(A(k)) /\ Len(A(k).log) = Len(a.log) + k
                      /\ \A i \in 0..k : A(i).len <= A(k).len
  BY AfterShape
<1>8. A(0) = a /\ \A k \in 1..n : A(k) = Extended(A(k - 1), evs[k])
  BY AfterSteps
<1>9. GroupFits(a, n) /\ \A k \in 1..n : CanPush(a, A(k - 1), evs[k])
  BY GroupPushes
<1>10. Shaped(j) /\ Len(j.log) = Len(a.log) + c /\ a.len <= j.len
  BY <1>1, <1>7, <1>8
<1>11. /\ a.len \in Nat /\ Len(a.log) \in Nat /\ j.len \in Nat /\ Len(j.log) \in Nat
  BY <1>10 DEF Shaped
<1>12. GroupFits(j, m)
  <2>1. n \in 1..BatchMaxRecords /\ Len(a.log) + n <= MaxRecords /\ 21 * n <= BatchMaxBytes
    BY <1>9 DEF GroupFits
  <2>2. m \in 1..BatchMaxRecords /\ 21 * m <= BatchMaxBytes
    BY <1>1, <2>1, JournalAssumption
  <2>3. Len(j.log) + m <= MaxRecords
    BY <1>1, <1>10, <1>11, <2>1
  <2>4. A(n).len <= MaxTotalBytes
    <3> DEFINE o == n - 1
    <3>1. o \in 0..n /\ evs[n] \in Event
      BY <1>1
    <3> HIDE DEF A
    <3>2. A(n) = Extended(A(o), evs[n]) /\ CanPush(a, A(o), evs[n]) /\ Shaped(A(o))
      BY <1>1, <1>7, <1>8, <1>9, <3>1
    <3> DEFINE b == A(o)
               ev == evs[n]
    <3> HIDE DEF o, b, ev
    <3>3. CanReplayRecord(b, ev) /\ Shaped(b) /\ ev \in Event /\ A(n) = Extended(b, ev)
      BY <3>1, <3>2, AcceptedReplays DEF b, ev
    <3>4. b.len + RecordLen(ev) <= MaxTotalBytes
      BY <3>3, ReplayCapacity
    <3>5. Extended(b, ev).len = b.len + RecordLen(ev)
      BY <3>3, ExtendedShape
    <3> QED BY <3>3, <3>4, <3>5
  <2>5. After(j, rest, m).len >= j.len + 21 * m /\ After(j, rest, m).len \in Nat
    <3>1. m \in 0..Len(rest)
      BY <1>1, <1>2
    <3> HIDE DEF j
    <3>2. After(j, rest, m).len >= j.len + 21 * m /\ Shaped(After(j, rest, m))
      BY <1>2, <1>10, <3>1, AfterShape
    <3> QED BY <3>2 DEF Shaped
  <2>6. A(n) = After(j, rest, m)
    BY <1>1, <1>6
  <2>7. j.len + 21 * m <= MaxTotalBytes
    <3> DEFINE x == After(j, rest, m).len
    <3>1. x \in Nat /\ x >= j.len + 21 * m /\ x <= MaxTotalBytes
      BY <2>4, <2>5, <2>6
    <3> HIDE DEF x, A, j
    <3> QED BY <1>1, <1>11, <3>1, JournalAssumption
  <2> QED BY <2>2, <2>3, <2>7 DEF GroupFits
<1>13. ASSUME NEW k \in 1..m
       PROVE  CanPush(j, After(j, rest, k - 1), rest[k])
  <2> DEFINE x == c + k
             o == k - 1
             b == After(j, rest, o)
             ev == rest[k]
  <2>1. x \in 1..n /\ o \in 0..m /\ c + o = x - 1 /\ x - 1 \in 0..n
    BY <1>1
  <2>2. ev = evs[x] /\ evs[x] \in Event
    BY <1>2, <2>1
  <2>3. b = A(x - 1)
    <3> HIDE DEF A, o, x
    <3>1. A(c + o) = After(j, rest, o)
      BY <1>6, <2>1
    <3> QED BY <2>1, <3>1
  <2>4. CanPush(a, b, ev) /\ Shaped(b)
    <3> HIDE DEF A, b, x, ev
    <3> QED BY <1>7, <1>9, <2>1, <2>2, <2>3
  <2> HIDE DEF b, ev, x, A, j
  <2>5. CanAppend(b, ev) /\ Extended(b, ev).len - a.len <= BatchMaxBytes
    BY <2>2, <2>4, PushCapacity
  <2>6. Extended(b, ev).len \in Nat
    BY <2>2, <2>4, ExtendedShape DEF Shaped
  <2>7. Extended(b, ev).len - j.len <= BatchMaxBytes
    BY <1>10, <1>11, <2>5, <2>6, JournalAssumption
  <2>8. CanPush(j, b, ev)
    BY <1>10, <2>2, <2>4, <2>5, <2>7, PushCapacity
  <2> QED BY <2>8 DEF b, ev
<1>14. CanPrepareBatch(j, rest)
  <2> HIDE DEF j
  <2> QED BY <1>2, <1>12, <1>13, GroupPushes
<1> QED BY <1>14 DEF rest

\* Whatever part of a group reached the file, the file stays readable and the rest of a
\* verified group is not refused: no group is stuck half written.
THEOREM FileInterruptedResumable == FileSpec => []InterruptedResumable
<1>1. ASSUME FileInv PROVE InterruptedResumable
  <2>1. CanReplayAll(NewJournal, disk.recs)
    BY <1>1, DiskKnown DEF Replayable
  <2>2. ASSUME NEW p \in Procs, MayInspect(p), MatchesGroup(p), Covered(p) < Len(group[p].events)
        PROVE  CanResume(p)
    <3> DEFINE anchor == group[p].anchor
               evs == group[p].events
               c == Covered(p)
               j == handle[p].journal
               a == ExtendedAll(NewJournal, anchor)
               u == SubSeq(evs, 1, c)
    <3>1. /\ anchor \in Seq(Event) /\ evs \in Seq(Event) /\ c \in 0..Len(evs)
          /\ j.log = anchor \o u
      BY <1>1, <2>2, MatchedGroup
    <3>2. CanPrepareBatch(a, evs) /\ MissingRecords(p) = SubSeq(evs, c + 1, Len(evs))
      BY <2>2 DEF MatchesGroup, MissingRecords
    <3>3. j = ExtendedAll(NewJournal, j.log)
      BY <1>1, HandleKnown, JournalKnown
    <3>4. c < Len(evs) /\ c \in Nat
      BY <2>2, <3>1
    <3> HIDE DEF anchor, evs, c, j
    <3>5. u \in Seq(Event)
      BY <3>1, PrefixFacts
    <3>6. Shaped(a)
      <4>1. After(NewJournal, anchor, Len(anchor)) = a /\ Len(anchor) \in 0..Len(anchor)
        BY <3>1, AfterSteps
      <4> QED BY <3>1, <4>1, NewShaped, AfterShape
    <3>7. j = After(a, evs, c)
      <4> HIDE DEF u
      <4>1. ExtendedAll(NewJournal, anchor \o u) = ExtendedAll(a, u)
        BY <3>1, <3>5, AfterConcat
      <4>2. ExtendedAll(a, u) = After(a, evs, c)
        BY DEF After, u
      <4> QED BY <3>1, <3>3, <4>1, <4>2
    <3> HIDE DEF a, u
    <3>8. CanPrepareBatch(j, MissingRecords(p))
      BY <3>1, <3>2, <3>4, <3>6, <3>7, RestPrepares
    <3> QED BY <3>8 DEF CanResume, j
  <2> QED BY <2>1, <2>2 DEF InterruptedResumable
<1> QED BY <1>1, FileInvariant, PTL

=============================================================================
