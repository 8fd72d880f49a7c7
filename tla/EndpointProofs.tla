--------------------------- MODULE EndpointProofs ---------------------------
(***************************************************************************)
(* Proofs about EndpointStore: memory, file, key and the receipts that     *)
(* were given never disagree, wherever an I/O error stops a transition.    *)
(***************************************************************************)
EXTENDS EndpointStore, WellFoundedInduction, SequenceTheorems, TLAPS

\* Induction over the natural numbers, for a set.
LEMMA NatInduct ==
  ASSUME NEW S, 0 \in S, \A n \in Nat : n \in S => n + 1 \in S
  PROVE  Nat \subseteq S
<1> DEFINE R == OpToRel(<, Nat)
           T == Nat \ S
<1>1. SUFFICES ASSUME T # {} PROVE FALSE
  OBVIOUS
<1>2. IsWellFoundedOn(R, Nat) /\ T \subseteq Nat
  BY NatLessThanWellFounded
<1>3. \E x \in T : \A y \in T : ~ (<<y, x>> \in R)
  <2> HIDE DEF R, T
  <2> QED BY <1>1, <1>2, WFMin
<1>4. PICK x \in T : \A y \in T : ~ (<<y, x>> \in R)
  BY <1>3
<1>5. x \in Nat /\ x # 0 /\ x \notin S
  BY <1>4
<1>6. x - 1 \in Nat /\ x - 1 < x
  BY <1>5
<1>7. <<x - 1, x>> \in R
  BY <1>5, <1>6 DEF OpToRel
<1>8. x - 1 \in S
  BY <1>4, <1>6, <1>7
<1> QED BY <1>5, <1>6, <1>8

-----------------------------------------------------------------------------
(* Replay is the endpoint after the operations, one after the other.       *)

\* f[k] is the endpoint after the first k operations, up to n.
Stepwise(f, ops, n) ==
  f = [k \in 0..n |-> IF k = 0 THEN NewEndpoint ELSE After(f[k - 1], ops[k])]

\* There is such a function.
LEMMA StepwiseExists ==
  ASSUME NEW ops
  PROVE  \A n \in Nat : \E f : Stepwise(f, ops, n)
<1> DEFINE S == {n \in Nat : \E f : Stepwise(f, ops, n)}
<1>1. 0 \in S
  <2> DEFINE f == [k \in 0..0 |-> NewEndpoint]
  <2>1. Stepwise(f, ops, 0)
    BY DEF Stepwise
  <2> QED BY <2>1
<1>2. ASSUME NEW n \in Nat, n \in S
      PROVE  n + 1 \in S
  <2>1. PICK f : Stepwise(f, ops, n)
    BY <1>2
  <2> DEFINE g == [k \in 0..(n + 1) |-> IF k = n + 1 THEN After(f[n], ops[n + 1]) ELSE f[k]]
             h == [k \in 0..(n + 1) |-> IF k = 0 THEN NewEndpoint ELSE After(g[k - 1], ops[k])]
  <2>2. \A k \in 0..n : f[k] = IF k = 0 THEN NewEndpoint ELSE After(f[k - 1], ops[k])
    BY <2>1 DEF Stepwise
  <2>3. ASSUME NEW k \in 0..(n + 1)
        PROVE  g[k] = h[k]
    <3>1. CASE k = n + 1
      <4>1. g[k - 1] = f[n]
        BY <3>1
      <4>2. g[k] = After(f[n], ops[n + 1]) /\ h[k] = After(g[k - 1], ops[k])
        BY <3>1
      <4> QED BY <3>1, <4>1, <4>2
    <3>2. CASE k = 0
      BY <3>2, <2>2
    <3>3. CASE k # 0 /\ k # n + 1
      <4>1. k \in 0..n /\ k - 1 \in 0..(n + 1) /\ k - 1 # n + 1
        BY <3>3
      <4>2. g[k] = f[k] /\ g[k - 1] = f[k - 1] /\ h[k] = After(g[k - 1], ops[k])
        BY <3>3, <4>1
      <4> QED BY <2>2, <3>3, <4>1, <4>2
    <3> QED BY <3>1, <3>2, <3>3
  <2>4. g = h
    BY <2>3
  <2>5. Stepwise(g, ops, n + 1)
    BY <2>4 DEF Stepwise
  <2> QED BY <2>5
<1>3. Nat \subseteq S
  <2> HIDE DEF S
  <2> QED BY <1>1, <1>2, NatInduct
<1> QED BY <1>3

\* Two such functions agree as long as their operations do.
LEMMA StepwiseAgree ==
  ASSUME NEW ops, NEW pps, NEW f, NEW g, NEW m \in Nat, NEW n \in Nat, NEW o \in Nat,
         o <= m, o <= n,
         \A k \in 1..o : ops[k] = pps[k], Stepwise(f, ops, m), Stepwise(g, pps, n)
  PROVE  \A k \in 0..o : f[k] = g[k]
<1> DEFINE S == {k \in Nat : k <= o => f[k] = g[k]}
<1>1. \A k \in 0..m : f[k] = IF k = 0 THEN NewEndpoint ELSE After(f[k - 1], ops[k])
  BY DEF Stepwise
<1>2. \A k \in 0..n : g[k] = IF k = 0 THEN NewEndpoint ELSE After(g[k - 1], pps[k])
  BY DEF Stepwise
<1>3. 0 \in S
  <2>1. f[0] = NewEndpoint /\ g[0] = NewEndpoint
    BY <1>1, <1>2
  <2> QED BY <2>1
<1>4. ASSUME NEW k \in Nat, k \in S
      PROVE  k + 1 \in S
  <2>1. SUFFICES ASSUME k + 1 <= o PROVE f[k + 1] = g[k + 1]
    OBVIOUS
  <2>2. f[k] = g[k] /\ k + 1 \in 0..m /\ k + 1 \in 0..n /\ k + 1 \in 1..o
    BY <1>4, <2>1
  <2>3. f[k + 1] = After(f[k], ops[k + 1]) /\ g[k + 1] = After(g[k], pps[k + 1])
    BY <1>1, <1>2, <2>2
  <2> QED BY <2>2, <2>3
<1>5. Nat \subseteq S
  <2> HIDE DEF S
  <2> QED BY <1>3, <1>4, NatInduct
<1> QED BY <1>5

\* What Replay returns is the last value of such a function.
LEMMA ReplayStepwise ==
  ASSUME NEW ops, Len(ops) \in Nat
  PROVE  \E f : Stepwise(f, ops, Len(ops)) /\ Replay(ops) = f[Len(ops)]
<1> DEFINE P(f) == f = [k \in 0..Len(ops) |-> IF k = 0 THEN NewEndpoint
                                               ELSE After(f[k - 1], ops[k])]
           u == CHOOSE f : P(f)
<1>1. \E f : P(f)
  BY StepwiseExists DEF Stepwise
<1>2. P(u)
  BY <1>1
<1>3. Replay(ops) = u[Len(ops)]
  BY DEF Replay
<1>4. Stepwise(u, ops, Len(ops))
  BY <1>2 DEF Stepwise
<1> QED BY <1>3, <1>4

\* Sequences: what an appended operation leaves of the earlier ones.
LEMMA AppendFacts ==
  ASSUME NEW D, NEW s \in Seq(D), NEW x \in D
  PROVE  /\ Len(s) \in Nat /\ Append(s, x) \in Seq(D) /\ Len(Append(s, x)) = Len(s) + 1
         /\ \A k \in 1..Len(s) : Append(s, x)[k] = s[k]
         /\ Append(s, x)[Len(s) + 1] = x
         /\ \A k \in 0..Len(s) : SubSeq(Append(s, x), 1, k) = SubSeq(s, 1, k)
         /\ SubSeq(s, 1, Len(s)) = s
<1> DEFINE t == Append(s, x)
<1>1. /\ Len(s) \in Nat /\ t \in Seq(D) /\ Len(t) = Len(s) + 1
      /\ \A k \in 1..Len(s) : t[k] = s[k]
      /\ t[Len(s) + 1] = x
  OBVIOUS
<1>2. ASSUME NEW k \in 0..Len(s)
      PROVE  SubSeq(t, 1, k) = SubSeq(s, 1, k)
  <2> HIDE DEF t
  <2>1. k \in Nat /\ 1..k \subseteq 1..Len(s) /\ 1..k \subseteq 1..Len(t)
    BY <1>1
  <2>2. SubSeq(t, 1, k) = [i \in 1..k |-> t[i]] /\ SubSeq(s, 1, k) = [i \in 1..k |-> s[i]]
    BY <2>1
  <2> QED BY <1>1, <2>1, <2>2
<1>3. SubSeq(s, 1, Len(s)) = s
  OBVIOUS
<1> HIDE DEF t
<1> QED BY <1>1, <1>2, <1>3 DEF t

\* The endpoint before any operation.
LEMMA ReplayNone == Replay(<<>>) = NewEndpoint
<1>1. Len(<<>>) = 0
  OBVIOUS
<1>2. PICK f : Stepwise(f, <<>>, 0) /\ Replay(<<>>) = f[0]
  BY <1>1, ReplayStepwise
<1> QED BY <1>2 DEF Stepwise

\* Replaying one more operation is taking one more step.
LEMMA ReplayAppend ==
  ASSUME NEW ops \in Seq(Operations), NEW o \in Operations
  PROVE  Replay(Append(ops, o)) = After(Replay(ops), o)
<1> DEFINE n == Len(ops)
           pps == Append(ops, o)
<1>1. /\ n \in Nat /\ Len(pps) = n + 1 /\ pps[n + 1] = o
      /\ \A k \in 1..n : ops[k] = pps[k]
  BY AppendFacts
<1> HIDE DEF n, pps
<1>2. PICK f : Stepwise(f, ops, n) /\ Replay(ops) = f[n]
  BY <1>1, ReplayStepwise DEF n
<1>3. PICK g : Stepwise(g, pps, n + 1) /\ Replay(pps) = g[n + 1]
  <2>1. Len(pps) \in Nat
    BY <1>1
  <2> QED BY <1>1, <2>1, ReplayStepwise
<1>4. n + 1 \in Nat /\ n <= n /\ n <= n + 1
  BY <1>1
<1>5. \A k \in 0..n : f[k] = g[k]
  <2> DEFINE p == n + 1
  <2>1. /\ n \in Nat /\ p \in Nat /\ n <= n /\ n <= p
        /\ Stepwise(f, ops, n) /\ Stepwise(g, pps, p) /\ \A k \in 1..n : ops[k] = pps[k]
    BY <1>1, <1>2, <1>3, <1>4
  <2> HIDE DEF p
  <2> QED BY <2>1, StepwiseAgree
<1>6. g[n] = f[n]
  BY <1>1, <1>5
<1>7. g[n + 1] = After(g[n], pps[n + 1])
  <2>1. \A k \in 0..(n + 1) : g[k] = IF k = 0 THEN NewEndpoint ELSE After(g[k - 1], pps[k])
    BY <1>3 DEF Stepwise
  <2>2. n + 1 \in 0..(n + 1) /\ n + 1 # 0 /\ (n + 1) - 1 = n
    BY <1>1
  <2> QED BY <2>1, <2>2
<1> QED BY <1>1, <1>2, <1>3, <1>6, <1>7 DEF pps

\* A history that strict replay accepts is still accepted with one more operation
\* that applies and changes something.
LEMMA ReplayableAppend ==
  ASSUME NEW ops \in Seq(Operations), NEW o \in Operations, Replayable(ops),
         Applies(Replay(ops), o), After(Replay(ops), o) # Replay(ops),
         Len(ops) < MaxMutations
  PROVE  Replayable(Append(ops, o))
<1> DEFINE n == Len(ops)
           pps == Append(ops, o)
<1>1. /\ n \in Nat /\ Len(pps) = n + 1 /\ pps[n + 1] = o
      /\ \A k \in 1..n : pps[k] = ops[k]
      /\ \A k \in 0..n : SubSeq(pps, 1, k) = SubSeq(ops, 1, k)
      /\ SubSeq(ops, 1, n) = ops
  BY AppendFacts
<1>2. MaxMutations \in Nat
  BY EndpointStoreAssumption
<1> HIDE DEF pps, n
<1>3. Len(pps) <= MaxMutations
  BY <1>1, <1>2 DEF n
<1>4. ASSUME NEW k \in 1..Len(pps)
      PROVE  LET before == Replay(SubSeq(pps, 1, k - 1))
             IN  Applies(before, pps[k]) /\ After(before, pps[k]) # before
  <2>1. CASE k = n + 1
    <3>1. k - 1 = n /\ n \in 0..n
      BY <1>1, <2>1
    <3>2. SubSeq(pps, 1, k - 1) = ops /\ pps[k] = o
      BY <1>1, <2>1, <3>1
    <3> QED BY <3>2
  <2>2. CASE k # n + 1
    <3>1. k \in 1..n /\ k - 1 \in 0..n
      BY <1>1, <1>4, <2>2
    <3>2. SubSeq(pps, 1, k - 1) = SubSeq(ops, 1, k - 1) /\ pps[k] = ops[k]
      BY <1>1, <3>1
    <3>3. LET before == Replay(SubSeq(ops, 1, k - 1))
          IN  Applies(before, ops[k]) /\ After(before, ops[k]) # before
      BY <3>1 DEF Replayable, n
    <3> QED BY <3>2, <3>3
  <2> QED BY <2>1, <2>2
<1> QED BY <1>3, <1>4 DEF Replayable, pps

-----------------------------------------------------------------------------
(* The endpoint in memory.                                                 *)

Outcomes == {"None", "Sealed", "DeadlineElapsed", "VersionConflict", "Executed"}
Times == Ticks \cup {NoTick}
Endpoints ==
  [attached : BOOLEAN, epoch : Nat, elapsed : Times, version : Nat,
   receipts : [Attempts -> Outcomes], executions : Nat]
Asking == {"Deliver", "Seal", "ResolveExpired"}

\* The fields that an operation of each kind has.
LEMMA OperationFields ==
  ASSUME NEW o \in Operations
  PROVE  /\ o.op \in {"Attach", "ObserveTime", "Fence"} \cup Asking
         /\ o.op = "ObserveTime" => o.tick \in Ticks
         /\ o.op = "Fence" => o.epoch \in Nat
         /\ o.op \in Asking => o.message.attempt \in Attempts
<1>1. Epochs \subseteq Nat /\ Envelopes \subseteq Messages /\ Queries \subseteq Messages
  BY EndpointStoreAssumption
<1>2. CASE o \in [op : {"Attach"}]
  BY <1>2 DEF Asking
<1>3. CASE o \in [op : {"ObserveTime"}, tick : Ticks]
  BY <1>3 DEF Asking
<1>4. CASE o \in [op : {"Fence"}, epoch : Epochs]
  BY <1>1, <1>4 DEF Asking
<1>5. CASE o \in [op : {"Deliver"}, message : Envelopes]
  BY <1>1, <1>5 DEF Asking, Messages
<1>6. CASE o \in [op : {"Seal", "ResolveExpired"}, message : Queries]
  BY <1>1, <1>6 DEF Asking, Messages
<1> QED BY <1>2, <1>3, <1>4, <1>5, <1>6 DEF Operations

\* An operation keeps every receipt, decides what it asks about, and only an
\* observation moves the clock.
LEMMA AfterFacts ==
  ASSUME NEW e \in Endpoints, NEW o \in Operations
  PROVE  /\ After(e, o) \in Endpoints
         /\ \A a \in Attempts : e.receipts[a] # "None" =>
              After(e, o).receipts[a] = e.receipts[a]
         /\ o.op \in Asking => After(e, o).receipts[o.message.attempt] # "None"
         /\ After(e, o).elapsed = IF o.op = "ObserveTime" THEN o.tick ELSE e.elapsed
<1>1. CASE o.op = "Attach"
  <2>1. After(e, o) = [e EXCEPT !.attached = TRUE]
    BY <1>1 DEF After
  <2> QED BY <1>1, <2>1 DEF Endpoints, Asking
<1>2. CASE o.op = "ObserveTime"
  <2>1. After(e, o) = [e EXCEPT !.elapsed = o.tick] /\ o.tick \in Times
    BY <1>2, OperationFields DEF After, Times
  <2> QED BY <1>2, <2>1 DEF Endpoints, Asking
<1>3. CASE o.op = "Fence"
  <2>1. After(e, o) = [e EXCEPT !.epoch = o.epoch] /\ o.epoch \in Nat
    BY <1>3, OperationFields DEF After
  <2> QED BY <1>3, <2>1 DEF Endpoints, Asking
<1>4. CASE o.op \in Asking
  <2> DEFINE a == o.message.attempt
             out == Outcome(e, o)
             done == IF out = "Executed" THEN 1 ELSE 0
             v == e.version + done
             x == e.executions + done
             n == [e EXCEPT !.receipts[a] = out, !.version = v, !.executions = x]
  <2>1. After(e, o) = IF e.receipts[a] # "None" THEN e ELSE n
    BY <1>4 DEF After, Decided, Asking
  <2>2. a \in Attempts
    BY <1>4, OperationFields
  <2>3. out \in Outcomes \ {"None"}
    BY DEF Outcome, Outcomes
  <2>4. done \in Nat
    OBVIOUS
  <2> HIDE DEF a, out, done
  <2>5. v \in Nat /\ x \in Nat
    BY <2>4 DEF Endpoints
  <2> HIDE DEF v, x
  <2>6. CASE e.receipts[a] # "None"
    BY <1>4, <2>1, <2>2, <2>6 DEF a, Asking
  <2>7. CASE e.receipts[a] = "None"
    <3>1. n \in Endpoints
      BY <2>2, <2>3, <2>5 DEF Endpoints
    <3>2. n.receipts[a] = out /\ \A b \in Attempts \ {a} : n.receipts[b] = e.receipts[b]
      BY <2>2 DEF Endpoints
    <3>3. n.elapsed = e.elapsed
      BY DEF Endpoints
    <3>4. After(e, o) = n /\ o.op # "ObserveTime"
      BY <1>4, <2>1, <2>7 DEF Asking
    <3> HIDE DEF n
    <3>5. \A b \in Attempts : e.receipts[b] # "None" => n.receipts[b] = e.receipts[b]
      BY <2>7, <3>2
    <3> QED BY <2>3, <3>1, <3>2, <3>3, <3>4, <3>5 DEF a
  <2> QED BY <2>6, <2>7
<1> QED BY <1>1, <1>2, <1>3, <1>4, OperationFields

-----------------------------------------------------------------------------
(* The invariant.                                                          *)

Stores ==
  [open : BOOLEAN, memory : Endpoints, events : Seq(Operations), visible_revision : Nat,
   synchronized_revision : Nat, clock_confirmed : BOOLEAN, failure : BOOLEAN]

Typed ==
  /\ store \in Stores
  /\ file \in [ops : Seq(Operations), synced : Nat]
  /\ key \in [visible_revision : Nat, observed_floor : Times]
  /\ given \subseteq [attempt : Attempts, outcome : Outcomes \ {"None"}]
  /\ seen \in Seq(Operations)

\* An open endpoint is the replay of the file, and a store that reports no failure
\* has all of it synchronized.
OpenAgrees ==
  store.open =>
    /\ ~restored /\ file.ops = store.events /\ store.memory = Replay(store.events)
    /\ store.visible_revision = key.visible_revision
    /\ ~store.failure => ~pending /\ file.synced = Len(file.ops)

\* As long as nobody put an older file back, the file is one that the key accepts,
\* extends what readers saw and holds every receipt, all of it and what is
\* synchronized of it.
FileAgrees ==
  ~restored =>
    /\ Replayable(file.ops) /\ Current /\ Replay(file.ops) \in Endpoints
    /\ IsPrefix(seen, file.ops)
    /\ file.synced <= Len(file.ops)
    /\ \A r \in given : /\ Holds(Replay(file.ops), r)
                        /\ Holds(Replay(SubSeq(file.ops, 1, file.synced)), r)

\* A file that was put back is behind the key, for good.
RestoredRefused == restored => Len(file.ops) < key.visible_revision

EndpointInv == Typed /\ OpenAgrees /\ FileAgrees /\ RestoredRefused /\ ClockNeverForgotten

\* The endpoint that create_store makes.
LEMMA InitInv == Init => EndpointInv
<1> SUFFICES ASSUME Init PROVE EndpointInv
  OBVIOUS
<1>1. /\ file = [ops |-> <<>>, synced |-> 0] /\ pending = FALSE
      /\ store = [NoEndpoint EXCEPT !.open = TRUE]
      /\ key = [visible_revision |-> 0, observed_floor |-> NoTick]
      /\ given = {} /\ seen = <<>> /\ restored = FALSE
  BY DEF Init
<1>2. StartVersion \in Nat /\ MaxMutations \in Nat
  BY EndpointStoreAssumption
<1>3. NewEndpoint \in Endpoints
  BY <1>2 DEF NewEndpoint, Endpoints, Times, Outcomes
<1>4. /\ store \in Stores /\ store.events = <<>> /\ store.memory = NewEndpoint
      /\ store.visible_revision = 0 /\ ~store.clock_confirmed
  <2> DEFINE none == <<>>
  <2>1. none \in Seq(Operations)
    OBVIOUS
  <2> HIDE DEF none
  <2>2. /\ NoEndpoint \in Stores /\ NoEndpoint.events = none
        /\ NoEndpoint.memory = NewEndpoint
        /\ NoEndpoint.visible_revision = 0 /\ NoEndpoint.clock_confirmed = FALSE
    <3>1. NoEndpoint = [open |-> FALSE, memory |-> NewEndpoint, events |-> none,
                        visible_revision |-> 0, synchronized_revision |-> 0,
                        clock_confirmed |-> FALSE, failure |-> FALSE]
      BY DEF NoEndpoint, none
    <3> QED BY <1>3, <2>1, <3>1 DEF Stores
  <2> QED BY <1>1, <2>2 DEF Stores, none
<1>5. Len(<<>>) = 0 /\ <<>> \in Seq(Operations)
  OBVIOUS
<1>6. Replayable(<<>>)
  BY <1>2, <1>5 DEF Replayable
<1>7. IsPrefix(<<>>, <<>>)
  BY <1>5 DEF IsPrefix
<1>8. Typed
  BY <1>1, <1>4, <1>5 DEF Typed, Times
<1>9. OpenAgrees
  BY <1>1, <1>4, <1>5, ReplayNone DEF OpenAgrees
<1>10. FileAgrees
  BY <1>1, <1>3, <1>5, <1>6, <1>7, ReplayNone DEF FileAgrees, Current
<1> QED BY <1>1, <1>4, <1>8, <1>9, <1>10
    DEF EndpointInv, RestoredRefused, ClockNeverForgotten, Confirmed

\* A receipt that an open endpoint has, it answers with.
LEMMA AnswerHolds ==
  ASSUME NEW e \in Endpoints, NEW o \in Operations,
         o.op \in Asking => e.receipts[o.message.attempt] # "None"
  PROVE  \A r \in Answer(e, o) :
           /\ r \in [attempt : Attempts, outcome : Outcomes \ {"None"}]
           /\ Holds(e, r)
<1>1. CASE o.op \in Asking
  <2>1. o.message.attempt \in Attempts
    BY <1>1, OperationFields
  <2> QED BY <1>1, <2>1 DEF Answer, Asking, Holds, Endpoints
<1>2. CASE o.op \notin Asking
  BY <1>2 DEF Answer, Asking
<1> QED BY <1>1, <1>2

\* What Permitted and an open endpoint give.
LEMMA PermittedOpen ==
  ASSUME EndpointInv, NEW o \in Operations, Permitted(o)
  PROVE  /\ store.open /\ ~store.failure /\ ~restored /\ ~pending
         /\ o.op \in Asking => Confirmed
         /\ store.memory = Replay(file.ops) /\ store.memory \in Endpoints
         /\ file.ops = store.events /\ file.ops \in Seq(Operations)
         /\ file.synced = Len(file.ops)
<1>1. store.open /\ ~store.failure
  <2>1. CASE o.op = "ObserveTime"
    BY <2>1 DEF Permitted
  <2>2. CASE o.op \in Asking
    BY <2>2 DEF Permitted, Asking, Confirmed
  <2>3. CASE o.op \in {"Attach", "Fence"}
    BY <2>3 DEF Permitted
  <2> QED BY <2>1, <2>2, <2>3, OperationFields
<1>2. o.op \in Asking => Confirmed
  BY DEF Permitted, Asking
<1> QED BY <1>1, <1>2 DEF EndpointInv, OpenAgrees, Typed, Stores

\* An operation that changes nothing is answered from memory.
LEMMA RepeatKeeps ==
  ASSUME EndpointInv, NEW o \in Operations, Repeat(o)
  PROVE  EndpointInv'
<1>1. /\ Permitted(o) /\ After(store.memory, o) = store.memory
      /\ store' = [store EXCEPT !.clock_confirmed = ClockAfter(o, TRUE)]
      /\ key' = [key EXCEPT !.observed_floor = Floor(o)]
      /\ given' = given \cup Answer(store.memory, o)
      /\ file' = file /\ pending' = pending /\ seen' = seen /\ restored' = restored
  BY DEF Repeat, Unchanged
<1>2. /\ store.open /\ ~store.failure /\ ~restored
      /\ o.op \in Asking => Confirmed
      /\ store.memory = Replay(file.ops) /\ store.memory \in Endpoints
      /\ file.ops = store.events /\ file.ops \in Seq(Operations)
      /\ file.synced = Len(file.ops)
  BY <1>1, PermittedOpen
<1>3. /\ Typed /\ OpenAgrees /\ FileAgrees /\ ClockNeverForgotten
  BY DEF EndpointInv
<1>4. /\ o.op \in Asking => store.memory.receipts[o.message.attempt] # "None"
      /\ store.memory.elapsed = IF o.op = "ObserveTime" THEN o.tick ELSE store.memory.elapsed
  BY <1>1, <1>2, AfterFacts
<1>5. Floor(o) \in Times /\ ClockAfter(o, TRUE) \in BOOLEAN
  BY <1>3, OperationFields DEF Floor, ClockAfter, Typed, Stores, Times
<1>6. /\ store' \in Stores /\ store'.open = store.open /\ store'.memory = store.memory
      /\ store'.events = store.events /\ store'.visible_revision = store.visible_revision
      /\ store'.failure = store.failure /\ store'.clock_confirmed = ClockAfter(o, TRUE)
  BY <1>1, <1>3, <1>5 DEF Typed, Stores
<1>7. /\ key' \in [visible_revision : Nat, observed_floor : Times]
      /\ key'.visible_revision = key.visible_revision /\ key'.observed_floor = Floor(o)
  BY <1>1, <1>3, <1>5 DEF Typed
<1>8. \A r \in Answer(store.memory, o) :
        /\ r \in [attempt : Attempts, outcome : Outcomes \ {"None"}]
        /\ Holds(store.memory, r)
  BY <1>2, <1>4, AnswerHolds
<1>9. Typed'
  BY <1>1, <1>3, <1>6, <1>7, <1>8 DEF Typed
<1>10. OpenAgrees'
  BY <1>1, <1>3, <1>6, <1>7 DEF OpenAgrees
<1>11. SubSeq(file.ops, 1, file.synced) = file.ops
  BY <1>2
<1>12. FileAgrees'
  BY <1>1, <1>2, <1>3, <1>7, <1>8, <1>11 DEF FileAgrees, Current
<1>13. ClockNeverForgotten'
  BY <1>2, <1>3, <1>4, <1>6, <1>7 DEF ClockNeverForgotten, Confirmed, ClockAfter, Floor
<1> QED BY <1>1, <1>2, <1>9, <1>10, <1>12, <1>13 DEF EndpointInv, RestoredRefused

\* A full history refuses; an observed time is remembered all the same.
LEMMA RefuseKeeps ==
  ASSUME EndpointInv, NEW o \in Operations, RefuseLimit(o)
  PROVE  EndpointInv'
<1>1. /\ Permitted(o)
      /\ store' = [store EXCEPT !.clock_confirmed = ClockAfter(o, FALSE)]
      /\ key' = [key EXCEPT !.observed_floor = Floor(o)]
      /\ file' = file /\ pending' = pending /\ seen' = seen /\ restored' = restored
      /\ given' = given
  BY DEF RefuseLimit
<1>2. ~restored
  BY <1>1, PermittedOpen
<1>3. /\ Typed /\ OpenAgrees /\ FileAgrees /\ ClockNeverForgotten
  BY DEF EndpointInv
<1>4. Floor(o) \in Times /\ ClockAfter(o, FALSE) \in BOOLEAN
  BY <1>3, OperationFields DEF Floor, ClockAfter, Typed, Stores, Times
<1>5. /\ store' \in Stores /\ store'.open = store.open /\ store'.memory = store.memory
      /\ store'.events = store.events /\ store'.visible_revision = store.visible_revision
      /\ store'.failure = store.failure /\ store'.clock_confirmed = ClockAfter(o, FALSE)
  BY <1>1, <1>3, <1>4 DEF Typed, Stores
<1>6. /\ key' \in [visible_revision : Nat, observed_floor : Times]
      /\ key'.visible_revision = key.visible_revision /\ key'.observed_floor = Floor(o)
  BY <1>1, <1>3, <1>4 DEF Typed
<1>7. Typed'
  BY <1>1, <1>3, <1>5, <1>6 DEF Typed
<1>8. OpenAgrees'
  BY <1>1, <1>3, <1>5, <1>6 DEF OpenAgrees
<1>9. FileAgrees'
  BY <1>1, <1>3, <1>6 DEF FileAgrees, Current
<1>10. ClockNeverForgotten'
  BY <1>3, <1>5, <1>6 DEF ClockNeverForgotten, Confirmed, ClockAfter, Floor
<1> QED BY <1>1, <1>2, <1>7, <1>8, <1>9, <1>10 DEF EndpointInv, RestoredRefused

\* file_transition, stopped at any stage or done.
LEMMA TransitionKeeps ==
  ASSUME EndpointInv, NEW o \in Operations, NEW stage \in Stages, Transition(o, stage)
  PROVE  EndpointInv'
<1> DEFINE e == After(store.memory, o)
           events == Append(store.events, o)
<1>1. /\ Permitted(o) /\ Applies(store.memory, o) /\ e # store.memory
      /\ Len(store.events) < MaxMutations
      /\ file' = IF stage \in {"SyncDirectory", "Done"}
                   THEN [ops |-> events, synced |-> IF stage = "Done" THEN Len(events)
                                                    ELSE file.synced]
                   ELSE file
      /\ given' = IF stage = "Done" THEN given \cup Answer(e, o) ELSE given
      /\ seen' = seen /\ restored' = restored
  <2>1. Len(store.events) \in Nat /\ MaxMutations \in Nat
    BY EndpointStoreAssumption DEF EndpointInv, Typed, Stores
  <2> QED BY <2>1 DEF Transition, Unchanged, AtLimit, Visible, Returned
<1>2. store' = [store EXCEPT
           !.memory = IF stage \in {"SyncDirectory", "Done"} THEN e ELSE @,
           !.events = IF stage \in {"SyncDirectory", "Done"} THEN events ELSE @,
           !.visible_revision = IF stage \in {"SyncDirectory", "Done"} THEN @ + 1 ELSE @,
           !.synchronized_revision = IF stage = "Done" THEN Len(events) ELSE @,
           !.clock_confirmed = ClockAfter(o, stage = "Done"),
           !.failure = (stage # "Done")]
  BY DEF Transition, Visible, Installed
<1>3. /\ key' = [visible_revision |->
                   IF stage \in {"SyncDirectory", "Done"} THEN store.visible_revision + 1
                   ELSE key.visible_revision,
                 observed_floor |-> Floor(o)]
      /\ pending' = (pending \/ stage \in {"WritePending", "SyncPending", "Publish"})
  BY DEF Transition, Visible
<1>4. /\ store.open /\ ~store.failure /\ ~restored /\ ~pending
      /\ o.op \in Asking => Confirmed
      /\ store.memory = Replay(file.ops) /\ store.memory \in Endpoints
      /\ file.ops = store.events /\ file.ops \in Seq(Operations)
      /\ file.synced = Len(file.ops)
  BY <1>1, PermittedOpen
<1>5. /\ Typed /\ OpenAgrees /\ FileAgrees /\ ClockNeverForgotten
      /\ store \in Stores
  BY DEF EndpointInv, Typed
<1>6. /\ e \in Endpoints
      /\ \A a \in Attempts : store.memory.receipts[a] # "None" =>
           e.receipts[a] = store.memory.receipts[a]
      /\ o.op \in Asking => e.receipts[o.message.attempt] # "None"
      /\ e.elapsed = IF o.op = "ObserveTime" THEN o.tick ELSE store.memory.elapsed
  BY <1>4, AfterFacts
<1>7. /\ Len(store.events) \in Nat /\ events \in Seq(Operations)
      /\ Len(events) = Len(store.events) + 1
      /\ \A k \in 0..Len(store.events) : SubSeq(events, 1, k) = SubSeq(store.events, 1, k)
      /\ SubSeq(store.events, 1, Len(store.events)) = store.events
  BY <1>4, AppendFacts
<1>8. Replay(events) = e /\ Replayable(events)
  <2>1. Replay(events) = e
    BY <1>4, ReplayAppend
  <2>2. Replayable(file.ops)
    BY <1>4, <1>5 DEF FileAgrees
  <2>3. Replayable(events)
    BY <1>1, <1>4, <2>2, ReplayableAppend
  <2> QED BY <2>1, <2>3
<1>9. Floor(o) \in Times /\ ClockAfter(o, stage = "Done") \in BOOLEAN
  BY <1>5, OperationFields DEF Floor, ClockAfter, Typed, Stores, Times
<1>10. \A r \in Answer(e, o) :
         /\ r \in [attempt : Attempts, outcome : Outcomes \ {"None"}]
         /\ Holds(e, r)
  <2> HIDE DEF e
  <2> QED BY <1>6, AnswerHolds
<1> HIDE DEF e, events
<1>11. Len(events) \in Nat /\ Len(events) > 0 /\ Len(events) - 1 = Len(store.events)
  BY <1>7
<1>12. store.visible_revision = Len(store.events) /\ key.visible_revision = Len(store.events)
  BY <1>4, <1>5 DEF OpenAgrees, FileAgrees, Current
<1>13. store.visible_revision + 1 = Len(events) /\ Len(events) \in Nat
  BY <1>7, <1>12
<1>14. /\ store' \in Stores /\ store'.open = store.open
       /\ store'.memory = IF stage \in {"SyncDirectory", "Done"} THEN e ELSE store.memory
       /\ store'.events = IF stage \in {"SyncDirectory", "Done"} THEN events ELSE store.events
       /\ store'.visible_revision = IF stage \in {"SyncDirectory", "Done"} THEN Len(events)
                                    ELSE store.visible_revision
       /\ store'.clock_confirmed = ClockAfter(o, stage = "Done")
       /\ store'.failure = (stage # "Done")
  <2>1. CASE stage = "Done"
    BY <2>1, <1>2, <1>5, <1>6, <1>7, <1>9, <1>13 DEF Stores
  <2>2. CASE stage = "SyncDirectory"
    BY <2>2, <1>2, <1>5, <1>6, <1>7, <1>9, <1>13 DEF Stores
  <2>3. CASE stage \notin {"SyncDirectory", "Done"}
    BY <2>3, <1>2, <1>5, <1>9 DEF Stores
  <2> QED BY <2>1, <2>2, <2>3
<1>15. \A r \in given : Holds(e, r)
  <2>1. \A r \in given : r.attempt \in Attempts /\ r.outcome # "None" /\ Holds(store.memory, r)
    BY <1>4, <1>5 DEF Typed, FileAgrees
  <2> QED BY <2>1, <1>6 DEF Holds
<1>16. IsPrefix(seen, events)
  <2>1. IsPrefix(seen, store.events) /\ Len(seen) \in Nat
    BY <1>4, <1>5 DEF FileAgrees, Typed
  <2>2. Len(seen) \in 0..Len(store.events) /\ Len(seen) <= Len(events)
    BY <2>1, <1>7 DEF IsPrefix
  <2>3. SubSeq(events, 1, Len(seen)) = SubSeq(store.events, 1, Len(seen))
    BY <2>2, <1>7
  <2> QED BY <2>1, <2>2, <2>3 DEF IsPrefix
<1>17. CASE stage = "Done"
  <2>1. /\ file' = [ops |-> events, synced |-> Len(events)]
        /\ given' = given \cup Answer(e, o)
        /\ key' = [visible_revision |-> Len(events), observed_floor |-> Floor(o)]
        /\ ~pending'
    BY <1>1, <1>3, <1>4, <1>13, <1>17
  <2>2. file'.ops = events /\ file'.synced = Len(events)
    BY <2>1
  <2>3. key'.visible_revision = Len(events) /\ key'.observed_floor = Floor(o)
    BY <2>1
  <2>4. /\ store'.memory = e /\ store'.events = events /\ ~store'.failure
        /\ store'.visible_revision = Len(events)
        /\ store'.clock_confirmed = ClockAfter(o, TRUE)
    BY <1>14, <1>17
  <2>5. Typed'
    <3>1. file' \in [ops : Seq(Operations), synced : Nat]
      BY <2>1, <1>7, <1>11
    <3>2. key' \in [visible_revision : Nat, observed_floor : Times]
      BY <2>1, <1>9, <1>11
    <3>3. given' \subseteq [attempt : Attempts, outcome : Outcomes \ {"None"}]
      BY <2>1, <1>5, <1>10 DEF Typed
    <3> QED BY <3>1, <3>2, <3>3, <1>1, <1>5, <1>14 DEF Typed
  <2>6. OpenAgrees'
    BY <2>1, <2>2, <2>3, <2>4, <1>1, <1>4, <1>8 DEF OpenAgrees
  <2>7. SubSeq(events, 1, Len(events)) = events
    BY <1>7
  <2>8. FileAgrees'
    <3>1. \A r \in given' : Holds(e, r)
      BY <2>1, <1>10, <1>15
    <3>2. Len(events) <= Len(events)
      BY <1>11
    <3> QED BY <2>2, <2>3, <2>7, <3>1, <3>2, <1>1, <1>6, <1>8, <1>16 DEF FileAgrees, Current
  <2>9. ClockNeverForgotten'
    BY <2>3, <2>4, <1>4, <1>5, <1>6, <1>14
       DEF ClockNeverForgotten, Confirmed, ClockAfter, Floor
  <2> QED BY <2>5, <2>6, <2>8, <2>9, <1>1, <1>4 DEF EndpointInv, RestoredRefused
<1>18. CASE stage = "SyncDirectory"
  <2>1. /\ file' = [ops |-> events, synced |-> file.synced]
        /\ given' = given
        /\ key' = [visible_revision |-> Len(events), observed_floor |-> Floor(o)]
    BY <1>1, <1>3, <1>13, <1>18
  <2>2. file'.ops = events /\ file'.synced = file.synced
    BY <2>1
  <2>3. key'.visible_revision = Len(events) /\ key'.observed_floor = Floor(o)
    BY <2>1
  <2>4. /\ store'.memory = e /\ store'.events = events /\ store'.failure
        /\ store'.visible_revision = Len(events)
    BY <1>14, <1>18
  <2>5. Typed'
    <3>1. file' \in [ops : Seq(Operations), synced : Nat]
      BY <2>1, <1>5, <1>7 DEF Typed
    <3>2. key' \in [visible_revision : Nat, observed_floor : Times]
      BY <2>1, <1>9, <1>11
    <3> QED BY <2>1, <3>1, <3>2, <1>1, <1>5, <1>14 DEF Typed
  <2>6. OpenAgrees'
    BY <2>1, <2>2, <2>3, <2>4, <1>1, <1>4, <1>8 DEF OpenAgrees
  <2>7. /\ file.synced \in 0..Len(store.events) /\ file.synced <= Len(events)
        /\ SubSeq(events, 1, file.synced) = SubSeq(file.ops, 1, file.synced)
    BY <1>4, <1>7
  <2>8. FileAgrees'
    BY <2>1, <2>2, <2>3, <2>7, <1>1, <1>4, <1>5, <1>6, <1>8, <1>15, <1>16
       DEF FileAgrees, Current
  <2>9. ClockNeverForgotten'
    BY <2>4 DEF ClockNeverForgotten, Confirmed
  <2> QED BY <2>5, <2>6, <2>8, <2>9, <1>1, <1>4 DEF EndpointInv, RestoredRefused
<1>19. CASE stage \notin {"SyncDirectory", "Done"}
  <2>1. /\ file' = file /\ given' = given
        /\ key' = [visible_revision |-> key.visible_revision, observed_floor |-> Floor(o)]
    BY <1>1, <1>3, <1>19
  <2>2. key'.visible_revision = key.visible_revision
    BY <2>1
  <2>3. /\ store'.memory = store.memory /\ store'.events = store.events /\ store'.failure
        /\ store'.visible_revision = store.visible_revision
    BY <1>14, <1>19
  <2>4. Typed'
    <3>1. key' \in [visible_revision : Nat, observed_floor : Times]
      BY <2>1, <1>5, <1>9 DEF Typed
    <3> QED BY <2>1, <3>1, <1>1, <1>5, <1>14 DEF Typed
  <2>5. OpenAgrees'
    BY <2>1, <2>2, <2>3, <1>1, <1>4, <1>5 DEF OpenAgrees
  <2>6. FileAgrees'
    BY <2>1, <2>2, <1>1, <1>5 DEF FileAgrees, Current
  <2>7. ClockNeverForgotten'
    BY <2>3 DEF ClockNeverForgotten, Confirmed
  <2> QED BY <2>4, <2>5, <2>6, <2>7, <1>1, <1>4 DEF EndpointInv, RestoredRefused
<1> QED BY <1>17, <1>18, <1>19

\* status answers from a memory whose clock is confirmed.
LEMMA StatusKeeps ==
  ASSUME EndpointInv, NEW q \in Queries, Status(q)
  PROVE  EndpointInv'
<1> DEFINE r0 == [attempt |-> q.attempt, outcome |-> store.memory.receipts[q.attempt]]
<1>1. /\ Confirmed /\ store.memory.receipts[q.attempt] # "None"
      /\ given' = given \cup {r0}
      /\ file' = file /\ pending' = pending /\ store' = store /\ key' = key
      /\ seen' = seen /\ restored' = restored
  BY DEF Status
<1>2. /\ Typed /\ OpenAgrees /\ FileAgrees /\ RestoredRefused /\ ClockNeverForgotten
  BY DEF EndpointInv
<1>3. /\ store.open /\ ~store.failure /\ store.memory = Replay(file.ops)
      /\ store.memory \in Endpoints
      /\ file.synced = Len(file.ops) /\ file.ops \in Seq(Operations) /\ ~restored
  BY <1>1, <1>2 DEF Confirmed, OpenAgrees, Typed, Stores
<1>4. q.attempt \in Attempts
  BY EndpointStoreAssumption DEF Messages
<1>5. r0 \in [attempt : Attempts, outcome : Outcomes \ {"None"}] /\ Holds(store.memory, r0)
  BY <1>1, <1>3, <1>4 DEF Endpoints, Holds
<1>6. SubSeq(file.ops, 1, file.synced) = file.ops
  BY <1>3
<1> HIDE DEF r0
<1>7. Typed'
  BY <1>1, <1>2, <1>5 DEF Typed
<1>8. FileAgrees'
  BY <1>1, <1>2, <1>3, <1>5, <1>6 DEF FileAgrees, Current
<1> QED BY <1>1, <1>2, <1>7, <1>8
    DEF EndpointInv, OpenAgrees, RestoredRefused, ClockNeverForgotten, Confirmed

\* Losing the endpoint leaves the file and the key; reopening takes the file as it
\* is, with a clock that is not confirmed.
LEMMA LifeKeeps ==
  ASSUME EndpointInv,
         DropEndpoint \/ Reopen \/ (\E removed \in BOOLEAN : ReopenFails(removed)) \/ Read
  PROVE  EndpointInv'
<1>0. /\ Typed /\ OpenAgrees /\ FileAgrees /\ RestoredRefused /\ ClockNeverForgotten
  BY DEF EndpointInv
<1>1. CASE DropEndpoint
  <2>1. /\ store' = NoEndpoint /\ file' = file /\ pending' = pending /\ key' = key
        /\ given' = given /\ seen' = seen /\ restored' = restored
    BY <1>1 DEF DropEndpoint
  <2>2. NoEndpoint \in Stores /\ ~NoEndpoint.open
    <3> DEFINE none == <<>>
    <3>1. none \in Seq(Operations)
      OBVIOUS
    <3>2. NewEndpoint \in Endpoints
      BY EndpointStoreAssumption DEF NewEndpoint, Endpoints, Times, Outcomes
    <3> HIDE DEF none
    <3>3. NoEndpoint = [open |-> FALSE, memory |-> NewEndpoint, events |-> none,
                        visible_revision |-> 0, synchronized_revision |-> 0,
                        clock_confirmed |-> FALSE, failure |-> FALSE]
      BY DEF NoEndpoint, none
    <3> QED BY <3>1, <3>2, <3>3 DEF Stores
  <2>3. Typed' /\ OpenAgrees' /\ FileAgrees' /\ RestoredRefused' /\ ClockNeverForgotten'
    BY <1>0, <2>1, <2>2 DEF Typed, OpenAgrees, FileAgrees, Current, RestoredRefused,
                            ClockNeverForgotten, Confirmed
  <2> QED BY <2>3 DEF EndpointInv
<1>2. ASSUME file' = [file EXCEPT !.synced = Len(file.ops)], key' = key, given' = given,
             seen' = seen, restored' = restored, Current
      PROVE  /\ ~restored /\ FileAgrees' /\ RestoredRefused' /\ file'.ops = file.ops
             /\ file'.synced = Len(file.ops)
             /\ file' \in [ops : Seq(Operations), synced : Nat]
  <2>1. file.ops \in Seq(Operations) /\ Len(file.ops) \in Nat
    BY <1>0 DEF Typed
  <2>2. /\ file'.ops = file.ops /\ file'.synced = Len(file.ops)
        /\ file' \in [ops : Seq(Operations), synced : Nat]
    BY <1>0, <1>2, <2>1 DEF Typed
  <2>3. SubSeq(file.ops, 1, Len(file.ops)) = file.ops
    BY <2>1
  <2>4. ~restored
    BY <1>0, <1>2, <2>1 DEF RestoredRefused, Current
  <2>5. Len(file.ops) <= Len(file.ops)
    BY <2>1
  <2> QED BY <1>0, <1>2, <2>2, <2>3, <2>4, <2>5 DEF FileAgrees, RestoredRefused, Current
<1>3. CASE Reopen
  <2>1. /\ Current
        /\ file' = [file EXCEPT !.synced = Len(file.ops)] /\ pending' = FALSE
        /\ store' = [open |-> TRUE, memory |-> Replay(file.ops), events |-> file.ops,
                     visible_revision |-> Len(file.ops),
                     synchronized_revision |-> Len(file.ops),
                     clock_confirmed |-> FALSE, failure |-> FALSE]
        /\ key' = key /\ given' = given /\ seen' = seen /\ restored' = restored
    BY <1>3 DEF Reopen, ReopenedClock
  <2>2. /\ ~restored /\ FileAgrees' /\ RestoredRefused' /\ file'.ops = file.ops
        /\ file'.synced = Len(file.ops)
        /\ file' \in [ops : Seq(Operations), synced : Nat]
    BY <1>2, <2>1
  <2>3. Replay(file.ops) \in Endpoints /\ file.ops \in Seq(Operations) /\ Len(file.ops) \in Nat
    BY <1>0, <2>2 DEF FileAgrees, Typed
  <2>4. /\ store' \in Stores /\ store'.memory = Replay(file.ops) /\ store'.events = file.ops
        /\ store'.visible_revision = Len(file.ops) /\ ~store'.clock_confirmed
    BY <2>1, <2>3 DEF Stores
  <2>5. Typed'
    BY <1>0, <2>1, <2>2, <2>4 DEF Typed
  <2>6. OpenAgrees'
    BY <2>1, <2>2, <2>4 DEF OpenAgrees, Current
  <2> QED BY <2>2, <2>4, <2>5, <2>6 DEF EndpointInv, ClockNeverForgotten, Confirmed
<1>4. ASSUME NEW removed \in BOOLEAN, ReopenFails(removed)
      PROVE  EndpointInv'
  <2>1. /\ Current /\ ~store.open
        /\ file' = [file EXCEPT !.synced = Len(file.ops)] /\ store' = store
        /\ key' = key /\ given' = given /\ seen' = seen /\ restored' = restored
    BY <1>4 DEF ReopenFails
  <2>2. /\ FileAgrees' /\ RestoredRefused'
        /\ file' \in [ops : Seq(Operations), synced : Nat]
    BY <1>2, <2>1
  <2>3. Typed' /\ OpenAgrees' /\ ClockNeverForgotten'
    BY <1>0, <2>1, <2>2 DEF Typed, OpenAgrees, ClockNeverForgotten, Confirmed
  <2> QED BY <2>2, <2>3 DEF EndpointInv
<1>5. CASE Read
  <2>1. /\ seen' = file.ops /\ file' = file /\ pending' = pending /\ store' = store
        /\ key' = key /\ given' = given /\ restored' = restored
    BY <1>5 DEF Read
  <2>2. file.ops \in Seq(Operations) /\ Len(file.ops) \in Nat
    BY <1>0 DEF Typed
  <2>3. IsPrefix(file.ops, file.ops)
    BY <2>2 DEF IsPrefix
  <2>4. Typed' /\ OpenAgrees' /\ FileAgrees' /\ RestoredRefused' /\ ClockNeverForgotten'
    BY <1>0, <2>1, <2>2, <2>3 DEF Typed, OpenAgrees, FileAgrees, Current, RestoredRefused,
                                  ClockNeverForgotten, Confirmed
  <2> QED BY <2>4 DEF EndpointInv
<1> QED BY <1>1, <1>3, <1>4, <1>5

\* An older file that is put back stays behind the key.
LEMMA RestoreKeeps ==
  ASSUME EndpointInv, NEW n \in 0..(Len(file.ops) - 1), RestoreOld(n)
  PROVE  EndpointInv'
<1>1. /\ ~store.open
      /\ file' = [ops |-> SubSeq(file.ops, 1, n), synced |-> n] /\ restored' = TRUE
      /\ pending' = pending /\ store' = store /\ key' = key /\ given' = given /\ seen' = seen
  BY DEF RestoreOld
<1>2. /\ Typed /\ FileAgrees /\ RestoredRefused /\ file.ops \in Seq(Operations)
      /\ key.visible_revision \in Nat
  BY DEF EndpointInv, Typed
<1>3. Len(file.ops) \in Nat /\ n \in Nat /\ n < Len(file.ops)
  BY <1>2
<1>4. SubSeq(file.ops, 1, n) \in Seq(Operations) /\ Len(SubSeq(file.ops, 1, n)) = n
  <2>1. n <= Len(file.ops)
    BY <1>3
  <2> QED BY <1>2, <1>3, <2>1
<1>5. Len(file.ops) <= key.visible_revision
  BY <1>2, <1>3 DEF FileAgrees, RestoredRefused, Current
<1>6. n < key.visible_revision
  BY <1>2, <1>3, <1>5
<1>7. file'.ops = SubSeq(file.ops, 1, n) /\ file'.synced = n
  BY <1>1
<1>8. Typed'
  BY <1>1, <1>2, <1>3, <1>4 DEF Typed
<1>9. RestoredRefused'
  BY <1>1, <1>4, <1>6, <1>7 DEF RestoredRefused
<1> QED BY <1>1, <1>8, <1>9
    DEF EndpointInv, OpenAgrees, FileAgrees, ClockNeverForgotten, Confirmed

\* The invariant of the endpoint and its file: whichever stage an I/O error stops,
\* memory, file, key and receipts agree (file_transition, reopen).
THEOREM EndpointInvariant == Spec => []EndpointInv
<1>1. EndpointInv /\ [Next]_vars => EndpointInv'
  <2> SUFFICES ASSUME EndpointInv, [Next]_vars PROVE EndpointInv'
    OBVIOUS
  <2>1. CASE UNCHANGED vars
    BY <2>1 DEF vars, EndpointInv, Typed, OpenAgrees, FileAgrees, Current, RestoredRefused,
                ClockNeverForgotten, Confirmed
  <2>2. CASE Next
    BY <2>2, RepeatKeeps, RefuseKeeps, TransitionKeeps, StatusKeeps, LifeKeeps, RestoreKeeps
       DEF Next
  <2> QED BY <2>1, <2>2
<1> QED BY InitInv, <1>1, PTL DEF Spec

\* The endpoint never disagrees with the file that others may be reading, and what
\* the last endpoint left can be reopened with the key.
THEOREM EndpointMemoryIsVisible == Spec => []MemoryIsVisible
<1>1. EndpointInv => MemoryIsVisible
  BY DEF EndpointInv, OpenAgrees, FileAgrees, Current, MemoryIsVisible
<1> QED BY EndpointInvariant, <1>1, PTL

\* A returned receipt is on disk and stands for as long as the controller lives.
THEOREM EndpointReceiptsKept == Spec => []ReceiptsKept
<1>1. EndpointInv => ReceiptsKept
  BY DEF EndpointInv, OpenAgrees, FileAgrees, ReceiptsKept
<1> QED BY EndpointInvariant, <1>1, PTL

\* No answer is decided on a clock behind a time already observed.
THEOREM EndpointClockKept == Spec => []ClockNeverForgotten
<1>1. EndpointInv => ClockNeverForgotten
  BY DEF EndpointInv
<1> QED BY EndpointInvariant, <1>1, PTL

=============================================================================
