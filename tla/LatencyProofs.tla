---------------------------- MODULE LatencyProofs ----------------------------
(***************************************************************************)
(* What LatencyTracker promises its readers, for any number of threads and *)
(* any latencies (metrics/latency_tracker.h).                              *)
(*                                                                         *)
(* The difficulty is the additions in flight: a recorder has begun, has    *)
(* added to one counter, to both or to none, and is not yet done.  A       *)
(* counter is what is done, and what the recorders in between have added   *)
(* and is not done; what is begun is the counter, and what they still owe. *)
(* Both are sums over the recorders.                                       *)
(***************************************************************************)
EXTENDS LatencyTracker, WellFoundedInduction, TLAPS

-----------------------------------------------------------------------------
(* The sum of a log *)

\* A non-empty set of naturals has a least element.
LEMMA Least ==
  ASSUME NEW I, I \subseteq Nat, I # {}
  PROVE  \E x \in I : \A y \in I : x <= y
  <1> DEFINE R == OpToRel(<, Nat)
  <1>1. \A x, y \in Nat : ~(<<y, x>> \in R) => x <= y
    BY DEF OpToRel
  <1>2. \E x \in I : \A y \in I : ~(<<y, x>> \in R)
    BY NatLessThanWellFounded, WFMin, Zenon
  <1> HIDE DEF R
  <1> QED BY <1>1, <1>2, Zenon

\* f holds the sums of the first entries of a log, up to n of them.
SumsTo(f, log, n) == f = [i \in 0..n |-> IF i = 0 THEN 0 ELSE f[i - 1] + log[i]]

\* Such an f exists: take the smallest n for which it does not.
LEMMA SumsExist ==
  ASSUME NEW log, NEW n \in Nat
  PROVE  \E f : SumsTo(f, log, n)
  <1> DEFINE I == {k \in Nat : ~ \E f : SumsTo(f, log, k)}
  <1> SUFFICES ASSUME I # {} PROVE FALSE
    OBVIOUS
  <1>1. PICK k \in I : \A j \in I : k <= j
    BY Least
  <1>2. CASE k = 0
    <2> DEFINE f == [i \in 0..0 |-> 0]
    <2>1. SumsTo(f, log, 0)
      BY DEF SumsTo
    <2> QED BY <1>1, <1>2, <2>1
  <1>3. CASE k > 0
    <2>1. k \in Nat /\ k - 1 \in Nat /\ k - 1 \notin I
      BY <1>1, <1>3
    <2>2. PICK g : SumsTo(g, log, k - 1)
      BY <2>1
    <2> DEFINE f == [i \in 0..k |-> IF i <= k - 1 THEN g[i] ELSE g[k - 1] + log[k]]
    <2>3. \A i \in 0..(k - 1) : g[i] = IF i = 0 THEN 0 ELSE g[i - 1] + log[i]
      BY <2>2 DEF SumsTo
    <2>4. \A i \in 0..k : f[i] = IF i = 0 THEN 0 ELSE f[i - 1] + log[i]
      BY <2>1, <2>3, <1>3
    <2>5. f = [i \in 0..k |-> f[i]]
      OBVIOUS
    <2> HIDE DEF f
    <2>6. SumsTo(f, log, k)
      BY <2>4, <2>5 DEF SumsTo
    <2> QED BY <1>1, <2>6
  <1> QED BY <1>1, <1>2, <1>3

\* SumOf is the last of those sums.
LEMMA SumOfIs ==
  ASSUME NEW log, Len(log) \in Nat
  PROVE  \E f : SumsTo(f, log, Len(log)) /\ SumOf(log) = f[Len(log)]
  <1> DEFINE f == CHOOSE g : g = [i \in 0..Len(log) |-> IF i = 0 THEN 0 ELSE g[i - 1] + log[i]]
  <1>1. f = [i \in 0..Len(log) |-> IF i = 0 THEN 0 ELSE f[i - 1] + log[i]]
    BY SumsExist, Zenon DEF SumsTo
  <1>2. SumOf(log) = f[Len(log)]
    BY Zenon DEF SumOf
  <1> QED BY <1>1, <1>2, Zenon DEF SumsTo

\* Logs that agree on n entries have the same sums up to n.
LEMMA SumsAgree ==
  ASSUME NEW f, NEW g, NEW a, NEW b, NEW n \in Nat, NEW m \in Nat, n <= m,
         SumsTo(f, a, n), SumsTo(g, b, m), \A i \in 1..n : a[i] = b[i]
  PROVE  f[n] = g[n]
  <1> DEFINE I == {k \in 0..n : f[k] # g[k]}
  <1> SUFFICES ASSUME I # {} PROVE FALSE
    OBVIOUS
  <1>a. I \subseteq Nat
    OBVIOUS
  <1>1. PICK k \in I : \A j \in I : k <= j
    BY <1>a, Least
  <1>2. \A i \in 0..n : /\ f[i] = IF i = 0 THEN 0 ELSE f[i - 1] + a[i]
                        /\ g[i] = IF i = 0 THEN 0 ELSE g[i - 1] + b[i]
    BY DEF SumsTo
  <1>3. CASE k = 0
    BY <1>1, <1>2, <1>3
  <1>4. CASE k > 0
    <2>1. f[k - 1] = g[k - 1]
      BY <1>1, <1>4
    <2> QED BY <1>1, <1>2, <1>4, <2>1
  <1> QED BY <1>1, <1>3, <1>4

\* The sum of latencies is a natural number.
LEMMA SumIsNat ==
  ASSUME NEW s \in Seq(Nat)
  PROVE  SumOf(s) \in Nat
  <1>1. PICK f : SumsTo(f, s, Len(s)) /\ SumOf(s) = f[Len(s)]
    BY SumOfIs
  <1> DEFINE I == {k \in 0..Len(s) : f[k] \notin Nat}
  <1> SUFFICES ASSUME I # {} PROVE FALSE
    BY <1>1
  <1>a. I \subseteq Nat
    OBVIOUS
  <1>2. PICK k \in I : \A j \in I : k <= j
    BY <1>a, Least
  <1>3. f[k] = IF k = 0 THEN 0 ELSE f[k - 1] + s[k]
    BY <1>1, <1>2 DEF SumsTo
  <1>4. CASE k = 0
    BY <1>2, <1>3, <1>4
  <1>5. CASE k > 0
    <2>1. f[k - 1] \in Nat /\ s[k] \in Nat
      BY <1>2, <1>5
    <2> QED BY <1>2, <1>3, <1>5, <2>1
  <1> QED BY <1>2, <1>4, <1>5

\* One more latency adds itself to the sum.
LEMMA SumOfAppend ==
  ASSUME NEW s \in Seq(Nat), NEW x \in Nat
  PROVE  SumOf(Append(s, x)) = SumOf(s) + x
  <1>1. PICK t : t = Append(s, x)
    OBVIOUS
  <1>2. /\ t \in Seq(Nat) /\ Len(s) \in Nat /\ Len(t) = Len(s) + 1 /\ t[Len(t)] = x
        /\ \A i \in 1..Len(s) : s[i] = t[i]
    BY <1>1
  <1>3. PICK f : SumsTo(f, s, Len(s)) /\ SumOf(s) = f[Len(s)]
    BY SumOfIs
  <1>4. PICK g : SumsTo(g, t, Len(t)) /\ SumOf(t) = g[Len(t)]
    BY <1>2, SumOfIs
  <1>5. f[Len(s)] = g[Len(s)]
    <2>1. Len(s) \in Nat /\ Len(t) \in Nat /\ Len(s) <= Len(t)
      BY <1>2
    <2> QED BY <2>1, <1>2, <1>3, <1>4, SumsAgree
  <1>6. g[Len(t)] = g[Len(t) - 1] + t[Len(t)]
    BY <1>2, <1>4 DEF SumsTo
  <1> QED BY <1>1, <1>2, <1>3, <1>4, <1>5, <1>6

\* The empty log has the sum 0.
LEMMA SumOfNone == SumOf(<<>>) = 0
  <1>1. PICK f : SumsTo(f, <<>>, 0) /\ SumOf(<<>>) = f[0]
    BY SumOfIs
  <1> QED BY <1>1 DEF SumsTo

-----------------------------------------------------------------------------
(* Sums over the recorders *)

\* Each is in p at most once, and those that are not weigh nothing.
Covers(p, w) ==
    /\ p \in Seq(Recorders)
    /\ \A i, j \in 1..Len(p) : p[i] = p[j] => i = j
    /\ \A t \in Recorders : w[t] # 0 => \E i \in 1..Len(p) : p[i] = t

\* The sums along p, which never fall.
Adds(f, p, w) ==
    /\ f \in [0..Len(p) -> Nat] /\ f[0] = 0
    /\ \A i \in 1..Len(p) : f[i] = f[i - 1] + w[p[i]]
    /\ \A i, j \in 0..Len(p) : i <= j => f[i] <= f[j]

\* The recorders weigh n together.
Weigh(w, n) == \E p, f : Covers(p, w) /\ Adds(f, p, w) /\ n = f[Len(p)]

\* When no recorder weighs anything, they weigh 0 together.
LEMMA WeighNothing ==
  ASSUME NEW w, \A t \in Recorders : w[t] = 0
  PROVE  Weigh(w, 0)
  <1> DEFINE p == <<>>
             f == [i \in 0..0 |-> 0]
  <1>1. Covers(p, w)
    BY DEF Covers
  <1>2. Adds(f, p, w) /\ 0 = f[Len(p)]
    BY DEF Adds
  <1> QED BY <1>1, <1>2 DEF Weigh

\* What they weigh is a natural number.
LEMMA WeighNat ==
  ASSUME NEW w, NEW n, Weigh(w, n)
  PROVE  n \in Nat
  BY DEF Weigh, Covers, Adds

\* One recorder changes its weight, and what they weigh together changes by as much.
LEMMA WeighChange ==
  ASSUME NEW w \in [Recorders -> Nat], NEW n, Weigh(w, n), NEW t \in Recorders, NEW x \in Nat,
         NEW v, v = [w EXCEPT ![t] = x]
  PROVE  Weigh(v, n - w[t] + x)
  <1>1. PICK p, f : Covers(p, w) /\ Adds(f, p, w) /\ n = f[Len(p)]
    BY DEF Weigh
  <1>2. Len(p) \in Nat /\ \A i \in 1..Len(p) : p[i] \in Recorders
    BY <1>1 DEF Covers
  <1>3. /\ v[t] = x /\ w[t] \in Nat
        /\ \A u \in Recorders : u # t => v[u] = w[u]
    OBVIOUS
  <1>4. CASE \E i \in 1..Len(p) : p[i] = t
    <2>1. PICK i \in 1..Len(p) : p[i] = t
      BY <1>4
    <2>2. \A j \in 1..Len(p) : j # i => p[j] # t
      BY <1>1, <2>1 DEF Covers
    <2> DEFINE g == [j \in 0..Len(p) |-> IF j < i THEN f[j] ELSE f[j] - w[t] + x]
    <2>3. Covers(p, v)
      BY <1>1, <1>3, <2>1 DEF Covers
    <2>4. /\ f \in [0..Len(p) -> Nat] /\ f[i] = f[i - 1] + w[t]
          /\ \A j \in 1..Len(p) : f[j] = f[j - 1] + w[p[j]]
          /\ \A j, k \in 0..Len(p) : j <= k => f[j] <= f[k]
      BY <1>1, <2>1 DEF Adds
    <2>5. \A j \in 0..Len(p) : j >= i => f[j] >= w[t]
      <3> SUFFICES ASSUME NEW j \in 0..Len(p), j >= i PROVE f[j] >= w[t]
        OBVIOUS
      <3>1. i \in 0..Len(p) /\ i - 1 \in 0..Len(p)
        BY <1>2
      <3>2. f[i] \in Nat /\ f[i - 1] \in Nat /\ f[j] \in Nat /\ f[i] <= f[j]
        BY <3>1, <2>4
      <3> QED BY <3>2, <2>4, <1>3
    <2>6. g \in [0..Len(p) -> Nat] /\ g[0] = 0
      <3>1. \A j \in 0..Len(p) : g[j] \in Nat
        BY <2>4, <2>5, <1>2, <1>3
      <3>2. g[0] = 0
        BY <1>1, <1>2 DEF Adds
      <3> QED BY <3>1, <3>2
    <2>7. \A j \in 1..Len(p) : g[j] = g[j - 1] + v[p[j]]
      <3> SUFFICES ASSUME NEW j \in 1..Len(p) PROVE g[j] = g[j - 1] + v[p[j]]
        OBVIOUS
      <3>1. CASE j < i
        BY <3>1, <1>2, <1>3, <2>2, <2>4
      <3>2. CASE j = i
        <4>1. g[i] = f[i] - w[t] + x /\ g[i - 1] = f[i - 1] /\ f[i - 1] \in Nat
          BY <1>2, <2>4
        <4>2. v[p[j]] = x
          BY <3>2, <2>1, <1>3
        <4> QED BY <4>1, <4>2, <3>2, <1>3, <2>4
      <3>3. CASE j > i
        <4>1. v[p[j]] = w[p[j]] /\ w[p[j]] \in Nat
          BY <3>3, <1>2, <1>3, <2>2
        <4>2. /\ g[j] = f[j] - w[t] + x /\ g[j - 1] = f[j - 1] - w[t] + x
              /\ f[j - 1] \in Nat /\ f[j] = f[j - 1] + w[p[j]]
          BY <3>3, <1>2, <2>4
        <4> QED BY <4>1, <4>2, <1>3
      <3> QED BY <3>1, <3>2, <3>3
    <2>8. \A j, k \in 0..Len(p) : j <= k => g[j] <= g[k]
      <3> SUFFICES ASSUME NEW j \in 0..Len(p), NEW k \in 0..Len(p), j <= k PROVE g[j] <= g[k]
        OBVIOUS
      <3>1. CASE k < i
        BY <3>1, <1>2, <2>4
      <3>2. CASE j >= i
        <4>1. g[j] = f[j] - w[t] + x /\ g[k] = f[k] - w[t] + x
          BY <3>2, <1>2
        <4>2. f[j] \in Nat /\ f[k] \in Nat /\ f[j] <= f[k]
          BY <2>4
        <4> QED BY <4>1, <4>2, <1>3
      <3>3. CASE j < i /\ i <= k
        <4>1. f[j] <= f[i - 1] /\ f[i] <= f[k]
          BY <3>3, <1>2, <2>4
        <4>2. g[j] = f[j] /\ g[k] = f[k] - w[t] + x
          BY <3>3, <1>2
        <4>3. i \in 0..Len(p) /\ i - 1 \in 0..Len(p)
          BY <1>2
        <4>4. f[j] \in Nat /\ f[k] \in Nat /\ f[i] \in Nat /\ f[i - 1] \in Nat
          BY <4>3, <2>4
        <4> QED BY <4>1, <4>2, <4>4, <1>3, <2>4
      <3> QED BY <3>1, <3>2, <3>3
    <2>9. n - w[t] + x = g[Len(p)]
      BY <1>1, <1>2, <2>1
    <2> HIDE DEF g
    <2>10. Adds(g, p, v)
      BY <2>6, <2>7, <2>8 DEF Adds
    <2> QED BY <2>3, <2>9, <2>10 DEF Weigh
  <1>5. CASE \A i \in 1..Len(p) : p[i] # t
    <2>1. w[t] = 0
      BY <1>1, <1>5 DEF Covers
    <2>2. PICK q : q = Append(p, t)
      OBVIOUS
    <2>3. /\ q \in Seq(Recorders) /\ Len(q) = Len(p) + 1 /\ q[Len(q)] = t
          /\ \A i \in 1..Len(p) : q[i] = p[i]
      BY <2>2, <1>1 DEF Covers
    <2> DEFINE g == [j \in 0..Len(q) |-> IF j <= Len(p) THEN f[j] ELSE f[Len(p)] + x]
    <2>4. Covers(q, v)
      <3>1. \A i, j \in 1..Len(q) : q[i] = q[j] => i = j
        <4>1. \A i \in 1..Len(q) : i \in 1..Len(p) \/ i = Len(q)
          BY <2>3, <1>2
        <4>2. \A i \in 1..Len(p) : q[i] # t
          BY <2>3, <1>5
        <4>3. \A i, j \in 1..Len(p) : q[i] = q[j] => i = j
          BY <2>3, <1>1 DEF Covers
        <4> QED BY <4>1, <4>2, <4>3, <2>3, Zenon
      <3>2. \A u \in Recorders : v[u] # 0 => \E i \in 1..Len(q) : q[i] = u
        <4> SUFFICES ASSUME NEW u \in Recorders, v[u] # 0 PROVE \E i \in 1..Len(q) : q[i] = u
          OBVIOUS
        <4>1. CASE u = t
          BY <4>1, <2>3, <1>2
        <4>2. CASE u # t
          <5>1. PICK i \in 1..Len(p) : p[i] = u
            BY <4>2, <1>1, <1>3 DEF Covers
          <5> QED BY <5>1, <2>3, <1>2
        <4> QED BY <4>1, <4>2
      <3> QED BY <3>1, <3>2, <2>3 DEF Covers
    <2>5. /\ f \in [0..Len(p) -> Nat] /\ f[0] = 0
          /\ \A j \in 1..Len(p) : f[j] = f[j - 1] + w[p[j]]
          /\ \A j, k \in 0..Len(p) : j <= k => f[j] <= f[k]
      BY <1>1 DEF Adds
    <2>6. g \in [0..Len(q) -> Nat] /\ g[0] = 0
      BY <2>5, <2>3, <1>2
    <2>7. \A j \in 1..Len(q) : g[j] = g[j - 1] + v[q[j]]
      <3> SUFFICES ASSUME NEW j \in 1..Len(q) PROVE g[j] = g[j - 1] + v[q[j]]
        OBVIOUS
      <3>1. CASE j \in 1..Len(p)
        <4>1. g[j] = f[j] /\ g[j - 1] = f[j - 1]
          BY <3>1, <2>3, <1>2
        <4>2. v[q[j]] = w[p[j]]
          BY <3>1, <2>3, <1>2, <1>3, <1>5
        <4> QED BY <4>1, <4>2, <3>1, <2>5
      <3>2. CASE j = Len(q)
        <4>1. g[j] = f[Len(p)] + x /\ g[j - 1] = f[Len(p)]
          BY <3>2, <2>3, <1>2
        <4> QED BY <4>1, <3>2, <2>3, <1>3
      <3> QED BY <3>1, <3>2, <2>3, <1>2
    <2>8. \A j, k \in 0..Len(q) : j <= k => g[j] <= g[k]
      <3> SUFFICES ASSUME NEW j \in 0..Len(q), NEW k \in 0..Len(q), j <= k PROVE g[j] <= g[k]
        OBVIOUS
      <3>1. CASE k \in 0..Len(p)
        BY <3>1, <2>5, <2>3, <1>2
      <3>2. CASE k = Len(q) /\ j \in 0..Len(p)
        <4>1. g[j] = f[j] /\ g[k] = f[Len(p)] + x
          BY <3>2, <2>3, <1>2
        <4>2. Len(p) \in 0..Len(p) /\ j \in 0..Len(p) /\ j <= Len(p)
          BY <3>2, <1>2
        <4>3. f[j] \in Nat /\ f[Len(p)] \in Nat /\ f[j] <= f[Len(p)]
          BY <4>2, <2>5
        <4> QED BY <4>1, <4>3
      <3>3. CASE k = Len(q) /\ j = Len(q)
        BY <3>3, <2>6
      <3> QED BY <3>1, <3>2, <3>3, <2>3, <1>2
    <2>9. n - w[t] + x = g[Len(q)]
      BY <2>1, <2>3, <2>5, <1>1, <1>2
    <2> HIDE DEF g
    <2>10. Adds(g, q, v)
      BY <2>6, <2>7, <2>8 DEF Adds
    <2> QED BY <2>4, <2>9, <2>10 DEF Weigh
  <1> QED BY <1>4, <1>5

-----------------------------------------------------------------------------
(* The inductive invariant *)

\* The types; a recorder that owes an addition has a latency.
Types ==
    /\ total_operations_ \in Nat /\ total_latency_ns_ \in Nat
    /\ min_latency_ns_ \in Nat /\ max_latency_ns_ \in Nat
    /\ mutex \in Readers \cup {None}
    /\ latency \in [Recorders -> Latencies \cup {None}]
    /\ todo \in [Recorders -> SUBSET {"operations", "latency"}]
    /\ \A t \in Recorders : todo[t] # {} => latency[t] # None
    /\ loaded \in [total_operations : Nat \cup {None}, total_latency_ns : Nat \cup {None}]
    /\ stats \in [total_operations : Nat, total_latency_ns : Nat,
                  min_latency_ns : Nat, max_latency_ns : Nat]
    /\ begun \in Seq(Nat) /\ done \in Seq(Nat) /\ seen \in 0..Len(done)

\* What each recorder still has to add to a counter, and what it has added
\* before it is done.
OperationOwed(td) == [t \in Recorders |-> IF "operations" \in td[t] THEN 1 ELSE 0]
OperationAdded(lat, td) ==
    [t \in Recorders |-> IF lat[t] # None /\ "operations" \notin td[t] THEN 1 ELSE 0]
LatencyOwed(lat, td) == [t \in Recorders |-> IF "latency" \in td[t] THEN lat[t] ELSE 0]
LatencyAdded(lat, td) ==
    [t \in Recorders |-> IF lat[t] # None /\ "latency" \notin td[t] THEN lat[t] ELSE 0]

\* The counters lie between what is done and what is begun, by what the
\* recorders have added and by what they owe.
Ledger ==
    /\ Weigh(OperationOwed(todo), Len(begun) - total_operations_)
    /\ Weigh(OperationAdded(latency, todo), total_operations_ - Len(done))
    /\ Weigh(LatencyOwed(latency, todo), SumOf(begun) - total_latency_ns_)
    /\ Weigh(LatencyAdded(latency, todo), total_latency_ns_ - SumOf(done))

\* hi is the largest latency of a log, or 0; lo is the smallest since the last 0,
\* or 0.
IsRange(lo, hi, log) ==
    /\ hi = 0 \/ \E i \in 1..Len(log) : hi = log[i]
    /\ \A i \in 1..Len(log) : log[i] <= hi
    /\ SinceZero(log) = {} => lo = 0
    /\ SinceZero(log) # {} => lo \in SinceZero(log) /\ \A ns \in SinceZero(log) : lo <= ns

RangeIsExact == IsRange(min_latency_ns_, max_latency_ns_, done)

\* A counter loaded under the mutex holds what is done, and at least as much
\* as the last snapshot.
LoadsHoldTheDone ==
    /\ loaded.total_operations # None =>
         /\ mutex # None
         /\ Len(done) <= loaded.total_operations /\ loaded.total_operations <= total_operations_
         /\ stats.total_operations <= loaded.total_operations
    /\ loaded.total_latency_ns # None =>
         /\ mutex # None
         /\ SumOf(done) <= loaded.total_latency_ns /\ loaded.total_latency_ns <= total_latency_ns_
         /\ stats.total_latency_ns <= loaded.total_latency_ns

\* The last snapshot holds what was done then, and never more than is counted now.
SnapshotIsPast ==
    /\ seen <= stats.total_operations /\ stats.total_operations <= total_operations_
    /\ SumOf(SubSeq(done, 1, seen)) <= stats.total_latency_ns
    /\ stats.total_latency_ns <= total_latency_ns_
    /\ stats.max_latency_ns <= max_latency_ns_
    /\ IsRange(stats.min_latency_ns, stats.max_latency_ns, SubSeq(done, 1, seen))

TrackerInv == Types /\ Ledger /\ RangeIsExact /\ LoadsHoldTheDone /\ SnapshotIsPast

\* The constructed tracker satisfies the invariant.
LEMMA InitTrackerInv == Init => TrackerInv
  <1> SUFFICES ASSUME Init PROVE TrackerInv
    OBVIOUS
  <1> USE DEF Init
  <1>0. None \notin Nat
    BY TrackerAssumption
  <1>1. Types
    BY DEF Types, NoStats
  <1>2. SumOf(begun) = 0 /\ SumOf(done) = 0 /\ Len(begun) = 0 /\ Len(done) = 0
    BY SumOfNone
  <1>3. Ledger
    <2>1. \A t \in Recorders : /\ OperationOwed(todo)[t] = 0 /\ OperationAdded(latency, todo)[t] = 0
                               /\ LatencyOwed(latency, todo)[t] = 0 /\ LatencyAdded(latency, todo)[t] = 0
      BY DEF OperationOwed, OperationAdded, LatencyOwed, LatencyAdded
    <2>2. /\ Weigh(OperationOwed(todo), 0) /\ Weigh(OperationAdded(latency, todo), 0)
          /\ Weigh(LatencyOwed(latency, todo), 0) /\ Weigh(LatencyAdded(latency, todo), 0)
      BY <2>1, WeighNothing
    <2> QED BY <2>2, <1>2 DEF Ledger
  <1>4. SinceZero(<<>>) = {}
    BY DEF SinceZero
  <1>5. RangeIsExact
    BY <1>4 DEF RangeIsExact, IsRange
  <1>6. LoadsHoldTheDone
    BY DEF LoadsHoldTheDone
  <1>7. SnapshotIsPast
    <2>1. SubSeq(done, 1, seen) = <<>>
      OBVIOUS
    <2>2. /\ stats.total_operations = 0 /\ stats.total_latency_ns = 0
          /\ stats.min_latency_ns = 0 /\ stats.max_latency_ns = 0
      BY DEF NoStats
    <2>3. IsRange(stats.min_latency_ns, stats.max_latency_ns, SubSeq(done, 1, seen))
      <3>1. IsRange(0, 0, <<>>)
        BY <1>4 DEF IsRange
      <3> QED BY <2>1, <2>2, <3>1
    <2>4. SumOf(SubSeq(done, 1, seen)) = 0
      BY <2>1, SumOfNone
    <2> QED BY <2>2, <2>3, <2>4 DEF SnapshotIsPast
  <1> QED BY <1>1, <1>3, <1>5, <1>6, <1>7 DEF TrackerInv

\* Every step keeps the types.
LEMMA NextTypes == Types /\ [Next]_vars => Types'
  <1> SUFFICES ASSUME Types, [Next]_vars PROVE Types'
    OBVIOUS
  <1> USE TrackerAssumption DEF Types
  <1>1. ASSUME NEW t \in Recorders, NEW ns \in Latencies, Stop(t, ns) PROVE Types'
    BY <1>1 DEF Stop, counters, range
  <1>2. ASSUME NEW t \in Recorders, AddOperation(t) PROVE Types'
    BY <1>2 DEF AddOperation, range
  <1>3. ASSUME NEW t \in Recorders, AddLatency(t) PROVE Types'
    <2>1. latency[t] \in Nat
      BY <1>3 DEF AddLatency
    <2> QED BY <1>3, <2>1 DEF AddLatency, range
  <1>4. ASSUME NEW t \in Recorders, UpdateRange(t) PROVE Types'
    <2>1. latency[t] \in Nat
      BY <1>4 DEF UpdateRange
    <2>2. min_latency_ns_' \in Nat /\ max_latency_ns_' \in Nat
      BY <1>4, <2>1 DEF UpdateRange, Lower
    <2>3. done' \in Seq(Nat) /\ seen' \in 0..Len(done')
      BY <1>4, <2>1 DEF UpdateRange
    <2> QED BY <1>4, <2>2, <2>3 DEF UpdateRange, counters
  <1>5. ASSUME NEW r \in Readers, LockSnapshot(r) PROVE Types'
    BY <1>5 DEF LockSnapshot, counters, range, recording
  <1>6. ASSUME NEW r \in Readers, LoadOperations(r) PROVE Types'
    BY <1>6 DEF LoadOperations, counters, range, recording
  <1>7. ASSUME NEW r \in Readers, LoadLatency(r) PROVE Types'
    BY <1>7 DEF LoadLatency, counters, range, recording
  <1>8. ASSUME NEW r \in Readers, ReturnSnapshot(r) PROVE Types'
    BY <1>8 DEF ReturnSnapshot, counters, range, recording
  <1>9. CASE UNCHANGED vars
    BY <1>9 DEF vars, counters, range, recording
  <1> QED BY <1>1, <1>2, <1>3, <1>4, <1>5, <1>6, <1>7, <1>8, <1>9 DEF Next

\* stop owes one operation and its latency.
LEMMA StopLedger ==
  ASSUME Types, Ledger, NEW t \in Recorders, NEW ns \in Latencies, Stop(t, ns)
  PROVE  Ledger'
  <1>1. /\ latency' = [latency EXCEPT ![t] = ns]
        /\ todo' = [todo EXCEPT ![t] = {"operations", "latency"}]
        /\ begun' = Append(begun, ns) /\ latency[t] = None /\ todo[t] = {} /\ ns # None /\ ns \in Nat
        /\ done' = done /\ total_operations_' = total_operations_
        /\ total_latency_ns_' = total_latency_ns_
    BY TrackerAssumption DEF Stop, Types, counters
  <1>2. /\ Len(begun) \in Nat /\ Len(begun') = Len(begun) + 1
        /\ SumOf(begun) \in Nat /\ SumOf(begun') = SumOf(begun) + ns
    BY <1>1, SumOfAppend, SumIsNat DEF Types
  <1>3. \A u \in Recorders : "latency" \in todo[u] => latency[u] \in Nat
    BY TrackerAssumption DEF Types
  <1>4. Weigh(OperationOwed(todo'), Len(begun') - total_operations_')
    <2>1. PICK w : w = OperationOwed(todo)
      OBVIOUS
    <2>2. w \in [Recorders -> Nat] /\ w[t] = 0 /\ Weigh(w, Len(begun) - total_operations_)
      BY <1>1, <2>1 DEF OperationOwed, Ledger
    <2>3. OperationOwed(todo') = [w EXCEPT ![t] = 1]
      BY <1>1, <2>1 DEF OperationOwed, Types
    <2>4. Weigh(OperationOwed(todo'), Len(begun) - total_operations_ - w[t] + 1)
      BY <2>2, <2>3, WeighChange
    <2>5. Len(begun) - total_operations_ - w[t] + 1 = Len(begun') - total_operations_'
      BY <1>1, <1>2, <2>2 DEF Types
    <2> QED BY <2>4, <2>5
  <1>5. Weigh(LatencyOwed(latency', todo'), SumOf(begun') - total_latency_ns_')
    <2>1. PICK w : w = LatencyOwed(latency, todo)
      OBVIOUS
    <2>2. w \in [Recorders -> Nat] /\ w[t] = 0 /\ Weigh(w, SumOf(begun) - total_latency_ns_)
      BY <1>1, <1>3, <2>1 DEF LatencyOwed, Ledger
    <2>3. LatencyOwed(latency', todo') = [w EXCEPT ![t] = ns]
      BY <1>1, <2>1 DEF LatencyOwed, Types
    <2>4. Weigh(LatencyOwed(latency', todo'), SumOf(begun) - total_latency_ns_ - w[t] + ns)
      BY <1>1, <2>2, <2>3, WeighChange
    <2>5. SumOf(begun) - total_latency_ns_ - w[t] + ns = SumOf(begun') - total_latency_ns_'
      BY <1>1, <1>2, <2>2 DEF Types
    <2> QED BY <2>4, <2>5
  <1>6. OperationAdded(latency', todo') = OperationAdded(latency, todo)
    BY <1>1 DEF OperationAdded, Types
  <1>7. LatencyAdded(latency', todo') = LatencyAdded(latency, todo)
    BY <1>1 DEF LatencyAdded, Types
  <1> QED BY <1>1, <1>4, <1>5, <1>6, <1>7 DEF Ledger

\* The addition to the first counter is no longer owed.
LEMMA AddOperationLedger ==
  ASSUME Types, Ledger, NEW t \in Recorders, AddOperation(t)
  PROVE  Ledger'
  <1>1. /\ latency' = latency /\ todo' = [todo EXCEPT ![t] = todo[t] \ {"operations"}]
        /\ begun' = begun /\ done' = done /\ "operations" \in todo[t] /\ latency[t] # None
        /\ total_operations_' = total_operations_ + 1 /\ total_latency_ns_' = total_latency_ns_
    BY DEF AddOperation, Types
  <1>2. Len(begun) \in Nat /\ Len(done) \in Nat /\ total_operations_ \in Nat
    BY DEF Types
  <1>3. Weigh(OperationOwed(todo'), Len(begun') - total_operations_')
    <2>1. PICK w : w = OperationOwed(todo)
      OBVIOUS
    <2>2. w \in [Recorders -> Nat] /\ w[t] = 1 /\ Weigh(w, Len(begun) - total_operations_)
      BY <1>1, <2>1 DEF OperationOwed, Ledger
    <2>3. OperationOwed(todo') = [w EXCEPT ![t] = 0]
      BY <1>1, <2>1 DEF OperationOwed, Types
    <2>4. Weigh(OperationOwed(todo'), Len(begun) - total_operations_ - w[t] + 0)
      BY <2>2, <2>3, WeighChange
    <2>5. Len(begun) - total_operations_ - w[t] + 0 = Len(begun') - total_operations_'
      BY <1>1, <1>2, <2>2
    <2> QED BY <2>4, <2>5
  <1>4. Weigh(OperationAdded(latency', todo'), total_operations_' - Len(done'))
    <2>1. PICK w : w = OperationAdded(latency, todo)
      OBVIOUS
    <2>2. w \in [Recorders -> Nat] /\ w[t] = 0 /\ Weigh(w, total_operations_ - Len(done))
      BY <1>1, <2>1 DEF OperationAdded, Ledger
    <2>3. OperationAdded(latency', todo') = [w EXCEPT ![t] = 1]
      BY <1>1, <2>1 DEF OperationAdded, Types
    <2>4. Weigh(OperationAdded(latency', todo'), total_operations_ - Len(done) - w[t] + 1)
      BY <2>2, <2>3, WeighChange
    <2>5. total_operations_ - Len(done) - w[t] + 1 = total_operations_' - Len(done')
      BY <1>1, <1>2, <2>2
    <2> QED BY <2>4, <2>5
  <1>5. LatencyOwed(latency', todo') = LatencyOwed(latency, todo)
    BY <1>1 DEF LatencyOwed, Types
  <1>6. LatencyAdded(latency', todo') = LatencyAdded(latency, todo)
    BY <1>1 DEF LatencyAdded, Types
  <1> QED BY <1>1, <1>3, <1>4, <1>5, <1>6 DEF Ledger

\* Nor is the one to the second.
LEMMA AddLatencyLedger ==
  ASSUME Types, Ledger, NEW t \in Recorders, AddLatency(t)
  PROVE  Ledger'
  <1>1. /\ latency' = latency /\ todo' = [todo EXCEPT ![t] = todo[t] \ {"latency"}]
        /\ begun' = begun /\ done' = done /\ "latency" \in todo[t] /\ latency[t] # None
        /\ total_latency_ns_' = total_latency_ns_ + latency[t]
        /\ total_operations_' = total_operations_ /\ latency[t] \in Nat
    BY TrackerAssumption DEF AddLatency, Types
  <1>2. SumOf(begun) \in Nat /\ SumOf(done) \in Nat /\ total_latency_ns_ \in Nat
    BY SumIsNat DEF Types
  <1>3. \A u \in Recorders : latency[u] # None => latency[u] \in Nat
    BY TrackerAssumption DEF Types
  <1>4. Weigh(LatencyOwed(latency', todo'), SumOf(begun') - total_latency_ns_')
    <2>1. PICK w : w = LatencyOwed(latency, todo)
      OBVIOUS
    <2>2. w \in [Recorders -> Nat] /\ w[t] = latency[t] /\ Weigh(w, SumOf(begun) - total_latency_ns_)
      BY <1>1, <1>3, <2>1 DEF LatencyOwed, Ledger, Types
    <2>3. LatencyOwed(latency', todo') = [w EXCEPT ![t] = 0]
      BY <1>1, <2>1 DEF LatencyOwed, Types
    <2>4. Weigh(LatencyOwed(latency', todo'), SumOf(begun) - total_latency_ns_ - w[t] + 0)
      BY <2>2, <2>3, WeighChange
    <2>5. SumOf(begun) - total_latency_ns_ - w[t] + 0 = SumOf(begun') - total_latency_ns_'
      BY <1>1, <1>2, <2>2
    <2> QED BY <2>4, <2>5
  <1>5. Weigh(LatencyAdded(latency', todo'), total_latency_ns_' - SumOf(done'))
    <2>1. PICK w : w = LatencyAdded(latency, todo)
      OBVIOUS
    <2>2. w \in [Recorders -> Nat] /\ w[t] = 0 /\ Weigh(w, total_latency_ns_ - SumOf(done))
      BY <1>1, <1>3, <2>1 DEF LatencyAdded, Ledger
    <2>3. LatencyAdded(latency', todo') = [w EXCEPT ![t] = latency[t]]
      BY <1>1, <2>1 DEF LatencyAdded, Types
    <2>4. Weigh(LatencyAdded(latency', todo'), total_latency_ns_ - SumOf(done) - w[t] + latency[t])
      BY <1>1, <2>2, <2>3, WeighChange
    <2>5. total_latency_ns_ - SumOf(done) - w[t] + latency[t] = total_latency_ns_' - SumOf(done')
      BY <1>1, <1>2, <2>2
    <2> QED BY <2>4, <2>5
  <1>6. OperationOwed(todo') = OperationOwed(todo)
    BY <1>1 DEF OperationOwed, Types
  <1>7. OperationAdded(latency', todo') = OperationAdded(latency, todo)
    BY <1>1 DEF OperationAdded, Types
  <1> QED BY <1>1, <1>4, <1>5, <1>6, <1>7 DEF Ledger

\* A recorder that returns has what it added moved to what is done.
LEMMA UpdateRangeLedger ==
  ASSUME Types, Ledger, NEW t \in Recorders, UpdateRange(t)
  PROVE  Ledger'
  <1>1. /\ latency' = [latency EXCEPT ![t] = None] /\ todo' = todo /\ todo[t] = {}
        /\ begun' = begun /\ done' = Append(done, latency[t]) /\ latency[t] # None
        /\ latency[t] \in Nat /\ total_operations_' = total_operations_
        /\ total_latency_ns_' = total_latency_ns_
    BY TrackerAssumption DEF UpdateRange, Types, counters
  <1>2. /\ Len(done) \in Nat /\ Len(done') = Len(done) + 1
        /\ SumOf(done) \in Nat /\ SumOf(done') = SumOf(done) + latency[t]
        /\ total_operations_ \in Nat /\ total_latency_ns_ \in Nat
    BY <1>1, SumOfAppend, SumIsNat DEF Types
  <1>3. \A u \in Recorders : latency[u] # None => latency[u] \in Nat
    BY TrackerAssumption DEF Types
  <1>4. Weigh(OperationAdded(latency', todo'), total_operations_ - Len(done'))
    <2>1. PICK w : w = OperationAdded(latency, todo)
      OBVIOUS
    <2>2. w \in [Recorders -> Nat] /\ w[t] = 1 /\ Weigh(w, total_operations_ - Len(done))
      BY <1>1, <2>1 DEF OperationAdded, Ledger
    <2>3. OperationAdded(latency', todo') = [w EXCEPT ![t] = 0]
      BY <1>1, <2>1 DEF OperationAdded, Types
    <2>4. Weigh(OperationAdded(latency', todo'), total_operations_ - Len(done) - w[t] + 0)
      BY <2>2, <2>3, WeighChange
    <2>5. total_operations_ - Len(done) - w[t] + 0 = total_operations_ - Len(done')
      BY <1>2, <2>2
    <2> QED BY <2>4, <2>5
  <1>5. Weigh(LatencyAdded(latency', todo'), total_latency_ns_ - SumOf(done'))
    <2>1. PICK w : w = LatencyAdded(latency, todo)
      OBVIOUS
    <2>2. w \in [Recorders -> Nat] /\ w[t] = latency[t] /\ Weigh(w, total_latency_ns_ - SumOf(done))
      BY <1>1, <1>3, <2>1 DEF LatencyAdded, Ledger
    <2>3. LatencyAdded(latency', todo') = [w EXCEPT ![t] = 0]
      BY <1>1, <2>1 DEF LatencyAdded, Types
    <2>4. Weigh(LatencyAdded(latency', todo'), total_latency_ns_ - SumOf(done) - w[t] + 0)
      BY <2>2, <2>3, WeighChange
    <2>5. total_latency_ns_ - SumOf(done) - w[t] + 0 = total_latency_ns_ - SumOf(done')
      BY <1>1, <1>2, <2>2
    <2> QED BY <2>4, <2>5
  <1>6. LatencyOwed(latency', todo') = LatencyOwed(latency, todo)
    BY <1>1 DEF LatencyOwed, Types
  <1> QED BY <1>1, <1>4, <1>5, <1>6 DEF Ledger

\* Every step keeps the ledger: a reader does not touch it.
LEMMA NextLedger == Types /\ Ledger /\ [Next]_vars => Ledger'
  <1> SUFFICES ASSUME Types, Ledger, [Next]_vars PROVE Ledger'
    OBVIOUS
  <1>1. ASSUME NEW r \in Readers,
               LockSnapshot(r) \/ LoadOperations(r) \/ LoadLatency(r) \/ ReturnSnapshot(r)
        PROVE  UNCHANGED <<counters, recording, done>>
    BY <1>1 DEF LockSnapshot, LoadOperations, LoadLatency, ReturnSnapshot
  <1>2. ASSUME UNCHANGED <<counters, recording, done>> PROVE Ledger'
    BY <1>2 DEF Ledger, counters, recording
  <1>3. CASE UNCHANGED vars
    BY <1>2, <1>3 DEF vars
  <1> QED BY <1>1, <1>2, <1>3, StopLedger, AddOperationLedger, AddLatencyLedger, UpdateRangeLedger
          DEF Next

\* The counters lie between what is done and what is begun.
LEMMA CountersBetween ==
  ASSUME Types, Ledger
  PROVE  /\ Len(done) <= total_operations_ /\ total_operations_ <= Len(begun)
         /\ SumOf(done) <= total_latency_ns_ /\ total_latency_ns_ <= SumOf(begun)
  <1>1. /\ Len(begun) - total_operations_ \in Nat /\ total_operations_ - Len(done) \in Nat
        /\ SumOf(begun) - total_latency_ns_ \in Nat /\ total_latency_ns_ - SumOf(done) \in Nat
    BY WeighNat DEF Ledger
  <1>2. SumOf(begun) \in Nat /\ SumOf(done) \in Nat /\ Len(begun) \in Nat /\ Len(done) \in Nat
    BY SumIsNat DEF Types
  <1> QED BY <1>1, <1>2 DEF Types

\* A latency joins those since the last 0, or is the last 0.
LEMMA SinceZeroGrows ==
  ASSUME NEW log \in Seq(Nat), NEW ns \in Nat
  PROVE  /\ SinceZero(Append(log, ns)) = IF ns = 0 THEN {} ELSE SinceZero(log) \cup {ns}
         /\ SinceZero(log) \subseteq Nat \ {0}
  <1>1. PICK more, n : more = Append(log, ns) /\ n = Len(log)
    OBVIOUS
  <1>2. /\ n \in Nat /\ DOMAIN log = 1..n /\ DOMAIN more = 1..(n + 1) /\ Len(more) = n + 1
        /\ more[n + 1] = ns /\ \A i \in 1..n : more[i] = log[i] /\ log[i] \in Nat
    BY <1>1
  <1>3. PICK old, new : /\ old = {j \in 1..n : \A k \in j..n : log[k] # 0}
                        /\ new = {j \in 1..(n + 1) : \A k \in j..(n + 1) : more[k] # 0}
    OBVIOUS
  <1>4. SinceZero(log) = {log[i] : i \in old} /\ SinceZero(more) = {more[i] : i \in new}
    BY <1>1, <1>2, <1>3 DEF SinceZero
  <1>5. SinceZero(log) \subseteq Nat \ {0}
    <2>1. \A j \in old : j \in 1..n /\ j \in j..n
      BY <1>2, <1>3
    <2> QED BY <1>2, <1>3, <1>4, <2>1
  <1>6. CASE ns = 0
    <2>1. \A j \in 1..(n + 1) : n + 1 \in j..(n + 1)
      BY <1>2
    <2>2. new = {}
      BY <1>2, <1>3, <1>6, <2>1
    <2>3. SinceZero(more) = {}
      BY <1>4, <2>2
    <2> QED BY <1>1, <1>5, <1>6, <2>3
  <1>7. CASE ns # 0
    <2>1. \A j \in 1..n : \A k : k \in j..(n + 1) <=> k \in j..n \/ k = n + 1
      BY <1>2
    <2>2. \A j \in 1..n : \A k \in j..n : k \in 1..n
      BY <1>2
    <2>3. \A j \in 1..n : j \in new <=> j \in old
      <3> SUFFICES ASSUME NEW j \in 1..n PROVE j \in new <=> j \in old
        OBVIOUS
      <3>1. j \in 1..(n + 1)
        BY <1>2
      <3>2. (\A k \in j..(n + 1) : more[k] # 0) <=> (\A k \in j..n : log[k] # 0)
        BY <1>2, <1>7, <2>1, <2>2
      <3> QED BY <1>3, <3>1, <3>2
    <2>4. n + 1 \in new /\ n + 1 \notin 1..n
      <3>1. n + 1 \in 1..(n + 1) /\ \A k \in (n + 1)..(n + 1) : k = n + 1
        BY <1>2
      <3>2. n + 1 \notin 1..n
        BY <1>2
      <3> QED BY <1>2, <1>3, <1>7, <3>1, <3>2
    <2>5. \A j \in 1..(n + 1) : j \in 1..n \/ j = n + 1
      BY <1>2
    <2>6. old \subseteq 1..n /\ new \subseteq 1..(n + 1)
      BY <1>3
    <2>7. new = old \cup {n + 1}
      BY <2>3, <2>4, <2>5, <2>6
    <2>8. {more[i] : i \in new} = {log[i] : i \in old} \cup {ns}
      BY <1>2, <2>6, <2>7
    <2>9. SinceZero(more) = SinceZero(log) \cup {ns}
      BY <1>4, <2>8
    <2> QED BY <1>1, <1>5, <1>7, <2>9
  <1> QED BY <1>6, <1>7

\* Lower and the maximum keep a range exact as its log grows.
LEMMA RangeGrows ==
  ASSUME NEW log \in Seq(Nat), NEW lo \in Nat, NEW hi \in Nat, IsRange(lo, hi, log),
         NEW ns \in Nat
  PROVE  IsRange(Lower(lo, ns), IF ns > hi THEN ns ELSE hi, Append(log, ns))
  <1>1. PICK more : more = Append(log, ns)
    OBVIOUS
  <1>2. /\ Len(log) \in Nat /\ Len(more) = Len(log) + 1 /\ more[Len(more)] = ns
        /\ \A i \in 1..Len(log) : more[i] = log[i] /\ log[i] \in Nat
        /\ \A i \in 1..Len(more) : i \in 1..Len(log) \/ i = Len(more)
        /\ \A i \in 1..Len(log) : i \in 1..Len(more)
        /\ Len(more) \in 1..Len(more)
    BY <1>1
  <1>3. PICK top : top = IF ns > hi THEN ns ELSE hi
    OBVIOUS
  <1>4. top \in Nat /\ hi <= top /\ ns <= top /\ top \in {hi, ns} /\ (top = hi \/ top = ns)
    BY <1>3
  <1>5. top = 0 \/ \E i \in 1..Len(more) : top = more[i]
    BY <1>2, <1>4 DEF IsRange
  <1>6. \A i \in 1..Len(more) : more[i] <= top
    <2> SUFFICES ASSUME NEW i \in 1..Len(more) PROVE more[i] <= top
      OBVIOUS
    <2>1. CASE i \in 1..Len(log)
      <3>1. log[i] <= hi /\ more[i] = log[i] /\ log[i] \in Nat
        BY <2>1, <1>2 DEF IsRange
      <3> QED BY <3>1, <1>4
    <2>2. CASE i = Len(more)
      BY <2>2, <1>2, <1>4
    <2> QED BY <2>1, <2>2, <1>2
  <1>7. PICK low, S, T : low = Lower(lo, ns) /\ S = SinceZero(log) /\ T = SinceZero(more)
    OBVIOUS
  <1>8. /\ T = IF ns = 0 THEN {} ELSE S \cup {ns}
        /\ S \subseteq Nat \ {0}
        /\ (S = {} => lo = 0) /\ (S # {} => lo \in S /\ \A x \in S : lo <= x)
    BY <1>1, <1>7, SinceZeroGrows DEF IsRange
  <1>9. (T = {} => low = 0) /\ (T # {} => low \in T /\ \A x \in T : low <= x)
    <2>1. CASE ns = 0
      BY <1>7, <1>8, <2>1 DEF Lower
    <2>2. CASE ns # 0 /\ S = {}
      BY <1>7, <1>8, <2>2 DEF Lower
    <2>3. CASE ns # 0 /\ S # {}
      <3>1. low \in Nat /\ low <= lo /\ low <= ns /\ low \in {lo, ns} /\ lo \in S
        BY <1>7, <1>8, <2>3 DEF Lower
      <3>2. \A x \in S : low <= x
        BY <1>8, <3>1, <2>3
      <3> QED BY <1>8, <2>3, <3>1, <3>2
    <2> QED BY <2>1, <2>2, <2>3
  <1>10. IsRange(low, top, more)
    BY <1>5, <1>6, <1>7, <1>9 DEF IsRange
  <1> QED BY <1>1, <1>3, <1>7, <1>10

\* Every step keeps the range exact: only record changes it, and then the log.
LEMMA NextRange == Types /\ RangeIsExact /\ [Next]_vars => RangeIsExact'
  <1> SUFFICES ASSUME Types, RangeIsExact, [Next]_vars PROVE RangeIsExact'
    OBVIOUS
  <1>1. ASSUME NEW t \in Recorders, UpdateRange(t) PROVE RangeIsExact'
    <2>1. /\ latency[t] \in Nat /\ done' = Append(done, latency[t])
          /\ min_latency_ns_' = Lower(min_latency_ns_, latency[t])
          /\ max_latency_ns_' = IF latency[t] > max_latency_ns_ THEN latency[t] ELSE max_latency_ns_
      BY <1>1, TrackerAssumption DEF UpdateRange, Types
    <2>2. IsRange(Lower(min_latency_ns_, latency[t]),
                  IF latency[t] > max_latency_ns_ THEN latency[t] ELSE max_latency_ns_,
                  Append(done, latency[t]))
      BY <2>1, RangeGrows DEF Types, RangeIsExact
    <2> QED BY <2>1, <2>2 DEF RangeIsExact
  <1>2. ASSUME UNCHANGED <<range, done>> PROVE RangeIsExact'
    BY <1>2 DEF RangeIsExact, range
  <1>3. ASSUME NEW t \in Recorders,
               (\E ns \in Latencies : Stop(t, ns)) \/ AddOperation(t) \/ AddLatency(t)
        PROVE  UNCHANGED <<range, done>>
    BY <1>3 DEF Stop, AddOperation, AddLatency
  <1>4. ASSUME NEW r \in Readers,
               LockSnapshot(r) \/ LoadOperations(r) \/ LoadLatency(r) \/ ReturnSnapshot(r)
        PROVE  UNCHANGED <<range, done>>
    BY <1>4 DEF LockSnapshot, LoadOperations, LoadLatency, ReturnSnapshot
  <1>5. CASE UNCHANGED vars
    BY <1>2, <1>5 DEF vars
  <1> QED BY <1>1, <1>2, <1>3, <1>4, <1>5 DEF Next

\* Every step keeps what is loaded: while a reader holds the mutex nothing is
\* done, and the counters only grow.
LEMMA NextLoads ==
  ASSUME Types, Ledger, LoadsHoldTheDone, SnapshotIsPast, [Next]_vars
  PROVE  LoadsHoldTheDone'
  <1>0. /\ total_operations_ \in Nat /\ total_latency_ns_ \in Nat /\ None \notin Nat
        /\ Len(done) \in Nat /\ SumOf(done) \in Nat
        /\ stats.total_operations \in Nat /\ stats.total_latency_ns \in Nat
        /\ loaded.total_operations \in Nat \cup {None} /\ loaded.total_latency_ns \in Nat \cup {None}
    BY TrackerAssumption, SumIsNat DEF Types
  <1>1. ASSUME UNCHANGED <<mutex, loaded, stats, done>>,
               total_operations_' \in Nat, total_operations_ <= total_operations_',
               total_latency_ns_' \in Nat, total_latency_ns_ <= total_latency_ns_'
        PROVE  LoadsHoldTheDone'
    BY <1>0, <1>1 DEF LoadsHoldTheDone
  <1>2. ASSUME NEW t \in Recorders, NEW ns \in Latencies, Stop(t, ns) PROVE LoadsHoldTheDone'
    BY <1>0, <1>1, <1>2 DEF Stop, counters
  <1>3. ASSUME NEW t \in Recorders, AddOperation(t) PROVE LoadsHoldTheDone'
    BY <1>0, <1>1, <1>3 DEF AddOperation
  <1>4. ASSUME NEW t \in Recorders, AddLatency(t) PROVE LoadsHoldTheDone'
    <2>1. latency[t] \in Nat
      BY <1>4, TrackerAssumption DEF AddLatency, Types
    <2> QED BY <2>1, <1>0, <1>1, <1>4 DEF AddLatency
  <1>5. ASSUME NEW t \in Recorders, UpdateRange(t) PROVE LoadsHoldTheDone'
    BY <1>5 DEF UpdateRange, LoadsHoldTheDone
  <1>6. ASSUME NEW r \in Readers, LockSnapshot(r) PROVE LoadsHoldTheDone'
    BY <1>6 DEF LockSnapshot, LoadsHoldTheDone
  <1>7. ASSUME NEW r \in Readers, LoadOperations(r) PROVE LoadsHoldTheDone'
    <2>1. /\ loaded'.total_operations = total_operations_
          /\ loaded'.total_latency_ns = loaded.total_latency_ns
          /\ mutex' = mutex /\ mutex # None /\ done' = done /\ stats' = stats
          /\ total_operations_' = total_operations_ /\ total_latency_ns_' = total_latency_ns_
      BY <1>7, TrackerAssumption DEF LoadOperations, Types, counters
    <2>2. Len(done) <= total_operations_ /\ stats.total_operations <= total_operations_
      BY CountersBetween DEF SnapshotIsPast
    <2> QED BY <2>1, <2>2, <1>0 DEF LoadsHoldTheDone
  <1>8. ASSUME NEW r \in Readers, LoadLatency(r) PROVE LoadsHoldTheDone'
    <2>1. /\ loaded'.total_latency_ns = total_latency_ns_
          /\ loaded'.total_operations = loaded.total_operations
          /\ mutex' = mutex /\ mutex # None /\ done' = done /\ stats' = stats
          /\ total_operations_' = total_operations_ /\ total_latency_ns_' = total_latency_ns_
      BY <1>8, TrackerAssumption DEF LoadLatency, Types, counters
    <2>2. SumOf(done) <= total_latency_ns_ /\ stats.total_latency_ns <= total_latency_ns_
      BY CountersBetween DEF SnapshotIsPast
    <2> QED BY <2>1, <2>2, <1>0 DEF LoadsHoldTheDone
  <1>9. ASSUME NEW r \in Readers, ReturnSnapshot(r) PROVE LoadsHoldTheDone'
    BY <1>9 DEF ReturnSnapshot, LoadsHoldTheDone
  <1>10. CASE UNCHANGED vars
    BY <1>0, <1>1, <1>10 DEF vars, counters
  <1> QED BY <1>2, <1>3, <1>4, <1>5, <1>6, <1>7, <1>8, <1>9, <1>10 DEF Next

\* Every step keeps the snapshot within what is counted, and what was done at
\* its time is still the beginning of what is done.
LEMMA NextSnapshot ==
  ASSUME Types, RangeIsExact, LoadsHoldTheDone, SnapshotIsPast, [Next]_vars
  PROVE  SnapshotIsPast'
  <1>0. /\ total_operations_ \in Nat /\ total_latency_ns_ \in Nat /\ max_latency_ns_ \in Nat
        /\ Len(done) \in Nat /\ seen \in 0..Len(done) /\ done \in Seq(Nat)
        /\ stats.total_operations \in Nat /\ stats.total_latency_ns \in Nat
        /\ stats.max_latency_ns \in Nat
    BY DEF Types
  <1>1. ASSUME UNCHANGED <<stats, seen>>, SubSeq(done', 1, seen) = SubSeq(done, 1, seen),
               total_operations_' \in Nat, total_operations_ <= total_operations_',
               total_latency_ns_' \in Nat, total_latency_ns_ <= total_latency_ns_',
               max_latency_ns_' \in Nat, max_latency_ns_ <= max_latency_ns_'
        PROVE  SnapshotIsPast'
    <2>1. PICK log : log = SubSeq(done, 1, seen)
      OBVIOUS
    <2>2. SubSeq(done', 1, seen') = log
      BY <2>1, <1>1
    <2>3. /\ seen <= stats.total_operations /\ stats.total_operations <= total_operations_
          /\ SumOf(log) <= stats.total_latency_ns /\ stats.total_latency_ns <= total_latency_ns_
          /\ stats.max_latency_ns <= max_latency_ns_
          /\ IsRange(stats.min_latency_ns, stats.max_latency_ns, log)
      BY <2>1 DEF SnapshotIsPast
    <2>4. /\ stats.total_operations <= total_operations_'
          /\ stats.total_latency_ns <= total_latency_ns_'
          /\ stats.max_latency_ns <= max_latency_ns_'
      BY <2>3, <1>0, <1>1
    <2> QED BY <2>2, <2>3, <2>4, <1>1 DEF SnapshotIsPast
  <1>2. ASSUME NEW t \in Recorders, NEW ns \in Latencies, Stop(t, ns) PROVE SnapshotIsPast'
    BY <1>0, <1>1, <1>2 DEF Stop, counters, range
  <1>3. ASSUME NEW t \in Recorders, AddOperation(t) PROVE SnapshotIsPast'
    BY <1>0, <1>1, <1>3 DEF AddOperation, range
  <1>4. ASSUME NEW t \in Recorders, AddLatency(t) PROVE SnapshotIsPast'
    <2>1. latency[t] \in Nat
      BY <1>4, TrackerAssumption DEF AddLatency, Types
    <2> QED BY <2>1, <1>0, <1>1, <1>4 DEF AddLatency, range
  <1>5. ASSUME NEW t \in Recorders, UpdateRange(t) PROVE SnapshotIsPast'
    <2>1. latency[t] \in Nat
      BY <1>5, TrackerAssumption DEF UpdateRange, Types
    <2>2. SubSeq(Append(done, latency[t]), 1, seen) = SubSeq(done, 1, seen)
      BY <2>1, <1>0
    <2>3. max_latency_ns_' \in Nat /\ max_latency_ns_ <= max_latency_ns_'
      BY <2>1, <1>0, <1>5 DEF UpdateRange
    <2> QED BY <2>2, <2>3, <1>0, <1>1, <1>5 DEF UpdateRange, counters
  <1>6. ASSUME NEW r \in Readers, LockSnapshot(r) \/ LoadOperations(r) \/ LoadLatency(r)
        PROVE  SnapshotIsPast'
    BY <1>0, <1>1, <1>6 DEF LockSnapshot, LoadOperations, LoadLatency, counters, range
  <1>7. ASSUME NEW r \in Readers, ReturnSnapshot(r) PROVE SnapshotIsPast'
    <2>1. /\ stats'.total_operations = loaded.total_operations
          /\ stats'.total_latency_ns = loaded.total_latency_ns
          /\ stats'.min_latency_ns = min_latency_ns_ /\ stats'.max_latency_ns = max_latency_ns_
          /\ seen' = Len(done) /\ done' = done /\ max_latency_ns_' = max_latency_ns_
          /\ total_operations_' = total_operations_ /\ total_latency_ns_' = total_latency_ns_
      BY <1>7 DEF ReturnSnapshot, counters, range
    <2>2. SubSeq(done', 1, seen') = done
      BY <2>1, <1>0
    <2>3. /\ Len(done) <= loaded.total_operations /\ loaded.total_operations <= total_operations_
          /\ SumOf(done) <= loaded.total_latency_ns /\ loaded.total_latency_ns <= total_latency_ns_
      BY <1>7 DEF ReturnSnapshot, LoadsHoldTheDone
    <2>4. IsRange(stats'.min_latency_ns, stats'.max_latency_ns, SubSeq(done', 1, seen'))
      BY <2>1, <2>2 DEF RangeIsExact
    <2>5. max_latency_ns_ <= max_latency_ns_
      BY <1>0
    <2> QED BY <2>1, <2>2, <2>3, <2>4, <2>5, Zenon DEF SnapshotIsPast
  <1>8. CASE UNCHANGED vars
    BY <1>0, <1>1, <1>8 DEF vars, counters, range
  <1> QED BY <1>2, <1>3, <1>4, <1>5, <1>6, <1>7, <1>8 DEF Next

\* The invariant holds throughout.
THEOREM TrackerInductive == Spec => []TrackerInv
  <1>1. Init => TrackerInv
    BY InitTrackerInv
  <1>2. TrackerInv /\ [Next]_vars => TrackerInv'
    BY NextTypes, NextLedger, NextRange, NextLoads, NextSnapshot DEF TrackerInv
  <1> QED BY <1>1, <1>2, PTL DEF Spec

-----------------------------------------------------------------------------
(* The properties *)

\* Max and Min return the bounds that IsRange describes.
LEMMA RangeIsMaxMin ==
  ASSUME NEW log \in Seq(Nat), NEW lo \in Nat, NEW hi \in Nat, IsRange(lo, hi, log)
  PROVE  /\ hi = Max({0} \cup ToSet(log))
         /\ lo = IF SinceZero(log) = {} THEN 0 ELSE Min(SinceZero(log))
  <1>1. ToSet(log) \subseteq Nat /\ \A x : x \in ToSet(log) <=> \E i \in 1..Len(log) : x = log[i]
    BY DEF ToSet
  <1>2. PICK S : S = {0} \cup ToSet(log)
    OBVIOUS
  <1>3. hi \in S /\ (\A y \in S : hi >= y) /\ S \subseteq Nat
    BY <1>1, <1>2 DEF IsRange
  <1>4. \A x \in S : (\A y \in S : x >= y) => x = hi
    BY <1>3
  <1>5. Max(S) = hi
    BY <1>3, <1>4 DEF Max
  <1>6. ASSUME SinceZero(log) # {} PROVE lo = Min(SinceZero(log))
    <2>1. PICK T : T = SinceZero(log)
      OBVIOUS
    <2>2. T \subseteq Nat
      <3>1. SinceZero(log) \subseteq Nat \ {0}
        <4>1. 0 \in Nat
          OBVIOUS
        <4> QED BY <4>1, SinceZeroGrows
      <3> QED BY <2>1, <3>1
    <2>3. lo \in T /\ (\A y \in T : lo =< y)
      BY <1>6, <2>1 DEF IsRange
    <2>4. \A x \in T : (\A y \in T : x =< y) => x = lo
      BY <2>2, <2>3
    <2> QED BY <2>1, <2>3, <2>4 DEF Min
  <1>7. SinceZero(log) = {} => lo = 0
    BY DEF IsRange
  <1> QED BY <1>2, <1>5, <1>6, <1>7

\* SnapshotCoversFinished for any number of threads and latencies: a snapshot
\* has every record that had returned and nothing that was not recorded, however
\* its relaxed loads fall between the additions of others
\* (latency_tracker.h:90-101, 106-118).
THEOREM SnapshotCovers == Spec => []SnapshotCoversFinished
  <1>1. TrackerInv => SnapshotCoversFinished
    <2> SUFFICES ASSUME TrackerInv PROVE SnapshotCoversFinished
      OBVIOUS
    <2>1. PICK log : log = SubSeq(done, 1, seen)
      OBVIOUS
    <2>2. log \in Seq(Nat)
      BY <2>1 DEF TrackerInv, Types
    <2>3. /\ stats.total_operations \in Nat /\ stats.total_latency_ns \in Nat
          /\ stats.min_latency_ns \in Nat /\ stats.max_latency_ns \in Nat /\ seen \in Nat
          /\ total_operations_ \in Nat /\ total_latency_ns_ \in Nat
          /\ Len(begun) \in Nat /\ SumOf(begun) \in Nat /\ SumOf(log) \in Nat
      BY <2>2, SumIsNat DEF TrackerInv, Types
    <2>4. total_operations_ <= Len(begun) /\ total_latency_ns_ <= SumOf(begun)
      BY CountersBetween DEF TrackerInv
    <2>5. /\ seen <= stats.total_operations /\ stats.total_operations <= total_operations_
          /\ SumOf(log) <= stats.total_latency_ns /\ stats.total_latency_ns <= total_latency_ns_
          /\ IsRange(stats.min_latency_ns, stats.max_latency_ns, log)
      BY <2>1 DEF TrackerInv, SnapshotIsPast
    <2>6. /\ stats.total_operations \in seen..Len(begun)
          /\ stats.total_latency_ns \in SumOf(log)..SumOf(begun)
      BY <2>3, <2>4, <2>5
    <2>7. /\ stats.max_latency_ns = Max({0} \cup ToSet(log))
          /\ stats.min_latency_ns = IF SinceZero(log) = {} THEN 0 ELSE Min(SinceZero(log))
      BY <2>2, <2>3, <2>5, RangeIsMaxMin
    <2> QED BY <2>1, <2>6, <2>7, Zenon DEF SnapshotCoversFinished
  <1> QED BY <1>1, TrackerInductive, PTL

\* SnapshotsAreMonotone for any number of threads: of two snapshots the later
\* has counted at least as much (latency_tracker.h:92-96, 106-118).
THEOREM SnapshotsGrow == Spec => SnapshotsAreMonotone
  <1> DEFINE Grows == /\ stats'.total_operations >= stats.total_operations
                      /\ stats'.total_latency_ns >= stats.total_latency_ns
                      /\ stats'.max_latency_ns >= stats.max_latency_ns
  <1>1. TrackerInv /\ [Next]_vars => [Grows]_vars
    <2> SUFFICES ASSUME TrackerInv, Next PROVE Grows
      OBVIOUS
    <2>1. /\ stats.total_operations \in Nat /\ stats.total_latency_ns \in Nat
          /\ stats.max_latency_ns \in Nat
      BY DEF TrackerInv, Types
    <2>2. ASSUME stats' = stats PROVE Grows
      BY <2>1, <2>2
    <2>3. ASSUME NEW r \in Readers, ReturnSnapshot(r) PROVE Grows
      <3>1. /\ stats'.total_operations = loaded.total_operations
            /\ stats'.total_latency_ns = loaded.total_latency_ns
            /\ stats'.max_latency_ns = max_latency_ns_
        BY <2>3 DEF ReturnSnapshot
      <3>2. /\ loaded.total_operations \in Nat /\ loaded.total_latency_ns \in Nat
            /\ max_latency_ns_ \in Nat
        BY <2>3 DEF ReturnSnapshot, TrackerInv, Types
      <3>3. /\ stats.total_operations <= loaded.total_operations
            /\ stats.total_latency_ns <= loaded.total_latency_ns
            /\ stats.max_latency_ns <= max_latency_ns_
        BY <2>3 DEF ReturnSnapshot, TrackerInv, LoadsHoldTheDone, SnapshotIsPast
      <3> QED BY <2>1, <3>1, <3>2, <3>3
    <2>4. ASSUME NEW t \in Recorders,
                 (\E ns \in Latencies : Stop(t, ns)) \/ AddOperation(t) \/ AddLatency(t) \/ UpdateRange(t)
          PROVE  stats' = stats
      BY <2>4 DEF Stop, AddOperation, AddLatency, UpdateRange
    <2>5. ASSUME NEW r \in Readers, LockSnapshot(r) \/ LoadOperations(r) \/ LoadLatency(r)
          PROVE  stats' = stats
      BY <2>5 DEF LockSnapshot, LoadOperations, LoadLatency
    <2> HIDE DEF Grows
    <2> QED BY <2>2, <2>3, <2>4, <2>5 DEF Next
  <1> HIDE DEF Grows
  <1>2. Spec => [][Grows]_vars
    BY <1>1, TrackerInductive, PTL DEF Spec
  <1> QED BY <1>2, PTL DEF SnapshotsAreMonotone, Grows
=============================================================================
