---------------------------- MODULE ShardLemmas ----------------------------
(***************************************************************************)
(* What the operators of LRUCache, TTLIndex and ShardOps return and        *)
(* preserve, for recency lists, indexes and shards of any size, and what   *)
(* holds of sequences in general: the facts that the proofs of several     *)
(* components rest on.                                                     *)
(***************************************************************************)
EXTENDS ShardOps, SequenceTheorems, FiniteSetTheorems, TLAPS

\* Erasing position i of a sequence (std::list::erase, std::vector::erase)
\* shifts the later elements down by one and keeps the rest in place.
LEMMA RemoveAtFacts ==
  ASSUME NEW S, NEW s \in Seq(S), NEW i \in 1..Len(s)
  PROVE  /\ RemoveAt(s, i) \in Seq(S)
         /\ Len(RemoveAt(s, i)) = Len(s) - 1
         /\ \A j \in 1..(Len(s) - 1) : RemoveAt(s, i)[j] = IF j < i THEN s[j] ELSE s[j + 1]
  <1> DEFINE a == SubSeq(s, 1, i - 1)
             b == SubSeq(s, i + 1, Len(s))
  <1>1. a \in Seq(S) /\ Len(a) = i - 1 /\ \A j \in 1..(i-1) : a[j] = s[j]
    OBVIOUS
  <1>2. b \in Seq(S) /\ Len(b) = Len(s) - i /\ \A j \in 1..(Len(s) - i) : b[j] = s[i + j]
    OBVIOUS
  <1>3. RemoveAt(s, i) = a \o b
    BY DEF RemoveAt
  <1> HIDE DEF a, b
  <1>4. RemoveAt(s, i) \in Seq(S) /\ Len(RemoveAt(s, i)) = Len(s) - 1
    BY <1>1, <1>2, <1>3
  <1>5. ASSUME NEW j \in 1..(Len(s) - 1)
        PROVE RemoveAt(s, i)[j] = IF j < i THEN s[j] ELSE s[j + 1]
    <2>1. CASE j < i
      BY <2>1, <1>1, <1>2, <1>3
    <2>2. CASE ~(j < i)
      <3>1. (a \o b)[j] = b[j - Len(a)]
        BY <2>2, <1>1, <1>2
      <3>2. j - Len(a) \in 1..(Len(s) - i) /\ i + (j - Len(a)) = j + 1
        BY <2>2, <1>1
      <3> QED BY <2>2, <3>1, <3>2, <1>2, <1>3
    <2> QED BY <2>1, <2>2
  <1> QED BY <1>4, <1>5

\* A non-empty set of naturals has a least element.
LEMMA LeastOf ==
  ASSUME NEW I, I \subseteq Nat, I # {}
  PROVE  \E x \in I : \A y \in I : x <= y
  <1> DEFINE R == OpToRel(<, Nat)
  <1>1. \A x, y \in Nat : ~(<<y, x>> \in R) => x <= y
    BY DEF OpToRel
  <1>2. \E x \in I : \A y \in I : ~(<<y, x>> \in R)
    BY NatLessThanWellFounded, WFMin, Zenon
  <1> HIDE DEF R
  <1> QED BY <1>1, <1>2, Zenon

\* Min returns it.
LEMMA MinFacts ==
  ASSUME NEW I, I \subseteq Nat, I # {}
  PROVE  Min(I) \in I /\ \A y \in I : Min(I) <= y
  BY LeastOf DEF Min

\* f holds the concatenations of the first sequences of ss, up to n of them.
JoinsTo(f, ss, n) == f = [i \in 1..n |-> IF i = 1 THEN ss[i] ELSE f[i - 1] \o ss[i]]

\* Each is the one before it, with the next sequence appended.
LEMMA JoinsAt ==
  ASSUME NEW f, NEW ss, NEW n \in Nat, JoinsTo(f, ss, n), NEW i \in 1..n
  PROVE  f[i] = IF i = 1 THEN ss[i] ELSE f[i - 1] \o ss[i]
  BY Zenon DEF JoinsTo

\* Such an f exists: take the smallest n for which it does not.
LEMMA JoinsExist ==
  ASSUME NEW ss, NEW n \in Nat
  PROVE  \E f : JoinsTo(f, ss, n)
  <1> DEFINE I == {k \in Nat : ~ \E f : JoinsTo(f, ss, k)}
  <1> SUFFICES ASSUME I # {} PROVE FALSE
    OBVIOUS
  <1>1. PICK k \in I : \A j \in I : k <= j
    BY LeastOf
  <1>2. CASE k = 0
    <2> DEFINE f == [i \in 1..0 |-> 0]
    <2>1. JoinsTo(f, ss, 0)
      BY DEF JoinsTo
    <2> QED BY <1>1, <1>2, <2>1
  <1>3. CASE k > 0
    <2>1. k \in Nat /\ k - 1 \in Nat /\ k - 1 \notin I
      BY <1>1, <1>3
    <2>2. PICK g : JoinsTo(g, ss, k - 1)
      BY <2>1
    <2> DEFINE f == [i \in 1..k |-> IF i <= k - 1 THEN g[i]
                                    ELSE IF k = 1 THEN ss[1] ELSE g[k - 1] \o ss[k]]
    <2>3. \A i \in 1..(k - 1) : g[i] = IF i = 1 THEN ss[i] ELSE g[i - 1] \o ss[i]
      BY <2>2 DEF JoinsTo
    <2>4. \A i \in 1..k : f[i] = IF i = 1 THEN ss[i] ELSE f[i - 1] \o ss[i]
      <3> SUFFICES ASSUME NEW i \in 1..k PROVE f[i] = IF i = 1 THEN ss[i] ELSE f[i - 1] \o ss[i]
        OBVIOUS
      <3>1. CASE i <= k - 1
        BY <2>1, <2>3, <3>1
      <3>2. CASE i = k
        BY <2>1, <3>2
      <3> QED BY <2>1, <3>1, <3>2
    <2>5. f = [i \in 1..k |-> f[i]]
      OBVIOUS
    <2> HIDE DEF f
    <2>6. JoinsTo(f, ss, k)
      BY <2>4, <2>5 DEF JoinsTo
    <2> QED BY <1>1, <2>6
  <1> QED BY <1>1, <1>2, <1>3

\* FlattenSeq returns the last of them.
LEMMA FlattenIs ==
  ASSUME NEW ss, Len(ss) \in Nat \ {0}
  PROVE  \E f : JoinsTo(f, ss, Len(ss)) /\ FlattenSeq(ss) = f[Len(ss)]
  <1> DEFINE f == CHOOSE g : g = [i \in 1..Len(ss) |-> IF i = 1 THEN ss[i] ELSE g[i - 1] \o ss[i]]
  <1>1. f = [i \in 1..Len(ss) |-> IF i = 1 THEN ss[i] ELSE f[i - 1] \o ss[i]]
    BY JoinsExist, Zenon DEF JoinsTo
  <1>2. Len(ss) # 0
    OBVIOUS
  <1>3. FlattenSeq(ss) = f[Len(ss)]
    BY <1>2, Zenon DEF FlattenSeq
  <1> QED BY <1>1, <1>3, Zenon DEF JoinsTo

\* Sequences of sequences that agree up to n have the same concatenations.
LEMMA JoinsAgree ==
  ASSUME NEW f, NEW g, NEW a, NEW b, NEW n \in Nat \ {0}, NEW m \in Nat, n <= m,
         JoinsTo(f, a, n), JoinsTo(g, b, m), \A i \in 1..n : a[i] = b[i]
  PROVE  f[n] = g[n]
  <1> DEFINE I == {k \in 1..n : f[k] # g[k]}
  <1> SUFFICES ASSUME I # {} PROVE FALSE
    OBVIOUS
  <1>a. I \subseteq Nat
    OBVIOUS
  <1>1. PICK k \in I : \A j \in I : k <= j
    BY <1>a, LeastOf
  <1>2. k \in 1..n /\ k \in 1..m
    BY <1>1
  <1>b. f[k] = IF k = 1 THEN a[k] ELSE f[k - 1] \o a[k]
    BY <1>2, JoinsAt
  <1>c. g[k] = IF k = 1 THEN b[k] ELSE g[k - 1] \o b[k]
    BY <1>2, JoinsAt
  <1>3. CASE k = 1
    BY <1>1, <1>2, <1>3, <1>b, <1>c
  <1>4. CASE k > 1
    <2>1. f[k - 1] = g[k - 1]
      BY <1>1, <1>4
    <2> QED BY <1>1, <1>2, <1>4, <1>b, <1>c, <2>1
  <1> QED BY <1>1, <1>3, <1>4

\* The concatenation of sequences is a sequence.
LEMMA FlattenIsSeq ==
  ASSUME NEW S, NEW ss \in Seq(Seq(S))
  PROVE  FlattenSeq(ss) \in Seq(S)
  <1>1. CASE Len(ss) = 0
    <2>1. FlattenSeq(ss) = ss /\ ss = <<>>
      BY <1>1 DEF FlattenSeq
    <2> QED BY <2>1
  <1>2. CASE Len(ss) # 0
    <2>1. PICK f : JoinsTo(f, ss, Len(ss)) /\ FlattenSeq(ss) = f[Len(ss)]
      BY <1>2, FlattenIs
    <2> DEFINE I == {k \in 1..Len(ss) : f[k] \notin Seq(S)}
    <2> SUFFICES ASSUME I # {} PROVE FALSE
      BY <1>2, <2>1
    <2>a. I \subseteq Nat
      OBVIOUS
    <2>2. PICK k \in I : \A j \in I : k <= j
      BY <2>a, LeastOf
    <2>3. f[k] = IF k = 1 THEN ss[k] ELSE f[k - 1] \o ss[k]
      BY <2>1, <2>2 DEF JoinsTo
    <2>4. CASE k = 1
      BY <2>2, <2>3, <2>4
    <2>5. CASE k > 1
      <3>1. f[k - 1] \in Seq(S) /\ ss[k] \in Seq(S)
        BY <2>2, <2>5
      <3>2. f[k] = f[k - 1] \o ss[k]
        <4>1. k \in Nat /\ k # 1
          BY <2>2, <2>5
        <4> QED BY <4>1, <2>3
      <3>3. f[k] \in Seq(S)
        BY <3>1, <3>2
      <3> QED BY <2>2, <3>3
    <2> QED BY <2>2, <2>4, <2>5
  <1> QED BY <1>1, <1>2

\* One more sequence is appended to the concatenation.
LEMMA FlattenAppend ==
  ASSUME NEW S, NEW ss \in Seq(Seq(S)), NEW x \in Seq(S)
  PROVE  FlattenSeq(Append(ss, x)) = FlattenSeq(ss) \o x
  <1>1. PICK t : t = Append(ss, x)
    OBVIOUS
  <1>2. /\ t \in Seq(Seq(S)) /\ Len(ss) \in Nat /\ Len(t) = Len(ss) + 1 /\ t[Len(t)] = x
        /\ \A i \in 1..Len(ss) : ss[i] = t[i]
    BY <1>1
  <1>3. PICK g : JoinsTo(g, t, Len(t)) /\ FlattenSeq(t) = g[Len(t)]
    BY <1>2, FlattenIs
  <1>4. g[Len(t)] = IF Len(t) = 1 THEN x ELSE g[Len(t) - 1] \o x
    <2>1. Len(t) \in Nat /\ Len(t) \in 1..Len(t)
      BY <1>2
    <2> QED BY <2>1, <1>2, <1>3, JoinsAt
  <1>5. CASE Len(ss) = 0
    <2>1. FlattenSeq(ss) = <<>>
      BY <1>5 DEF FlattenSeq
    <2> QED BY <1>1, <1>2, <1>3, <1>4, <1>5, <2>1
  <1>6. CASE Len(ss) # 0
    <2>1. PICK f : JoinsTo(f, ss, Len(ss)) /\ FlattenSeq(ss) = f[Len(ss)]
      BY <1>6, FlattenIs
    <2>2. Len(ss) \in Nat \ {0} /\ Len(t) \in Nat /\ Len(ss) <= Len(t)
      BY <1>2, <1>6
    <2>3. f[Len(ss)] = g[Len(ss)]
      BY <2>1, <2>2, <1>2, <1>3, JoinsAgree
    <2> QED BY <1>1, <1>2, <1>3, <1>4, <1>6, <2>1, <2>3
  <1> QED BY <1>5, <1>6

IsSeq(s) == \E S : s \in Seq(S)

\* Two sequences have a common set of elements.
LEMMA CommonSet ==
  ASSUME NEW s, NEW t, IsSeq(s), IsSeq(t)
  PROVE  \E S : s \in Seq(S) /\ t \in Seq(S)
  <1>1. PICK S : s \in Seq(S)
    BY DEF IsSeq
  <1>2. PICK T : t \in Seq(T)
    BY DEF IsSeq
  <1>3. s \in Seq(S \cup T) /\ t \in Seq(S \cup T)
    BY <1>1, <1>2
  <1> QED BY <1>3

\* Appending and concatenating make sequences.
LEMMA SeqsOf ==
  ASSUME NEW s, NEW t, IsSeq(s), IsSeq(t), NEW x
  PROVE  /\ IsSeq(s \o t) /\ IsSeq(Append(s, x)) /\ IsSeq(<<>>)
         /\ Len(s) \in Nat /\ Len(Append(s, x)) = Len(s) + 1 /\ Len(s \o t) = Len(s) + Len(t)
         /\ s \o Append(t, x) = Append(s \o t, x)
         /\ s \o <<>> = s
  <1>1. PICK S : s \in Seq(S) /\ t \in Seq(S)
    BY CommonSet
  <1>2. s \o t \in Seq(S) /\ <<>> \in Seq(S)
    BY <1>1
  <1>3. PICK T : T = S \cup {x}
    OBVIOUS
  <1>4. s \in Seq(T) /\ t \in Seq(T) /\ x \in T
    BY <1>1, <1>3
  <1>5. Append(s, x) \in Seq(T)
    BY <1>4
  <1>6. s \o Append(t, x) = Append(s \o t, x)
    BY <1>4
  <1>7. s \o <<>> = s
    BY <1>1
  <1>8. Len(s) \in Nat /\ Len(Append(s, x)) = Len(s) + 1 /\ Len(s \o t) = Len(s) + Len(t)
    BY <1>1, <1>4
  <1> QED BY <1>2, <1>5, <1>6, <1>7, <1>8 DEF IsSeq

\* Concatenation is associative.
LEMMA Associative ==
  ASSUME NEW s, NEW t, NEW u, IsSeq(s), IsSeq(t), IsSeq(u)
  PROVE  s \o (t \o u) = (s \o t) \o u
  <1>1. PICK S : s \in Seq(S)
    BY DEF IsSeq
  <1>2. PICK T : t \in Seq(T) /\ u \in Seq(T)
    BY CommonSet
  <1>3. s \in Seq(S \cup T) /\ t \in Seq(S \cup T) /\ u \in Seq(S \cup T)
    BY <1>1, <1>2
  <1>4. PICK R : s \in Seq(R) /\ t \in Seq(R) /\ u \in Seq(R)
    BY <1>3
  <1> QED BY <1>4

\* Moving the first element of one sequence to the end of another leaves the two,
\* taken together, as they were.
LEMMA MoveHead ==
  ASSUME NEW s, NEW t, IsSeq(s), IsSeq(t), t # <<>>
  PROVE  /\ IsSeq(Append(s, Head(t))) /\ IsSeq(Tail(t))
         /\ Append(s, Head(t)) \o Tail(t) = s \o t
  <1>1. PICK S : s \in Seq(S) /\ t \in Seq(S)
    BY CommonSet
  <1>2. Head(t) \in S /\ Tail(t) \in Seq(S) /\ Append(s, Head(t)) \in Seq(S)
    BY <1>1
  <1>3. Append(s, Head(t)) \o Tail(t) = s \o t
    BY <1>1, <1>2
  <1> QED BY <1>2, <1>3 DEF IsSeq

\* RemoveFirst erases one position that holds the key it is given.
LEMMA FirstMatch ==
  ASSUME NEW S, NEW s \in Seq(S), NEW k, \E i \in 1..Len(s) : s[i] = k
  PROVE  \E i \in 1..Len(s) : s[i] = k /\ RemoveFirst(s, k) = RemoveAt(s, i)
  <1> DEFINE I == {i \in 1..Len(s) : s[i] = k}
  <1>1. I # {} /\ I \subseteq Nat
    OBVIOUS
  <1>4. Min(I) \in I
    BY <1>1, MinFacts
  <1>5. SelectInSeq(s, LAMBDA v : v = k) = Min(I)
    BY <1>1, Zenon DEF SelectInSeq
  <1> HIDE DEF I
  <1>6. RemoveFirst(s, k) = RemoveAt(s, Min(I))
    BY <1>5, Zenon DEF RemoveFirst
  <1> QED BY <1>4, <1>6, Zenon DEF I

\* 1..n is finite and has n elements.
LEMMA CountTo ==
  ASSUME NEW n \in Nat
  PROVE  IsFiniteSet(1..n) /\ Cardinality(1..n) = n
  <1>1. IsFiniteSet(1..n) /\ Cardinality(1..n) = IF 1 > n THEN 0 ELSE n - 1 + 1
    BY FS_Interval
  <1> QED BY <1>1

\* Ranking the kept positions of a recency list numbers them 1..n without
\* gaps and in their old order, which is what makes LruRemoveAll a list.
LEMMA RankFacts ==
  ASSUME NEW S, NEW order \in Seq(S), NEW keys
  PROVE  /\ Cardinality(KeptAt(order, keys)) \in Nat
         /\ Cardinality(KeptAt(order, keys)) <= Len(order)
         /\ \A j \in 1..Cardinality(KeptAt(order, keys)) :
               \E i \in KeptAt(order, keys) : RankAt(order, keys, i) = j
         /\ \A i \in KeptAt(order, keys) :
               RankAt(order, keys, i) \in 1..Cardinality(KeptAt(order, keys))
         /\ \A i, h \in KeptAt(order, keys) :
               i < h => RankAt(order, keys, i) < RankAt(order, keys, h)
  <1> DEFINE kept == {i \in 1..Len(order) : order[i] \notin keys}
             Upto(i) == {p \in kept : p <= i}
             Rank(i) == Cardinality(Upto(i))
             f == [i \in kept |-> Rank(i)]
  <1>0. KeptAt(order, keys) = kept /\ \A i : RankAt(order, keys, i) = Rank(i)
    BY DEF KeptAt, RankAt
  <1>1. /\ IsFiniteSet(kept) /\ Cardinality(kept) \in Nat /\ Cardinality(kept) <= Len(order)
    <2>1. IsFiniteSet(1..Len(order)) /\ Cardinality(1..Len(order)) = Len(order)
      BY CountTo, LenProperties
    <2> QED BY <2>1, FS_Subset, FS_CardinalityType
  <1>2. \A i \in kept : /\ IsFiniteSet(Upto(i))
                        /\ Rank(i) \in Nat 
                        /\ Rank(i) <= Cardinality(kept)
                        /\ i \in Upto(i)
    <2> TAKE i \in kept
    <2>1. Upto(i) \in SUBSET kept /\ i \in Upto(i)
      OBVIOUS
    <2> HIDE DEF kept, Upto
    <2> QED BY <1>1, <2>1, FS_Subset, FS_CardinalityType
  <1>3. \A i, h \in kept : i < h => Rank(i) < Rank(h)
    <2> TAKE i, h \in kept
    <2> HAVE i < h
    <2>1. Upto(i) \in SUBSET Upto(h) /\ h \in Upto(h) /\ h \notin Upto(i)
      OBVIOUS
    <2>2. Upto(i) # Upto(h)
      BY <2>1
    <2> HIDE DEF kept, Upto
    <2> QED BY <1>2, <2>1, <2>2, FS_Subset
  <1>4. \A i \in kept : Rank(i) \in 1..Cardinality(kept)
    <2> TAKE i \in kept
    <2>1. Rank(i) # 0
      <3> HIDE DEF kept, Upto
      <3> QED BY <1>2, FS_EmptySet
    <2>2. Rank(i) \in Nat /\ Rank(i) <= Cardinality(kept) /\ Cardinality(kept) \in Nat
      BY <1>1, <1>2, Zenon
    <2> HIDE DEF Rank, kept
    <2> QED BY <2>1, <2>2
  <1>5. f \in Injection(kept, 1..Cardinality(kept))
    <2>1. \A i \in kept : i \in Nat
      BY LenProperties
    <2> HIDE DEF Rank, kept
    <2> QED BY <1>3, <1>4, <2>1 DEF Injection, IsInjective
  <1>6. f \in Surjection(kept, 1..Cardinality(kept))
    <2>1. IsFiniteSet(1..Cardinality(kept)) /\ Cardinality(1..Cardinality(kept)) = Cardinality(kept)
      <3> HIDE DEF kept
      <3> QED BY <1>1, CountTo
    <2> HIDE DEF kept, f
    <2> QED BY <1>5, <2>1, FS_Injection
  <1>7. \A j \in 1..Cardinality(kept) : \E i \in kept : Rank(i) = j
    <2> HIDE DEF kept, Rank
    <2> QED BY <1>6 DEF Surjection
  <1> HIDE DEF kept, Rank
  <1> QED BY <1>0, <1>1, <1>3, <1>4, <1>7

-----------------------------------------------------------------------------
(* LRUCache *)

\* Two elements of r are in the order they have in s.
KeepsOrder(r, s) ==
    \A i, j \in 1..Len(r) : i < j =>
        \E a, b \in 1..Len(s) : a < b /\ s[a] = r[i] /\ s[b] = r[j]

\* t is key followed by elements other than key in the order they have in s.
KeyThenOrder(t, key, s) ==
    \A i, j \in 1..Len(t) : i < j =>
        /\ t[j] # key
        /\ \/ t[i] = key
           \/ \E a, b \in 1..Len(s) : a < b /\ s[a] = t[i] /\ s[b] = t[j]

\* Erasing a node of a list without repetitions removes exactly its key and
\* keeps the order of the others.
LEMMA EraseFacts ==
  ASSUME NEW S, NEW s \in Seq(S), NEW n \in 1..Len(s), IsInjective(s),
         NEW r, r = RemoveAt(s, n)
  PROVE  /\ r \in Seq(S)
         /\ Len(r) = Len(s) - 1
         /\ IsInjective(r)
         /\ \A x : Contains(r, x) <=> Contains(s, x) /\ x # s[n]
         /\ KeepsOrder(r, s)
  <1> DEFINE Src(i) == IF i < n THEN i ELSE i + 1
  <1>0. \A i, j \in 1..Len(s) : s[i] = s[j] => i = j
    BY DEF IsInjective
  <1>1. r \in Seq(S) /\ Len(r) = Len(s) - 1
    BY RemoveAtFacts
  <1>2. \A j \in 1..(Len(s) - 1) : r[j] = IF j < n THEN s[j] ELSE s[j + 1]
    BY RemoveAtFacts
  <1>3. \A i \in 1..Len(r) : Src(i) \in 1..Len(s) /\ Src(i) # n /\ r[i] = s[Src(i)]
    BY <1>1, <1>2
  <1>4. \A i, j \in 1..Len(r) : (i < j => Src(i) < Src(j)) /\ (Src(i) = Src(j) => i = j)
    BY <1>1
  <1>5. \A a \in 1..Len(s) : a # n => \E i \in 1..Len(r) : Src(i) = a
    <2> TAKE a \in 1..Len(s)
    <2> HAVE a # n
    <2>1. CASE a < n
      <3>1. a \in 1..Len(r) /\ Src(a) = a
        BY <2>1, <1>1
      <3> QED BY <3>1
    <2>2. CASE a > n
      <3>1. a - 1 \in 1..Len(r) /\ Src(a - 1) = a
        BY <2>2, <1>1
      <3> QED BY <3>1
    <2> QED BY <2>1, <2>2
  <1> HIDE DEF Src
  <1>6. IsInjective(r)
    <2>1. \A i, j \in 1..Len(r) : r[i] = r[j] => i = j
      BY <1>0, <1>3, <1>4
    <2> QED BY <2>1, <1>1 DEF IsInjective
  <1>7. \A x : Contains(r, x) <=> Contains(s, x) /\ x # s[n]
    <2> TAKE x
    <2>1. ASSUME Contains(r, x) PROVE Contains(s, x) /\ x # s[n]
      BY <2>1, <1>0, <1>3 DEF Contains
    <2>2. ASSUME Contains(s, x), x # s[n] PROVE Contains(r, x)
      <3>1. PICK a \in 1..Len(s) : s[a] = x
        BY <2>2 DEF Contains
      <3>2. PICK i \in 1..Len(r) : Src(i) = a
        BY <2>2, <3>1, <1>5
      <3>3. r[i] = x
        BY <3>1, <3>2, <1>3
      <3> QED BY <3>3 DEF Contains
    <2> QED BY <2>1, <2>2
  <1>8. KeepsOrder(r, s)
    BY <1>3, <1>4 DEF KeepsOrder
  <1> QED BY <1>1, <1>6, <1>7, <1>8

\* LRUCache::Remove (lru_cache.h:85-93) takes out exactly the key, whether or
\* not it was there, and keeps the order of the others.
LEMMA LruRemoveFacts ==
  ASSUME NEW S, NEW order \in Seq(S), NEW key, IsInjective(order),
         NEW r, r = LruRemove(order, key)
  PROVE  /\ r \in Seq(S)
         /\ Len(r) = IF Contains(order, key) THEN Len(order) - 1 ELSE Len(order)
         /\ IsInjective(r)
         /\ \A x : Contains(r, x) <=> Contains(order, x) /\ x # key
         /\ KeepsOrder(r, order)
  <1>1. CASE ~Contains(order, key)
    <2>1. r = order
      BY <1>1 DEF LruRemove
    <2>2. KeepsOrder(r, order)
      BY <2>1 DEF KeepsOrder
    <2>3. \A x : Contains(r, x) <=> Contains(order, x) /\ x # key
      BY <1>1, <2>1, Zenon
    <2> QED BY <1>1, <2>1, <2>2, <2>3
  <1>2. CASE Contains(order, key)
    <2>1. NodeOf(order, key) \in 1..Len(order) /\ order[NodeOf(order, key)] = key
      BY <1>2 DEF Contains, NodeOf
    <2>2. r = RemoveAt(order, NodeOf(order, key))
      BY <1>2 DEF LruRemove
    <2> QED BY <1>2, <2>1, <2>2, EraseFacts
  <1> QED BY <1>1, <1>2

\* LRUCache::Touch (lru_cache.h:68-80) puts the key in front, once, keeps every
\* other key, and grows the list only for a key it did not hold.
LEMMA LruTouchFacts ==
  ASSUME NEW S, NEW order \in Seq(S), NEW key \in S, IsInjective(order),
         NEW t, t = LruTouch(order, key)
  PROVE  /\ t \in Seq(S)
         /\ Contains(order, key) => Len(t) = Len(order)
         /\ ~Contains(order, key) => Len(t) = Len(order) + 1
         /\ t # <<>>
         /\ t[1] = key
         /\ IsInjective(t)
         /\ Contains(t, key)
         /\ \A x : Contains(order, x) => Contains(t, x)
         /\ \A x : Contains(t, x) => Contains(order, x) \/ x = key
         /\ KeyThenOrder(t, key, order)
  <1> DEFINE r == LruRemove(order, key)
  <1>1. /\ r \in Seq(S)
        /\ Len(r) = IF Contains(order, key) THEN Len(order) - 1 ELSE Len(order)
        /\ IsInjective(r)
        /\ \A x : Contains(r, x) <=> Contains(order, x) /\ x # key
        /\ KeepsOrder(r, order)
    BY LruRemoveFacts
  <1>2. t = <<key>> \o r
    BY DEF LruTouch
  <1> HIDE DEF r
  <1>3. t \in Seq(S) /\ Len(t) = Len(r) + 1 /\ t[1] = key
    BY <1>1, <1>2
  <1>4. \A i \in 1..Len(t) : i # 1 => i - 1 \in 1..Len(r) /\ t[i] = r[i - 1]
    BY <1>1, <1>2
  <1>5. \A i \in 1..Len(t) : i # 1 => t[i] # key
    BY <1>1, <1>4 DEF Contains
  <1>6. IsInjective(t)
    <2>1. \A i, j \in 1..Len(r) : r[i] = r[j] => i = j
      BY <1>1 DEF IsInjective
    <2>2. SUFFICES ASSUME NEW i \in 1..Len(t), NEW j \in 1..Len(t), t[i] = t[j]
                   PROVE  i = j
      BY <1>3 DEF IsInjective
    <2>3. CASE i # 1 /\ j # 1
      <3>1. i - 1 \in 1..Len(r) /\ j - 1 \in 1..Len(r) /\ r[i - 1] = r[j - 1]
        BY <2>2, <2>3, <1>4
      <3>2. i - 1 = j - 1
        BY <3>1, <2>1
      <3> QED BY <3>2, <1>3
    <2>4. CASE i = 1 \/ j = 1
      BY <2>2, <2>4, <1>3, <1>5
    <2> QED BY <2>3, <2>4
  <1>7. \A x : Contains(t, x) <=> Contains(order, x) \/ x = key
    <2> TAKE x
    <2>1. ASSUME Contains(t, x) PROVE Contains(order, x) \/ x = key
      <3>1. PICK i \in 1..Len(t) : t[i] = x
        BY <2>1 DEF Contains
      <3>2. CASE i = 1
        BY <3>1, <3>2, <1>3
      <3>3. CASE i # 1
        <4>1. Contains(r, x)
          BY <3>1, <3>3, <1>4 DEF Contains
        <4> QED BY <4>1, <1>1
      <3> QED BY <3>2, <3>3
    <2>2. ASSUME x = key PROVE Contains(t, x)
      <3>1. 1 \in 1..Len(t)
        BY <1>1, <1>3
      <3> QED BY <2>2, <3>1, <1>3 DEF Contains
    <2>3. ASSUME Contains(order, x), x # key PROVE Contains(t, x)
      <3>1. Contains(r, x)
        BY <2>3, <1>1
      <3>2. PICK i \in 1..Len(r) : r[i] = x
        BY <3>1 DEF Contains
      <3>3. i + 1 \in 1..Len(t) /\ i + 1 # 1 /\ (i + 1) - 1 = i
        BY <1>1, <1>3
      <3>4. t[i + 1] = x
        BY <3>2, <3>3, <1>4
      <3> QED BY <3>3, <3>4 DEF Contains
    <2> QED BY <2>1, <2>2, <2>3
  <1>8. KeyThenOrder(t, key, order)
    <2>1. SUFFICES ASSUME NEW i \in 1..Len(t), NEW j \in 1..Len(t), i < j
                   PROVE  /\ t[j] # key
                          /\ \/ t[i] = key
                             \/ \E a, b \in 1..Len(order) :
                                   a < b /\ order[a] = t[i] /\ order[b] = t[j]
      BY DEF KeyThenOrder
    <2>4. t[j] # key
      BY <2>1, <1>5
    <2>2. CASE i = 1
      BY <2>2, <2>4, <1>3
    <2>3. CASE i # 1
      <3>1. /\ i - 1 \in 1..Len(r) /\ t[i] = r[i - 1]
            /\ j - 1 \in 1..Len(r) /\ t[j] = r[j - 1]
            /\ i - 1 < j - 1
        BY <2>1, <2>3, <1>3, <1>4
      <3>2. \E a, b \in 1..Len(order) : a < b /\ order[a] = r[i - 1] /\ order[b] = r[j - 1]
        BY <1>1, <3>1, Zenon DEF KeepsOrder
      <3> QED BY <2>4, <3>1, <3>2
    <2> QED BY <2>2, <2>3
  <1> QED BY <1>1, <1>3, <1>6, <1>7, <1>8

\* Front is the sequence without its last element.
LEMMA FrontFacts ==
  ASSUME NEW S, NEW s \in Seq(S), s # <<>>
  PROVE  /\ Front(s) \in Seq(S)
         /\ Len(Front(s)) = Len(s) - 1
         /\ \A i \in 1..Len(Front(s)) : Front(s)[i] = s[i]
  <1> DEFINE n == Len(s) - 1
             f == SubSeq(s, 1, n)
  <1>1. n \in Nat /\ 1 \in Int /\ n \in Int /\ \A i \in 1..n : s[i] \in S
    OBVIOUS
  <1>2. Front(s) = f
    BY DEF Front
  <1> HIDE DEF n
  <1>3. /\ f \in Seq(S)
        /\ Len(f) = IF 1 <= n THEN n - 1 + 1 ELSE 0
        /\ \A i \in 1..(n - 1 + 1) : f[i] = s[1 + i - 1]
    BY <1>1, SubSeqProperties
  <1> HIDE DEF f
  <1>4. Len(f) = n /\ \A i \in 1..n : f[i] = s[i]
    BY <1>1, <1>3
  <1> QED BY <1>2, <1>3, <1>4 DEF n

\* LRUCache::PopEvictionCandidate (lru_cache.h:109-118) takes out exactly the
\* last key of the list.
LEMMA LruPopFacts ==
  ASSUME NEW S, NEW order \in Seq(S), order # <<>>, IsInjective(order),
         NEW p, p = LruPop(order), NEW v, v = LruVictim(order)
  PROVE  /\ p \in Seq(S)
         /\ Len(p) = Len(order) - 1
         /\ IsInjective(p)
         /\ v = order[Len(order)]
         /\ Contains(order, v)
         /\ \A x : Contains(p, x) <=> Contains(order, x) /\ x # v
         /\ KeepsOrder(p, order)
  <1>0. Len(order) \in Nat /\ Len(order) # 0 /\ Len(order) \in 1..Len(order)
    OBVIOUS
  <1>1. p \in Seq(S) /\ Len(p) = Len(order) - 1 /\ \A i \in 1..Len(p) : p[i] = order[i]
    BY FrontFacts DEF LruPop
  <1>2. v = order[Len(order)]
    BY DEF LruVictim, Last
  <1>3. \A i \in 1..Len(p) : i \in 1..Len(order) /\ i # Len(order)
    BY <1>0, <1>1
  <1>4. \A i \in 1..Len(order) : i = Len(order) \/ i \in 1..Len(p)
    BY <1>0, <1>1
  <1>5. \A i, j \in 1..Len(order) : order[i] = order[j] => i = j
    BY DEF IsInjective
  <1>6. \A x : Contains(p, x) <=> Contains(order, x) /\ x # v
    <2> TAKE x
    <2>1. ASSUME Contains(p, x) PROVE Contains(order, x) /\ x # v
      BY <2>1, <1>0, <1>1, <1>2, <1>3, <1>5 DEF Contains
    <2>2. ASSUME Contains(order, x), x # v PROVE Contains(p, x)
      BY <2>2, <1>1, <1>2, <1>4 DEF Contains
    <2> QED BY <2>1, <2>2
  <1>7. Contains(order, v)
    BY <1>0, <1>2 DEF Contains
  <1>8. IsInjective(p)
    <2>1. \A i, j \in 1..Len(p) : p[i] = p[j] => i = j
      BY <1>1, <1>3, <1>5
    <2> QED BY <1>1, <2>1 DEF IsInjective
  <1>9. KeepsOrder(p, order)
    BY <1>1, <1>3 DEF KeepsOrder
  <1> QED BY <1>1, <1>2, <1>6, <1>7, <1>8, <1>9

\* The loop of Shard::CleanupExpired (shard.h:196-202) takes out exactly the
\* expired keys of the recency list and keeps the order of the others.
LEMMA LruRemoveAllFacts ==
  ASSUME NEW S, NEW order \in Seq(S), NEW keys, IsInjective(order),
         NEW r, r = LruRemoveAll(order, keys)
  PROVE  /\ r \in Seq(S)
         /\ Len(r) <= Len(order)
         /\ IsInjective(r)
         /\ \A x : Contains(r, x) <=> Contains(order, x) /\ x \notin keys
         /\ KeepsOrder(r, order)
  <1> DEFINE kept    == KeptAt(order, keys)
             Rank(i) == RankAt(order, keys, i)
             n       == Cardinality(kept)
             Src(j)  == CHOOSE i \in kept : Rank(i) = j
  <1>1. /\ n \in Nat
        /\ n <= Len(order)
        /\ \A j \in 1..n : \E i \in kept : Rank(i) = j
        /\ \A i \in kept : Rank(i) \in 1..n
        /\ \A i, h \in kept : i < h => Rank(i) < Rank(h)
    BY RankFacts
  <1>2. r = [j \in 1..n |-> order[Src(j)]]
    BY Zenon DEF LruRemoveAll
  <1>3. \A i \in 1..Len(order) : order[i] \in S /\ i \in Nat
    OBVIOUS
  <1>4. \A x : x \in kept <=> x \in 1..Len(order) /\ order[x] \notin keys
    BY DEF KeptAt
  <1> HIDE DEF kept, Rank, n
  <1>5. \A j \in 1..n : Src(j) \in kept /\ Rank(Src(j)) = j
    BY <1>1, Zenon
  <1> HIDE DEF Src
  <1>6. r \in Seq(S) /\ Len(r) = n /\ \A j \in 1..n : r[j] = order[Src(j)]
    <2>1. r \in [1..n -> S]
      BY <1>2, <1>3, <1>4, <1>5
    <2> QED BY <1>1, <1>2, <2>1
  <1>7. \A i, j \in 1..n : i < j => Src(i) < Src(j)
    <2> TAKE i, j \in 1..n
    <2> HAVE i < j
    <2>1. Src(i) \in kept /\ Src(j) \in kept /\ Rank(Src(i)) = i /\ Rank(Src(j)) = j
      BY <1>5
    <2>2. Src(i) \in Nat /\ Src(j) \in Nat
      BY <2>1, <1>3, <1>4
    <2>3. ~(Src(j) < Src(i)) /\ Src(j) # Src(i)
      BY <2>1, <1>1
    <2> QED BY <2>2, <2>3
  <1>8. KeepsOrder(r, order)
    BY <1>4, <1>5, <1>6, <1>7 DEF KeepsOrder
  <1>9. IsInjective(r)
    BY <1>4, <1>5, <1>6 DEF IsInjective
  <1>10. \A x : Contains(r, x) <=> Contains(order, x) /\ x \notin keys
    <2> TAKE x
    <2>1. ASSUME Contains(r, x) PROVE Contains(order, x) /\ x \notin keys
      BY <2>1, <1>4, <1>5, <1>6 DEF Contains
    <2>2. ASSUME Contains(order, x), x \notin keys PROVE Contains(r, x)
      <3>1. PICK a \in 1..Len(order) : order[a] = x
        BY <2>2 DEF Contains
      <3>2. a \in kept /\ Rank(a) \in 1..n
        BY <2>2, <3>1, <1>1, <1>4
      <3>3. Src(Rank(a)) \in kept /\ Rank(Src(Rank(a))) = Rank(a)
        BY <3>2, <1>5
      <3>4. Src(Rank(a)) = a
        <4>1. Src(Rank(a)) \in Nat /\ a \in Nat
          BY <3>3, <1>3, <1>4
        <4>2. Rank(a) \in Nat /\ ~(Rank(a) < Rank(a))
          BY <3>2, <1>1
        <4>3. ~(Src(Rank(a)) < a)
          BY <3>2, <3>3, <4>2, <1>1, Zenon
        <4>4. ~(a < Src(Rank(a)))
          BY <3>2, <3>3, <4>2, <1>1, Zenon
        <4> QED BY <4>1, <4>3, <4>4
      <3>5. r[Rank(a)] = x
        BY <3>1, <3>2, <3>4, <1>6
      <3> QED BY <3>2, <3>5, <1>6 DEF Contains
    <2> QED BY <2>1, <2>2
  <1>11. Len(r) <= Len(order)
    BY <1>1, <1>6
  <1> QED BY <1>6, <1>8, <1>9, <1>10, <1>11

-----------------------------------------------------------------------------
(* TTLIndex *)

\* The elements of a sequence are what it contains.
LEMMA ToSetFacts ==
  ASSUME NEW S, NEW s \in Seq(S)
  PROVE  \A x : x \in ToSet(s) <=> Contains(s, x)
  BY DEF ToSet, Contains

\* Erasing a key from a bucket without repetitions removes exactly that key.
LEMMA RemoveFirstFacts ==
  ASSUME NEW S, NEW s \in Seq(S), NEW key, Contains(s, key), IsInjective(s),
         NEW r, r = RemoveFirst(s, key)
  PROVE  /\ r \in Seq(S)
         /\ IsInjective(r)
         /\ \A x : Contains(r, x) <=> Contains(s, x) /\ x # key
  <1>1. PICK n \in 1..Len(s) : s[n] = key /\ RemoveFirst(s, key) = RemoveAt(s, n)
    BY FirstMatch DEF Contains
  <1> QED BY <1>1, EraseFacts

\* TTLIndex::Remove (ttl_index.h:64-89) takes the key out of its bucket, erases
\* the bucket when that empties it, and touches no other bucket.
LEMMA DropFromBucketFacts ==
  ASSUME NEW K, NEW em, em \in [DOMAIN em -> Seq(K)],
         NEW t \in DOMAIN em, NEW key, Contains(em[t], key), IsInjective(em[t]),
         NEW d, d = DropFromBucket(em, t, key)
  PROVE  /\ d \in [DOMAIN d -> Seq(K)]
         /\ DOMAIN d \subseteq DOMAIN em
         /\ \A u \in DOMAIN em : u # t => u \in DOMAIN d /\ d[u] = em[u]
         /\ t \in DOMAIN d => /\ d[t] # <<>>
                              /\ IsInjective(d[t])
                              /\ \A x : Contains(d[t], x) <=> Contains(em[t], x) /\ x # key
         /\ t \notin DOMAIN d => \A x : Contains(em[t], x) => x = key
  <1> DEFINE keys == RemoveFirst(em[t], key)
  <1>1. em[t] \in Seq(K)
    OBVIOUS
  <1>2. /\ keys \in Seq(K)
        /\ IsInjective(keys)
        /\ \A x : Contains(keys, x) <=> Contains(em[t], x) /\ x # key
    BY <1>1, RemoveFirstFacts
  <1>3. d = IF keys = <<>> THEN Without(em, t) ELSE With(em, t, keys)
    BY DEF DropFromBucket
  <1> HIDE DEF keys
  <1>4. CASE keys = <<>>
    <2>1. d = [y \in DOMAIN em \ {t} |-> em[y]]
      BY <1>3, <1>4 DEF Without
    <2>2. \A x : ~Contains(keys, x)
      BY <1>4 DEF Contains
    <2> QED BY <1>2, <2>1, <2>2
  <1>5. CASE keys # <<>>
    <2>1. d = [y \in DOMAIN em \cup {t} |-> IF y = t THEN keys ELSE em[y]]
      BY <1>3, <1>5 DEF With
    <2>2. d[t] = keys /\ DOMAIN d = DOMAIN em
      BY <2>1
    <2> QED BY <1>2, <1>5, <2>1, <2>2
  <1> QED BY <1>4, <1>5

\* TTLIndex::Remove keeps the two maps of the index consistent and forgets
\* exactly the key.
LEMMA TtlRemoveFacts ==
  ASSUME NEW K, NEW T, NEW index, NEW key,
         IndexType(index, K, T), IndexConsistent(index),
         NEW r, r = TtlRemove(index, key)
  PROVE  /\ IndexType(r, K, T)
         /\ IndexConsistent(r)
         /\ DOMAIN r.key_index = DOMAIN index.key_index \ {key}
         /\ \A k \in DOMAIN r.key_index : r.key_index[k] = index.key_index[k]
  <1> DEFINE em == index.expiry_map
             ki == index.key_index
  <1>1. CASE key \notin DOMAIN ki
    BY <1>1 DEF TtlRemove
  <1>2. CASE key \in DOMAIN ki
    <2> DEFINE t == ki[key]
               d == DropFromBucket(em, t, key)
               w == Without(ki, key)
    <2>1. r = [expiry_map |-> d, key_index |-> w]
      BY <1>2 DEF TtlRemove
    <2>2. w = [y \in DOMAIN ki \ {key} |-> ki[y]]
      BY DEF Without
    <2>3. /\ em \in [DOMAIN em -> Seq(K)] /\ DOMAIN em \subseteq T
          /\ ki \in [DOMAIN ki -> T] /\ DOMAIN ki \subseteq K
      BY DEF IndexType
    <2>4. \A k \in DOMAIN ki : ki[k] \in DOMAIN em /\ Contains(em[ki[k]], k)
      BY DEF IndexConsistent
    <2>5. \A u \in DOMAIN em : /\ em[u] # <<>>
                               /\ IsInjective(em[u])
                               /\ \A k : Contains(em[u], k) => k \in DOMAIN ki /\ ki[k] = u
      BY <2>3, ToSetFacts DEF IndexConsistent
    <2>6. t \in DOMAIN em /\ Contains(em[t], key) /\ IsInjective(em[t])
      BY <1>2, <2>4, <2>5
    <2>7. /\ r.expiry_map = d /\ r.key_index = w
          /\ r = [expiry_map |-> r.expiry_map, key_index |-> r.key_index]
      BY <2>1
    <2> HIDE DEF em, ki, t, d, w
    <2>8. /\ d \in [DOMAIN d -> Seq(K)]
          /\ DOMAIN d \subseteq DOMAIN em
          /\ \A u \in DOMAIN em : u # t => u \in DOMAIN d /\ d[u] = em[u]
          /\ t \in DOMAIN d => /\ d[t] # <<>>
                               /\ IsInjective(d[t])
                               /\ \A x : Contains(d[t], x) <=> Contains(em[t], x) /\ x # key
          /\ t \notin DOMAIN d => \A x : Contains(em[t], x) => x = key
      BY <2>3, <2>6, DropFromBucketFacts DEF d
    <2>9. DOMAIN w = DOMAIN ki \ {key} /\ \A k \in DOMAIN w : w[k] = ki[k]
      BY <2>2
    <2>10. IndexType(r, K, T)
      <3>1. w \in [DOMAIN w -> T]
        BY <2>2, <2>3
      <3> QED BY <2>3, <2>7, <2>8, <2>9, <3>1 DEF IndexType
    <2>11. \A k \in DOMAIN w : w[k] \in DOMAIN d /\ Contains(d[w[k]], k)
      <3> TAKE k \in DOMAIN w
      <3>1. k \in DOMAIN ki /\ k # key /\ w[k] = ki[k] /\ ki[k] \in DOMAIN em
            /\ Contains(em[ki[k]], k)
        BY <2>4, <2>9
      <3>2. CASE ki[k] # t
        BY <3>1, <3>2, <2>8
      <3>3. CASE ki[k] = t
        BY <3>1, <3>3, <2>8
      <3> QED BY <3>2, <3>3
    <2>12. \A u \in DOMAIN d : /\ d[u] # <<>>
                               /\ IsInjective(d[u])
                               /\ \A k \in ToSet(d[u]) : k \in DOMAIN w /\ w[k] = u
      <3> TAKE u \in DOMAIN d
      <3>1. \A k : k \in ToSet(d[u]) <=> Contains(d[u], k)
        BY <2>8, ToSetFacts
      <3>2. CASE u # t
        <4>1. d[u] = em[u] /\ u \in DOMAIN em
          BY <3>2, <2>8
        <4>2. \A k : Contains(em[u], k) => k \in DOMAIN ki /\ ki[k] = u /\ k # key
          BY <3>2, <4>1, <2>5 DEF t
        <4> QED BY <3>1, <4>1, <4>2, <2>5, <2>9
      <3>3. CASE u = t
        <4>1. \A k : Contains(d[u], k) => k \in DOMAIN ki /\ ki[k] = u /\ k # key
          BY <3>3, <2>5, <2>6, <2>8
        <4> QED BY <3>1, <3>3, <4>1, <2>8, <2>9
      <3> QED BY <3>2, <3>3
    <2>13. IndexConsistent(r)
      BY <2>7, <2>11, <2>12 DEF IndexConsistent
    <2> QED BY <2>7, <2>9, <2>10, <2>13 DEF ki
  <1> QED BY <1>1, <1>2

\* TTLIndex::Upsert (ttl_index.h:54-59) keeps the two maps consistent, lists
\* the key once at its new time, and leaves the other keys alone.
LEMMA UpsertFacts ==
  ASSUME NEW K, NEW T, NEW index, NEW key \in K, NEW expire_at \in T,
         IndexType(index, K, T), IndexConsistent(index),
         NEW r, r = Upsert(index, key, expire_at)
  PROVE  /\ IndexType(r, K, T)
         /\ IndexConsistent(r)
         /\ DOMAIN r.key_index = DOMAIN index.key_index \cup {key}
         /\ r.key_index[key] = expire_at
         /\ \A k \in DOMAIN index.key_index : k # key => r.key_index[k] = index.key_index[k]
  <1>0. PICK rest : rest = TtlRemove(index, key)
    OBVIOUS
  <1> DEFINE em   == rest.expiry_map
             ki   == rest.key_index
             old  == DueAt(rest, expire_at)
             new  == Append(old, key)
             d    == With(em, expire_at, new)
             w    == With(ki, key, expire_at)
  <1>1. /\ IndexType(rest, K, T) /\ IndexConsistent(rest)
        /\ DOMAIN ki = DOMAIN index.key_index \ {key}
        /\ \A k \in DOMAIN ki : ki[k] = index.key_index[k]
    BY <1>0, TtlRemoveFacts
  <1>2. r = [expiry_map |-> d, key_index |-> w]
    BY <1>0 DEF Upsert
  <1>3. /\ em \in [DOMAIN em -> Seq(K)] /\ DOMAIN em \subseteq T
        /\ ki \in [DOMAIN ki -> T] /\ DOMAIN ki \subseteq K
    BY <1>1 DEF IndexType
  <1>4. \A k \in DOMAIN ki : ki[k] \in DOMAIN em /\ Contains(em[ki[k]], k)
    BY <1>1 DEF IndexConsistent
  <1>5. \A u \in DOMAIN em : /\ em[u] # <<>>
                             /\ IsInjective(em[u])
                             /\ \A k : Contains(em[u], k) => k \in DOMAIN ki /\ ki[k] = u
    BY <1>1, <1>3, ToSetFacts DEF IndexConsistent
  <1>6. old = IF expire_at \in DOMAIN em THEN em[expire_at] ELSE <<>>
    BY DEF DueAt
  <1>7. d = [y \in DOMAIN em \cup {expire_at} |-> IF y = expire_at THEN new ELSE em[y]]
    BY DEF With
  <1>8. w = [y \in DOMAIN ki \cup {key} |-> IF y = key THEN expire_at ELSE ki[y]]
    BY DEF With
  <1> HIDE DEF em, ki, old, d, w
  <1>9. old \in Seq(K) /\ IsInjective(old) /\ \A k : Contains(old, k) => k \in DOMAIN ki /\ ki[k] = expire_at
    <2>1. CASE expire_at \in DOMAIN em
      BY <2>1, <1>3, <1>5, <1>6
    <2>2. CASE expire_at \notin DOMAIN em
      BY <2>2, <1>6 DEF Contains, IsInjective
    <2> QED BY <2>1, <2>2
  <1>10. key \notin DOMAIN ki /\ ~Contains(old, key)
    BY <1>1, <1>9
  <1>11. /\ new \in Seq(K) /\ new # <<>> /\ Len(new) = Len(old) + 1 /\ new[Len(old) + 1] = key
         /\ \A i \in 1..Len(old) : new[i] = old[i]
    BY <1>9
  <1> HIDE DEF new
  <1>12. \A x : Contains(new, x) <=> Contains(old, x) \/ x = key
    <2>1. \A i \in 1..Len(new) : i = Len(old) + 1 \/ i \in 1..Len(old)
      BY <1>9, <1>11
    <2>2. \A i \in 1..Len(old) : i \in 1..Len(new)
      BY <1>9, <1>11
    <2>3. Len(old) + 1 \in 1..Len(new)
      BY <1>9, <1>11
    <2> QED BY <2>1, <2>2, <2>3, <1>11 DEF Contains
  <1>13. IsInjective(new)
    <2>1. \A i, j \in 1..Len(old) : old[i] = old[j] => i = j
      BY <1>9 DEF IsInjective
    <2>2. \A i \in 1..Len(old) : old[i] # key
      BY <1>10 DEF Contains
    <2>3. \A i, j \in 1..Len(new) : new[i] = new[j] => i = j
      BY <1>9, <1>11, <2>1, <2>2
    <2> QED BY <2>3, <1>11 DEF IsInjective
  <1>14. r.expiry_map = d /\ r.key_index = w /\ r = [expiry_map |-> r.expiry_map, key_index |-> r.key_index]
    BY <1>2
  <1>15. DOMAIN d = DOMAIN em \cup {expire_at} /\ d[expire_at] = new
         /\ \A u \in DOMAIN em : u # expire_at => d[u] = em[u]
    BY <1>7
  <1>16. DOMAIN w = DOMAIN ki \cup {key} /\ w[key] = expire_at
         /\ \A k \in DOMAIN ki : k # key => w[k] = ki[k]
    BY <1>8
  <1>17. IndexType(r, K, T)
    <2>1. d \in [DOMAIN d -> Seq(K)]
      BY <1>3, <1>7, <1>11
    <2>2. w \in [DOMAIN w -> T]
      BY <1>3, <1>8
    <2> QED BY <2>1, <2>2, <1>3, <1>14, <1>15, <1>16 DEF IndexType
  <1>18. \A k \in DOMAIN w : w[k] \in DOMAIN d /\ Contains(d[w[k]], k)
    <2> TAKE k \in DOMAIN w
    <2>1. CASE k = key
      BY <2>1, <1>12, <1>15, <1>16
    <2>2. CASE k # key
      <3>1. k \in DOMAIN ki /\ w[k] = ki[k] /\ ki[k] \in DOMAIN em /\ Contains(em[ki[k]], k)
        BY <2>2, <1>4, <1>16
      <3>2. CASE ki[k] = expire_at
        BY <3>1, <3>2, <1>6, <1>12, <1>15
      <3>3. CASE ki[k] # expire_at
        BY <3>1, <3>3, <1>15
      <3> QED BY <3>2, <3>3
    <2> QED BY <2>1, <2>2
  <1>19. \A u \in DOMAIN d : /\ d[u] # <<>>
                             /\ IsInjective(d[u])
                             /\ \A k \in ToSet(d[u]) : k \in DOMAIN w /\ w[k] = u
    <2> TAKE u \in DOMAIN d
    <2>1. CASE u = expire_at
      <3>1. \A k : k \in ToSet(d[u]) <=> Contains(new, k)
        BY <2>1, <1>11, <1>15, ToSetFacts
      <3>2. \A k : Contains(new, k) => k \in DOMAIN w /\ w[k] = u
        BY <2>1, <1>9, <1>10, <1>12, <1>16
      <3> QED BY <2>1, <3>1, <3>2, <1>11, <1>13, <1>15
    <2>2. CASE u # expire_at
      <3>1. u \in DOMAIN em /\ d[u] = em[u]
        BY <2>2, <1>15
      <3>2. \A k : k \in ToSet(d[u]) <=> Contains(em[u], k)
        BY <3>1, <1>3, ToSetFacts
      <3>3. \A k : Contains(em[u], k) => k \in DOMAIN w /\ w[k] = u
        BY <3>1, <1>5, <1>10, <1>16
      <3> QED BY <3>1, <3>2, <3>3, <1>5
    <2> QED BY <2>1, <2>2
  <1>20. IndexConsistent(r)
    BY <1>14, <1>18, <1>19 DEF IndexConsistent
  <1> QED BY <1>1, <1>14, <1>16, <1>17, <1>20

\* r is the index without the keys X.
IndexWithout(r, index, X) ==
    /\ DOMAIN r.key_index = DOMAIN index.key_index \ X
    /\ \A k \in DOMAIN r.key_index : r.key_index[k] = index.key_index[k]

\* TTLIndex::CollectExpired (ttl_index.h:94-108) returns exactly the keys whose
\* recorded time has come, and leaves a consistent index of the others.
LEMMA CollectExpiredFacts ==
  ASSUME NEW K, NEW T, NEW index, NEW now \in Nat, T \subseteq Nat,
         IndexType(index, K, T), IndexConsistent(index),
         NEW r, r = CollectExpired(index, now)
  PROVE  /\ \A k : k \in ExpiredKeys(index, now)
                      <=> k \in DOMAIN index.key_index /\ index.key_index[k] <= now
         /\ IndexType(r, K, T)
         /\ IndexConsistent(r)
         /\ IndexWithout(r, index, ExpiredKeys(index, now))
  <1> DEFINE em == index.expiry_map
             ki == index.key_index
             D  == {t \in DOMAIN em : t > now}
             X  == ExpiredKeys(index, now)
             d  == Restrict(em, D)
             w  == Restrict(ki, DOMAIN ki \ X)
  <1>1. r = [expiry_map |-> d, key_index |-> w]
    BY DEF CollectExpired
  <1>2. d = [u \in D |-> em[u]] /\ w = [k \in DOMAIN ki \ X |-> ki[k]]
    BY DEF Restrict
  <1>3. /\ em \in [DOMAIN em -> Seq(K)] /\ DOMAIN em \subseteq T
        /\ ki \in [DOMAIN ki -> T] /\ DOMAIN ki \subseteq K
    BY DEF IndexType
  <1>4. \A k \in DOMAIN ki : ki[k] \in DOMAIN em /\ Contains(em[ki[k]], k)
    BY DEF IndexConsistent
  <1>5. \A u \in DOMAIN em : /\ em[u] # <<>>
                             /\ IsInjective(em[u])
                             /\ \A k \in ToSet(em[u]) : k \in DOMAIN ki /\ ki[k] = u
    BY DEF IndexConsistent
  <1>6. \A u \in DOMAIN em : \A k : k \in ToSet(em[u]) <=> Contains(em[u], k)
    BY <1>3, ToSetFacts
  <1>7. \A k : k \in X <=> \E t \in DOMAIN em : t <= now /\ k \in ToSet(em[t])
    BY DEF ExpiredKeys
  <1> HIDE DEF em, ki, d, w, X
  <1>8. \A k : k \in X <=> k \in DOMAIN ki /\ ki[k] <= now
    BY <1>4, <1>5, <1>6, <1>7
  <1>9. /\ r.expiry_map = d /\ r.key_index = w
        /\ r = [expiry_map |-> r.expiry_map, key_index |-> r.key_index]
    BY <1>1
  <1>10. \A k : k \in DOMAIN w <=> k \in DOMAIN ki /\ ki[k] > now
    <2>1. \A k \in DOMAIN ki : ki[k] \in Nat
      BY <1>3
    <2> QED BY <2>1, <1>2, <1>8
  <1>11. IndexType(r, K, T)
    BY <1>2, <1>3, <1>9 DEF IndexType
  <1>12. \A k \in DOMAIN w : w[k] \in DOMAIN d /\ Contains(d[w[k]], k)
    BY <1>2, <1>4, <1>10
  <1>13. \A u \in DOMAIN d : /\ d[u] # <<>>
                             /\ IsInjective(d[u])
                             /\ \A k \in ToSet(d[u]) : k \in DOMAIN w /\ w[k] = u
    BY <1>2, <1>5, <1>10
  <1>14. IndexConsistent(r)
    BY <1>9, <1>12, <1>13 DEF IndexConsistent
  <1> QED BY <1>2, <1>8, <1>9, <1>11, <1>14 DEF ki, X, IndexWithout

-----------------------------------------------------------------------------
(* Shard *)

\* Everything but the capacity: what holds between Touch and EvictOne.
ShardCore(s, K, V) ==
    /\ ShardType(s, K, V)
    /\ LruTracksStore(s)
    /\ IndexConsistent(s.ttl)
    /\ IndexCoversStore(s)

ShardOK(s, K, V) == ShardCore(s, K, V) /\ Len(s.order) <= Capacity

\* What it takes for a new triple of structures to be a well-formed shard.
LEMMA CoreIntro ==
  ASSUME NEW K, NEW V, NEW store, NEW order, NEW ttl,
         DOMAIN store \subseteq K, store \in [DOMAIN store -> EntryType(V)],
         order \in Seq(K), IsInjective(order),
         \A x : Contains(order, x) <=> x \in DOMAIN store,
         IndexType(ttl, K, Timestamps), IndexConsistent(ttl),
         DOMAIN ttl.key_index \subseteq DOMAIN store,
         \A k \in DOMAIN store : HasTTL(store[k]) =>
            k \in DOMAIN ttl.key_index /\ ttl.key_index[k] = store[k].expire_at,
         NEW s, s = [store |-> store, order |-> order, ttl |-> ttl]
  PROVE  ShardCore(s, K, V)
  <1>1. s.store = store /\ s.order = order /\ s.ttl = ttl
    OBVIOUS
  <1>2. ShardType(s, K, V)
    BY <1>1 DEF ShardType
  <1>3. \A i \in 1..Len(order) : Contains(order, order[i])
    BY DEF Contains
  <1>4. LruTracksStore(s)
    BY <1>1, <1>3 DEF LruTracksStore
  <1>5. IndexCoversStore(s)
    BY <1>1 DEF IndexCoversStore
  <1> QED BY <1>1, <1>2, <1>4, <1>5 DEF ShardCore

\* What a well-formed shard gives, in the terms the operators' lemmas use.
LEMMA CoreElim ==
  ASSUME NEW K, NEW V, NEW s, ShardCore(s, K, V)
  PROVE  /\ s = [store |-> s.store, order |-> s.order, ttl |-> s.ttl]
         /\ DOMAIN s.store \subseteq K
         /\ s.store \in [DOMAIN s.store -> EntryType(V)]
         /\ s.order \in Seq(K)
         /\ IsInjective(s.order)
         /\ \A x : Contains(s.order, x) <=> x \in DOMAIN s.store
         /\ IndexType(s.ttl, K, Timestamps)
         /\ IndexConsistent(s.ttl)
         /\ DOMAIN s.ttl.key_index \subseteq DOMAIN s.store
         /\ \A k \in DOMAIN s.store : HasTTL(s.store[k]) =>
               k \in DOMAIN s.ttl.key_index /\ s.ttl.key_index[k] = s.store[k].expire_at
  <1>1. \A x : Contains(s.order, x) => x \in DOMAIN s.store
    BY DEF ShardCore, LruTracksStore, Contains
  <1>2. \A x \in DOMAIN s.store : Contains(s.order, x)
    BY DEF ShardCore, LruTracksStore
  <1>3. IsInjective(s.order)
    BY DEF ShardCore, LruTracksStore
  <1>4. ShardType(s, K, V) /\ IndexConsistent(s.ttl)
    BY DEF ShardCore
  <1>5. /\ DOMAIN s.ttl.key_index \subseteq DOMAIN s.store
        /\ \A k \in DOMAIN s.store : HasTTL(s.store[k]) =>
               k \in DOMAIN s.ttl.key_index /\ s.ttl.key_index[k] = s.store[k].expire_at
    BY DEF ShardCore, IndexCoversStore
  <1> QED BY <1>1, <1>2, <1>3, <1>4, <1>5 DEF ShardType

\* A new shard is well formed.
LEMMA EmptyShardOK ==
  ASSUME NEW K, NEW V
  PROVE  ShardOK(EmptyShard, K, V)
  <1>1. PICK none : none = [k \in {} |-> 0]
    OBVIOUS
  <1>2. PICK em : em = [t \in {} |-> <<>>]
    OBVIOUS
  <1>3. PICK idx : idx = [expiry_map |-> em, key_index |-> none]
    OBVIOUS
  <1>4. EmptyShard = [store |-> none, order |-> <<>>, ttl |-> idx]
    BY <1>1, <1>2, <1>3 DEF EmptyShard, EmptyIndex
  <1>5. /\ DOMAIN none = {} /\ DOMAIN em = {}
        /\ none \in [DOMAIN none -> EntryType(V)]
        /\ none \in [DOMAIN none -> Timestamps]
        /\ em \in [DOMAIN em -> Seq(K)]
    BY <1>1, <1>2
  <1>6. /\ idx.expiry_map = em /\ idx.key_index = none
        /\ idx = [expiry_map |-> idx.expiry_map, key_index |-> idx.key_index]
    BY <1>3
  <1>7. IndexType(idx, K, Timestamps) /\ IndexConsistent(idx)
    BY <1>5, <1>6 DEF IndexType, IndexConsistent
  <1>8. <<>> \in Seq(K) /\ IsInjective(<<>>) /\ \A x : ~Contains(<<>>, x)
    BY DEF IsInjective, Contains
  <1>9. ShardCore(EmptyShard, K, V)
    BY <1>4, <1>5, <1>6, <1>7, <1>8, CoreIntro
  <1>10. Len(EmptyShard.order) <= Capacity
    BY <1>4, CapacityAssumption
  <1> QED BY <1>9, <1>10 DEF ShardOK

\* r is what removing some keys leaves of s.
Shrunk(r, s, K, V) ==
    /\ ShardCore(r, K, V)
    /\ Len(r.order) <= Len(s.order)
    /\ KeepsOrder(r.order, s.order)

\* Shard::RemoveInternal (shard.h:48-53) leaves the store, the recency list and
\* the index in agreement.
LEMMA RemoveInternalFacts ==
  ASSUME NEW K, NEW V, NEW s, ShardCore(s, K, V), NEW key,
         NEW r, r = RemoveInternal(s, key)
  PROVE  Shrunk(r, s, K, V)
  <1>1. PICK store : store = Without(s.store, key)
    OBVIOUS
  <1>2. PICK order : order = LruRemove(s.order, key)
    OBVIOUS
  <1>3. PICK ttl : ttl = TtlRemove(s.ttl, key)
    OBVIOUS
  <1>4. r = [store |-> store, order |-> order, ttl |-> ttl]
    BY <1>1, <1>2, <1>3 DEF RemoveInternal
  <1>5. /\ s.store \in [DOMAIN s.store -> EntryType(V)] /\ DOMAIN s.store \subseteq K
        /\ s.order \in Seq(K) /\ IsInjective(s.order)
        /\ \A x : Contains(s.order, x) <=> x \in DOMAIN s.store
        /\ IndexType(s.ttl, K, Timestamps) /\ IndexConsistent(s.ttl)
        /\ DOMAIN s.ttl.key_index \subseteq DOMAIN s.store
        /\ \A k \in DOMAIN s.store : HasTTL(s.store[k]) =>
               k \in DOMAIN s.ttl.key_index /\ s.ttl.key_index[k] = s.store[k].expire_at
    BY CoreElim
  <1>6. /\ DOMAIN store = DOMAIN s.store \ {key}
        /\ \A y \in DOMAIN store : store[y] = s.store[y]
        /\ store \in [DOMAIN store -> EntryType(V)]
    BY <1>1, <1>5 DEF Without
  <1>7. /\ order \in Seq(K) /\ IsInjective(order)
        /\ Len(order) = IF Contains(s.order, key) THEN Len(s.order) - 1 ELSE Len(s.order)
        /\ \A x : Contains(order, x) <=> Contains(s.order, x) /\ x # key
        /\ KeepsOrder(order, s.order)
    <2>1. s.order \in Seq(K) /\ IsInjective(s.order)
      BY <1>5
    <2> QED BY <1>2, <2>1, LruRemoveFacts
  <1>8. /\ IndexType(ttl, K, Timestamps) /\ IndexConsistent(ttl)
        /\ DOMAIN ttl.key_index = DOMAIN s.ttl.key_index \ {key}
        /\ \A k \in DOMAIN ttl.key_index : ttl.key_index[k] = s.ttl.key_index[k]
    BY <1>3, <1>5, TtlRemoveFacts
  <1>9. ShardCore(r, K, V)
    <2>1. \A x : Contains(order, x) <=> x \in DOMAIN store
      BY <1>5, <1>6, <1>7
    <2>2. DOMAIN ttl.key_index \subseteq DOMAIN store
      BY <1>5, <1>6, <1>8
    <2>3. \A k \in DOMAIN store : HasTTL(store[k]) =>
             k \in DOMAIN ttl.key_index /\ ttl.key_index[k] = store[k].expire_at
      BY <1>5, <1>6, <1>8
    <2>4. DOMAIN store \subseteq K
      BY <1>5, <1>6
    <2> QED BY <1>4, <1>6, <1>7, <1>8, <2>1, <2>2, <2>3, <2>4, CoreIntro
  <1>10. Len(order) <= Len(s.order)
    BY <1>5, <1>7
  <1> QED BY <1>4, <1>7, <1>9, <1>10 DEF Shrunk

\* EvictOne of s leaves r: the last key of the recency list is gone.
Evicted(r, s, K, V) ==
    /\ ShardCore(r, K, V)
    /\ Len(r.order) = Len(s.order) - 1
    /\ r.store = Without(s.store, s.order[Len(s.order)])
    /\ KeepsOrder(r.order, s.order)

\* Shard::EvictOne (shard.h:55-65) erases the last key of the recency list from
\* all three structures and leaves them in agreement.
LEMMA EvictOneFacts ==
  ASSUME NEW K, NEW V, NEW s, ShardCore(s, K, V), s.order # <<>>,
         NEW r, r = EvictOne(s)
  PROVE  Evicted(r, s, K, V)
  <1>0. PICK v : v = LruVictim(s.order)
    OBVIOUS
  <1>1. PICK store : store = Without(s.store, v)
    OBVIOUS
  <1>2. PICK order : order = LruPop(s.order)
    OBVIOUS
  <1>3. PICK ttl : ttl = TtlRemove(s.ttl, v)
    OBVIOUS
  <1>5. /\ s.store \in [DOMAIN s.store -> EntryType(V)] /\ DOMAIN s.store \subseteq K
        /\ \A x : Contains(s.order, x) <=> x \in DOMAIN s.store
        /\ DOMAIN s.ttl.key_index \subseteq DOMAIN s.store
        /\ \A k \in DOMAIN s.store : HasTTL(s.store[k]) =>
               k \in DOMAIN s.ttl.key_index /\ s.ttl.key_index[k] = s.store[k].expire_at
    BY CoreElim
  <1>6. s.order \in Seq(K) /\ IsInjective(s.order)
    BY CoreElim
  <1>7. IndexType(s.ttl, K, Timestamps) /\ IndexConsistent(s.ttl)
    BY CoreElim
  <1>8. /\ order \in Seq(K) /\ IsInjective(order)
        /\ Len(order) = Len(s.order) - 1
        /\ v = s.order[Len(s.order)]
        /\ Contains(s.order, v)
        /\ \A x : Contains(order, x) <=> Contains(s.order, x) /\ x # v
        /\ KeepsOrder(order, s.order)
    BY <1>0, <1>2, <1>6, LruPopFacts
  <1>9. r = [store |-> store, order |-> order, ttl |-> ttl]
    BY <1>0, <1>1, <1>2, <1>3, <1>5, <1>8 DEF EvictOne
  <1>10. /\ DOMAIN store = DOMAIN s.store \ {v}
         /\ \A y \in DOMAIN store : store[y] = s.store[y]
         /\ store \in [DOMAIN store -> EntryType(V)]
    BY <1>1, <1>5 DEF Without
  <1>11. /\ IndexType(ttl, K, Timestamps) /\ IndexConsistent(ttl)
         /\ DOMAIN ttl.key_index = DOMAIN s.ttl.key_index \ {v}
         /\ \A k \in DOMAIN ttl.key_index : ttl.key_index[k] = s.ttl.key_index[k]
    BY <1>3, <1>7, TtlRemoveFacts
  <1>12. ShardCore(r, K, V)
    <2>1. \A x : Contains(order, x) <=> x \in DOMAIN store
      BY <1>5, <1>8, <1>10
    <2>2. DOMAIN ttl.key_index \subseteq DOMAIN store
      BY <1>5, <1>10, <1>11
    <2>3. \A k \in DOMAIN store : HasTTL(store[k]) =>
             k \in DOMAIN ttl.key_index /\ ttl.key_index[k] = store[k].expire_at
      BY <1>5, <1>10, <1>11
    <2>4. DOMAIN store \subseteq K
      BY <1>5, <1>10
    <2> QED BY <1>8, <1>9, <1>10, <1>11, <2>1, <2>2, <2>3, <2>4, CoreIntro
  <1>13. r.store = store /\ r.order = order
    BY <1>9
  <1> QED BY <1>1, <1>8, <1>12, <1>13 DEF Evicted

\* The new index of a write: unchanged for the other keys, and the written
\* key is listed at its time when its entry has one.
IndexAfterWrite(new, old, key, entry) ==
    /\ DOMAIN new.key_index \subseteq DOMAIN old.key_index \cup {key}
    /\ \A k \in DOMAIN old.key_index : k # key =>
          k \in DOMAIN new.key_index /\ new.key_index[k] = old.key_index[k]
    /\ HasTTL(entry) => key \in DOMAIN new.key_index /\ new.key_index[key] = entry.expire_at

\* m is the shard s after a write of entry under key, before any eviction.
Writes(m, s, K, V, key, entry, idx) ==
    /\ entry \in EntryType(V)
    /\ IndexType(idx, K, Timestamps)
    /\ IndexConsistent(idx)
    /\ IndexAfterWrite(idx, s.ttl, key, entry)
    /\ m = [store |-> With(s.store, key, entry),
            order |-> LruTouch(s.order, key),
            ttl   |-> idx]

\* m is well formed but for its capacity, holds the key written in front of
\* the recency list, and keeps the others in their old order behind it.
MidWrite(m, s, K, V, key) ==
    /\ ShardCore(m, K, V)
    /\ DOMAIN m.store = DOMAIN s.store \cup {key}
    /\ m.order \in Seq(K)
    /\ m.order # <<>>
    /\ m.order[1] = key
    /\ Contains(s.order, key) => Len(m.order) = Len(s.order)
    /\ ~Contains(s.order, key) => Len(m.order) = Len(s.order) + 1
    /\ KeyThenOrder(m.order, key, s.order)

\* Storing the entry, updating the index and touching the key keep the three
\* structures in agreement (shard.h:84-97 and 102-120 before the eviction).
LEMMA WriteCore ==
  ASSUME NEW K, NEW V, NEW s, ShardCore(s, K, V), NEW key \in K, NEW entry,
         NEW idx, NEW m, Writes(m, s, K, V, key, entry, idx)
  PROVE  MidWrite(m, s, K, V, key)
  <1>0. /\ entry \in EntryType(V)
        /\ IndexType(idx, K, Timestamps) /\ IndexConsistent(idx)
        /\ IndexAfterWrite(idx, s.ttl, key, entry)
    BY DEF Writes
  <1>1. PICK store : store = With(s.store, key, entry)
    OBVIOUS
  <1>2. PICK order : order = LruTouch(s.order, key)
    OBVIOUS
  <1>3. m = [store |-> store, order |-> order, ttl |-> idx]
    BY <1>1, <1>2 DEF Writes
  <1>5. /\ s.store \in [DOMAIN s.store -> EntryType(V)] /\ DOMAIN s.store \subseteq K
        /\ \A x : Contains(s.order, x) <=> x \in DOMAIN s.store
        /\ DOMAIN s.ttl.key_index \subseteq DOMAIN s.store
        /\ \A k \in DOMAIN s.store : HasTTL(s.store[k]) =>
               k \in DOMAIN s.ttl.key_index /\ s.ttl.key_index[k] = s.store[k].expire_at
    BY CoreElim
  <1>6. s.order \in Seq(K) /\ IsInjective(s.order)
    BY CoreElim
  <1>7. /\ order \in Seq(K)
        /\ Contains(s.order, key) => Len(order) = Len(s.order)
        /\ ~Contains(s.order, key) => Len(order) = Len(s.order) + 1
        /\ order # <<>>
        /\ order[1] = key
        /\ IsInjective(order)
        /\ \A x : Contains(order, x) <=> Contains(s.order, x) \/ x = key
        /\ KeyThenOrder(order, key, s.order)
    <2>1. PICK o : o = s.order
      OBVIOUS
    <2>2. o \in Seq(K) /\ IsInjective(o) /\ order = LruTouch(o, key)
      BY <1>2, <1>6, <2>1
    <2>3. order \in Seq(K) /\ order # <<>>
      BY <2>2, LruTouchFacts
    <2>4. IsInjective(order) /\ KeyThenOrder(order, key, o)
      BY <2>2, LruTouchFacts
    <2>5. Contains(order, key) /\ \A x : Contains(o, x) => Contains(order, x)
      BY <2>2, LruTouchFacts
    <2>6. \A x : Contains(order, x) => Contains(o, x) \/ x = key
      BY <2>2, LruTouchFacts
    <2>8. Contains(o, key) => Len(order) = Len(o)
      BY <2>2, LruTouchFacts
    <2>9. ~Contains(o, key) => Len(order) = Len(o) + 1
      BY <2>2, LruTouchFacts
    <2>7. order[1] = key
      <3>1. PICK r : r = LruRemove(o, key)
        OBVIOUS
      <3>2. r \in Seq(K)
        BY <2>2, <3>1, LruRemoveFacts
      <3>3. order = <<key>> \o r
        BY <2>2, <3>1 DEF LruTouch
      <3> QED BY <3>2, <3>3
    <2>10. \A x : Contains(order, x) <=> Contains(o, x) \/ x = key
      BY <2>5, <2>6, Zenon
    <2> QED BY <2>1, <2>3, <2>4, <2>7, <2>8, <2>9, <2>10
  <1>8. /\ DOMAIN store = DOMAIN s.store \cup {key}
        /\ store[key] = entry
        /\ \A y \in DOMAIN s.store : y # key => store[y] = s.store[y]
        /\ store \in [DOMAIN store -> EntryType(V)]
    BY <1>0, <1>1, <1>5 DEF With
  <1>9. ShardCore(m, K, V)
    <2>1. \A x : Contains(order, x) <=> x \in DOMAIN store
      BY <1>5, <1>7, <1>8
    <2>2. DOMAIN idx.key_index \subseteq DOMAIN store
      BY <1>0, <1>5, <1>8 DEF IndexAfterWrite
    <2>3. \A k \in DOMAIN store : HasTTL(store[k]) =>
             k \in DOMAIN idx.key_index /\ idx.key_index[k] = store[k].expire_at
      <3> TAKE k \in DOMAIN store
      <3>1. CASE k = key
        BY <3>1, <1>0, <1>8 DEF IndexAfterWrite
      <3>2. CASE k # key
        BY <3>2, <1>0, <1>5, <1>8 DEF IndexAfterWrite
      <3> QED BY <3>1, <3>2
    <2>4. DOMAIN store \subseteq K
      BY <1>5, <1>8
    <2> QED BY <1>0, <1>3, <1>7, <1>8, <2>1, <2>2, <2>3, <2>4, CoreIntro
  <1>10. m.store = store /\ m.order = order
    BY <1>3
  <1> QED BY <1>7, <1>8, <1>9, <1>10 DEF MidWrite

\* The whole of a write that ends in r, its eviction included: the shard is
\* within its capacity, and the key just written is not the one that left.
Written(r, s, K, V, key) ==
    /\ ShardOK(r, K, V)
    /\ \E m : /\ MidWrite(m, s, K, V, key)
              /\ KeepsOrder(r.order, m.order)
              /\ \/ r = m
                 \/ /\ m.order[Len(m.order)] # key
                    /\ r.store = Without(m.store, m.order[Len(m.order)])

\* A write with the eviction its Touch asks for ends within the capacity.  The
\* eviction finds the list one over the limit at most, so one is enough.
LEMMA WriteFacts ==
  ASSUME NEW K, NEW V, NEW s, ShardOK(s, K, V), NEW key \in K, NEW entry, NEW idx,
         NEW m, Writes(m, s, K, V, key, entry, idx),
         NEW r, r = EvictOnOverflow(m, TouchOverflows(s.order, key, Capacity))
  PROVE  Written(r, s, K, V, key)
  <1>1. ShardCore(s, K, V) /\ Len(s.order) <= Capacity
    BY DEF ShardOK
  <1>2. MidWrite(m, s, K, V, key)
    BY <1>1, WriteCore
  <1>3. s.order \in Seq(K) /\ Len(s.order) \in Nat
    BY <1>1, CoreElim
  <1>4. /\ ShardCore(m, K, V)
        /\ m.order \in Seq(K) /\ m.order # <<>> /\ m.order[1] = key
        /\ Contains(s.order, key) => Len(m.order) = Len(s.order)
        /\ ~Contains(s.order, key) => Len(m.order) = Len(s.order) + 1
    BY <1>2 DEF MidWrite
  <1>5. CASE TouchOverflows(s.order, key, Capacity)
    <2>1. Len(m.order) = Len(s.order) + 1 /\ Len(s.order) + 1 > Capacity
      BY <1>4, <1>5 DEF TouchOverflows
    <2>2. r = EvictOne(m)
      BY <1>5 DEF EvictOnOverflow
    <2>3. Evicted(r, m, K, V)
      BY <1>4, <2>2, EvictOneFacts
    <2>4. /\ ShardCore(r, K, V) /\ Len(r.order) = Len(m.order) - 1
          /\ r.store = Without(m.store, m.order[Len(m.order)])
          /\ KeepsOrder(r.order, m.order)
      BY <2>3 DEF Evicted
    <2>5. IsInjective(m.order)
      BY <1>4, CoreElim
    <2>6. m.order[Len(m.order)] # key
      <3>1. PICK o : o = m.order
        OBVIOUS
      <3>2. o \in Seq(K) /\ Len(o) \in Nat /\ o[1] = key /\ Len(o) > 1 /\ IsInjective(o)
        BY <1>3, <1>4, <2>1, <2>5, <3>1, CapacityAssumption
      <3>3. Len(o) \in DOMAIN o /\ 1 \in DOMAIN o /\ Len(o) # 1
        BY <3>2
      <3>4. o[Len(o)] # key
        BY <3>2, <3>3, Zenon DEF IsInjective
      <3> QED BY <3>1, <3>4
    <2>7. Len(r.order) <= Capacity
      BY <1>1, <1>3, <2>1, <2>4
    <2> QED BY <1>2, <2>4, <2>6, <2>7 DEF ShardOK, Written
  <1>6. CASE ~TouchOverflows(s.order, key, Capacity)
    <2>1. r = m
      BY <1>6 DEF EvictOnOverflow
    <2>2. Len(m.order) <= Capacity
      <3>1. CASE Contains(s.order, key)
        BY <3>1, <1>1, <1>4
      <3>2. CASE ~Contains(s.order, key)
        BY <3>2, <1>3, <1>4, <1>6, CapacityAssumption DEF TouchOverflows
      <3> QED BY <3>1, <3>2
    <2>3. KeepsOrder(r.order, m.order)
      BY <2>1 DEF KeepsOrder
    <2> QED BY <1>2, <1>4, <2>1, <2>2, <2>3 DEF ShardOK, Written
  <1> QED BY <1>5, <1>6

\* Both constructors of Entry (entry.h:46-54) yield a time of the clock's width.
LEMMA EntryTyped ==
  ASSUME NEW V, NEW value \in V, NEW created_at \in Nat, NEW ttl_ms \in Nat
  PROVE  Entry(value, created_at, ttl_ms) \in EntryType(V)
  <1>1. PICK e : e = IF ttl_ms = 0 THEN NoExpiry ELSE (created_at + ttl_ms) % TimeMod
    OBVIOUS
  <1>2. 0 \in Timestamps /\ (created_at + ttl_ms) % TimeMod \in Timestamps
    BY TimeModAssumption DEF Timestamps
  <1>3. e \in Timestamps
    BY <1>1, <1>2 DEF NoExpiry
  <1>4. Entry(value, created_at, ttl_ms) = [value |-> value, expire_at |-> e]
    BY <1>1 DEF Entry
  <1> QED BY <1>3, <1>4 DEF EntryType

\* Shard::Set (shard.h:84-97) is a write that takes the key out of the index.
LEMMA ShardSetFacts ==
  ASSUME NEW K, NEW V, NEW s, ShardOK(s, K, V), NEW key \in K, NEW value \in V,
         NEW r, r = ShardSet(s, key, value)
  PROVE  Written(r, s, K, V, key)
  <1>1. PICK entry : entry = Entry(value, 0, 0)
    OBVIOUS
  <1>2. PICK idx : idx = TtlRemove(s.ttl, key)
    OBVIOUS
  <1>3. PICK m : m = [store |-> With(s.store, key, entry), order |-> LruTouch(s.order, key), ttl |-> idx]
    OBVIOUS
  <1>4. r = EvictOnOverflow(m, TouchOverflows(s.order, key, Capacity))
    BY <1>1, <1>2, <1>3 DEF ShardSet
  <1>5. entry \in EntryType(V)
    BY <1>1, EntryTyped
  <1>6. ~HasTTL(entry)
    BY <1>1 DEF Entry, HasTTL
  <1>7. IndexType(s.ttl, K, Timestamps) /\ IndexConsistent(s.ttl)
    BY CoreElim DEF ShardOK
  <1>8. /\ IndexType(idx, K, Timestamps) /\ IndexConsistent(idx)
        /\ DOMAIN idx.key_index = DOMAIN s.ttl.key_index \ {key}
        /\ \A k \in DOMAIN idx.key_index : idx.key_index[k] = s.ttl.key_index[k]
    BY <1>2, <1>7, TtlRemoveFacts
  <1>9. IndexAfterWrite(idx, s.ttl, key, entry)
    BY <1>6, <1>8 DEF IndexAfterWrite
  <1>10. Writes(m, s, K, V, key, entry, idx)
    BY <1>3, <1>5, <1>8, <1>9 DEF Writes
  <1> QED BY <1>4, <1>10, WriteFacts

\* Shard::SetWithTTL (shard.h:102-120) is a write that lists the key at its
\* time, or leaves the index alone for a TTL of 0.
LEMMA ShardSetWithTTLFacts ==
  ASSUME NEW K, NEW V, NEW s, ShardOK(s, K, V), NEW key \in K, NEW value \in V,
         NEW ttl_ms \in Nat, NEW t \in Nat,
         NEW r, r = ShardSetWithTTL(s, key, value, ttl_ms, t)
  PROVE  Written(r, s, K, V, key)
  <1>1. PICK entry : entry = Entry(value, t, ttl_ms)
    OBVIOUS
  <1>2. PICK idx : idx = IF HasTTL(entry) THEN Upsert(s.ttl, key, entry.expire_at) ELSE s.ttl
    OBVIOUS
  <1>3. PICK m : m = [store |-> With(s.store, key, entry), order |-> LruTouch(s.order, key), ttl |-> idx]
    OBVIOUS
  <1>4. r = EvictOnOverflow(m, TouchOverflows(s.order, key, Capacity))
    BY <1>1, <1>2, <1>3 DEF ShardSetWithTTL
  <1>5. entry \in EntryType(V) /\ entry.expire_at \in Timestamps
    <2>1. entry \in EntryType(V)
      BY <1>1, EntryTyped
    <2> QED BY <2>1 DEF EntryType
  <1>7. IndexType(s.ttl, K, Timestamps) /\ IndexConsistent(s.ttl)
    BY CoreElim DEF ShardOK
  <1>8. IndexType(idx, K, Timestamps) /\ IndexConsistent(idx) /\ IndexAfterWrite(idx, s.ttl, key, entry)
    <2>1. CASE ~HasTTL(entry)
      BY <2>1, <1>2, <1>7 DEF IndexAfterWrite
    <2>2. CASE HasTTL(entry)
      <3>1. idx = Upsert(s.ttl, key, entry.expire_at)
        BY <2>2, <1>2
      <3>2. /\ IndexType(idx, K, Timestamps) /\ IndexConsistent(idx)
            /\ DOMAIN idx.key_index = DOMAIN s.ttl.key_index \cup {key}
            /\ idx.key_index[key] = entry.expire_at
            /\ \A k \in DOMAIN s.ttl.key_index : k # key => idx.key_index[k] = s.ttl.key_index[k]
        BY <3>1, <1>5, <1>7, UpsertFacts
      <3> QED BY <3>2 DEF IndexAfterWrite
    <2> QED BY <2>1, <2>2
  <1>10. Writes(m, s, K, V, key, entry, idx)
    BY <1>3, <1>5, <1>8 DEF Writes
  <1> QED BY <1>4, <1>10, WriteFacts

\* Shard::CleanupExpired (shard.h:193-203) leaves the three structures in
\* agreement.
LEMMA ShardCleanupFacts ==
  ASSUME NEW K, NEW V, NEW s, ShardCore(s, K, V), NEW t \in Nat,
         NEW r, r = ShardCleanupExpired(s, t)
  PROVE  Shrunk(r, s, K, V)
  <1>1. PICK X : X = ExpiredKeys(s.ttl, t)
    OBVIOUS
  <1>2. PICK store : store = Restrict(s.store, DOMAIN s.store \ X)
    OBVIOUS
  <1>3. PICK order : order = LruRemoveAll(s.order, X)
    OBVIOUS
  <1>4. PICK ttl : ttl = CollectExpired(s.ttl, t)
    OBVIOUS
  <1>5. r = [store |-> store, order |-> order, ttl |-> ttl]
    BY <1>1, <1>2, <1>3, <1>4 DEF ShardCleanupExpired
  <1>6. /\ s.store \in [DOMAIN s.store -> EntryType(V)] /\ DOMAIN s.store \subseteq K
        /\ \A x : Contains(s.order, x) <=> x \in DOMAIN s.store
        /\ DOMAIN s.ttl.key_index \subseteq DOMAIN s.store
        /\ \A k \in DOMAIN s.store : HasTTL(s.store[k]) =>
               k \in DOMAIN s.ttl.key_index /\ s.ttl.key_index[k] = s.store[k].expire_at
    BY CoreElim
  <1>7. s.order \in Seq(K) /\ IsInjective(s.order)
    BY CoreElim
  <1>8. IndexType(s.ttl, K, Timestamps) /\ IndexConsistent(s.ttl) /\ Timestamps \subseteq Nat
    BY CoreElim, TimeModAssumption DEF Timestamps
  <1>9. /\ DOMAIN store = DOMAIN s.store \ X
        /\ \A y \in DOMAIN store : store[y] = s.store[y]
        /\ store \in [DOMAIN store -> EntryType(V)]
    BY <1>2, <1>6 DEF Restrict
  <1>10. /\ order \in Seq(K) /\ Len(order) <= Len(s.order) /\ IsInjective(order)
         /\ \A x : Contains(order, x) <=> Contains(s.order, x) /\ x \notin X
         /\ KeepsOrder(order, s.order)
    BY <1>3, <1>7, LruRemoveAllFacts
  <1>11. /\ IndexType(ttl, K, Timestamps) /\ IndexConsistent(ttl)
         /\ DOMAIN ttl.key_index = DOMAIN s.ttl.key_index \ X
         /\ \A k \in DOMAIN ttl.key_index : ttl.key_index[k] = s.ttl.key_index[k]
    <2>1. PICK old, T : old = s.ttl /\ T = Timestamps
      OBVIOUS
    <2>2. /\ IndexType(old, K, T) /\ IndexConsistent(old) /\ T \subseteq Nat
          /\ ttl = CollectExpired(old, t) /\ X = ExpiredKeys(old, t)
      BY <1>1, <1>4, <1>8, <2>1
    <2>3. IndexType(ttl, K, T) /\ IndexConsistent(ttl)
      BY <2>2, CollectExpiredFacts
    <2>4. IndexWithout(ttl, old, X)
      BY <2>2, CollectExpiredFacts
    <2> QED BY <2>1, <2>3, <2>4 DEF IndexWithout
  <1>12. ShardCore(r, K, V)
    <2>1. \A x : Contains(order, x) <=> x \in DOMAIN store
      BY <1>6, <1>9, <1>10
    <2>2. DOMAIN ttl.key_index \subseteq DOMAIN store
      BY <1>6, <1>9, <1>11
    <2>3. \A k \in DOMAIN store : HasTTL(store[k]) =>
             k \in DOMAIN ttl.key_index /\ ttl.key_index[k] = store[k].expire_at
      BY <1>6, <1>9, <1>11
    <2>4. DOMAIN store \subseteq K
      BY <1>6, <1>9
    <2> QED BY <1>5, <1>9, <1>10, <1>11, <2>1, <2>2, <2>3, <2>4, CoreIntro
  <1> QED BY <1>5, <1>10, <1>12 DEF Shrunk

\* A hit of Get moves the key to the front and leaves the rest alone: it is
\* the write of the entry that is already there, with the index unchanged.
LEMMA HitFacts ==
  ASSUME NEW K, NEW V, NEW s, ShardOK(s, K, V), NEW key \in DOMAIN s.store,
         NEW r, r = [s EXCEPT !.order = LruTouch(@, key)]
  PROVE  ShardOK(r, K, V) /\ KeyThenOrder(r.order, key, s.order)
  <1>1. ShardCore(s, K, V) /\ Len(s.order) <= Capacity
    BY DEF ShardOK
  <1>2. /\ s = [store |-> s.store, order |-> s.order, ttl |-> s.ttl]
        /\ s.store \in [DOMAIN s.store -> EntryType(V)] /\ DOMAIN s.store \subseteq K
        /\ \A x : Contains(s.order, x) <=> x \in DOMAIN s.store
        /\ IndexType(s.ttl, K, Timestamps) /\ IndexConsistent(s.ttl)
        /\ \A k \in DOMAIN s.store : HasTTL(s.store[k]) =>
               k \in DOMAIN s.ttl.key_index /\ s.ttl.key_index[k] = s.store[k].expire_at
    BY <1>1, CoreElim
  <1>3. PICK entry : entry = s.store[key]
    OBVIOUS
  <1>4. entry \in EntryType(V) /\ key \in K /\ Contains(s.order, key)
    BY <1>2, <1>3
  <1>5. With(s.store, key, entry) = s.store
    BY <1>2, <1>3 DEF With
  <1>6. r = [store |-> With(s.store, key, entry), order |-> LruTouch(s.order, key), ttl |-> s.ttl]
    BY <1>2, <1>5
  <1>7. IndexAfterWrite(s.ttl, s.ttl, key, entry)
    BY <1>2, <1>3 DEF IndexAfterWrite
  <1>8. Writes(r, s, K, V, key, entry, s.ttl)
    BY <1>2, <1>4, <1>6, <1>7 DEF Writes
  <1>9. MidWrite(r, s, K, V, key)
    BY <1>1, <1>4, <1>8, WriteCore
  <1> QED BY <1>1, <1>4, <1>9 DEF MidWrite, ShardOK

-----------------------------------------------------------------------------
(* What the operations of Shard do to the stored entries. *)

\* The recency list of a well-formed shard is as long as its store is large:
\* size of list_ and size of store_ are one number (shard.h:212-215).
LEMMA OrderCounts ==
  ASSUME NEW K, NEW V, NEW s, ShardCore(s, K, V)
  PROVE  /\ IsFiniteSet(DOMAIN s.store)
         /\ Cardinality(DOMAIN s.store) = Len(s.order)
         /\ Len(s.order) \in Nat
  <1>1. PICK o, n, D : o = s.order /\ n = Len(s.order) /\ D = DOMAIN s.store
    OBVIOUS
  <1>2. o \in Seq(K) /\ IsInjective(o) /\ \A x : Contains(o, x) <=> x \in D
    BY <1>1, CoreElim
  <1>3. n \in Nat /\ n = Len(o) /\ DOMAIN o = 1..n
    BY <1>1, <1>2
  <1>4. o \in [1..n -> D]
    <2>1. \A i \in 1..n : o[i] \in D
      BY <1>2, <1>3 DEF Contains
    <2>2. o = [i \in 1..n |-> o[i]]
      BY <1>2, <1>3
    <2> QED BY <2>1, <2>2
  <1>5. \A x \in D : \E i \in 1..n : o[i] = x
    BY <1>2, <1>3 DEF Contains
  <1>6. o \in Bijection(1..n, D)
    BY <1>2, <1>4, <1>5 DEF Bijection, Injection, Surjection
  <1>7. ExistsBijection(1..n, D)
    BY <1>6 DEF ExistsBijection
  <1>8. IsFiniteSet(1..n) /\ Cardinality(1..n) = n
    BY <1>3, CountTo
  <1>9. IsFiniteSet(D) /\ Cardinality(D) = n
    BY <1>7, <1>8, FS_Bijection
  <1> QED BY <1>1, <1>3, <1>9

\* r is the shard s after a write of entry under key with index idx: the keys
\* of lost, one key just when a new key finds the shard full, have left both
\* the store and the index.
WroteStore(r, s, key, entry, idx) ==
    \E lost \in SUBSET (DOMAIN s.store \ {key}) :
        /\ Cardinality(lost) =
             IF key \notin DOMAIN s.store /\ Cardinality(DOMAIN s.store) = Capacity
             THEN 1 ELSE 0
        /\ r.store = [x \in (DOMAIN s.store \cup {key}) \ lost |->
                        IF x = key THEN entry ELSE s.store[x]]
        /\ IndexWithout(r.ttl, idx, lost)

\* A write stores its entry and costs at most one other key, that one only
\* when the key is new and the shard full (shard.h:90-96, 111-119).
LEMMA WriteStoreFacts ==
  ASSUME NEW K, NEW V, NEW s, ShardOK(s, K, V), NEW key \in K, NEW entry, NEW idx,
         NEW m, Writes(m, s, K, V, key, entry, idx),
         NEW r, r = EvictOnOverflow(m, TouchOverflows(s.order, key, Capacity))
  PROVE  WroteStore(r, s, key, entry, idx)
  <1>1. ShardCore(s, K, V) /\ Len(s.order) <= Capacity /\ Capacity \in Nat /\ Capacity # 0
    BY CapacityAssumption DEF ShardOK
  <1>2. /\ Cardinality(DOMAIN s.store) = Len(s.order) /\ Len(s.order) \in Nat
        /\ Contains(s.order, key) <=> key \in DOMAIN s.store
    BY <1>1, OrderCounts, CoreElim
  <1>3. MidWrite(m, s, K, V, key)
    BY <1>1, WriteCore
  <1>4. /\ m.store = [x \in DOMAIN s.store \cup {key} |-> IF x = key THEN entry ELSE s.store[x]]
        /\ m.order = LruTouch(s.order, key)
        /\ m.ttl = idx
    BY DEF Writes, With
  <1>5. TouchOverflows(s.order, key, Capacity)
          <=> key \notin DOMAIN s.store /\ Cardinality(DOMAIN s.store) = Capacity
    BY <1>1, <1>2 DEF TouchOverflows
  <1>6. CASE ~TouchOverflows(s.order, key, Capacity)
    <2>1. r = m
      BY <1>6 DEF EvictOnOverflow
    <2>2. {} \in SUBSET (DOMAIN s.store \ {key}) /\ Cardinality({}) = 0
      BY FS_EmptySet
    <2>3. (DOMAIN s.store \cup {key}) \ {} = DOMAIN s.store \cup {key} /\ IndexWithout(idx, idx, {})
      BY DEF IndexWithout
    <2> QED BY <1>4, <1>5, <1>6, <2>1, <2>2, <2>3 DEF WroteStore
  <1>7. CASE TouchOverflows(s.order, key, Capacity)
    <2>1. PICK v : v = LruVictim(m.order)
      OBVIOUS
    <2>2. /\ ShardCore(m, K, V) /\ DOMAIN m.store = DOMAIN s.store \cup {key}
          /\ m.order \in Seq(K) /\ m.order # <<>> /\ m.order[1] = key
          /\ Len(m.order) = Len(s.order) + 1
      BY <1>2, <1>3, <1>5, <1>7 DEF MidWrite
    <2>3. IsInjective(m.order) /\ \A x : Contains(m.order, x) <=> x \in DOMAIN m.store
      BY <2>2, CoreElim
    <2>4. v = m.order[Len(m.order)] /\ Contains(m.order, v)
      BY <2>1, <2>2, <2>3, LruPopFacts
    <2>5. v # key
      <3>1. PICK o : o = m.order
        OBVIOUS
      <3>2. o \in Seq(K) /\ Len(o) \in Nat /\ o[1] = key /\ Len(o) > 1 /\ IsInjective(o)
        BY <1>1, <1>2, <1>5, <1>7, <2>2, <2>3, <3>1
      <3>3. Len(o) \in DOMAIN o /\ 1 \in DOMAIN o /\ Len(o) # 1
        BY <3>2
      <3>4. o[Len(o)] # key
        BY <3>2, <3>3, Zenon DEF IsInjective
      <3> QED BY <2>4, <3>1, <3>4
    <2>6. v \in DOMAIN s.store
      BY <2>2, <2>3, <2>4, <2>5
    <2>7. PICK i : i = TtlRemove(idx, v)
      OBVIOUS
    <2>8. r.store = Without(m.store, v) /\ r.ttl = i
      BY <1>4, <1>7, <2>1, <2>2, <2>7 DEF EvictOnOverflow, EvictOne
    <2>9. IndexWithout(i, idx, {v})
      <3>1. IndexType(idx, K, Timestamps) /\ IndexConsistent(idx)
        BY DEF Writes
      <3>2. /\ IndexType(i, K, Timestamps) /\ IndexConsistent(i)
            /\ DOMAIN i.key_index = DOMAIN idx.key_index \ {v}
            /\ \A k \in DOMAIN i.key_index : i.key_index[k] = idx.key_index[k]
        BY <2>7, <3>1, TtlRemoveFacts
      <3> QED BY <3>2 DEF IndexWithout
    <2>10. {v} \in SUBSET (DOMAIN s.store \ {key}) /\ Cardinality({v}) = 1
      BY <2>5, <2>6, FS_Singleton
    <2>11. r.store = [x \in (DOMAIN s.store \cup {key}) \ {v} |->
                        IF x = key THEN entry ELSE s.store[x]]
      BY <1>4, <2>8 DEF Without
    <2> QED BY <1>5, <1>7, <2>8, <2>9, <2>10, <2>11 DEF WroteStore
  <1> QED BY <1>6, <1>7

\* Shard::Set stores an entry without a TTL and takes the key out of the index.
LEMMA ShardSetStore ==
  ASSUME NEW K, NEW V, NEW s, ShardOK(s, K, V), NEW key \in K, NEW value \in V,
         NEW r, r = ShardSet(s, key, value)
  PROVE  \E idx : /\ WroteStore(r, s, key, Entry(value, 0, 0), idx)
                  /\ IndexWithout(idx, s.ttl, {key})
  <1>1. PICK entry, idx : entry = Entry(value, 0, 0) /\ idx = TtlRemove(s.ttl, key)
    OBVIOUS
  <1>2. PICK m : m = [store |-> With(s.store, key, entry), order |-> LruTouch(s.order, key), ttl |-> idx]
    OBVIOUS
  <1>3. r = EvictOnOverflow(m, TouchOverflows(s.order, key, Capacity))
    BY <1>1, <1>2 DEF ShardSet
  <1>4. entry \in EntryType(V) /\ ~HasTTL(entry)
    BY <1>1, EntryTyped DEF Entry, HasTTL
  <1>5. IndexType(s.ttl, K, Timestamps) /\ IndexConsistent(s.ttl)
    BY CoreElim DEF ShardOK
  <1>6. /\ IndexType(idx, K, Timestamps) /\ IndexConsistent(idx)
        /\ DOMAIN idx.key_index = DOMAIN s.ttl.key_index \ {key}
        /\ \A k \in DOMAIN idx.key_index : idx.key_index[k] = s.ttl.key_index[k]
    BY <1>1, <1>5, TtlRemoveFacts
  <1>7. Writes(m, s, K, V, key, entry, idx)
    BY <1>2, <1>4, <1>6 DEF Writes, IndexAfterWrite
  <1>8. WroteStore(r, s, key, entry, idx)
    BY <1>3, <1>7, WriteStoreFacts
  <1> QED BY <1>1, <1>6, <1>8 DEF IndexWithout

\* Shard::SetWithTTL stores its entry, and lists the key in the index when the
\* entry has a TTL.
LEMMA ShardSetWithTTLStore ==
  ASSUME NEW K, NEW V, NEW s, ShardOK(s, K, V), NEW key \in K, NEW value \in V,
         NEW ttl_ms \in Nat, NEW t \in Nat,
         NEW r, r = ShardSetWithTTL(s, key, value, ttl_ms, t)
  PROVE  \E idx : /\ WroteStore(r, s, key, Entry(value, t, ttl_ms), idx)
                  /\ IndexAfterWrite(idx, s.ttl, key, Entry(value, t, ttl_ms))
                  /\ ~HasTTL(Entry(value, t, ttl_ms)) => idx = s.ttl
  <1>1. PICK entry : entry = Entry(value, t, ttl_ms)
    OBVIOUS
  <1>2. PICK idx : idx = IF HasTTL(entry) THEN Upsert(s.ttl, key, entry.expire_at) ELSE s.ttl
    OBVIOUS
  <1>3. PICK m : m = [store |-> With(s.store, key, entry), order |-> LruTouch(s.order, key), ttl |-> idx]
    OBVIOUS
  <1>4. r = EvictOnOverflow(m, TouchOverflows(s.order, key, Capacity))
    BY <1>1, <1>2, <1>3 DEF ShardSetWithTTL
  <1>5. entry \in EntryType(V) /\ entry.expire_at \in Timestamps
    <2>1. entry \in EntryType(V)
      BY <1>1, EntryTyped
    <2> QED BY <2>1 DEF EntryType
  <1>6. IndexType(s.ttl, K, Timestamps) /\ IndexConsistent(s.ttl)
    BY CoreElim DEF ShardOK
  <1>7. IndexType(idx, K, Timestamps) /\ IndexConsistent(idx) /\ IndexAfterWrite(idx, s.ttl, key, entry)
    <2>1. CASE ~HasTTL(entry)
      BY <2>1, <1>2, <1>6 DEF IndexAfterWrite
    <2>2. CASE HasTTL(entry)
      <3>1. idx = Upsert(s.ttl, key, entry.expire_at)
        BY <2>2, <1>2
      <3>2. /\ IndexType(idx, K, Timestamps) /\ IndexConsistent(idx)
            /\ DOMAIN idx.key_index = DOMAIN s.ttl.key_index \cup {key}
            /\ idx.key_index[key] = entry.expire_at
            /\ \A k \in DOMAIN s.ttl.key_index : k # key => idx.key_index[k] = s.ttl.key_index[k]
        BY <3>1, <1>5, <1>6, UpsertFacts
      <3> QED BY <3>2 DEF IndexAfterWrite
    <2> QED BY <2>1, <2>2
  <1>8. Writes(m, s, K, V, key, entry, idx)
    BY <1>3, <1>5, <1>7 DEF Writes
  <1>9. WroteStore(r, s, key, entry, idx)
    BY <1>4, <1>8, WriteStoreFacts
  <1> QED BY <1>1, <1>2, <1>7, <1>9

\* Shard::RemoveInternal takes the key out of the store and out of the index.
LEMMA RemoveInternalStore ==
  ASSUME NEW K, NEW V, NEW s, ShardCore(s, K, V), NEW key,
         NEW r, r = RemoveInternal(s, key)
  PROVE  /\ r.store = [x \in DOMAIN s.store \ {key} |-> s.store[x]]
         /\ IndexWithout(r.ttl, s.ttl, {key})
  <1>1. PICK idx : idx = TtlRemove(s.ttl, key)
    OBVIOUS
  <1>2. IndexType(s.ttl, K, Timestamps) /\ IndexConsistent(s.ttl)
    BY CoreElim
  <1>3. IndexWithout(idx, s.ttl, {key})
    <2>1. /\ IndexType(idx, K, Timestamps) /\ IndexConsistent(idx)
          /\ DOMAIN idx.key_index = DOMAIN s.ttl.key_index \ {key}
          /\ \A k \in DOMAIN idx.key_index : idx.key_index[k] = s.ttl.key_index[k]
      BY <1>1, <1>2, TtlRemoveFacts
    <2> QED BY <2>1 DEF IndexWithout
  <1> QED BY <1>1, <1>3 DEF RemoveInternal, Without

\* Every key of the index has an entry with a TTL: what makes the index, and so
\* CleanupExpired, exact.
IndexedHaveTTL(s) == \A k \in DOMAIN s.ttl.key_index : HasTTL(s.store[k])

\* Shard::CleanupExpired (shard.h:193-203) takes out the keys the index lists at
\* a time that has come: the entries past their time, and left-over keys.
LEMMA ShardSweepStore ==
  ASSUME NEW K, NEW V, NEW s, ShardCore(s, K, V), NEW t \in Nat,
         NEW r, r = ShardCleanupExpired(s, t)
  PROVE  \E X : /\ r.store = [x \in DOMAIN s.store \ X |-> s.store[x]]
                /\ IndexWithout(r.ttl, s.ttl, X)
                /\ \A k \in DOMAIN s.store :
                      k \in X <=> \/ IsExpired(s.store[k], t)
                                  \/ k \in DOMAIN LeftOver(s) /\ LeftOver(s)[k] <= t
  <1>1. PICK X, idx, ki, T : /\ X = ExpiredKeys(s.ttl, t) /\ idx = CollectExpired(s.ttl, t)
                             /\ ki = s.ttl.key_index /\ T = Timestamps
    OBVIOUS
  <1>2. r.store = [x \in DOMAIN s.store \ X |-> s.store[x]] /\ r.ttl = idx
    BY <1>1 DEF ShardCleanupExpired, Restrict
  <1>3. /\ DOMAIN ki \subseteq DOMAIN s.store
        /\ \A k \in DOMAIN s.store : HasTTL(s.store[k]) => k \in DOMAIN ki /\ ki[k] = s.store[k].expire_at
    BY <1>1, CoreElim
  <1>4. IndexType(s.ttl, K, T) /\ IndexConsistent(s.ttl) /\ T \subseteq Nat
    BY <1>1, CoreElim, TimeModAssumption DEF Timestamps
  <1>5. \A k : k \in X <=> k \in DOMAIN ki /\ ki[k] <= t
    BY <1>1, <1>4, CollectExpiredFacts
  <1>6. IndexWithout(idx, s.ttl, X)
    BY <1>1, <1>4, CollectExpiredFacts
  <1>7. \A k : /\ k \in DOMAIN LeftOver(s) <=> k \in DOMAIN ki /\ ~HasTTL(s.store[k])
               /\ k \in DOMAIN LeftOver(s) => LeftOver(s)[k] = ki[k]
    BY <1>1 DEF LeftOver
  <1>8. \A k \in DOMAIN s.store : HasTTL(s.store[k]) => (IsExpired(s.store[k], t) <=> ki[k] <= t)
    BY <1>3 DEF IsExpired
  <1>9. \A k \in DOMAIN s.store : ~HasTTL(s.store[k]) => ~IsExpired(s.store[k], t)
    BY DEF IsExpired
  <1>10. \A k \in DOMAIN s.store :
            k \in X <=> IsExpired(s.store[k], t) \/ (k \in DOMAIN LeftOver(s) /\ LeftOver(s)[k] <= t)
    BY <1>3, <1>5, <1>7, <1>8, <1>9
  <1> QED BY <1>2, <1>6, <1>10

\* With an exact index Shard::CleanupExpired (shard.h:193-203) takes out the
\* entries that are past their time and no others, and stays exact.
LEMMA ShardCleanupStore ==
  ASSUME NEW K, NEW V, NEW s, ShardCore(s, K, V), IndexedHaveTTL(s), NEW t \in Nat,
         NEW r, r = ShardCleanupExpired(s, t)
  PROVE  /\ r.store = [x \in {k \in DOMAIN s.store : ~IsExpired(s.store[k], t)} |-> s.store[x]]
         /\ IndexedHaveTTL(r)
  <1>1. PICK X, idx, ki, T : /\ X = ExpiredKeys(s.ttl, t) /\ idx = CollectExpired(s.ttl, t)
                             /\ ki = s.ttl.key_index /\ T = Timestamps
    OBVIOUS
  <1>2. r.store = [x \in DOMAIN s.store \ X |-> s.store[x]] /\ r.ttl = idx
    BY <1>1 DEF ShardCleanupExpired, Restrict
  <1>3. /\ DOMAIN ki \subseteq DOMAIN s.store
        /\ \A k \in DOMAIN s.store : HasTTL(s.store[k]) => k \in DOMAIN ki /\ ki[k] = s.store[k].expire_at
    BY <1>1, CoreElim
  <1>4. IndexType(s.ttl, K, T) /\ IndexConsistent(s.ttl) /\ T \subseteq Nat
    BY <1>1, CoreElim, TimeModAssumption DEF Timestamps
  <1>5. \A k : k \in X <=> k \in DOMAIN ki /\ ki[k] <= t
    BY <1>1, <1>4, CollectExpiredFacts
  <1>6. DOMAIN idx.key_index = DOMAIN ki \ X
    <2>1. IndexWithout(idx, s.ttl, X)
      BY <1>1, <1>4, CollectExpiredFacts
    <2> QED BY <1>1, <2>1 DEF IndexWithout
  <1>7. \A k \in DOMAIN ki : HasTTL(s.store[k])
    BY <1>1 DEF IndexedHaveTTL
  <1>8. \A k \in DOMAIN s.store : k \in X <=> IsExpired(s.store[k], t)
    BY <1>3, <1>5, <1>7 DEF IsExpired
  <1>9. DOMAIN s.store \ X = {k \in DOMAIN s.store : ~IsExpired(s.store[k], t)}
    BY <1>8
  <1>10. IndexedHaveTTL(r)
    BY <1>2, <1>3, <1>6, <1>7 DEF IndexedHaveTTL
  <1> QED BY <1>2, <1>9, <1>10

\* A write keeps the index exact when it either gives its key a TTL or takes
\* the key out of the index.
LEMMA WriteKeepsExact ==
  ASSUME NEW s, NEW r, NEW key, NEW entry, NEW idx, IndexedHaveTTL(s),
         DOMAIN s.ttl.key_index \subseteq DOMAIN s.store,
         WroteStore(r, s, key, entry, idx),
         DOMAIN idx.key_index \subseteq DOMAIN s.ttl.key_index \cup {key},
         HasTTL(entry) \/ key \notin DOMAIN idx.key_index
  PROVE  IndexedHaveTTL(r)
  <1>1. PICK lost \in SUBSET (DOMAIN s.store \ {key}) :
           /\ r.store = [x \in (DOMAIN s.store \cup {key}) \ lost |->
                           IF x = key THEN entry ELSE s.store[x]]
           /\ DOMAIN r.ttl.key_index = DOMAIN idx.key_index \ lost
    BY DEF WroteStore, IndexWithout
  <1>2. SUFFICES ASSUME NEW k \in DOMAIN r.ttl.key_index PROVE HasTTL(r.store[k])
    BY DEF IndexedHaveTTL
  <1>3. CASE k = key
    BY <1>1, <1>3
  <1>4. CASE k # key
    BY <1>1, <1>4 DEF IndexedHaveTTL
  <1> QED BY <1>3, <1>4
=============================================================================
