---------------------------- MODULE ShardProofs ----------------------------
(***************************************************************************)
(* Proofs about Shard, for every set of keys, values and TTLs, every       *)
(* capacity and every width of the clock.                                  *)
(*                                                                         *)
(* The inductive invariant is ShardOK: the shape of the three structures   *)
(* and their agreement.  None of its parts is inductive alone: the store   *)
(* and the recency list must agree for EvictOne to erase a stored key, and *)
(* the index must be consistent and cover the store for Remove, Upsert and *)
(* CollectExpired to leave it so.                                          *)
(***************************************************************************)
EXTENDS Shard, ShardLemmas

-----------------------------------------------------------------------------
(* Recency *)

\* The list runs from the latest use to the earliest, in the sense of the
\* history ua.
Recent(order, ua) ==
    \A i, j \in 1..Len(order) : i < j => order[i] \in ua[order[j]]

\* A list that keeps the order of s is sorted by recency when s is.
LEMMA KeepsRecent ==
  ASSUME NEW s, NEW r, NEW ua, KeepsOrder(r, s), Recent(s, ua)
  PROVE  Recent(r, ua)
  BY DEF KeepsOrder, Recent

\* Touching a key keeps the list sorted by the history that records the touch.
LEMMA TouchKeepsRecent ==
  ASSUME NEW K, NEW s, NEW t \in Seq(K), NEW key, NEW ua \in [K -> SUBSET K],
         KeyThenOrder(t, key, s), Recent(s, ua),
         NEW ub, ub = [x \in K |-> IF x = key THEN {} ELSE ua[x] \cup {key}]
  PROVE  Recent(t, ub)
  <1> SUFFICES ASSUME NEW i \in 1..Len(t), NEW j \in 1..Len(t), i < j
               PROVE  t[i] \in ub[t[j]]
    BY DEF Recent
  <1>1. t[i] \in K /\ t[j] \in K
    OBVIOUS
  <1>2. t[j] # key
    BY DEF KeyThenOrder
  <1>3. ub[t[j]] = ua[t[j]] \cup {key}
    BY <1>1, <1>2
  <1>4. t[i] = key \/ \E a, b \in 1..Len(s) : a < b /\ s[a] = t[i] /\ s[b] = t[j]
    BY DEF KeyThenOrder
  <1>5. t[i] = key \/ t[i] \in ua[t[j]]
    BY <1>4 DEF Recent
  <1> QED BY <1>3, <1>5

-----------------------------------------------------------------------------
(***************************************************************************)
(* The inductive invariant of Shard, and the theorems.                     *)
(***************************************************************************)

\* The inductive invariant: a well-formed shard whose recency list is sorted
\* by the history of uses.
IInv ==
    /\ ShardOK(sh, Keys, Values)
    /\ now \in Times
    /\ usedAfter \in [Keys -> SUBSET Keys]
    /\ Recent(sh.order, usedAfter)

\* The times a run passes through are naturals.
LEMMA TimesAreNat == Times \subseteq Nat
  BY DEF Times

\* Every ttl_ms is a natural, as a std::uint64_t is.
LEMMA TTLsAreNat == TTLs \subseteq Nat
  BY TTLsAssumption, TimeModAssumption DEF Timestamps

\* A new shard satisfies the invariant.
LEMMA InitIInv == Init => IInv
  <1> SUFFICES ASSUME Init PROVE IInv
    OBVIOUS
  <1>1. sh = EmptyShard /\ now \in Times /\ usedAfter = [x \in Keys |-> {}]
    BY DEF Init
  <1>2. ShardOK(sh, Keys, Values)
    BY <1>1, EmptyShardOK
  <1>3. Recent(sh.order, usedAfter)
    BY <1>1 DEF EmptyShard, Recent
  <1>4. usedAfter \in [Keys -> SUBSET Keys]
    BY <1>1
  <1> QED BY <1>1, <1>2, <1>3, <1>4 DEF IInv

\* What each kind of step does to the invariant: a write, a hit of Get, a
\* removal.
LEMMA WriteStep ==
  ASSUME IInv, NEW key \in Keys, Written(sh', sh, Keys, Values, key), Use(key), now' \in Times
  PROVE  IInv'
  <1>1. PICK m : /\ MidWrite(m, sh, Keys, Values, key)
                 /\ KeepsOrder(sh'.order, m.order)
    BY DEF Written
  <1>2. /\ usedAfter \in [Keys -> SUBSET Keys] /\ Recent(sh.order, usedAfter)
    BY DEF IInv
  <1>3. usedAfter' = [x \in Keys |-> IF x = key THEN {} ELSE usedAfter[x] \cup {key}]
    BY DEF Use
  <1>4. m.order \in Seq(Keys) /\ KeyThenOrder(m.order, key, sh.order)
    BY <1>1 DEF MidWrite
  <1>5. Recent(m.order, usedAfter')
    BY <1>2, <1>3, <1>4, TouchKeepsRecent
  <1>6. Recent(sh'.order, usedAfter')
    BY <1>1, <1>5, KeepsRecent
  <1>7. ShardOK(sh', Keys, Values)
    BY DEF Written
  <1>8. usedAfter' \in [Keys -> SUBSET Keys]
    BY <1>2, <1>3
  <1> QED BY <1>6, <1>7, <1>8 DEF IInv

\* A Get that hits (shard.h:144) preserves the invariant.
LEMMA HitStep ==
  ASSUME IInv, NEW key \in DOMAIN sh.store, sh' = [sh EXCEPT !.order = LruTouch(@, key)],
         Use(key), now' \in Times
  PROVE  IInv'
  <1>1. /\ ShardOK(sh, Keys, Values)
        /\ usedAfter \in [Keys -> SUBSET Keys] /\ Recent(sh.order, usedAfter)
    BY DEF IInv
  <1>2. ShardOK(sh', Keys, Values) /\ KeyThenOrder(sh'.order, key, sh.order)
    BY <1>1, HitFacts
  <1>3. usedAfter' = [x \in Keys |-> IF x = key THEN {} ELSE usedAfter[x] \cup {key}]
    BY DEF Use
  <1>4. sh'.order \in Seq(Keys)
    BY <1>2, CoreElim DEF ShardOK
  <1>5. Recent(sh'.order, usedAfter')
    BY <1>1, <1>2, <1>3, <1>4, TouchKeepsRecent
  <1>6. key \in Keys
    BY <1>1, CoreElim DEF ShardOK
  <1>7. usedAfter' \in [Keys -> SUBSET Keys]
    BY <1>1, <1>3, <1>6
  <1> QED BY <1>2, <1>5, <1>7 DEF IInv

\* A removal (Delete, a Get that expires its key, CleanupExpired) preserves
\* the invariant.
LEMMA ShrinkStep ==
  ASSUME IInv, Shrunk(sh', sh, Keys, Values), usedAfter' = usedAfter, now' \in Times
  PROVE  IInv'
  <1>1. /\ ShardOK(sh, Keys, Values)
        /\ usedAfter \in [Keys -> SUBSET Keys] /\ Recent(sh.order, usedAfter)
    BY DEF IInv
  <1>2. ShardCore(sh', Keys, Values) /\ Len(sh'.order) <= Len(sh.order) /\ KeepsOrder(sh'.order, sh.order)
    BY DEF Shrunk
  <1>3. Recent(sh'.order, usedAfter')
    BY <1>1, <1>2, KeepsRecent
  <1>4. Len(sh'.order) \in Nat /\ Len(sh.order) \in Nat /\ Len(sh.order) <= Capacity
    BY <1>1, <1>2, CoreElim, CapacityAssumption DEF ShardOK
  <1>5. ShardOK(sh', Keys, Values)
    BY <1>2, <1>4, CapacityAssumption DEF ShardOK
  <1> QED BY <1>1, <1>3, <1>5 DEF IInv

\* Every operation of Shard preserves the invariant.
LEMMA NextIInv == IInv /\ [Next]_vars => IInv'
  <1> SUFFICES ASSUME IInv, [Next]_vars PROVE IInv'
    OBVIOUS
  <1>0. ShardOK(sh, Keys, Values) /\ ShardCore(sh, Keys, Values) /\ now \in Times /\ now \in Nat
    BY TimesAreNat DEF IInv, ShardOK
  <1>1. ASSUME NEW k \in Keys, NEW v \in Values, Set(k, v) PROVE IInv'
    <2>1. sh' = ShardSet(sh, k, v) /\ Use(k) /\ now' = now
      BY <1>1 DEF Set
    <2>2. Written(sh', sh, Keys, Values, k)
      BY <1>0, <2>1, ShardSetFacts
    <2> QED BY <1>0, <2>1, <2>2, WriteStep
  <1>2. ASSUME NEW k \in Keys, NEW v \in Values, NEW ttl_ms \in TTLs, SetWithTTL(k, v, ttl_ms)
        PROVE  IInv'
    <2>1. sh' = ShardSetWithTTL(sh, k, v, ttl_ms, now) /\ Use(k) /\ now' = now
      BY <1>2 DEF SetWithTTL
    <2>2. ttl_ms \in Nat
      BY TTLsAreNat
    <2>3. Written(sh', sh, Keys, Values, k)
      BY <1>0, <2>1, <2>2, ShardSetWithTTLFacts
    <2> QED BY <1>0, <2>1, <2>3, WriteStep
  <1>3. ASSUME NEW k \in Keys, Get(k) PROVE IInv'
    <2>1. sh' = ShardGet(sh, k, now) /\ now' = now
      BY <1>3 DEF Get
    <2>2. CASE ShardHit(sh, k, now)
      <3>1. sh' = [sh EXCEPT !.order = LruTouch(@, k)] /\ Use(k) /\ k \in DOMAIN sh.store
        BY <1>3, <2>1, <2>2 DEF Get, ShardGet, ShardHit
      <3> QED BY <1>0, <2>1, <3>1, HitStep
    <2>3. CASE ~ShardHit(sh, k, now) /\ k \in DOMAIN sh.store
      <3>1. sh' = RemoveInternal(sh, k) /\ usedAfter' = usedAfter
        BY <1>3, <2>1, <2>3 DEF Get, ShardGet
      <3>2. Shrunk(sh', sh, Keys, Values)
        BY <1>0, <3>1, RemoveInternalFacts
      <3> QED BY <1>0, <2>1, <3>1, <3>2, ShrinkStep
    <2>4. CASE ~ShardHit(sh, k, now) /\ k \notin DOMAIN sh.store
      <3>1. sh' = sh /\ usedAfter' = usedAfter
        BY <1>3, <2>1, <2>4 DEF Get, ShardGet
      <3> QED BY <2>1, <3>1 DEF IInv
    <2> QED BY <2>2, <2>3, <2>4
  <1>4. ASSUME NEW k \in Keys, Delete(k) PROVE IInv'
    <2>1. sh' = RemoveInternal(sh, k) /\ usedAfter' = usedAfter /\ now' = now
      BY <1>4 DEF Delete, ShardDelete
    <2>2. Shrunk(sh', sh, Keys, Values)
      BY <1>0, <2>1, RemoveInternalFacts
    <2> QED BY <1>0, <2>1, <2>2, ShrinkStep
  <1>5. CASE GetAllKeys \/ Size
    <2>1. sh' = sh /\ usedAfter' = usedAfter /\ now' \in Times
      BY <1>0, <1>5 DEF GetAllKeys, Size
    <2> QED BY <2>1 DEF IInv
  <1>6. ASSUME NEW t \in Times, CleanupExpired(t) PROVE IInv'
    <2>1. sh' = ShardCleanupExpired(sh, t) /\ usedAfter' = usedAfter /\ now' = now
      BY <1>6 DEF CleanupExpired
    <2>2. t \in Nat
      BY TimesAreNat
    <2>3. Shrunk(sh', sh, Keys, Values)
      BY <1>0, <2>1, <2>2, ShardCleanupFacts
    <2> QED BY <1>0, <2>1, <2>3, ShrinkStep
  <1>7. CASE ClockMoves
    BY <1>7 DEF ClockMoves, IInv
  <1>8. CASE UNCHANGED vars
    BY <1>8 DEF vars, IInv
  <1> QED BY <1>1, <1>2, <1>3, <1>4, <1>5, <1>6, <1>7, <1>8 DEF Next

\* The invariant holds in every state of every behaviour of a shard.
THEOREM Inductive == Spec => []IInv
  BY InitIInv, NextIInv, PTL DEF Spec

\* The state of shard.h has the types its declarations give it.
THEOREM TypeCorrect == Spec => []TypeOK
  <1>1. IInv => TypeOK
    BY DEF IInv, ShardOK, ShardCore, TypeOK
  <1> QED BY <1>1, Inductive, PTL

\* The recency list holds exactly the keys of the store, each once, and never
\* more than the capacity, after any sequence of operations (shard.h:84-203).
THEOREM TrackedAndBounded == Spec => []StoreIsTrackedAndBounded
  <1>1. IInv => StoreIsTrackedAndBounded
    BY DEF IInv, ShardOK, ShardCore, StoreIsTrackedAndBounded
  <1> QED BY <1>1, Inductive, PTL

\* The TTL index of a shard is consistent, lists stored keys only, and lists
\* every entry that has a TTL at the time the entry itself expires.
THEOREM IndexInStep == Spec => []IndexTracksStore
  <1>1. IInv => IndexTracksStore
    BY DEF IInv, ShardOK, ShardCore, IndexTracksStore
  <1> QED BY <1>1, Inductive, PTL

\* The recency list of a shard orders its keys by their last Set or Get.
THEOREM RecencyOrder == Spec => []OrderIsRecency
  <1>1. IInv => OrderIsRecency
    BY DEF IInv, Recent, OrderIsRecency
  <1> QED BY <1>1, Inductive, PTL

\* The key a write pushes out is the last of the recency list, behind every
\* key that stays.
LEMMA WriteEvictsLast ==
  ASSUME IInv, NEW key \in Keys, Written(sh', sh, Keys, Values, key), Use(key),
         NEW k \in DOMAIN sh.store \ DOMAIN sh'.store
  PROVE  DOMAIN sh'.store \subseteq usedAfter'[k]
  <1>1. PICK m : /\ MidWrite(m, sh, Keys, Values, key)
                 /\ \/ sh' = m
                    \/ /\ m.order[Len(m.order)] # key
                       /\ sh'.store = Without(m.store, m.order[Len(m.order)])
    BY DEF Written
  <1>2. /\ ShardCore(m, Keys, Values) /\ DOMAIN m.store = DOMAIN sh.store \cup {key}
        /\ m.order \in Seq(Keys) /\ KeyThenOrder(m.order, key, sh.order)
    BY <1>1 DEF MidWrite
  <1>3. PICK o, n : o = m.order /\ n = Len(o)
    OBVIOUS
  <1>4. o[n] # key /\ DOMAIN sh'.store = DOMAIN m.store \ {o[n]}
    <2>1. sh' # m
      BY <1>2
    <2> QED BY <1>1, <1>3, <2>1 DEF Without
  <1>5. k = o[n]
    BY <1>2, <1>4
  <1>6. Recent(o, usedAfter')
    <2>1. /\ usedAfter \in [Keys -> SUBSET Keys] /\ Recent(sh.order, usedAfter)
      BY DEF IInv
    <2>2. usedAfter' = [x \in Keys |-> IF x = key THEN {} ELSE usedAfter[x] \cup {key}]
      BY DEF Use
    <2> QED BY <1>2, <1>3, <2>1, <2>2, TouchKeepsRecent
  <1>7. ASSUME NEW y \in DOMAIN sh'.store PROVE y \in usedAfter'[k]
    <2>1. Contains(o, y) /\ y # o[n]
      BY <1>2, <1>3, <1>4, CoreElim
    <2>2. PICK i \in 1..Len(o) : o[i] = y
      BY <2>1 DEF Contains
    <2>3. o \in Seq(Keys) /\ n = Len(o) /\ i # n
      BY <1>2, <1>3, <2>1, <2>2
    <2>4. n \in 1..Len(o) /\ i < n
      BY <2>2, <2>3
    <2> QED BY <1>5, <1>6, <2>2, <2>4 DEF Recent
  <1> QED BY <1>7

\* The key written is stored when the write is over, whatever it pushed out.
LEMMA WriteKeepsItsKey ==
  ASSUME NEW key \in Keys, Written(sh', sh, Keys, Values, key)
  PROVE  key \in DOMAIN sh'.store
  <1>1. PICK m : /\ MidWrite(m, sh, Keys, Values, key)
                 /\ \/ sh' = m
                    \/ /\ m.order[Len(m.order)] # key
                       /\ sh'.store = Without(m.store, m.order[Len(m.order)])
    BY DEF Written
  <1>2. key \in DOMAIN m.store
    BY <1>1 DEF MidWrite
  <1> QED BY <1>1, <1>2 DEF Without

\* Every write evicts a least recently used key, never the one it wrote: for
\* every capacity and every number of keys (shard.h:55-65, 90-96, 111-119).
THEOREM EvictsLeastRecentlyUsed == Spec => VictimIsLeastRecentlyUsed
  <1> DEFINE A == last'.op \in {"Set", "SetWithTTL"} /\ now' = now =>
                    /\ last'.key \in DOMAIN sh'.store
                    /\ \A k \in DOMAIN sh.store \ DOMAIN sh'.store :
                          DOMAIN sh'.store \subseteq usedAfter'[k]
  <1>1. ASSUME IInv, Next, vars' # vars PROVE A
    <2>0. ShardOK(sh, Keys, Values) /\ now \in Nat
      BY <1>1, TimesAreNat DEF IInv
    <2>1. ASSUME NEW k \in Keys, NEW v \in Values, Set(k, v) PROVE A
      <3>1. sh' = ShardSet(sh, k, v) /\ Use(k) /\ last'.key = k
        BY <2>1 DEF Set
      <3>2. Written(sh', sh, Keys, Values, k)
        BY <2>0, <3>1, ShardSetFacts
      <3> QED BY <1>1, <3>1, <3>2, WriteEvictsLast, WriteKeepsItsKey
    <2>2. ASSUME NEW k \in Keys, NEW v \in Values, NEW ttl_ms \in TTLs, SetWithTTL(k, v, ttl_ms)
          PROVE  A
      <3>1. sh' = ShardSetWithTTL(sh, k, v, ttl_ms, now) /\ Use(k) /\ last'.key = k
        BY <2>2 DEF SetWithTTL
      <3>2. ttl_ms \in Nat
        BY TTLsAreNat
      <3>3. Written(sh', sh, Keys, Values, k)
        BY <2>0, <3>1, <3>2, ShardSetWithTTLFacts
      <3> QED BY <1>1, <3>1, <3>3, WriteEvictsLast, WriteKeepsItsKey
    <2>3. ASSUME NEW k \in Keys, Get(k) \/ Delete(k) PROVE A
      BY <2>3 DEF Get, Delete
    <2>4. ASSUME NEW t \in Times, CleanupExpired(t) PROVE A
      BY <2>4 DEF CleanupExpired
    <2>5. CASE GetAllKeys \/ Size
      BY <2>5 DEF GetAllKeys, Size
    <2>6. CASE ClockMoves
      BY <1>1, <2>6 DEF ClockMoves, vars
    <2> QED BY <1>1, <2>1, <2>2, <2>3, <2>4, <2>5, <2>6 DEF Next
  <1>2. IInv /\ [Next]_vars => [A]_vars
    BY <1>1
  <1> QED BY <1>2, Inductive, PTL DEF Spec, VictimIsLeastRecentlyUsed

-----------------------------------------------------------------------------
(***************************************************************************)
(* Expiry, for every 64-bit ttl_ms: TTLs of 0 and sums that wrap included. *)
(***************************************************************************)

\* A sweep removes every entry that is past its time, and beyond those only the
\* keys that a SetWithTTL without expiry left in the index, for any number of
\* keys and any mix of TTLs (shard.h:193-203).
THEOREM SweepIsExact == Spec => CleanupTakesExactlyTheExpired
  <1> DEFINE A == \A t \in Times : CleanupExpired(t) =>
                    \A k \in DOMAIN sh.store :
                       k \notin DOMAIN sh'.store <=>
                          \/ IsExpired(sh.store[k], t)
                          \/ k \in DOMAIN LeftOver(sh) /\ LeftOver(sh)[k] <= t
  <1>1. IInv => A
    <2> SUFFICES ASSUME IInv, NEW t \in Times, CleanupExpired(t), NEW k \in DOMAIN sh.store
                 PROVE  k \notin DOMAIN sh'.store <=>
                          \/ IsExpired(sh.store[k], t)
                          \/ k \in DOMAIN LeftOver(sh) /\ LeftOver(sh)[k] <= t
      OBVIOUS
    <2>1. sh' = ShardCleanupExpired(sh, t) /\ t \in Nat /\ ShardCore(sh, Keys, Values)
      BY TimesAreNat DEF CleanupExpired, IInv, ShardOK
    <2>2. PICK X : /\ sh'.store = [x \in DOMAIN sh.store \ X |-> sh.store[x]]
                   /\ \A x \in DOMAIN sh.store :
                         x \in X <=> \/ IsExpired(sh.store[x], t)
                                     \/ x \in DOMAIN LeftOver(sh) /\ LeftOver(sh)[x] <= t
      BY <2>1, ShardSweepStore
    <2> QED BY <2>2
  <1>2. IInv /\ [Next]_vars => [A]_vars
    BY <1>1
  <1> QED BY <1>2, Inductive, PTL DEF Spec, CleanupTakesExactlyTheExpired

\* The entry SetWithTTL creates (entry.h:50-53) is live at its creation unless
\* the sum that gives its expiry time wraps to a time after 0.
LEMMA EntryIsLive ==
  ASSUME NEW value, NEW ttl_ms \in TTLs, NEW t \in Times
  PROVE  IsExpired(Entry(value, t, ttl_ms), t) <=> t + ttl_ms > TimeMod
  <1>1. ttl_ms \in Nat /\ ttl_ms < TimeMod /\ TimeMod \in Nat /\ TimeMod # 0
    BY TTLsAssumption, TimeModAssumption DEF Timestamps
  <1>2. t \in Nat /\ t >= 1 /\ t < TimeMod
    BY ClockAssumption, <1>1 DEF Times
  <1>3. PICK e : e = Entry(value, t, ttl_ms).expire_at
    OBVIOUS
  <1>4. IsExpired(Entry(value, t, ttl_ms), t) <=> e # 0 /\ t >= e
    BY <1>3 DEF IsExpired, HasTTL, NoExpiry
  <1>5. CASE ttl_ms = 0
    BY <1>1, <1>2, <1>3, <1>4, <1>5 DEF Entry, NoExpiry
  <1>6. CASE ttl_ms # 0 /\ t + ttl_ms < TimeMod
    <2>1. (t + ttl_ms) % TimeMod = t + ttl_ms
      BY <1>1, <1>2, <1>6
    <2> QED BY <1>1, <1>2, <1>3, <1>4, <1>6, <2>1 DEF Entry
  <1>7. CASE ttl_ms # 0 /\ t + ttl_ms >= TimeMod
    <2>1. (t + ttl_ms) % TimeMod = t + ttl_ms - TimeMod
      BY <1>1, <1>2, <1>7
    <2>2. e = t + ttl_ms - TimeMod
      BY <1>3, <1>7, <2>1 DEF Entry
    <2> QED BY <1>1, <1>2, <1>4, <1>7, <2>2
  <1> QED BY <1>1, <1>2, <1>5, <1>6, <1>7

\* A key that SetWithTTL has just written is stored and live, whatever was
\* evicted for it, for every TTL whose sum with the clock does not overflow; the
\* ones whose sum does are born expired (shard.h:106-119, entry.h:50-53).
THEOREM NewEntriesAreLive == Spec => FreshEntryIsLive
  <1> DEFINE A == \A k \in Keys, v \in Values, ttl_ms \in TTLs : SetWithTTL(k, v, ttl_ms) =>
                    (ShardHit(sh', k, now) <=> now + ttl_ms <= TimeMod)
  <1>1. IInv => A
    <2> SUFFICES ASSUME IInv, NEW k \in Keys, NEW v \in Values, NEW ttl_ms \in TTLs,
                        SetWithTTL(k, v, ttl_ms)
                 PROVE  ShardHit(sh', k, now) <=> now + ttl_ms <= TimeMod
      OBVIOUS
    <2>1. sh' = ShardSetWithTTL(sh, k, v, ttl_ms, now)
      BY DEF SetWithTTL
    <2>2. ttl_ms \in Nat /\ now \in Nat /\ now \in Times /\ ShardOK(sh, Keys, Values)
      BY TTLsAreNat, TimesAreNat DEF IInv
    <2>3. PICK idx : WroteStore(sh', sh, k, Entry(v, now, ttl_ms), idx)
      BY <2>1, <2>2, ShardSetWithTTLStore
    <2>4. k \in DOMAIN sh'.store /\ sh'.store[k] = Entry(v, now, ttl_ms)
      BY <2>3 DEF WroteStore
    <2>5. IsExpired(Entry(v, now, ttl_ms), now) <=> now + ttl_ms > TimeMod
      BY <2>2, EntryIsLive
    <2> QED BY <2>2, <2>4, <2>5, TimeModAssumption DEF ShardHit
  <1>2. IInv /\ [Next]_vars => [A]_vars
    BY <1>1
  <1> QED BY <1>2, Inductive, PTL DEF Spec, FreshEntryIsLive

-----------------------------------------------------------------------------
(***************************************************************************)
(* The refinement: sh.store is the map of ExpiringCache, last its answer.  *)
(***************************************************************************)

\* The abstract cache counts with the same Cardinality.
LEMMA SameCardinality == \A S : Cache!Cardinality(S) = Cardinality(S)
  BY Zenon DEF Cardinality, Cache!Cardinality, IsFiniteSet, Cache!IsFiniteSet

\* A write is the Put of the abstract cache: it loses a key just when the
\* cache does, and leaves in the index what the cache leaves scheduled.
LEMMA WriteIsPut ==
  ASSUME NEW op, NEW k \in Keys, NEW v, NEW expire_at, NEW idx, NEW entry,
         ShardCore(sh, Keys, Values),
         entry = [value |-> v, expire_at |-> expire_at],
         WroteStore(sh', sh, k, entry, idx),
         IndexAfterWrite(idx, sh.ttl, k, entry),
         k \in DOMAIN idx.key_index /\ ~HasTTL(entry)
           <=> op = "SetWithTTL" /\ expire_at = 0 /\ k \in DOMAIN sh.ttl.key_index,
         k \in DOMAIN idx.key_index /\ ~HasTTL(entry) => idx.key_index[k] = sh.ttl.key_index[k],
         last' = [op |-> op, key |-> k, reply |-> None], now' = now
  PROVE  Cache!Put(op, k, v, expire_at)
  <1>1. PICK lost \in SUBSET (DOMAIN sh.store \ {k}) :
          /\ Cardinality(lost) =
               IF k \notin DOMAIN sh.store /\ Cardinality(DOMAIN sh.store) = Capacity THEN 1 ELSE 0
          /\ sh'.store = [x \in (DOMAIN sh.store \cup {k}) \ lost |->
                            IF x = k THEN entry ELSE sh.store[x]]
          /\ IndexWithout(sh'.ttl, idx, lost)
    BY DEF WroteStore
  <1>2. PICK ki, kj, kk, left : /\ ki = sh.ttl.key_index /\ kj = idx.key_index
                                /\ kk = sh'.ttl.key_index /\ left = LeftOver(sh)
    OBVIOUS
  <1>3. /\ DOMAIN ki \subseteq DOMAIN sh.store
        /\ \A x \in DOMAIN sh.store : HasTTL(sh.store[x]) => x \in DOMAIN ki /\ ki[x] = sh.store[x].expire_at
    BY <1>2, CoreElim
  <1>4. left = [x \in {y \in DOMAIN ki : ~HasTTL(sh.store[y])} |-> ki[x]]
    BY <1>2 DEF LeftOver
  <1>5. /\ DOMAIN kj \subseteq DOMAIN ki \cup {k}
        /\ \A x \in DOMAIN ki : x # k => x \in DOMAIN kj /\ kj[x] = ki[x]
    BY <1>2 DEF IndexAfterWrite
  <1>6. DOMAIN kk = DOMAIN kj \ lost /\ \A x \in DOMAIN kk : kk[x] = kj[x]
    BY <1>1, <1>2 DEF IndexWithout
  <1>7. LeftOver(sh)' = [x \in {y \in DOMAIN kk : ~HasTTL(sh'.store[y])} |-> kk[x]]
    BY <1>2 DEF LeftOver
  <1>8. Cache!Scheduled(k) <=> k \in DOMAIN ki
    BY <1>2, <1>3, <1>4 DEF Cache!Scheduled, HasTTL, NoExpiry
  <1>9. \A x \in DOMAIN ki : Cache!ScheduledAt(x) = ki[x]
    BY <1>2, <1>3, <1>4 DEF Cache!ScheduledAt
  <1>10. PICK S : S = {y \in DOMAIN left : y # k /\ y \notin lost}
                        \cup {y \in {k} : op = "SetWithTTL" /\ expire_at = 0 /\ Cache!Scheduled(k)}
    OBVIOUS
  <1>11. \A y : y \in DOMAIN kk /\ ~HasTTL(sh'.store[y]) <=> y \in S
    <2> TAKE y
    <2>1. CASE y = k
      <3>1. y \in S <=> op = "SetWithTTL" /\ expire_at = 0 /\ k \in DOMAIN ki
        BY <1>8, <1>10, <2>1
      <3>2. sh'.store[y] = entry /\ (y \in DOMAIN kk <=> k \in DOMAIN kj)
        BY <1>1, <1>6, <2>1
      <3> QED BY <1>2, <2>1, <3>1, <3>2
    <2>2. CASE y # k
      <3>1. y \in S <=> y \in DOMAIN ki /\ ~HasTTL(sh.store[y]) /\ y \notin lost
        BY <1>4, <1>10, <2>2
      <3>2. y \in DOMAIN kk <=> y \in DOMAIN ki /\ y \notin lost
        BY <1>5, <1>6, <2>2
      <3>3. y \in DOMAIN ki /\ y \notin lost => sh'.store[y] = sh.store[y]
        BY <1>1, <1>3, <2>2
      <3> QED BY <3>1, <3>2, <3>3
    <2> QED BY <2>1, <2>2
  <1>12. \A x \in S : kk[x] = Cache!ScheduledAt(x)
    <2> TAKE x \in S
    <2>1. x \in DOMAIN kk /\ ~HasTTL(sh'.store[x])
      BY <1>11
    <2>2. kk[x] = kj[x] /\ x \in DOMAIN kj
      BY <1>6, <2>1
    <2>3. x \in DOMAIN ki
      BY <1>4, <1>8, <1>10
    <2>4. kj[x] = ki[x]
      <3>1. CASE x # k
        BY <1>5, <2>3, <3>1
      <3>2. CASE x = k
        BY <1>1, <1>2, <2>1, <2>2, <3>2
      <3> QED BY <3>1, <3>2
    <2> QED BY <1>9, <2>2, <2>3, <2>4
  <1>13. LeftOver(sh)' = [x \in S |-> Cache!ScheduledAt(x)]
    <2>1. {y \in DOMAIN kk : ~HasTTL(sh'.store[y])} = S
      BY <1>11
    <2> QED BY <1>7, <1>12, <2>1
  <1> QED BY <1>1, <1>2, <1>10, <1>13, SameCardinality DEF Cache!Put

\* Taking keys out of both the store and the index is the Keep of the abstract
\* cache.
LEMMA RemovalIsKeep ==
  ASSUME ShardCore(sh, Keys, Values), NEW X,
         sh'.store = [x \in DOMAIN sh.store \ X |-> sh.store[x]],
         IndexWithout(sh'.ttl, sh.ttl, X)
  PROVE  Cache!Keep(DOMAIN sh.store \ X)
  <1>1. PICK ki, kk, left : ki = sh.ttl.key_index /\ kk = sh'.ttl.key_index /\ left = LeftOver(sh)
    OBVIOUS
  <1>2. DOMAIN ki \subseteq DOMAIN sh.store
    BY <1>1, CoreElim
  <1>3. DOMAIN kk = DOMAIN ki \ X /\ \A x \in DOMAIN kk : kk[x] = ki[x]
    BY <1>1 DEF IndexWithout
  <1>4. left = [x \in {y \in DOMAIN ki : ~HasTTL(sh.store[y])} |-> ki[x]]
    BY <1>1 DEF LeftOver
  <1>5. LeftOver(sh)' = [x \in {y \in DOMAIN kk : ~HasTTL(sh'.store[y])} |-> kk[x]]
    BY <1>1 DEF LeftOver
  <1>6. \A y \in DOMAIN kk : sh'.store[y] = sh.store[y]
    BY <1>2, <1>3
  <1>7. {y \in DOMAIN kk : ~HasTTL(sh'.store[y])} = DOMAIN left \cap (DOMAIN sh.store \ X)
    BY <1>2, <1>3, <1>4, <1>6
  <1>8. \A x \in DOMAIN left \cap (DOMAIN sh.store \ X) : kk[x] = left[x]
    BY <1>3, <1>4, <1>7
  <1>9. LeftOver(sh)' = [x \in DOMAIN left \cap (DOMAIN sh.store \ X) |-> left[x]]
    BY <1>5, <1>7, <1>8
  <1> QED BY <1>1, <1>9 DEF Cache!Keep

\* A step that leaves store and index alone leaves the abstract cache alone.
LEMMA SameStaleKeys ==
  ASSUME sh'.store = sh.store, sh'.ttl = sh.ttl
  PROVE  LeftOver(sh)' = LeftOver(sh)
  BY DEF LeftOver

\* Every step of the shard is a step of the abstract cache or leaves what its
\* callers see alone.
LEMMA CacheStep ==
  ASSUME IInv, Next
  PROVE  Cache!CacheNext
  <1>0. /\ ShardOK(sh, Keys, Values) /\ ShardCore(sh, Keys, Values) /\ now \in Times /\ now \in Nat
    BY TimesAreNat DEF IInv, ShardOK
  <1>1. sh = [store |-> sh.store, order |-> sh.order, ttl |-> sh.ttl]
    BY <1>0, CoreElim
  <1>d. \A k \in DOMAIN sh.store, t \in Times : Cache!Due(k, t) <=> IsExpired(sh.store[k], t)
    BY DEF Cache!Due, IsExpired, HasTTL, NoExpiry
  <1>2. ASSUME NEW k \in Keys, NEW v \in Values, Set(k, v) PROVE Cache!CacheNext
    <2>1. sh' = ShardSet(sh, k, v) /\ last' = [op |-> "Set", key |-> k, reply |-> None] /\ now' = now
      BY <1>2 DEF Set
    <2>2. PICK idx : WroteStore(sh', sh, k, Entry(v, 0, 0), idx) /\ IndexWithout(idx, sh.ttl, {k})
      BY <1>0, <2>1, ShardSetStore
    <2>3. PICK entry : entry = Entry(v, 0, 0)
      OBVIOUS
    <2>4. entry = [value |-> v, expire_at |-> 0] /\ ~HasTTL(entry)
      BY <2>3 DEF Entry, HasTTL, NoExpiry
    <2>5. IndexAfterWrite(idx, sh.ttl, k, entry) /\ k \notin DOMAIN idx.key_index
      BY <2>2, <2>4 DEF IndexAfterWrite, IndexWithout
    <2>6. Cache!Put("Set", k, v, 0)
      BY <1>0, <2>1, <2>2, <2>3, <2>4, <2>5, WriteIsPut
    <2> QED BY <2>6 DEF Cache!CacheNext
  <1>3. ASSUME NEW k \in Keys, NEW v \in Values, NEW ttl_ms \in TTLs, SetWithTTL(k, v, ttl_ms)
        PROVE  Cache!CacheNext
    <2>1. /\ sh' = ShardSetWithTTL(sh, k, v, ttl_ms, now)
          /\ last' = [op |-> "SetWithTTL", key |-> k, reply |-> None] /\ now' = now
      BY <1>3 DEF SetWithTTL
    <2>2. ttl_ms \in Nat
      BY TTLsAreNat
    <2>3. PICK idx : /\ WroteStore(sh', sh, k, Entry(v, now, ttl_ms), idx)
                     /\ IndexAfterWrite(idx, sh.ttl, k, Entry(v, now, ttl_ms))
                     /\ ~HasTTL(Entry(v, now, ttl_ms)) => idx = sh.ttl
      BY <1>0, <2>1, <2>2, ShardSetWithTTLStore
    <2>4. PICK entry, e : entry = Entry(v, now, ttl_ms) /\ e = Cache!ExpiryOf(ttl_ms)
      OBVIOUS
    <2>5. entry = [value |-> v, expire_at |-> e] /\ (HasTTL(entry) <=> e # 0)
      BY <2>4 DEF Entry, Cache!ExpiryOf, HasTTL, NoExpiry
    <2>6. /\ k \in DOMAIN idx.key_index /\ ~HasTTL(entry)
               <=> "SetWithTTL" = "SetWithTTL" /\ e = 0 /\ k \in DOMAIN sh.ttl.key_index
          /\ k \in DOMAIN idx.key_index /\ ~HasTTL(entry) => idx.key_index[k] = sh.ttl.key_index[k]
      BY <2>3, <2>4, <2>5
    <2>7. WroteStore(sh', sh, k, entry, idx) /\ IndexAfterWrite(idx, sh.ttl, k, entry)
      BY <2>3, <2>4
    <2>8. Cache!Put("SetWithTTL", k, v, e)
      BY <1>0, <2>1, <2>5, <2>6, <2>7, WriteIsPut
    <2> QED BY <2>4, <2>8 DEF Cache!CacheNext
  <1>4. ASSUME NEW k \in Keys, sh' = RemoveInternal(sh, k)
        PROVE  Cache!Keep(DOMAIN sh.store \ {k})
    <2>1. /\ sh'.store = [x \in DOMAIN sh.store \ {k} |-> sh.store[x]]
          /\ IndexWithout(sh'.ttl, sh.ttl, {k})
      BY <1>0, <1>4, RemoveInternalStore
    <2> QED BY <1>0, <2>1, RemovalIsKeep
  <1>5. ASSUME NEW k \in Keys, Get(k) PROVE Cache!CacheNext
    <2>1. /\ sh' = ShardGet(sh, k, now) /\ now' = now
          /\ last' = [op |-> "Get", key |-> k,
                      reply |-> IF ShardHit(sh, k, now) THEN sh.store[k].value ELSE None]
      BY <1>5 DEF Get
    <2>2. ShardHit(sh, k, now) <=> k \in DOMAIN sh.store /\ ~Cache!Due(k, now)
      BY <1>0, <1>d DEF ShardHit
    <2>3. CASE ShardHit(sh, k, now)
      <3>1. sh'.store = sh.store /\ sh'.ttl = sh.ttl
        BY <1>1, <2>1, <2>3 DEF ShardGet
      <3>2. Cache!Fetch(k)
        BY <2>1, <2>2, <2>3, <3>1, SameStaleKeys DEF Cache!Fetch
      <3> QED BY <3>2 DEF Cache!CacheNext
    <2>4. CASE ~ShardHit(sh, k, now)
      <3>1. Cache!Keep(DOMAIN sh.store \ {k})
        <4>1. CASE k \in DOMAIN sh.store
          <5>1. sh' = RemoveInternal(sh, k)
            BY <2>1, <2>4, <4>1 DEF ShardGet
          <5> QED BY <1>4, <5>1
        <4>2. CASE k \notin DOMAIN sh.store
          <5>1. sh' = sh /\ DOMAIN sh.store \ {k} = DOMAIN sh.store
            BY <2>1, <2>4, <4>2 DEF ShardGet
          <5>2. sh.store = [x \in DOMAIN sh.store \ {k} |-> sh.store[x]]
            BY <1>0, <5>1, CoreElim
          <5>3. DOMAIN sh.ttl.key_index \subseteq DOMAIN sh.store
            BY <1>0, CoreElim
          <5>4. IndexWithout(sh'.ttl, sh.ttl, {k})
            BY <4>2, <5>1, <5>3 DEF IndexWithout
          <5> QED BY <1>0, <5>1, <5>2, <5>4, RemovalIsKeep
        <4> QED BY <4>1, <4>2
      <3>2. Cache!Fetch(k)
        BY <2>1, <2>2, <2>4, <3>1 DEF Cache!Fetch
      <3> QED BY <3>2 DEF Cache!CacheNext
    <2> QED BY <2>3, <2>4
  <1>6. ASSUME NEW k \in Keys, Delete(k) PROVE Cache!CacheNext
    <2>1. sh' = RemoveInternal(sh, k) /\ now' = now /\ last' = [op |-> "Delete", key |-> k, reply |-> None]
      BY <1>6 DEF Delete, ShardDelete
    <2>2. Cache!Del(k)
      BY <1>4, <2>1 DEF Cache!Del
    <2> QED BY <2>2 DEF Cache!CacheNext
  <1>7. CASE GetAllKeys
    <2>1. PICK at \in [DOMAIN sh.store -> Times] :
             last' = [op |-> "GetAllKeys", key |-> None, reply |-> ShardGetAllKeys(sh, at)]
      BY <1>7 DEF GetAllKeys
    <2>2. PICK listed : listed = {x \in DOMAIN sh.store : ~IsExpired(sh.store[x], at[x])}
      OBVIOUS
    <2>3. \A k \in DOMAIN sh.store : \E t \in Times : k \in listed <=> ~Cache!Due(k, t)
      BY <1>d, <2>2
    <2>4. ShardGetAllKeys(sh, at) = {<<k, sh.store[k].value>> : k \in listed}
      BY <2>2 DEF ShardGetAllKeys
    <2>5. sh' = sh /\ now' \in Times /\ LeftOver(sh)' = LeftOver(sh)
      BY <1>7, SameStaleKeys DEF GetAllKeys
    <2>6. Cache!Snapshot
      BY <2>1, <2>2, <2>3, <2>4, <2>5 DEF Cache!Snapshot
    <2> QED BY <2>6 DEF Cache!CacheNext
  <1>8. CASE Size
    <2>1. Cache!Count
      BY <1>8, SameCardinality, SameStaleKeys DEF Size, ShardSize, Cache!Count
    <2> QED BY <2>1 DEF Cache!CacheNext
  <1>9. ASSUME NEW t \in Times, CleanupExpired(t) PROVE Cache!CacheNext
    <2>1. /\ sh' = ShardCleanupExpired(sh, t) /\ now' = now /\ t \in Nat
          /\ last' = [op |-> "CleanupExpired", key |-> None, reply |-> t]
      BY <1>9, TimesAreNat DEF CleanupExpired
    <2>2. PICK X : /\ sh'.store = [x \in DOMAIN sh.store \ X |-> sh.store[x]]
                   /\ IndexWithout(sh'.ttl, sh.ttl, X)
                   /\ \A k \in DOMAIN sh.store :
                         k \in X <=> \/ IsExpired(sh.store[k], t)
                                     \/ k \in DOMAIN LeftOver(sh) /\ LeftOver(sh)[k] <= t
      BY <1>0, <2>1, ShardSweepStore
    <2>3. DOMAIN sh.store \ X = {k \in DOMAIN sh.store : ~Cache!Swept(k, t)}
      BY <1>d, <2>2 DEF Cache!Swept
    <2>4. Cache!Keep(DOMAIN sh.store \ X)
      BY <1>0, <2>2, RemovalIsKeep
    <2>5. Cache!Sweep(t)
      BY <2>1, <2>3, <2>4 DEF Cache!Sweep
    <2> QED BY <2>5 DEF Cache!CacheNext
  <1>10. CASE ClockMoves
    <2>1. Cache!MoveClock
      BY <1>10, SameStaleKeys DEF ClockMoves, Cache!MoveClock
    <2> QED BY <2>1 DEF Cache!CacheNext
  <1> QED BY <1>2, <1>3, <1>5, <1>6, <1>7, <1>8, <1>9, <1>10 DEF Next

\* A shard, with its recency list and its index, implements the abstract
\* expiring cache for every 64-bit TTL: an entry leaves only because it was
\* deleted, is past its time, is stale in the sense of the cache, or gives way
\* to a new key in a full shard (shard.h:84-215).
THEOREM RefinesCache == Spec => ImplementsCache
  <1>1. Init => Cache!CacheInit
    BY DEF Init, Cache!CacheInit, EmptyShard, EmptyIndex, LeftOver
  <1>2. IInv /\ [Next]_vars => [Cache!CacheNext]_(Cache!cacheVars)
    <2>1. UNCHANGED vars => UNCHANGED Cache!cacheVars
      BY SameStaleKeys DEF vars, Cache!cacheVars
    <2> QED BY <2>1, CacheStep
  <1> QED BY <1>1, <1>2, Inductive, PTL DEF Spec, ImplementsCache, Cache!CacheSpec
=============================================================================
