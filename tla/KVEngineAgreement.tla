------------------------- MODULE KVEngineAgreement -------------------------
(***************************************************************************)
(* The engine keeps two copies of what its shards know: the expiry index   *)
(* of ProcessExpired and the recency list of the eviction manager.  Here   *)
(* the copies are shown to agree with the shards, when one thread makes    *)
(* all the calls of the engine, as the server does; sweepers may run       *)
(* beside it.                                                              *)
(***************************************************************************)
EXTENDS KVEngineProofs

-----------------------------------------------------------------------------
(* The index *)

\* One thread calls the engine, the wall clock is never set back and no expiry
\* time wraps around or is zero.
OneCaller ==
    /\ \A t, u \in IndexUsers : t = u
    /\ ~ClockStepsBack
    /\ \A ttl \in TTLs : ttl > 0 /\ MaxTime + ttl < TimeMod

EntryAt(k) == Store(k)[k]

\* Set has written k in its shard and not yet in the index.
Registering(c, k) ==
    c.op = "Set" /\ c.key = k /\ c.at \in {"clock", "index", "inIndex"}

\* ProcessExpired has taken k out of the index and not yet out of its shard.
Expiring(c, k) ==
    /\ c.op = "ProcessExpired"
    /\ \/ c.at \in {"next", "shard", "policy"} /\ k \in c.todo
       \/ c.at = "shard" /\ k = c.key

\* Delete or ProcessEvictions has deleted the key in its shard and not yet in
\* the index.
Dropping(c) == c.op \in {"Delete", "ProcessEvictions"} /\ c.at \in {"index", "inIndex"}

Agrees(index, k, entry) ==
    /\ k \in DOMAIN index.key_index <=> HasTTL(entry)
    /\ HasTTL(entry) => index.key_index[k] >= entry.expire_at

\* The time a Set is about to register is no earlier than the one it stored.
RegisterOK(c, entry, time) ==
    /\ HasTTL(entry) <=> c.ttl # None
    /\ c.ttl # None => entry.expire_at <= (IF c.at = "clock" THEN time ELSE c.time) + c.ttl

Settled(k) == \A t \in Threads : ~Registering(call[t], k) /\ ~Expiring(call[t], k)

IndexInv ==
    /\ EInv
    /\ UsersOnly
    /\ \A s \in ShardIds : IndexedHaveTTL(shards[s])
    /\ \A t \in Threads :
          /\ call[t].time <= now
          /\ Dropping(call[t]) => call[t].key \notin Stored
          /\ \A k \in Stored :
                /\ Registering(call[t], k) => RegisterOK(call[t], EntryAt(k), now)
                /\ Expiring(call[t], k) => IsExpired(EntryAt(k), now)
    /\ \A k \in Stored : Settled(k) => Agrees(ttl_index, k, EntryAt(k))

\* r stores nothing that s does not.
Thinned(r, s) ==
    /\ DOMAIN r.store \subseteq DOMAIN s.store
    /\ \A k \in DOMAIN r.store : r.store[k] = s.store[k]

\* No entry is new: those that are stored were stored before.
EntriesStay == \A k \in Stored' : k \in Stored /\ EntryAt(k)' = EntryAt(k)

\* A shard that only loses entries adds none to the store.
LEMMA ThinnedStay ==
  ASSUME ShardsOK, NEW s \in ShardIds, NEW r, Thinned(r, shards[s]),
         shards' = [shards EXCEPT ![s] = r]
  PROVE  EntriesStay
  <1>1. \A k \in Keys : GetShard(k) \in ShardIds
    BY GetShardFacts
  <1>2. \A k \in Keys : Store(k)' = IF GetShard(k) = s THEN r.store ELSE Store(k)
    BY <1>1 DEF Store, ShardsOK, GetShard
  <1>3. Stored' = {k \in Keys : k \in DOMAIN Store(k)'}
    BY DEF Stored
  <1>4. ASSUME NEW k \in Stored' PROVE k \in Stored /\ Store(k)'[k] = Store(k)[k]
    <2>1. k \in Keys /\ k \in DOMAIN Store(k)'
      BY <1>3, <1>4
    <2>2. CASE GetShard(k) = s
      BY <1>2, <2>1, <2>2 DEF Thinned, Store, Stored
    <2>3. CASE GetShard(k) # s
      BY <1>2, <2>1, <2>3 DEF Stored
    <2> QED BY <2>2, <2>3
  <1> QED BY <1>4 DEF EntriesStay, EntryAt

\* Nor do shards that do not change at all.
LEMMA SameStay ==
  ASSUME UNCHANGED shards
  PROVE  EntriesStay
  BY DEF EntriesStay, EntryAt, Stored, Store, GetShard

\* Get, Delete and CleanupExpired of a shard only lose entries, and leave in the
\* shard's index no key without a TTL.
LEMMA Thinnings ==
  ASSUME NEW K, NEW V, NEW s, ShardOK(s, K, V), IndexedHaveTTL(s)
  PROVE  /\ \A k, t : Thinned(ShardGet(s, k, t), s) /\ IndexedHaveTTL(ShardGet(s, k, t))
         /\ \A k : /\ Thinned(ShardDelete(s, k), s) /\ IndexedHaveTTL(ShardDelete(s, k))
                   /\ DOMAIN ShardDelete(s, k).store = DOMAIN s.store \ {k}
         /\ \A t \in Nat : /\ Thinned(ShardCleanupExpired(s, t), s)
                           /\ IndexedHaveTTL(ShardCleanupExpired(s, t))
                           /\ \A k \in DOMAIN s.store \ DOMAIN ShardCleanupExpired(s, t).store :
                                 IsExpired(s.store[k], t)
  <1>0. ShardCore(s, K, V)
    BY DEF ShardOK
  <1>1. /\ s = [store |-> s.store, order |-> s.order, ttl |-> s.ttl]
        /\ DOMAIN s.ttl.key_index \subseteq DOMAIN s.store
    BY <1>0, CoreElim
  <1>2. ASSUME NEW k, NEW r, r = RemoveInternal(s, k)
        PROVE  Thinned(r, s) /\ IndexedHaveTTL(r) /\ DOMAIN r.store = DOMAIN s.store \ {k}
    <2>1. /\ r.store = [x \in DOMAIN s.store \ {k} |-> s.store[x]]
          /\ DOMAIN r.ttl.key_index = DOMAIN s.ttl.key_index \ {k}
      BY <1>0, <1>2, RemoveInternalStore DEF IndexWithout
    <2> QED BY <1>1, <2>1 DEF Thinned, IndexedHaveTTL
  <1>3. ASSUME NEW k, NEW t, NEW r, r = ShardGet(s, k, t) PROVE Thinned(r, s) /\ IndexedHaveTTL(r)
    <2>1. CASE r = RemoveInternal(s, k)
      BY <1>2, <2>1
    <2>2. CASE r.store = s.store /\ r.ttl = s.ttl
      BY <2>2 DEF Thinned, IndexedHaveTTL
    <2>3. CASE ShardHit(s, k, t)
      <3>1. r = [s EXCEPT !.order = LruTouch(@, k)]
        BY <1>3, <2>3 DEF ShardGet
      <3> QED BY <1>1, <2>2, <3>1
    <2> QED BY <1>3, <2>1, <2>2, <2>3 DEF ShardGet
  <1>4. ASSUME NEW t \in Nat, NEW r, r = ShardCleanupExpired(s, t)
        PROVE  Thinned(r, s) /\ IndexedHaveTTL(r) /\ \A k \in DOMAIN s.store \ DOMAIN r.store : IsExpired(s.store[k], t)
    <2>1. /\ r.store = [x \in {k \in DOMAIN s.store : ~IsExpired(s.store[k], t)} |-> s.store[x]]
          /\ IndexedHaveTTL(r)
      BY <1>0, <1>4, ShardCleanupStore
    <2> QED BY <2>1 DEF Thinned
  <1> QED BY <1>2, <1>3, <1>4 DEF ShardDelete

\* The other shards keep their indexes.
LEMMA IndexesStay ==
  ASSUME ShardsOK, \A x \in ShardIds : IndexedHaveTTL(shards[x]),
         NEW s \in ShardIds, NEW r, IndexedHaveTTL(r), shards' = [shards EXCEPT ![s] = r]
  PROVE  \A x \in ShardIds : IndexedHaveTTL(shards'[x])
  <1>1. \A x \in ShardIds : shards'[x] = IF x = s THEN r ELSE shards[x]
    BY DEF ShardsOK
  <1> QED BY <1>1

\* A thread that does not call the engine has nothing on its way to the index.
LEMMA OthersIdle ==
  ASSUME OneCaller, UsersOnly, NEW t \in Threads, call[t].op \notin {"idle", "CleanupExpired"},
         NEW u \in Threads, u # t
  PROVE  ~Dropping(call[u]) /\ \A k : ~Registering(call[u], k) /\ ~Expiring(call[u], k)
  <1>1. call[u].op \in {"idle", "CleanupExpired"}
    BY DEF OneCaller, UsersOnly
  <1> QED BY <1>1 DEF Dropping, Registering, Expiring

\* A step of t that leaves the index alone and brings no new entry: what t has
\* on its way to the index stays the same.
Calm(t, d) ==
    /\ call' = [call EXCEPT ![t] = d]
    /\ d.time <= now
    /\ UNCHANGED <<ttl_index, now>>
    /\ EntriesStay
    /\ \A s \in ShardIds : IndexedHaveTTL(shards'[s])
    /\ Dropping(d) => d.key \notin Stored'
    /\ \A k \in Stored' :
          /\ Registering(d, k) <=> Registering(call[t], k)
          /\ Expiring(d, k) <=> Expiring(call[t], k)
          /\ Registering(d, k) => RegisterOK(d, EntryAt(k), now)

\* Such a step keeps the agreement, whatever the other threads are about to do.
LEMMA CalmStep ==
  ASSUME IndexInv, EInv', UsersOnly', NEW t \in Threads, NEW d, Calm(t, d)
  PROVE  IndexInv'
  <1>0. /\ \A u \in Threads : call'[u] = IF u = t THEN d ELSE call[u]
        /\ \A k \in Stored' : k \in Stored /\ EntryAt(k)' = EntryAt(k)
    BY DEF Calm, IndexInv, EInv, CallsOK, EntriesStay
  <1>1. ASSUME NEW u \in Threads PROVE call'[u].time <= now
    BY <1>0 DEF Calm, IndexInv
  <1>2. ASSUME NEW u \in Threads, Dropping(call'[u]) PROVE call'[u].key \notin Stored'
    <2>1. CASE u = t
      BY <1>0, <1>2, <2>1 DEF Calm
    <2>2. CASE u # t
      BY <1>0, <1>2, <2>2 DEF IndexInv
    <2> QED BY <2>1, <2>2
  <1>3. ASSUME NEW u \in Threads, NEW k \in Stored', Registering(call'[u], k)
        PROVE  RegisterOK(call'[u], EntryAt(k), now)
    <2>1. CASE u = t
      BY <1>0, <1>3, <2>1 DEF Calm
    <2>2. CASE u # t
      BY <1>0, <1>3, <2>2 DEF IndexInv
    <2> QED BY <2>1, <2>2
  <1>4. ASSUME NEW u \in Threads, NEW k \in Stored', Expiring(call'[u], k)
        PROVE  IsExpired(EntryAt(k), now)
    <2>1. CASE u = t
      BY <1>0, <1>4, <2>1 DEF Calm, IndexInv
    <2>2. CASE u # t
      BY <1>0, <1>4, <2>2 DEF IndexInv
    <2> QED BY <2>1, <2>2
  <1>5. ASSUME NEW k \in Stored', Settled(k)' PROVE Agrees(ttl_index, k, EntryAt(k))
    <2>1. \A u \in Threads : ~Registering(call'[u], k) /\ ~Expiring(call'[u], k)
      BY <1>5 DEF Settled, Registering, Expiring
    <2>2. \A u \in Threads : ~Registering(call[u], k) /\ ~Expiring(call[u], k)
      BY <1>0, <1>5, <2>1 DEF Calm
    <2> QED BY <1>0, <2>2 DEF IndexInv, Settled
  <1>6. now' = now /\ ttl_index' = ttl_index /\ \A s \in ShardIds : IndexedHaveTTL(shards'[s])
    BY DEF Calm
  <1>7. \A u \in Threads :
          /\ call'[u].time <= now'
          /\ Dropping(call'[u]) => call'[u].key \notin Stored'
          /\ \A k \in Stored' :
                /\ Registering(call'[u], k) => RegisterOK(call'[u], EntryAt(k)', now')
                /\ Expiring(call'[u], k) => IsExpired(EntryAt(k)', now')
    BY <1>0, <1>1, <1>2, <1>3, <1>4, <1>6
  <1>8. \A k \in Stored' : Settled(k)' => Agrees(ttl_index', k, EntryAt(k)')
    BY <1>0, <1>5, <1>6
  <1> QED BY <1>6, <1>7, <1>8 DEF IndexInv

\* Nothing of c is on its way to the index.
Quiet(c) == \A k : ~Registering(c, k) /\ ~Expiring(c, k)

\* A thread begins a method.
LEMMA BeginCalm ==
  ASSUME IndexInv, NEW t \in Threads, NEW c, Begin(t, c), Quiet(c), ~Dropping(c), c.time <= now
  PROVE  Calm(t, c)
  <1>1. call[t].at = "idle" /\ UNCHANGED <<shards, ttl_index, now>> /\ call' = [call EXCEPT ![t] = c]
    BY DEF Begin, At
  <1>2. Quiet(call[t])
    BY <1>1 DEF Quiet, Registering, Expiring
  <1>3. EntriesStay
    BY <1>1, SameStay
  <1>4. \A s \in ShardIds : IndexedHaveTTL(shards'[s])
    BY <1>1 DEF IndexInv
  <1> QED BY <1>1, <1>2, <1>3, <1>4 DEF Calm, Quiet

\* The methods that a thread can begin.
LEMMA BeginsCalm ==
  ASSUME IndexInv, NEW t \in Threads
  PROVE  /\ \A k, v, ttl : BeginSet(t, k, v, ttl) => \E d : Calm(t, d)
         /\ \A k : BeginGet(t, k) \/ BeginDelete(t, k) => \E d : Calm(t, d)
         /\ BeginGetAllKeys(t) => \E d : Calm(t, d)
         /\ BeginProcessExpired(t) \/ BeginProcessEvictions(t) => \E d : Calm(t, d)
         /\ BeginCleanupExpired(t) => \E d : Calm(t, d)
  <1>0. now \in Nat
    BY DEF IndexInv, EInv, Times
  <1>1. ASSUME NEW op \in {"Set", "Get", "Delete", "GetAllKeys", "ProcessExpired", "ProcessEvictions", "CleanupExpired"},
               NEW c, c.op = op, c.at \in {"shard", "scan", "clock", "victims", "sweep"},
               op = "Set" => c.at = "shard", op = "ProcessExpired" => c.at = "clock",
               c.time \in {0, now}, Begin(t, c)
        PROVE  \E d : Calm(t, d)
    <2>1. Quiet(c) /\ ~Dropping(c) /\ c.time <= now
      BY <1>0, <1>1 DEF Quiet, Registering, Expiring, Dropping
    <2> QED BY <1>1, <2>1, BeginCalm
  <1>2. ASSUME NEW k, NEW v, NEW ttl, BeginSet(t, k, v, ttl) PROVE \E d : Calm(t, d)
    <2>1. PICK c : c = [Idle EXCEPT !.op = "Set", !.key = k, !.value = v, !.ttl = ttl, !.at = "shard"]
      OBVIOUS
    <2>2. c.op = "Set" /\ c.at = "shard" /\ c.time = 0
      BY <2>1 DEF Idle
    <2> QED BY <1>1, <1>2, <2>1, <2>2 DEF BeginSet
  <1>3. ASSUME NEW k, BeginGet(t, k) PROVE \E d : Calm(t, d)
    <2>1. PICK c : c = [Idle EXCEPT !.op = "Get", !.key = k, !.at = "shard"]
      OBVIOUS
    <2>2. c.op = "Get" /\ c.at = "shard" /\ c.time = 0
      BY <2>1 DEF Idle
    <2> QED BY <1>1, <1>3, <2>1, <2>2 DEF BeginGet
  <1>4. ASSUME NEW k, BeginDelete(t, k) PROVE \E d : Calm(t, d)
    <2>1. PICK c : c = [Idle EXCEPT !.op = "Delete", !.key = k, !.at = "shard"]
      OBVIOUS
    <2>2. c.op = "Delete" /\ c.at = "shard" /\ c.time = 0
      BY <2>1 DEF Idle
    <2> QED BY <1>1, <1>4, <2>1, <2>2 DEF BeginDelete
  <1>5. ASSUME BeginGetAllKeys(t) PROVE \E d : Calm(t, d)
    <2>1. PICK c : c = [Idle EXCEPT !.op = "GetAllKeys", !.at = "scan", !.todo = ShardIds, !.reply = {}]
      OBVIOUS
    <2>2. c.op = "GetAllKeys" /\ c.at = "scan" /\ c.time = 0
      BY <2>1 DEF Idle
    <2> QED BY <1>1, <1>5, <2>1, <2>2 DEF BeginGetAllKeys
  <1>6. ASSUME BeginProcessExpired(t) PROVE \E d : Calm(t, d)
    <2>1. PICK c : c = [Idle EXCEPT !.op = "ProcessExpired", !.at = "clock"]
      OBVIOUS
    <2>2. c.op = "ProcessExpired" /\ c.at = "clock" /\ c.time = 0
      BY <2>1 DEF Idle
    <2> QED BY <1>1, <1>6, <2>1, <2>2 DEF BeginProcessExpired
  <1>7. ASSUME BeginProcessEvictions(t) PROVE \E d : Calm(t, d)
    <2>1. PICK c : c = [Idle EXCEPT !.op = "ProcessEvictions", !.at = "victims"]
      OBVIOUS
    <2>2. c.op = "ProcessEvictions" /\ c.at = "victims" /\ c.time = 0
      BY <2>1 DEF Idle
    <2> QED BY <1>1, <1>7, <2>1, <2>2 DEF BeginProcessEvictions
  <1>8. ASSUME BeginCleanupExpired(t) PROVE \E d : Calm(t, d)
    <2>1. PICK c : c = [Idle EXCEPT !.op = "CleanupExpired", !.at = "sweep", !.todo = ShardIds, !.time = now]
      OBVIOUS
    <2>2. c.op = "CleanupExpired" /\ c.at = "sweep" /\ c.time = now
      BY <2>1 DEF Idle
    <2> QED BY <1>1, <1>8, <2>1, <2>2 DEF BeginCleanupExpired
  <1> QED BY <1>2, <1>3, <1>4, <1>5, <1>6, <1>7, <1>8

\* A step that only moves the thread along, with nothing on its way to the
\* index before and after it.
LEMMA QuietMove ==
  ASSUME IndexInv, NEW t \in Threads, NEW d, call' = [call EXCEPT ![t] = d],
         UNCHANGED <<shards, ttl_index, now>>, d.time = call[t].time,
         Quiet(d), ~Dropping(d), Quiet(call[t])
  PROVE  Calm(t, d)
  <1>1. EntriesStay
    BY SameStay
  <1>2. (\A s \in ShardIds : IndexedHaveTTL(shards'[s])) /\ d.time <= now
    BY DEF IndexInv
  <1> QED BY <1>1, <1>2 DEF Calm, Quiet

\* Returning and collecting victims.
LEMMA QuietSteps ==
  ASSUME IndexInv, NEW t \in Threads, Return(t) \/ CollectEvictionCandidates(t)
  PROVE  \E d : Calm(t, d)
  <1>0. CallsOK /\ CallOK(call[t]) /\ now \in Nat
    BY CallAt DEF IndexInv, EInv, Times
  <1>1. PICK c : c = call[t] /\ IsCall(c)
    BY <1>0 DEF CallOK
  <1>2. CASE Return(t)
    <2>1. call' = [call EXCEPT ![t] = Idle] /\ UNCHANGED <<shards, ttl_index, now>> /\ c.at \in {"return", "thrown"}
      BY <1>1, <1>2 DEF Return, At
    <2>2. Quiet(c) /\ Quiet(Idle) /\ ~Dropping(Idle) /\ Idle.time <= now
      BY <1>0, <2>1 DEF Quiet, Registering, Expiring, Dropping, Idle
    <2>3. EntriesStay
      BY <2>1, SameStay
    <2>4. \A s \in ShardIds : IndexedHaveTTL(shards'[s])
      BY <2>1 DEF IndexInv
    <2>5. Calm(t, Idle)
      BY <1>1, <2>1, <2>2, <2>3, <2>4 DEF Calm, Quiet
    <2> QED BY <2>5
  <1>3. CASE CollectEvictionCandidates(t)
    <2>1. c.op = "ProcessEvictions" /\ UNCHANGED <<shards, ttl_index, now>>
      BY <1>1, <1>3 DEF CollectEvictionCandidates, Calling
    <2>2. Quiet(c)
      BY <2>1 DEF Quiet, Registering, Expiring
    <2>3. CASE Goto(t, "thrown")
      <3>1. PICK d : MovedTo(d, c, "thrown") /\ call' = [call EXCEPT ![t] = d]
        BY <1>0, <1>1, <2>3, GotoFacts
      <3>2. d.op = c.op /\ d.at = "thrown" /\ d.time = c.time
        BY <3>1 DEF MovedTo
      <3>3. Quiet(d) /\ ~Dropping(d)
        BY <2>1, <3>2 DEF Quiet, Registering, Expiring, Dropping
      <3> QED BY <1>1, <2>1, <2>2, <3>1, <3>2, <3>3, QuietMove
    <2>4. CASE \E X : call' = [call EXCEPT ![t].at = "next", ![t].todo = X]
      <3>1. PICK X : call' = [call EXCEPT ![t].at = "next", ![t].todo = X]
        BY <2>4
      <3>2. PICK d : d = [c EXCEPT !.at = "next", !.todo = X]
        OBVIOUS
      <3>3. d.op = c.op /\ d.at = "next" /\ d.time = c.time
        BY <1>1, <3>2 DEF IsCall
      <3>4. call' = [call EXCEPT ![t] = d]
        BY <1>0, <1>1, <3>1, <3>2 DEF CallsOK
      <3>5. Quiet(d) /\ ~Dropping(d)
        BY <2>1, <3>3 DEF Quiet, Registering, Expiring, Dropping
      <3> QED BY <1>1, <2>1, <2>2, <3>3, <3>4, <3>5, QuietMove
    <2> QED BY <1>3, <2>3, <2>4 DEF CollectEvictionCandidates
  <1> QED BY <1>2, <1>3

\* d is on its way to the index with what c is, and no clock reading is lost.
SameErrand(d, c, time) ==
    /\ Dropping(d) => Dropping(c) /\ d.key = c.key
    /\ \A k : /\ Registering(d, k) <=> Registering(c, k)
              /\ Expiring(d, k) <=> Expiring(c, k)
    /\ \A k : Registering(d, k) =>
          /\ d.ttl = c.ttl /\ d.at # "clock"
          /\ d.time = IF c.at = "clock" THEN time ELSE c.time

\* A step that changes neither the shards nor the index and keeps the errand.
LEMMA ErrandMove ==
  ASSUME IndexInv, NEW t \in Threads, NEW d, call' = [call EXCEPT ![t] = d],
         UNCHANGED <<shards, ttl_index, now>>, d.time <= now, SameErrand(d, call[t], now)
  PROVE  Calm(t, d)
  <1>1. EntriesStay
    BY SameStay
  <1>2. \A s \in ShardIds : IndexedHaveTTL(shards'[s])
    BY DEF IndexInv
  <1>3. Stored' = Stored
    BY DEF Stored, Store, GetShard
  <1>4. Dropping(d) => d.key \notin Stored'
    BY <1>3 DEF SameErrand, IndexInv
  <1>5. ASSUME NEW k \in Stored', Registering(d, k) PROVE RegisterOK(d, EntryAt(k), now)
    <2>1. Registering(call[t], k) /\ RegisterOK(call[t], EntryAt(k), now)
      BY <1>3, <1>5 DEF SameErrand, IndexInv
    <2>2. d.ttl = call[t].ttl /\ d.at # "clock" /\ d.time = IF call[t].at = "clock" THEN now ELSE call[t].time
      BY <1>5 DEF SameErrand
    <2> QED BY <2>1, <2>2 DEF RegisterOK
  <1> QED BY <1>1, <1>2, <1>4, <1>5 DEF Calm, SameErrand

\* Reading the clock, entering the index, telling the policy and taking the next
\* key of a loop.
LEMMA ErrandSteps ==
  ASSUME IndexInv, NEW t \in Threads,
         ReadClock(t) \/ BeginIndex(t) \/ PolicyStep(t) \/ NextKey(t)
  PROVE  \E d : Calm(t, d)
  <1>0. CallsOK /\ CallOK(call[t]) /\ now \in Nat /\ call[t].time <= now
    BY CallAt DEF IndexInv, EInv, Times
  <1>1. PICK c : c = call[t]
    OBVIOUS
  <1>2. IsCall(c) /\ PhaseOK(c)
    BY <1>0, <1>1 DEF CallOK
  <1>3. CASE ReadClock(t)
    <2>1. PICK d : d = [c EXCEPT !.at = "index", !.time = now]
      OBVIOUS
    <2>2. call' = [call EXCEPT ![t] = d]
      BY <1>0, <1>1, <1>3, <2>1 DEF CallsOK, ReadClock
    <2>3. /\ d.op = c.op /\ d.at = "index" /\ d.time = now /\ d.key = c.key /\ d.ttl = c.ttl
      BY <1>2, <2>1 DEF IsCall
    <2>4. c.op \in {"Set", "ProcessExpired"} /\ c.at = "clock"
      BY <1>1, <1>2, <1>3 DEF ReadClock, At, PhaseOK, Idle
    <2>5. SameErrand(d, c, now)
      BY <2>3, <2>4 DEF SameErrand, Dropping, Registering, Expiring
    <2>6. d.time <= now
      BY <1>0, <2>3
    <2> QED BY <1>1, <1>3, <2>2, <2>5, <2>6, ErrandMove DEF ReadClock
  <1>4. CASE BeginIndex(t)
    <2>1. PICK d : MovedTo(d, c, "inIndex") /\ call' = [call EXCEPT ![t] = d]
      BY <1>0, <1>1, <1>4, GotoFacts DEF BeginIndex
    <2>2. c.at = "index"
      BY <1>1, <1>4 DEF BeginIndex, At
    <2>3. SameErrand(d, c, now)
      BY <2>1, <2>2 DEF SameErrand, Dropping, Registering, Expiring, MovedTo
    <2>4. d.time <= now
      BY <1>0, <1>1, <2>1 DEF MovedTo
    <2> QED BY <1>1, <1>4, <2>1, <2>3, <2>4, ErrandMove DEF BeginIndex
  <1>5. CASE PolicyStep(t)
    <2>1. PICK a : a = (IF c.op = "ProcessExpired" THEN "next" ELSE "return") /\ Goto(t, a)
      BY <1>1, <1>5 DEF PolicyStep
    <2>2. PICK d : MovedTo(d, c, a) /\ call' = [call EXCEPT ![t] = d]
      BY <1>0, <1>1, <2>1, GotoFacts
    <2>3. c.at = "policy"
      BY <1>1, <1>5 DEF PolicyStep, At
    <2>4. SameErrand(d, c, now)
      BY <2>1, <2>2, <2>3 DEF SameErrand, Dropping, Registering, Expiring, MovedTo
    <2>5. d.time <= now
      BY <1>0, <1>1, <2>2 DEF MovedTo
    <2> QED BY <1>1, <1>5, <2>2, <2>4, <2>5, ErrandMove DEF PolicyStep
  <1>6. CASE NextKey(t)
    <2>0. c.at = "next"
      BY <1>1, <1>6 DEF NextKey, At
    <2>1. c.op \in {"ProcessExpired", "ProcessEvictions"}
      BY <1>2, <2>0 DEF PhaseOK, Idle
    <2>2. CASE c.todo = {}
      <3>1. PICK d : MovedTo(d, c, "return") /\ call' = [call EXCEPT ![t] = d]
        BY <1>0, <1>1, <1>6, <2>2, GotoFacts DEF NextKey
      <3>2. SameErrand(d, c, now)
        BY <2>0, <2>1, <2>2, <3>1 DEF SameErrand, Dropping, Registering, Expiring, MovedTo
      <3>3. d.time <= now
        BY <1>0, <1>1, <3>1 DEF MovedTo
      <3> QED BY <1>1, <1>6, <3>1, <3>2, <3>3, ErrandMove DEF NextKey
    <2>3. CASE c.todo # {}
      <3>1. PICK k \in c.todo :
               call' = [call EXCEPT ![t].at = "shard", ![t].key = k, ![t].todo = @ \ {k}]
        BY <1>1, <1>6, <2>3 DEF NextKey
      <3>2. PICK d : d = [c EXCEPT !.at = "shard", !.key = k, !.todo = @ \ {k}]
        OBVIOUS
      <3>3. call' = [call EXCEPT ![t] = d]
        BY <1>0, <1>1, <1>2, <3>1, <3>2 DEF CallsOK, IsCall
      <3>4. /\ d.op = c.op /\ d.at = "shard" /\ d.time = c.time /\ d.key = k /\ d.todo = c.todo \ {k}
        BY <1>2, <3>2 DEF IsCall
      <3>5. SameErrand(d, c, now)
        BY <2>0, <2>1, <3>1, <3>4 DEF SameErrand, Dropping, Registering, Expiring
      <3>6. d.time <= now
        BY <1>0, <1>1, <3>4
      <3> QED BY <1>1, <1>6, <3>3, <3>5, <3>6, ErrandMove DEF NextKey
    <2> QED BY <2>2, <2>3
  <1> QED BY <1>3, <1>4, <1>5, <1>6

\* Reading or deleting a key in its shard, and sweeping a shard.
LEMMA ThinningSteps ==
  ASSUME IndexInv, NEW t \in Threads, GetInShard(t) \/ DeleteInShard(t) \/ SweepShard(t)
  PROVE  \E d : Calm(t, d)
  <1>0. CallsOK /\ CallOK(call[t]) /\ now \in Nat /\ call[t].time <= now /\ ShardsOK
        /\ \A x \in ShardIds : IndexedHaveTTL(shards[x])
    BY CallAt DEF IndexInv, EInv, Times
  <1>1. PICK c : c = call[t]
    OBVIOUS
  <1>2. IsCall(c) /\ PhaseOK(c) /\ c.time \in Nat
    BY <1>0, <1>1 DEF CallOK
  <1>3. ASSUME NEW s \in ShardIds
        PROVE  ShardOK(shards[s], KeysOf(s), Values) /\ IndexedHaveTTL(shards[s])
    BY <1>0 DEF ShardsOK
  <1>4. CASE GetInShard(t)
    <2>1. c.op = "Get" /\ c.key \in Keys /\ UNCHANGED <<ttl_index, now>>
      BY <1>1, <1>2, <1>4 DEF GetInShard, Calling, At, PhaseOK, Idle
    <2>2. PICK a, rep : call' = [call EXCEPT ![t].at = a, ![t].reply = rep]
      BY <1>4 DEF GetInShard
    <2>3. PICK d : d = [c EXCEPT !.at = a, !.reply = rep]
      OBVIOUS
    <2>4. call' = [call EXCEPT ![t] = d]
      BY <1>0, <1>1, <2>2, <2>3 DEF CallsOK
    <2>5. d.op = "Get" /\ d.time = c.time
      BY <1>2, <2>1, <2>3 DEF IsCall
    <2>6. PICK s, r : /\ s = GetShard(c.key) /\ r = ShardGet(shards[s], c.key, now)
                      /\ shards' = [shards EXCEPT ![s] = r]
      BY <1>1, <1>4 DEF GetInShard
    <2>7. s \in ShardIds
      BY <2>1, <2>6, GetShardFacts
    <2>8. Thinned(r, shards[s]) /\ IndexedHaveTTL(r)
      BY <1>3, <2>6, <2>7, Thinnings
    <2>9. EntriesStay
      BY <1>0, <2>6, <2>7, <2>8, ThinnedStay
    <2>10. \A x \in ShardIds : IndexedHaveTTL(shards'[x])
      BY <1>0, <2>6, <2>7, <2>8, IndexesStay
    <2>11. Quiet(c) /\ Quiet(d) /\ ~Dropping(d) /\ d.time <= now
      BY <1>0, <1>1, <2>1, <2>5 DEF Quiet, Registering, Expiring, Dropping
    <2>12. Calm(t, d)
      BY <1>1, <2>1, <2>4, <2>9, <2>10, <2>11 DEF Calm, Quiet
    <2> QED BY <2>12
  <1>5. CASE SweepShard(t)
    <2>1. c.op = "CleanupExpired" /\ c.todo \subseteq ShardIds /\ c.todo # {} /\ UNCHANGED <<ttl_index, now>>
      BY <1>1, <1>2, <1>5 DEF SweepShard, Calling, At, PhaseOK, Idle
    <2>2. PICK a, left : call' = [call EXCEPT ![t].todo = left, ![t].at = a]
      BY <1>5 DEF SweepShard
    <2>3. PICK d : d = [c EXCEPT !.todo = left, !.at = a]
      OBVIOUS
    <2>4. call' = [call EXCEPT ![t] = d]
      BY <1>0, <1>1, <2>2, <2>3 DEF CallsOK
    <2>5. d.op = "CleanupExpired" /\ d.time = c.time
      BY <1>2, <2>1, <2>3 DEF IsCall
    <2>6. PICK s, r : /\ s = Min(c.todo) /\ r = ShardCleanupExpired(shards[s], c.time)
                      /\ shards' = [shards EXCEPT ![s] = r]
      BY <1>1, <1>5 DEF SweepShard
    <2>7. s \in ShardIds
      BY <2>1, <2>6, NextShard
    <2>8. Thinned(r, shards[s]) /\ IndexedHaveTTL(r)
      BY <1>2, <1>3, <2>6, <2>7, Thinnings
    <2>9. EntriesStay
      BY <1>0, <2>6, <2>7, <2>8, ThinnedStay
    <2>10. \A x \in ShardIds : IndexedHaveTTL(shards'[x])
      BY <1>0, <2>6, <2>7, <2>8, IndexesStay
    <2>11. Quiet(c) /\ Quiet(d) /\ ~Dropping(d) /\ d.time <= now
      BY <1>0, <1>1, <2>1, <2>5 DEF Quiet, Registering, Expiring, Dropping
    <2>12. Calm(t, d)
      BY <1>1, <2>1, <2>4, <2>9, <2>10, <2>11 DEF Calm, Quiet
    <2> QED BY <2>12
  <1>6. CASE DeleteInShard(t)
    <2>1. /\ c.op \in {"Delete", "ProcessExpired", "ProcessEvictions"} /\ c.key \in Keys
          /\ c.at = "shard" /\ UNCHANGED <<ttl_index, now>>
      BY <1>1, <1>2, <1>6 DEF DeleteInShard, At, PhaseOK, Idle
    <2>2. PICK a : a = (IF c.op = "ProcessExpired" THEN "policy" ELSE "index") /\ Goto(t, a)
      BY <1>1, <1>6 DEF DeleteInShard
    <2>3. PICK d : MovedTo(d, c, a) /\ call' = [call EXCEPT ![t] = d]
      BY <1>0, <1>1, <2>2, GotoFacts
    <2>4. d.op = c.op /\ d.time = c.time /\ d.at = a /\ d.key = c.key /\ d.todo = c.todo
      BY <2>3 DEF MovedTo
    <2>6. PICK s, r : /\ s = GetShard(c.key) /\ r = ShardDelete(shards[s], c.key)
                      /\ shards' = [shards EXCEPT ![s] = r]
      BY <1>1, <1>6 DEF DeleteInShard
    <2>7. s \in ShardIds
      BY <2>1, <2>6, GetShardFacts
    <2>8. Thinned(r, shards[s]) /\ IndexedHaveTTL(r) /\ DOMAIN r.store = DOMAIN shards[s].store \ {c.key}
      BY <1>3, <2>6, <2>7, Thinnings
    <2>9. EntriesStay
      BY <1>0, <2>6, <2>7, <2>8, ThinnedStay
    <2>10. \A x \in ShardIds : IndexedHaveTTL(shards'[x])
      BY <1>0, <2>6, <2>7, <2>8, IndexesStay
    <2>11. c.key \notin Stored'
      <3>1. shards'[s] = r
        BY <1>0, <2>6, <2>7 DEF ShardsOK
      <3>2. Stored' = {k \in Keys : k \in DOMAIN shards'[GetShard(k)].store}
        BY DEF Stored, Store, GetShard
      <3> QED BY <2>6, <2>8, <3>1, <3>2
    <2>12. \A k : ~Registering(c, k) /\ ~Registering(d, k)
      BY <2>1, <2>4 DEF Registering
    <2>13. \A k : k # c.key => (Expiring(d, k) <=> Expiring(c, k))
      BY <2>1, <2>2, <2>4 DEF Expiring
    <2>14. d.time <= now
      BY <1>0, <1>1, <2>4
    <2>15. Calm(t, d)
      BY <1>1, <2>1, <2>3, <2>4, <2>9, <2>10, <2>11, <2>12, <2>13, <2>14 DEF Calm
    <2> QED BY <2>15
  <1> QED BY <1>4, <1>5, <1>6

\* A step of the caller that does move something to the index, or brings a new
\* entry.
Errand(t, d) ==
    /\ call[t].op \notin {"idle", "CleanupExpired"}
    /\ call' = [call EXCEPT ![t] = d]
    /\ d.time <= now
    /\ now' = now
    /\ \A s \in ShardIds : IndexedHaveTTL(shards'[s])
    /\ Dropping(d) => d.key \notin Stored'
    /\ \A k \in Stored' :
          /\ Registering(d, k) => RegisterOK(d, EntryAt(k)', now)
          /\ Expiring(d, k) => IsExpired(EntryAt(k)', now)
          /\ ~Registering(d, k) /\ ~Expiring(d, k) => Agrees(ttl_index', k, EntryAt(k)')

\* The other threads have nothing on its way to the index, so that such a step
\* decides the whole agreement.
LEMMA ErrandStep ==
  ASSUME OneCaller, IndexInv, EInv', UsersOnly', NEW t \in Threads, NEW d, Errand(t, d)
  PROVE  IndexInv'
  <1>0. /\ \A u \in Threads : call'[u] = IF u = t THEN d ELSE call[u]
        /\ now' = now
    BY DEF Errand, IndexInv, EInv, CallsOK
  <1>1. ASSUME NEW u \in Threads, u # t
        PROVE  ~Dropping(call'[u]) /\ \A k : ~Registering(call'[u], k) /\ ~Expiring(call'[u], k)
    <2>1. call'[u] = call[u]
      BY <1>0, <1>1
    <2>2. ~Dropping(call[u]) /\ \A k : ~Registering(call[u], k) /\ ~Expiring(call[u], k)
      BY <1>1, OthersIdle DEF Errand, IndexInv
    <2> QED BY <2>1, <2>2
  <1>2. ASSUME NEW u \in Threads
        PROVE  /\ call'[u].time <= now
               /\ Dropping(call'[u]) => call'[u].key \notin Stored'
               /\ \A k \in Stored' :
                     /\ Registering(call'[u], k) => RegisterOK(call'[u], EntryAt(k)', now)
                     /\ Expiring(call'[u], k) => IsExpired(EntryAt(k)', now)
    <2>1. CASE u = t
      BY <1>0, <2>1 DEF Errand
    <2>2. CASE u # t
      BY <1>0, <1>1, <2>2 DEF IndexInv
    <2> QED BY <2>1, <2>2
  <1>3. ASSUME NEW k \in Stored', Settled(k)' PROVE Agrees(ttl_index', k, EntryAt(k)')
    <2>1. ~Registering(call'[t], k) /\ ~Expiring(call'[t], k)
      BY <1>3 DEF Settled, Registering, Expiring
    <2> QED BY <1>0, <2>1 DEF Errand
  <1>4. \A s \in ShardIds : IndexedHaveTTL(shards'[s])
    BY DEF Errand
  <1> QED BY <1>0, <1>2, <1>3, <1>4 DEF IndexInv

\* Before a step of the caller, every key it has no errand for agrees.
LEMMA CallerKnows ==
  ASSUME OneCaller, IndexInv, NEW t \in Threads, call[t].op \notin {"idle", "CleanupExpired"},
         NEW k \in Stored, ~Registering(call[t], k), ~Expiring(call[t], k)
  PROVE  Agrees(ttl_index, k, EntryAt(k))
  <1>1. ASSUME NEW u \in Threads PROVE ~Registering(call[u], k) /\ ~Expiring(call[u], k)
    BY OthersIdle DEF IndexInv
  <1> QED BY <1>1 DEF IndexInv, Settled

\* The new entry of a Set expires at the time it asks for (entry.h:50-52).
LEMMA NewEntry ==
  ASSUME OneCaller, NEW ttl \in TTLs, NEW v, now \in Times
  PROVE  Entry(v, now, ttl).expire_at = now + ttl /\ HasTTL(Entry(v, now, ttl))
  <1>1. ttl \in Nat /\ ttl > 0 /\ MaxTime + ttl < TimeMod /\ now \in Nat /\ now <= MaxTime /\ MaxTime \in Nat /\ TimeMod \in Nat \ {0}
    BY EngineAssumption, TimeModAssumption DEF OneCaller, Times
  <1>2. (now + ttl) % TimeMod = now + ttl /\ now + ttl # 0 /\ ttl # 0
    BY <1>1
  <1> QED BY <1>2 DEF Entry, HasTTL, NoExpiry

\* Set writes its entry in the shard (kv_engine.h:59-69).
LEMMA SetErrand ==
  ASSUME OneCaller, IndexInv, NEW t \in Threads, SetInShard(t)
  PROVE  \E d : Errand(t, d)
  <1>0. CallsOK /\ CallOK(call[t]) /\ now \in Nat /\ now \in Times /\ call[t].time <= now /\ ShardsOK
        /\ (\A x \in ShardIds : IndexedHaveTTL(shards[x])) /\ TTLs \subseteq Nat
    BY CallAt, EngineAssumption DEF IndexInv, EInv, Times
  <1>1. PICK c, k, s : c = call[t] /\ k = c.key /\ s = GetShard(k)
    OBVIOUS
  <1>2. /\ IsCall(c) /\ c.op = "Set" /\ c.at = "shard" /\ k \in Keys /\ c.value \in Values
        /\ c.ttl \in TTLs \cup {None} /\ UNCHANGED <<ttl_index, now>>
    BY <1>0, <1>1 DEF SetInShard, Calling, At, CallOK, PhaseOK, Idle
  <1>3. /\ s \in ShardIds /\ k \in KeysOf(s) /\ ShardOK(shards[s], KeysOf(s), Values) /\ IndexedHaveTTL(shards[s])
        /\ DOMAIN shards[s].ttl.key_index \subseteq DOMAIN shards[s].store
    <2>1. s \in ShardIds /\ k \in KeysOf(s)
      BY <1>1, <1>2, GetShardFacts
    <2>2. ShardOK(shards[s], KeysOf(s), Values) /\ IndexedHaveTTL(shards[s])
      BY <1>0, <2>1 DEF ShardsOK
    <2>3. ShardCore(shards[s], KeysOf(s), Values)
      BY <2>2 DEF ShardOK
    <2> QED BY <2>1, <2>2, <2>3, CoreElim
  <1>4. PICK a, r, entry, idx :
          /\ Goto(t, a) /\ a \in {"clock", "index"}
          /\ shards' = [shards EXCEPT ![s] = r]
          /\ WroteStore(r, shards[s], k, entry, idx)
          /\ IndexedHaveTTL(r)
          /\ HasTTL(entry) <=> c.ttl # None
          /\ c.ttl # None => a = "clock" /\ entry.expire_at = now + c.ttl
    <2>1. CASE c.ttl = None
      <3>1. PICK r : shards' = [shards EXCEPT ![s] = r] /\ r = ShardSet(shards[s], k, c.value) /\ Goto(t, "index")
        BY <1>1, <2>1 DEF SetInShard
      <3>2. PICK idx : /\ WroteStore(r, shards[s], k, Entry(c.value, 0, 0), idx)
                       /\ DOMAIN idx.key_index = DOMAIN shards[s].ttl.key_index \ {k}
        BY <1>2, <1>3, <3>1, ShardSetStore DEF IndexWithout
      <3>3. PICK e : e = Entry(c.value, 0, 0)
        OBVIOUS
      <3>4. ~HasTTL(e)
        BY <3>3 DEF Entry, HasTTL
      <3>5. IndexedHaveTTL(r)
        BY <1>3, <3>2, WriteKeepsExact
      <3> QED BY <2>1, <3>1, <3>2, <3>3, <3>4, <3>5
    <2>2. CASE c.ttl # None
      <3>0. c.ttl \in TTLs /\ c.ttl \in Nat
        BY <1>0, <1>2, <2>2
      <3>1. PICK r : /\ shards' = [shards EXCEPT ![s] = r] /\ Goto(t, "clock")
                     /\ r = ShardSetWithTTL(shards[s], k, c.value, c.ttl, now)
        BY <1>1, <2>2 DEF SetInShard
      <3>2. PICK idx : /\ WroteStore(r, shards[s], k, Entry(c.value, now, c.ttl), idx)
                       /\ DOMAIN idx.key_index \subseteq DOMAIN shards[s].ttl.key_index \cup {k}
        <4>1. PICK e : e = Entry(c.value, now, c.ttl)
          OBVIOUS
        <4>2. PICK idx : WroteStore(r, shards[s], k, e, idx) /\ IndexAfterWrite(idx, shards[s].ttl, k, e)
          BY <1>0, <1>2, <1>3, <3>0, <3>1, <4>1, ShardSetWithTTLStore
        <4> QED BY <4>1, <4>2 DEF IndexAfterWrite
      <3>3. PICK e : e = Entry(c.value, now, c.ttl)
        OBVIOUS
      <3>4. HasTTL(e) /\ e.expire_at = now + c.ttl
        BY <1>0, <3>0, <3>3, NewEntry
      <3>5. IndexedHaveTTL(r)
        BY <1>3, <3>2, <3>3, <3>4, WriteKeepsExact
      <3> QED BY <2>2, <3>1, <3>2, <3>3, <3>4, <3>5
    <2> QED BY <2>1, <2>2
  <1>5. PICK d : MovedTo(d, c, a) /\ call' = [call EXCEPT ![t] = d]
    BY <1>0, <1>1, <1>4, GotoFacts
  <1>6. d.op = "Set" /\ d.key = k /\ d.at = a /\ d.ttl = c.ttl /\ d.time = c.time
    BY <1>1, <1>2, <1>5 DEF MovedTo
  <1>7. \A x \in ShardIds : IndexedHaveTTL(shards'[x])
    BY <1>0, <1>3, <1>4, IndexesStay
  <1>8. ASSUME NEW x \in Stored'
        PROVE  IF x = k THEN EntryAt(x)' = entry ELSE x \in Stored /\ EntryAt(x)' = EntryAt(x)
    <2>1. x \in Keys /\ x \in DOMAIN shards'[GetShard(x)].store /\ EntryAt(x)' = shards'[GetShard(x)].store[x]
      BY <1>8 DEF Stored, Store, GetShard, EntryAt
    <2>2. GetShard(x) \in ShardIds
      BY <2>1, GetShardFacts
    <2>3. shards'[GetShard(x)] = IF GetShard(x) = s THEN r ELSE shards[GetShard(x)]
      BY <1>0, <1>4, <2>2 DEF ShardsOK
    <2>4. PICK lost : r.store = [y \in (DOMAIN shards[s].store \cup {k}) \ lost |-> IF y = k THEN entry ELSE shards[s].store[y]]
      BY <1>4 DEF WroteStore
    <2>5. CASE GetShard(x) = s
      BY <2>1, <2>3, <2>4, <2>5 DEF Stored, Store, EntryAt
    <2>6. CASE GetShard(x) # s
      BY <1>1, <2>1, <2>3, <2>6 DEF Stored, Store, EntryAt
    <2> QED BY <2>5, <2>6
  <1>9. ASSUME NEW x \in Stored', x = k
        PROVE  Registering(d, x) /\ ~Expiring(d, x) /\ RegisterOK(d, EntryAt(x)', now)
    <2>1. EntryAt(x)' = entry
      BY <1>8, <1>9
    <2>2. c.ttl # None => entry.expire_at <= now + c.ttl
      <3>1. \A n \in Nat : now + n <= now + n
        BY <1>0
      <3>2. c.ttl # None => c.ttl \in Nat
        BY <1>0, <1>2
      <3> QED BY <1>4, <3>1, <3>2
    <2> QED BY <1>4, <1>6, <1>9, <2>1, <2>2 DEF Registering, Expiring, RegisterOK
  <1>10. ASSUME NEW x \in Stored', x # k
         PROVE  ~Registering(d, x) /\ ~Expiring(d, x) /\ Agrees(ttl_index', x, EntryAt(x)')
    <2>1. x \in Stored /\ EntryAt(x)' = EntryAt(x)
      BY <1>8, <1>10
    <2>2. ~Registering(call[t], x) /\ ~Expiring(call[t], x)
      BY <1>1, <1>2 DEF Registering, Expiring
    <2>3. Agrees(ttl_index, x, EntryAt(x))
      BY <1>1, <1>2, <2>1, <2>2, CallerKnows
    <2> QED BY <1>2, <1>6, <1>10, <2>1, <2>3 DEF Registering, Expiring
  <1>11. ~Dropping(d) /\ d.time <= now
    BY <1>0, <1>1, <1>6 DEF Dropping
  <1>12. Errand(t, d)
    BY <1>1, <1>2, <1>5, <1>7, <1>9, <1>10, <1>11 DEF Errand
  <1> QED BY <1>12

\* An expiry time is a time.
LEMMA EntryTimes ==
  ASSUME ShardsOK, NEW k \in Stored
  PROVE  EntryAt(k).expire_at \in Nat
  <1>1. k \in Keys /\ GetShard(k) \in ShardIds /\ k \in DOMAIN shards[GetShard(k)].store
    BY GetShardFacts DEF Stored, Store
  <1>2. ShardCore(shards[GetShard(k)], KeysOf(GetShard(k)), Values)
    BY <1>1 DEF ShardsOK, ShardOK
  <1>3. shards[GetShard(k)].store \in [DOMAIN shards[GetShard(k)].store -> EntryType(Values)]
    BY <1>2, CoreElim
  <1>4. EntryAt(k) \in EntryType(Values)
    BY <1>1, <1>3 DEF EntryAt, Store
  <1> QED BY <1>4, TimeModAssumption DEF EntryType, Timestamps

\* The access to the index ends (kv_engine.h:65, 69, 94, 113, 126).
LEMMA EndIndexErrand ==
  ASSUME OneCaller, IndexInv, NEW t \in Threads, EndIndex(t)
  PROVE  \E d : Errand(t, d)
  <1>0. /\ CallsOK /\ CallOK(call[t]) /\ now \in Nat /\ now <= MaxTime /\ call[t].time <= now /\ ShardsOK
        /\ \A x \in ShardIds : IndexedHaveTTL(shards[x])
        /\ TTLs \subseteq Nat /\ MaxTime \in Nat /\ TimeMod \in Nat \ {0}
    BY CallAt, EngineAssumption, TimeModAssumption DEF IndexInv, EInv, Times
  <1>1. PICK c, k : c = call[t] /\ k = c.key
    OBVIOUS
  <1>2. /\ IsCall(c) /\ PhaseOK(c) /\ c.time \in Nat /\ c.ttl \in TTLs \cup {None} /\ c.at = "inIndex"
        /\ UNCHANGED <<shards, now>>
    BY <1>0, <1>1 DEF CallOK, EndIndex, At
  <1>3. /\ c.op \in {"Set", "Delete", "ProcessExpired", "ProcessEvictions"}
        /\ c.op # "ProcessExpired" => k \in Keys
    BY <1>1, <1>2 DEF PhaseOK, Idle
  <1>4. IndexType(ttl_index, Keys, Timestamps) /\ IndexConsistent(ttl_index) /\ Timestamps \subseteq Nat
    BY <1>0 DEF IndexInv, EInv, IndexOK, Timestamps
  <1>5. PICK idx, ki : idx = ttl_index' /\ ki = ttl_index.key_index
    OBVIOUS
  <1>6. /\ \A x \in ShardIds : IndexedHaveTTL(shards'[x])
        /\ Stored' = Stored
        /\ \A x : EntryAt(x)' = EntryAt(x)
    BY <1>0, <1>2 DEF Stored, Store, GetShard, EntryAt
  <1>7. ASSUME NEW x \in Stored, ~Registering(c, x) PROVE Agrees(ttl_index, x, EntryAt(x))
    <2>1. ~Expiring(c, x)
      BY <1>2 DEF Expiring
    <2>2. c.op \notin {"idle", "CleanupExpired"}
      BY <1>3
    <2> QED BY <1>1, <1>7, <2>1, <2>2, CallerKnows
  <1>8. CASE c.op = "ProcessExpired"
    <2>1. PICK X : X = ExpiredKeys(ttl_index, c.time)
      OBVIOUS
    <2>2. call' = [call EXCEPT ![t].at = "next", ![t].todo = X] /\ idx = CollectExpired(ttl_index, c.time)
      BY <1>1, <1>5, <1>8, <2>1 DEF EndIndex, IndexAfter
    <2>3. /\ \A x : x \in X <=> x \in DOMAIN ki /\ ki[x] <= c.time
          /\ IndexWithout(idx, ttl_index, X)
      BY <1>2, <1>4, <1>5, <2>1, <2>2, CollectExpiredFacts
    <2>4. PICK d : d = [c EXCEPT !.at = "next", !.todo = X]
      OBVIOUS
    <2>5. call' = [call EXCEPT ![t] = d]
      BY <1>0, <1>1, <2>2, <2>4 DEF CallsOK
    <2>6. d.op = c.op /\ d.at = "next" /\ d.todo = X /\ d.time = c.time
      BY <1>2, <2>4 DEF IsCall
    <2>7. \A x : ~Registering(d, x) /\ ~Registering(c, x) /\ (Expiring(d, x) <=> x \in X)
      BY <1>8, <2>6 DEF Registering, Expiring
    <2>8. ASSUME NEW x \in Stored, x \in X PROVE IsExpired(EntryAt(x), now)
      <3>1. x \in DOMAIN ki /\ ki[x] <= c.time /\ c.time <= now /\ ki[x] \in Nat
        BY <1>0, <1>1, <1>4, <1>5, <2>3, <2>8 DEF IndexType
      <3>2. HasTTL(EntryAt(x)) /\ ki[x] >= EntryAt(x).expire_at
        BY <1>5, <1>7, <2>7, <2>8, <3>1 DEF Agrees
      <3>3. EntryAt(x).expire_at \in Nat
        BY <2>8, EntryTimes DEF IndexInv, EInv
      <3> QED BY <1>0, <1>1, <1>2, <3>1, <3>2, <3>3 DEF IsExpired
    <2>9. ASSUME NEW x \in Stored, x \notin X PROVE Agrees(idx, x, EntryAt(x))
      <3>1. Agrees(ttl_index, x, EntryAt(x))
        BY <1>7, <2>7, <2>9
      <3> QED BY <1>5, <2>3, <2>9, <3>1 DEF Agrees, IndexWithout
    <2>10. ~Dropping(d) /\ d.time <= now
      BY <1>0, <1>1, <1>8, <2>6 DEF Dropping
    <2>11. Errand(t, d)
      BY <1>1, <1>2, <1>3, <1>5, <1>6, <2>5, <2>7, <2>8, <2>9, <2>10 DEF Errand
    <2> QED BY <2>11
  <1>9. CASE c.op # "ProcessExpired"
    <2>1. PICK a : a \in {"policy", "next"} /\ Goto(t, a)
      BY <1>1, <1>3, <1>9 DEF EndIndex
    <2>2. PICK d : MovedTo(d, c, a) /\ call' = [call EXCEPT ![t] = d]
      BY <1>0, <1>1, <2>1, GotoFacts
    <2>3. d.op = c.op /\ d.at = a /\ d.time = c.time
      BY <2>2 DEF MovedTo
    <2>4. /\ ~Dropping(d) /\ d.time <= now
          /\ \A x : ~Registering(d, x) /\ ~Expiring(d, x)
      BY <1>0, <1>1, <1>9, <2>1, <2>3 DEF Dropping, Registering, Expiring
    <2>5. ASSUME NEW x \in Stored PROVE Agrees(idx, x, EntryAt(x))
      <3>1. CASE c.op = "Set" /\ c.ttl # None
        <4>0. c.ttl \in TTLs /\ c.ttl \in Nat
          BY <1>0, <1>2, <3>1
        <4>1. PICK e : e = (c.time + c.ttl) % TimeMod
          OBVIOUS
        <4>2. e = c.time + c.ttl /\ e \in Timestamps
          <5>1. MaxTime + c.ttl < TimeMod
            BY <4>0 DEF OneCaller
          <5> QED BY <1>0, <1>1, <1>2, <4>0, <4>1, <5>1 DEF Timestamps
        <4>3. idx = Upsert(ttl_index, k, e)
          BY <1>1, <1>5, <3>1, <4>1 DEF EndIndex, IndexAfter
        <4>4. /\ DOMAIN idx.key_index = DOMAIN ki \cup {k}
              /\ idx.key_index[k] = e
              /\ \A y \in DOMAIN ki : y # k => idx.key_index[y] = ki[y]
          BY <1>3, <1>4, <1>5, <3>1, <4>2, <4>3, UpsertFacts
        <4>5. CASE x = k
          <5>1. Registering(c, x)
            BY <1>1, <1>2, <3>1, <4>5 DEF Registering
          <5>2. RegisterOK(c, EntryAt(x), now)
            BY <1>1, <2>5, <5>1 DEF IndexInv
          <5>3. HasTTL(EntryAt(x)) /\ EntryAt(x).expire_at <= c.time + c.ttl
            BY <1>2, <3>1, <5>2 DEF RegisterOK
          <5>4. EntryAt(x).expire_at \in Nat
            BY <2>5, EntryTimes DEF IndexInv, EInv
          <5> QED BY <1>2, <4>0, <4>2, <4>4, <4>5, <5>3, <5>4 DEF Agrees
        <4>6. CASE x # k
          <5>1. Agrees(ttl_index, x, EntryAt(x))
            BY <1>1, <1>7, <4>6 DEF Registering
          <5> QED BY <1>5, <4>4, <4>6, <5>1 DEF Agrees
        <4> QED BY <4>5, <4>6
      <3>2. CASE ~(c.op = "Set" /\ c.ttl # None)
        <4>1. idx = TtlRemove(ttl_index, k)
          BY <1>1, <1>5, <1>9, <3>2 DEF EndIndex, IndexAfter
        <4>2. /\ DOMAIN idx.key_index = DOMAIN ki \ {k}
              /\ \A y \in DOMAIN idx.key_index : idx.key_index[y] = ki[y]
          <5>1. /\ IndexType(idx, Keys, Timestamps) /\ IndexConsistent(idx)
                /\ DOMAIN idx.key_index = DOMAIN ttl_index.key_index \ {k}
                /\ \A y \in DOMAIN idx.key_index : idx.key_index[y] = ttl_index.key_index[y]
            BY <1>4, <4>1, TtlRemoveFacts
          <5> QED BY <1>5, <5>1
        <4>3. CASE x = k
          <5>1. c.op = "Set"
            <6>1. c.op # "Set" => Dropping(c)
              BY <1>2, <1>3, <1>9 DEF Dropping
            <6>2. Dropping(c) => k \notin Stored
              BY <1>1 DEF IndexInv
            <6> QED BY <2>5, <4>3, <6>1, <6>2
          <5>2. Registering(c, x)
            BY <1>1, <1>2, <5>1, <4>3 DEF Registering
          <5>3. RegisterOK(c, EntryAt(x), now)
            BY <1>1, <2>5, <5>2 DEF IndexInv
          <5> QED BY <3>2, <4>2, <4>3, <5>1, <5>3 DEF Agrees, RegisterOK
        <4>4. CASE x # k
          <5>1. Agrees(ttl_index, x, EntryAt(x))
            BY <1>1, <1>7, <4>4 DEF Registering
          <5> QED BY <1>5, <4>2, <4>4, <5>1 DEF Agrees
        <4> QED BY <4>3, <4>4
      <3> QED BY <3>1, <3>2
    <2>6. Errand(t, d)
      BY <1>1, <1>2, <1>3, <1>5, <1>6, <2>2, <2>4, <2>5 DEF Errand
    <2> QED BY <2>6
  <1> QED BY <1>8, <1>9

\* The clock moves on: what was due stays due, and what is on its way to the
\* index stays as late.
LEMMA LaterAgreement ==
  ASSUME IndexInv, EInv', UsersOnly', UNCHANGED <<shards, ttl_index>>, now <= now',
         \A t \in Threads : /\ call'[t].time = call[t].time
                            /\ Dropping(call'[t]) => Dropping(call[t]) /\ call'[t].key = call[t].key
                            /\ \A k : /\ Registering(call'[t], k) <=> Registering(call[t], k)
                                      /\ Expiring(call'[t], k) <=> Expiring(call[t], k)
                                      /\ Registering(call[t], k) => call'[t] = call[t]
  PROVE  IndexInv'
  <1>1. now \in Nat /\ now' \in Nat
    BY EngineAssumption DEF IndexInv, EInv, Times
  <1>2. /\ Stored' = Stored
        /\ \A x : EntryAt(x)' = EntryAt(x)
    BY DEF Stored, Store, GetShard, EntryAt
  <1>3. \A x \in Stored : EntryAt(x).expire_at \in Nat
    BY EntryTimes DEF IndexInv, EInv
  <1>4. ASSUME NEW t \in Threads
        PROVE  /\ call'[t].time <= now'
               /\ Dropping(call'[t]) => call'[t].key \notin Stored
               /\ \A k \in Stored :
                    /\ Registering(call'[t], k) => RegisterOK(call'[t], EntryAt(k), now')
                    /\ Expiring(call'[t], k) => IsExpired(EntryAt(k), now')
    <2>1. /\ call[t].time \in Nat /\ call[t].time <= now /\ CallOK(call[t])
          /\ Dropping(call[t]) => call[t].key \notin Stored
      BY CallAt DEF IndexInv, CallOK
    <2>2. ASSUME NEW k \in Stored, Registering(call'[t], k) PROVE RegisterOK(call'[t], EntryAt(k), now')
      <3>0. Registering(call[t], k) /\ call'[t] = call[t]
        BY <2>2
      <3>1. RegisterOK(call[t], EntryAt(k), now)
        BY <2>2, <3>0 DEF IndexInv
      <3>2. call[t].ttl = None \/ call[t].ttl \in Nat
        BY <2>1, EngineAssumption DEF CallOK
      <3>3. EntryAt(k).expire_at \in Nat
        BY <1>3, <2>2
      <3> QED BY <1>1, <2>1, <3>0, <3>1, <3>2, <3>3 DEF RegisterOK
    <2>3. ASSUME NEW k \in Stored, Expiring(call'[t], k) PROVE IsExpired(EntryAt(k), now')
      <3>1. IsExpired(EntryAt(k), now)
        BY <2>3 DEF IndexInv
      <3>2. EntryAt(k).expire_at \in Nat
        BY <1>3, <2>3
      <3> QED BY <1>1, <3>1, <3>2 DEF IsExpired
    <2> QED BY <1>1, <2>1, <2>2, <2>3
  <1>5. \A k \in Stored : Settled(k)' => Agrees(ttl_index, k, EntryAt(k))
    <2>1. ASSUME NEW k \in Stored, Settled(k)' PROVE Settled(k)
      <3>1. \A t \in Threads : ~Registering(call'[t], k) /\ ~Expiring(call'[t], k)
        BY <2>1 DEF Settled, Registering, Expiring
      <3> QED BY <3>1 DEF Settled
    <2> QED BY <2>1 DEF IndexInv
  <1>6. \A s \in ShardIds : IndexedHaveTTL(shards[s])
    BY DEF IndexInv
  <1> QED BY <1>2, <1>4, <1>5, <1>6 DEF IndexInv

\* The clock moves by itself.
LEMMA ClockAgreement ==
  ASSUME OneCaller, IndexInv, EInv', UsersOnly', ClockMoves
  PROVE  IndexInv'
  <1>1. now <= now' /\ UNCHANGED <<shards, ttl_index, call>>
    BY DEF OneCaller, ClockMoves, Later
  <1> QED BY <1>1, LaterAgreement

\* The clock moves while GetAllKeys reads a shard, which has nothing on its way
\* to the index.
LEMMA ScanAgreement ==
  ASSUME OneCaller, IndexInv, EInv', UsersOnly', NEW t \in Threads, ScanShard(t)
  PROVE  IndexInv'
  <1>0. CallsOK /\ CallOK(call[t])
    BY CallAt DEF IndexInv
  <1>1. PICK c : c = call[t] /\ IsCall(c)
    BY <1>0 DEF CallOK
  <1>2. PICK times, x, left, rep, a, d :
           /\ x = call[t] /\ left = x.todo \ {Min(x.todo)}
           /\ rep = x.reply \cup ShardGetAllKeys(shards[Min(x.todo)], times)
           /\ a = IF left = {} THEN "return" ELSE "scan"
           /\ d = [x EXCEPT !.todo = left, !.reply = rep, !.at = a]
           /\ call' = [call EXCEPT ![t] = d]
    BY <1>0, ScanMoves
  <1>3. x = c /\ d = [c EXCEPT !.todo = left, !.reply = rep, !.at = a] /\ call' = [call EXCEPT ![t] = d]
    BY <1>1, <1>2
  <1>4. d.op = c.op /\ d.time = c.time
    BY <1>1, <1>3 DEF IsCall
  <1>5. \A u \in Threads : call'[u] = IF u = t THEN d ELSE call[u]
    BY <1>0, <1>3 DEF CallsOK
  <1>6. c.op = "GetAllKeys"
    BY <1>1 DEF ScanShard, Calling
  <1>7. Quiet(d) /\ ~Dropping(d) /\ Quiet(c)
    BY <1>4, <1>6 DEF Quiet, Registering, Expiring, Dropping
  <1>8. now <= now' /\ UNCHANGED <<shards, ttl_index>>
    BY DEF OneCaller, ScanShard, Later
  <1>9. \A u \in Threads : /\ call'[u].time = call[u].time
                           /\ Dropping(call'[u]) => Dropping(call[u]) /\ call'[u].key = call[u].key
                           /\ \A k : /\ Registering(call'[u], k) <=> Registering(call[u], k)
                                     /\ Expiring(call'[u], k) <=> Expiring(call[u], k)
                                     /\ Registering(call[u], k) => call'[u] = call[u]
    BY <1>1, <1>4, <1>5, <1>7 DEF Quiet
  <1> QED BY <1>8, <1>9, LaterAgreement

\* At the start nothing is stored.
LEMMA InitIndexInv == Init => IndexInv
  <1> SUFFICES ASSUME Init PROVE IndexInv
    OBVIOUS
  <1>1. \A s \in ShardIds : DOMAIN shards[s].store = {} /\ DOMAIN shards[s].ttl.key_index = {}
    BY DEF Init, EmptyShard, EmptyIndex
  <1>2. Stored = {}
    BY <1>1, GetShardFacts DEF Stored, Store
  <1>3. \A t \in Threads : call[t].time <= now /\ call[t].op = "idle"
    BY DEF Init, Idle
  <1>4. \A s \in ShardIds : IndexedHaveTTL(shards[s])
    BY <1>1 DEF IndexedHaveTTL
  <1>5. UsersOnly
    BY <1>3 DEF UsersOnly
  <1> QED BY <1>2, <1>3, <1>4, <1>5, InitEInv DEF IndexInv

\* Every step keeps the agreement.
LEMMA NextIndexInv ==
  ASSUME OneCaller, IndexInv, [Next]_vars
  PROVE  IndexInv'
  <1>1. EInv' /\ UsersOnly'
    BY NextEInv, NextUsersOnly DEF IndexInv
  <1>2. ASSUME NEW t \in Threads, \E d : Calm(t, d) PROVE IndexInv'
    BY <1>1, <1>2, CalmStep
  <1>3. ASSUME NEW t \in Threads, \E d : Errand(t, d) PROVE IndexInv'
    BY <1>1, <1>3, ErrandStep
  <1>4. ASSUME NEW t \in Threads, Step(t) PROVE IndexInv'
    BY <1>1, <1>2, <1>3, <1>4, QuietSteps, ScanAgreement, ErrandSteps, ThinningSteps, SetErrand,
       EndIndexErrand DEF Step
  <1>5. ASSUME NEW t \in Clients, NEW k \in Keys, NEW v \in Values, NEW ttl \in TTLs \cup {None},
               BeginSet(t, k, v, ttl)
        PROVE  IndexInv'
    BY <1>2, <1>5, BeginsCalm DEF Threads
  <1>6. ASSUME NEW t \in Clients, NEW k \in Keys, BeginGet(t, k) \/ BeginDelete(t, k) PROVE IndexInv'
    BY <1>2, <1>6, BeginsCalm DEF Threads
  <1>7. ASSUME NEW t \in Clients, BeginGetAllKeys(t) PROVE IndexInv'
    BY <1>2, <1>7, BeginsCalm DEF Threads
  <1>8. ASSUME NEW t \in Maintainers, BeginProcessExpired(t) \/ BeginProcessEvictions(t) PROVE IndexInv'
    BY <1>2, <1>8, BeginsCalm DEF Threads
  <1>9. ASSUME NEW t \in Sweepers, BeginCleanupExpired(t) PROVE IndexInv'
    BY <1>2, <1>9, BeginsCalm DEF Threads
  <1>10. CASE ClockMoves
    BY <1>1, <1>10, ClockAgreement
  <1>11. CASE UNCHANGED vars
    <2>1. UNCHANGED <<shards, ttl_index, now, call>>
      BY <1>11 DEF vars
    <2>2. /\ Stored' = Stored
          /\ \A x : EntryAt(x)' = EntryAt(x)
      BY <2>1 DEF Stored, Store, GetShard, EntryAt
    <2>3. \A k : Settled(k)' <=> Settled(k)
      BY <2>1 DEF Settled, Registering, Expiring
    <2>4. /\ \A s \in ShardIds : IndexedHaveTTL(shards'[s])
          /\ \A t \in Threads :
                /\ call'[t].time <= now'
                /\ Dropping(call'[t]) => call'[t].key \notin Stored'
                /\ \A k \in Stored' :
                      /\ Registering(call'[t], k) => RegisterOK(call'[t], EntryAt(k)', now')
                      /\ Expiring(call'[t], k) => IsExpired(EntryAt(k)', now')
      BY <2>1, <2>2 DEF IndexInv
    <2>5. \A k \in Stored' : Settled(k)' => Agrees(ttl_index', k, EntryAt(k)')
      BY <2>1, <2>2, <2>3 DEF IndexInv
    <2> QED BY <1>1, <2>4, <2>5 DEF IndexInv
  <1> QED BY <1>4, <1>5, <1>6, <1>7, <1>8, <1>9, <1>10, <1>11 DEF Next

\* Between calls, the engine's own index lists a stored key just when its entry
\* has a TTL, and never at an earlier time, although Set feeds it with a second
\* clock reading and the shards evict and expire keys without telling it
\* (kv_engine.h:56-72): with one thread calling the engine, any sweepers beside
\* it and a clock that is not set back.
THEOREM IndexAgreement ==
  ASSUME OneCaller
  PROVE  Spec => []IndexAgreesWithShards
  <1>1. IndexInv => IndexAgreesWithShards
    <2> SUFFICES ASSUME IndexInv, AllIdle, NEW k \in Stored PROVE Agrees(ttl_index, k, EntryAt(k))
      BY DEF IndexAgreesWithShards, Agrees, EntryAt
    <2>1. Settled(k)
      BY DEF AllIdle, Settled, Registering, Expiring, Idle
    <2> QED BY <2>1 DEF IndexInv
  <1>2. IndexInv /\ [Next]_vars => IndexInv'
    BY NextIndexInv
  <1> QED BY <1>1, <1>2, InitIndexInv, PTL DEF Spec

\* ProcessExpired (kv_engine.h:110-118) and CleanupExpired (shard_manager.h:
\* 109-118) take out of a shard only what is past its time when it is taken
\* out, although ProcessExpired collects its keys from another index and before
\* it reaches the shards.
THEOREM DueWhenDeleted ==
  ASSUME OneCaller
  PROVE  Spec => ExpiresOnlyDue
  <1> DEFINE A == \A t \in Threads, k \in Stored \ Stored' :
                    \/ Calling(t, "ProcessExpired", "shard") /\ DeleteInShard(t)
                    \/ SweepShard(t)
                    => IsExpired(Store(k)[k], now)
  <1>1. IndexInv /\ [Next]_vars => [A]_vars
    <2> SUFFICES ASSUME IndexInv, NEW t \in Threads, NEW k \in Stored \ Stored',
                        \/ Calling(t, "ProcessExpired", "shard") /\ DeleteInShard(t)
                        \/ SweepShard(t)
                 PROVE  IsExpired(EntryAt(k), now)
      BY DEF EntryAt
    <2>0. /\ CallOK(call[t]) /\ ShardsOK /\ call[t].time <= now /\ now \in Nat
          /\ \A x \in ShardIds : IndexedHaveTTL(shards[x])
      BY CallAt DEF IndexInv, EInv, Times
    <2>1. PICK c : c = call[t]
      OBVIOUS
    <2>2. /\ k \in Keys /\ GetShard(k) \in ShardIds /\ k \in DOMAIN shards[GetShard(k)].store
          /\ k \notin DOMAIN shards'[GetShard(k)].store
      BY GetShardFacts DEF Stored, Store, GetShard
    <2>3. ASSUME NEW s \in ShardIds, NEW r, shards' = [shards EXCEPT ![s] = r]
          PROVE  GetShard(k) = s /\ k \in DOMAIN shards[s].store /\ k \notin DOMAIN r.store
      BY <2>0, <2>2, <2>3 DEF ShardsOK
    <2>4. ASSUME NEW s \in ShardIds
          PROVE  ShardOK(shards[s], KeysOf(s), Values) /\ IndexedHaveTTL(shards[s])
      BY <2>0 DEF ShardsOK
    <2>5. CASE Calling(t, "ProcessExpired", "shard") /\ DeleteInShard(t)
      <3>1. c.op = "ProcessExpired" /\ c.at = "shard" /\ c.key \in Keys
        BY <2>0, <2>1, <2>5 DEF Calling, At, CallOK, PhaseOK, Idle
      <3>2. PICK s, r : /\ s = GetShard(c.key) /\ r = ShardDelete(shards[s], c.key)
                        /\ shards' = [shards EXCEPT ![s] = r]
        BY <2>1, <2>5 DEF DeleteInShard
      <3>3. s \in ShardIds
        BY <3>1, <3>2, GetShardFacts
      <3>4. DOMAIN r.store = DOMAIN shards[s].store \ {c.key}
        BY <2>4, <3>2, <3>3, Thinnings
      <3>5. k = c.key
        BY <2>3, <3>2, <3>3, <3>4
      <3>6. Expiring(c, k)
        BY <3>1, <3>5 DEF Expiring
      <3> QED BY <2>1, <3>6 DEF IndexInv
    <2>6. CASE SweepShard(t)
      <3>1. c.todo \subseteq ShardIds /\ c.todo # {} /\ c.time \in Nat /\ c.time <= now
        BY <2>0, <2>1, <2>6 DEF SweepShard, Calling, At, CallOK, PhaseOK, Idle
      <3>2. PICK s, r : /\ s = Min(c.todo) /\ r = ShardCleanupExpired(shards[s], c.time)
                        /\ shards' = [shards EXCEPT ![s] = r]
        BY <2>1, <2>6 DEF SweepShard
      <3>3. s \in ShardIds
        BY <3>1, <3>2, NextShard
      <3>4. k \in DOMAIN shards[s].store \ DOMAIN r.store /\ GetShard(k) = s
        BY <2>3, <3>2, <3>3
      <3>5. IsExpired(shards[s].store[k], c.time)
        BY <2>4, <3>1, <3>2, <3>3, <3>4, Thinnings
      <3>6. IsExpired(EntryAt(k), c.time)
        BY <3>4, <3>5 DEF EntryAt, Store
      <3>7. EntryAt(k).expire_at \in Nat
        BY <2>0, EntryTimes
      <3> QED BY <2>0, <3>1, <3>6, <3>7 DEF IsExpired
    <2> QED BY <2>5, <2>6
  <1>2. IndexInv /\ [Next]_vars => IndexInv'
    BY NextIndexInv
  <1> HIDE DEF A
  <1>3. Spec => [][A]_vars
    BY <1>1, <1>2, InitIndexInv, PTL DEF Spec
  <1> QED BY <1>3, PTL DEF ExpiresOnlyDue, A

-----------------------------------------------------------------------------
(* The recency list *)

\* One client, no maintenance; any sweepers, any clock.
OneClient == Maintainers = {} /\ \A t, u \in Clients : t = u

\* o holds some of the keys of l, in the order of l.
Follows(o, l) == (\A x : Contains(o, x) => Contains(l, x)) /\ KeepsOrder(o, l)

\* The key has been touched in its shard and not yet in the policy.
Touching(c) ==
    \/ c.op = "Set" /\ c.at \in {"clock", "index", "inIndex", "policy"}
    \/ c.op = "Get" /\ c.at = "policy"

\* The key has been deleted in its shard and not yet in the policy.
Forgetting(c) == c.op = "Delete" /\ c.at \in {"index", "inIndex", "policy"}

PolicyInv ==
    /\ EInv
    /\ UsersOnly
    /\ \A t \in Threads :
          /\ call[t].op \notin {"ProcessExpired", "ProcessEvictions"}
          /\ Forgetting(call[t]) => call[t].key \notin Stored
          /\ Touching(call[t]) =>
                \A s \in ShardIds : Follows(shards[s].order, LruTouch(lru, call[t].key))
    /\ (\A u \in Threads : ~Touching(call[u])) => \A s \in ShardIds : Follows(shards[s].order, lru)

\* x is in l in front of y.
Before(l, x, y) == \E a, b \in 1..Len(l) : a < b /\ l[a] = x /\ l[b] = y

\* A list without repetitions puts two keys in one order only.
LEMMA OneOrder ==
  ASSUME NEW S, NEW l \in Seq(S), IsInjective(l), NEW x, NEW y, Before(l, x, y)
  PROVE  ~Before(l, y, x) /\ x # y
  <1>1. \A i, j \in 1..Len(l) : l[i] = l[j] => i = j
    BY DEF IsInjective
  <1>2. Len(l) \in Nat
    OBVIOUS
  <1>3. PICK a, b \in 1..Len(l) : a < b /\ l[a] = x /\ l[b] = y
    BY DEF Before
  <1>4. x # y
    BY <1>1, <1>2, <1>3
  <1>5. ASSUME NEW c \in 1..Len(l), NEW d \in 1..Len(l), c < d, l[c] = y, l[d] = x PROVE FALSE
    <2>1. c = b /\ d = a
      BY <1>1, <1>3, <1>5
    <2> QED BY <1>2, <1>3, <1>5, <2>1
  <1> QED BY <1>4, <1>5 DEF Before

\* A list that holds every key of l but one, the others in the order of l.
LEMMA OthersKeepOrder ==
  ASSUME NEW S, NEW l \in Seq(S), NEW m \in Seq(S), IsInjective(l), IsInjective(m), NEW k,
         \A x : Contains(l, x) /\ x # k => Contains(m, x),
         \A i, j \in 1..Len(m) : i < j => m[i] = k \/ m[j] = k \/ Before(l, m[i], m[j]),
         NEW x, NEW y, x # k, y # k, Before(l, x, y)
  PROVE  Before(m, x, y)
  <1>1. Contains(l, x) /\ Contains(l, y)
    BY DEF Before, Contains
  <1>2. PICK i, j \in 1..Len(m) : m[i] = x /\ m[j] = y
    BY <1>1 DEF Contains
  <1>3. ~Before(l, y, x) /\ x # y
    BY OneOrder
  <1>4. ~(j < i) /\ i # j
    BY <1>2, <1>3
  <1>5. i < j
    BY <1>4
  <1> QED BY <1>2, <1>5 DEF Before

\* What follows o follows what o follows.
LEMMA FollowsOn ==
  ASSUME NEW r, NEW o, NEW l, Follows(r, o), Follows(o, l)
  PROVE  Follows(r, l)
  <1>1. \A x : Contains(r, x) => Contains(l, x)
    BY DEF Follows
  <1>2. ASSUME NEW i \in 1..Len(r), NEW j \in 1..Len(r), i < j
        PROVE  \E a, b \in 1..Len(l) : a < b /\ l[a] = r[i] /\ l[b] = r[j]
    <2>1. PICK a, b \in 1..Len(o) : a < b /\ o[a] = r[i] /\ o[b] = r[j]
      BY <1>2 DEF Follows, KeepsOrder
    <2>2. \E c, d \in 1..Len(l) : c < d /\ l[c] = o[a] /\ l[d] = o[b]
      BY <2>1 DEF Follows, KeepsOrder
    <2> QED BY <2>1, <2>2
  <1> QED BY <1>1, <1>2 DEF Follows, KeepsOrder

\* The touch of the policy (eviction_manager.h:56-62) repeats the touch of the
\* shard: o was touched to r, and l follows with the same key.
LEMMA TouchFollows ==
  ASSUME NEW S, NEW l \in Seq(S), IsInjective(l), NEW k \in S, NEW o, Follows(o, l), NEW r,
         KeyThenOrder(r, k, o), \A x : Contains(r, x) => Contains(o, x) \/ x = k,
         NEW m, m = LruTouch(l, k)
  PROVE  Follows(r, m)
  <1>1. /\ m \in Seq(S) /\ m # <<>> /\ m[1] = k /\ IsInjective(m) /\ Contains(m, k)
        /\ KeyThenOrder(m, k, l)
    <2>1. m \in Seq(S) /\ m # <<>>
      BY LruTouchFacts
    <2>2. IsInjective(m) /\ KeyThenOrder(m, k, l)
      BY LruTouchFacts
    <2>3. Contains(m, k)
      BY LruTouchFacts
    <2>4. m[1] = k
      BY DEF LruTouch, LruRemove
    <2> QED BY <2>1, <2>2, <2>3, <2>4
  <1>0. \A x : Contains(l, x) => Contains(m, x)
    BY LruTouchFacts
  <1>2. \A x : Contains(r, x) => Contains(m, x)
    BY <1>0, <1>1 DEF Follows
  <1>3. \A i, j \in 1..Len(m) : i < j => m[i] = k \/ m[j] = k \/ Before(l, m[i], m[j])
    BY <1>1 DEF KeyThenOrder, Before
  <1>4. ASSUME NEW i \in 1..Len(r), NEW j \in 1..Len(r), i < j PROVE Before(m, r[i], r[j])
    <2>1. r[j] # k /\ (r[i] = k \/ \E a, b \in 1..Len(o) : a < b /\ o[a] = r[i] /\ o[b] = r[j])
      BY <1>4 DEF KeyThenOrder
    <2>2. CASE r[i] = k
      <3>1. PICK b \in 1..Len(m) : m[b] = r[j]
        <4>1. Contains(r, r[j])
          BY DEF Contains
        <4> QED BY <1>2, <4>1 DEF Contains
      <3>2. b # 1 /\ Len(m) \in Nat
        BY <1>1, <2>1, <3>1
      <3>3. 1 \in 1..Len(m) /\ 1 < b
        BY <3>1, <3>2
      <3> QED BY <1>1, <2>2, <3>1, <3>3 DEF Before
    <2>3. CASE r[i] # k
      <3>1. PICK a, b \in 1..Len(o) : a < b /\ o[a] = r[i] /\ o[b] = r[j]
        BY <2>1, <2>3
      <3>2. Before(l, r[i], r[j])
        BY <3>1 DEF Follows, KeepsOrder, Before
      <3>3. \A x : Contains(l, x) /\ x # k => Contains(m, x)
        BY <1>0
      <3> QED BY <1>1, <1>3, <2>1, <2>3, <3>2, <3>3, OthersKeepOrder
    <2> QED BY <2>2, <2>3
  <1> QED BY <1>2, <1>4 DEF Follows, KeepsOrder, Before

\* A list without the key follows the policy's list through a touch and through
\* a removal of the key.
LEMMA OthersFollow ==
  ASSUME NEW S, NEW l \in Seq(S), IsInjective(l), NEW k \in S, NEW o, Follows(o, l), ~Contains(o, k)
  PROVE  Follows(o, LruTouch(l, k)) /\ Follows(o, LruRemove(l, k))
  <1>1. \A i \in 1..Len(o) : o[i] # k
    BY DEF Contains
  <1>2. Follows(o, LruTouch(l, k))
    <2>1. KeyThenOrder(o, k, o)
      BY <1>1 DEF KeyThenOrder
    <2> QED BY <2>1, TouchFollows
  <1>3. PICK m : m = LruRemove(l, k)
    OBVIOUS
  <1>4. /\ m \in Seq(S) /\ IsInjective(m)
        /\ \A x : Contains(m, x) <=> Contains(l, x) /\ x # k
        /\ KeepsOrder(m, l)
    BY <1>3, LruRemoveFacts
  <1>5. \A i, j \in 1..Len(m) : i < j => m[i] = k \/ m[j] = k \/ Before(l, m[i], m[j])
    BY <1>4 DEF KeepsOrder, Before
  <1>6. \A x : Contains(o, x) => Contains(m, x)
    BY <1>4 DEF Follows
  <1>7. ASSUME NEW i \in 1..Len(o), NEW j \in 1..Len(o), i < j PROVE Before(m, o[i], o[j])
    <2>1. Before(l, o[i], o[j])
      BY <1>7 DEF Follows, KeepsOrder, Before
    <2>2. o[i] # k /\ o[j] # k
      BY <1>1
    <2>3. \A x : Contains(l, x) /\ x # k => Contains(m, x)
      BY <1>4
    <2> QED BY <1>4, <1>5, <2>1, <2>2, <2>3, OthersKeepOrder
  <1>8. Follows(o, m)
    BY <1>6, <1>7 DEF Follows, KeepsOrder, Before
  <1> QED BY <1>2, <1>3, <1>8

\* How many keys of o the list l has up to x.
Ahead(o, l, x) == {y \in ToSet(o) : y = x \/ Before(l, y, x)}

\* A key of a list that follows l is at the place that l gives it.
LEMMA PlaceFromList ==
  ASSUME NEW S, NEW l \in Seq(S), IsInjective(l), NEW o \in Seq(S), IsInjective(o), Follows(o, l),
         NEW i \in 1..Len(o)
  PROVE  Cardinality(Ahead(o, l, o[i])) = i
  <1>0. Len(o) \in Nat /\ i \in Nat /\ i <= Len(o) /\ \A a, b \in 1..Len(o) : o[a] = o[b] => a = b
    BY DEF IsInjective
  <1>1. \A x : x \in ToSet(o) <=> \E j \in 1..Len(o) : o[j] = x
    BY ToSetFacts DEF Contains
  <1>2. ASSUME NEW j \in 1..i PROVE o[j] \in Ahead(o, l, o[i])
    <2>1. j \in 1..Len(o)
      BY <1>0
    <2>2. CASE j = i
      BY <1>1, <2>1, <2>2 DEF Ahead
    <2>3. CASE j < i
      <3>1. Before(l, o[j], o[i])
        BY <2>1, <2>3 DEF Follows, KeepsOrder, Before
      <3> QED BY <1>1, <2>1, <3>1 DEF Ahead
    <2> QED BY <1>0, <2>2, <2>3
  <1>3. ASSUME NEW x \in Ahead(o, l, o[i]) PROVE \E j \in 1..i : o[j] = x
    <2>1. PICK j \in 1..Len(o) : o[j] = x
      BY <1>1, <1>3 DEF Ahead
    <2>2. ASSUME i < j PROVE FALSE
      <3>1. Before(l, o[i], x)
        BY <2>1, <2>2 DEF Follows, KeepsOrder, Before
      <3>2. ~Before(l, x, o[i]) /\ o[i] # x
        BY <3>1, OneOrder
      <3> QED BY <1>3, <3>2 DEF Ahead
    <2>3. j \in 1..i
      BY <1>0, <2>2
    <2> QED BY <2>1, <2>3
  <1>4. PICK X, f : X = Ahead(o, l, o[i]) /\ f = [j \in 1..i |-> o[j]]
    OBVIOUS
  <1>5. f \in Bijection(1..i, X)
    <2>1. f \in [1..i -> X]
      BY <1>2, <1>4
    <2>2. \A x \in X : \E j \in 1..i : f[j] = x
      BY <1>3, <1>4
    <2>3. IsInjective(f)
      BY <1>0, <1>4 DEF IsInjective
    <2> QED BY <2>1, <2>2, <2>3 DEF Bijection, Injection, Surjection
  <1>6. ExistsBijection(1..i, X)
    BY <1>5 DEF ExistsBijection
  <1>7. IsFiniteSet(1..i) /\ Cardinality(1..i) = i
    BY <1>0, CountTo
  <1>8. Cardinality(X) = i
    BY <1>6, <1>7, FS_Bijection
  <1> QED BY <1>4, <1>8

\* Two lists of the same keys that follow one list are the same list.
LEMMA SameOrder ==
  ASSUME NEW S, NEW l \in Seq(S), IsInjective(l),
         NEW o \in Seq(S), IsInjective(o), Follows(o, l),
         NEW r \in Seq(S), IsInjective(r), Follows(r, l),
         \A x : Contains(o, x) <=> Contains(r, x)
  PROVE  o = r
  <1>0. Len(o) \in Nat /\ Len(r) \in Nat
    OBVIOUS
  <1>1. ToSet(o) = ToSet(r)
    BY ToSetFacts
  <1>2. ASSUME NEW i \in 1..Len(o), NEW j \in 1..Len(r), o[i] = r[j] PROVE i = j
    <2>1. Cardinality(Ahead(o, l, o[i])) = i
      BY PlaceFromList
    <2>2. Cardinality(Ahead(r, l, r[j])) = j
      BY PlaceFromList
    <2> QED BY <1>1, <1>2, <2>1, <2>2 DEF Ahead
  <1>3. \A i \in 1..Len(o) : i \in 1..Len(r) /\ o[i] = r[i]
    <2> TAKE i \in 1..Len(o)
    <2>1. PICK j \in 1..Len(r) : r[j] = o[i]
      BY DEF Contains
    <2> QED BY <1>2, <2>1
  <1>4. \A j \in 1..Len(r) : j \in 1..Len(o)
    <2> TAKE j \in 1..Len(r)
    <2>1. PICK i \in 1..Len(o) : o[i] = r[j]
      BY DEF Contains
    <2> QED BY <1>2, <2>1
  <1>5. Len(o) = Len(r)
    BY <1>0, <1>3, <1>4
  <1> QED BY <1>3, <1>5

\* Between calls the lists agree: the policy's list without the keys of other
\* shards, and those no shard has, is the list of the shard.
LEMMA PolicyInvAgrees == PolicyInv => PolicyAgreesWithShards
  <1> SUFFICES ASSUME PolicyInv, AllIdle, NEW s \in ShardIds
               PROVE  shards[s].order = LruRemoveAll(lru, Keys \ DOMAIN shards[s].store)
    BY DEF PolicyAgreesWithShards
  <1>1. Follows(shards[s].order, lru)
    <2>1. \A t \in Threads : ~Touching(call[t])
      BY DEF AllIdle, Idle, Touching
    <2> QED BY <2>1 DEF PolicyInv
  <1>2. lru \in Seq(Keys) /\ IsInjective(lru) /\ ShardCore(shards[s], KeysOf(s), Values)
    BY DEF PolicyInv, EInv, PolicyOK, ShardsOK, ShardOK
  <1>3. PICK o, D : o = shards[s].order /\ D = DOMAIN shards[s].store
    OBVIOUS
  <1>4. o \in Seq(KeysOf(s)) /\ IsInjective(o) /\ \A x : Contains(o, x) <=> x \in D
    BY <1>2, <1>3, CoreElim
  <1>5. o \in Seq(Keys)
    BY <1>4 DEF KeysOf
  <1>6. PICK r : r = LruRemoveAll(lru, Keys \ D)
    OBVIOUS
  <1>7. /\ r \in Seq(Keys) /\ IsInjective(r)
        /\ \A x : Contains(r, x) <=> Contains(lru, x) /\ x \notin Keys \ D
        /\ KeepsOrder(r, lru)
    BY <1>2, <1>6, LruRemoveAllFacts
  <1>8. Follows(r, lru)
    BY <1>7 DEF Follows
  <1>9. \A x : Contains(lru, x) => x \in Keys
    BY <1>2 DEF Contains
  <1>10. \A x : Contains(o, x) <=> Contains(r, x)
    BY <1>1, <1>3, <1>4, <1>7, <1>9 DEF Follows
  <1>11. o = r
    BY <1>1, <1>2, <1>3, <1>4, <1>5, <1>7, <1>8, <1>10, SameOrder
  <1> QED BY <1>3, <1>6, <1>11

\* Nothing is new in any shard's list.
OrdersShrink == \A s \in ShardIds : Follows(shards'[s].order, shards[s].order)

\* One shard's list changes, the others stay.
LEMMA OneShrinks ==
  ASSUME ShardsOK, NEW s \in ShardIds, NEW r, Follows(r.order, shards[s].order),
         shards' = [shards EXCEPT ![s] = r]
  PROVE  OrdersShrink
  <1>1. \A x \in ShardIds : shards'[x] = IF x = s THEN r ELSE shards[x]
    BY DEF ShardsOK
  <1>2. \A o : Follows(o, o)
    BY DEF Follows, KeepsOrder
  <1> QED BY <1>1, <1>2 DEF OrdersShrink

\* Shards that do not change at all.
LEMMA NoneShrinks ==
  ASSUME UNCHANGED shards
  PROVE  OrdersShrink /\ Stored' = Stored
  <1>1. \A o : Follows(o, o)
    BY DEF Follows, KeepsOrder
  <1> QED BY <1>1 DEF OrdersShrink, Stored, Store, GetShard

\* Removing a key, and CleanupExpired, leave the other keys in their order.
LEMMA ListShrinks ==
  ASSUME NEW K, NEW V, NEW s, ShardOK(s, K, V)
  PROVE  /\ \A k : Follows(RemoveInternal(s, k).order, s.order)
         /\ \A t : Follows(ShardCleanupExpired(s, t).order, s.order)
  <1>1. s.order \in Seq(K) /\ IsInjective(s.order)
    BY CoreElim DEF ShardOK
  <1>2. ASSUME NEW k PROVE Follows(RemoveInternal(s, k).order, s.order)
    <2>1. PICK r : r = LruRemove(s.order, k)
      OBVIOUS
    <2>2. (\A x : Contains(r, x) <=> Contains(s.order, x) /\ x # k) /\ KeepsOrder(r, s.order)
      BY <1>1, <2>1, LruRemoveFacts
    <2> QED BY <2>1, <2>2 DEF RemoveInternal, Follows
  <1>3. ASSUME NEW t PROVE Follows(ShardCleanupExpired(s, t).order, s.order)
    <2>1. PICK X, r : X = ExpiredKeys(s.ttl, t) /\ r = LruRemoveAll(s.order, X)
      OBVIOUS
    <2>2. (\A x : Contains(r, x) <=> Contains(s.order, x) /\ x \notin X) /\ KeepsOrder(r, s.order)
      BY <1>1, <2>1, LruRemoveAllFacts
    <2> QED BY <2>1, <2>2 DEF ShardCleanupExpired, Follows
  <1> QED BY <1>2, <1>3

\* A step of t that leaves the policy's list alone and what t has to tell it.
Unhurried(t, d) ==
    /\ call' = [call EXCEPT ![t] = d]
    /\ lru' = lru
    /\ OrdersShrink
    /\ Stored' \subseteq Stored
    /\ d.op \notin {"ProcessExpired", "ProcessEvictions"}
    /\ Touching(d) <=> Touching(call[t])
    /\ Touching(d) => d.key = call[t].key
    /\ Forgetting(d) => d.key \notin Stored'

\* Such a step keeps every list in step with the policy's.
LEMMA UnhurriedStep ==
  ASSUME PolicyInv, EInv', UsersOnly', NEW t \in Threads, NEW d, Unhurried(t, d)
  PROVE  PolicyInv'
  <1>0. \A u \in Threads : call'[u] = IF u = t THEN d ELSE call[u]
    BY DEF Unhurried, PolicyInv, EInv, CallsOK
  <1>1. ASSUME NEW u \in Threads
        PROVE  /\ call'[u].op \notin {"ProcessExpired", "ProcessEvictions"}
               /\ Forgetting(call'[u]) => call'[u].key \notin Stored'
               /\ Touching(call'[u]) <=> Touching(call[u])
               /\ Touching(call'[u]) => call'[u].key = call[u].key
    <2>1. CASE u = t
      BY <1>0, <2>1 DEF Unhurried
    <2>2. CASE u # t
      BY <1>0, <2>2 DEF Unhurried, PolicyInv
    <2> QED BY <2>1, <2>2
  <1>2. ASSUME NEW l, NEW s \in ShardIds, Follows(shards[s].order, l) PROVE Follows(shards'[s].order, l)
    BY <1>2, FollowsOn DEF Unhurried, OrdersShrink
  <1>3. ASSUME NEW u \in Threads, Touching(call'[u]), NEW s \in ShardIds
        PROVE  Follows(shards'[s].order, LruTouch(lru, call'[u].key))
    <2>1. Touching(call[u]) /\ call'[u].key = call[u].key
      BY <1>1, <1>3
    <2>2. Follows(shards[s].order, LruTouch(lru, call[u].key))
      BY <2>1 DEF PolicyInv
    <2> QED BY <1>2, <2>1, <2>2
  <1>4. ASSUME \A u \in Threads : ~Touching(call'[u]), NEW s \in ShardIds
        PROVE  Follows(shards'[s].order, lru)
    <2>1. \A u \in Threads : ~Touching(call[u])
      BY <1>1, <1>4
    <2>2. Follows(shards[s].order, lru)
      BY <2>1 DEF PolicyInv
    <2> QED BY <1>2, <2>2
  <1>5. lru' = lru
    BY DEF Unhurried
  <1>6. \A u \in Threads :
          /\ call'[u].op \notin {"ProcessExpired", "ProcessEvictions"}
          /\ Forgetting(call'[u]) => call'[u].key \notin Stored'
          /\ Touching(call'[u]) =>
                \A s \in ShardIds : Follows(shards'[s].order, LruTouch(lru', call'[u].key))
    BY <1>1, <1>3, <1>5
  <1>7. (\A u \in Threads : ~Touching(call'[u])) => \A s \in ShardIds : Follows(shards'[s].order, lru')
    BY <1>4, <1>5
  <1> QED BY <1>6, <1>7 DEF PolicyInv, Touching, Forgetting

\* A step of the client in which a touch or a removal begins or ends.
Telling(t, d) ==
    /\ call[t].op \notin {"idle", "CleanupExpired"}
    /\ call' = [call EXCEPT ![t] = d]
    /\ d.op \notin {"ProcessExpired", "ProcessEvictions"}
    /\ ~Forgetting(d)
    /\ \A s \in ShardIds :
          Follows(shards'[s].order, IF Touching(d) THEN LruTouch(lru', d.key) ELSE lru')

\* No other thread has anything to tell the policy.
LEMMA TellingStep ==
  ASSUME OneClient, PolicyInv, EInv', UsersOnly', NEW t \in Threads, NEW d, Telling(t, d)
  PROVE  PolicyInv'
  <1>0. \A u \in Threads : call'[u] = IF u = t THEN d ELSE call[u]
    BY DEF Telling, PolicyInv, EInv, CallsOK
  <1>1. ASSUME NEW u \in Threads, u # t PROVE ~Touching(call'[u]) /\ ~Forgetting(call'[u])
    <2>1. call[u].op \in {"idle", "CleanupExpired"}
      BY <1>1 DEF OneClient, PolicyInv, UsersOnly, IndexUsers, Telling
    <2> QED BY <1>0, <1>1, <2>1 DEF Touching, Forgetting
  <1>2. call'[t] = d
    BY <1>0
  <1>3. ASSUME NEW u \in Threads
        PROVE  /\ call'[u].op \notin {"ProcessExpired", "ProcessEvictions"}
               /\ Forgetting(call'[u]) => call'[u].key \notin Stored'
               /\ Touching(call'[u]) =>
                     \A s \in ShardIds : Follows(shards'[s].order, LruTouch(lru', call'[u].key))
    <2>1. CASE u = t
      BY <1>2, <2>1 DEF Telling
    <2>2. CASE u # t
      BY <1>0, <1>1, <2>2 DEF PolicyInv
    <2> QED BY <2>1, <2>2
  <1>4. (\A u \in Threads : ~Touching(call'[u])) => \A s \in ShardIds : Follows(shards'[s].order, lru')
    BY <1>2 DEF Telling
  <1> QED BY <1>3, <1>4 DEF PolicyInv, Touching, Forgetting

\* A step that changes neither the shards nor the policy.
LEMMA PlainMove ==
  ASSUME PolicyInv, NEW t \in Threads, NEW d, call' = [call EXCEPT ![t] = d],
         UNCHANGED <<shards, lru>>,
         d.op \notin {"ProcessExpired", "ProcessEvictions"},
         Touching(d) <=> Touching(call[t]),
         Touching(d) \/ Forgetting(d) => d.key = call[t].key,
         Forgetting(d) => Forgetting(call[t])
  PROVE  Unhurried(t, d)
  <1>1. OrdersShrink /\ Stored' = Stored
    BY NoneShrinks
  <1> QED BY <1>1 DEF Unhurried, PolicyInv

\* A thread begins a method.
LEMMA BeginUnhurried ==
  ASSUME OneClient, PolicyInv, NEW t \in Threads
  PROVE  /\ \A k, v, ttl : BeginSet(t, k, v, ttl) => \E d : Unhurried(t, d)
         /\ \A k : BeginGet(t, k) \/ BeginDelete(t, k) => \E d : Unhurried(t, d)
         /\ BeginGetAllKeys(t) => \E d : Unhurried(t, d)
         /\ BeginCleanupExpired(t) => \E d : Unhurried(t, d)
  <1>1. ASSUME NEW c, c.op \in {"Set", "Get", "Delete", "GetAllKeys", "CleanupExpired"},
               c.at \in {"shard", "scan", "sweep"}, Begin(t, c)
        PROVE  \E d : Unhurried(t, d)
    <2>1. call[t].at = "idle" /\ UNCHANGED <<shards, lru>> /\ call' = [call EXCEPT ![t] = c]
      BY <1>1 DEF Begin, At
    <2>2. ~Touching(c) /\ ~Touching(call[t]) /\ ~Forgetting(c)
      BY <1>1, <2>1 DEF Touching, Forgetting
    <2> QED BY <1>1, <2>1, <2>2, PlainMove
  <1>2. ASSUME NEW k, NEW v, NEW ttl, BeginSet(t, k, v, ttl) PROVE \E d : Unhurried(t, d)
    <2>1. PICK c : c = [Idle EXCEPT !.op = "Set", !.key = k, !.value = v, !.ttl = ttl, !.at = "shard"]
      OBVIOUS
    <2>2. c.op = "Set" /\ c.at = "shard"
      BY <2>1 DEF Idle
    <2>3. Begin(t, c)
      BY <1>2, <2>1 DEF BeginSet
    <2> QED BY <1>1, <2>2, <2>3
  <1>3. ASSUME NEW k, BeginGet(t, k) PROVE \E d : Unhurried(t, d)
    <2>1. PICK c : c = [Idle EXCEPT !.op = "Get", !.key = k, !.at = "shard"]
      OBVIOUS
    <2>2. c.op = "Get" /\ c.at = "shard"
      BY <2>1 DEF Idle
    <2>3. Begin(t, c)
      BY <1>3, <2>1 DEF BeginGet
    <2> QED BY <1>1, <2>2, <2>3
  <1>4. ASSUME NEW k, BeginDelete(t, k) PROVE \E d : Unhurried(t, d)
    <2>1. PICK c : c = [Idle EXCEPT !.op = "Delete", !.key = k, !.at = "shard"]
      OBVIOUS
    <2>2. c.op = "Delete" /\ c.at = "shard"
      BY <2>1 DEF Idle
    <2>3. Begin(t, c)
      BY <1>4, <2>1 DEF BeginDelete
    <2> QED BY <1>1, <2>2, <2>3
  <1>5. ASSUME BeginGetAllKeys(t) PROVE \E d : Unhurried(t, d)
    <2>1. PICK c : c = [Idle EXCEPT !.op = "GetAllKeys", !.at = "scan", !.todo = ShardIds, !.reply = {}]
      OBVIOUS
    <2>2. c.op = "GetAllKeys" /\ c.at = "scan"
      BY <2>1 DEF Idle
    <2>3. Begin(t, c)
      BY <1>5, <2>1 DEF BeginGetAllKeys
    <2> QED BY <1>1, <2>2, <2>3
  <1>6. ASSUME BeginCleanupExpired(t) PROVE \E d : Unhurried(t, d)
    <2>1. PICK c : c = [Idle EXCEPT !.op = "CleanupExpired", !.at = "sweep", !.todo = ShardIds, !.time = now]
      OBVIOUS
    <2>2. c.op = "CleanupExpired" /\ c.at = "sweep"
      BY <2>1 DEF Idle
    <2>3. Begin(t, c)
      BY <1>6, <2>1 DEF BeginCleanupExpired
    <2> QED BY <1>1, <2>2, <2>3
  <1> QED BY <1>2, <1>3, <1>4, <1>5, <1>6

\* The steps between the shard and the policy, and the scan.
LEMMA MiddleSteps ==
  ASSUME PolicyInv, NEW t \in Threads,
         ReadClock(t) \/ BeginIndex(t) \/ EndIndex(t) \/ ScanShard(t) \/ Return(t)
  PROVE  \E d : Unhurried(t, d)
  <1>0. CallsOK /\ CallOK(call[t]) /\ call[t].op \notin {"ProcessExpired", "ProcessEvictions"}
    BY CallAt DEF PolicyInv
  <1>1. PICK c : c = call[t]
    OBVIOUS
  <1>2. IsCall(c) /\ PhaseOK(c) /\ c.op \notin {"ProcessExpired", "ProcessEvictions"}
    BY <1>0, <1>1 DEF CallOK
  <1>3. CASE ReadClock(t)
    <2>1. PICK d : d = [c EXCEPT !.at = "index", !.time = now]
      OBVIOUS
    <2>2. call' = [call EXCEPT ![t] = d]
      BY <1>0, <1>1, <1>3, <2>1 DEF CallsOK, ReadClock
    <2>3. d.op = c.op /\ d.at = "index" /\ d.key = c.key
      BY <1>2, <2>1 DEF IsCall
    <2>4. c.op = "Set" /\ c.at = "clock"
      BY <1>1, <1>2, <1>3 DEF ReadClock, At, PhaseOK, Idle
    <2>5. Touching(d) /\ Touching(c) /\ ~Forgetting(d)
      BY <2>3, <2>4 DEF Touching, Forgetting
    <2> QED BY <1>1, <1>2, <1>3, <2>2, <2>3, <2>5, PlainMove DEF ReadClock
  <1>4. CASE BeginIndex(t) \/ EndIndex(t)
    <2>1. c.at \in {"index", "inIndex"}
      BY <1>1, <1>4 DEF BeginIndex, EndIndex, At
    <2>2. c.op \in {"Set", "Delete"}
      BY <1>2, <2>1 DEF PhaseOK, Idle
    <2>3. PICK a : a \in {"inIndex", "policy"} /\ Goto(t, a)
      BY <1>1, <1>4, <2>2 DEF BeginIndex, EndIndex
    <2>4. PICK d : MovedTo(d, c, a) /\ call' = [call EXCEPT ![t] = d]
      BY <1>0, <1>1, <2>3, GotoFacts
    <2>5. d.op = c.op /\ d.at = a /\ d.key = c.key
      BY <2>4 DEF MovedTo
    <2>6. (Touching(d) <=> Touching(c)) /\ (Forgetting(d) => Forgetting(c))
      BY <2>1, <2>2, <2>3, <2>5 DEF Touching, Forgetting
    <2>7. UNCHANGED <<shards, lru>>
      BY <1>4 DEF BeginIndex, EndIndex
    <2> QED BY <1>1, <1>2, <2>4, <2>5, <2>6, <2>7, PlainMove
  <1>5. CASE ScanShard(t)
    <2>1. PICK times, x, left, rep, a, d :
             /\ x = call[t] /\ left = x.todo \ {Min(x.todo)}
             /\ rep = x.reply \cup ShardGetAllKeys(shards[Min(x.todo)], times)
             /\ a = IF left = {} THEN "return" ELSE "scan"
             /\ d = [x EXCEPT !.todo = left, !.reply = rep, !.at = a]
             /\ call' = [call EXCEPT ![t] = d]
      BY <1>0, <1>5, ScanMoves
    <2>2. x = c /\ d = [c EXCEPT !.todo = left, !.reply = rep, !.at = a] /\ call' = [call EXCEPT ![t] = d]
      BY <1>1, <2>1
    <2>3. d.op = c.op
      BY <1>2, <2>2 DEF IsCall
    <2>4. call' = [call EXCEPT ![t] = d]
      BY <2>2
    <2>5. c.op = "GetAllKeys"
      BY <1>1, <1>5 DEF ScanShard, Calling
    <2>6. ~Touching(d) /\ ~Touching(c) /\ ~Forgetting(d)
      BY <2>3, <2>5 DEF Touching, Forgetting
    <2> QED BY <1>1, <1>2, <1>5, <2>3, <2>4, <2>6, PlainMove DEF ScanShard
  <1>6. CASE Return(t)
    <2>1. call' = [call EXCEPT ![t] = Idle] /\ UNCHANGED <<shards, lru>> /\ c.at \in {"return", "thrown"}
      BY <1>1, <1>6 DEF Return, At
    <2>2. ~Touching(Idle) /\ ~Touching(c) /\ ~Forgetting(Idle) /\ Idle.op = "idle"
      BY <2>1 DEF Touching, Forgetting, Idle
    <2> QED BY <1>1, <2>1, <2>2, PlainMove
  <1> QED BY <1>3, <1>4, <1>5, <1>6

\* A sweep, a Delete and a Get that finds nothing only shorten a shard's list.
LEMMA ShorteningSteps ==
  ASSUME PolicyInv, NEW t \in Threads,
         \/ SweepShard(t) \/ DeleteInShard(t)
         \/ GetInShard(t) /\ ~ShardHit(shards[GetShard(call[t].key)], call[t].key, now)
  PROVE  \E d : Unhurried(t, d)
  <1>0. CallsOK /\ CallOK(call[t]) /\ call[t].op \notin {"ProcessExpired", "ProcessEvictions"} /\ ShardsOK
    BY CallAt DEF PolicyInv, EInv
  <1>1. PICK c : c = call[t]
    OBVIOUS
  <1>2. IsCall(c) /\ PhaseOK(c) /\ c.op \notin {"ProcessExpired", "ProcessEvictions"} /\ c.time \in Nat
    BY <1>0, <1>1 DEF CallOK
  <1>3. ASSUME NEW s \in ShardIds, NEW r, shards' = [shards EXCEPT ![s] = r],
               Follows(r.order, shards[s].order), DOMAIN r.store \subseteq DOMAIN shards[s].store
        PROVE  OrdersShrink /\ Stored' \subseteq Stored
    <2>1. OrdersShrink
      BY <1>0, <1>3, OneShrinks
    <2>2. ASSUME NEW k \in Stored' PROVE k \in Stored
      <3>1. k \in Keys /\ k \in DOMAIN shards'[GetShard(k)].store /\ GetShard(k) \in ShardIds
        BY <2>2, GetShardFacts DEF Stored, Store, GetShard
      <3>2. shards'[GetShard(k)] = IF GetShard(k) = s THEN r ELSE shards[GetShard(k)]
        BY <1>0, <1>3, <3>1 DEF ShardsOK
      <3>3. k \in DOMAIN shards[GetShard(k)].store
        BY <1>3, <3>1, <3>2
      <3> QED BY <3>1, <3>3 DEF Stored, Store
    <2> QED BY <2>1, <2>2
  <1>4. ASSUME NEW s \in ShardIds
        PROVE  /\ ShardOK(shards[s], KeysOf(s), Values)
               /\ \A k : /\ Follows(RemoveInternal(shards[s], k).order, shards[s].order)
                         /\ DOMAIN RemoveInternal(shards[s], k).store = DOMAIN shards[s].store \ {k}
    <2>1. ShardOK(shards[s], KeysOf(s), Values) /\ ShardCore(shards[s], KeysOf(s), Values)
      BY <1>0 DEF ShardsOK, ShardOK
    <2>2. ASSUME NEW k PROVE DOMAIN RemoveInternal(shards[s], k).store = DOMAIN shards[s].store \ {k}
      BY DEF RemoveInternal, Without
    <2> QED BY <2>1, <2>2, ListShrinks
  <1>5. CASE SweepShard(t)
    <2>1. c.op = "CleanupExpired" /\ c.todo \subseteq ShardIds /\ c.todo # {} /\ lru' = lru
      BY <1>1, <1>2, <1>5 DEF SweepShard, Calling, At, PhaseOK, Idle
    <2>2. PICK a, left : call' = [call EXCEPT ![t].todo = left, ![t].at = a]
      BY <1>5 DEF SweepShard
    <2>3. PICK d : d = [c EXCEPT !.todo = left, !.at = a]
      OBVIOUS
    <2>4. call' = [call EXCEPT ![t] = d]
      BY <1>0, <1>1, <2>2, <2>3 DEF CallsOK
    <2>5. d.op = "CleanupExpired"
      BY <1>2, <2>1, <2>3 DEF IsCall
    <2>6. PICK s, r : /\ s = Min(c.todo) /\ r = ShardCleanupExpired(shards[s], c.time)
                      /\ shards' = [shards EXCEPT ![s] = r]
      BY <1>1, <1>5 DEF SweepShard
    <2>7. s \in ShardIds
      BY <2>1, <2>6, NextShard
    <2>8. Follows(r.order, shards[s].order)
      BY <1>4, <2>6, <2>7, ListShrinks
    <2>9. DOMAIN r.store \subseteq DOMAIN shards[s].store
      BY <2>6 DEF ShardCleanupExpired, Restrict
    <2>10. OrdersShrink /\ Stored' \subseteq Stored
      BY <1>3, <2>6, <2>7, <2>8, <2>9
    <2>11. ~Touching(d) /\ ~Touching(c) /\ ~Forgetting(d)
      BY <2>1, <2>5 DEF Touching, Forgetting
    <2>12. Unhurried(t, d)
      BY <1>1, <2>1, <2>4, <2>5, <2>10, <2>11 DEF Unhurried
    <2> QED BY <2>12
  <1>6. CASE DeleteInShard(t)
    <2>1. c.op = "Delete" /\ c.key \in Keys /\ c.at = "shard" /\ lru' = lru
      BY <1>1, <1>2, <1>6 DEF DeleteInShard, At, PhaseOK, Idle
    <2>2. PICK a : Goto(t, a)
      BY <1>1, <1>6 DEF DeleteInShard
    <2>3. PICK d : MovedTo(d, c, a) /\ call' = [call EXCEPT ![t] = d]
      BY <1>0, <1>1, <2>2, GotoFacts
    <2>4. d.op = c.op /\ d.key = c.key
      BY <2>3 DEF MovedTo
    <2>5. PICK s, r : /\ s = GetShard(c.key) /\ r = RemoveInternal(shards[s], c.key)
                      /\ shards' = [shards EXCEPT ![s] = r]
      BY <1>1, <1>6 DEF DeleteInShard, ShardDelete
    <2>6. s \in ShardIds
      BY <2>1, <2>5, GetShardFacts
    <2>7. Follows(r.order, shards[s].order) /\ DOMAIN r.store = DOMAIN shards[s].store \ {c.key}
      BY <1>4, <2>5, <2>6
    <2>8. OrdersShrink /\ Stored' \subseteq Stored
      BY <1>3, <2>5, <2>6, <2>7
    <2>9. c.key \notin Stored'
      <3>1. shards'[s] = r
        BY <1>0, <2>5, <2>6 DEF ShardsOK
      <3>2. Stored' = {k \in Keys : k \in DOMAIN shards'[GetShard(k)].store}
        BY DEF Stored, Store, GetShard
      <3> QED BY <2>5, <2>7, <3>1, <3>2
    <2>10. ~Touching(d) /\ ~Touching(c)
      BY <2>1, <2>4 DEF Touching
    <2>11. Unhurried(t, d)
      BY <1>1, <1>2, <2>1, <2>3, <2>4, <2>8, <2>9, <2>10 DEF Unhurried
    <2> QED BY <2>11
  <1>7. CASE GetInShard(t) /\ ~ShardHit(shards[GetShard(call[t].key)], call[t].key, now)
    <2>1. c.op = "Get" /\ c.key \in Keys /\ c.at = "shard" /\ lru' = lru
      BY <1>1, <1>2, <1>7 DEF GetInShard, Calling, At, PhaseOK, Idle
    <2>2. PICK rep : call' = [call EXCEPT ![t].at = "return", ![t].reply = rep]
      BY <1>1, <1>7 DEF GetInShard
    <2>3. PICK d : d = [c EXCEPT !.at = "return", !.reply = rep]
      OBVIOUS
    <2>4. call' = [call EXCEPT ![t] = d]
      BY <1>0, <1>1, <2>2, <2>3 DEF CallsOK
    <2>5. d.op = c.op /\ d.at = "return"
      BY <1>2, <2>3 DEF IsCall
    <2>6. PICK s, r : /\ s = GetShard(c.key) /\ r = ShardGet(shards[s], c.key, now)
                      /\ shards' = [shards EXCEPT ![s] = r]
      BY <1>1, <1>7 DEF GetInShard
    <2>7. s \in ShardIds /\ r \in {RemoveInternal(shards[s], c.key), shards[s]}
      BY <1>1, <1>7, <2>1, <2>6, GetShardFacts DEF ShardGet
    <2>8. Follows(shards[s].order, shards[s].order)
      BY DEF Follows, KeepsOrder
    <2>9. Follows(r.order, shards[s].order) /\ DOMAIN r.store \subseteq DOMAIN shards[s].store
      BY <1>4, <2>7, <2>8
    <2>10. OrdersShrink /\ Stored' \subseteq Stored
      BY <1>3, <2>6, <2>7, <2>9
    <2>11. ~Touching(d) /\ ~Touching(c) /\ ~Forgetting(d)
      BY <2>1, <2>5 DEF Touching, Forgetting
    <2>12. Unhurried(t, d)
      BY <1>1, <1>2, <2>1, <2>4, <2>5, <2>10, <2>11 DEF Unhurried
    <2> QED BY <2>12
  <1> QED BY <1>5, <1>6, <1>7

\* With nothing to tell, the client knows that every shard's list follows the
\* policy's.
LEMMA ClientKnows ==
  ASSUME OneClient, PolicyInv, NEW t \in Threads, call[t].op \notin {"idle", "CleanupExpired"},
         ~Touching(call[t])
  PROVE  \A s \in ShardIds : Follows(shards[s].order, lru)
  <1>1. ASSUME NEW u \in Threads PROVE ~Touching(call[u])
    <2>1. CASE u # t
      <3>1. call[u].op \in {"idle", "CleanupExpired"}
        BY <2>1 DEF OneClient, PolicyInv, UsersOnly, IndexUsers
      <3> QED BY <3>1 DEF Touching
    <2> QED BY <2>1
  <1> QED BY <1>1 DEF PolicyInv

\* A key is in no other shard's list.
LEMMA NotElsewhere ==
  ASSUME ShardsOK, NEW s \in ShardIds, NEW k, GetShard(k) # s \/ k \notin Stored, k \in Keys
  PROVE  ~Contains(shards[s].order, k)
  <1>1. ShardCore(shards[s], KeysOf(s), Values)
    BY DEF ShardsOK, ShardOK
  <1>2. (\A x : Contains(shards[s].order, x) <=> x \in DOMAIN shards[s].store) /\ DOMAIN shards[s].store \subseteq KeysOf(s)
    BY <1>1, CoreElim
  <1> QED BY <1>2 DEF KeysOf, Stored, Store

\* A touch in the key's shard, seen from all the shards.
LEMMA TouchEverywhere ==
  ASSUME PolicyInv, \A s \in ShardIds : Follows(shards[s].order, lru), NEW k \in Keys,
         NEW r, shards' = [shards EXCEPT ![GetShard(k)] = r],
         KeyThenOrder(r.order, k, shards[GetShard(k)].order),
         \A x : Contains(r.order, x) => Contains(shards[GetShard(k)].order, x) \/ x = k,
         NEW s \in ShardIds
  PROVE  Follows(shards'[s].order, LruTouch(lru, k))
  <1>0. lru \in Seq(Keys) /\ IsInjective(lru) /\ ShardsOK
    BY DEF PolicyInv, EInv, PolicyOK
  <1>1. shards'[s] = IF s = GetShard(k) THEN r ELSE shards[s]
    BY <1>0 DEF ShardsOK
  <1>2. CASE s = GetShard(k)
    <2>1. PICK o, q : o = shards[s].order /\ q = r.order
      OBVIOUS
    <2>2. Follows(o, lru) /\ KeyThenOrder(q, k, o) /\ \A x : Contains(q, x) => Contains(o, x) \/ x = k
      BY <1>2, <2>1
    <2>3. Follows(q, LruTouch(lru, k))
      BY <1>0, <2>2, TouchFollows
    <2> QED BY <1>1, <1>2, <2>1, <2>3
  <1>3. CASE s # GetShard(k)
    <2>1. ~Contains(shards[s].order, k)
      BY <1>0, <1>3, NotElsewhere
    <2>2. Follows(shards[s].order, LruTouch(lru, k))
      BY <1>0, <2>1, OthersFollow
    <2> QED BY <1>1, <1>3, <2>2
  <1> QED BY <1>2, <1>3

\* A write puts the key in front of its shard's list.
LEMMA WrittenOrder ==
  ASSUME NEW K, NEW V, NEW s, ShardOK(s, K, V), NEW k, NEW r, Written(r, s, K, V, k)
  PROVE  KeyThenOrder(r.order, k, s.order) /\ \A x : Contains(r.order, x) => Contains(s.order, x) \/ x = k
  <1>1. PICK m : /\ MidWrite(m, s, K, V, k)
                 /\ KeepsOrder(r.order, m.order)
                 /\ \/ r = m
                    \/ r.store = Without(m.store, m.order[Len(m.order)])
    BY DEF Written
  <1>2. DOMAIN r.store \subseteq DOMAIN m.store
    BY <1>1 DEF Without
  <1>3. DOMAIN m.store = DOMAIN s.store \cup {k} /\ KeyThenOrder(m.order, k, s.order)
    BY <1>1 DEF MidWrite
  <1>4. ShardCore(r, K, V) /\ ShardCore(s, K, V)
    BY DEF Written, ShardOK
  <1>5. \A x : Contains(r.order, x) <=> x \in DOMAIN r.store
    BY <1>4, CoreElim
  <1>6. \A x : Contains(s.order, x) <=> x \in DOMAIN s.store
    BY <1>4, CoreElim
  <1>7. PICK q, n, o : q = r.order /\ n = m.order /\ o = s.order
    OBVIOUS
  <1>8. KeepsOrder(q, n) /\ KeyThenOrder(n, k, o)
    BY <1>1, <1>3, <1>7
  <1>9. KeyThenOrder(q, k, o)
    <2> SUFFICES ASSUME NEW i \in 1..Len(q), NEW j \in 1..Len(q), i < j
                 PROVE  /\ q[j] # k
                        /\ \/ q[i] = k
                           \/ \E a, b \in 1..Len(o) : a < b /\ o[a] = q[i] /\ o[b] = q[j]
      BY DEF KeyThenOrder
    <2>1. PICK a, b \in 1..Len(n) : a < b /\ n[a] = q[i] /\ n[b] = q[j]
      BY <1>8 DEF KeepsOrder
    <2>2. n[b] # k /\ (n[a] = k \/ \E c, d \in 1..Len(o) : c < d /\ o[c] = n[a] /\ o[d] = n[b])
      BY <1>8, <2>1 DEF KeyThenOrder
    <2> QED BY <2>1, <2>2
  <1> QED BY <1>2, <1>3, <1>5, <1>6, <1>7, <1>9

\* Set, and a Get that finds its key, touch the key in its shard.
LEMMA TouchingSteps ==
  ASSUME OneClient, PolicyInv, NEW t \in Threads,
         \/ SetInShard(t)
         \/ GetInShard(t) /\ ShardHit(shards[GetShard(call[t].key)], call[t].key, now)
  PROVE  \E d : Telling(t, d)
  <1>0. CallsOK /\ CallOK(call[t]) /\ ShardsOK /\ now \in Nat /\ TTLs \subseteq Nat
    BY CallAt, EngineAssumption DEF PolicyInv, EInv, Times
  <1>1. PICK c, k, s : c = call[t] /\ k = c.key /\ s = GetShard(k)
    OBVIOUS
  <1>2. /\ IsCall(c) /\ c.op \in {"Set", "Get"} /\ c.at = "shard" /\ k \in Keys /\ lru' = lru
        /\ c.ttl \in TTLs \cup {None} /\ (c.op = "Set" => c.value \in Values)
    BY <1>0, <1>1 DEF SetInShard, GetInShard, Calling, At, CallOK, PhaseOK, Idle
  <1>3. s \in ShardIds /\ k \in KeysOf(s) /\ ShardOK(shards[s], KeysOf(s), Values)
    <2>1. s \in ShardIds /\ k \in KeysOf(s)
      BY <1>1, <1>2, GetShardFacts
    <2> QED BY <1>0, <2>1 DEF ShardsOK
  <1>4. \A x \in ShardIds : Follows(shards[x].order, lru)
    <2>1. ~Touching(c) /\ c.op \notin {"idle", "CleanupExpired"}
      BY <1>2 DEF Touching
    <2> QED BY <1>1, <2>1, ClientKnows
  <1>5. PICK d, r :
          /\ call' = [call EXCEPT ![t] = d] /\ d.op = c.op /\ d.key = k /\ Touching(d)
          /\ shards' = [shards EXCEPT ![s] = r]
          /\ KeyThenOrder(r.order, k, shards[s].order)
          /\ \A x : Contains(r.order, x) => Contains(shards[s].order, x) \/ x = k
    <2>1. CASE SetInShard(t)
      <3>1. PICK a, r : /\ Goto(t, a) /\ a \in {"clock", "index"}
                        /\ shards' = [shards EXCEPT ![s] = r]
                        /\ Written(r, shards[s], KeysOf(s), Values, k)
        <4>0. c.op = "Set" /\ c.value \in Values
          BY <1>1, <1>2, <2>1 DEF SetInShard, Calling
        <4>1. CASE c.ttl = None
          <5>1. PICK r : r = ShardSet(shards[s], k, c.value)
            OBVIOUS
          <5>2. shards' = [shards EXCEPT ![s] = r] /\ Goto(t, "index")
            BY <1>1, <2>1, <4>1, <5>1 DEF SetInShard
          <5>3. Written(r, shards[s], KeysOf(s), Values, k)
            BY <1>3, <4>0, <5>1, ShardSetFacts
          <5> QED BY <5>2, <5>3
        <4>2. CASE c.ttl # None
          <5>0. c.ttl \in Nat
            BY <1>0, <1>2, <4>2
          <5>1. PICK r : r = ShardSetWithTTL(shards[s], k, c.value, c.ttl, now)
            OBVIOUS
          <5>2. shards' = [shards EXCEPT ![s] = r] /\ Goto(t, "clock")
            BY <1>1, <2>1, <4>2, <5>1 DEF SetInShard
          <5>3. Written(r, shards[s], KeysOf(s), Values, k)
            BY <1>0, <1>3, <4>0, <5>0, <5>1, ShardSetWithTTLFacts
          <5> QED BY <5>2, <5>3
        <4> QED BY <4>1, <4>2
      <3>2. PICK d : MovedTo(d, c, a) /\ call' = [call EXCEPT ![t] = d]
        BY <1>0, <1>1, <3>1, GotoFacts
      <3>3. d.op = c.op /\ d.key = k /\ d.at = a /\ c.op = "Set"
        BY <1>1, <2>1, <3>2 DEF MovedTo, SetInShard, Calling
      <3>4. Touching(d)
        BY <3>1, <3>3 DEF Touching
      <3>5. KeyThenOrder(r.order, k, shards[s].order) /\ \A x : Contains(r.order, x) => Contains(shards[s].order, x) \/ x = k
        BY <1>3, <3>1, WrittenOrder
      <3> QED BY <3>1, <3>2, <3>3, <3>4, <3>5
    <2>2. CASE GetInShard(t) /\ ShardHit(shards[GetShard(call[t].key)], call[t].key, now)
      <3>1. PICK rep : call' = [call EXCEPT ![t].at = "policy", ![t].reply = rep]
        BY <2>2 DEF GetInShard
      <3>2. PICK d : d = [c EXCEPT !.at = "policy", !.reply = rep]
        OBVIOUS
      <3>3. call' = [call EXCEPT ![t] = d]
        BY <1>0, <1>1, <3>1, <3>2 DEF CallsOK
      <3>4. d.op = c.op /\ d.key = k /\ d.at = "policy" /\ c.op = "Get"
        BY <1>1, <1>2, <2>2, <3>2 DEF IsCall, GetInShard, Calling
      <3>5. Touching(d)
        BY <3>4 DEF Touching
      <3>6. PICK r, o : o = shards[s].order /\ r = [shards[s] EXCEPT !.order = LruTouch(@, k)] /\ shards' = [shards EXCEPT ![s] = r]
        BY <1>1, <2>2 DEF GetInShard, ShardGet
      <3>7. k \in DOMAIN shards[s].store
        BY <1>1, <2>2 DEF ShardHit
      <3>8. KeyThenOrder(r.order, k, o) /\ ShardOK(r, KeysOf(s), Values)
        BY <1>3, <3>6, <3>7, HitFacts
      <3>9. o \in Seq(KeysOf(s)) /\ IsInjective(o) /\ r.order = LruTouch(o, k)
        <4>1. /\ shards[s] = [store |-> shards[s].store, order |-> shards[s].order, ttl |-> shards[s].ttl]
              /\ shards[s].order \in Seq(KeysOf(s)) /\ IsInjective(shards[s].order)
          BY <1>3, CoreElim DEF ShardOK
        <4> QED BY <3>6, <4>1
      <3>10. \A x : Contains(r.order, x) => Contains(o, x) \/ x = k
        BY <1>3, <3>9, LruTouchFacts
      <3> QED BY <3>3, <3>4, <3>5, <3>6, <3>8, <3>10
    <2> QED BY <2>1, <2>2
  <1>6. \A x \in ShardIds : Follows(shards'[x].order, LruTouch(lru, k))
    BY <1>1, <1>2, <1>4, <1>5, TouchEverywhere
  <1>7. ~Forgetting(d)
    BY <1>2, <1>5 DEF Forgetting
  <1>8. Telling(t, d)
    BY <1>1, <1>2, <1>5, <1>6, <1>7 DEF Telling
  <1> QED BY <1>8

\* The policy is told (eviction_manager.h:93-119).
LEMMA PolicyTold ==
  ASSUME OneClient, PolicyInv, NEW t \in Threads, PolicyStep(t)
  PROVE  \E d : Telling(t, d)
  <1>0. /\ CallsOK /\ CallOK(call[t]) /\ ShardsOK /\ lru \in Seq(Keys) /\ IsInjective(lru)
        /\ call[t].op \notin {"ProcessExpired", "ProcessEvictions"}
    BY CallAt DEF PolicyInv, EInv, PolicyOK
  <1>1. PICK c, k : c = call[t] /\ k = c.key
    OBVIOUS
  <1>2. IsCall(c) /\ PhaseOK(c) /\ c.at = "policy" /\ c.op \notin {"ProcessExpired", "ProcessEvictions"}
    BY <1>0, <1>1 DEF CallOK, PolicyStep, At
  <1>3. c.op \in {"Set", "Get", "Delete"} /\ k \in Keys /\ UNCHANGED shards
    BY <1>1, <1>2 DEF PhaseOK, Idle, PolicyStep
  <1>4. Goto(t, "return")
    BY <1>1, <1>2 DEF PolicyStep
  <1>5. PICK d : MovedTo(d, c, "return") /\ call' = [call EXCEPT ![t] = d]
    BY <1>0, <1>1, <1>4, GotoFacts
  <1>6. d.op = c.op /\ d.at = "return"
    BY <1>5 DEF MovedTo
  <1>7. ~Touching(d) /\ ~Forgetting(d)
    BY <1>6 DEF Touching, Forgetting
  <1>8. ASSUME NEW s \in ShardIds PROVE Follows(shards[s].order, lru')
    <2>1. CASE c.op \in {"Set", "Get"}
      <3>1. lru' = LruTouch(lru, k)
        BY <1>1, <2>1 DEF PolicyStep, OnRead, OnWrite
      <3>2. Touching(c)
        BY <1>2, <2>1 DEF Touching
      <3> QED BY <1>1, <3>1, <3>2 DEF PolicyInv
    <2>2. CASE c.op = "Delete"
      <3>1. lru' = LruRemove(lru, k)
        BY <1>1, <2>2 DEF PolicyStep, OnDelete
      <3>2. ~Touching(c) /\ Forgetting(c)
        BY <1>2, <2>2 DEF Touching, Forgetting
      <3>3. k \notin Stored
        BY <1>1, <3>2 DEF PolicyInv
      <3>4. ~Contains(shards[s].order, k)
        BY <1>0, <1>3, <3>3, NotElsewhere
      <3>5. Follows(shards[s].order, lru)
        BY <1>1, <1>3, <3>2, ClientKnows
      <3> QED BY <1>0, <1>3, <3>1, <3>4, <3>5, OthersFollow
    <2> QED BY <1>3, <2>1, <2>2
  <1>9. Telling(t, d)
    BY <1>1, <1>2, <1>3, <1>5, <1>6, <1>7, <1>8 DEF Telling
  <1> QED BY <1>9

\* At the start all the lists are empty.
LEMMA InitPolicyInv == Init => PolicyInv
  <1> SUFFICES ASSUME Init PROVE PolicyInv
    OBVIOUS
  <1>1. \A t \in Threads : call[t].op = "idle"
    BY DEF Init, Idle
  <1>2. \A s \in ShardIds : shards[s].order = <<>>
    BY DEF Init, EmptyShard
  <1>3. Follows(<<>>, lru)
    BY DEF Follows, KeepsOrder, Contains
  <1>4. \A t \in Threads : ~Touching(call[t]) /\ ~Forgetting(call[t])
    BY <1>1 DEF Touching, Forgetting
  <1>5. UsersOnly
    BY <1>1 DEF UsersOnly
  <1> QED BY <1>1, <1>2, <1>3, <1>4, <1>5, InitEInv DEF PolicyInv

\* Every step keeps the lists in one order.
LEMMA NextPolicyInv ==
  ASSUME OneClient, PolicyInv, [Next]_vars
  PROVE  PolicyInv'
  <1>1. EInv' /\ UsersOnly'
    BY NextEInv, NextUsersOnly DEF PolicyInv
  <1>2. ASSUME NEW t \in Threads, \E d : Unhurried(t, d) PROVE PolicyInv'
    BY <1>1, <1>2, UnhurriedStep
  <1>3. ASSUME NEW t \in Threads, \E d : Telling(t, d) PROVE PolicyInv'
    BY <1>1, <1>3, TellingStep
  <1>4. ASSUME NEW t \in Threads PROVE ~NextKey(t) /\ ~CollectEvictionCandidates(t)
    <2>1. PhaseOK(call[t]) /\ call[t].op \notin {"ProcessExpired", "ProcessEvictions"}
      BY CallAt DEF PolicyInv, CallOK
    <2>2. call[t].at # "next"
      BY <2>1 DEF PhaseOK, Idle
    <2> QED BY <2>1, <2>2 DEF NextKey, CollectEvictionCandidates, Calling, At
  <1>5. ASSUME NEW t \in Threads, Step(t) PROVE PolicyInv'
    <2>1. CASE GetInShard(t)
      BY <1>2, <1>3, <2>1, ShorteningSteps, TouchingSteps
    <2>2. CASE SetInShard(t) \/ PolicyStep(t)
      BY <1>3, <2>2, TouchingSteps, PolicyTold
    <2>3. CASE SweepShard(t) \/ DeleteInShard(t)
      BY <1>2, <2>3, ShorteningSteps
    <2>4. CASE ReadClock(t) \/ BeginIndex(t) \/ EndIndex(t) \/ ScanShard(t) \/ Return(t)
      BY <1>2, <2>4, MiddleSteps
    <2> QED BY <1>4, <1>5, <2>1, <2>2, <2>3, <2>4 DEF Step
  <1>6. ASSUME NEW t \in Clients, NEW k \in Keys, NEW v \in Values, NEW ttl \in TTLs \cup {None},
               BeginSet(t, k, v, ttl)
        PROVE  PolicyInv'
    BY <1>2, <1>6, BeginUnhurried DEF Threads
  <1>7. ASSUME NEW t \in Clients, NEW k \in Keys, BeginGet(t, k) \/ BeginDelete(t, k) PROVE PolicyInv'
    BY <1>2, <1>7, BeginUnhurried DEF Threads
  <1>8. ASSUME NEW t \in Clients, BeginGetAllKeys(t) PROVE PolicyInv'
    BY <1>2, <1>8, BeginUnhurried DEF Threads
  <1>9. ASSUME NEW t \in Sweepers, BeginCleanupExpired(t) PROVE PolicyInv'
    BY <1>2, <1>9, BeginUnhurried DEF Threads
  <1>10. CASE UNCHANGED <<shards, lru, call>>
    <2>1. Stored' = Stored
      BY <1>10 DEF Stored, Store, GetShard
    <2> QED BY <1>1, <1>10, <2>1 DEF PolicyInv, Touching, Forgetting
  <1>11. Maintainers = {}
    BY DEF OneClient
  <1> QED BY <1>5, <1>6, <1>7, <1>8, <1>9, <1>10, <1>11 DEF Next, ClockMoves, vars

\* Between calls, the eviction manager's list and every shard's own list are one
\* order, although they are kept by separate calls under separate locks, a shard
\* evicts and sweeps without telling the manager, and the manager's list is
\* bounded by nothing (kv_engine.h:60-72, 80-83, 93-95): for one client, with
\* any sweepers beside it and any movement of the clock.
THEOREM PolicyAgreement ==
  ASSUME OneClient
  PROVE  Spec => []PolicyAgreesWithShards
  <1>1. PolicyInv /\ [Next]_vars => PolicyInv'
    BY NextPolicyInv
  <1> QED BY <1>1, InitPolicyInv, PolicyInvAgrees, PTL DEF Spec
=============================================================================
