--------------------------- MODULE KVEngineProofs ---------------------------
(***************************************************************************)
(* Proofs about KVEngine, for any number of threads, shards and keys, and  *)
(* every interleaving of their critical sections.                          *)
(***************************************************************************)
EXTENDS KVEngine, ShardLemmas

\* The keys that hash to shard s.
KeysOf(s) == {k \in Keys : GetShard(k) = s}

-----------------------------------------------------------------------------
(* What a thread can be doing. *)

\* The fields of a call.
IsCall(c) ==
    c = [op |-> c.op, key |-> c.key, value |-> c.value, ttl |-> c.ttl,
         at |-> c.at, time |-> c.time, todo |-> c.todo, reply |-> c.reply]

\* The points of each method, and what its steps rely on there.
PhaseOK(c) ==
    \/ c = Idle
    \/ /\ c.op = "Set"
       /\ c.at \in {"shard", "clock", "index", "inIndex", "policy", "return"}
       /\ c.key \in Keys /\ c.value \in Values
       /\ c.at = "clock" => c.ttl # None
    \/ /\ c.op = "Get"
       /\ c.at \in {"shard", "policy", "return"}
       /\ c.key \in Keys
    \/ /\ c.op = "Delete"
       /\ c.at \in {"shard", "index", "inIndex", "policy", "return"}
       /\ c.key \in Keys
    \/ /\ c.op \in {"GetAllKeys", "CleanupExpired"}
       /\ c.at \in {IF c.op = "GetAllKeys" THEN "scan" ELSE "sweep", "return"}
       /\ c.todo \subseteq ShardIds
       /\ c.at # "return" <=> c.todo # {}
    \/ /\ c.op = "ProcessExpired"
       /\ c.at \in {"clock", "index", "inIndex", "next", "shard", "policy", "return"}
       /\ c.todo \subseteq Keys
       /\ c.at \in {"shard", "policy"} => c.key \in Keys
    \/ /\ c.op = "ProcessEvictions"
       /\ c.at \in {"victims", "next", "shard", "index", "inIndex", "return", "thrown"}
       /\ c.todo \subseteq Keys
       /\ c.at \in {"shard", "index", "inIndex"} => c.key \in Keys

CallOK(c) ==
    /\ IsCall(c)
    /\ PhaseOK(c)
    /\ c.ttl \in TTLs \cup {None}
    /\ c.time \in Nat

CallsOK ==
    /\ call = [t \in Threads |-> call[t]]
    /\ \A t \in Threads : CallOK(call[t])

\* One thread moves on to d, the others stay where they are.
LEMMA CallMoves ==
  ASSUME CallsOK, NEW t \in Threads, NEW d, CallOK(d), call' = [call EXCEPT ![t] = d]
  PROVE  CallsOK'
  <1>1. DOMAIN call = Threads /\ \A u \in Threads : CallOK(call[u])
    BY DEF CallsOK
  <1>2. call' = [u \in Threads |-> IF u = t THEN d ELSE call[u]]
    BY <1>1
  <1>3. \A u \in Threads : CallOK(call'[u])
    BY <1>1, <1>2
  <1>4. call' = [u \in Threads |-> call'[u]]
    BY <1>2
  <1> QED BY <1>3, <1>4 DEF CallsOK, CallOK, PhaseOK, IsCall, Idle

-----------------------------------------------------------------------------
(* The inductive invariant. *)

ShardsOK ==
    /\ shards = [s \in ShardIds |-> shards[s]]
    /\ \A s \in ShardIds : ShardOK(shards[s], KeysOf(s), Values)

IndexOK == IndexType(ttl_index, Keys, Timestamps) /\ IndexConsistent(ttl_index)

PolicyOK == lru \in Seq(Keys) /\ IsInjective(lru)

EInv ==
    /\ ShardsOK
    /\ IndexOK
    /\ PolicyOK
    /\ memory \in 0..(MemoryMod - 1)
    /\ now \in Times
    /\ CallsOK

\* A key has one shard, among those of the manager (shard_manager.h:126-130).
LEMMA GetShardFacts ==
  ASSUME NEW k \in Keys
  PROVE  GetShard(k) \in ShardIds /\ k \in KeysOf(GetShard(k))
  <1>1. Hash[k] \in Nat /\ ShardCount \in Nat \ {0}
    BY EngineAssumption
  <1>2. Hash[k] % ShardCount \in 0..(ShardCount - 1)
    BY <1>1
  <1> QED BY <1>2 DEF GetShard, ShardIds, KeysOf

\* One shard changes to r, the others stay.
LEMMA ShardMoves ==
  ASSUME ShardsOK, NEW s \in ShardIds, NEW r, ShardOK(r, KeysOf(s), Values),
         shards' = [shards EXCEPT ![s] = r]
  PROVE  ShardsOK'
  <1>1. DOMAIN shards = ShardIds /\ \A x \in ShardIds : ShardOK(shards[x], KeysOf(x), Values)
    BY DEF ShardsOK
  <1>2. shards' = [x \in ShardIds |-> IF x = s THEN r ELSE shards[x]]
    BY <1>1
  <1>3. \A x \in ShardIds : ShardOK(shards'[x], KeysOf(x), Values)
    BY <1>1, <1>2
  <1>4. shards' = [x \in ShardIds |-> shards'[x]]
    BY <1>2
  <1> QED BY <1>3, <1>4 DEF ShardsOK

\* A removal keeps a shard well formed.
LEMMA ShrunkOK ==
  ASSUME NEW K, NEW V, NEW s, NEW r, ShardOK(s, K, V), Shrunk(r, s, K, V)
  PROVE  ShardOK(r, K, V)
  <1>1. ShardCore(s, K, V) /\ ShardCore(r, K, V) /\ Len(r.order) <= Len(s.order) /\ Len(s.order) <= Capacity
    BY DEF ShardOK, Shrunk
  <1>2. Len(r.order) \in Nat /\ Len(s.order) \in Nat
    BY <1>1, OrderCounts
  <1> QED BY <1>1, <1>2, CapacityAssumption DEF ShardOK

\* Every method of Shard keeps a shard well formed.
LEMMA ShardOpsOK ==
  ASSUME NEW K, NEW V, NEW s, ShardOK(s, K, V)
  PROVE  /\ \A k \in K, v \in V : ShardOK(ShardSet(s, k, v), K, V)
         /\ \A k \in K, v \in V, ttl \in Nat, t \in Nat : ShardOK(ShardSetWithTTL(s, k, v, ttl, t), K, V)
         /\ \A k \in K, t \in Nat : ShardOK(ShardGet(s, k, t), K, V)
         /\ \A k \in K : ShardOK(ShardDelete(s, k), K, V)
         /\ \A t \in Nat : ShardOK(ShardCleanupExpired(s, t), K, V)
  <1>0. ShardCore(s, K, V)
    BY DEF ShardOK
  <1>1. ASSUME NEW k \in K, NEW v \in V PROVE ShardOK(ShardSet(s, k, v), K, V)
    BY ShardSetFacts DEF Written
  <1>2. ASSUME NEW k \in K, NEW v \in V, NEW ttl \in Nat, NEW t \in Nat
        PROVE  ShardOK(ShardSetWithTTL(s, k, v, ttl, t), K, V)
    BY ShardSetWithTTLFacts DEF Written
  <1>3. ASSUME NEW k \in K PROVE ShardOK(RemoveInternal(s, k), K, V)
    <2>1. Shrunk(RemoveInternal(s, k), s, K, V)
      BY <1>0, RemoveInternalFacts
    <2> QED BY <2>1, ShrunkOK
  <1>4. ASSUME NEW k \in K, NEW t \in Nat PROVE ShardOK(ShardGet(s, k, t), K, V)
    <2>1. CASE ShardHit(s, k, t)
      <3>1. k \in DOMAIN s.store /\ ShardGet(s, k, t) = [s EXCEPT !.order = LruTouch(@, k)]
        BY <2>1 DEF ShardHit, ShardGet
      <3> QED BY <3>1, HitFacts
    <2>2. CASE ~ShardHit(s, k, t)
      BY <1>3, <2>2 DEF ShardGet
    <2> QED BY <2>1, <2>2
  <1>5. ASSUME NEW t \in Nat PROVE ShardOK(ShardCleanupExpired(s, t), K, V)
    <2>1. Shrunk(ShardCleanupExpired(s, t), s, K, V)
      BY <1>0, ShardCleanupFacts
    <2> QED BY <2>1, ShrunkOK
  <1> QED BY <1>1, <1>2, <1>3, <1>4, <1>5 DEF ShardDelete

-----------------------------------------------------------------------------
(* The steps of a thread. *)

\* d is the call c moved to the point a.
MovedTo(d, c, a) ==
    /\ IsCall(d)
    /\ d.at = a
    /\ d.op = c.op /\ d.key = c.key /\ d.value = c.value /\ d.ttl = c.ttl
    /\ d.time = c.time /\ d.todo = c.todo /\ d.reply = c.reply

\* Goto changes nothing of a call but its point.
LEMMA GotoFacts ==
  ASSUME CallsOK, NEW t \in Threads, NEW a, Goto(t, a)
  PROVE  \E d : MovedTo(d, call[t], a) /\ call' = [call EXCEPT ![t] = d]
  <1>1. PICK c : c = call[t]
    OBVIOUS
  <1>2. IsCall(c)
    BY <1>1 DEF CallsOK, CallOK
  <1>3. PICK d : d = [c EXCEPT !.at = a]
    OBVIOUS
  <1>4. MovedTo(d, c, a)
    BY <1>2, <1>3 DEF IsCall, MovedTo
  <1>5. call' = [call EXCEPT ![t] = d]
    BY <1>1, <1>3 DEF Goto
  <1> QED BY <1>1, <1>4, <1>5

\* A step that moves one call and the clock, and nothing else, preserves the
\* invariant.
LEMMA CallAndClockMove ==
  ASSUME EInv, NEW t \in Threads, NEW d, CallOK(d), call' = [call EXCEPT ![t] = d],
         UNCHANGED <<shards, ttl_index, lru, memory>>, now' \in Times
  PROVE  EInv'
  <1>1. CallsOK'
    BY CallMoves DEF EInv
  <1> QED BY <1>1 DEF EInv, ShardsOK, IndexOK, PolicyOK

\* A step that moves one call and nothing else preserves the invariant.
LEMMA OnlyCallMoves ==
  ASSUME EInv, NEW t \in Threads, NEW d, CallOK(d), call' = [call EXCEPT ![t] = d],
         UNCHANGED <<shards, ttl_index, lru, memory, now>>
  PROVE  EInv'
  BY CallAndClockMove DEF EInv

\* The call a thread is in is well formed.
LEMMA CallAt ==
  ASSUME EInv, NEW t \in Threads
  PROVE  CallOK(call[t]) /\ CallsOK
  BY DEF EInv, CallsOK

\* An idle thread.
LEMMA IdleOK == CallOK(Idle)
  BY DEF Idle, CallOK, IsCall, PhaseOK

\* A thread that begins a method (kv_engine.h:56-137, shard_manager.h:109-118).
LEMMA BeginStep ==
  ASSUME EInv, NEW t \in Threads, NEW c, Begin(t, c), CallOK(c)
  PROVE  EInv'
  BY OnlyCallMoves DEF Begin

\* What the methods of the engine, and CleanupExpired of the manager, start from.
LEMMA BeginsOK ==
  ASSUME EInv, NEW t \in Threads
  PROVE  /\ \A k \in Keys, v \in Values, ttl \in TTLs \cup {None} : BeginSet(t, k, v, ttl) => EInv'
         /\ \A k \in Keys : BeginGet(t, k) \/ BeginDelete(t, k) => EInv'
         /\ BeginGetAllKeys(t) => EInv'
         /\ BeginProcessExpired(t) \/ BeginProcessEvictions(t) => EInv'
         /\ BeginCleanupExpired(t) => EInv'
  <1>0. now \in Nat /\ ShardIds # {}
    <2>1. now \in Nat /\ 0 \in ShardIds
      BY EngineAssumption DEF EInv, Times, ShardIds
    <2> QED BY <2>1
  <1>1. ASSUME NEW k \in Keys, NEW v \in Values, NEW ttl \in TTLs \cup {None}, BeginSet(t, k, v, ttl)
        PROVE  EInv'
    <2>1. PICK c : c = [Idle EXCEPT !.op = "Set", !.key = k, !.value = v, !.ttl = ttl, !.at = "shard"]
      OBVIOUS
    <2>2. c = [op |-> "Set", key |-> k, value |-> v, ttl |-> ttl,
               at |-> "shard", time |-> 0, todo |-> {}, reply |-> None]
      BY <2>1 DEF Idle
    <2>3. CallOK(c)
      BY <2>2 DEF CallOK, IsCall, PhaseOK
    <2> QED BY <1>1, <2>1, <2>3, BeginStep DEF BeginSet
  <1>2. ASSUME NEW k \in Keys, BeginGet(t, k) PROVE EInv'
    <2>1. PICK c : c = [Idle EXCEPT !.op = "Get", !.key = k, !.at = "shard"]
      OBVIOUS
    <2>2. c = [op |-> "Get", key |-> k, value |-> None, ttl |-> None,
               at |-> "shard", time |-> 0, todo |-> {}, reply |-> None]
      BY <2>1 DEF Idle
    <2>3. CallOK(c)
      BY <2>2 DEF CallOK, IsCall, PhaseOK
    <2> QED BY <1>2, <2>1, <2>3, BeginStep DEF BeginGet
  <1>3. ASSUME NEW k \in Keys, BeginDelete(t, k) PROVE EInv'
    <2>1. PICK c : c = [Idle EXCEPT !.op = "Delete", !.key = k, !.at = "shard"]
      OBVIOUS
    <2>2. c = [op |-> "Delete", key |-> k, value |-> None, ttl |-> None,
               at |-> "shard", time |-> 0, todo |-> {}, reply |-> None]
      BY <2>1 DEF Idle
    <2>3. CallOK(c)
      BY <2>2 DEF CallOK, IsCall, PhaseOK
    <2> QED BY <1>3, <2>1, <2>3, BeginStep DEF BeginDelete
  <1>4. ASSUME BeginGetAllKeys(t) PROVE EInv'
    <2>1. PICK c : c = [Idle EXCEPT !.op = "GetAllKeys", !.at = "scan", !.todo = ShardIds, !.reply = {}]
      OBVIOUS
    <2>2. c = [op |-> "GetAllKeys", key |-> None, value |-> None, ttl |-> None,
               at |-> "scan", time |-> 0, todo |-> ShardIds, reply |-> {}]
      BY <2>1 DEF Idle
    <2>3. CallOK(c)
      BY <1>0, <2>2 DEF CallOK, IsCall, PhaseOK
    <2> QED BY <1>4, <2>1, <2>3, BeginStep DEF BeginGetAllKeys
  <1>5. ASSUME BeginProcessExpired(t) PROVE EInv'
    <2>1. PICK c : c = [Idle EXCEPT !.op = "ProcessExpired", !.at = "clock"]
      OBVIOUS
    <2>2. c = [op |-> "ProcessExpired", key |-> None, value |-> None, ttl |-> None,
               at |-> "clock", time |-> 0, todo |-> {}, reply |-> None]
      BY <2>1 DEF Idle
    <2>3. CallOK(c)
      BY <2>2 DEF CallOK, IsCall, PhaseOK
    <2> QED BY <1>5, <2>1, <2>3, BeginStep DEF BeginProcessExpired
  <1>6. ASSUME BeginProcessEvictions(t) PROVE EInv'
    <2>1. PICK c : c = [Idle EXCEPT !.op = "ProcessEvictions", !.at = "victims"]
      OBVIOUS
    <2>2. c = [op |-> "ProcessEvictions", key |-> None, value |-> None, ttl |-> None,
               at |-> "victims", time |-> 0, todo |-> {}, reply |-> None]
      BY <2>1 DEF Idle
    <2>3. CallOK(c)
      BY <2>2 DEF CallOK, IsCall, PhaseOK
    <2> QED BY <1>6, <2>1, <2>3, BeginStep DEF BeginProcessEvictions
  <1>7. ASSUME BeginCleanupExpired(t) PROVE EInv'
    <2>1. PICK c : c = [Idle EXCEPT !.op = "CleanupExpired", !.at = "sweep", !.todo = ShardIds, !.time = now]
      OBVIOUS
    <2>2. c = [op |-> "CleanupExpired", key |-> None, value |-> None, ttl |-> None,
               at |-> "sweep", time |-> now, todo |-> ShardIds, reply |-> None]
      BY <2>1 DEF Idle
    <2>3. CallOK(c)
      BY <1>0, <2>2 DEF CallOK, IsCall, PhaseOK
    <2> QED BY <1>7, <2>1, <2>3, BeginStep DEF BeginCleanupExpired
  <1> QED BY <1>1, <1>2, <1>3, <1>4, <1>5, <1>6, <1>7

\* SetInShard, GetInShard and DeleteInShard: one critical section of the key's
\* shard (shard_manager.h:61-93).
LEMMA InShardSteps ==
  ASSUME EInv, NEW t \in Threads, SetInShard(t) \/ GetInShard(t) \/ DeleteInShard(t)
  PROVE  EInv'
  <1>0. CallOK(call[t]) /\ CallsOK /\ ShardsOK /\ now \in Nat /\ TTLs \subseteq Nat
    BY CallAt, EngineAssumption DEF EInv, Times
  <1>1. PICK c, k, s : c = call[t] /\ k = c.key /\ s = GetShard(k)
    OBVIOUS
  <1>2. ASSUME k \in Keys, NEW d, CallOK(d), call' = [call EXCEPT ![t] = d],
               NEW r, ShardOK(r, KeysOf(s), Values), shards' = [shards EXCEPT ![s] = r],
               UNCHANGED <<ttl_index, lru, memory, now>>
        PROVE  EInv'
    <2>1. s \in ShardIds
      BY <1>1, <1>2, GetShardFacts
    <2>2. ShardsOK'
      BY <1>0, <1>2, <2>1, ShardMoves
    <2>3. CallsOK'
      BY <1>0, <1>2, CallMoves
    <2> QED BY <1>2, <2>2, <2>3 DEF EInv, IndexOK, PolicyOK
  <1>3. k \in Keys => ShardOK(shards[s], KeysOf(s), Values) /\ k \in KeysOf(s)
    BY <1>0, <1>1, GetShardFacts DEF ShardsOK
  <1>4. CASE SetInShard(t)
    <2>1. c.op = "Set" /\ c.at = "shard" /\ k \in Keys /\ c.value \in Values /\ IsCall(c)
          /\ c.ttl \in TTLs \cup {None} /\ c.time \in Nat
      BY <1>0, <1>1, <1>4 DEF SetInShard, Calling, At, CallOK, PhaseOK, Idle
    <2>2. CASE c.ttl = None
      <3>1. shards' = [shards EXCEPT ![s] = ShardSet(shards[s], k, c.value)] /\ Goto(t, "index")
        BY <1>1, <1>4, <2>2 DEF SetInShard
      <3>2. PICK d : MovedTo(d, c, "index") /\ call' = [call EXCEPT ![t] = d]
        BY <1>0, <1>1, <3>1, GotoFacts
      <3>3. CallOK(d)
        BY <1>1, <2>1, <3>2 DEF MovedTo, CallOK, PhaseOK
      <3>4. ShardOK(ShardSet(shards[s], k, c.value), KeysOf(s), Values)
        BY <1>3, <2>1, ShardOpsOK
      <3> QED BY <1>2, <1>4, <2>1, <3>1, <3>2, <3>3, <3>4 DEF SetInShard
    <2>3. CASE c.ttl # None
      <3>1. /\ shards' = [shards EXCEPT ![s] = ShardSetWithTTL(shards[s], k, c.value, c.ttl, now)]
            /\ Goto(t, "clock")
        BY <1>1, <1>4, <2>3 DEF SetInShard
      <3>2. PICK d : MovedTo(d, c, "clock") /\ call' = [call EXCEPT ![t] = d]
        BY <1>0, <1>1, <3>1, GotoFacts
      <3>3. CallOK(d)
        BY <1>1, <2>1, <2>3, <3>2 DEF MovedTo, CallOK, PhaseOK
      <3>4. c.ttl \in Nat
        BY <1>0, <2>1, <2>3
      <3>5. ShardOK(ShardSetWithTTL(shards[s], k, c.value, c.ttl, now), KeysOf(s), Values)
        BY <1>0, <1>3, <2>1, <3>4, ShardOpsOK
      <3> QED BY <1>2, <1>4, <2>1, <3>1, <3>2, <3>3, <3>5 DEF SetInShard
    <2> QED BY <2>2, <2>3
  <1>5. CASE GetInShard(t)
    <2>1. c.op = "Get" /\ k \in Keys /\ IsCall(c) /\ c.ttl \in TTLs \cup {None} /\ c.time \in Nat
      BY <1>0, <1>1, <1>5 DEF GetInShard, Calling, At, CallOK, PhaseOK, Idle
    <2>2. PICK a, rep : call' = [call EXCEPT ![t].at = a, ![t].reply = rep] /\ a \in {"policy", "return"}
      BY <1>5 DEF GetInShard
    <2>3. PICK d : d = [c EXCEPT !.at = a, !.reply = rep]
      OBVIOUS
    <2>4. call' = [call EXCEPT ![t] = d]
      BY <1>0, <1>1, <2>2, <2>3 DEF CallsOK
    <2>5. CallOK(d)
      <3>1. IsCall(d) /\ d.op = c.op /\ d.at = a /\ d.key = c.key /\ d.ttl = c.ttl /\ d.time = c.time
        BY <2>1, <2>3 DEF IsCall
      <3> QED BY <1>1, <2>1, <2>2, <3>1 DEF CallOK, PhaseOK
    <2>6. shards' = [shards EXCEPT ![s] = ShardGet(shards[s], k, now)]
      BY <1>1, <1>5 DEF GetInShard
    <2>7. ShardOK(ShardGet(shards[s], k, now), KeysOf(s), Values)
      BY <1>0, <1>3, <2>1, ShardOpsOK
    <2> QED BY <1>2, <1>5, <2>1, <2>4, <2>5, <2>6, <2>7 DEF GetInShard
  <1>6. CASE DeleteInShard(t)
    <2>1. /\ c.op \in {"Delete", "ProcessExpired", "ProcessEvictions"} /\ k \in Keys /\ IsCall(c)
          /\ c.ttl \in TTLs \cup {None} /\ c.time \in Nat
          /\ c.op # "Delete" => c.todo \subseteq Keys
      BY <1>0, <1>1, <1>6 DEF DeleteInShard, At, CallOK, PhaseOK, Idle
    <2>2. PICK a : a = IF c.op = "ProcessExpired" THEN "policy" ELSE "index"
      OBVIOUS
    <2>3. shards' = [shards EXCEPT ![s] = ShardDelete(shards[s], k)] /\ Goto(t, a)
      BY <1>1, <1>6, <2>2 DEF DeleteInShard
    <2>4. PICK d : MovedTo(d, c, a) /\ call' = [call EXCEPT ![t] = d]
      BY <1>0, <1>1, <2>3, GotoFacts
    <2>5. CallOK(d)
      BY <1>1, <2>1, <2>2, <2>4 DEF MovedTo, CallOK, PhaseOK
    <2>6. ShardOK(ShardDelete(shards[s], k), KeysOf(s), Values)
      BY <1>3, <2>1, ShardOpsOK
    <2> QED BY <1>2, <1>6, <2>1, <2>3, <2>4, <2>5, <2>6 DEF DeleteInShard
  <1> QED BY <1>4, <1>5, <1>6

\* The shard that GetAllKeys and CleanupExpired lock next.
LEMMA NextShard ==
  ASSUME NEW todo, todo \subseteq ShardIds, todo # {}
  PROVE  Min(todo) \in todo /\ Min(todo) \in ShardIds
  <1>1. todo \subseteq Nat
    BY DEF ShardIds
  <1> QED BY <1>1, MinFacts

\* What a shard's turn in GetAllKeys does to the call (shard_manager.h:99-104):
\* the shard is done, and its pairs, asked for at some times, join the answer.
LEMMA ScanMoves ==
  ASSUME CallsOK, NEW t \in Threads, ScanShard(t)
  PROVE  \E times, c, left, rep, a, d :
           /\ c = call[t] /\ left = c.todo \ {Min(c.todo)}
           /\ rep = c.reply \cup ShardGetAllKeys(shards[Min(c.todo)], times)
           /\ a = IF left = {} THEN "return" ELSE "scan"
           /\ d = [c EXCEPT !.todo = left, !.reply = rep, !.at = a]
           /\ call' = [call EXCEPT ![t] = d]
  <1>1. PICK c, s, left : c = call[t] /\ s = Min(c.todo) /\ left = c.todo \ {s}
    OBVIOUS
  <1>2. PICK times :
          call' = [call EXCEPT ![t].todo = left,
                               ![t].reply = @ \cup ShardGetAllKeys(shards[s], times),
                               ![t].at = IF left = {} THEN "return" ELSE "scan"]
    BY <1>1 DEF ScanShard
  <1>3. PICK more, rep, a, d :
          /\ more = ShardGetAllKeys(shards[s], times) /\ rep = c.reply \cup more
          /\ a = IF left = {} THEN "return" ELSE "scan"
          /\ d = [c EXCEPT !.todo = left, !.reply = rep, !.at = a]
    OBVIOUS
  <1>4. call' = [call EXCEPT ![t].todo = left, ![t].reply = @ \cup more, ![t].at = a]
    BY <1>2, <1>3
  <1>5. call' = [call EXCEPT ![t] = d]
    BY <1>1, <1>3, <1>4 DEF CallsOK
  <1> QED BY <1>1, <1>3, <1>5

\* One shard of GetAllKeys (shard_manager.h:95-107).
LEMMA ScanStep ==
  ASSUME EInv, NEW t \in Threads, ScanShard(t)
  PROVE  EInv'
  <1>0. CallOK(call[t]) /\ CallsOK
    BY CallAt
  <1>1. PICK times, c, left, rep, a, d :
           /\ c = call[t] /\ left = c.todo \ {Min(c.todo)}
           /\ rep = c.reply \cup ShardGetAllKeys(shards[Min(c.todo)], times)
           /\ a = IF left = {} THEN "return" ELSE "scan"
           /\ d = [c EXCEPT !.todo = left, !.reply = rep, !.at = a]
           /\ call' = [call EXCEPT ![t] = d]
    BY <1>0, ScanMoves
  <1>2. c.op = "GetAllKeys" /\ c.todo \subseteq ShardIds /\ IsCall(c)
        /\ c.ttl \in TTLs \cup {None} /\ c.time \in Nat
    BY <1>0, <1>1 DEF ScanShard, Calling, At, CallOK, PhaseOK, Idle
  <1>3. IsCall(d) /\ d.op = c.op /\ d.at = a /\ d.todo = left /\ d.ttl = c.ttl /\ d.time = c.time
    BY <1>1, <1>2 DEF IsCall
  <1>4. CallOK(d)
    BY <1>1, <1>2, <1>3 DEF CallOK, PhaseOK
  <1>5. now' \in Times /\ UNCHANGED <<shards, ttl_index, lru, memory>>
    BY DEF ScanShard, Later
  <1> QED BY <1>1, <1>4, <1>5, CallAndClockMove

\* One shard of the manager's CleanupExpired (shard_manager.h:109-118).
LEMMA SweepStep ==
  ASSUME EInv, NEW t \in Threads, SweepShard(t)
  PROVE  EInv'
  <1>0. CallOK(call[t]) /\ CallsOK /\ ShardsOK
    BY CallAt DEF EInv
  <1>1. PICK c, s, left, a :
           /\ c = call[t] /\ s = Min(c.todo) /\ left = c.todo \ {s}
           /\ a = IF left = {} THEN "return" ELSE "sweep"
           /\ call' = [call EXCEPT ![t].todo = left, ![t].at = a]
           /\ shards' = [shards EXCEPT ![s] = ShardCleanupExpired(shards[s], c.time)]
    BY <1>0 DEF SweepShard, CallsOK
  <1>2. c.op = "CleanupExpired" /\ c.todo \subseteq ShardIds /\ c.todo # {} /\ IsCall(c)
        /\ c.ttl \in TTLs \cup {None} /\ c.time \in Nat
    BY <1>0, <1>1 DEF SweepShard, Calling, At, CallOK, PhaseOK, Idle
  <1>3. PICK d : d = [c EXCEPT !.todo = left, !.at = a]
    OBVIOUS
  <1>4. IsCall(d) /\ d.op = c.op /\ d.at = a /\ d.todo = left /\ d.ttl = c.ttl /\ d.time = c.time
    BY <1>2, <1>3 DEF IsCall
  <1>5. CallOK(d)
    BY <1>1, <1>2, <1>4 DEF CallOK, PhaseOK
  <1>6. call' = [call EXCEPT ![t] = d]
    BY <1>0, <1>1, <1>3 DEF CallsOK
  <1>7. CallsOK'
    BY <1>0, <1>5, <1>6, CallMoves
  <1>8. s \in ShardIds
    BY <1>1, <1>2, NextShard
  <1>9. ShardOK(ShardCleanupExpired(shards[s], c.time), KeysOf(s), Values)
    BY <1>0, <1>2, <1>8, ShardOpsOK DEF ShardsOK
  <1>10. ShardsOK'
    BY <1>0, <1>1, <1>8, <1>9, ShardMoves
  <1> QED BY <1>7, <1>10 DEF EInv, IndexOK, PolicyOK, SweepShard

\* Reading the clock, reaching the index, the next key of a loop, returning.
LEMMA LocalSteps ==
  ASSUME EInv, NEW t \in Threads,
         ReadClock(t) \/ BeginIndex(t) \/ NextKey(t) \/ Return(t)
  PROVE  EInv'
  <1>0. CallOK(call[t]) /\ CallsOK /\ now \in Nat
    BY CallAt DEF EInv, Times
  <1>1. PICK c : c = call[t]
    OBVIOUS
  <1>2. IsCall(c) /\ c.ttl \in TTLs \cup {None} /\ c.time \in Nat /\ PhaseOK(c)
    BY <1>0, <1>1 DEF CallOK
  <1>3. CASE ReadClock(t)
    <2>1. PICK d : d = [c EXCEPT !.at = "index", !.time = now]
      OBVIOUS
    <2>2. call' = [call EXCEPT ![t] = d]
      BY <1>0, <1>1, <1>3, <2>1 DEF CallsOK, ReadClock
    <2>3. /\ IsCall(d) /\ d.op = c.op /\ d.at = "index" /\ d.time = now /\ d.key = c.key
          /\ d.value = c.value /\ d.ttl = c.ttl /\ d.todo = c.todo
      BY <1>2, <2>1 DEF IsCall
    <2>4. /\ c.op \in {"Set", "ProcessExpired"}
          /\ c.op = "Set" => c.key \in Keys /\ c.value \in Values
          /\ c.op = "ProcessExpired" => c.todo \subseteq Keys
      BY <1>1, <1>2, <1>3 DEF ReadClock, At, PhaseOK, Idle
    <2>5. CallOK(d)
      BY <1>0, <1>2, <2>3, <2>4 DEF CallOK, PhaseOK
    <2> QED BY <1>3, <2>2, <2>5, OnlyCallMoves DEF ReadClock
  <1>4. CASE BeginIndex(t)
    <2>1. PICK d : MovedTo(d, c, "inIndex") /\ call' = [call EXCEPT ![t] = d]
      BY <1>0, <1>1, <1>4, GotoFacts DEF BeginIndex
    <2>2. /\ c.op \in {"Set", "Delete", "ProcessExpired", "ProcessEvictions"}
          /\ c.op # "ProcessExpired" => c.key \in Keys
          /\ c.op = "Set" => c.value \in Values
          /\ c.op \in {"ProcessExpired", "ProcessEvictions"} => c.todo \subseteq Keys
      BY <1>1, <1>2, <1>4 DEF BeginIndex, At, PhaseOK, Idle
    <2>3. CallOK(d)
      BY <1>2, <2>1, <2>2 DEF MovedTo, CallOK, PhaseOK
    <2> QED BY <1>4, <2>1, <2>3, OnlyCallMoves DEF BeginIndex
  <1>5. CASE NextKey(t)
    <2>1. c.op \in {"ProcessExpired", "ProcessEvictions"} /\ c.todo \subseteq Keys
      <3>1. c.at = "next"
        BY <1>1, <1>5 DEF NextKey, At
      <3> QED BY <1>2, <3>1 DEF PhaseOK, Idle
    <2>2. CASE c.todo = {}
      <3>1. PICK d : MovedTo(d, c, "return") /\ call' = [call EXCEPT ![t] = d]
        BY <1>0, <1>1, <1>5, <2>2, GotoFacts DEF NextKey
      <3>2. CallOK(d)
        BY <1>2, <2>1, <3>1 DEF MovedTo, CallOK, PhaseOK
      <3> QED BY <1>5, <3>1, <3>2, OnlyCallMoves DEF NextKey
    <2>3. CASE c.todo # {}
      <3>1. PICK k \in c.todo :
               call' = [call EXCEPT ![t].at = "shard", ![t].key = k, ![t].todo = @ \ {k}]
        BY <1>1, <1>5, <2>3 DEF NextKey
      <3>2. PICK d : d = [c EXCEPT !.at = "shard", !.key = k, !.todo = @ \ {k}]
        OBVIOUS
      <3>3. call' = [call EXCEPT ![t] = d]
        BY <1>0, <1>1, <1>2, <3>1, <3>2 DEF CallsOK, IsCall
      <3>4. /\ IsCall(d) /\ d.op = c.op /\ d.at = "shard" /\ d.time = c.time /\ d.key = k
            /\ d.ttl = c.ttl /\ d.todo = c.todo \ {k}
        BY <1>2, <3>2 DEF IsCall
      <3>5. CallOK(d)
        BY <1>2, <2>1, <3>1, <3>4 DEF CallOK, PhaseOK
      <3> QED BY <1>5, <3>3, <3>5, OnlyCallMoves DEF NextKey
    <2> QED BY <2>2, <2>3
  <1>6. CASE Return(t)
    BY <1>6, IdleOK, OnlyCallMoves DEF Return
  <1> QED BY <1>3, <1>4, <1>5, <1>6

\* The access to the engine's index ends (kv_engine.h:65, 69, 94, 113, 126).
LEMMA EndIndexStep ==
  ASSUME EInv, NEW t \in Threads, EndIndex(t)
  PROVE  EInv'
  <1>0. CallOK(call[t]) /\ CallsOK /\ IndexOK /\ TTLs \subseteq Nat
    BY CallAt, EngineAssumption DEF EInv
  <1>1. PICK c : c = call[t]
    OBVIOUS
  <1>2. IsCall(c) /\ c.ttl \in TTLs \cup {None} /\ c.time \in Nat /\ PhaseOK(c) /\ c.at = "inIndex"
    BY <1>0, <1>1 DEF CallOK, EndIndex, At
  <1>3. /\ c.op \in {"Set", "Delete", "ProcessExpired", "ProcessEvictions"}
        /\ c.op # "ProcessExpired" => c.key \in Keys
        /\ c.op = "Set" => c.value \in Values
        /\ c.op = "ProcessEvictions" => c.todo \subseteq Keys
    BY <1>2 DEF PhaseOK, Idle
  <1>4. IndexOK'
    <2>0. IndexType(ttl_index, Keys, Timestamps) /\ IndexConsistent(ttl_index) /\ Timestamps \subseteq Nat
      BY <1>0, TimeModAssumption DEF IndexOK, Timestamps
    <2>1. CASE c.op = "Set" /\ c.ttl # None
      <3>1. PICK e : e = (c.time + c.ttl) % TimeMod
        OBVIOUS
      <3>2. ttl_index' = Upsert(ttl_index, c.key, e)
        BY <1>1, <2>1, <3>1 DEF EndIndex, IndexAfter
      <3>3. c.ttl \in Nat
        BY <1>0, <1>2, <2>1
      <3>4. e \in Timestamps
        BY <1>2, <3>1, <3>3, TimeModAssumption DEF Timestamps
      <3> QED BY <1>3, <2>0, <2>1, <3>2, <3>4, UpsertFacts DEF IndexOK
    <2>2. CASE c.op = "ProcessExpired"
      <3>1. ttl_index' = CollectExpired(ttl_index, c.time)
        BY <1>1, <2>2 DEF EndIndex, IndexAfter
      <3> QED BY <1>2, <2>0, <3>1, CollectExpiredFacts DEF IndexOK
    <2>3. CASE ~(c.op = "Set" /\ c.ttl # None) /\ c.op # "ProcessExpired"
      <3>1. ttl_index' = TtlRemove(ttl_index, c.key)
        BY <1>1, <2>3 DEF EndIndex, IndexAfter
      <3> QED BY <2>0, <3>1, TtlRemoveFacts DEF IndexOK
    <2> QED BY <2>1, <2>2, <2>3
  <1>5. CallsOK'
    <2>1. CASE c.op = "ProcessExpired"
      <3>1. PICK X : X = ExpiredKeys(ttl_index, c.time)
        OBVIOUS
      <3>2. call' = [call EXCEPT ![t].at = "next", ![t].todo = X]
        BY <1>1, <2>1, <3>1 DEF EndIndex
      <3>3. X \subseteq Keys
        <4>1. \A k : k \in X <=> k \in DOMAIN ttl_index.key_index /\ ttl_index.key_index[k] <= c.time
          <5>1. IndexType(ttl_index, Keys, Timestamps) /\ IndexConsistent(ttl_index) /\ Timestamps \subseteq Nat
            BY <1>0, TimeModAssumption DEF IndexOK, Timestamps
          <5> QED BY <1>2, <3>1, <5>1, CollectExpiredFacts
        <4>2. DOMAIN ttl_index.key_index \subseteq Keys
          BY <1>0 DEF IndexOK, IndexType
        <4> QED BY <4>1, <4>2
      <3>4. PICK d : d = [c EXCEPT !.at = "next", !.todo = X]
        OBVIOUS
      <3>5. call' = [call EXCEPT ![t] = d]
        BY <1>0, <1>1, <3>2, <3>4 DEF CallsOK
      <3>6. IsCall(d) /\ d.op = c.op /\ d.at = "next" /\ d.todo = X /\ d.time = c.time /\ d.ttl = c.ttl
        BY <1>2, <3>4 DEF IsCall
      <3>7. CallOK(d)
        BY <1>2, <2>1, <3>3, <3>6 DEF CallOK, PhaseOK
      <3> QED BY <1>0, <3>5, <3>7, CallMoves
    <2>2. CASE c.op # "ProcessExpired"
      <3>1. PICK a : /\ a = IF c.op = "ProcessEvictions" THEN "next" ELSE "policy"
                     /\ Goto(t, a)
        BY <1>1, <1>3, <2>2 DEF EndIndex
      <3>2. PICK d : MovedTo(d, c, a) /\ call' = [call EXCEPT ![t] = d]
        BY <1>0, <1>1, <3>1, GotoFacts
      <3>3. CallOK(d)
        BY <1>2, <1>3, <2>2, <3>1, <3>2 DEF MovedTo, CallOK, PhaseOK
      <3> QED BY <1>0, <3>2, <3>3, CallMoves
    <2> QED BY <2>1, <2>2
  <1> QED BY <1>4, <1>5 DEF EInv, ShardsOK, PolicyOK, EndIndex

\* The counter is a size_t of whatever width (memory_tracker.h:44-73).
LEMMA CounterWraps ==
  ASSUME NEW m \in 0..(MemoryMod - 1)
  PROVE  Reserve(m) \in 0..(MemoryMod - 1) /\ Release(m) \in 0..(MemoryMod - 1)
  BY EngineAssumption DEF Reserve, Release

\* A touch or a removal keeps the policy's list free of repetitions.
LEMMA PolicyMoves ==
  ASSUME PolicyOK, NEW k \in Keys, lru' \in {lru, LruTouch(lru, k), LruRemove(lru, k)}
  PROVE  PolicyOK'
  <1>1. lru \in Seq(Keys) /\ IsInjective(lru)
    BY DEF PolicyOK
  <1>2. CASE lru' = lru
    BY <1>1, <1>2 DEF PolicyOK
  <1>3. CASE lru' = LruTouch(lru, k)
    <2>1. lru' \in Seq(Keys) /\ IsInjective(lru')
      BY <1>1, <1>3, LruTouchFacts
    <2> QED BY <2>1 DEF PolicyOK
  <1>4. CASE lru' = LruRemove(lru, k)
    <2>1. lru' \in Seq(Keys) /\ IsInjective(lru')
      BY <1>1, <1>4, LruRemoveFacts
    <2> QED BY <2>1 DEF PolicyOK
  <1> QED BY <1>2, <1>3, <1>4

\* The eviction manager is told of a use or a removal (eviction_manager.h:54-98).
LEMMA PolicyStepOK ==
  ASSUME EInv, NEW t \in Threads, PolicyStep(t)
  PROVE  EInv'
  <1>0. CallOK(call[t]) /\ CallsOK /\ PolicyOK /\ memory \in 0..(MemoryMod - 1)
    BY CallAt DEF EInv
  <1>1. PICK c : c = call[t]
    OBVIOUS
  <1>2. IsCall(c) /\ c.ttl \in TTLs \cup {None} /\ c.time \in Nat /\ PhaseOK(c) /\ c.at = "policy"
    BY <1>0, <1>1 DEF CallOK, PolicyStep, At
  <1>3. /\ c.op \in {"Set", "Get", "Delete", "ProcessExpired"} /\ c.key \in Keys
        /\ c.op = "Set" => c.value \in Values
        /\ c.op = "ProcessExpired" => c.todo \subseteq Keys
    BY <1>2 DEF PhaseOK, Idle
  <1>4. /\ lru' \in {LruTouch(lru, c.key), LruRemove(lru, c.key)}
        /\ memory' \in {memory, Reserve(memory), Release(memory)}
    BY <1>1, <1>3 DEF PolicyStep, OnRead, OnWrite, OnDelete
  <1>5. PolicyOK'
    BY <1>0, <1>3, <1>4, PolicyMoves
  <1>6. memory' \in 0..(MemoryMod - 1)
    BY <1>0, <1>4, CounterWraps
  <1>7. PICK a : a = (IF c.op = "ProcessExpired" THEN "next" ELSE "return") /\ Goto(t, a)
    BY <1>1 DEF PolicyStep
  <1>8. PICK d : MovedTo(d, c, a) /\ call' = [call EXCEPT ![t] = d]
    BY <1>0, <1>1, <1>7, GotoFacts
  <1>9. CallOK(d)
    BY <1>2, <1>3, <1>7, <1>8 DEF MovedTo, CallOK, PhaseOK
  <1>10. CallsOK'
    BY <1>0, <1>8, <1>9, CallMoves
  <1> QED BY <1>5, <1>6, <1>10 DEF EInv, ShardsOK, IndexOK, PolicyStep

\* CollectEvictionCandidates (eviction_manager.h:116-141) takes keys from the end
\* of the list; the counter stays in its range, exception or not.
LEMMA VictimsStep ==
  ASSUME EInv, NEW t \in Threads, CollectEvictionCandidates(t)
  PROVE  EInv'
  <1>0. CallOK(call[t]) /\ CallsOK /\ PolicyOK /\ memory \in 0..(MemoryMod - 1)
    BY CallAt DEF EInv
  <1>1. PICK c, excess, kept :
           /\ c = call[t]
           /\ excess = IF IsOverLimit(memory) THEN memory - MemoryLimit ELSE 0
           /\ kept = Len(lru) - excess
    OBVIOUS
  <1>2. IsCall(c) /\ c.ttl \in TTLs \cup {None} /\ c.time \in Nat /\ c.op = "ProcessEvictions"
        /\ c.todo \subseteq Keys
    BY <1>0, <1>1 DEF CallOK, CollectEvictionCandidates, Calling, At, PhaseOK, Idle
  <1>3. /\ memory \in Nat /\ MemoryLimit \in Nat /\ MemoryMod \in Nat /\ memory < MemoryMod
        /\ excess \in Nat /\ excess <= memory
    BY <1>0, <1>1, EngineAssumption DEF IsOverLimit
  <1>4. lru \in Seq(Keys) /\ IsInjective(lru) /\ Len(lru) \in Nat
    BY <1>0 DEF PolicyOK
  <1>5. CASE excess <= Len(lru)
    <2>1. PICK X : X = {lru[i] : i \in (kept + 1)..Len(lru)}
      OBVIOUS
    <2>2. /\ lru' = SubSeq(lru, 1, kept) /\ memory' = memory - excess
          /\ call' = [call EXCEPT ![t].at = "next", ![t].todo = X]
      BY <1>1, <1>5, <2>1 DEF CollectEvictionCandidates
    <2>3. kept \in Nat /\ kept <= Len(lru)
      BY <1>1, <1>3, <1>4, <1>5
    <2>4. X \subseteq Keys
      BY <1>4, <2>1, <2>3
    <2>5. PolicyOK'
      <3>1. lru' \in Seq(Keys) /\ Len(lru') = kept /\ \A i \in 1..kept : lru'[i] = lru[i]
        BY <1>4, <2>2, <2>3
      <3>2. \A i, j \in 1..Len(lru) : lru[i] = lru[j] => i = j
        BY <1>4 DEF IsInjective
      <3>3. \A i, j \in 1..kept : lru'[i] = lru'[j] => i = j
        BY <1>4, <2>3, <3>1, <3>2
      <3>4. IsInjective(lru')
        BY <3>1, <3>3 DEF IsInjective
      <3> QED BY <3>1, <3>4 DEF PolicyOK
    <2>6. memory' \in 0..(MemoryMod - 1)
      BY <1>3, <2>2
    <2>7. PICK d : d = [c EXCEPT !.at = "next", !.todo = X]
      OBVIOUS
    <2>8. call' = [call EXCEPT ![t] = d]
      BY <1>0, <1>1, <2>2, <2>7 DEF CallsOK
    <2>9. IsCall(d) /\ d.op = c.op /\ d.at = "next" /\ d.todo = X /\ d.time = c.time /\ d.ttl = c.ttl
      BY <1>2, <2>7 DEF IsCall
    <2>10. CallOK(d)
      BY <1>2, <2>4, <2>9 DEF CallOK, PhaseOK
    <2>11. CallsOK'
      BY <1>0, <2>8, <2>10, CallMoves
    <2> QED BY <2>5, <2>6, <2>11 DEF EInv, ShardsOK, IndexOK, CollectEvictionCandidates
  <1>6. CASE ~(excess <= Len(lru))
    <2>1. lru' = <<>> /\ memory' = memory - Len(lru) /\ Goto(t, "thrown")
      BY <1>1, <1>6 DEF CollectEvictionCandidates
    <2>2. memory' \in 0..(MemoryMod - 1)
      BY <1>3, <1>4, <1>6, <2>1
    <2>3. PolicyOK'
      BY <2>1 DEF PolicyOK, IsInjective
    <2>4. PICK d : MovedTo(d, c, "thrown") /\ call' = [call EXCEPT ![t] = d]
      BY <1>0, <1>1, <2>1, GotoFacts
    <2>5. CallOK(d)
      BY <1>2, <2>4 DEF MovedTo, CallOK, PhaseOK
    <2>6. CallsOK'
      BY <1>0, <2>4, <2>5, CallMoves
    <2> QED BY <2>2, <2>3, <2>6 DEF EInv, ShardsOK, IndexOK, CollectEvictionCandidates
  <1> QED BY <1>5, <1>6

-----------------------------------------------------------------------------
(* The engine's state is well formed in every interleaving. *)

\* A new engine.
LEMMA InitEInv == Init => EInv
  <1> SUFFICES ASSUME Init PROVE EInv
    OBVIOUS
  <1>1. ShardsOK
    <2>1. shards = [s \in ShardIds |-> EmptyShard]
      BY DEF Init
    <2>2. \A s \in ShardIds : ShardOK(shards[s], KeysOf(s), Values)
      BY <2>1, EmptyShardOK
    <2>3. shards = [s \in ShardIds |-> shards[s]]
      BY <2>1
    <2> QED BY <2>2, <2>3 DEF ShardsOK
  <1>2. IndexOK
    <2>1. ShardOK(EmptyShard, Keys, Values) /\ EmptyShard.ttl = EmptyIndex
      BY EmptyShardOK DEF EmptyShard
    <2>2. IndexType(EmptyIndex, Keys, Timestamps) /\ IndexConsistent(EmptyIndex)
      BY <2>1, CoreElim DEF ShardOK
    <2> QED BY <2>2 DEF Init, IndexOK
  <1>3. PolicyOK
    BY DEF Init, PolicyOK, IsInjective
  <1>4. memory \in 0..(MemoryMod - 1) /\ now \in Times
    BY EngineAssumption DEF Init, Times
  <1>5. CallsOK
    <2>1. call = [t \in Threads |-> Idle]
      BY DEF Init
    <2> QED BY <2>1, IdleOK DEF CallsOK
  <1> QED BY <1>1, <1>2, <1>3, <1>4, <1>5 DEF EInv

\* Every step of every thread preserves the invariant.
LEMMA StepEInv ==
  ASSUME EInv, NEW t \in Threads, Step(t)
  PROVE  EInv'
  BY InShardSteps, ScanStep, SweepStep, LocalSteps, EndIndexStep, PolicyStepOK, VictimsStep DEF Step

\* So does every step of the engine, and the clock.
LEMMA NextEInv == EInv /\ [Next]_vars => EInv'
  <1> SUFFICES ASSUME EInv, [Next]_vars PROVE EInv'
    OBVIOUS
  <1>1. ASSUME NEW t \in Clients, NEW k \in Keys, NEW v \in Values, NEW ttl \in TTLs \cup {None},
               BeginSet(t, k, v, ttl)
        PROVE  EInv'
    BY <1>1, BeginsOK DEF Threads
  <1>2. ASSUME NEW t \in Clients, NEW k \in Keys, BeginGet(t, k) \/ BeginDelete(t, k) PROVE EInv'
    BY <1>2, BeginsOK DEF Threads
  <1>3. ASSUME NEW t \in Clients, BeginGetAllKeys(t) PROVE EInv'
    BY <1>3, BeginsOK DEF Threads
  <1>4. ASSUME NEW t \in Maintainers, BeginProcessExpired(t) \/ BeginProcessEvictions(t) PROVE EInv'
    BY <1>4, BeginsOK DEF Threads
  <1>5. ASSUME NEW t \in Sweepers, BeginCleanupExpired(t) PROVE EInv'
    BY <1>5, BeginsOK DEF Threads
  <1>6. ASSUME NEW t \in Threads, Step(t) PROVE EInv'
    BY <1>6, StepEInv
  <1>7. CASE ClockMoves
    <2>1. UNCHANGED <<shards, ttl_index, lru, memory, call>> /\ now' \in Times
      BY <1>7 DEF ClockMoves, Later
    <2> QED BY <2>1 DEF EInv, ShardsOK, IndexOK, PolicyOK, CallsOK
  <1>8. CASE UNCHANGED vars
    BY <1>8 DEF vars, EInv, ShardsOK, IndexOK, PolicyOK, CallsOK
  <1> QED BY <1>1, <1>2, <1>3, <1>4, <1>5, <1>6, <1>7, <1>8 DEF Next

\* The invariant holds in every behaviour of the engine.
THEOREM EngineInductive == Spec => []EInv
  BY InitEInv, NextEInv, PTL DEF Spec

\* A shard over some of the keys is a shard over all of them.
LEMMA ShardTypeWidens ==
  ASSUME NEW K, NEW L, K \subseteq L, NEW V, NEW s, ShardType(s, K, V)
  PROVE  ShardType(s, L, V)
  <1>1. \A q \in Seq(K) : q \in Seq(L)
    OBVIOUS
  <1>2. IndexType(s.ttl, L, Timestamps)
    BY <1>1 DEF ShardType, IndexType
  <1> QED BY <1>1, <1>2 DEF ShardType

\* Shards, index, policy and counter keep the types their members declare, for
\* any number of threads that call the engine at once (kv_engine.h:45-50).
THEOREM EngineTypes == Spec => []TypeOK
  <1>1. EInv => TypeOK
    <2> SUFFICES ASSUME EInv PROVE TypeOK
      OBVIOUS
    <2>1. ASSUME NEW s \in ShardIds PROVE ShardType(shards[s], Keys, Values)
      <3>1. ShardType(shards[s], KeysOf(s), Values)
        BY DEF EInv, ShardsOK, ShardOK, ShardCore
      <3>2. KeysOf(s) \subseteq Keys
        BY DEF KeysOf
      <3> QED BY <3>1, <3>2, ShardTypeWidens
    <2>2. DOMAIN call = Threads
      BY DEF EInv, CallsOK
    <2> QED BY <2>1, <2>2 DEF EInv, IndexOK, PolicyOK, TypeOK
  <1> QED BY <1>1, EngineInductive, PTL

-----------------------------------------------------------------------------
(* Data races on the engine's index *)

\* The threads that use the index: those that call the engine.
IndexUsers == Clients \cup Maintainers

\* Only a call of the engine reaches the index.
UsersOnly == \A t \in Threads : call[t].op \notin {"idle", "CleanupExpired"} => t \in IndexUsers

\* With no TTL in use there is nothing to write in the index.
NoTTLSet == ttl_index = EmptyIndex

\* A thread stays in its method until it returns.
LEMMA StepKeepsOp ==
  ASSUME EInv, NEW t \in Threads, Step(t)
  PROVE  \E d : call' = [call EXCEPT ![t] = d] /\ (d = Idle \/ d.op = call[t].op)
  <1>0. CallsOK /\ IsCall(call[t])
    BY CallAt DEF CallOK
  <1>1. PICK c : c = call[t] /\ IsCall(c)
    BY <1>0
  <1>2. ASSUME NEW a, Goto(t, a)
        PROVE  \E d : call' = [call EXCEPT ![t] = d] /\ (d = Idle \/ d.op = call[t].op)
    BY <1>0, <1>2, GotoFacts DEF MovedTo
  <1>3. CASE SetInShard(t) \/ DeleteInShard(t) \/ BeginIndex(t) \/ PolicyStep(t)
    BY <1>2, <1>3 DEF SetInShard, DeleteInShard, BeginIndex, PolicyStep
  <1>4. CASE GetInShard(t)
    <2>1. PICK a, rep : call' = [call EXCEPT ![t].at = a, ![t].reply = rep]
      BY <1>4 DEF GetInShard
    <2>2. PICK d : d = [c EXCEPT !.at = a, !.reply = rep]
      OBVIOUS
    <2>3. d.op = c.op
      BY <1>1, <2>2 DEF IsCall
    <2>4. call' = [call EXCEPT ![t] = d]
      BY <1>0, <1>1, <2>1, <2>2 DEF CallsOK
    <2> QED BY <1>1, <2>3, <2>4
  <1>5. CASE ScanShard(t)
    <2>1. PICK times, x, left, rep, a, d :
             /\ x = call[t] /\ left = x.todo \ {Min(x.todo)}
             /\ rep = x.reply \cup ShardGetAllKeys(shards[Min(x.todo)], times)
             /\ a = IF left = {} THEN "return" ELSE "scan"
             /\ d = [x EXCEPT !.todo = left, !.reply = rep, !.at = a]
             /\ call' = [call EXCEPT ![t] = d]
      BY <1>0, <1>5, ScanMoves
    <2>2. x = c /\ d = [c EXCEPT !.todo = left, !.reply = rep, !.at = a] /\ call' = [call EXCEPT ![t] = d]
      BY <1>1, <2>1
    <2>3. d.op = c.op
      BY <1>1, <2>2 DEF IsCall
    <2> QED BY <1>1, <2>2, <2>3
  <1>6. CASE SweepShard(t)
    <2>1. PICK left, a : call' = [call EXCEPT ![t].todo = left, ![t].at = a]
      BY <1>6 DEF SweepShard
    <2>2. PICK d : d = [c EXCEPT !.todo = left, !.at = a]
      OBVIOUS
    <2>3. d.op = c.op
      BY <1>1, <2>2 DEF IsCall
    <2>4. call' = [call EXCEPT ![t] = d]
      BY <1>0, <1>1, <2>1, <2>2 DEF CallsOK
    <2> QED BY <1>1, <2>3, <2>4
  <1>7. CASE ReadClock(t)
    <2>1. PICK d : d = [c EXCEPT !.at = "index", !.time = now]
      OBVIOUS
    <2>2. d.op = c.op
      BY <1>1, <2>1 DEF IsCall
    <2>3. call' = [call EXCEPT ![t] = d]
      BY <1>0, <1>1, <1>7, <2>1 DEF CallsOK, ReadClock
    <2> QED BY <1>1, <2>2, <2>3
  <1>8. CASE EndIndex(t) \/ CollectEvictionCandidates(t)
    <2>1. CASE \E a : Goto(t, a)
      BY <1>2, <2>1
    <2>2. CASE \E X : call' = [call EXCEPT ![t].at = "next", ![t].todo = X]
      <3>1. PICK X : call' = [call EXCEPT ![t].at = "next", ![t].todo = X]
        BY <2>2
      <3>2. PICK d : d = [c EXCEPT !.at = "next", !.todo = X]
        OBVIOUS
      <3>3. d.op = c.op
        BY <1>1, <3>2 DEF IsCall
      <3>4. call' = [call EXCEPT ![t] = d]
        BY <1>0, <1>1, <3>1, <3>2 DEF CallsOK
      <3> QED BY <1>1, <3>3, <3>4
    <2>3. CASE EndIndex(t)
      <3>1. c.op \in {"Set", "Delete", "ProcessExpired", "ProcessEvictions"}
        <4>1. PhaseOK(c) /\ c.at = "inIndex"
          BY <1>1, <2>3, CallAt DEF CallOK, EndIndex, At
        <4> QED BY <4>1 DEF PhaseOK, Idle
      <3> QED BY <1>1, <2>1, <2>2, <2>3, <3>1 DEF EndIndex
    <2>4. CASE CollectEvictionCandidates(t)
      BY <2>1, <2>2, <2>4 DEF CollectEvictionCandidates
    <2> QED BY <1>8, <2>3, <2>4
  <1>9. CASE NextKey(t)
    <2>1. CASE call[t].todo = {}
      BY <1>2, <1>9, <2>1 DEF NextKey
    <2>2. CASE call[t].todo # {}
      <3>1. PICK k : call' = [call EXCEPT ![t].at = "shard", ![t].key = k, ![t].todo = @ \ {k}]
        BY <1>9, <2>2 DEF NextKey
      <3>2. PICK d : d = [c EXCEPT !.at = "shard", !.key = k, !.todo = @ \ {k}]
        OBVIOUS
      <3>3. call' = [call EXCEPT ![t] = d]
        BY <1>0, <1>1, <3>1, <3>2 DEF CallsOK, IsCall
      <3>4. d.op = c.op
        BY <1>1, <3>2 DEF IsCall
      <3> QED BY <1>1, <3>3, <3>4
    <2> QED BY <2>1, <2>2
  <1>10. CASE Return(t)
    BY <1>10 DEF Return
  <1> QED BY <1>3, <1>4, <1>5, <1>6, <1>7, <1>8, <1>9, <1>10 DEF Step

\* What a method puts in op when it begins.
LEMMA BeginOps ==
  ASSUME EInv, NEW t, NEW c, Begin(t, c), UsersOnly, t \in IndexUsers \/ c.op = "CleanupExpired"
  PROVE  UsersOnly'
  BY DEF Begin, UsersOnly, EInv, CallsOK

\* Only engine calls, made by the index's users, are ever past "idle".
LEMMA NextUsersOnly == EInv /\ UsersOnly /\ [Next]_vars => UsersOnly'
  <1> SUFFICES ASSUME EInv, UsersOnly, [Next]_vars PROVE UsersOnly'
    OBVIOUS
  <1>1. ASSUME NEW t \in Clients, NEW k, NEW v, NEW ttl, BeginSet(t, k, v, ttl) PROVE UsersOnly'
    BY <1>1, BeginOps DEF BeginSet, IndexUsers
  <1>2. ASSUME NEW t \in Clients, NEW k, BeginGet(t, k) \/ BeginDelete(t, k) PROVE UsersOnly'
    BY <1>2, BeginOps DEF BeginGet, BeginDelete, IndexUsers
  <1>3. ASSUME NEW t \in Clients, BeginGetAllKeys(t) PROVE UsersOnly'
    BY <1>3, BeginOps DEF BeginGetAllKeys, IndexUsers
  <1>4. ASSUME NEW t \in Maintainers, BeginProcessExpired(t) \/ BeginProcessEvictions(t) PROVE UsersOnly'
    BY <1>4, BeginOps DEF BeginProcessExpired, BeginProcessEvictions, IndexUsers
  <1>5. ASSUME NEW t \in Sweepers, BeginCleanupExpired(t) PROVE UsersOnly'
    <2>1. PICK c : c = [Idle EXCEPT !.op = "CleanupExpired", !.at = "sweep", !.todo = ShardIds, !.time = now]
      OBVIOUS
    <2>2. c.op = "CleanupExpired"
      BY <2>1 DEF Idle
    <2> QED BY <1>5, <2>1, <2>2, BeginOps DEF BeginCleanupExpired
  <1>6. ASSUME NEW t \in Threads, Step(t) PROVE UsersOnly'
    <2>1. PICK d : call' = [call EXCEPT ![t] = d] /\ (d = Idle \/ d.op = call[t].op)
      BY <1>6, StepKeepsOp
    <2> QED BY <2>1 DEF EInv, CallsOK, UsersOnly, Idle
  <1>7. CASE ClockMoves \/ UNCHANGED vars
    BY <1>7 DEF ClockMoves, vars, UsersOnly
  <1> QED BY <1>1, <1>2, <1>3, <1>4, <1>5, <1>6, <1>7 DEF Next

\* Removing from an empty index, or collecting from it, does nothing.
LEMMA EmptyIndexStays ==
  ASSUME NEW k, NEW t
  PROVE  TtlRemove(EmptyIndex, k) = EmptyIndex /\ CollectExpired(EmptyIndex, t) = EmptyIndex
  <1>1. TtlRemove(EmptyIndex, k) = EmptyIndex
    BY DEF TtlRemove, EmptyIndex
  <1>2. PICK e, em, ki : em = [u \in {} |-> <<>>] /\ ki = [x \in {} |-> 0]
                         /\ e = [expiry_map |-> em, key_index |-> ki]
    OBVIOUS
  <1>3. e = EmptyIndex
    BY <1>2 DEF EmptyIndex
  <1>4. CollectExpired(e, t) = [expiry_map |-> Restrict(em, {u \in DOMAIN em : u > t}),
                                key_index |-> Restrict(ki, DOMAIN ki \ ExpiredKeys(e, t))]
    BY <1>2 DEF CollectExpired
  <1>5. {u \in DOMAIN em : u > t} = {} /\ DOMAIN ki \ ExpiredKeys(e, t) = {}
    BY <1>2
  <1>6. Restrict(em, {}) = em /\ Restrict(ki, {}) = ki
    BY <1>2 DEF Restrict
  <1> QED BY <1>1, <1>2, <1>3, <1>4, <1>5, <1>6

\* Without TTLs no access changes the index.
LEMMA NothingToWrite ==
  ASSUME TTLs = {}, EInv, NoTTLSet, NEW t \in Threads, InIndex(t)
  PROVE  IndexAfter(t) = ttl_index /\ ~WritesIndex(t)
  <1>1. call[t].ttl = None
    BY CallAt DEF CallOK
  <1>2. IndexAfter(t) \in {CollectExpired(ttl_index, call[t].time), TtlRemove(ttl_index, call[t].key)}
    BY <1>1 DEF IndexAfter
  <1>3. IndexAfter(t) = ttl_index
    BY <1>2, EmptyIndexStays DEF NoTTLSet
  <1> QED BY <1>1, <1>3 DEF WritesIndex

\* The index stays empty.
LEMMA NextNoTTLSet ==
  ASSUME TTLs = {}, EInv, NoTTLSet, [Next]_vars
  PROVE  NoTTLSet'
  <1>1. ASSUME NEW t \in Threads, EndIndex(t) PROVE NoTTLSet'
    BY <1>1, NothingToWrite DEF EndIndex, At, InIndex, NoTTLSet
  <1>2. ASSUME NEW t \in Threads, Step(t), ~EndIndex(t) PROVE NoTTLSet'
    BY <1>2 DEF Step, SetInShard, GetInShard, DeleteInShard, ScanShard, SweepShard, ReadClock,
       BeginIndex, PolicyStep, CollectEvictionCandidates, NextKey, Return, NoTTLSet
  <1>3. CASE UNCHANGED ttl_index
    BY <1>3 DEF NoTTLSet
  <1> QED BY <1>1, <1>2, <1>3 DEF Next, vars, ClockMoves, Begin, BeginSet, BeginGet, BeginDelete,
       BeginGetAllKeys, BeginProcessExpired, BeginProcessEvictions, BeginCleanupExpired

\* Without TTLs, or with all calls of the engine made by one thread (as the
\* server makes them, server_app.h:48-56), no accesses to ttl_index_ race: a
\* Remove of a key that is not there only reads (kv_engine.h:65, 94, 126).
\* Sweepers may run beside it.
THEOREM RaceFree ==
  ASSUME TTLs = {} \/ \A t, u \in IndexUsers : t = u
  PROVE  Spec => []NoDataRace
  <1> DEFINE I == EInv /\ UsersOnly /\ (TTLs = {} => NoTTLSet)
  <1>1. Init => I
    <2>1. Init => UsersOnly
      BY DEF Init, UsersOnly, Idle
    <2> QED BY <2>1, InitEInv DEF Init, NoTTLSet
  <1>2. I /\ [Next]_vars => I'
    BY NextEInv, NextUsersOnly, NextNoTTLSet
  <1>3. I => NoDataRace
    <2> SUFFICES ASSUME I, NEW t \in Threads, NEW u \in Threads, Racing(t, u) PROVE FALSE
      BY DEF NoDataRace
    <2>1. t # u /\ InIndex(t) /\ InIndex(u) /\ (WritesIndex(t) \/ WritesIndex(u))
      BY DEF Racing
    <2>2. CASE TTLs = {}
      BY <2>1, <2>2, NothingToWrite
    <2>3. CASE \A x, y \in IndexUsers : x = y
      <3>1. \A x \in Threads : InIndex(x) => x \in IndexUsers
        BY CallAt DEF InIndex, CallOK, PhaseOK, Idle, UsersOnly
      <3> QED BY <2>1, <2>3, <3>1
    <2> QED BY <2>2, <2>3
  <1> QED BY <1>1, <1>2, <1>3, PTL DEF Spec

-----------------------------------------------------------------------------
(***************************************************************************)
(* Linearizability.  A call acts on the abstract map in the step in which  *)
(* it holds the mutex of its key's shard.  What that takes, besides the    *)
(* invariant: no entry has a TTL, so that no Get and no sweep removes one, *)
(* and only Get and GetAllKeys have something to return.                   *)
(***************************************************************************)

PlainClients ==
    /\ TTLs = {} /\ Maintainers = {} /\ Sweepers \cap Clients = {}
    /\ Keys # {}

\* A shard without any TTL.
Plain(s) ==
    /\ \A k \in DOMAIN s.store : ~HasTTL(s.store[k])
    /\ DOMAIN s.ttl.key_index = {}

\* Who may be in which method, and what has been read so far.
PlainCall(t, c) ==
    /\ c.op \in IF t \in Clients THEN {"idle", "Set", "Get", "Delete", "GetAllKeys"}
                ELSE {"idle", "CleanupExpired"}
    /\ c.op \in {"Set", "Delete"} => c.reply = None

RInv ==
    /\ EInv
    /\ \A s \in ShardIds : Plain(shards[s])
    /\ \A t \in Threads : PlainCall(t, call[t])

\* Set stores a plain entry: whatever it loses, the shard stays plain.
LEMMA PlainSet ==
  ASSUME NEW K, NEW V, NEW s, ShardOK(s, K, V), Plain(s), NEW k \in K, NEW v \in V,
         NEW r, r = ShardSet(s, k, v)
  PROVE  /\ Plain(r)
         /\ \E lost \in SUBSET (DOMAIN s.store \ {k}) :
               /\ Cardinality(lost) =
                    IF k \notin DOMAIN s.store /\ Cardinality(DOMAIN s.store) = Capacity THEN 1 ELSE 0
               /\ DOMAIN r.store = (DOMAIN s.store \cup {k}) \ lost
               /\ r.store[k].value = v
               /\ \A x \in DOMAIN r.store : x # k => r.store[x] = s.store[x]
  <1>1. PICK entry : entry = Entry(v, 0, 0)
    OBVIOUS
  <1>2. PICK idx : /\ WroteStore(r, s, k, entry, idx)
                   /\ DOMAIN idx.key_index = DOMAIN s.ttl.key_index \ {k}
    BY <1>1, ShardSetStore DEF IndexWithout
  <1>3. PICK lost \in SUBSET (DOMAIN s.store \ {k}) :
           /\ Cardinality(lost) =
                IF k \notin DOMAIN s.store /\ Cardinality(DOMAIN s.store) = Capacity THEN 1 ELSE 0
           /\ r.store = [x \in (DOMAIN s.store \cup {k}) \ lost |->
                           IF x = k THEN entry ELSE s.store[x]]
           /\ DOMAIN r.ttl.key_index = DOMAIN idx.key_index \ lost
    BY <1>2 DEF WroteStore, IndexWithout
  <1>4. ~HasTTL(entry) /\ entry.value = v
    BY <1>1 DEF Entry, HasTTL, NoExpiry
  <1>5. Plain(r)
    BY <1>2, <1>3, <1>4 DEF Plain
  <1> QED BY <1>3, <1>4, <1>5

\* Get of a plain shard finds what is stored and removes nothing.
LEMMA PlainGet ==
  ASSUME NEW K, NEW V, NEW s, ShardOK(s, K, V), Plain(s), NEW k, NEW t,
         NEW r, r = ShardGet(s, k, t)
  PROVE  /\ Plain(r)
         /\ r.store = s.store
         /\ ShardHit(s, k, t) <=> k \in DOMAIN s.store
  <1>1. s = [store |-> s.store, order |-> s.order, ttl |-> s.ttl]
    BY CoreElim DEF ShardOK
  <1>2. ShardHit(s, k, t) <=> k \in DOMAIN s.store
    BY DEF ShardHit, IsExpired, Plain
  <1>3. r.store = s.store /\ r.ttl = s.ttl
    BY <1>1, <1>2 DEF ShardGet
  <1> QED BY <1>2, <1>3 DEF Plain

\* Delete of a plain shard.
LEMMA PlainDelete ==
  ASSUME NEW K, NEW V, NEW s, ShardOK(s, K, V), Plain(s), NEW k,
         NEW r, r = ShardDelete(s, k)
  PROVE  Plain(r) /\ r.store = [x \in DOMAIN s.store \ {k} |-> s.store[x]]
  <1>1. /\ r.store = [x \in DOMAIN s.store \ {k} |-> s.store[x]]
        /\ DOMAIN r.ttl.key_index = DOMAIN s.ttl.key_index \ {k}
    BY RemoveInternalStore DEF ShardOK, ShardDelete, IndexWithout
  <1> QED BY <1>1 DEF Plain

\* A sweep finds nothing to do in a plain shard.
LEMMA PlainSweep ==
  ASSUME NEW K, NEW V, NEW s, ShardOK(s, K, V), Plain(s), NEW t \in Nat,
         NEW r, r = ShardCleanupExpired(s, t)
  PROVE  Plain(r) /\ r.store = s.store
  <1>1. IndexedHaveTTL(s)
    BY DEF Plain, IndexedHaveTTL
  <1>2. /\ r.store = [x \in {k \in DOMAIN s.store : ~IsExpired(s.store[k], t)} |-> s.store[x]]
        /\ IndexedHaveTTL(r)
    BY <1>1, ShardCleanupStore DEF ShardOK
  <1>3. {k \in DOMAIN s.store : ~IsExpired(s.store[k], t)} = DOMAIN s.store
    BY DEF Plain, IsExpired
  <1>4. s.store = [x \in DOMAIN s.store |-> s.store[x]]
    BY CoreElim DEF ShardOK
  <1>5. r.store = s.store
    BY <1>2, <1>3, <1>4
  <1>6. ShardOK(r, K, V)
    BY ShardOpsOK
  <1>7. DOMAIN r.ttl.key_index \subseteq DOMAIN r.store
    BY <1>6, CoreElim DEF ShardOK
  <1>8. DOMAIN r.ttl.key_index = {}
    BY <1>2, <1>5, <1>7 DEF IndexedHaveTTL, Plain
  <1> QED BY <1>5, <1>8 DEF Plain

-----------------------------------------------------------------------------
(* The refinement mapping. *)

\* The keys a GetAllKeys has yet to read, and what the abstract store sees of a
\* call: Unscanned and AbstractCall as functions of the call.
LeftOf(c) == IF c.op = "GetAllKeys" THEN {k \in Keys : GetShard(k) \in c.todo} ELSE {}

Abs(c) ==
    [op    |-> c.op,
     key   |-> c.key,
     value |-> c.value,
     done  |-> IF c.op = "GetAllKeys" THEN LeftOf(c) = {} ELSE c.at \notin {"idle", "shard"},
     left  |-> LeftOf(c),
     reply |-> c.reply]

Pend == [t \in Clients |-> AbstractCall(t)]
Dict == [k \in Stored |-> Store(k)[k].value]

\* A step of one thread moves one abstract call at most.
LEMMA PendMoves ==
  ASSUME CallsOK, NEW t \in Threads, NEW d, call' = [call EXCEPT ![t] = d]
  PROVE  /\ t \in Clients => Pend' = [Pend EXCEPT ![t] = Abs(d)] /\ Pend[t] = Abs(call[t])
         /\ t \notin Clients => Pend' = Pend
         /\ t \in Clients /\ Abs(d) = Abs(call[t]) => Pend' = Pend
  <1>1. \A u : AbstractCall(u) = Abs(call[u])
    BY DEF AbstractCall, Abs, Unscanned, LeftOf
  <1>2. \A u : AbstractCall(u)' = Abs(call'[u])
    BY DEF AbstractCall, Abs, Unscanned, LeftOf, GetShard
  <1>3. Pend = [u \in Clients |-> Abs(call[u])]
    BY <1>1 DEF Pend
  <1>4. Pend' = [u \in Clients |-> Abs(call'[u])]
    BY <1>2 DEF Pend
  <1>5. \A u \in Clients : call'[u] = IF u = t THEN d ELSE call[u]
    BY DEF CallsOK, Threads
  <1> QED BY <1>3, <1>4, <1>5

\* The abstract map, shard by shard: a key is found in its own shard only.
LEMMA DictFacts ==
  ASSUME ShardsOK
  PROVE  /\ Dict = [k \in Stored |-> Dict[k]] /\ DOMAIN Dict = Stored
         /\ \A s \in ShardIds : Stored \cap KeysOf(s) = DOMAIN shards[s].store
         /\ \A s \in ShardIds : DOMAIN shards[s].store \subseteq Stored \cap KeysOf(s)
         /\ \A s \in ShardIds : \A k \in KeysOf(s) : k \in Stored => Dict[k] = shards[s].store[k].value
  <1>1. \A s \in ShardIds : DOMAIN shards[s].store \subseteq KeysOf(s)
    BY CoreElim DEF ShardsOK, ShardOK
  <1>2. \A s \in ShardIds : \A k \in KeysOf(s) : k \in Keys /\ Store(k) = shards[s].store
    BY DEF KeysOf, Store
  <1> QED BY <1>1, <1>2 DEF Stored, Dict

\* One shard changes to r: the map changes in that shard's keys only.
LEMMA DictMoves ==
  ASSUME ShardsOK, NEW s \in ShardIds, NEW r, DOMAIN r.store \subseteq KeysOf(s),
         shards' = [shards EXCEPT ![s] = r]
  PROVE  /\ Dict' = [k \in Stored' |-> Dict'[k]] /\ DOMAIN Dict' = Stored'
         /\ Stored' = (Stored \ KeysOf(s)) \cup DOMAIN r.store
         /\ \A k \in Stored' : Dict'[k] = IF k \in KeysOf(s) THEN r.store[k].value ELSE Dict[k]
  <1>1. \A k \in Keys : GetShard(k) \in ShardIds /\ (GetShard(k) = s <=> k \in KeysOf(s))
    BY GetShardFacts DEF KeysOf
  <1>2. \A k \in Keys : Store(k)' = IF k \in KeysOf(s) THEN r.store ELSE Store(k)
    BY <1>1 DEF Store, ShardsOK, GetShard
  <1>3. Dict' = [k \in Stored' |-> Store(k)'[k].value]
    BY DEF Dict
  <1>4. Stored' = {k \in Keys : k \in DOMAIN Store(k)'}
    BY DEF Stored
  <1>5. Stored' = (Stored \ KeysOf(s)) \cup DOMAIN r.store
    BY <1>2, <1>4 DEF Stored, KeysOf
  <1>6. ASSUME NEW k \in Stored' PROVE Dict'[k] = IF k \in KeysOf(s) THEN r.store[k].value ELSE Dict[k]
    <2>1. Dict'[k] = Store(k)'[k].value /\ k \in Keys
      BY <1>3, <1>4, <1>6
    <2>2. CASE k \in KeysOf(s)
      BY <1>2, <2>1, <2>2
    <2>3. CASE k \notin KeysOf(s)
      <3>1. k \in Stored
        BY <1>5, <1>6, <2>3
      <3> QED BY <1>2, <2>1, <2>3, <3>1 DEF Dict
    <2> QED BY <2>2, <2>3
  <1> QED BY <1>3, <1>5, <1>6

\* A shard that stores the same as before leaves the map alone.
LEMMA DictStays ==
  ASSUME ShardsOK, NEW s \in ShardIds, NEW r, r.store = shards[s].store,
         shards' = [shards EXCEPT ![s] = r]
  PROVE  Dict' = Dict
  <1>1. DOMAIN r.store = Stored \cap KeysOf(s)
    BY DictFacts
  <1>2. Stored' = Stored
    <2>1. Stored' = (Stored \ KeysOf(s)) \cup DOMAIN r.store
      BY <1>1, DictMoves
    <2> QED BY <1>1, <2>1
  <1>3. \A k \in Stored : Dict'[k] = Dict[k]
    <2>1. \A k \in Stored' : Dict'[k] = IF k \in KeysOf(s) THEN r.store[k].value ELSE Dict[k]
      BY <1>1, DictMoves
    <2>2. \A k \in KeysOf(s) : k \in Stored => Dict[k] = r.store[k].value
      BY DictFacts
    <2> QED BY <1>2, <2>1, <2>2
  <1>4. Dict' = [k \in Stored' |-> Dict'[k]]
    BY <1>1, DictMoves
  <1>5. Dict = [k \in Stored |-> Dict[k]]
    BY DictFacts
  <1> QED BY <1>2, <1>3, <1>4, <1>5

\* A shard holds no more keys than all the shards together.
LEMMA StoredCounts ==
  ASSUME ShardsOK, NEW s \in ShardIds
  PROVE  /\ Cardinality(DOMAIN shards[s].store) \in Nat /\ Cardinality(Stored) \in Nat
         /\ Cardinality(DOMAIN shards[s].store) <= Cardinality(Stored)
  <1>1. PICK f, T : f = [x \in ShardIds |-> DOMAIN shards[x].store] /\ T = {f[x] : x \in ShardIds}
    OBVIOUS
  <1>2. f \in Surjection(ShardIds, T)
    BY <1>1 DEF Surjection
  <1>3. IsFiniteSet(ShardIds)
    BY FS_Interval, EngineAssumption DEF ShardIds
  <1>4. IsFiniteSet(T)
    BY <1>2, <1>3, FS_Surjection
  <1>5. \A x \in ShardIds : IsFiniteSet(DOMAIN shards[x].store)
    BY OrderCounts DEF ShardsOK, ShardOK
  <1>6. \A D \in T : IsFiniteSet(D)
    BY <1>1, <1>5
  <1>7. IsFiniteSet(UNION T)
    BY <1>4, <1>6, FS_UNION
  <1>8. UNION T = Stored
    <2>1. \A k \in Stored : k \in Keys /\ k \in f[GetShard(k)] /\ GetShard(k) \in ShardIds
      BY <1>1, GetShardFacts DEF Stored, Store
    <2>2. \A x \in ShardIds : f[x] \subseteq Stored
      BY <1>1, DictFacts
    <2> QED BY <1>1, <2>1, <2>2
  <1>9. DOMAIN shards[s].store \in SUBSET Stored
    BY DictFacts
  <1> QED BY <1>7, <1>8, <1>9, FS_Subset, FS_CardinalityType

-----------------------------------------------------------------------------
(* Every step of the engine is a step of the abstract store, or invisible. *)

AbsStep == Atomic!StoreNext \/ (Dict' = Dict /\ Pend' = Pend)

Simulated(t) ==
    /\ \E d : PlainCall(t, d) /\ call' = [call EXCEPT ![t] = d]
    /\ \A s \in ShardIds : Plain(shards'[s])
    /\ AbsStep

\* The abstract store counts with the same Cardinality.
LEMMA SameCount == \A S : Atomic!Cardinality(S) = Cardinality(S)
  BY Zenon DEF Cardinality, Atomic!Cardinality, IsFiniteSet, Atomic!IsFiniteSet

\* One shard changes and stays plain.
LEMMA PlainShards ==
  ASSUME RInv, NEW s \in ShardIds, NEW r, Plain(r), shards' = [shards EXCEPT ![s] = r]
  PROVE  \A x \in ShardIds : Plain(shards'[x])
  <1>1. \A x \in ShardIds : shards'[x] = IF x = s THEN r ELSE shards[x]
    BY DEF RInv, EInv, ShardsOK
  <1> QED BY <1>1 DEF RInv

\* A step of a thread that the abstract store does not see.
LEMMA HiddenStep ==
  ASSUME RInv, NEW t \in Threads, NEW d, PlainCall(t, d), call' = [call EXCEPT ![t] = d],
         t \in Clients => Abs(d) = Abs(call[t]), UNCHANGED shards
  PROVE  Simulated(t)
  <1>1. Pend' = Pend
    BY PendMoves DEF RInv, EInv
  <1>2. Dict' = Dict
    BY DEF Dict, Stored, Store, GetShard
  <1> QED BY <1>1, <1>2 DEF Simulated, AbsStep, RInv

\* Past its shard step, a Set, Get or Delete only moves on to its return.
LEMMA MovesOn ==
  ASSUME NEW c, NEW d, NEW a, MovedTo(d, c, a), NEW t, PlainCall(t, c),
         c.op \in {"Set", "Get", "Delete"},
         c.at \notin {"idle", "shard"}, a \notin {"idle", "shard"}
  PROVE  Abs(d) = Abs(c) /\ PlainCall(t, d)
  <1>1. /\ d.op = c.op /\ d.key = c.key /\ d.value = c.value /\ d.reply = c.reply /\ d.at = a
        /\ c.op # "GetAllKeys"
    BY DEF MovedTo
  <1>2. LeftOf(d) = {} /\ LeftOf(c) = {}
    BY <1>1 DEF LeftOf
  <1>3. Abs(c) = [op |-> c.op, key |-> c.key, value |-> c.value, done |-> TRUE, left |-> {}, reply |-> c.reply]
    BY <1>1, <1>2 DEF Abs
  <1>4. Abs(d) = [op |-> c.op, key |-> c.key, value |-> c.value, done |-> TRUE, left |-> {}, reply |-> c.reply]
    BY <1>1, <1>2 DEF Abs
  <1> QED BY <1>1, <1>3, <1>4 DEF PlainCall

\* The index and the policy are invisible.
LEMMA HiddenSteps ==
  ASSUME PlainClients, RInv, NEW t \in Threads, BeginIndex(t) \/ EndIndex(t) \/ PolicyStep(t)
  PROVE  Simulated(t)
  <1>0. CallsOK /\ CallOK(call[t]) /\ PlainCall(t, call[t])
    BY CallAt DEF RInv
  <1>1. PICK c : c = call[t]
    OBVIOUS
  <1>2. c.at \in {"index", "inIndex", "policy"}
    BY <1>1 DEF BeginIndex, EndIndex, PolicyStep, At
  <1>3. c.op \in {"Set", "Get", "Delete", "ProcessExpired", "ProcessEvictions"}
    BY <1>0, <1>1, <1>2 DEF CallOK, PhaseOK, Idle
  <1>4. c.op \in {"Set", "Get", "Delete"}
    BY <1>0, <1>1, <1>3 DEF PlainCall
  <1>5. PICK a : a \in {"inIndex", "policy", "return"} /\ Goto(t, a)
    <2>1. CASE BeginIndex(t)
      BY <2>1 DEF BeginIndex
    <2>2. CASE EndIndex(t)
      <3>1. c.at = "inIndex"
        BY <1>1, <2>2 DEF EndIndex, At
      <3>2. c.op \in {"Set", "Delete"}
        BY <1>0, <1>1, <1>4, <3>1 DEF CallOK, PhaseOK, Idle
      <3> QED BY <1>1, <2>2, <3>2 DEF EndIndex
    <2>3. CASE PolicyStep(t)
      BY <1>1, <1>4, <2>3 DEF PolicyStep
    <2> QED BY <2>1, <2>2, <2>3
  <1>6. PICK d : MovedTo(d, c, a) /\ call' = [call EXCEPT ![t] = d]
    BY <1>0, <1>1, <1>5, GotoFacts
  <1>7. Abs(d) = Abs(c) /\ PlainCall(t, d)
    BY <1>0, <1>1, <1>2, <1>4, <1>5, <1>6, MovesOn
  <1>8. UNCHANGED shards
    BY DEF BeginIndex, EndIndex, PolicyStep
  <1> QED BY <1>1, <1>6, <1>7, <1>8, HiddenStep

\* No client of this setting reads the clock, collects victims or loops.
LEMMA UnusedSteps ==
  ASSUME PlainClients, RInv, NEW t \in Threads
  PROVE  ~ReadClock(t) /\ ~CollectEvictionCandidates(t) /\ ~NextKey(t)
  <1>0. CallOK(call[t]) /\ PlainCall(t, call[t])
    BY CallAt DEF RInv
  <1>1. PICK c : c = call[t]
    OBVIOUS
  <1>2. c.op \notin {"ProcessExpired", "ProcessEvictions"} /\ c.ttl = None
    BY <1>0, <1>1 DEF PlainCall, CallOK, PlainClients
  <1>3. c.at \notin {"clock", "next"}
    BY <1>0, <1>1, <1>2 DEF CallOK, PhaseOK, Idle
  <1> QED BY <1>1, <1>2, <1>3 DEF ReadClock, CollectEvictionCandidates, NextKey, Calling, At

\* A sweep removes nothing from a plain shard.
LEMMA SweepSim ==
  ASSUME PlainClients, RInv, NEW t \in Threads, SweepShard(t)
  PROVE  Simulated(t)
  <1>0. CallOK(call[t]) /\ CallsOK /\ ShardsOK /\ PlainCall(t, call[t])
    BY CallAt DEF RInv, EInv
  <1>1. PICK c, s, left, a, r :
           /\ c = call[t] /\ s = Min(c.todo) /\ left = c.todo \ {s}
           /\ call' = [call EXCEPT ![t].todo = left, ![t].at = a]
           /\ r = ShardCleanupExpired(shards[s], c.time)
           /\ shards' = [shards EXCEPT ![s] = r]
    BY <1>0 DEF SweepShard, CallsOK
  <1>2. c.op = "CleanupExpired" /\ c.todo \subseteq ShardIds /\ c.todo # {} /\ IsCall(c) /\ c.time \in Nat
    BY <1>0, <1>1 DEF SweepShard, Calling, At, CallOK, PhaseOK, Idle
  <1>3. PICK d : d = [c EXCEPT !.todo = left, !.at = a]
    OBVIOUS
  <1>4. d.op = "CleanupExpired"
    BY <1>2, <1>3 DEF IsCall
  <1>5. call' = [call EXCEPT ![t] = d]
    BY <1>0, <1>1, <1>3 DEF CallsOK
  <1>6. t \notin Clients
    BY <1>0, <1>1, <1>2 DEF PlainCall
  <1>7. PlainCall(t, d)
    BY <1>4, <1>6 DEF PlainCall
  <1>8. s \in ShardIds
    BY <1>1, <1>2, NextShard
  <1>9. Plain(r) /\ r.store = shards[s].store
    BY <1>0, <1>1, <1>2, <1>8, PlainSweep DEF ShardsOK, RInv
  <1>10. Dict' = Dict
    BY <1>0, <1>1, <1>8, <1>9, DictStays
  <1>11. Pend' = Pend
    BY <1>0, <1>5, <1>6, PendMoves
  <1>12. \A x \in ShardIds : Plain(shards'[x])
    BY <1>1, <1>8, <1>9, PlainShards
  <1> QED BY <1>5, <1>7, <1>10, <1>11, <1>12 DEF Simulated, AbsStep

\* What the abstract store sees of a call that holds no list of shards.
LEMMA AbsOf ==
  ASSUME NEW c, c.op # "GetAllKeys"
  PROVE  Abs(c) = [op |-> c.op, key |-> c.key, value |-> c.value,
                   done |-> (c.at \notin {"idle", "shard"}), left |-> {}, reply |-> c.reply]
  <1>1. LeftOf(c) = {}
    BY DEF LeftOf
  <1> QED BY <1>1 DEF Abs

\* The fields of an abstract call.
IsAbs(a, op, k, v, done, left, rep) ==
    a = [op |-> op, key |-> k, value |-> v, done |-> done, left |-> left, reply |-> rep]

\* What finishing an abstract call leaves of it.
LEMMA Updated ==
  ASSUME NEW op, NEW k, NEW v, NEW before, NEW left, NEW rep, NEW after, NEW q,
         NEW a, IsAbs(a, op, k, v, before, left, rep)
  PROVE  IsAbs([a EXCEPT !.done = after, !.reply = q], op, k, v, after, left, q)
  <1>1. PICK e : e = [a EXCEPT !.done = after, !.reply = q]
    OBVIOUS
  <1>2. e = [op |-> op, key |-> k, value |-> v, done |-> after, left |-> left, reply |-> q]
    BY <1>1 DEF IsAbs
  <1> QED BY <1>1, <1>2 DEF IsAbs

\* The abstract call with its effect done and its reply known.
Finished(b, a, yes, rep) == b = [a EXCEPT !.done = yes, !.reply = rep]

Finishing(d, c, rep) ==
    /\ c.op \in {"Set", "Get", "Delete"} /\ c.at = "shard"
    /\ d.op = c.op /\ d.key = c.key /\ d.value = c.value
    /\ d.at \notin {"idle", "shard"} /\ d.reply = rep

\* The shard step of a Set, Get or Delete finishes the abstract call.
LEMMA Finishes ==
  ASSUME NEW c, NEW d, NEW rep, Finishing(d, c, rep), NEW a, a = Abs(c), NEW yes, yes = TRUE
  PROVE  /\ a.op = c.op /\ ~a.done /\ a.key = c.key /\ a.value = c.value
         /\ Finished(Abs(d), a, yes, rep)
  <1>0. PICK no : no = FALSE
    OBVIOUS
  <1>1. IsAbs(a, c.op, c.key, c.value, no, {}, c.reply)
    BY <1>0, AbsOf DEF IsAbs, Finishing
  <1>2. IsAbs(Abs(d), c.op, c.key, c.value, yes, {}, rep)
    BY <1>0, AbsOf DEF IsAbs, Finishing
  <1>3. IsAbs([a EXCEPT !.done = yes, !.reply = rep], c.op, c.key, c.value, yes, {}, rep)
    BY <1>1, Updated, Zenon
  <1>4. Abs(d) = [a EXCEPT !.done = yes, !.reply = rep]
    BY <1>2, <1>3, Zenon DEF IsAbs
  <1>5. a.op = c.op /\ ~a.done /\ a.key = c.key /\ a.value = c.value
    BY <1>0, <1>1 DEF IsAbs
  <1> QED BY <1>4, <1>5, Zenon DEF Finished

\* So the abstract call is pending before that step and done after it.
LEMMA FinishSim ==
  ASSUME CallsOK, NEW t \in Clients, NEW c, c = call[t], NEW d, NEW rep, Finishing(d, c, rep),
         call' = [call EXCEPT ![t] = d]
  PROVE  /\ Atomic!Pending(t, c.op) /\ Atomic!Finish(t, rep)
         /\ Pend[t].key = c.key /\ Pend[t].value = c.value
  <1>1. PICK a, yes : a = Abs(c) /\ yes = TRUE
    OBVIOUS
  <1>2. a.op = c.op /\ ~a.done /\ a.key = c.key /\ a.value = c.value
    BY <1>1, Finishes
  <1>3. Finished(Abs(d), a, yes, rep)
    BY <1>1, Finishes
  <1>4. Pend[t] = a /\ Pend' = [Pend EXCEPT ![t] = Abs(d)]
    BY <1>1, PendMoves DEF Threads
  <1>5. Pend' = [Pend EXCEPT ![t].done = TRUE, ![t].reply = rep]
    <2>1. PICK b : b = Abs(d)
      OBVIOUS
    <2>2. Pend' = [Pend EXCEPT ![t] = b] /\ Finished(b, a, yes, rep)
      BY <1>3, <1>4, <2>1
    <2>3. Pend' = [Pend EXCEPT ![t].done = yes, ![t].reply = rep]
      BY <1>4, <2>2 DEF Pend, Finished
    <2> QED BY <1>1, <2>3, Zenon
  <1>6. Atomic!Pending(t, c.op)
    BY <1>2, <1>4, Zenon DEF Atomic!Pending, Pend
  <1>7. Atomic!Finish(t, rep)
    BY <1>5, Zenon DEF Atomic!Finish, Pend
  <1> QED BY <1>2, <1>4, <1>6, <1>7

\* Set acts on the map while it holds the mutex of its shard; the key it may
\* cost is one of that shard, and then the shard is full.
LEMMA SetSim ==
  ASSUME PlainClients, RInv, NEW t \in Threads, SetInShard(t)
  PROVE  Simulated(t)
  <1>0. CallOK(call[t]) /\ CallsOK /\ ShardsOK /\ PlainCall(t, call[t])
    BY CallAt DEF RInv, EInv
  <1>1. PICK c, k, v, s, r : /\ c = call[t] /\ k = c.key /\ v = c.value /\ s = GetShard(k)
                             /\ r = ShardSet(shards[s], k, v)
    OBVIOUS
  <1>2. c.op = "Set" /\ c.at = "shard" /\ k \in Keys /\ v \in Values /\ c.ttl = None
    BY <1>0, <1>1 DEF SetInShard, Calling, At, CallOK, PhaseOK, Idle, PlainClients
  <1>3. t \in Clients /\ c.reply = None
    BY <1>0, <1>1, <1>2 DEF PlainCall
  <1>4. shards' = [shards EXCEPT ![s] = r] /\ Goto(t, "index")
    BY <1>1, <1>2 DEF SetInShard
  <1>5. PICK d : MovedTo(d, c, "index") /\ call' = [call EXCEPT ![t] = d]
    BY <1>0, <1>1, <1>4, GotoFacts
  <1>6. d.op = c.op /\ d.key = k /\ d.value = v /\ d.reply = None /\ d.at = "index"
    BY <1>1, <1>3, <1>5 DEF MovedTo
  <1>7. PlainCall(t, d)
    BY <1>2, <1>3, <1>6 DEF PlainCall
  <1>8. s \in ShardIds /\ k \in KeysOf(s) /\ ShardOK(shards[s], KeysOf(s), Values) /\ Plain(shards[s])
    BY <1>0, <1>1, <1>2, GetShardFacts DEF ShardsOK, RInv
  <1>9. PICK old : old = shards[s].store
    OBVIOUS
  <1>10. /\ Plain(r)
         /\ \E lost \in SUBSET (DOMAIN old \ {k}) :
               /\ Cardinality(lost) = IF k \notin DOMAIN old /\ Cardinality(DOMAIN old) = Capacity THEN 1 ELSE 0
               /\ DOMAIN r.store = (DOMAIN old \cup {k}) \ lost
               /\ r.store[k].value = v
               /\ \A x \in DOMAIN r.store : x # k => r.store[x] = old[x]
    BY <1>1, <1>2, <1>8, <1>9, PlainSet
  <1>11. PICK lost \in SUBSET (DOMAIN old \ {k}) :
               /\ Cardinality(lost) = IF k \notin DOMAIN old /\ Cardinality(DOMAIN old) = Capacity THEN 1 ELSE 0
               /\ DOMAIN r.store = (DOMAIN old \cup {k}) \ lost
               /\ r.store[k].value = v
               /\ \A x \in DOMAIN r.store : x # k => r.store[x] = old[x]
    BY <1>10
  <1>12. DOMAIN old = Stored \cap KeysOf(s) /\ \A x \in KeysOf(s) : x \in Stored => Dict[x] = old[x].value
    BY <1>0, <1>8, <1>9, DictFacts
  <1>13. DOMAIN r.store \subseteq KeysOf(s)
    BY <1>8, <1>11, <1>12
  <1>14. /\ Dict' = [x \in Stored' |-> Dict'[x]]
         /\ Stored' = (Stored \ KeysOf(s)) \cup DOMAIN r.store
         /\ \A x \in Stored' : Dict'[x] = IF x \in KeysOf(s) THEN r.store[x].value ELSE Dict[x]
    BY <1>0, <1>4, <1>8, <1>13, DictMoves
  <1>15. Stored' = (Stored \cup {k}) \ lost
    BY <1>8, <1>11, <1>12, <1>14
  <1>16. \A x \in Stored' : Dict'[x] = IF x = k THEN v ELSE Dict[x]
    BY <1>8, <1>11, <1>12, <1>14, <1>15
  <1>17. Dict' = [x \in (Stored \cup {k}) \ lost |-> IF x = k THEN v ELSE Dict[x]]
    BY <1>14, <1>15, <1>16
  <1>18. /\ Cardinality(lost) <= 1
         /\ lost # {} => k \notin Stored /\ Cardinality(Stored) >= Capacity
    <2>1. IsFiniteSet(lost)
      <3>1. IsFiniteSet(DOMAIN old)
        BY <1>8, <1>9, OrderCounts DEF ShardOK
      <3> QED BY <3>1, FS_Subset
    <2>2. lost # {} => Cardinality(lost) # 0
      BY <2>1, FS_EmptySet
    <2>3. lost # {} => k \notin Stored
      BY <1>8, <1>11, <1>12, <2>2
    <2>4. /\ Cardinality(DOMAIN old) \in Nat /\ Cardinality(Stored) \in Nat
          /\ Cardinality(DOMAIN old) <= Cardinality(Stored)
      BY <1>0, <1>8, <1>9, StoredCounts
    <2>5. lost # {} => Cardinality(Stored) >= Capacity
      BY <1>11, <2>2, <2>4, CapacityAssumption
    <2>6. Cardinality(lost) <= 1
      BY <1>11
    <2> QED BY <2>3, <2>5, <2>6
  <1>19. Finishing(d, c, None)
    BY <1>1, <1>2, <1>6 DEF Finishing
  <1>20. Atomic!Pending(t, "Set") /\ Atomic!Finish(t, None) /\ Pend[t].key = k /\ Pend[t].value = v
    <2>1. /\ Atomic!Pending(t, c.op) /\ Atomic!Finish(t, None)
          /\ Pend[t].key = c.key /\ Pend[t].value = c.value
      BY <1>0, <1>1, <1>3, <1>5, <1>19, FinishSim, Zenon
    <2> QED BY <1>1, <1>2, <2>1, Zenon
  <1>21. lost \in SUBSET (Stored \ {k}) /\ DOMAIN Dict = Stored
    BY <1>0, <1>12, DictFacts
  <1>22. \E l \in SUBSET (DOMAIN Dict \ {Pend[t].key}) :
            /\ Atomic!Cardinality(l) <= 1
            /\ l # {} => Pend[t].key \notin DOMAIN Dict /\ Atomic!Cardinality(DOMAIN Dict) >= Capacity
            /\ Dict' = [x \in (DOMAIN Dict \cup {Pend[t].key}) \ l |->
                           IF x = Pend[t].key THEN Pend[t].value ELSE Dict[x]]
    <2>1. Atomic!Cardinality(lost) = Cardinality(lost) /\ Atomic!Cardinality(Stored) = Cardinality(Stored)
      BY SameCount
    <2>2. Pend[t].key = k /\ Pend[t].value = v
      BY <1>20
    <2> QED BY <1>17, <1>18, <1>21, <2>1, <2>2
  <1>23. Atomic!ApplySet(t)
    BY <1>20, <1>22 DEF Atomic!ApplySet, Dict, Pend
  <1>24. AbsStep
    BY <1>3, <1>23 DEF AbsStep, Atomic!StoreNext
  <1>25. \A x \in ShardIds : Plain(shards'[x])
    BY <1>4, <1>8, <1>10, PlainShards
  <1> QED BY <1>5, <1>7, <1>24, <1>25 DEF Simulated

\* Get reads the map while it holds the mutex of its shard.
LEMMA GetSim ==
  ASSUME PlainClients, RInv, NEW t \in Threads, GetInShard(t)
  PROVE  Simulated(t)
  <1>0. CallOK(call[t]) /\ CallsOK /\ ShardsOK /\ PlainCall(t, call[t])
    BY CallAt DEF RInv, EInv
  <1>1. PICK c, k, s, r, hit : /\ c = call[t] /\ k = c.key /\ s = GetShard(k)
                               /\ r = ShardGet(shards[s], k, now) /\ hit = ShardHit(shards[s], k, now)
    OBVIOUS
  <1>2. c.op = "Get" /\ c.at = "shard" /\ k \in Keys /\ IsCall(c)
    BY <1>0, <1>1 DEF GetInShard, Calling, At, CallOK, PhaseOK, Idle
  <1>3. t \in Clients
    BY <1>0, <1>1, <1>2 DEF PlainCall
  <1>4. s \in ShardIds /\ k \in KeysOf(s) /\ ShardOK(shards[s], KeysOf(s), Values) /\ Plain(shards[s])
    BY <1>0, <1>1, <1>2, GetShardFacts DEF ShardsOK, RInv
  <1>5. Plain(r) /\ r.store = shards[s].store /\ (ShardHit(shards[s], k, now) <=> k \in DOMAIN shards[s].store)
    BY <1>1, <1>4, PlainGet
  <1>6. shards' = [shards EXCEPT ![s] = r]
    BY <1>1 DEF GetInShard
  <1>7. PICK a, rep : /\ call' = [call EXCEPT ![t].at = a, ![t].reply = rep]
                      /\ a \in {"policy", "return"}
                      /\ rep = IF ShardHit(shards[s], k, now) THEN Store(k)[k].value ELSE None
    BY <1>1 DEF GetInShard
  <1>8. PICK d : d = [c EXCEPT !.at = a, !.reply = rep]
    OBVIOUS
  <1>9. call' = [call EXCEPT ![t] = d]
    BY <1>0, <1>1, <1>7, <1>8 DEF CallsOK
  <1>10. d.op = c.op /\ d.key = c.key /\ d.value = c.value /\ d.at = a /\ d.reply = rep
    BY <1>2, <1>8 DEF IsCall
  <1>11. Finishing(d, c, rep)
    BY <1>2, <1>7, <1>10 DEF Finishing
  <1>12. PlainCall(t, d)
    BY <1>2, <1>3, <1>10 DEF PlainCall
  <1>13. Atomic!Pending(t, "Get") /\ Atomic!Finish(t, rep) /\ Pend[t].key = k
    <2>1. Atomic!Pending(t, c.op) /\ Atomic!Finish(t, rep) /\ Pend[t].key = c.key
      BY <1>0, <1>1, <1>3, <1>9, <1>11, FinishSim, Zenon
    <2> QED BY <1>1, <1>2, <2>1, Zenon
  <1>14. rep = IF k \in DOMAIN Dict THEN Dict[k] ELSE None
    <2>1. DOMAIN shards[s].store = Stored \cap KeysOf(s) /\ DOMAIN Dict = Stored
      BY <1>0, <1>4, DictFacts
    <2>2. k \in Stored => Dict[k] = Store(k)[k].value
      BY DEF Dict
    <2> QED BY <1>4, <1>5, <1>7, <2>1, <2>2
  <1>15. Dict' = Dict
    BY <1>0, <1>4, <1>5, <1>6, DictStays
  <1>16. Atomic!ApplyGet(t)
    <2>1. Atomic!Finish(t, IF Pend[t].key \in DOMAIN Dict THEN Dict[Pend[t].key] ELSE None)
      BY <1>13, <1>14, Zenon
    <2> QED BY <1>13, <1>15, <2>1, Zenon DEF Atomic!ApplyGet, Dict, Pend
  <1>17. AbsStep
    BY <1>3, <1>16 DEF AbsStep, Atomic!StoreNext
  <1>18. \A x \in ShardIds : Plain(shards'[x])
    BY <1>4, <1>5, <1>6, PlainShards
  <1> QED BY <1>9, <1>12, <1>17, <1>18 DEF Simulated

\* Delete acts on the map while it holds the mutex of its shard.
LEMMA DeleteSim ==
  ASSUME PlainClients, RInv, NEW t \in Threads, DeleteInShard(t)
  PROVE  Simulated(t)
  <1>0. CallOK(call[t]) /\ CallsOK /\ ShardsOK /\ PlainCall(t, call[t])
    BY CallAt DEF RInv, EInv
  <1>1. PICK c, k, s, r : /\ c = call[t] /\ k = c.key /\ s = GetShard(k)
                          /\ r = ShardDelete(shards[s], k)
    OBVIOUS
  <1>2. c.op = "Delete" /\ c.at = "shard" /\ t \in Clients /\ c.reply = None
    <2>1. c.op \in {"Delete", "ProcessExpired", "ProcessEvictions"} /\ c.at = "shard"
      BY <1>1 DEF DeleteInShard, At
    <2> QED BY <1>0, <1>1, <2>1 DEF PlainCall
  <1>3. k \in Keys
    BY <1>0, <1>1, <1>2 DEF CallOK, PhaseOK, Idle
  <1>4. s \in ShardIds /\ k \in KeysOf(s) /\ ShardOK(shards[s], KeysOf(s), Values) /\ Plain(shards[s])
    BY <1>0, <1>1, <1>3, GetShardFacts DEF ShardsOK, RInv
  <1>5. PICK old : old = shards[s].store
    OBVIOUS
  <1>6. Plain(r) /\ r.store = [x \in DOMAIN old \ {k} |-> old[x]]
    BY <1>1, <1>4, <1>5, PlainDelete
  <1>7. shards' = [shards EXCEPT ![s] = r] /\ Goto(t, "index")
    BY <1>1, <1>2 DEF DeleteInShard
  <1>8. PICK d : MovedTo(d, c, "index") /\ call' = [call EXCEPT ![t] = d]
    BY <1>0, <1>1, <1>7, GotoFacts
  <1>9. d.op = c.op /\ d.key = c.key /\ d.value = c.value /\ d.at = "index" /\ d.reply = None
    BY <1>2, <1>8 DEF MovedTo
  <1>10. Finishing(d, c, None)
    BY <1>2, <1>9 DEF Finishing
  <1>11. PlainCall(t, d)
    BY <1>2, <1>9 DEF PlainCall
  <1>12. Atomic!Pending(t, "Delete") /\ Atomic!Finish(t, None) /\ Pend[t].key = k
    <2>1. Atomic!Pending(t, c.op) /\ Atomic!Finish(t, None) /\ Pend[t].key = c.key
      BY <1>0, <1>1, <1>2, <1>8, <1>10, FinishSim, Zenon
    <2> QED BY <1>1, <1>2, <2>1, Zenon
  <1>13. DOMAIN old = Stored \cap KeysOf(s) /\ \A x \in KeysOf(s) : x \in Stored => Dict[x] = old[x].value
    BY <1>0, <1>4, <1>5, DictFacts
  <1>14. DOMAIN r.store = DOMAIN old \ {k} /\ DOMAIN r.store \subseteq KeysOf(s)
    BY <1>6, <1>13
  <1>15. /\ Dict' = [x \in Stored' |-> Dict'[x]]
         /\ Stored' = (Stored \ KeysOf(s)) \cup DOMAIN r.store
         /\ \A x \in Stored' : Dict'[x] = IF x \in KeysOf(s) THEN r.store[x].value ELSE Dict[x]
    BY <1>0, <1>4, <1>7, <1>14, DictMoves
  <1>16. Stored' = Stored \ {k}
    BY <1>4, <1>13, <1>14, <1>15
  <1>17. \A x \in Stored' : Dict'[x] = Dict[x]
    BY <1>6, <1>13, <1>14, <1>15, <1>16
  <1>18. DOMAIN Dict = Stored
    BY <1>0, DictFacts
  <1>19. Dict' = [x \in DOMAIN Dict \ {Pend[t].key} |-> Dict[x]]
    <2>1. Pend[t].key = k
      BY <1>12
    <2> QED BY <1>15, <1>16, <1>17, <1>18, <2>1
  <1>20. Atomic!ApplyDelete(t)
    BY <1>12, <1>19, Zenon DEF Atomic!ApplyDelete, Dict, Pend
  <1>21. AbsStep
    BY <1>2, <1>20 DEF AbsStep, Atomic!StoreNext
  <1>22. \A x \in ShardIds : Plain(shards'[x])
    BY <1>4, <1>6, <1>7, PlainShards
  <1> QED BY <1>8, <1>11, <1>21, <1>22 DEF Simulated

\* An idle thread, seen from the abstract store.
LEMMA AbsIdle == Abs(Idle) = Atomic!Free
  <1>1. Idle.op = "idle" /\ Idle.at = "idle" /\ Idle.key = None /\ Idle.value = None /\ Idle.reply = None
    BY DEF Idle
  <1>2. Abs(Idle) = [op |-> "idle", key |-> None, value |-> None,
                     done |-> FALSE, left |-> {}, reply |-> None]
    BY <1>1, AbsOf
  <1> QED BY <1>2 DEF Atomic!Free

\* A return answers the abstract call.
LEMMA ReturnSim ==
  ASSUME PlainClients, RInv, NEW t \in Threads, Return(t)
  PROVE  Simulated(t)
  <1>0. CallOK(call[t]) /\ CallsOK /\ PlainCall(t, call[t])
    BY CallAt DEF RInv
  <1>1. PICK c : c = call[t]
    OBVIOUS
  <1>2. call' = [call EXCEPT ![t] = Idle] /\ UNCHANGED shards /\ c.at \in {"return", "thrown"}
    BY <1>1 DEF Return, At
  <1>3. PlainCall(t, Idle)
    BY DEF PlainCall, Idle
  <1>4. Dict' = Dict
    BY <1>2 DEF Dict, Stored, Store, GetShard
  <1>5. CASE t \notin Clients
    <2>1. Pend' = Pend
      BY <1>0, <1>2, <1>5, PendMoves
    <2> QED BY <1>2, <1>3, <1>4, <2>1 DEF Simulated, AbsStep, RInv
  <1>6. CASE t \in Clients
    <2>1. Pend' = [Pend EXCEPT ![t] = Abs(Idle)] /\ Pend[t] = Abs(c)
      BY <1>0, <1>1, <1>2, <1>6, PendMoves
    <2>2. c.op = "GetAllKeys" => LeftOf(c) = {}
      <3>1. c.op = "GetAllKeys" => c.todo = {}
        BY <1>0, <1>1, <1>2 DEF CallOK, PhaseOK, Idle
      <3> QED BY <3>1 DEF LeftOf
    <2>3. Abs(c).done
      BY <1>2, <2>2 DEF Abs
    <2>4. Atomic!Respond(t)
      <3>1. Pend[t].done /\ Pend' = [Pend EXCEPT ![t] = Atomic!Free]
        BY <2>1, <2>3, AbsIdle, Zenon
      <3> QED BY <1>4, <3>1, Zenon DEF Atomic!Respond, Dict, Pend
    <2> QED BY <1>2, <1>3, <1>6, <2>4 DEF Simulated, AbsStep, RInv, Atomic!StoreNext
  <1> QED BY <1>5, <1>6

\* What one shard adds to the answer of GetAllKeys, whatever the clock shows.
LEMMA ScanReads ==
  ASSUME RInv, NEW s \in ShardIds, NEW times
  PROVE  ShardGetAllKeys(shards[s], times) = {<<k, Dict[k]>> : k \in KeysOf(s) \cap DOMAIN Dict}
  <1>1. PICK old : old = shards[s].store
    OBVIOUS
  <1>2. \A k \in DOMAIN old : ~IsExpired(old[k], times[k])
    BY <1>1 DEF RInv, Plain, IsExpired
  <1>3. /\ DOMAIN old = KeysOf(s) \cap DOMAIN Dict
        /\ \A k \in KeysOf(s) : k \in DOMAIN Dict => Dict[k] = old[k].value
    BY <1>1, DictFacts DEF RInv, EInv
  <1>4. ShardGetAllKeys(shards[s], times)
          = {<<k, old[k].value>> : k \in {x \in DOMAIN old : ~IsExpired(old[x], times[x])}}
    BY <1>1 DEF ShardGetAllKeys
  <1>5. {x \in DOMAIN old : ~IsExpired(old[x], times[x])} = DOMAIN old
    BY <1>2
  <1> QED BY <1>3, <1>4, <1>5

\* GetAllKeys reads the keys of one shard under its lock; a shard to which no
\* key hashes adds nothing.
LEMMA ScanSim ==
  ASSUME PlainClients, RInv, NEW t \in Threads, ScanShard(t)
  PROVE  Simulated(t)
  <1>0. CallOK(call[t]) /\ CallsOK /\ PlainCall(t, call[t])
    BY CallAt DEF RInv
  <1>a. PICK times, c, left, rep, a, d :
           /\ c = call[t] /\ left = c.todo \ {Min(c.todo)}
           /\ rep = c.reply \cup ShardGetAllKeys(shards[Min(c.todo)], times)
           /\ a = IF left = {} THEN "return" ELSE "scan"
           /\ d = [c EXCEPT !.todo = left, !.reply = rep, !.at = a]
           /\ call' = [call EXCEPT ![t] = d]
    BY <1>0, ScanMoves
  <1>1. PICK s, more, at :
           /\ c = call[t] /\ s = Min(c.todo) /\ left = c.todo \ {s}
           /\ more = ShardGetAllKeys(shards[s], times) /\ rep = c.reply \cup more
           /\ at = a /\ at = IF left = {} THEN "return" ELSE "scan"
    BY <1>a
  <1>2. c.op = "GetAllKeys" /\ c.at = "scan"
    BY <1>1 DEF ScanShard, Calling, At
  <1>3. c.todo \subseteq ShardIds /\ c.todo # {} /\ IsCall(c) /\ t \in Clients
    BY <1>0, <1>1, <1>2 DEF CallOK, PhaseOK, Idle, PlainCall
  <1>4. s \in c.todo /\ s \in ShardIds
    BY <1>1, <1>3, NextShard
  <1>6. d.op = "GetAllKeys" /\ d.key = c.key /\ d.value = c.value /\ d.todo = left /\ d.reply = rep
    BY <1>a, <1>2, <1>3 DEF IsCall
  <1>7. call' = [call EXCEPT ![t] = d]
    BY <1>a
  <1>8. PlainCall(t, d)
    BY <1>3, <1>6 DEF PlainCall
  <1>9. UNCHANGED shards
    BY DEF ScanShard
  <1>10. PICK part, L, M, b0, b1 : /\ part = KeysOf(s) /\ L = LeftOf(c) /\ M = LeftOf(d)
                                   /\ b0 = (L = {}) /\ b1 = (M = {})
    OBVIOUS
  <1>11. part \subseteq L /\ M = L \ part
    BY <1>1, <1>2, <1>4, <1>6, <1>10 DEF KeysOf, LeftOf
  <1>12. IsAbs(Abs(c), "GetAllKeys", c.key, c.value, b0, L, c.reply)
    BY <1>2, <1>10 DEF IsAbs, Abs
  <1>13. IsAbs(Abs(d), "GetAllKeys", c.key, c.value, b1, M, rep)
    BY <1>6, <1>10 DEF IsAbs, Abs
  <1>14. more = {<<k, Dict[k]>> : k \in part \cap DOMAIN Dict}
    BY <1>1, <1>4, <1>10, ScanReads
  <1>15. CASE part = {}
    <2>1. M = L /\ more = {}
      BY <1>11, <1>14, <1>15
    <2>2. rep = c.reply /\ b0 = b1
      BY <1>1, <1>10, <2>1
    <2>3. Abs(d) = Abs(c)
      BY <1>12, <1>13, <2>1, <2>2 DEF IsAbs
    <2> QED BY <1>1, <1>7, <1>8, <1>9, <2>3, HiddenStep
  <1>16. CASE part # {}
    <2>1. Pend[t] = Abs(c) /\ Pend' = [Pend EXCEPT ![t] = Abs(d)]
      BY <1>0, <1>1, <1>3, <1>7, PendMoves
    <2>2. PICK p, q : p = Abs(c) /\ q = Abs(d)
      OBVIOUS
    <2>3. /\ p = [op |-> "GetAllKeys", key |-> c.key, value |-> c.value, done |-> b0, left |-> L, reply |-> c.reply]
          /\ q = [op |-> "GetAllKeys", key |-> c.key, value |-> c.value, done |-> b1, left |-> M, reply |-> rep]
      BY <1>12, <1>13, <2>2 DEF IsAbs
    <2>4. q = [p EXCEPT !.left = M, !.reply = rep, !.done = b1]
      <3>1. PICK e : e = [p EXCEPT !.left = M, !.reply = rep, !.done = b1]
        OBVIOUS
      <3>2. e = [op |-> "GetAllKeys", key |-> c.key, value |-> c.value, done |-> b1, left |-> M, reply |-> rep]
        BY <2>3, <3>1
      <3> QED BY <2>3, <3>1, <3>2
    <2>5. Pend' = [Pend EXCEPT ![t].left = M, ![t].reply = rep, ![t].done = b1]
      BY <1>3, <2>1, <2>2, <2>4 DEF Pend
    <2>6. Pend[t].op = "GetAllKeys" /\ Pend[t].left = L /\ Pend[t].reply = c.reply /\ Pend[t].done = b0
      BY <2>1, <2>2, <2>3
    <2>7. b0 = FALSE /\ b1 = (L = part)
      BY <1>10, <1>11, <1>16
    <2>8. Pend' = [Pend EXCEPT ![t].left = @ \ part,
                               ![t].reply = @ \cup {<<k, Dict[k]>> : k \in part \cap DOMAIN Dict},
                               ![t].done = (Pend[t].left = part)]
      BY <1>1, <1>11, <1>14, <2>5, <2>6, <2>7 DEF Pend
    <2>9. part \in (SUBSET Pend[t].left) \ {{}}
      BY <1>11, <1>16, <2>6
    <2>10. Atomic!Pending(t, "GetAllKeys")
      BY <2>6, <2>7 DEF Atomic!Pending, Pend
    <2>11. Dict' = Dict
      BY <1>9 DEF Dict, Stored, Store, GetShard
    <2>12. Atomic!ReadPart(t)
      BY <2>8, <2>9, <2>10, <2>11 DEF Atomic!ReadPart, Dict, Pend
    <2> QED BY <1>3, <1>7, <1>8, <1>9, <2>12 DEF Simulated, AbsStep, RInv, Atomic!StoreNext
  <1> QED BY <1>15, <1>16

\* A client that begins a call invokes it in the abstract store.
LEMMA InvokeSim ==
  ASSUME RInv, NEW t \in Clients, NEW c, Begin(t, c), PlainCall(t, c), Abs(c) \in Atomic!Requests
  PROVE  Simulated(t)
  <1>0. CallOK(call[t]) /\ CallsOK /\ t \in Threads
    BY CallAt DEF RInv, Threads
  <1>1. call' = [call EXCEPT ![t] = c] /\ UNCHANGED shards /\ call[t].at = "idle"
    BY DEF Begin, At
  <1>2. call[t] = Idle
    BY <1>0, <1>1 DEF CallOK, PhaseOK
  <1>3. Pend[t] = Atomic!Free /\ Pend' = [Pend EXCEPT ![t] = Abs(c)]
    BY <1>0, <1>1, <1>2, PendMoves, AbsIdle
  <1>4. Dict' = Dict
    BY <1>1 DEF Dict, Stored, Store, GetShard
  <1>5. Atomic!Invoke(t)
    BY <1>3, <1>4, Zenon DEF Atomic!Invoke, Dict, Pend
  <1> QED BY <1>1, <1>5 DEF Simulated, AbsStep, RInv, Atomic!StoreNext

\* The requests of the abstract store.
SetRequest(k, v)  == [Atomic!Free EXCEPT !.op = "Set", !.key = k, !.value = v]
KeyRequest(op, k) == [Atomic!Free EXCEPT !.op = op, !.key = k]

\* They are all there is besides GetAllKeys.
LEMMA RequestsAre ==
  Atomic!Requests =
    {SetRequest(k, v) : k \in Keys, v \in Values}
      \cup {KeyRequest(o, k) : o \in {"Get", "Delete"}, k \in Keys}
      \cup {[Atomic!Free EXCEPT !.op = "GetAllKeys", !.left = Keys, !.reply = {}]}
  BY DEF Atomic!Requests, SetRequest, KeyRequest

\* The calls of the clients.
LEMMA BeginSims ==
  ASSUME PlainClients, RInv, NEW t \in Clients
  PROVE  /\ \A k \in Keys, v \in Values, ttl \in TTLs \cup {None} : BeginSet(t, k, v, ttl) => Simulated(t)
         /\ \A k \in Keys : BeginGet(t, k) \/ BeginDelete(t, k) => Simulated(t)
         /\ BeginGetAllKeys(t) => Simulated(t)
  <1>0. PICK no : no = FALSE
    OBVIOUS
  <1>1. ASSUME NEW op, NEW k, NEW v, NEW left, NEW rep, NEW a, IsAbs(a, op, k, v, no, left, rep)
        PROVE  /\ op = "Set" /\ left = {} /\ rep = None /\ k \in Keys /\ v \in Values => a \in Atomic!Requests
               /\ op \in {"Get", "Delete"} /\ left = {} /\ rep = None /\ k \in Keys /\ v = None => a \in Atomic!Requests
               /\ op = "GetAllKeys" /\ left = Keys /\ rep = {} /\ k = None /\ v = None => a \in Atomic!Requests
    <2>1. PICK f : f = Atomic!Free
      OBVIOUS
    <2>2. f = [op |-> "idle", key |-> None, value |-> None, done |-> no, left |-> {}, reply |-> None]
      BY <1>0, <2>1 DEF Atomic!Free
    <2>3. ASSUME op = "Set", left = {}, rep = None, k \in Keys, v \in Values PROVE a \in Atomic!Requests
      <3>1. PICK e : e = [f EXCEPT !.op = "Set", !.key = k, !.value = v]
        OBVIOUS
      <3>2. e = [op |-> op, key |-> k, value |-> v, done |-> no, left |-> left, reply |-> rep]
        BY <2>2, <2>3, <3>1
      <3>3. a = e
        BY <1>1, <3>2 DEF IsAbs
      <3>4. a = [Atomic!Free EXCEPT !.op = "Set", !.key = k, !.value = v]
        BY <2>1, <3>1, <3>3, Zenon
      <3>5. a = SetRequest(k, v)
        BY <3>4, Zenon DEF SetRequest
      <3> QED BY <2>3, <3>5, RequestsAre
    <2>4. ASSUME op \in {"Get", "Delete"}, left = {}, rep = None, k \in Keys, v = None PROVE a \in Atomic!Requests
      <3>1. PICK e : e = [f EXCEPT !.op = op, !.key = k]
        OBVIOUS
      <3>2. e = [op |-> op, key |-> k, value |-> v, done |-> no, left |-> left, reply |-> rep]
        BY <2>2, <2>4, <3>1
      <3>3. a = e
        BY <1>1, <3>2 DEF IsAbs
      <3>4. a = [Atomic!Free EXCEPT !.op = op, !.key = k]
        BY <2>1, <3>1, <3>3, Zenon
      <3>5. a = KeyRequest(op, k)
        BY <3>4, Zenon DEF KeyRequest
      <3> QED BY <2>4, <3>5, RequestsAre
    <2>5. ASSUME op = "GetAllKeys", left = Keys, rep = {}, k = None, v = None PROVE a \in Atomic!Requests
      <3>1. PICK e : e = [f EXCEPT !.op = "GetAllKeys", !.left = Keys, !.reply = {}]
        OBVIOUS
      <3>2. e = [op |-> op, key |-> k, value |-> v, done |-> no, left |-> left, reply |-> rep]
        BY <2>2, <2>5, <3>1
      <3>3. a = e
        BY <1>1, <3>2 DEF IsAbs
      <3> QED BY <2>1, <2>5, <3>1, <3>3 DEF Atomic!Requests
    <2> QED BY <2>3, <2>4, <2>5
  <1>2. ASSUME NEW k \in Keys, NEW v \in Values, NEW ttl, BeginSet(t, k, v, ttl) PROVE Simulated(t)
    <2>1. PICK c : c = [Idle EXCEPT !.op = "Set", !.key = k, !.value = v, !.ttl = ttl, !.at = "shard"]
      OBVIOUS
    <2>2. c.op = "Set" /\ c.key = k /\ c.value = v /\ c.at = "shard" /\ c.reply = None
      BY <2>1 DEF Idle
    <2>3. IsAbs(Abs(c), "Set", k, v, no, {}, None)
      BY <1>0, <2>2, AbsOf DEF IsAbs
    <2>4. Abs(c) \in Atomic!Requests
      BY <1>1, <2>3
    <2>5. PlainCall(t, c)
      BY <2>2 DEF PlainCall
    <2> QED BY <1>2, <2>1, <2>4, <2>5, InvokeSim DEF BeginSet
  <1>3. ASSUME NEW k \in Keys, NEW op \in {"Get", "Delete"},
               Begin(t, [Idle EXCEPT !.op = op, !.key = k, !.at = "shard"])
        PROVE  Simulated(t)
    <2>1. PICK c : c = [Idle EXCEPT !.op = op, !.key = k, !.at = "shard"]
      OBVIOUS
    <2>2. c.op = op /\ c.key = k /\ c.value = None /\ c.at = "shard" /\ c.reply = None
      BY <2>1 DEF Idle
    <2>3. IsAbs(Abs(c), op, k, None, no, {}, None)
      BY <1>0, <2>2, AbsOf DEF IsAbs
    <2>4. Abs(c) \in Atomic!Requests
      BY <1>1, <2>3
    <2>5. PlainCall(t, c)
      BY <2>2 DEF PlainCall
    <2> QED BY <1>3, <2>1, <2>4, <2>5, InvokeSim
  <1>4. ASSUME BeginGetAllKeys(t) PROVE Simulated(t)
    <2>1. PICK c : c = [Idle EXCEPT !.op = "GetAllKeys", !.at = "scan", !.todo = ShardIds, !.reply = {}]
      OBVIOUS
    <2>2. c.op = "GetAllKeys" /\ c.key = None /\ c.value = None /\ c.todo = ShardIds /\ c.reply = {}
      BY <2>1 DEF Idle
    <2>3. LeftOf(c) = Keys
      BY <2>2, GetShardFacts DEF LeftOf
    <2>4. IsAbs(Abs(c), "GetAllKeys", None, None, no, Keys, {})
      BY <1>0, <2>2, <2>3 DEF IsAbs, Abs, PlainClients
    <2>5. Abs(c) \in Atomic!Requests
      BY <1>1, <2>4
    <2>6. PlainCall(t, c)
      BY <2>2 DEF PlainCall
    <2> QED BY <1>4, <2>1, <2>5, <2>6, InvokeSim DEF BeginGetAllKeys
  <1>5. ASSUME NEW k \in Keys, BeginGet(t, k) \/ BeginDelete(t, k) PROVE Simulated(t)
    BY <1>3, <1>5 DEF BeginGet, BeginDelete
  <1> QED BY <1>2, <1>4, <1>5

\* The abstract store does not see a sweep begin.
LEMMA SweepBegins ==
  ASSUME PlainClients, RInv, NEW t \in Sweepers, BeginCleanupExpired(t)
  PROVE  Simulated(t)
  <1>1. PICK c : c = [Idle EXCEPT !.op = "CleanupExpired", !.at = "sweep", !.todo = ShardIds, !.time = now]
    OBVIOUS
  <1>2. c.op = "CleanupExpired"
    BY <1>1 DEF Idle
  <1>3. t \notin Clients /\ t \in Threads
    BY DEF PlainClients, Threads
  <1>4. PlainCall(t, c)
    BY <1>2, <1>3 DEF PlainCall
  <1> QED BY <1>1, <1>3, <1>4, HiddenStep DEF BeginCleanupExpired, Begin

\* What a simulated step preserves.
LEMMA SimulatedKeeps ==
  ASSUME RInv, EInv', NEW t \in Threads, Simulated(t)
  PROVE  RInv'
  <1>1. PICK d : PlainCall(t, d) /\ call' = [call EXCEPT ![t] = d]
    BY DEF Simulated
  <1>2. \A u \in Threads : call'[u] = IF u = t THEN d ELSE call[u]
    BY <1>1 DEF RInv, EInv, CallsOK
  <1>3. \A u \in Threads : PlainCall(u, call'[u])
    BY <1>1, <1>2 DEF RInv
  <1>4. \A s \in ShardIds : Plain(shards'[s])
    BY DEF Simulated
  <1> QED BY <1>3, <1>4 DEF RInv

\* Every step of the engine is one of the abstract store, or invisible to it.
LEMMA NextSim ==
  ASSUME PlainClients, RInv, [Next]_vars
  PROVE  RInv' /\ AbsStep
  <1>0. EInv'
    BY NextEInv DEF RInv
  <1>1. ASSUME NEW t \in Threads, Simulated(t) PROVE RInv' /\ AbsStep
    BY <1>0, <1>1, SimulatedKeeps DEF Simulated
  <1>2. ASSUME NEW t \in Threads, Step(t) PROVE Simulated(t)
    BY <1>2, SetSim, GetSim, DeleteSim, ScanSim, SweepSim, HiddenSteps, UnusedSteps, ReturnSim DEF Step
  <1>3. ASSUME NEW t \in Clients, NEW k \in Keys, NEW v \in Values, NEW ttl \in TTLs \cup {None},
               BeginSet(t, k, v, ttl)
        PROVE  Simulated(t)
    BY <1>3, BeginSims
  <1>4. ASSUME NEW t \in Clients, NEW k \in Keys, BeginGet(t, k) \/ BeginDelete(t, k) PROVE Simulated(t)
    BY <1>4, BeginSims
  <1>5. ASSUME NEW t \in Clients, BeginGetAllKeys(t) PROVE Simulated(t)
    BY <1>5, BeginSims
  <1>6. ASSUME NEW t \in Sweepers, BeginCleanupExpired(t) PROVE Simulated(t)
    BY <1>6, SweepBegins
  <1>7. CASE ClockMoves \/ UNCHANGED vars
    <2>1. UNCHANGED <<shards, call>>
      BY <1>7 DEF ClockMoves, vars
    <2>2. Dict' = Dict
      BY <2>1 DEF Dict, Stored, Store, GetShard
    <2>3. Pend' = Pend
      BY <2>1 DEF Pend, AbstractCall, Unscanned, GetShard
    <2> QED BY <1>0, <2>1, <2>2, <2>3 DEF RInv, AbsStep
  <1>8. Clients \subseteq Threads /\ Sweepers \subseteq Threads /\ Maintainers = {}
    BY DEF Threads, PlainClients
  <1> QED BY <1>1, <1>2, <1>3, <1>4, <1>5, <1>6, <1>7, <1>8 DEF Next

\* A new engine is an empty map with no call pending.
LEMMA InitSim ==
  ASSUME PlainClients, Init
  PROVE  RInv /\ Atomic!StoreInit
  <1>1. shards = [s \in ShardIds |-> EmptyShard] /\ call = [t \in Threads |-> Idle]
    BY DEF Init
  <1>2. EInv
    BY InitEInv
  <1>3. Plain(EmptyShard) /\ DOMAIN EmptyShard.store = {}
    BY DEF Plain, EmptyShard, EmptyIndex
  <1>4. \A t \in Threads : PlainCall(t, Idle)
    BY DEF PlainCall, Idle
  <1>5. RInv
    BY <1>1, <1>2, <1>3, <1>4 DEF RInv
  <1>6. \A s \in ShardIds : DOMAIN shards[s].store = {}
    BY <1>1, <1>3
  <1>7. Stored = {}
    BY <1>6, GetShardFacts DEF Stored, Store
  <1>8. Dict = [k \in {} |-> None]
    BY <1>7 DEF Dict
  <1>9. \A t \in Clients : AbstractCall(t) = Abs(Idle)
    <2>1. \A u : AbstractCall(u) = Abs(call[u])
      BY DEF AbstractCall, Abs, Unscanned, LeftOf
    <2> QED BY <1>1, <2>1 DEF Threads
  <1>10. Pend = [t \in Clients |-> Atomic!Free]
    BY <1>9, AbsIdle DEF Pend
  <1> QED BY <1>5, <1>8, <1>10, Zenon DEF Atomic!StoreInit, Dict, Pend

\* Linearizability: without TTLs and maintenance, the engine's calls act on one
\* map, each at one instant (GetAllKeys at one instant per shard), although a
\* call is several critical sections and the engine takes no lock of its own
\* (kv_engine.h:56-137, shard_manager.h:61-107).  Sweepers may run beside them.
THEOREM Linearizable ==
  ASSUME PlainClients
  PROVE  Spec => ImplementsAtomicStore
  <1>1. Init => RInv /\ Atomic!StoreInit
    BY InitSim
  <1>2. RInv /\ [Next]_vars => RInv' /\ [Atomic!StoreNext]_(Atomic!storeVars)
    <2>1. AbsStep => [Atomic!StoreNext]_(Atomic!storeVars)
      BY Zenon DEF AbsStep, Atomic!storeVars, Dict, Pend
    <2> QED BY <2>1, NextSim
  <1> QED BY <1>1, <1>2, PTL DEF Spec, ImplementsAtomicStore, Atomic!StoreSpec
=============================================================================
