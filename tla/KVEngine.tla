------------------------------ MODULE KVEngine ------------------------------
(***************************************************************************)
(* The engine (core/kv_engine.h) over its shard manager, its own expiry    *)
(* index and the eviction manager (eviction/), called by several threads.  *)
(*                                                                         *)
(* A method of the engine is a sequence of calls to its parts and holds no *)
(* lock of its own.  One step of a thread is one critical section: a shard *)
(* method under the shard's mutex, or an eviction manager method under its *)
(* mutex.  The engine's ttl_index_ is guarded by nothing, so an access to  *)
(* it has a begin and an end, and two that overlap, one of them a write,   *)
(* are a data race; past a race the program's behaviour is undefined and   *)
(* the model has no further step.                                          *)
(*                                                                         *)
(* Memory is counted in entries, the 100 bytes every Reserve and Release   *)
(* moves; the counter is a size_t and wraps.                               *)
(***************************************************************************)
EXTENDS ShardOps

CONSTANTS
    Clients,        \* threads that call Set, Get, Delete and GetAllKeys
    Maintainers,    \* threads that call ProcessExpired and ProcessEvictions
    Sweepers,       \* threads that call the shard manager's CleanupExpired
    Keys, Values,
    TTLs,           \* the ttl_ms that Set is given, besides none
    ShardCount,
    Hash,           \* hasher_: [Keys -> Nat]
    MemoryLimit,    \* max_memory_bytes_, in entries
    MemoryMod,      \* number of values of the counter: 2^64 / 100 in the code
    MaxTime,        \* bound of the wall clock
    ClockStepsBack, \* whether system_clock is ever set back
    MaxReserved,    \* bound on the counter: no new Set above it ...
    MaxReleased,    \* ... and no new Delete this far below zero; 0: none at zero
    None            \* std::nullopt

VARIABLES
    shards,         \* shards_ of the manager
    ttl_index,      \* the engine's ttl_index_
    lru,            \* the list of the eviction manager's LRUPolicy
    memory,         \* current_memory_bytes_
    now,            \* the wall clock
    call            \* thread -> the method it is in, and where

vars == <<shards, ttl_index, lru, memory, now, call>>

Threads  == Clients \cup Maintainers \cup Sweepers
ShardIds == 0..(ShardCount - 1)
Times    == 1..MaxTime

ASSUME EngineAssumption ==
    /\ ShardCount \in Nat \ {0} /\ MemoryLimit \in Nat \ {0} /\ MemoryMod \in Nat \ {0}
    /\ Hash \in [Keys -> Nat]
    /\ MaxTime \in Nat \ {0} /\ MaxTime < TimeMod /\ TTLs \subseteq Nat
    /\ ClockStepsBack \in BOOLEAN

\* ShardManager::GetShard
GetShard(key) == Hash[key] % ShardCount

Store(key) == shards[GetShard(key)].store

Stored == {k \in Keys : k \in DOMAIN Store(k)}

\* What a thread is doing.  at: the next step ("thrown": an exception leaves
\* the method); time: the clock value it read;
\* todo: keys (or shards) it still has to visit; reply: what it will return.
Idle == [op |-> "idle", key |-> None, value |-> None, ttl |-> None,
         at |-> "idle", time |-> 0, todo |-> {}, reply |-> None]

Goto(t, at) == call' = [call EXCEPT ![t].at = at]

\* What the clock may show from a time t on.
Later(t) == {u \in Times : u >= t \/ ClockStepsBack}

-----------------------------------------------------------------------------
(* The engine's unguarded index *)

\* Seeded faults: a Set without a TTL registers the key, or leaves its old time.
IndexAfterRegistersAll(t) ==
    IF call[t].op = "Set" THEN Upsert(ttl_index, call[t].key, call[t].time)
    ELSE TtlRemove(ttl_index, call[t].key)
IndexAfterKeepsOld(t) ==
    CASE call[t].op = "Set" /\ call[t].ttl # None ->
            Upsert(ttl_index, call[t].key, (call[t].time + call[t].ttl) % TimeMod)
      [] call[t].op = "ProcessExpired" -> CollectExpired(ttl_index, call[t].time)
      [] call[t].op = "Set" -> ttl_index
      [] OTHER -> TtlRemove(ttl_index, call[t].key)

\* What the thread's access will do to ttl_index_.
IndexAfter(t) ==
    CASE call[t].op = "Set" /\ call[t].ttl # None ->
            Upsert(ttl_index, call[t].key, (call[t].time + call[t].ttl) % TimeMod)
      [] call[t].op = "ProcessExpired" -> CollectExpired(ttl_index, call[t].time)
      [] OTHER -> TtlRemove(ttl_index, call[t].key)

InIndex(t) == call[t].at = "inIndex"

\* Removing an absent key, or collecting when nothing is due, only reads.
WritesIndex(t) == (call[t].op = "Set" /\ call[t].ttl # None) \/ IndexAfter(t) # ttl_index

Racing(t, u) == t # u /\ InIndex(t) /\ InIndex(u) /\ (WritesIndex(t) \/ WritesIndex(u))

\* "Thread-Safe" (kv_engine.h:13): no two accesses to the engine's index overlap
\* with one of them a write (kv_engine.h:65, 69, 94, 113, 126).
NoDataRace == \A t, u \in Threads : ~Racing(t, u)

\* The guard of every step of a thread: where the thread is, and that no race
\* has made the program's behaviour undefined.
At(t, at) == call[t].at = at /\ NoDataRace

Calling(t, op, at) == At(t, at) /\ call[t].op = op

BeginIndex(t) ==
    /\ At(t, "index")
    /\ Goto(t, "inIndex")
    /\ UNCHANGED <<shards, ttl_index, lru, memory, now>>

EndIndex(t) ==
    /\ At(t, "inIndex")
    /\ ttl_index' = IndexAfter(t)
    /\ CASE call[t].op \in {"Set", "Delete"} -> Goto(t, "policy")
         [] call[t].op = "ProcessExpired" ->
               call' = [call EXCEPT ![t].at = "next",
                                    ![t].todo = ExpiredKeys(ttl_index, call[t].time)]
         [] call[t].op = "ProcessEvictions" -> Goto(t, "next")
    /\ UNCHANGED <<shards, lru, memory, now>>

-----------------------------------------------------------------------------
(* MemoryTracker and EvictionManager *)

IsOverLimit(m) == m > MemoryLimit

\* Seeded fault: the counter goes below zero.
ReleaseSigned(m) == m - 1

Reserve(m) == (m + 1) % MemoryMod
Release(m) == (m + MemoryMod - 1) % MemoryMod

\* Seeded fault: reads do not count as uses.
OnReadIgnored(order, key) == order

\* LRUPolicy.  What Touch returns is not used: nothing bounds this list.
OnRead(order, key)   == LruTouch(order, key)
OnWrite(order, key)  == LruTouch(order, key)
OnDelete(order, key) == LruRemove(order, key)

\* OnRead, OnWrite and OnDelete of the manager.  EnforceMemoryLimit changes
\* nothing.
PolicyStep(t) ==
    /\ At(t, "policy")
    /\ CASE call[t].op = "Get" ->
              /\ lru' = OnRead(lru, call[t].key)
              /\ UNCHANGED memory
         [] call[t].op = "Set" ->
              /\ lru' = OnWrite(lru, call[t].key)
              /\ memory' = Reserve(memory)
         [] call[t].op \in {"Delete", "ProcessExpired"} ->
              /\ lru' = OnDelete(lru, call[t].key)
              /\ memory' = Release(memory)
    /\ Goto(t, IF call[t].op = "ProcessExpired" THEN "next" ELSE "return")
    /\ UNCHANGED <<shards, ttl_index, now>>

\* CollectEvictionCandidates: one victim and one Release per iteration until
\* the counter is at the limit.  With fewer keys than that in the policy, the
\* pop of the empty list throws: the keys popped so far are forgotten.
CollectEvictionCandidates(t) ==
    /\ Calling(t, "ProcessEvictions", "victims")
    /\ LET excess == IF IsOverLimit(memory) THEN memory - MemoryLimit ELSE 0
           kept   == Len(lru) - excess
       IN  IF excess <= Len(lru)
           THEN /\ lru' = SubSeq(lru, 1, kept)
                /\ memory' = memory - excess
                /\ call' = [call EXCEPT ![t].at = "next",
                                        ![t].todo = {lru[i] : i \in (kept + 1)..Len(lru)}]
           ELSE /\ lru' = <<>>
                /\ memory' = memory - Len(lru)
                /\ Goto(t, "thrown")
    /\ UNCHANGED <<shards, ttl_index, now>>

-----------------------------------------------------------------------------
(* The methods of the engine *)

Begin(t, c) ==
    /\ At(t, "idle")
    /\ call' = [call EXCEPT ![t] = c]
    /\ UNCHANGED <<shards, ttl_index, lru, memory, now>>

BeginSet(t, k, v, ttl) ==
    /\ memory < MaxReserved \/ memory >= MemoryMod - MaxReleased
    /\ Begin(t, [Idle EXCEPT !.op = "Set", !.key = k, !.value = v, !.ttl = ttl, !.at = "shard"])

BeginGet(t, k) == Begin(t, [Idle EXCEPT !.op = "Get", !.key = k, !.at = "shard"])

BeginDelete(t, k) ==
    /\ memory \notin {0 - MaxReleased, MemoryMod - MaxReleased}
    /\ Begin(t, [Idle EXCEPT !.op = "Delete", !.key = k, !.at = "shard"])

BeginGetAllKeys(t) ==
    Begin(t, [Idle EXCEPT !.op = "GetAllKeys", !.at = "scan", !.todo = ShardIds, !.reply = {}])

BeginProcessExpired(t) == Begin(t, [Idle EXCEPT !.op = "ProcessExpired", !.at = "clock"])

BeginProcessEvictions(t) == Begin(t, [Idle EXCEPT !.op = "ProcessEvictions", !.at = "victims"])

\* CleanupExpired of the manager: the caller has read the clock.
BeginCleanupExpired(t) ==
    Begin(t, [Idle EXCEPT !.op = "CleanupExpired", !.at = "sweep", !.todo = ShardIds, !.time = now])

\* The call into the shard that holds the key.
SetInShard(t) ==
    /\ Calling(t, "Set", "shard")
    /\ LET c == call[t]
           s == GetShard(c.key)
       IN  IF c.ttl = None
           THEN /\ shards' = [shards EXCEPT ![s] = ShardSet(@, c.key, c.value)]
                /\ Goto(t, "index")
           ELSE /\ shards' = [shards EXCEPT ![s] = ShardSetWithTTL(@, c.key, c.value, c.ttl, now)]
                /\ Goto(t, "clock")
    /\ UNCHANGED <<ttl_index, lru, memory, now>>

GetInShard(t) ==
    /\ Calling(t, "Get", "shard")
    /\ LET k   == call[t].key
           hit == ShardHit(shards[GetShard(k)], k, now)
       IN  /\ shards' = [shards EXCEPT ![GetShard(k)] = ShardGet(@, k, now)]
           /\ call' = [call EXCEPT ![t].at = IF hit THEN "policy" ELSE "return",
                                   ![t].reply = IF hit THEN Store(k)[k].value ELSE None]
    /\ UNCHANGED <<ttl_index, lru, memory, now>>

\* Delete, and one iteration of the loops of ProcessExpired and ProcessEvictions.
DeleteInShard(t) ==
    /\ At(t, "shard")
    /\ call[t].op \in {"Delete", "ProcessExpired", "ProcessEvictions"}
    /\ shards' = [shards EXCEPT ![GetShard(call[t].key)] = ShardDelete(@, call[t].key)]
    /\ Goto(t, IF call[t].op = "ProcessExpired" THEN "policy" ELSE "index")
    /\ UNCHANGED <<ttl_index, lru, memory, now>>

\* The next key of the loop.  The code visits expired keys by expiry time and
\* victims from the oldest on; here any order is possible.
NextKey(t) ==
    /\ At(t, "next")
    /\ IF call[t].todo = {} THEN Goto(t, "return")
       ELSE \E k \in call[t].todo :
              call' = [call EXCEPT ![t].at = "shard", ![t].key = k, ![t].todo = @ \ {k}]
    /\ UNCHANGED <<shards, ttl_index, lru, memory, now>>

\* NowEpochMillis() in Set, for the index, and in ProcessExpired.
ReadClock(t) ==
    /\ At(t, "clock")
    /\ call' = [call EXCEPT ![t].at = "index", ![t].time = now]
    /\ UNCHANGED <<shards, ttl_index, lru, memory, now>>

\* ShardManager::GetAllKeys locks one shard after the other, in order.  The
\* clock moves on from entry to entry.
ScanShard(t) ==
    /\ Calling(t, "GetAllKeys", "scan")
    /\ LET s    == Min(call[t].todo)
           left == call[t].todo \ {s}
       IN  \E at \in [DOMAIN shards[s].store -> Later(now)] :
             /\ call' = [call EXCEPT ![t].todo = left,
                                     ![t].reply = @ \cup ShardGetAllKeys(shards[s], at),
                                     ![t].at = IF left = {} THEN "return" ELSE "scan"]
             /\ now' \in Later(now)
             /\ \A k \in DOMAIN at : now' \in Later(at[k])
    /\ UNCHANGED <<shards, ttl_index, lru, memory>>

\* So does CleanupExpired.  It tells neither the engine's index nor the policy.
SweepShard(t) ==
    /\ Calling(t, "CleanupExpired", "sweep")
    /\ LET s    == Min(call[t].todo)
           left == call[t].todo \ {s}
       IN  /\ shards' = [shards EXCEPT ![s] = ShardCleanupExpired(@, call[t].time)]
           /\ call' = [call EXCEPT ![t].todo = left,
                                   ![t].at = IF left = {} THEN "return" ELSE "sweep"]
    /\ UNCHANGED <<ttl_index, lru, memory, now>>

Return(t) ==
    /\ At(t, "return") \/ At(t, "thrown")
    /\ call' = [call EXCEPT ![t] = Idle]
    /\ UNCHANGED <<shards, ttl_index, lru, memory, now>>

ClockMoves ==
    /\ now' \in Later(now)
    /\ UNCHANGED <<shards, ttl_index, lru, memory, call>>

-----------------------------------------------------------------------------
Init ==
    /\ shards = [s \in ShardIds |-> EmptyShard]
    /\ ttl_index = EmptyIndex
    /\ lru = <<>>
    /\ memory = 0
    /\ now = 1
    /\ call = [t \in Threads |-> Idle]

Step(t) ==
    \/ SetInShard(t)
    \/ GetInShard(t)
    \/ DeleteInShard(t)
    \/ ScanShard(t)
    \/ SweepShard(t)
    \/ ReadClock(t)
    \/ BeginIndex(t)
    \/ EndIndex(t)
    \/ PolicyStep(t)
    \/ CollectEvictionCandidates(t)
    \/ NextKey(t)
    \/ Return(t)

Next ==
    \/ \E t \in Clients, k \in Keys, v \in Values, ttl \in TTLs \cup {None} : BeginSet(t, k, v, ttl)
    \/ \E t \in Clients, k \in Keys : BeginGet(t, k) \/ BeginDelete(t, k)
    \/ \E t \in Clients : BeginGetAllKeys(t)
    \/ \E t \in Maintainers : BeginProcessExpired(t) \/ BeginProcessEvictions(t)
    \/ \E t \in Sweepers : BeginCleanupExpired(t)
    \/ \E t \in Threads : Step(t)
    \/ ClockMoves

Spec == Init /\ [][Next]_vars

-----------------------------------------------------------------------------
(* Properties *)

AllIdle == \A t \in Threads : call[t] = Idle

\* Every variable has its type: shards, index, recency list and counter as in
\* the members of KVEngine, ShardManager and EvictionManager.
TypeOK ==
    /\ \A s \in ShardIds : ShardType(shards[s], Keys, Values)
    /\ IndexType(ttl_index, Keys, Timestamps)
    /\ lru \in Seq(Keys)
    /\ memory \in 0..(MemoryMod - 1)
    /\ now \in Times
    /\ DOMAIN call = Threads

\* Between calls, the eviction manager's list orders the keys of each shard
\* exactly as the shard's own list does, and misses none of them: two lists
\* kept by separate calls (kv_engine.h:60-72, 80-83, 93-95) stay one order.
PolicyAgreesWithShards ==
    AllIdle => \A s \in ShardIds :
        shards[s].order = LruRemoveAll(lru, Keys \ DOMAIN shards[s].store)

\* Between calls, the engine's index lists a stored key just when its entry
\* has a TTL, and never at an earlier time than the entry's own: the index is
\* fed by a second clock reading (kv_engine.h:59-70).
IndexAgreesWithShards ==
    AllIdle => \A k \in Stored :
        /\ k \in DOMAIN ttl_index.key_index <=> HasTTL(Store(k)[k])
        /\ HasTTL(Store(k)[k]) => ttl_index.key_index[k] >= Store(k)[k].expire_at

\* "Expires keys that are due" (kv_engine.h:108): what ProcessExpired (line 116)
\* or the manager's CleanupExpired (shard_manager.h:116) deletes from a shard is
\* past its time when it is deleted.
ExpiresOnlyDue ==
    [][\A t \in Threads, k \in Stored \ Stored' :
         \/ Calling(t, "ProcessExpired", "shard") /\ DeleteInShard(t)
         \/ SweepShard(t)
         => IsExpired(Store(k)[k], now)]_vars

\* "Returns true if memory exceeds configured limits" (memory_tracker.h:91):
\* between calls the counter is over the limit only with that many keys stored.
OverLimitIsReal ==
    AllIdle /\ IsOverLimit(memory) => Cardinality(Stored) > MemoryLimit

\* "No key can be removed without decrementing the tracker" (docs/HLD.md:220):
\* the step that takes a key out of a shard belongs to a call that releases it.
RemovalIsReleased ==
    [][\A k \in Stored \ Stored' :
         \E t \in Threads : DeleteInShard(t) /\ call[t].key = k]_vars

\* "EvictionManager failure | Memory growth; no crash" (docs/HLD.md:230), and
\* the has_value check of eviction_manager.h:132 expects an empty answer: an
\* eviction pass never ends in an exception.
EvictionNeverThrows == \A t \in Threads : call[t].at # "thrown"

-----------------------------------------------------------------------------
(***************************************************************************)
(* Linearizability.  With no TTL in use and no maintenance thread, the     *)
(* engine implements AtomicStore: a call acts on the map in its shard      *)
(* step, and all its later steps are invisible.                            *)
(***************************************************************************)

Unscanned(t) ==
    IF call[t].op = "GetAllKeys" THEN {k \in Keys : GetShard(k) \in call[t].todo} ELSE {}

AbstractCall(t) ==
    [op    |-> call[t].op,
     key   |-> call[t].key,
     value |-> call[t].value,
     done  |-> IF call[t].op = "GetAllKeys" THEN Unscanned(t) = {}
               ELSE call[t].at \notin {"idle", "shard"},
     left  |-> Unscanned(t),
     reply |-> call[t].reply]

Atomic == INSTANCE AtomicStore WITH
    dict <- [k \in Stored |-> Store(k)[k].value],
    pend <- [t \in Clients |-> AbstractCall(t)]

\* Set, Get and Delete are atomic for concurrent clients, and GetAllKeys reads
\* each shard atomically, although every call is several critical sections and
\* the engine itself takes no lock (kv_engine.h:12-14, shard_manager.h:99-102).
ImplementsAtomicStore == Atomic!StoreSpec
=============================================================================
