------------------------------ MODULE ShardOps ------------------------------
(***************************************************************************)
(* One shard of the store (core/shard.h with core/entry.h) as operators on *)
(* a record                                                                *)
(*     store : key -> entry        order : recency list, see LRUCache      *)
(*     ttl   : expiry index, see TTLIndex                                  *)
(* Every public method of Shard holds the shard's mutex from its first to  *)
(* its last statement, so a method is one operator and one step of the     *)
(* modules that use it (Shard, KVEngine).                                  *)
(*                                                                         *)
(* An entry keeps its value and expire_at, 0 meaning "no TTL".  Its        *)
(* created_at_ is only ever used to compute expire_at.                     *)
(***************************************************************************)
EXTENDS LRUCache, TTLIndex

CONSTANTS
    Capacity,   \* capacity_ of a shard, in keys
    TimeMod     \* number of values of a Timestamp: 2^64 in the code

\* LRUCache's constructor refuses a capacity of zero.
ASSUME CapacityAssumption == Capacity \in Nat \ {0}
ASSUME TimeModAssumption  == TimeMod \in Nat \ {0}

NoExpiry == 0

\* Every value of the Timestamp type.
Timestamps == 0..(TimeMod - 1)

-----------------------------------------------------------------------------
(* Entry *)

\* Seeded faults: the TTL is subtracted; the expiry time is relative.
EntryInThePast(value, created_at, ttl_ms) ==
    [value |-> value, expire_at |-> IF ttl_ms = 0 THEN NoExpiry ELSE created_at - ttl_ms]
EntryRelative(value, created_at, ttl_ms) ==
    [value |-> value, expire_at |-> ttl_ms % TimeMod]

\* Entry(value) when ttl_ms = 0 and Entry(value, ttl_ms) in general: the sum
\* is 64-bit unsigned arithmetic and wraps.
Entry(value, created_at, ttl_ms) ==
    [value     |-> value,
     expire_at |-> IF ttl_ms = 0 THEN NoExpiry ELSE (created_at + ttl_ms) % TimeMod]

HasTTL(entry) == entry.expire_at # NoExpiry

IsExpired(entry, now) == HasTTL(entry) /\ now >= entry.expire_at

-----------------------------------------------------------------------------
(* Shard *)

EmptyShard == [store |-> [k \in {} |-> 0], order |-> <<>>, ttl |-> EmptyIndex]

RemoveInternal(sh, key) ==
    [store |-> Without(sh.store, key),
     order |-> LruRemove(sh.order, key),
     ttl   |-> TtlRemove(sh.ttl, key)]

\* Seeded faults: the index keeps the victim; the front of the list is popped.
EvictOneKeepsIndex(sh) ==
    IF DOMAIN sh.store = {} THEN sh
    ELSE [sh EXCEPT !.store = Without(@, LruVictim(sh.order)), !.order = LruPop(@)]
EvictOneNewest(sh) ==
    IF DOMAIN sh.store = {} THEN sh ELSE RemoveInternal(sh, Head(sh.order))

\* Pops the least recently used key; its early return on an empty store never
\* happens after an insertion but is kept, PopEvictionCandidate would throw.
EvictOne(sh) ==
    IF DOMAIN sh.store = {} THEN sh
    ELSE [store |-> Without(sh.store, LruVictim(sh.order)),
          order |-> LruPop(sh.order),
          ttl   |-> TtlRemove(sh.ttl, LruVictim(sh.order))]

EvictOnOverflow(sh, overflow) == IF overflow THEN EvictOne(sh) ELSE sh

\* Seeded fault: emplace instead of assignment, a stored value stays.
ShardSetEmplace(sh, key, value) ==
    EvictOnOverflow([store |-> IF key \in DOMAIN sh.store THEN sh.store
                               ELSE With(sh.store, key, Entry(value, 0, 0)),
                     order |-> LruTouch(sh.order, key),
                     ttl   |-> TtlRemove(sh.ttl, key)],
                    TouchOverflows(sh.order, key, Capacity))

ShardSet(sh, key, value) ==
    EvictOnOverflow([store |-> With(sh.store, key, Entry(value, 0, 0)),
                     order |-> LruTouch(sh.order, key),
                     ttl   |-> TtlRemove(sh.ttl, key)],
                    TouchOverflows(sh.order, key, Capacity))

\* The index is updated only when the new entry has a TTL: with ttl_ms = 0, or
\* a sum that wraps to 0, whatever the index held for the key stays.
ShardSetWithTTL(sh, key, value, ttl_ms, now) ==
    LET entry == Entry(value, now, ttl_ms)
    IN  EvictOnOverflow([store |-> With(sh.store, key, entry),
                         order |-> LruTouch(sh.order, key),
                         ttl   |-> IF HasTTL(entry)
                                   THEN Upsert(sh.ttl, key, entry.expire_at)
                                   ELSE sh.ttl],
                        TouchOverflows(sh.order, key, Capacity))

\* Seeded fault: Get does not look at the expiry time.
ShardHitAnyAge(sh, key, now) == key \in DOMAIN sh.store

\* Get answers with a value: the key is stored and not expired.
ShardHit(sh, key, now) ==
    key \in DOMAIN sh.store /\ ~IsExpired(sh.store[key], now)

\* Seeded fault: a hit is not moved to the front.
ShardGetUntouched(sh, key, now) ==
    IF ShardHit(sh, key, now) \/ key \notin DOMAIN sh.store THEN sh ELSE RemoveInternal(sh, key)

\* What Get does to the shard: a hit is touched, an expired entry is removed,
\* an absent key changes nothing.
ShardGet(sh, key, now) ==
    IF ShardHit(sh, key, now) THEN [sh EXCEPT !.order = LruTouch(@, key)]
    ELSE IF key \in DOMAIN sh.store THEN RemoveInternal(sh, key)
    ELSE sh

ShardDelete(sh, key) == RemoveInternal(sh, key)

\* The pairs GetAllKeys returns.  Its loop asks every entry in turn whether it
\* is expired, and each answer reads the wall clock again: at[k] is the time
\* that the question to the entry of k reads.
ShardGetAllKeys(sh, at) ==
    {<<k, sh.store[k].value>> : k \in {x \in DOMAIN sh.store : ~IsExpired(sh.store[x], at[x])}}

ShardSize(sh) == Cardinality(DOMAIN sh.store)

\* CleanupExpired: RemoveInternal for every key CollectExpired returned.  The
\* removals commute; the index has already dropped those keys.
ShardCleanupExpired(sh, now) ==
    LET expired == ExpiredKeys(sh.ttl, now)
    IN  [store |-> Restrict(sh.store, DOMAIN sh.store \ expired),
         order |-> LruRemoveAll(sh.order, expired),
         ttl   |-> CollectExpired(sh.ttl, now)]

-----------------------------------------------------------------------------
(* The shape of a shard, and what keeps its three structures in step. *)

EntryType(Values) == [value : Values, expire_at : Timestamps]

ShardType(sh, Keys, Values) ==
    /\ sh = [store |-> sh.store, order |-> sh.order, ttl |-> sh.ttl]
    /\ DOMAIN sh.store \subseteq Keys
    /\ sh.store \in [DOMAIN sh.store -> EntryType(Values)]
    /\ sh.order \in Seq(Keys)
    /\ IndexType(sh.ttl, Keys, Timestamps)

\* The recency list holds exactly the stored keys, each once.
LruTracksStore(sh) ==
    /\ IsInjective(sh.order)
    /\ \A i \in 1..Len(sh.order) : sh.order[i] \in DOMAIN sh.store
    /\ \A k \in DOMAIN sh.store : Contains(sh.order, k)

\* The index holds only stored keys, and every entry with a TTL at its time.
IndexCoversStore(sh) ==
    /\ DOMAIN sh.ttl.key_index \subseteq DOMAIN sh.store
    /\ \A k \in DOMAIN sh.store :
          HasTTL(sh.store[k]) => /\ k \in DOMAIN sh.ttl.key_index
                                 /\ sh.ttl.key_index[k] = sh.store[k].expire_at

\* What the index still holds for keys whose entry has no TTL: the time of an
\* earlier entry that a SetWithTTL without expiry overwrote.
LeftOver(sh) ==
    [k \in {x \in DOMAIN sh.ttl.key_index : ~HasTTL(sh.store[x])} |-> sh.ttl.key_index[k]]

\* No index entry is left over from an earlier TTL of its key.
IndexIsCurrent(sh) ==
    \A k \in DOMAIN sh.ttl.key_index \cap DOMAIN sh.store :
        sh.ttl.key_index[k] = sh.store[k].expire_at
=============================================================================
