------------------------------- MODULE Shard -------------------------------
(***************************************************************************)
(* A shard (core/shard.h) as its callers drive it: any sequence of its     *)
(* public methods, each atomic under the shard's mutex, while the wall     *)
(* clock moves, backwards too (Clock::NowEpochMillis is system_clock).     *)
(*                                                                         *)
(* usedAfter is a history variable: for every key, the keys that were      *)
(* written or read with success since it last was.  It defines "least      *)
(* recently used" without the recency list.                                *)
(***************************************************************************)
EXTENDS ShardOps

CONSTANTS
    Keys, Values,
    TTLs,       \* the ttl_ms arguments of SetWithTTL, any std::uint64_t
    MaxTime,    \* bound of the wall clock
    None        \* std::nullopt

VARIABLES
    sh,         \* the shard: store, order, ttl
    now,        \* the wall clock
    last,       \* the last call: method, key and what it returned
    usedAfter   \* history: see above

vars == <<sh, now, last, usedAfter>>

\* Epoch milliseconds are never 0, the value that means "no TTL".
Times == 1..MaxTime

ASSUME TTLsAssumption == TTLs \subseteq Timestamps
ASSUME ClockAssumption == MaxTime \in Nat \ {0} /\ MaxTime < TimeMod

Use(k) == usedAfter' = [x \in Keys |-> IF x = k THEN {} ELSE usedAfter[x] \cup {k}]

Init ==
    /\ sh = EmptyShard
    /\ now \in Times
    /\ last = [op |-> "none", key |-> None, reply |-> None]
    /\ usedAfter = [x \in Keys |-> {}]

Set(k, v) ==
    /\ sh' = ShardSet(sh, k, v)
    /\ last' = [op |-> "Set", key |-> k, reply |-> None]
    /\ Use(k)
    /\ UNCHANGED now

SetWithTTL(k, v, ttl_ms) ==
    /\ sh' = ShardSetWithTTL(sh, k, v, ttl_ms, now)
    /\ last' = [op |-> "SetWithTTL", key |-> k, reply |-> None]
    /\ Use(k)
    /\ UNCHANGED now

Get(k) ==
    /\ sh' = ShardGet(sh, k, now)
    /\ last' = [op |-> "Get", key |-> k,
                reply |-> IF ShardHit(sh, k, now) THEN sh.store[k].value ELSE None]
    /\ IF ShardHit(sh, k, now) THEN Use(k) ELSE UNCHANGED usedAfter
    /\ UNCHANGED now

Delete(k) ==
    /\ sh' = ShardDelete(sh, k)
    /\ last' = [op |-> "Delete", key |-> k, reply |-> None]
    /\ UNCHANGED <<now, usedAfter>>

\* The clock may move, or be set, between any two entries of the loop.
GetAllKeys ==
    /\ \E at \in [DOMAIN sh.store -> Times] :
          last' = [op |-> "GetAllKeys", key |-> None, reply |-> ShardGetAllKeys(sh, at)]
    /\ now' \in Times
    /\ UNCHANGED <<sh, usedAfter>>

Size ==
    /\ last' = [op |-> "Size", key |-> None, reply |-> ShardSize(sh)]
    /\ UNCHANGED <<sh, now, usedAfter>>

\* The caller read its clock some time before the call got the mutex: t need
\* not be the present time.
CleanupExpired(t) ==
    /\ sh' = ShardCleanupExpired(sh, t)
    /\ last' = [op |-> "CleanupExpired", key |-> None, reply |-> t]
    /\ UNCHANGED <<now, usedAfter>>

\* system_clock moves on, or is set back.
ClockMoves ==
    /\ now' \in Times
    /\ UNCHANGED <<sh, last, usedAfter>>

Next ==
    \/ \E k \in Keys, v \in Values : Set(k, v)
    \/ \E k \in Keys, v \in Values, ttl_ms \in TTLs : SetWithTTL(k, v, ttl_ms)
    \/ \E k \in Keys : Get(k) \/ Delete(k)
    \/ GetAllKeys
    \/ Size
    \/ \E t \in Times : CleanupExpired(t)
    \/ ClockMoves

Spec == Init /\ [][Next]_vars

-----------------------------------------------------------------------------
(* Properties *)

\* Every component of the state has its type (shard.h members, Shard's callers).
TypeOK ==
    /\ ShardType(sh, Keys, Values)
    /\ now \in Times
    /\ usedAfter \in [Keys -> SUBSET Keys]

\* The hash map and the recency list agree after every call of shard.h, and a
\* shard never holds more than its capacity: Set and SetWithTTL evict one key
\* when Touch reports an overflow (shard.h:90-96, 111-119).
StoreIsTrackedAndBounded ==
    /\ LruTracksStore(sh)
    /\ Len(sh.order) <= Capacity

\* The two maps of the expiry index stay inverse to each other, and the index
\* stays in step with the store: no key without an entry, every entry with a
\* TTL listed at its own time (shard.h:84-120, ttl_index.h:54-108).
IndexTracksStore ==
    /\ IndexConsistent(sh.ttl)
    /\ IndexCoversStore(sh)

\* The recency list is the order of last use, so the key EvictOne pops
\* (shard.h:62) is least recently used in the sense of the history.
OrderIsRecency ==
    \A i, j \in 1..Len(sh.order) : i < j => sh.order[i] \in usedAfter[sh.order[j]]

\* A write that pushes a key out of the shard keeps the key written, and every
\* key that stays was used after the one that goes (shard.h:90-96, 111-119).
VictimIsLeastRecentlyUsed ==
    [][last'.op \in {"Set", "SetWithTTL"} /\ now' = now =>
         /\ last'.key \in DOMAIN sh'.store
         /\ \A k \in DOMAIN sh.store \ DOMAIN sh'.store :
               DOMAIN sh'.store \subseteq usedAfter'[k]]_vars

\* "Performs TTL cleanup for expired keys" (shard.h:191): CleanupExpired(t)
\* removes every entry that is past its time at t.  Beyond those it removes only
\* entries that never expire but whose key the index still lists at a time that
\* has come, left over from the entry they replaced (shard.h:106-114, 193-203).
CleanupTakesExactlyTheExpired ==
    [][\A t \in Times : CleanupExpired(t) =>
         \A k \in DOMAIN sh.store :
            k \notin DOMAIN sh'.store <=>
               \/ IsExpired(sh.store[k], t)
               \/ k \in DOMAIN LeftOver(sh) /\ LeftOver(sh)[k] <= t]_vars

\* "When current time >= (set_time + ttl_ms), key is considered expired"
\* (docs/PROTOCOL.md:721), and not before, for every 64-bit ttl_ms but the ones
\* whose sum overflows: a key that SetWithTTL has just written is stored and live,
\* whatever it evicted, unless now + ttl_ms is past the last Timestamp by more
\* than the value 0 that means no expiry (shard.h:106-119, entry.h:50-53, 72-75).
FreshEntryIsLive ==
    [][\A k \in Keys, v \in Values, ttl_ms \in TTLs : SetWithTTL(k, v, ttl_ms) =>
         (ShardHit(sh', k, now) <=> now + ttl_ms <= TimeMod)]_vars

\* What the two properties above become when their exceptions are dropped.  The
\* code breaks both: MCShardZeroTTL and MCShardWrap show how.
\* "Performs TTL cleanup for expired keys" (shard.h:191), and for no others.
OnlyDueAreSwept ==
    [][\A t \in Times : CleanupExpired(t) =>
         \A k \in DOMAIN sh.store \ DOMAIN sh'.store : IsExpired(sh.store[k], t)]_vars

\* A key is not expired before set_time + ttl_ms (docs/PROTOCOL.md:721).
FreshKeyIsNotExpired ==
    [][\A k \in Keys, v \in Values, ttl_ms \in TTLs :
         SetWithTTL(k, v, ttl_ms) /\ ttl_ms > 0 => ShardHit(sh', k, now)]_vars

-----------------------------------------------------------------------------
(* The shard implements the abstract cache: its store is the map. *)

Cache == INSTANCE ExpiringCache WITH dict <- sh.store, stale <- LeftOver(sh), answer <- last

\* Every behaviour of the shard is one of the abstract expiring cache: what
\* callers see does not depend on recency list and index being extra state.
ImplementsCache == Cache!CacheSpec
=============================================================================
