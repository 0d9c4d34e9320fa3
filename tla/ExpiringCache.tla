--------------------------- MODULE ExpiringCache ---------------------------
(***************************************************************************)
(* What a shard promises its callers, without recency list or index: a map *)
(* of at most Capacity entries, each with an optional expiry time.  An     *)
(* entry leaves the map only because it was deleted, because it is past    *)
(* its time when it is read or swept, or because a new key needed its      *)
(* place in a full map.  A sweep takes every entry that is due, and the    *)
(* stale keys: those written by SetWithTTL without an expiry time over an  *)
(* entry that had one, which stays scheduled.                              *)
(***************************************************************************)
EXTENDS Naturals, FiniteSets

CONSTANTS Keys, Values, TTLs, Capacity, Times, TimeMod, None

VARIABLES
    dict,       \* key -> [value, expire_at]
    stale,      \* key -> time at which a sweep takes it, although it never expires
    now,        \* the wall clock
    answer      \* the last operation and what it returned

cacheVars == <<dict, stale, now, answer>>

ExpiryOf(ttl) == IF ttl = 0 THEN 0 ELSE (now + ttl) % TimeMod

Due(k, t) == dict[k].expire_at # 0 /\ dict[k].expire_at <= t

\* A sweep of time t takes the key.
Swept(k, t) == Due(k, t) \/ (k \in DOMAIN stale /\ stale[k] <= t)

\* Some sweep will take the key, at this time or later.
Scheduled(k) == k \in DOMAIN dict /\ (dict[k].expire_at # 0 \/ k \in DOMAIN stale)
ScheduledAt(k) == IF k \in DOMAIN stale THEN stale[k] ELSE dict[k].expire_at

CacheInit ==
    /\ dict = [k \in {} |-> 0]
    /\ stale = [k \in {} |-> 0]
    /\ now \in Times
    /\ answer = [op |-> "none", key |-> None, reply |-> None]

\* A write of k; when k is new and the map is full, some other key is lost.
Put(op, k, v, expire_at) ==
    \E lost \in SUBSET (DOMAIN dict \ {k}) :
        /\ Cardinality(lost) =
             IF k \notin DOMAIN dict /\ Cardinality(DOMAIN dict) = Capacity THEN 1 ELSE 0
        /\ dict' = [x \in (DOMAIN dict \cup {k}) \ lost |->
                      IF x = k THEN [value |-> v, expire_at |-> expire_at] ELSE dict[x]]
        /\ stale' = [x \in {y \in DOMAIN stale : y # k /\ y \notin lost}
                             \cup {y \in {k} : op = "SetWithTTL" /\ expire_at = 0 /\ Scheduled(k)}
                        |-> ScheduledAt(x)]
        /\ answer' = [op |-> op, key |-> k, reply |-> None]
        /\ UNCHANGED now

Keep(S) ==
    /\ dict' = [x \in S |-> dict[x]]
    /\ stale' = [x \in DOMAIN stale \cap S |-> stale[x]]

Fetch(k) ==
    /\ IF k \in DOMAIN dict /\ ~Due(k, now)
       THEN /\ UNCHANGED <<dict, stale>>
            /\ answer' = [op |-> "Get", key |-> k, reply |-> dict[k].value]
       ELSE /\ Keep(DOMAIN dict \ {k})
            /\ answer' = [op |-> "Get", key |-> k, reply |-> None]
    /\ UNCHANGED now

Del(k) ==
    /\ Keep(DOMAIN dict \ {k})
    /\ answer' = [op |-> "Delete", key |-> k, reply |-> None]
    /\ UNCHANGED now

\* Every entry is listed or left out as of some time of its own, while the
\* clock moves.
Snapshot ==
    /\ \E listed \in SUBSET DOMAIN dict :
          /\ \A k \in DOMAIN dict : \E t \in Times : k \in listed <=> ~Due(k, t)
          /\ answer' = [op |-> "GetAllKeys", key |-> None,
                        reply |-> {<<k, dict[k].value>> : k \in listed}]
    /\ now' \in Times
    /\ UNCHANGED <<dict, stale>>

Count ==
    /\ answer' = [op |-> "Size", key |-> None, reply |-> Cardinality(DOMAIN dict)]
    /\ UNCHANGED <<dict, stale, now>>

Sweep(t) ==
    /\ Keep({k \in DOMAIN dict : ~Swept(k, t)})
    /\ answer' = [op |-> "CleanupExpired", key |-> None, reply |-> t]
    /\ UNCHANGED now

\* A wall clock may move either way.
MoveClock ==
    /\ now' \in Times
    /\ UNCHANGED <<dict, stale, answer>>

CacheNext ==
    \/ \E k \in Keys, v \in Values : Put("Set", k, v, 0)
    \/ \E k \in Keys, v \in Values, ttl \in TTLs : Put("SetWithTTL", k, v, ExpiryOf(ttl))
    \/ \E k \in Keys : Fetch(k) \/ Del(k)
    \/ Snapshot
    \/ Count
    \/ \E t \in Times : Sweep(t)
    \/ MoveClock

CacheSpec == CacheInit /\ [][CacheNext]_cacheVars
=============================================================================
