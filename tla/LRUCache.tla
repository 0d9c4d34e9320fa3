------------------------------ MODULE LRUCache ------------------------------
(***************************************************************************)
(* The recency list of core/lru_cache.h as operators on its list order_,   *)
(* most recently used key first.  The hash map map_ from a key to its list *)
(* node is represented by the keys' positions: both structures change      *)
(* together in every method, so map_.find(key) is Contains(order_, key).   *)
(*                                                                         *)
(* A shard (ShardOps) keeps one such list for its capacity bound, and      *)
(* the LRU policy of the eviction manager (KVEngine) keeps another.        *)
(***************************************************************************)
EXTENDS SequencesExt

\* it->second: the position of a tracked key.
NodeOf(order, key) == CHOOSE i \in 1..Len(order) : order[i] = key

\* LRUCache::Remove: nothing for an untracked key.
LruRemove(order, key) ==
    IF Contains(order, key) THEN RemoveAt(order, NodeOf(order, key)) ELSE order

\* LRUCache::Touch: move to the front, or insert at the front.
LruTouch(order, key) == <<key>> \o LruRemove(order, key)

\* Seeded fault: the size is compared before the insertion.
TouchOverflowsLate(order, key, cap) == ~Contains(order, key) /\ Len(order) > cap

\* The value Touch returns: an insertion that leaves more than cap keys.
TouchOverflows(order, key, cap) ==
    ~Contains(order, key) /\ Len(order) + 1 > cap

\* LRUCache::PopEvictionCandidate throws on an empty list; its callers guard
\* these two with order # <<>> or model the exception.
LruVictim(order) == Last(order)
LruPop(order)    == Front(order)

\* LruRemove of every key of a set: what is left of the list, in its order.
\* Position j of the result is the kept position of rank j.
KeptAt(order, keys) == {i \in 1..Len(order) : order[i] \notin keys}
RankAt(order, keys, i) == Cardinality({p \in KeptAt(order, keys) : p <= i})
LruRemoveAll(order, keys) ==
    [j \in 1..Cardinality(KeptAt(order, keys)) |->
        order[CHOOSE i \in KeptAt(order, keys) : RankAt(order, keys, i) = j]]
=============================================================================
