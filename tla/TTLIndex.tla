------------------------------ MODULE TTLIndex ------------------------------
(***************************************************************************)
(* core/ttl_index.h: an ordered map from an expiry time to the vector of   *)
(* keys due at that time, and a hash map from a key to its expiry time.    *)
(* The two maps are kept in step by hand, so both are state here:          *)
(*     [expiry_map |-> time -> Seq(key), key_index |-> key -> time]        *)
(* with partial functions for the maps.                                    *)
(*                                                                         *)
(* Each shard owns an index that its mutex guards, and the engine owns one *)
(* more that nothing guards.                                               *)
(***************************************************************************)
EXTENDS SequencesExt

\* A default-constructed TTLIndex.
EmptyIndex == [expiry_map |-> [t \in {} |-> <<>>], key_index |-> [k \in {} |-> 0]]

\* map.erase(x): nothing when x is absent.
Without(f, x) == [y \in DOMAIN f \ {x} |-> f[y]]

\* map[x] = v: insert or overwrite.
With(f, x, v) == [y \in DOMAIN f \cup {x} |-> IF y = x THEN v ELSE f[y]]

\* The vector stored under a time, empty when the time is absent (operator[]).
DueAt(index, t) ==
    IF t \in DOMAIN index.expiry_map THEN index.expiry_map[t] ELSE <<>>

\* The first part of TTLIndex::Remove: erase the first match from the vector,
\* and the vector itself once it is empty.
DropFromBucket(expiry_map, t, key) ==
    IF t \notin DOMAIN expiry_map THEN expiry_map
    ELSE LET keys == RemoveFirst(expiry_map[t], key)
         IN  IF keys = <<>> THEN Without(expiry_map, t) ELSE With(expiry_map, t, keys)

\* TTLIndex::Remove
TtlRemove(index, key) ==
    IF key \notin DOMAIN index.key_index THEN index
    ELSE [expiry_map |-> DropFromBucket(index.expiry_map, index.key_index[key], key),
          key_index  |-> Without(index.key_index, key)]

\* TTLIndex::Upsert
Upsert(index, key, expire_at) ==
    LET rest == TtlRemove(index, key)
    IN  [expiry_map |-> With(rest.expiry_map, expire_at, Append(DueAt(rest, expire_at), key)),
         key_index  |-> With(rest.key_index, key, expire_at)]

\* Seeded faults: a key due exactly now is left, a key due next is taken.
ExpiredKeysStrict(index, now) ==
    UNION {ToSet(index.expiry_map[t]) : t \in {u \in DOMAIN index.expiry_map : u < now}}
ExpiredKeysEarly(index, now) ==
    UNION {ToSet(index.expiry_map[t]) : t \in {u \in DOMAIN index.expiry_map : u <= now + 1}}

\* The keys TTLIndex::CollectExpired(now) returns.  The code lists them by
\* expiry time; its callers only delete each of them.
ExpiredKeys(index, now) ==
    UNION {ToSet(index.expiry_map[t]) : t \in {u \in DOMAIN index.expiry_map : u <= now}}

\* What TTLIndex::CollectExpired(now) leaves behind.
CollectExpired(index, now) ==
    [expiry_map |-> Restrict(index.expiry_map, {t \in DOMAIN index.expiry_map : t > now}),
     key_index  |-> Restrict(index.key_index,
                             DOMAIN index.key_index \ ExpiredKeys(index, now))]

-----------------------------------------------------------------------------
(***************************************************************************)
(* The two maps are inverse to each other: every indexed key is in the     *)
(* bucket of its time, every bucket is non-empty, holds no key twice and   *)
(* only keys indexed at its time.                                          *)
(***************************************************************************)
IndexConsistent(index) ==
    /\ \A k \in DOMAIN index.key_index :
          /\ index.key_index[k] \in DOMAIN index.expiry_map
          /\ Contains(index.expiry_map[index.key_index[k]], k)
    /\ \A t \in DOMAIN index.expiry_map :
          /\ index.expiry_map[t] # <<>>
          /\ \A k \in ToSet(index.expiry_map[t]) :
                k \in DOMAIN index.key_index /\ index.key_index[k] = t
          /\ IsInjective(index.expiry_map[t])

\* The shape of an index over keys Keys and times Times.
IndexType(index, Keys, Times) ==
    /\ index = [expiry_map |-> index.expiry_map, key_index |-> index.key_index]
    /\ DOMAIN index.expiry_map \subseteq Times
    /\ index.expiry_map \in [DOMAIN index.expiry_map -> Seq(Keys)]
    /\ DOMAIN index.key_index \subseteq Keys
    /\ index.key_index \in [DOMAIN index.key_index -> Times]
=============================================================================
