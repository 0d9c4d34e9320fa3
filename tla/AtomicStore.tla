---------------------------- MODULE AtomicStore ----------------------------
(***************************************************************************)
(* What the engine promises concurrent clients that set no TTL: a map, on  *)
(* which each Set, Get and Delete acts at one instant between its call and *)
(* its return, and on which GetAllKeys reads one part of the keys after    *)
(* the other, each part at one instant.  Only a Set of a new key may cost  *)
(* another key its place, and only when Capacity keys are stored.          *)
(***************************************************************************)
EXTENDS Naturals, FiniteSets

CONSTANTS Clients, Keys, Values, Capacity, None

VARIABLES
    dict,       \* key -> value
    pend        \* client -> its pending call

storeVars == <<dict, pend>>

Free == [op |-> "idle", key |-> None, value |-> None,
         done |-> FALSE, left |-> {}, reply |-> None]

Requests ==
    {[Free EXCEPT !.op = "Set", !.key = k, !.value = v] : k \in Keys, v \in Values}
      \cup {[Free EXCEPT !.op = o, !.key = k] : o \in {"Get", "Delete"}, k \in Keys}
      \cup {[Free EXCEPT !.op = "GetAllKeys", !.left = Keys, !.reply = {}]}

StoreInit == dict = [k \in {} |-> None] /\ pend = [t \in Clients |-> Free]

Invoke(t) ==
    /\ pend[t] = Free
    /\ \E r \in Requests : pend' = [pend EXCEPT ![t] = r]
    /\ UNCHANGED dict

Pending(t, op) == pend[t].op = op /\ ~pend[t].done

Finish(t, reply) == pend' = [pend EXCEPT ![t].done = TRUE, ![t].reply = reply]

ApplySet(t) ==
    LET k == pend[t].key
    IN  /\ Pending(t, "Set")
        /\ \E lost \in SUBSET (DOMAIN dict \ {k}) :
             /\ Cardinality(lost) <= 1
             /\ lost # {} => k \notin DOMAIN dict /\ Cardinality(DOMAIN dict) >= Capacity
             /\ dict' = [x \in (DOMAIN dict \cup {k}) \ lost |->
                           IF x = k THEN pend[t].value ELSE dict[x]]
        /\ Finish(t, None)

ApplyGet(t) ==
    /\ Pending(t, "Get")
    /\ Finish(t, IF pend[t].key \in DOMAIN dict THEN dict[pend[t].key] ELSE None)
    /\ UNCHANGED dict

ApplyDelete(t) ==
    /\ Pending(t, "Delete")
    /\ dict' = [x \in DOMAIN dict \ {pend[t].key} |-> dict[x]]
    /\ Finish(t, None)

ReadPart(t) ==
    /\ Pending(t, "GetAllKeys")
    /\ \E part \in (SUBSET pend[t].left) \ {{}} :
         pend' = [pend EXCEPT ![t].left = @ \ part,
                              ![t].reply = @ \cup {<<k, dict[k]>> : k \in part \cap DOMAIN dict},
                              ![t].done = (pend[t].left = part)]
    /\ UNCHANGED dict

Respond(t) ==
    /\ pend[t].done
    /\ pend' = [pend EXCEPT ![t] = Free]
    /\ UNCHANGED dict

StoreNext ==
    \E t \in Clients : \/ Invoke(t) \/ ApplySet(t) \/ ApplyGet(t) \/ ApplyDelete(t)
                       \/ ReadPart(t) \/ Respond(t)

StoreSpec == StoreInit /\ [][StoreNext]_storeVars
=============================================================================
