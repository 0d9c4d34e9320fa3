----------------------------- MODULE MCKVEngine -----------------------------
(***************************************************************************)
(* Instances of KVEngine for TLC.  The hash function is a definition; with *)
(* OneShard the keys are interchangeable, with TwoInOne they are not.      *)
(***************************************************************************)
EXTENDS KVEngine

CONSTANTS k1, k2, k3

TwoInOne == [k \in Keys |-> IF k = k3 THEN 1 ELSE 2]

OneShard == [k \in Keys |-> 0]

Symmetry == Permutations(Clients) \cup Permutations(Values)

KeySymmetry == Permutations(Keys)
=============================================================================
