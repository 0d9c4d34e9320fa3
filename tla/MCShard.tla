------------------------------ MODULE MCShard ------------------------------
(***************************************************************************)
(* Instances of Shard for TLC.  The keys and the values are interchangeable *)
(* in every definition, and no liveness is checked here.                   *)
(***************************************************************************)
EXTENDS Shard

Symmetry == Permutations(Keys) \cup Permutations(Values)
=============================================================================
