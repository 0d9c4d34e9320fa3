----------------------------- MODULE MCLatency ------------------------------
(***************************************************************************)
(* Instances of LatencyTracker for TLC.                                    *)
(***************************************************************************)
EXTENDS LatencyTracker

Symmetry == Permutations(Recorders) \cup Permutations(Readers)
=============================================================================
