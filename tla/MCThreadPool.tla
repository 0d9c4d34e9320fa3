---------------------------- MODULE MCThreadPool ----------------------------
(***************************************************************************)
(* Instances of ThreadPool for TLC.  Liveness is checked, so no symmetry.  *)
(***************************************************************************)
EXTENDS ThreadPool
=============================================================================
