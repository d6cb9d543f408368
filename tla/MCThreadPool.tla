---------------------------- MODULE MCThreadPool ----------------------------
(* Instances of ThreadPool for TLC.  Two callers are alike, but runs with a  *)
(* liveness property cannot use that symmetry, and the others have only one. *)
EXTENDS ThreadPool

CONSTANTS c1, c2
=============================================================================
