---------------------------- MODULE MCGlobalfifo ----------------------------
(* Instances of Globalfifo for TLC: readers, writers, a clearer, pollers and *)
(* two byte values, of which each configuration takes those it needs.  No    *)
(* two tasks of a configuration are alike, so that none has a symmetry.      *)
EXTENDS Globalfifo

CONSTANTS r1, w1, w2, c1, p1, p2, z, a
=============================================================================
