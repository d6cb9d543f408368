---------------------------- MODULE MCGlobalmem ----------------------------
(* Two tasks that share an open file, one with a file of its own. *)
EXTENDS Globalmem, TLC

CONSTANTS t1, t2, t3, f1, f2

Sharing == t1 :> f1 @@ t2 :> f1 @@ t3 :> f2

\* Back and forth by one, past the end, and 2^32 + 1.
Offsets == {-1, 1, Size + 1, Uint + 1}

Symmetry == Permutations({t1, t2})
=============================================================================
