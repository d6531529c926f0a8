----------------------------- MODULE MCStatusCache -----------------------------
(* StatusCache for TLC: the goroutines are interchangeable.                   *)
EXTENDS StatusCache, TLC

Symmetry == Permutations(Requests)
===============================================================================
