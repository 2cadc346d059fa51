----------------------------- MODULE MCExecutor -----------------------------
(* Instances of Executor for TLC. *)
EXTENDS Executor, TLC
CONSTANTS r1, r2, p1, p2

OneTarget    == {<<p1>>}
Fallback     == {<<p1, p2>>}

Symmetry == Permutations(Requests)
=============================================================================
