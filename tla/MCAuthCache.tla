----------------------------- MODULE MCAuthCache -----------------------------
(* Instances of AuthCache for TLC. *)
EXTENDS AuthCache, TLC
CONSTANTS h1, h2, h3

Symmetry == Permutations(Handlers)
=============================================================================
