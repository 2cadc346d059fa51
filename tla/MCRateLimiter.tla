---------------------------- MODULE MCRateLimiter ----------------------------
(* Instances of RateLimiter for TLC. *)
EXTENDS RateLimiter, TLC
CONSTANTS h1, h2

NoSkew == [h \in Handlers |-> 0]
=============================================================================
