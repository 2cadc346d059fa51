------------------------------- MODULE Router -------------------------------
(***************************************************************************)
(* The router (internal/router): from the alias a client asks for to the   *)
(* ordered list of targets the executor tries.  A weighted alias draws its *)
(* primary and every fallback at random, by weight and without replacement *)
(* (weightedOrder), so that Route may return any of a set of lists.        *)
(***************************************************************************)
EXTENDS Integers, Sequences, FiniteSets, FiniteSetsExt

CONSTANTS
  Aliases,      \* alias -> [weighted, targets, weights]
  DefaultAlias  \* the alias that serves unknown models, or one not in Aliases

(* What Config.Validate demands of the routing table.                       *)
ASSUME RouterAssumption ==
  \A a \in DOMAIN Aliases :
    /\ Aliases[a].weighted \in BOOLEAN
    /\ Aliases[a].targets # <<>>
    /\ Aliases[a].weights \in Seq(Int)
    /\ Len(Aliases[a].weights) = Len(Aliases[a].targets)
    /\ Aliases[a].weighted =>
         \A i \in DOMAIN Aliases[a].weights : Aliases[a].weights[i] > 0

\* The weight of the targets I of an alias.
Total(weights, I) == MapThenSumSet(LAMBDA i : weights[i], I)

\* A draw from 0..Total-1 falls on the target i of I.
FallsOn(weights, I, draw, i) ==
  LET before == Total(weights, {j \in I : j < i})
  IN  before <= draw /\ draw < before + weights[i]

\* mutant: a target that has been drawn stays among those to be drawn.
WithReplacement(weights) ==
  LET all == DOMAIN weights
  IN  {o \in [all -> all] :
         \A k \in all : \E d \in 0..(Total(weights, all) - 1) :
           FallsOn(weights, all, d, o[k])}

\* The orders the draws may produce, as sequences of indices.
WeightedOrders(weights) ==
  LET all == DOMAIN weights
      left(o, k) == all \ {o[j] : j \in 1..(k - 1)}
  IN  {o \in [all -> all] :
         \A k \in all :
           /\ o[k] \in left(o, k)
           /\ \E d \in 0..(Total(weights, left(o, k)) - 1) :
                FallsOn(weights, left(o, k), d, o[k])}

\* The alias that serves a model, by its exact spelling.
AliasOf(model) == IF model \in DOMAIN Aliases THEN model ELSE DefaultAlias

\* The lists Route may return for a model; none: it is not found.
Route(model) ==
  LET a == AliasOf(model)
  IN  IF a \notin DOMAIN Aliases THEN {}
      ELSE IF Aliases[a].weighted
      THEN {[k \in DOMAIN o |-> Aliases[a].targets[o[k]]] :
              o \in WeightedOrders(Aliases[a].weights)}
      ELSE {Aliases[a].targets}
=============================================================================
