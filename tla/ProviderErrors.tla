--------------------------- MODULE ProviderErrors ---------------------------
(***************************************************************************)
(* The error classification every provider adapter produces and the        *)
(* resilience layer acts on (internal/provider/provider.go), and how the   *)
(* failover loop folds one error per target into the error the client sees *)
(* (joinErrors, internal/resilience/executor.go).                          *)
(*                                                                         *)
(* A *provider.Error is represented by its Kind; an error that is not a    *)
(* *provider.Error (a context error, a failed write to the client) is a    *)
(* value outside Kinds.                                                    *)
(***************************************************************************)
EXTENDS Integers

Kinds == {"invalid_request", "auth", "rate_limit", "timeout", "unavailable",
          "content_filter", "context_length", "internal"}

(* What AsError does not recognise: ctx.Err() out of the backoff sleep, and  *)
(* the error of a chunk the client no longer takes.                         *)
PlainErrors == {"canceled", "aborted"}

Errors == Kinds \cup PlainErrors

\* Retrying the same provider could plausibly succeed.
Retryable(k) == k \in {"rate_limit", "timeout", "unavailable"}

\* A different provider could plausibly succeed; a plain error never stops
\* the loop by itself (AsError returns nil).
Failoverable(k) == k \notin {"invalid_request", "content_filter"}

\* The failure says something about the provider's health.
CountsAgainstProvider(k) ==
  k \in Kinds \ {"invalid_request", "content_filter", "context_length",
                 "internal"}

\* How informative a failure is to the client.
KindRank(k) ==
  CASE k = "rate_limit" -> 5
    [] k \in {"invalid_request", "context_length", "content_filter"} -> 4
    [] k = "auth"        -> 3
    [] k = "timeout"     -> 2
    [] k = "unavailable" -> 1
    [] OTHER             -> 0

\* mutant: the last target's error wins.
LatestError(best, k) == k

(* One step of the loop over the targets' errors: the earliest of the most  *)
(* informative ones is kept ("none" before the first).  Every element is a  *)
(* Kind: a plain error ends the failover loop before errors are joined.     *)
MoreInformative(best, k) ==
  IF best = "none" \/ KindRank(k) > KindRank(best) THEN k ELSE best
=============================================================================
