------------------------------ MODULE MCServer ------------------------------
(* Instances of Server for TLC. *)
EXTENDS Server
CONSTANTS r1, r2, r3, c1, p1, p2

Distinct == [r \in Requests |-> r]

\* Two clients choose one id.
OneTwice == [r \in Requests |-> IF r = r2 THEN r1 ELSE r]

(* A small file that loads: one mock provider behind one alias, no stores.  *)
Provider(name, kind, key, on) ==
  [name |-> name, kind |-> kind, key |-> key, enabled |-> on, models |-> {"m"}]

TargetOf(name, weight) == [provider |-> name, model |-> "m", weight |-> weight]

Plain ==
  [providers |-> <<Provider("a", "mock", FALSE, TRUE)>>,
   aliases   |-> [x |-> [strategy |-> "priority", targets |-> <<TargetOf("a", 0)>>]],
   default   |-> "",
   attempts  |-> 3, rpm |-> 60, burst |-> 0, buffer |-> 0, batch |-> 0,
   limit     |-> FALSE, cache |-> FALSE, semantic |-> FALSE, meter |-> FALSE,
   breaker   |-> TRUE,
   redis     |-> FALSE, postgres |-> FALSE, qdrant |-> FALSE,
   embedURL  |-> FALSE, embedKey |-> FALSE, embedKind |-> "",
   threshold |-> 0, vector |-> 0]

Bit == {FALSE, TRUE}

(* Two providers, that may share a name, be disabled or be of an unknown    *)
(* kind, and an alias over either or both.                                  *)
RoutingFiles ==
  {[Plain EXCEPT
      !.providers = <<Provider("a", "mock", FALSE, on1),
                      Provider(name, kind, key, on2)>>,
      !.aliases = [x |-> [strategy |-> s,
                          targets |-> [i \in DOMAIN ts |-> TargetOf(ts[i], w)]]],
      !.default = d] :
     on1 \in Bit, on2 \in Bit, name \in {"", "a", "b"},
     kind \in {"mock", "openai", "bogus"}, key \in Bit,
     s \in {"", "weighted", "random"}, w \in {0, 1},
     ts \in {<<>>, <<"b">>, <<"a", "b">>}, d \in {"", "x", "y"}}

(* What is switched on, and which of its stores have a URL.                 *)
LayerFiles ==
  {[Plain EXCEPT !.limit = l, !.cache = ca, !.semantic = se, !.meter = m,
                 !.breaker = b, !.redis = r, !.postgres = p, !.qdrant = se,
                 !.embedURL = se, !.embedKey = ky, !.embedKind = ki,
                 !.threshold = t] :
     l \in Bit, ca \in Bit, se \in Bit, m \in Bit, b \in Bit, r \in Bit,
     p \in Bit, ky \in Bit, ki \in {"", "api", "other"}, t \in {0, 79}}

(* Numbers that are absent, negative, or as small as they can be.           *)
NumberFiles ==
  {[Plain EXCEPT !.redis = TRUE, !.limit = l, !.postgres = TRUE, !.meter = TRUE,
                 !.attempts = a, !.rpm = r, !.burst = b, !.buffer = u,
                 !.batch = n] :
     l \in Bit, a \in {-1, 0, 1}, r \in {-1, 0, 1}, b \in {-1, 0, 1},
     u \in {-1, 0, 1}, n \in {-1, 0, 1}}

AllFiles == RoutingFiles \cup LayerFiles \cup NumberFiles

Metered == {[Plain EXCEPT !.postgres = TRUE, !.meter = TRUE]}

(* The two endpoints share nothing but the process: an instance is asked    *)
(* for completions or for embeddings, not for both.                         *)
OneEndpoint == \/ \A r \in Requests : conn[r] = "absent"
               \/ \A c \in Clients : emb[c].pc = "new"

MCSpec == ServerInit /\ [][ServerNext /\ OneEndpoint']_serverVars /\ Fairness

Lists == {<<p1, p2>>, <<p2, p1>>}
=============================================================================
