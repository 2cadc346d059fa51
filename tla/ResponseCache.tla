---------------------------- MODULE ResponseCache ----------------------------
(***************************************************************************)
(* The rules of the response cache (internal/cache): what may be cached,   *)
(* the key of the exact tier, the identity of a point of the semantic      *)
(* tier, what its search returns and when a match may be served.           *)
(*                                                                         *)
(* A question is what a client asks, its prompt without the whitespace     *)
(* that normalisation removes.  The name of the model is normalised in the *)
(* exact tier's key and in the guard, but is what a point is found by.     *)
(***************************************************************************)
EXTENDS Integers

CONSTANTS
  Questions,       \* the questions clients ask
  Normal,          \* model -> its name in lower case
  Score,           \* prompt -> prompt -> similarity of their embeddings
  Threshold,       \* the similarity a semantic hit needs
  MaxTemperature,  \* above it nothing is cached
  MaxTempDelta     \* temperatures this close stand in for each other

ASSUME LimitsAssumption == MaxTemperature \in Nat /\ MaxTempDelta \in Nat

(* stream and noCache are how the client wants its answer; the rest is what *)
(* it asks, "sampling" being top_p and the stop sequences.                  *)
ASSUME QuestionsAssumption ==
  \A a \in Questions :
    /\ DOMAIN a = {"tenant", "model", "prompt", "temp", "maxTok", "sampling",
                   "stream", "noCache"}
    /\ a.temp \in Nat /\ a.maxTok \in Nat  \* 0: no limit
    /\ a.stream \in BOOLEAN /\ a.noCache \in BOOLEAN

\* mutant: the client's opt-out is not looked at.
CacheableIfCool(a) == a.temp <= MaxTemperature

Cacheable(a) == ~a.noCache /\ a.temp <= MaxTemperature

\* mutant: max_tokens is not part of the digest.
KeyWithoutLimit(a) ==
  [tenant |-> a.tenant, model |-> Normal[a.model], prompt |-> a.prompt,
   temp |-> a.temp, maxTok |-> 0, sampling |-> a.sampling]

\* The exact tier's key: a digest, here without collisions.
ExactKey(a) ==
  [tenant |-> a.tenant, model |-> Normal[a.model], prompt |-> a.prompt,
   temp |-> a.temp, maxTok |-> a.maxTok, sampling |-> a.sampling]

\* The point of the semantic tier that a stored completion occupies.
PointID(a) == [tenant |-> a.tenant, model |-> a.model, prompt |-> a.prompt]

\* The points a search may return: of the tenant and the model, the nearest,
\* and near enough.
Nearest(a, ids) ==
  LET mine == {p \in ids : p.tenant = a.tenant /\ p.model = a.model}
  IN  {p \in mine :
         /\ Score[a.prompt][p.prompt] >= Threshold
         /\ \A o \in mine :
              Score[a.prompt][o.prompt] <= Score[a.prompt][p.prompt]}

\* mutant: the length of a cached completion is not looked at.
CompatibleAtAnyLength(a, e) ==
  /\ Normal[e.ask.model] = Normal[a.model]
  /\ e.ask.temp - a.temp <= MaxTempDelta
  /\ a.temp - e.ask.temp <= MaxTempDelta
  /\ ~e.stale

\* The guard on a semantic match: the same model, a near temperature, within
\* this request's limit, and not too old.
Compatible(a, e) ==
  /\ Normal[e.ask.model] = Normal[a.model]
  /\ e.ask.temp - a.temp <= MaxTempDelta
  /\ a.temp - e.ask.temp <= MaxTempDelta
  /\ a.maxTok > 0 => e.tokens <= a.maxTok
  /\ ~e.stale
=============================================================================
