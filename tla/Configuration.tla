--------------------------- MODULE Configuration ---------------------------
(***************************************************************************)
(* From a configuration file to the layers the gateway runs: what Load     *)
(* makes of the file (internal/config) and what the constructors that      *)
(* build() calls make of that (cmd/gateway/main.go).                       *)
(*                                                                         *)
(* A configuration is a record of what the rest of the program depends on. *)
(* A field that is absent from the file has the zero value of its type: "",*)
(* 0, FALSE, or an empty sequence; a URL is whether it is set.             *)
(***************************************************************************)
EXTENDS Integers, Sequences

-----------------------------------------------------------------------------
(* Load. *)

OrDefault(v, zero, default) == IF v = zero THEN default ELSE v

ApplyDefaults(c) ==
  LET rpm == OrDefault(c.rpm, 0, 60)
  IN  [c EXCEPT
        !.attempts  = OrDefault(@, 0, 3),
        !.rpm       = rpm,
        !.burst     = OrDefault(@, 0, rpm),
        !.buffer    = OrDefault(@, 0, 4096),
        !.batch     = OrDefault(@, 0, 128),
        !.embedKind = OrDefault(@, "", "sidecar"),
        !.threshold = OrDefault(@, 0, 95),
        !.vector    = OrDefault(@, 0, 384),
        !.aliases   = [n \in DOMAIN c.aliases |->
          [c.aliases[n] EXCEPT !.strategy = OrDefault(@, "", "priority")]]]

\* mutant: disabled providers are checked like the others.
EnabledOrNot(c) == DOMAIN c.providers

\* The providers a target may name, by their position in the file.
Enabled(c) == {i \in DOMAIN c.providers : c.providers[i].enabled}

EnabledNames(c) == {c.providers[i].name : i \in Enabled(c)}

\* The enabled provider of that name: of two, the later one.
Named(c, name) ==
  LET same == {i \in Enabled(c) : c.providers[i].name = name}
  IN  c.providers[CHOOSE i \in same : \A j \in same : j <= i]

ProvidersValid(c) ==
  /\ Enabled(c) # {}
  /\ \A i \in DOMAIN c.providers :
       LET p == c.providers[i] IN
       /\ p.name # "" /\ p.kind # ""
       /\ \A j \in Enabled(c) : j < i => c.providers[j].name # p.name
       /\ p.enabled => p.kind = "mock" \/ p.key

TargetValid(c, a, t) ==
  /\ t.provider \in EnabledNames(c)
  /\ t.model # ""
  /\ LET models == Named(c, t.provider).models
     IN  models # {} => t.model \in models
  /\ a.strategy = "weighted" => t.weight > 0

AliasesValid(c) ==
  /\ DOMAIN c.aliases # {}
  /\ \A n \in DOMAIN c.aliases :
       LET a == c.aliases[n] IN
       /\ a.targets # <<>>
       /\ a.strategy \in {"priority", "weighted"}
       /\ \A i \in DOMAIN a.targets : TargetValid(c, a, a.targets[i])
  /\ c.default # "" => c.default \in DOMAIN c.aliases

\* mutant: the check of the limiter's store is forgotten.
StoresValidButLimiter(c) ==
  /\ c.cache => c.redis
  /\ c.meter => c.postgres

StoresValid(c) ==
  /\ c.cache \/ c.limit => c.redis
  /\ c.meter => c.postgres

SemanticValid(c) ==
  c.semantic =>
    /\ c.cache /\ c.qdrant /\ c.embedURL
    /\ c.embedKind \in {"sidecar", "api"}
    /\ c.embedKind = "api" => c.embedKey
    /\ 80 <= c.threshold /\ c.threshold <= 100  \* hundredths
    /\ c.vector > 0

NumbersValid(c) ==
  /\ c.attempts >= 1
  /\ c.limit => c.rpm > 0

Valid(c) ==
  /\ ProvidersValid(c) /\ AliasesValid(c)
  /\ StoresValid(c) /\ SemanticValid(c) /\ NumbersValid(c)

-----------------------------------------------------------------------------
(* build, with the stores in down unreachable. *)

AdapterKinds == {"openai", "groq", "gemini", "mock"}

\* The registry: an adapter for each provider that is enabled.
Registered(c) == {c.providers[i] : i \in {j \in DOMAIN c.providers :
                                            c.providers[j].enabled}}

ProvidersBuild(c) == \A p \in Registered(c) : p.kind \in AdapterKinds

RouterBuilds(c) ==
  \A n \in DOMAIN c.aliases :
    \A i \in DOMAIN c.aliases[n].targets :
      \E p \in Registered(c) : p.name = c.aliases[n].targets[i].provider

UsesRedis(c) == c.redis /\ (c.cache \/ c.limit \/ c.breaker)

EmbedderBuilds(c) ==
  \/ c.embedKind = "sidecar"
  \/ c.embedKind = "api" /\ c.vector # 0

Stores == {"redis", "qdrant", "postgres"}

BuildSteps == Stores \cup {"provider", "router", "cache", "embedder"}

\* The constructors that fail; build gives up at the first of them.
StartupFaults(c, down) ==
  LET semantic == c.cache /\ c.semantic IN
  {step \in BuildSteps :
     \/ step = "provider" /\ ~ProvidersBuild(c)
     \/ step = "router"   /\ ~RouterBuilds(c)
     \/ step = "redis"    /\ UsesRedis(c) /\ "redis" \in down
     \/ step = "cache"    /\ c.cache /\ ~UsesRedis(c)
     \/ step = "embedder" /\ semantic /\ ~EmbedderBuilds(c)
     \/ step = "qdrant"   /\ semantic /\ "qdrant" \in down
     \/ step = "postgres" /\ c.postgres /\ "postgres" \in down}

\* mutant: sizes are taken from the file as they are.
AsGiven(v, default) == v

\* The constructors of the meter and of the limiter replace what is not
\* positive.
Positive(v, default) == IF v > 0 THEN v ELSE default

(* The layers.  Without PostgreSQL every request is admitted, as the tenant *)
(* "local".                                                                 *)
Layers(c) ==
  [routes   |-> [n \in DOMAIN c.aliases |->
                   LET a == c.aliases[n] IN
                   [weighted |-> a.strategy = "weighted",
                    targets  |-> a.targets,
                    weights  |-> [i \in DOMAIN a.targets |->
                                    a.targets[i].weight]]],
   attempts |-> c.attempts,
   breaker  |-> CASE c.breaker /\ UsesRedis(c) -> "redis"
                  [] c.breaker /\ ~UsesRedis(c) -> "local"
                  [] OTHER                      -> "off",
   cache    |-> c.cache,
   semantic |-> c.cache /\ c.semantic,
   auth     |-> IF c.postgres THEN "keys" ELSE "allow_all",
   meter    |-> c.postgres /\ c.meter,
   buffer   |-> Positive(c.buffer, 4096),
   batch    |-> Positive(c.batch, 128),
   limiter  |-> CASE c.limit /\ UsesRedis(c)  -> "redis"
                  [] c.limit /\ ~UsesRedis(c) -> "local"
                  [] OTHER                    -> "off",
   rpm      |-> c.rpm,
   burst    |-> Positive(c.burst, c.rpm)]

-----------------------------------------------------------------------------
(* The layers l, built from c, are what the rest of the program takes them  *)
(* for: what the other modules assume of their constants holds, everything  *)
(* that is switched on is there, and the limit is the fleet's.              *)
Sound(c, l) ==
  /\ \A n \in DOMAIN l.routes :
       /\ l.routes[n].targets # <<>>
       /\ l.routes[n].weighted =>
            \A i \in DOMAIN l.routes[n].weights : l.routes[n].weights[i] > 0
  /\ l.attempts >= 1 /\ l.buffer > 0 /\ l.batch > 0
  /\ c.limit => l.limiter = "redis" /\ l.rpm > 0 /\ l.burst > 0
  /\ c.meter => l.meter /\ l.auth = "keys"
  /\ c.semantic => l.semantic
=============================================================================
