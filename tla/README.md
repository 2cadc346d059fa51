# gatewayllm: a TLA+ verification development

gatewayllm is an LLM gateway in Go. An HTTP request for a chat completion is
authenticated, rate limited, looked up in a two-tier cache, routed to an
ordered list of providers, driven through them with retries, failover and
circuit breakers, streamed or sent back, stored in the cache and metered into a
usage ledger. These modules model the parts of it whose behaviour depends on
the order in which concurrent requests, timers, replicas and failures act.

Source locations below are relative to `src/`.

## Inventory

| Component | State | Operations | Interacts with | Hard behaviour | Correct when |
|---|---|---|---|---|---|
| Resilience executor `internal/resilience/executor.go` | per request: target, attempt, errors so far, chunk sent | `Chat`, `ChatStream`, `do`, `attemptWithRetries`, `sleepBackoff`, `joinErrors` | breaker, providers, handlers (chunk callback), client's context | retries racing with cancellation, failover after partial output, stale breaker answers | budgets hold, output is never spliced, the best error is reported, every unary request ends |
| Circuit breaker `breaker.go`, `redis_breaker.go` | per provider: state, failures, successes, opening time | `Allow`, `Record`, and the stores' `Snapshot`, `RecordSuccess`, `RecordFailure` | executor of every request, Redis | outcomes recorded out of order, an unreachable store, replicas | counters agree with the state, an open circuit is left alone, a recovered provider gets its traffic back |
| Error classification `internal/provider/provider.go` | none | `Retryable`, `Failoverable`, `HTTPStatus`, `ClassifyStatus`, `ParseRetryAfter` | adapters, executor, handlers | a client's fault blamed on a provider | each failure is retried, failed over and counted as its cause deserves |
| Provider adapters `openai.go`, `gemini.go`, `groq.go`, `mock.go` | none between calls | `Chat`, `ChatStream`, `Embed` | providers, executor | truncated streams, disconnection while a body is read | the outcome says what happened upstream |
| Usage meter `internal/meter` | buffered channel, open batch, counters, closing flag | `Record`, the writer, `WriteBatch`, `Close` | handlers, PostgreSQL, shutdown | overflow, failing writes, records during and after `Close` | never blocks, never panics, loses nothing uncounted |
| Rate limiters `ratelimit.go`, `redis_limiter.go` | per key: tokens, time of the last refill | `Allow` | middleware, Redis, replicas' clocks | clocks in any order, expiry of idle buckets | a tenant's limit is the limit, the advised wait suffices |
| Authentication `auth.go`, `pg_auth.go` | cache of digests to tenants | `Authenticate`, `Invalidate` | middleware, key table, `glmctl` | answers inserted after they became stale | staleness is bounded both ways, an outage is not a rejection |
| Response cache `internal/cache` | exact entries in Redis, points in Qdrant | `Cacheable`, `Lookup`, `Store`, the compatibility guard | handlers, embedder, stores | detached stores, corrupt entries, parameters not in the key | a hit is an answer to the question asked, by the tenant who asked |
| Router `internal/router` | aliases, a random generator | `Route` | handlers, executor | weights that run out | every target of the alias exactly once |
| Handlers `chat.go`, `middleware.go`, `errors.go` | per request | the stages of a completion | all of the above | status sent before the outcome is known, booking what was served | what is sent, stored and booked agree |
| Server and shutdown `server.go`, `cmd/gateway/main.go` | phase of the main goroutine, root context, connections, pool | `run`, `build`, `ListenAndServe`, `Shutdown`, the deferred closes | all | cancellation of the base context, a drain that times out, a listener that fails, work that outlives its stores, waits at teardown | a drained gateway has booked what it began, no row is left when the pool closes, a signal ends the process |
| Configuration `internal/config`, `build` | none after start-up | defaults, `Validate`, the constructors | every layer's parameters | two places decide on the same file | what validation accepts can be built, and is what the layers assume |
| Embeddings endpoint `server.go` | per request: target, last error | `handleEmbeddings` | router, providers | a failover loop of its own, without breaker and without a look at the client's context | it fails over like a chat alias |
| Stores, embedders, metrics, tracing, tools | connections, counters | calls of external services | all | an outage at start-up or later | |


`PROJECT.json` lists every component with its status, and under `hazards` each
place where the behaviour is hard to test.

## Modules

| Module | Models | Main correspondence |
|---|---|---|
| `ProviderErrors` | error kinds, what is retried, failed over and counted, `joinErrors` | a `*provider.Error` is its kind; other errors are values outside `Kinds` |
| `BreakerStore` | one breaker entry and the transitions of both stores | `Local*` are the mutex-protected methods, `Script*` the Lua script |
| `Executor` | concurrent requests over shared circuits | see below |
| `Failover` | what the executor promises a request, without circuits, clock or error kinds | abstract specification, implemented by `Executor` |
| `Meter` | handlers, writer goroutine and `Close` | one action per access to the flag, the channel, the counters and the sink |
| `UsageLedger` | what becomes of each usage row | abstract specification, implemented by `Meter` |
| `TokenBucket` | the arithmetic of a bucket | tokens in parts, so that a second's refill is whole |
| `RateLimiter` | overlapping checks of one key, with either limiter | `ReadClock` and `Allow` are separate when the state is in Redis |
| `AuthCache` | lookups of one key around its issue and revocation | cache lookup, query and insertion are three steps |
| `Router` | from an alias to the lists of targets `Route` may return | `weightedOrder` as the set of orders in which each position can be drawn |
| `Adapter` | what one call of an adapter may report | a reply is its status and the cause its body names |
| `ResponseCache` | what may be cached, keys and points, the search, the guard on a match | pure rules; a question is what a client asks |
| `ChatHandler` | completions from arrival to usage row and detached store | see below |
| `Configuration` | defaults, validation, and the layers `build` makes of a file | pure operators; a configuration is a record of what the program depends on |
| `Embeddings` | the failover loop of the embeddings endpoint | shown to implement `Failover` with one attempt per target |
| `Server` | the process from its configuration to its exit | composes `Configuration`, `Meter` and `Embeddings`; see below |
| `MCExecutor`, `MCServer`, `MCRateLimiter`, `MCAuthCache`, `MCChatHandler` | instances for TLC | |
| `ExecutorProofs`, `ExecutorRefinement`, `MeterProofs`, `LedgerProofs`, `ServerProofs`, `RateLimiterProofs`, `AuthCacheProofs`, `ChatHandlerProofs` | theorems | |

### Executor

A request is a goroutine of the HTTP server, a record with a program counter.
`Submit` is the handler's call of `Chat` or `ChatStream` with a list from
`Route`. `Admit`, `AdmitBlind` and `Refuse` are `Breaker.Allow`: the circuit is
not open, the store cannot be reached (the code allows the call), or it is
open. The first call begins with a step of its own, `Begin`: between the breaker's
answer (`executor.go:117`) and the call (`executor.go:165`) another request's
outcome may open the circuit. `CallSucceeds` and `CallFails` are the provider's
answer with the recording of its outcome. `CallCut` is a call whose client
disconnects while the answer, or a line of the stream, is decoded: the adapter
calls that the provider's unavailability (`openai.go:162-163`, `gemini.go:231-232`;
of a stream, a last line that is incomplete, `openai.go:210-212`), and the executor
records it. `Stop`, `Backoff` and `FailOver` are what the retry loop and `do` make of
a failure; `Wake` and `WakeCanceled` the two branches of `sleepBackoff`'s select.
`Disconnect` cancels the client's context at any moment. The check of `ctx.Err()`
after a failure and the action it leads to are one step: a cancellation between
them is indistinguishable from one just after. A breaker event is one step because
the code makes it one, with a mutex or a script; when the store is Redis and the
client's context is cancelled, or the instance says the store fails, the event may
be lost.

With Redis, `now` is Redis's clock. A script runs with the clock of the replica
that sent it, which is up to `ClockSkew` away from it (`Clocks`; a script that is
delayed on its way is one of an older clock), and it sets the expiry of its
circuit's key anew. `touched` is when a script last did; `KeyTTL` later the next one
finds no key (`Expired`), and a closed circuit (`Stored`).

`streak`, `overshoot`, `errs` and `late` are history variables. `streak` keeps the
provider's faults (`UpstreamFault`, what an adapter makes of a status or of no answer)
apart from the calls that clients cut off. They saturate, or are bounded by the
length of the target list, and no guard of the code's control reads them.

### Meter

`Check`, `Send` and `Count` are the three accesses of `Record` to shared state
(`closing.Load`, the select, the counter). The writer is `Receive`, `Flush` (the
ticker), `Drain` (the closed channel) and the two outcomes of `writeBatch`; an
error leaves open whether the statement was committed. `Close` is
`BeginClose`, `CloseChannel` and `FinishClose`. Handlers may still run while it
does; whether they do is for `Server` to say, which calls it. `RequestID` maps
requests to ids, which a client may choose with `X-Request-Id`.

### Server

The main goroutine passes through the phases of `run`: `LoadConfig`, `Build`,
`Listen`, then either `ListenerFails` or `Signal` and `BeginDrain`, then `Drained`
or `DrainTimesOut`, then the deferred calls: `CloseMeter` (the three steps of
`Meter`), `ClosePool`, `Release`. Layers that were opened before a constructor
failed stay open until the process exits, as in the code. A second signal
changes nothing.

A request is its handler's life: `LookUp` holds a connection of the pool while
the key is looked up, `Answer` is the end of serving, `Cut` an end because the
root context was cancelled, `RecordRow` the steps of `Meter`'s `Record`.
What happens while it is served is `ChatHandler`'s. Connections that outlive a
timeout, or that were open when the listener failed, bring requests while the
layers are torn down.

The meter is not instantiated but extended: `Server` adds the conditions under
which its steps are taken (there is a meter, the process runs, `Close` is called
by the main goroutine). `ServerRunsMeter` proves that nothing else was added.

### Configuration

A field that is absent has the zero value of its type, as in Go: `ApplyDefaults`
cannot tell it from an explicit zero. `Valid` has the rules of `Validate` that
concern what any constructor reads; `StartupFaults` is the set of constructors
that fail, of which `build` meets the first; `Layers` is what it builds.

### Embeddings

One action per step of the loop in `handleEmbeddings`. Adapters without an
embeddings call answer `unsupported`, which is no `*provider.Error` and yet
leads to the next target. The loop does not check the client's context: a call
made with a cancelled one fails, in either way the adapters report it.

### RateLimiter

With a limit of `rpm` requests a minute, a request costs 60 parts and a second
brings `rpm`; the instances use smaller numbers that do not divide each other.
`Delay` is how long a script call may take to reach Redis after the gateway read
its clock, `Skew` how far a replica's clock is ahead. Floats are exact numbers
here.

### AuthCache

The answer of the key table is taken at one instant (`Query`) and inserted later
(`Insert`); `Delay` bounds the time in between. `Invalidate` has no caller in
the repository; it is modelled as the operator's call after a revocation, which
is what its comment is about.

### ChatHandler

A request is one goroutine, with the detached store it may leave behind. It
passes through the cache (`Arrive` to `SearchMisses`), the router (`NotFound`,
`Submit`), the providers, and ends with the answer and the usage row (`Answered`,
`GiveUp`). The module composes the others:

- The executor is `Exec`, an instance of `Failover`: the handler is modelled over
  what the executor promises, and `ExecutorImplementsFailover` says that it does.
  What a call fails with comes from `Adapter` (`Faults`), whether that is final
  from `Failoverable`; the error returned is any of those met, of which the
  executor's own modules say which one it is.
- `Router` gives the lists, `ResponseCache` the rules of both tiers. The tiers are
  functions from keys and points to entries; an entry carries the question it
  answered, which is what the properties compare and the code does not store.
- An unreachable Redis, Qdrant or embedder is a miss, and a write that has no
  effect; both are possible at any time. A corrupt entry is evicted in two
  steps, after the read and with whatever is stored by then.
- The row is what `Record` is called with; what becomes of it is `Meter`'s.

Of a provider it is assumed that it keeps to `max_tokens` and reports the usage of
what it finished. `Normal` is the lower case of a model's name, which the exact
key and the guard use, and the router does not. A digest does not collide.

## Runs

One run per question and deployment. Seven pass:

| Run | Shows | Instance |
|---|---|---|
| `shared` | `CircuitsConsistent` for the Redis script when any event may be lost, and `CooledCircuitNeedsProbes`: a late success does not skip the probes of a circuit that has cooled down by every clock and not expired | Redis store that may be unreachable, clocks 1 apart from Redis's, keys that live 3, 1 provider, 2 requests with one attempt, threshold 2, 2 probes |
| `failover` | `WithinBudget`, `DisconnectCostsOneCall`, `BestErrorReported`, and that the executor implements `Failover`; `OvershootBounded`: an open circuit is overrun by fewer calls than 2 requests with 2 attempts each make, first attempts that the breaker let pass before it opened and retries; `RequestsAdvance`: every step of a request lowers a bound on those it has left | in-memory store; 2 requests, 2 providers, 2 attempts, threshold 1, a rate limit and a final error, next to the outage reported for an open circuit |
| `progress` | `CircuitsConsistent`, `ClosedCountsFaults`: in every interleaving the breaker's counters fit its state, and a closed circuit counts exactly the faults since the last success and the calls cut off by their clients; `EveryRequestEnds`, and `Recovers` under continuing traffic | in-memory store; 2 requests, unary and streaming, that try one provider twice, threshold 2, 2 probes, cooldown 1; failures arrive at times 0 and 1, the clock stops at 2 |
| `server_flow` | `BuildAgrees`, `LayersAsAssumed`: validation and constructors agree, and build what the other modules assume; `DrainedIsBooked`, `PoolOutlivesRows`, `ProcessEnds`: the shutdown, whatever ends the server; `RowsAccounted`, `LossesCounted`, `WrittenArePersisted`, `RecordNeverWaits`, `RowsSettled`, `LedgerContract`: what becomes of the usage rows in it; `DrainAdvances`: what Close waits for is bounded; `EmbeddingsFailOver` | 3 completions, two of them with one id, and an embeddings request, buffer 1, batches of 2, failing sink; every configuration file of `MCServer` |
| `limiter_shared` | `GrantsBounded`, `PromiseKept` for the script, with expiry and checks that fail open | rate 2, cost 3, burst 3, one clock, prompt calls |
| `auth_staleness` | `RevokedKeyExpires`, `IssuedKeyWorks` | 3 lookups, TTL 3, answers up to 2 late |
| `chat_flow` | `HitsAnswerTheQuestion`, `OnlyFinishedCached`, `OptOutHonored`, `BookedAsAnswered`, `GivesUpOnlyAfterAll`: however the lookups, stores and evictions of two completions interleave with expiry, damage, failover and departure, a hit answers the question, only finished completions that may be cached are, rows say what clients saw, and a failure has tried every target | 2 requests, 9 questions that differ in tenant, alias, prompt, temperature, limit, mode and opt-out; a priority alias and a weighted one |

Five show where the code does something else than a sentence of the repository
says. Each is explained under `findings` in `PROJECT.json`:

| Run | Sentence | What happens |
|---|---|---|
| `meter_late` | "a late record does not panic" (`meter_test.go:114-115`) | the check of the flag and the send are two steps |
| `server_drain` | "drains in-flight requests within the configured shutdown timeout" (`server.go:105-106`) | the requests' base context is the signal's (`server.go:116`): they are cancelled at once |
| `limiter_stale_clock` | "a tenant's limit is the limit" (`redis_limiter.go:12-14`) | an older clock written back refills an interval twice |
| `chat_truncated` | "the client must not be told a truncated answer is complete" (`openai_test.go:260-261`) | a Gemini stream that breaks off is a success, and is cached |
| `chat_spelling` | "handing back another model's answer silently breaks that choice" (`cache.go:227-228`) | a name in another case is routed to the default alias, and shares the key of the alias it resembles |

Further sentences that the models show to be loose, or wrong, without a run of their
own:

- "A client disconnect or a malformed request says nothing about provider health, and
  counting it would let bad callers trip the breaker for everyone"
  (`executor.go:180-182`): a client that disconnects while its answer is decoded is
  counted (`CallCut`), since the adapter reports `KindUnavailable` without a look at
  the context (`openai.go:162-163`; a cancelled call that fails before is
  `KindInternal`, `openai.go:295-307`, and is not counted). With the in-memory store
  as many such clients in a row as the threshold open the circuit; with Redis the cancelled
  context usually loses the event. `ClosedCountsFaults` holds because it allows for
  these calls by name, `cuts`; it would not without them.
- "admits a limited number of probes" (`breaker.go:19`): a half-open circuit admits
  every request, and `probesInFlgt` (`breaker.go:62`) is never used.
- "consecutive half-open successes that close the circuit" (`breaker.go:42-43`): a
  success that comes late closes an open circuit as well. Both are choices one may
  defend (the breaker stays a hint); `OvershootBounded`, `CircuitsConsistent` and
  `Recovers` say what it does guarantee.
- "StateOpen rejects calls immediately" (`breaker.go:17`): the breaker is asked once
  per target (`executor.go:117`), so that a request that was let pass makes its first
  call although the circuit has opened since, and every retry without asking again;
  `OvershootBounded` counts what gets through.
- "Written is records successfully persisted" (`meter.go:49`): the INSERT ignores a
  row whose `request_id` exists, and counts it. Clients choose ids, so that
  `WrittenArePersisted` says what holds for any: the table has the id of every row
  that is counted, if not that row. With distinct ids it has the rows
  (`DistinctRowsAreBooked`).
- "the meter's at-least-once retries" (`0001_init.sql:76-77`): `writeBatch` does
  not retry; `WriteFails` has no counterpart that writes the batch again.
- A revocation "takes effect within the auth cache TTL" (`glmctl/main.go:181`): the TTL
  runs from the insertion of an answer that may be older; the bound that holds,
  `RevokedKeyExpires`, has the delay in it.
- "Invalidate drops a cached entry" (`auth.go:129-130`): an answer in flight is
  inserted after it.

- `insufficient_quota` becomes `KindUnavailable` so that another provider is tried
  (`openai.go:274-277`), which also makes it one that is retried on the same.
- A stream that fails before its first chunk has already sent status 200, while
  its row carries the error's code (`chat.go:264-275`); `BookedAsAnswered` is
  therefore stated of the codes of unary requests and of what streams showed. A
  stream that fails after some chunks is booked at no cost.
- A semantic match is served to any `top_p` and stop sequences (`BypassStopSequences`,
  `cache.go:138`, is never used), and may have been cut off at a smaller limit than
  the client's; every replay ends with the finish reason `stop` (`chat.go:136,174`).
  `HitsAnswerTheQuestion` claims neither. The guard on the length trusts the
  reported usage: a completion without one passes as empty.
- "Validate enforces the invariants the rest of the process assumes"
  (`config.go:307-308`): negative thresholds, probe counts and durations pass it. A
  negative `failure_threshold` or `half_open_probes` acts as 1, a negative
  `open_duration` as 0, and a negative `shutdown_timeout` expires at once. The
  modules' assumptions hold for what they act as.
- A zero in the file is an absent field: `max_temperature: 0` becomes 0.3,
  `sample_ratio: 0` becomes 1. `rate_limit.enabled` requires `redis_url`, so that
  the binary never builds the in-memory limiter it has.
- "a gateway that cannot reach its providers should leave the load balancer pool"
  (`server.go:145-146`): `handleReady` looks at the cache alone, and answers 200 at
  any time.
- Of an embeddings alias whose first target is down and whose second has no
  embeddings, the client hears 400 "no configured provider for this model supports
  embeddings": the loop looks at the last error only (`server.go:225-229`). That
  is within `EmbeddingsFailOver`, which does not say which error is reported.
- When a late `Record` panics (`meter_late`), the answer has been sent:
  `withRecovery` appends an error body to it.
- After a listener failed, nothing cancels a lookup in progress, and the closing of
  the pool waits for it. `ProcessEnds` is therefore stated of signals.
- Detached cache stores (`chat.go:280`) run under a context of their own for up to
  ten seconds; no shutdown waits for them, and what they store is lost.
- The eviction of a corrupt entry may delete a good one written since it was read
  (`exact.go:41`); that costs a miss.

### Bounds, and why they are enough

- `MaxTime` stops the clock, `LastFault` the failures blamed on a provider. In
  `shared` a circuit can open, by a clock that is ahead or behind, cool down by
  one clock and not by another, be reopened by a probe or a late failure, and
  cool down again or expire before time runs out: a key that lives 3 expires while
  its circuit is open. In `progress` the cooldown is 1 and failures arrive at times 0
  and 1: calls that began before the circuit opened fail after its cooldown, while it
  is open or half open, and reopen it; it cools down again at time 2, when no failure
  is blamed on the provider any more, and requests keep coming for ever.
- `MaxFailures` is a guard on further such failures once a circuit's failure
  counter has reached it, one past the threshold: 3 in `shared` and `progress`, 2 in
  `failover`. A failure beyond the one that opened the circuit can come late.
- `streak` saturates at the threshold, the largest value its property compares.
  `overshoot` is counted up to `MaxOvershoot`: in `failover` that is 4, one past
  the 3 that are reached; in runs that do not look at it, 0.
- Two requests are the fewest that interleave at all. In `failover` and `progress`
  each has two attempts, so a third party's events fall before, between and after
  a request's own calls; in `shared` one attempt is enough, since the script's
  events do not depend on which attempt they come from. `failover` has a list of two
  providers, `progress` one provider: that a request gets through a longer list in
  boundedly many steps is `RequestsAdvance`, which `failover` checks and
  `RequestStepsBounded` proves.
  What depends on the number of requests, targets or attempts, or on a provider that
  is listed twice, is proved for any number and any list.
- In `server_flow` three requests against a buffer of one and batches of two fill
  both and overflow the buffer, and one of them can be late. Two of them have one id:
  their rows meet in one batch, or one finds the other in the table. Any of them may be in
  any step of its handler when the signal comes, the drain times out or the
  listener fails. The two endpoints share nothing but the process: `MCSpec`
  has completions or the embeddings request, not both. Its two targets, of which one
  has no embeddings, come in either order.
- The files of `MCServer` are three families around a small one that loads:
  `RoutingFiles` (names, kinds, keys, disabled providers, weights, the default
  alias), `LayerFiles` (everything that is switched on, with and without its
  stores), `NumberFiles` (negative, absent and smallest numbers). That validation
  and constructors agree on every file is proved.
- `limiter_shared` has one clock and calls that reach Redis at once: it is about the
  refill, the rounding and the expiry. Clocks that are written back out of order are
  in `limiter_stale_clock` alone, which finds `GrantsBounded` violated by them.
- In the limiter's runs the refill does not divide the cost of a request, so
  waits are rounded and levels are not whole requests. `TTL` satisfies the
  module's assumption exactly as the code's does: a bucket is only dropped when
  it has refilled.
- In `auth_staleness` three lookups can be in flight over a revocation, so an
  older answer can overwrite a newer one.

- In `chat_flow` two requests are a writer and a reader of the same entry, and
  two writers for a third. The questions hold, for each parameter of the key or of
  the guard, a pair that differs in it and is otherwise close enough to be
  confused; lengths 0 to 2 lie below, at and above the limit of 1. One attempt
  per target is enough, since a retry changes nothing that the handler sees.
  Streams are of the alias without a Gemini target: `chat_truncated` shows why.

Symmetry is used in runs of safety properties only.

The in-memory limiter has no run of its own: its properties are proved for every
instance of it, as they are for the script's, see below.

### Fairness

`FairSpec` of `Executor`: goroutines that can proceed do (the Go scheduler),
backoff timers fire, and an unary call returns, because the adapters bound it by
a timeout (`openai.go:67-76`). A call whose context is cancelled returns too, a
stream's included. Nothing else is assumed of streams, which have no deadline
(`openai.go:171`), so that `EveryRequestEnds` excepts a stream while its client
listens; nor of clients, or of new requests. `Traffic`, the hypothesis of `Recovers`,
adds that time passes, that requests keep coming, and that a call that can succeed
infinitely often does: without traffic no circuit ever closes, since the cooldown
is only evaluated on access.

`Fairness` of `Server`: the main goroutine runs, and what it waits for ends:
the constructors with the root context, `Shutdown` at its timeout
(`server.go:136`), `Close` with a `WriteBatch` that has ten seconds
(`meter.go:170`). The writer runs and its ticker fires. A lookup ends when its
context is cancelled, and not before. Nothing is assumed of handlers, of
providers, of the database, or that a signal comes: `ProcessEnds` holds with
handlers that hang. `Meter`'s `RecordNeverWaits` is a state invariant and needs
no fairness at all.

`ChatHandler` states safety only: that a completion ends is the executor's
`EveryRequestEnds`, and its remaining steps wait for nothing but calls with
deadlines.

## Theorems

Checked by TLAPS, for every value of the constants that satisfies the named
assumptions of the modules: finitely many requests, non-empty target lists,
positive thresholds and sizes, adapters of the families there are. For attempts,
sizes, weights and target lists `ValidLayersAreSound` proves that what `Validate`
accepts provides them; a threshold or a probe count below 1 acts as 1.

Some theorems hold of some deployments only, and assume it by name. For each,
something in the project shows what happens elsewhere:

| Assumption | Of | Without it |
|---|---|---|
| `DistinctIDs`: request ids differ | `DistinctRowsAreBooked` | an INSERT is ignored and counted; `WrittenRowsArePersisted` and `EveryLossIsCounted` say what is left |
| an in-memory store that answers | `ClosedCounts`, `OvershootIsBounded` | the script's events may be lost |
| `Shared`: the Redis store | `CooledNeedsProbes`, `ExpiryForgetsOnlyCooled` | in memory a late success closes an open circuit, and no entry expires |
| `KeyTTL >= OpenDuration + ClockSkew`, since a key lives ten cooldowns and ten minutes at least (`redis_breaker.go:80`) | `ExpiryForgetsOnlyCooled` | TLC finds an open circuit that is forgotten before its cooldown is over |
| `OneClock`: checks see the present time, always so in memory | `LimitIsTheLimit`, `RetryAfterSuffices` | the run `limiter_stale_clock` |
| `NamesAgree`: spellings of a name are routed alike; `NearItself`: a prompt is near itself | `HitsAnswer` | the run `chat_spelling` |
| `StreamsTerminated`: the streams that clients ask for are of adapters that report a stream cut short | `CacheHoldsFinished`, `RowsSayWhatHappened` | the run `chat_truncated` |

- `ExecutorProofs`: `TypeCorrect`, `BudgetKept`, `DisconnectBounded`,
  `BestErrorJoined`, `CircuitsAlwaysConsistent`, `ClosedCounts`, `OvershootIsBounded`,
  `ExpiryForgetsOnlyCooled`, and the action properties `CooledNeedsProbes` and
  `RequestStepsBounded`. The invariants are
  not inductive by themselves. The budget needs that every error of a passed
  target is in `errs`; the bound for a client that left needs that no call has
  begun after its departure unless the request is at that call or has failed it;
  the joined error needs that `best` is the earliest best of `errs` after every
  target, by a lemma about one step of the fold. `EntryConsistent` is preserved
  by each store transition, a lemma about `BreakerStore` alone. `ClosedCounts`
  assumes an in-memory store that answers: with Redis, lost events break it.
  It counts the calls cut off by clients with the faults, as the code does and
  `executor.go:180-182` denies.
  `OvershootIsBounded` makes the same assumption. It counts pairs of a request and a
  call that it may still make at a provider, from the breaker's answer on
  (`CallsAt`): while the circuit is open, what got through it and the pairs left stay
  below the number of all pairs, since each call uses one up, a request gets its
  pairs only while the circuit is not open, and the request whose failure opened it
  has made its first call. `CooledNeedsProbes`
  is a case per transition of the script: each looks at the cooldown first, so that
  a success finds an entry with no successes, and one is fewer than the probes. It
  holds for any skew and any lifetime of keys. `ExpiryForgetsOnlyCooled` needs that
  no clock is further ahead of the key than clocks may be (`KeysFollow`): a circuit
  was opened by the clock of a script that refreshed its key.
  `RequestStepsBounded` says that the two loops end: `StepsLeft` counts three steps
  for every attempt and two to get to the first of each target, at the current
  target and those after it, and each step of the goroutine lowers it.
- `ExecutorRefinement`: `ExecutorImplementsFailover`. Each action of the executor
  maps to one action of `Failover`, or leaves the job unchanged (`Admit`,
  `AdmitBlind`, `Backoff` and `Tick`), under the invariants of `ExecutorProofs`.
- `MeterProofs`: `MeterTypeCorrect`, `MeterRowsAccounted`, `DrainIsBounded`. The type
  invariant, with the batch never above its size, needs that the writer only
  receives into a batch with room. `DrainIsBounded` is a bound on the writer's work
  (`WorkLeft`): once the channel is closed each of its steps lowers it, whether
  writes fail or not, and no handler can raise it.
- `LedgerProofs`: `MeterImplementsLedger`, the refinement of `UsageLedger`, from two
  invariants: the meter closes in order, and the writer that has gone left nothing
  (`ClosedInOrder`); and a row that was sent is in one place, the channel, the batch
  or the ledger (`EachRowOnce`). `LedgerHasOneRowPerID`, `WrittenRowsArePersisted` and
  `EveryLossIsCounted` hold for any ids that clients choose. An INSERT of a batch
  leaves the ids of all its rows in the table, and one row of each: of the rows
  of a batch with one id the first is inserted, unless the table has the id. That
  there is a first is `LeastIndex`, from the library's facts on well-founded
  relations. So the counters bound the rows whose ids are in the table and
  those whose ids are missing from it (`BooksKept`). Where ids differ,
  `DistinctRowsAreBooked` says the same of the rows themselves.
- `ServerProofs`: `ServerRunsMeter` (the process takes no step of the meter that
  `Meter` does not have), and with it `MeterTypedInProcess`,
  `RowsAccountedInProcess`, `LedgerKeptInProcess`, `WrittenArePersistedInProcess`,
  `LossesCountedInProcess` and `DrainIsBoundedInProcess`;
  `DrainBooksEveryRequest` and `PoolOutlivesMeter`. Their inductive invariant has three
  parts: `ClosedInOrder` of `LedgerProofs`; the main goroutine is past a
  phase only when what that phase waits for is over (`Unwinds`); and a gateway that
  drained has no handler left (`Settled`). `ValidConfigurationBuilds` and
  `ValidLayersAreSound` hold for files with any number of providers, aliases
  and targets; the invariant is that a configuration that is being built is
  valid (`Configured`). `EmbeddingsImplementFailover` maps each step of the embeddings
  loop, as the process takes it, to one of `Failover` or to none. It needs an
  invariant of every request (`EmbInv`): the loop stands at one of its targets, and
  goes on only after an error that another provider may not give. `ServerTypeCorrect`
  adds the rest of the process to it.
- `RateLimiterProofs`: `LimiterTypeCorrect`, `LimitIsTheLimit` and
  `RetryAfterSuffices`, with either limiter, the expiry of the script's idle buckets
  and the checks that fail open. The inductive invariant is an account: what was granted since any instant, plus what the
  bucket holds now, is within a burst and the refill since that instant; and the
  instant promised to a denied client is one at which the bucket holds a token.
  It rests on lemmas about `Level`: it never exceeds the capacity, never falls by
  waiting, and rises by at most the rate in a second. A bucket that expires had
  refilled, so that the full one that takes its place holds no more.
- `AuthCacheProofs`: `AuthTypeCorrect`, `RevocationTakesEffect`, `IssueTakesEffect`, for
  any number of lookups, any TTL and any delay. The inductive invariant dates every
  answer, in flight or cached: it was what the key table said at an instant
  (`AnswersWereTrue`), and an entry expires within the delay and the TTL of that
  instant (`EntriesExpire`), so that an entry that contradicts the table is no older
  than that.
- `ChatHandlerProofs`, for any number of requests, any questions, aliases, families
  and scores: `ChatTypeCorrect`, `HitsAnswer`, `OptOutKept`, `HandlerRunsExecutor`,
  `NoTargetLeftOut`, `CacheHoldsFinished`, `RowsSayWhatHappened`. The first inductive
  invariant (`Inv`) says of every entry that it lies under the key or point of the
  question it answered, keeps to that question's limit and was stored for a client
  that allowed it, and of every handler that it runs the executor exactly while the
  executor runs. That the exact tier compares no lengths is harmless because the
  limit is in the key (`SameKeyAnswers`); the semantic tier's point leaves it out,
  and the guard makes up for that (`NearPointAnswers`).
  `HandlerRunsExecutor` says that the handler takes no step of the executor that
  the executor's contract does not have. `NoTargetLeftOut` rests on it, on `AllOnRoute`
  (the executor runs over a list of the question's alias, and fails a client that
  stays, whose answer has not begun and whose error is not final, only at the list's
  end) and on lemmas about the router: an order drawn without replacement repeats no
  target, so that it leaves none out, and the list names those of the alias
  (`DrawsLeaveNoneOut`, `RouteNamesAll`).
  For the last two theorems the invariant relates a handler to what it shows, books
  and is about to store (`Told`), and the caches to finished completions
  (`CachesFinished`): a stream that broke off is stored by nobody, because with
  OpenAI's terminator its handler knows.

Model-checked only: liveness (`Recovers`, `EveryRequestEnds`, `RowsSettled`,
`ProcessEnds`) and `RecordNeverWaits`, which is stated with `ENABLED`. The prover
reaches neither. Every other property of a passing run is a theorem. Of
`EveryRequestEnds`, and of the wait for `Close` in `ProcessEnds`, the half that needs
no fairness is proved as well: by `RequestStepsBounded` and `DrainIsBoundedInProcess` a
request and the writer take boundedly many steps, so that only a call or a goroutine
that never goes on could hold them up, which is what the fairness excludes.
What a recursive definition computes for every input is out of the prover's reach as
well; where a least element is enough, `LeastIndex` stands in for induction.

## What is not modelled

- The disabled breaker (`enabled = false`), which allows and records nothing, and
  `Breaker.State`, which nothing calls.
- The length of delays: backoff, jitter and `Retry-After`. A timer fires at any time.
- Rounding of floats in the token bucket.
- The translation of requests and responses by the adapters, the validation of a
  request body, and the middleware other than the limiter and authentication.
- Of the configuration: reading the file, the interpolation of the environment,
  and the fields that no rule of `Validate` and no constructor looks at.
- The health, readiness and model handlers, which keep no state, and the metrics
  listener, which shares none.
- The clients of the stores and the embedders beyond whether a call fails, metrics,
  tracing, the sidecar, the load generator and deployment files: they have no
  state that the order of events could put wrong.

## Plan

Done, in this order: `ProviderErrors`, `BreakerStore`, `Executor`, `Failover`, their
proofs and the refinement; `UsageLedger`, `Meter`, its proofs and the refinement;
`TokenBucket`, `RateLimiter` and its proofs; `AuthCache` and its proofs; `Router`,
`Adapter`, `ResponseCache`, `ChatHandler` and its proofs; `Configuration`, `Embeddings`, `Server` and its proofs.

What would come next is `Gateway`: authentication, limiter and handler in the order
of the middleware, with `UsageLedger` in place of the row, and as properties one row
per authenticated request and nothing spent for a request that was refused. Its
theorems: that it implements the handlers' and the meter's specifications; and the
bound on what the limiter's script grants when the clocks of replicas differ by a
known skew, if there is one.
