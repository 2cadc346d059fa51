------------------------------ MODULE Executor ------------------------------
(***************************************************************************)
(* The resilience executor (internal/resilience/executor.go): concurrent   *)
(* requests, each driven by its own goroutine through the ordered targets  *)
(* the router gave it, with retries on one target, failover to the next,   *)
(* and one circuit breaker per provider shared by all of them.             *)
(*                                                                         *)
(* Requests are the goroutines of the HTTP server; a slot is used again    *)
(* once its request has been answered.  One step is one access to shared   *)
(* state: a breaker event is atomic (a mutex, or one Lua script), while    *)
(* the beginning and the end of the call it guards, the cancellation of    *)
(* the client's context and other requests' events fall between any two.   *)
(***************************************************************************)
EXTENDS BreakerStore, ProviderErrors, FiniteSets, Sequences

CONSTANTS
  Requests,       \* the request goroutines
  Providers,      \* provider names: the keys of the breaker
  TargetLists,    \* the failover lists Route may return, as provider sequences
  UpstreamErrors, \* the kinds the providers of the instance may fail with
  MaxAttempts,    \* the initial try plus retries against one target
  Shared,         \* TRUE: breaker state in Redis; FALSE: in memory
  ClockSkew,      \* how far a replica's clock may be from Redis's
  KeyTTL,         \* how long the key of a circuit outlives its last event
  StoreFails,     \* whether the breaker store may be unreachable
  MaxFailures,    \* bound: no such failure once a failure counter is there
  LastFault,      \* bound: the time of the last failure blamed on a provider
  MaxTime,        \* bound: the clock stops here
  MaxOvershoot    \* bound: calls to an open circuit are counted up to here

ASSUME ExecutorAssumption ==
  /\ IsFiniteSet(Requests)
  /\ TargetLists \subseteq Seq(Providers) \ {<<>>}
  /\ UpstreamErrors \subseteq Kinds
  /\ MaxAttempts \in Nat \ {0}
  /\ Shared \in BOOLEAN /\ StoreFails \in BOOLEAN
  /\ ClockSkew \in Nat /\ KeyTTL \in Nat
  /\ MaxFailures \in Nat /\ LastFault \in Nat /\ MaxTime \in Nat
  /\ MaxOvershoot \in Nat

VARIABLES
  now,       \* the gateway's clock, or Redis's
  circuit,   \* provider -> breaker entry
  touched,   \* provider -> when an event last refreshed its Redis key
  req,       \* request -> the state of its goroutine
  streak,    \* history: provider -> its faults, and the calls cut off by their
             \*   clients, since its last success; saturating at the threshold
  overshoot  \* history: provider -> calls begun since its circuit opened,
             \*   saturating past the bound that is claimed for it

vars == <<now, circuit, touched, req, streak, overshoot>>

(* idle: waiting for a request.  admit: about to ask the breaker for the    *)
(* current target.  admitted: the breaker let it pass, no call has begun.   *)
(* calling: the provider call is in progress.  failed: it returned an error *)
(* that has been recorded.  backoff: sleeping before the next attempt.      *)
(* done: do() has returned.                                                 *)
Phases == {"idle", "admit", "admitted", "calling", "failed", "backoff", "done"}

RequestState ==
  [pc      : Phases,
   targets : TargetLists \cup {<<>>},
   stream  : BOOLEAN,               \* ChatStream rather than Chat
   idx     : Nat,                   \* the target being tried
   attempt : Nat,                   \* its attempts so far
   started : BOOLEAN,               \* a chunk has reached the client
   gone    : BOOLEAN,               \* the client's context is cancelled
   err     : Errors \cup {"none"},  \* the last failure, finally the answer
   best    : Errors \cup {"none"},  \* the joined error of the targets given up
   errs    : Seq(Errors),           \* history: those errors
   late    : Nat]                   \* history: calls begun after gone

Idle == [pc |-> "idle", targets |-> <<>>, stream |-> FALSE, idx |-> 0,
         attempt |-> 0, started |-> FALSE, gone |-> FALSE, err |-> "none",
         best |-> "none", errs |-> <<>>, late |-> 0]

NoFailures == [faults |-> 0, cuts |-> 0]

OneMore(n, cause) ==
  IF n.faults + n.cuts = FailureThreshold THEN n ELSE [n EXCEPT ![cause] = @ + 1]

Init ==
  /\ now = 0
  /\ circuit = [p \in Providers |-> NewEntry]
  /\ touched = [p \in Providers |-> 0]
  /\ req = [r \in Requests |-> Idle]
  /\ streak = [p \in Providers |-> NoFailures]
  /\ overshoot = [p \in Providers |-> 0]

Target(r) == req[r].targets[req[r].idx]

(* The store an executor is wired to.  A script runs with the clock of the  *)
(* replica that sent it (redis_breaker.go:86), and every script refreshes   *)
(* the key's expiry, which is Redis's (redis_breaker.go:80).                *)
Clocks == IF Shared THEN (now - ClockSkew)..(now + ClockSkew) ELSE {now}

Expired(p) == Shared /\ now - touched[p] >= KeyTTL

\* The entry an event finds.
Stored(p) == IF Expired(p) THEN NewEntry ELSE circuit[p]

Snapshot(e, t)      == IF Shared THEN ScriptPeek(e, t) ELSE LocalSnapshot(e, t)
RecordSuccess(e, t) == IF Shared THEN ScriptSuccess(e, t)
                                 ELSE LocalRecordSuccess(e, t)
RecordFailure(e, t) == IF Shared THEN ScriptFailure(e, t)
                                 ELSE LocalRecordFailure(e, t)

\* An event may be lost: Redis is unreachable, or refuses to work for a
\* context that is already cancelled.
StoreError(r) == StoreFails \/ (Shared /\ req[r].gone)

Saturating(n, bound) == IF n > bound THEN bound ELSE n

\* The calls that as many requests may make at one target each.
CallsOfAll == Cardinality(Requests) * MaxAttempts

\* An event of p leaves its circuit as e.
SetCircuit(p, e) ==
  /\ circuit' = [circuit EXCEPT ![p] = e]
  /\ touched' = IF Shared THEN [touched EXCEPT ![p] = now] ELSE touched
  /\ overshoot' = [overshoot EXCEPT
       ![p] = IF e.state = "open" /\ Stored(p).state = "open" THEN @ ELSE 0]

\* Its store is not reached.
EventLost(r) == StoreError(r) /\ UNCHANGED <<circuit, touched, overshoot>>

\* A call to p begins, whatever has become of its circuit.
CallBegins(p) ==
  overshoot' = [overshoot EXCEPT
    ![p] = IF Stored(p).state = "open" THEN Saturating(@ + 1, MaxOvershoot) ELSE @]

-----------------------------------------------------------------------------
(* What a goroutine does with its own state. *)

\* mutant: a retry does not use up an attempt.
BeginCallUncounted(q) ==
  [q EXCEPT !.pc = "calling", !.err = "none",
            !.attempt = IF q.pc = "admitted" THEN 1 ELSE @,
            !.late = IF q.gone THEN @ + 1 ELSE @]

BeginCall(q) ==
  [q EXCEPT !.pc = "calling", !.attempt = @ + 1, !.err = "none",
            !.late = IF q.gone THEN @ + 1 ELSE @]

Answer(q, err) == [q EXCEPT !.pc = "done", !.err = err]

\* mutant: a target whose circuit is open is asked again and again.
StayOnTarget(q, err) ==
  LET best == MoreInformative(q.best, err)
      next == [q EXCEPT !.best = best, !.errs = Append(@, err)]
  IN  IF q.idx < Len(q.targets)
      THEN [q EXCEPT !.pc = "admit", !.attempt = 0]
      ELSE Answer(next, best)

\* The current target is given up with err: on to the next one, or answer
\* with the joined error.
NextTarget(q, err) ==
  LET best == MoreInformative(q.best, err)
      next == [q EXCEPT !.best = best, !.errs = Append(@, err)]
  IN  IF q.idx < Len(q.targets)
      THEN [next EXCEPT !.pc = "admit", !.idx = @ + 1, !.attempt = 0]
      ELSE Answer(next, best)

\* mutant: one retry more than configured.
RetryOnceMore(q) == Retryable(q.err) /\ q.attempt <= MaxAttempts

Retrying(q) == Retryable(q.err) /\ q.attempt < MaxAttempts

\* mutant: chunks already sent do not keep the loop from going on.
FinalUnlessClientGone(q) == q.gone \/ (~Retrying(q) /\ ~Failoverable(q.err))

\* mutant: the loop goes on for a client that has left.
FinalUnlessPresent(q) == q.started \/ (~Retrying(q) /\ ~Failoverable(q.err))

\* Nothing may be tried after this failure: the client is gone, has part of
\* the answer, or the error would be the same everywhere.
Final(q) ==
  q.gone \/ q.started \/ (~Retrying(q) /\ ~Failoverable(q.err))

-----------------------------------------------------------------------------
Submit(r) ==
  /\ req[r].pc = "idle"
  /\ \E ts \in TargetLists, s \in BOOLEAN :
       req' = [req EXCEPT ![r] = [Idle EXCEPT !.pc = "admit", !.targets = ts,
                                              !.stream = s, !.idx = 1]]
  /\ UNCHANGED <<now, circuit, touched, streak, overshoot>>

\* mutant: the breaker's answer is ignored.
AdmitAlways(r) ==
  /\ req[r].pc = "admit"
  /\ \E t \in Clocks :
       SetCircuit(Target(r), Snapshot(Stored(Target(r)), t))
  /\ req' = [req EXCEPT ![r].pc = "admitted"]
  /\ UNCHANGED <<now, streak>>

\* Allow: the circuit, cooled down if due, is not open.
Admit(r) ==
  /\ req[r].pc = "admit"
  /\ \E t \in Clocks :
       LET e == Snapshot(Stored(Target(r)), t)
       IN  e.state # "open" /\ SetCircuit(Target(r), e)
  /\ req' = [req EXCEPT ![r].pc = "admitted"]
  /\ UNCHANGED <<now, streak>>

\* Allow: the store is unreachable, the call proceeds.
AdmitBlind(r) ==
  /\ req[r].pc = "admit"
  /\ StoreError(r)
  /\ req' = [req EXCEPT ![r].pc = "admitted"]
  /\ UNCHANGED <<now, circuit, touched, streak, overshoot>>

\* Allow: the circuit is open; straight on to the next target.
Refuse(r) ==
  /\ req[r].pc = "admit"
  /\ \E t \in Clocks :
       LET e == Snapshot(Stored(Target(r)), t)
       IN  e.state = "open" /\ SetCircuit(Target(r), e)
  /\ req' = [req EXCEPT ![r] = NextTarget(@, "unavailable")]
  /\ UNCHANGED <<now, streak>>

\* The first call to the target, on the breaker's answer of a while ago.
Begin(r) ==
  /\ req[r].pc = "admitted"
  /\ req' = [req EXCEPT ![r] = BeginCall(@)]
  /\ CallBegins(Target(r))
  /\ UNCHANGED <<now, circuit, touched, streak>>

\* The first chunk of a stream is handed to the client.
FirstChunk(r) ==
  /\ req[r].pc = "calling" /\ req[r].stream /\ ~req[r].started
  /\ req' = [req EXCEPT ![r].started = TRUE]
  /\ UNCHANGED <<now, circuit, touched, streak, overshoot>>

CallSucceeds(r) ==
  /\ req[r].pc = "calling"
  /\ \/ \E t \in Clocks :
          SetCircuit(Target(r), RecordSuccess(Stored(Target(r)), t))
     \/ EventLost(r)
  /\ streak' = [streak EXCEPT ![Target(r)] = NoFailures]
  /\ req' = [req EXCEPT ![r] = Answer(@, "none")]
  /\ UNCHANGED now

\* What the provider can answer with: its own errors, "internal" for the
\* context of a client that left, and whatever the write of a chunk returned.
Failures(r) ==
  UpstreamErrors \cup (IF req[r].gone THEN {"internal"} ELSE {})
                 \cup (IF req[r].started THEN {"aborted"} ELSE {})

\* What is wrong with the provider, or with the gateway's account there: a
\* 429, a timeout, no answer or a 5xx, a refused key (ClassifyStatus).
UpstreamFault == {"rate_limit", "timeout", "unavailable", "auth"}

\* Bounds the failures that are blamed on a provider.
MayBlame(p) == now <= LastFault /\ circuit[p].failures < MaxFailures

\* A call ends with an error of kind k, and is recorded if that counts.
Fails(r, k) ==
  /\ req[r].pc = "calling"
  /\ IF CountsAgainstProvider(k)
     THEN \/ \E t \in Clocks :
               SetCircuit(Target(r), RecordFailure(Stored(Target(r)), t))
          \/ EventLost(r)
     ELSE UNCHANGED <<circuit, touched, overshoot>>
  /\ req' = [req EXCEPT ![r].pc = "failed", ![r].err = k]
  /\ UNCHANGED now

CallFails(r, k) ==
  /\ Fails(r, k)
  /\ k \in Failures(r)
  /\ k \in UpstreamFault => MayBlame(Target(r))
  /\ streak' = IF k \in UpstreamFault
               THEN [streak EXCEPT ![Target(r)] = OneMore(@, "faults")]
               ELSE streak

\* The client disconnects while the body, or a line of the stream, is decoded:
\* what has arrived is no JSON, and the adapter calls the provider unavailable.
CallCut(r) ==
  /\ Fails(r, "unavailable")
  /\ req[r].gone
  /\ MayBlame(Target(r))
  /\ streak' = [streak EXCEPT ![Target(r)] = OneMore(@, "cuts")]

Stop(r) ==
  /\ req[r].pc = "failed"
  /\ Final(req[r])
  /\ req' = [req EXCEPT ![r] = Answer(@, req[r].err)]
  /\ UNCHANGED <<now, circuit, touched, streak, overshoot>>

Backoff(r) ==
  /\ req[r].pc = "failed"
  /\ ~Final(req[r]) /\ Retrying(req[r])
  /\ req' = [req EXCEPT ![r].pc = "backoff"]
  /\ UNCHANGED <<now, circuit, touched, streak, overshoot>>

FailOver(r) ==
  /\ req[r].pc = "failed"
  /\ ~Final(req[r]) /\ ~Retrying(req[r])
  /\ req' = [req EXCEPT ![r] = NextTarget(@, req[r].err)]
  /\ UNCHANGED <<now, circuit, touched, streak, overshoot>>

\* The backoff timer fires: the next attempt, without asking the breaker.
Wake(r) ==
  /\ req[r].pc = "backoff"
  /\ req' = [req EXCEPT ![r] = BeginCall(@)]
  /\ CallBegins(Target(r))
  /\ UNCHANGED <<now, circuit, touched, streak>>

\* ctx.Done() wins the select.
WakeCanceled(r) ==
  /\ req[r].pc = "backoff" /\ req[r].gone
  /\ req' = [req EXCEPT ![r] = Answer(@, "canceled")]
  /\ UNCHANGED <<now, circuit, touched, streak, overshoot>>

\* The client disconnects, at any moment of its request.
Disconnect(r) ==
  /\ req[r].pc \notin {"idle", "done"} /\ ~req[r].gone
  /\ req' = [req EXCEPT ![r].gone = TRUE]
  /\ UNCHANGED <<now, circuit, touched, streak, overshoot>>

\* The handler returns; the slot takes another request.
Reply(r) ==
  /\ req[r].pc = "done"
  /\ req' = [req EXCEPT ![r] = Idle]
  /\ UNCHANGED <<now, circuit, touched, streak, overshoot>>

Tick ==
  /\ now < MaxTime
  /\ now' = now + 1
  /\ UNCHANGED <<circuit, touched, req, streak, overshoot>>

Returns(r) ==
  CallSucceeds(r) \/ CallCut(r) \/ \E k \in Errors : CallFails(r, k)

\* The goroutine of r, but for the provider's answer.
Proceed(r) ==
  \/ Admit(r) \/ AdmitBlind(r) \/ Refuse(r) \/ Begin(r)
  \/ Stop(r) \/ Backoff(r) \/ FailOver(r) \/ Wake(r) \/ WakeCanceled(r)

Next ==
  \/ Tick
  \/ \E r \in Requests :
       Submit(r) \/ Proceed(r) \/ FirstChunk(r) \/ Returns(r)
         \/ Disconnect(r) \/ Reply(r)

Spec == Init /\ [][Next]_vars

(* Goroutines run and timers fire; an unary call returns, because the       *)
(* provider's timeout bounds it (withTimeout), and so does a call whose     *)
(* context is cancelled.  A stream has no deadline (openai.go:171): nothing *)
(* is assumed of its provider, of clients, or of new requests.              *)
UnaryReturns(r) == ~req[r].stream /\ Returns(r)

CanceledReturns(r) == req[r].gone /\ Returns(r)

FairSpec ==
  /\ Spec
  /\ \A r \in Requests :
       WF_vars(Proceed(r)) /\ WF_vars(UnaryReturns(r) \/ CanceledReturns(r))

(* Continuing traffic: time passes, requests keep being submitted and       *)
(* answered, and a call that can succeed infinitely often does.             *)
Traffic ==
  /\ WF_vars(Tick)
  /\ \A r \in Requests :
       WF_vars(Submit(r)) /\ WF_vars(Reply(r)) /\ SF_vars(CallSucceeds(r))

-----------------------------------------------------------------------------
(* A request as its client sees it. *)
JobOf(q) ==
  [phase   |-> CASE q.pc = "idle" -> "free"
                 [] q.pc = "done" -> IF q.err = "none" THEN "served" ELSE "failed"
                 [] OTHER -> "running",
   targets |-> q.targets,
   pos     |-> q.idx,
   tries   |-> q.attempt,
   live    |-> q.pc = "calling",
   sent    |-> q.started,
   gone    |-> q.gone,
   final   |-> q.pc \in {"failed", "done"} /\ ~Failoverable(q.err)]

Contract == INSTANCE Failover WITH job <- [r \in Requests |-> JobOf(req[r])]

(* The executor implements Failover (executor.go:81-140): "switching        *)
(* providers mid-stream would splice two different completions together",   *)
(* and failing over from a deterministic error "only burns latency and      *)
(* quota", in every interleaving with breaker events and cancellation.      *)
FailoverContract == Contract!Spec

TypeOK ==
  /\ now \in 0..MaxTime
  /\ circuit \in [Providers -> Entry]
  /\ touched \in [Providers -> Nat]
  /\ req \in [Requests -> RequestState]
  /\ streak \in [Providers -> [faults : Nat, cuts : Nat]]
  /\ overshoot \in [Providers -> Nat]

(* An index into the target list is never out of range, the retry budget of *)
(* a target is never exceeded, every target already passed left exactly one *)
(* error, and a retry only sleeps while a retryable error has budget left:  *)
(* what do() and attemptWithRetries maintain across retries and failover.   *)
WithinBudget ==
  \A r \in Requests :
    LET q == req[r]
    IN  q.pc # "idle" =>
          /\ q.idx \in 1..Len(q.targets)
          /\ q.attempt \in 0..MaxAttempts
          /\ q.pc \in {"calling", "failed", "backoff"} =>
               /\ q.attempt > 0
               /\ Len(q.errs) = q.idx - 1
          /\ q.pc = "backoff" => Retrying(q)

(* The circuit of every provider is consistent with its counters in every   *)
(* interleaving of overlapping requests (breaker.go:92-129).                *)
CircuitsConsistent == \A p \in Providers : EntryConsistent(circuit[p])

(* "FailureThreshold is the consecutive-failure count that opens the        *)
(* circuit" (breaker.go:38): with an in-memory store, the counter of a      *)
(* closed circuit is below the threshold, and no fault since the provider's *)
(* last success is missing from it, in every interleaving.  A bad request,  *)
(* an internal failure or a failed write is never in it.  The calls that    *)
(* their clients cut off are, although "a client disconnect or a malformed  *)
(* request says nothing about provider health" (executor.go:180-182).       *)
ClosedCountsFaults ==
  \A p \in Providers : circuit[p].state = "closed" =>
    /\ circuit[p].failures = streak[p].faults + streak[p].cuts
    /\ circuit[p].failures < FailureThreshold

(* The breaker is asked once per target (executor.go:117), and the calls    *)
(* follow: they do go to a provider whose circuit has opened meanwhile.     *)
(* With a store that answers, they are the first attempts and the retries   *)
(* of the requests that were already admitted, and no more; the failure     *)
(* that opened the circuit was one of them.                                 *)
OvershootBounded ==
  \A p \in Providers :
    circuit[p].state = "open" => overshoot[p] < CallsOfAll

(* "An open circuit becomes half-open once its cooldown elapses. Evaluated  *)
(* on every access" (redis_breaker.go:47-48): with shared state, the        *)
(* success of a call that outlives the cooldown closes no circuit by        *)
(* itself; it is counted as the first of the probes.  With clocks that      *)
(* differ, that is certain once the cooldown is over for all of them; and   *)
(* it ends with the circuit's key, that no event has refreshed for its TTL. *)
CooledCircuitNeedsProbes ==
  [][\A p \in Providers :
       /\ circuit[p].state = "open"
       /\ now - circuit[p].openedAt >= OpenDuration + ClockSkew
       /\ ~Expired(p)
       /\ HalfOpenProbes > 1
       => circuit'[p].state # "closed"]_vars

(* A client that left costs at most one more provider call, whichever way   *)
(* its cancellation races with the retry timer and with failover            *)
(* (executor.go:131, 187, 231-236).                                         *)
DisconnectCostsOneCall == \A r \in Requests : req[r].late <= 1

(* "Rate limits rank highest so an exhausted quota surfaces as a 429"       *)
(* (executor.go:257): a request whose targets all failed answers with the   *)
(* most informative of their errors, the earliest among equals, and a rate  *)
(* limit of any target is never hidden by the outage of another.            *)
BestErrorReported ==
  \A r \in Requests :
    LET q == req[r]
    IN  q.pc = "done" /\ Len(q.errs) = Len(q.targets) =>
          \E i \in DOMAIN q.errs :
            /\ q.err = q.errs[i]
            /\ \A j \in DOMAIN q.errs :
                 /\ KindRank(q.errs[j]) <= KindRank(q.err)
                 /\ KindRank(q.errs[j]) = KindRank(q.err) => i <= j

(* The steps of its goroutine that a request may still take, at most: three *)
(* for each attempt left at its target and at those after it, and two to    *)
(* get to the first of each.                                                *)
StepsLeft(q) ==
  LET inAttempt == [admit |-> 2, admitted |-> 1,
                    calling |-> 3, failed |-> 2, backoff |-> 1]
  IN  IF q.pc \in {"idle", "done"} THEN 0
      ELSE (Len(q.targets) - q.idx) * (3 * MaxAttempts + 2)
             + 3 * (MaxAttempts - q.attempt) + inAttempt[q.pc]

(* The loops of do() and attemptWithRetries (executor.go:114, 183) cannot   *)
(* run for ever: every step of a request's goroutine lowers a bound that    *)
(* its targets and the attempts alone set, and nothing raises it, not even  *)
(* circuits that open and cool down or the events of other requests.        *)
RequestsAdvance ==
  [][\A r \in Requests :
       LET was == req[r]  next == req'[r]
       IN  was.pc \notin {"idle", "done"} =>
             \/ StepsLeft(next) \in 0..(StepsLeft(was) - 1)
             \/ next = [was EXCEPT !.gone = next.gone,
                                    !.started = next.started]]_vars

(* Every request but a stream that its client still listens to is answered, *)
(* however its targets fail and whenever its circuits open: the loops of    *)
(* do() and attemptWithRetries end, and a provider that goes silent in the  *)
(* middle of a stream holds the request no longer than its client stays.    *)
EveryRequestEnds ==
  \A r \in Requests :
    req[r].pc # "idle" /\ (~req[r].stream \/ req[r].gone) ~> req[r].pc = "done"

(* Once no outcome is blamed on a provider any more, its circuit closes and *)
(* stays closed as long as requests keep coming: the faults still being     *)
(* recorded by late calls, and the half-open circuits they reopen, cannot   *)
(* keep it out for ever (breaker.go:83-128).                                *)
Recovers ==
  Traffic => <>[](\A p \in Providers : circuit[p].state = "closed")
=============================================================================
