---------------------------- MODULE BreakerStore ----------------------------
(***************************************************************************)
(* The circuit breaker's state machine for one provider, as the pure       *)
(* transitions its two stores apply under their lock: LocalBreakerStore    *)
(* (internal/resilience/breaker.go, a mutex) and RedisBreakerStore         *)
(* (internal/resilience/redis_breaker.go, one Lua script per event).       *)
(***************************************************************************)
EXTENDS Integers

CONSTANTS
  FailureThreshold,  \* consecutive failures that open the circuit
  OpenDuration,      \* how long a circuit stays open before it admits probes
  HalfOpenProbes     \* consecutive half-open successes that close the circuit

(* Zero values are replaced by defaults when the configuration is loaded    *)
(* (config.go:249-255).  Validate lets negative ones pass: a threshold or a *)
(* number of probes below one acts as one, a cooldown below zero as zero.   *)
ASSUME BreakerConfigAssumption ==
  /\ FailureThreshold \in Nat \ {0}
  /\ OpenDuration \in Nat
  /\ HalfOpenProbes \in Nat \ {0}

State == {"closed", "open", "half_open"}

Entry == [state : State, failures : Nat, successes : Nat, openedAt : Int]

\* A provider nobody has called, or whose Redis key expired.
NewEntry ==
  [state |-> "closed", failures |-> 0, successes |-> 0, openedAt |-> 0]

\* mutant: the cooldown of an open circuit never elapses.
NeverHalfOpen(e, now) == e

\* mutant: the shared script and the gateway spell a state differently.
OtherSpelling(e, now) ==
  IF e.state = "open" /\ now - e.openedAt >= OpenDuration
  THEN [e EXCEPT !.state = "half-open", !.successes = 0]
  ELSE e

\* An open circuit becomes half-open once its cooldown elapses; evaluated on
\* access, there is no timer.
CoolDown(e, now) ==
  IF e.state = "open" /\ now - e.openedAt >= OpenDuration
  THEN [e EXCEPT !.state = "half_open", !.successes = 0]
  ELSE e

\* mutant: a success leaves the failure count of a closed circuit alone.
SuccessKeepsCount(e) ==
  IF e.state # "half_open"
  THEN [e EXCEPT !.state = "closed"]
  ELSE IF e.successes + 1 >= HalfOpenProbes
       THEN [e EXCEPT !.state = "closed", !.failures = 0, !.successes = 0]
       ELSE [e EXCEPT !.successes = @ + 1]

\* A success: counted towards closing when half-open, a full reset otherwise.
Succeed(e) ==
  IF e.state # "half_open"
  THEN [e EXCEPT !.state = "closed", !.failures = 0]
  ELSE IF e.successes + 1 >= HalfOpenProbes
       THEN [e EXCEPT !.state = "closed", !.failures = 0, !.successes = 0]
       ELSE [e EXCEPT !.successes = @ + 1]

Trip(e, now) == [e EXCEPT !.state = "open", !.openedAt = now]

\* mutant: the failure that reaches the threshold does not open the circuit.
FailPastThreshold(e, now) ==
  IF e.state = "half_open"
  THEN [Trip(e, now) EXCEPT !.successes = 0]
  ELSE LET counted == [e EXCEPT !.failures = @ + 1]
       IN  IF counted.failures > FailureThreshold THEN Trip(counted, now)
                                                  ELSE counted

\* A failure: reopens a half-open circuit at once, otherwise counts, and
\* (re)opens at the threshold.  On an open circuit it restarts the cooldown.
Fail(e, now) ==
  IF e.state = "half_open"
  THEN [Trip(e, now) EXCEPT !.successes = 0]
  ELSE LET counted == [e EXCEPT !.failures = @ + 1]
       IN  IF counted.failures >= FailureThreshold THEN Trip(counted, now)
                                                   ELSE counted

-----------------------------------------------------------------------------
(* The in-memory store applies the cooldown on Snapshot only; the script    *)
(* applies it before every event.                                           *)

LocalSnapshot(e, now)      == CoolDown(e, now)
LocalRecordSuccess(e, now) == Succeed(e)
LocalRecordFailure(e, now) == Fail(e, now)

\* mutant: the script records a success as the in-memory store does.
SuccessWithoutCoolDown(e, now) == Succeed(e)

ScriptPeek(e, now)    == CoolDown(e, now)
ScriptSuccess(e, now) == Succeed(CoolDown(e, now))
ScriptFailure(e, now) == Fail(CoolDown(e, now), now)

-----------------------------------------------------------------------------
(* The counters of an entry agree with its state, whatever the order in     *)
(* which successes and failures of overlapping calls are recorded: a closed *)
(* circuit has seen fewer failures than the threshold, an open or half-open *)
(* one at least as many, and half-open stops short of its probes.           *)
EntryConsistent(e) ==
  /\ e.state = "closed" => e.failures < FailureThreshold /\ e.successes = 0
  /\ e.state = "open"   => e.failures >= FailureThreshold /\ e.successes = 0
  /\ e.state = "half_open" => /\ e.failures >= FailureThreshold
                              /\ e.successes < HalfOpenProbes
=============================================================================
