------------------------------ MODULE Failover ------------------------------
(***************************************************************************)
(* What the executor promises a request, whatever the breaker, the retry   *)
(* timers and the other requests do.  It has no circuits, no clock and no  *)
(* error kinds: a fault is either final, the same everywhere, or not.      *)
(*                                                                         *)
(*  - the targets are tried in the router's order, none of them again once *)
(*    it has been passed, and each at most MaxAttempts times in a row;     *)
(*  - nothing is called while a call is in progress, after a final fault,  *)
(*    or once output has reached the client: two completions are never     *)
(*    spliced into one response;                                           *)
(*  - the request is served by a call that succeeded, at once; it fails    *)
(*    only for a client that has gone or has part of the output, a final   *)
(*    fault, or after the last target.                                     *)
(***************************************************************************)
EXTENDS Integers, Sequences

CONSTANTS Requests, TargetLists, MaxAttempts

VARIABLE job

vars == <<job>>

Job == [phase : {"free", "running", "served", "failed"},
        targets : TargetLists \cup {<<>>},
        pos : Nat,         \* the target being tried
        tries : Nat,       \* the calls made to it
        live : BOOLEAN,    \* a call is in progress
        sent : BOOLEAN,    \* output has reached the client
        gone : BOOLEAN,    \* the client has left
        final : BOOLEAN]   \* the last fault is final

Free == [phase |-> "free", targets |-> <<>>, pos |-> 0, tries |-> 0,
         live |-> FALSE, sent |-> FALSE, gone |-> FALSE, final |-> FALSE]

Init == job = [r \in Requests |-> Free]

\* The job of r becomes j, the others stay.
Becomes(r, j) == job' = [job EXCEPT ![r] = j]

Submit(r) ==
  /\ job[r].phase = "free"
  /\ \E ts \in TargetLists :
       Becomes(r, [Free EXCEPT !.phase = "running", !.targets = ts, !.pos = 1])

MayCall(j) == j.phase = "running" /\ ~j.live /\ ~j.sent /\ ~j.final

Call(r) ==
  /\ MayCall(job[r])
  /\ job[r].tries < MaxAttempts
  /\ Becomes(r, [job[r] EXCEPT !.live = TRUE, !.tries = @ + 1])

Advance(r) ==
  /\ MayCall(job[r])
  /\ job[r].pos < Len(job[r].targets)
  /\ Becomes(r, [job[r] EXCEPT !.pos = @ + 1, !.tries = 0])

Deliver(r) ==
  /\ job[r].live
  /\ Becomes(r, [job[r] EXCEPT !.sent = TRUE])

Fault(r) ==
  /\ job[r].live
  /\ \E f \in BOOLEAN : Becomes(r, [job[r] EXCEPT !.live = FALSE, !.final = f])

Serve(r) ==
  /\ job[r].live
  /\ Becomes(r, [job[r] EXCEPT !.live = FALSE, !.phase = "served"])

MayFail(j) ==
  /\ j.phase = "running" /\ ~j.live
  /\ j.sent \/ j.gone \/ j.final \/ j.pos = Len(j.targets)

Fail(r) ==
  /\ MayFail(job[r])
  /\ Becomes(r, [job[r] EXCEPT !.phase = "failed"])

Leave(r) ==
  /\ job[r].phase = "running"
  /\ Becomes(r, [job[r] EXCEPT !.gone = TRUE])

Release(r) ==
  /\ job[r].phase \in {"served", "failed"}
  /\ Becomes(r, Free)

Next ==
  \E r \in Requests :
    \/ Submit(r) \/ Call(r) \/ Advance(r) \/ Deliver(r) \/ Fault(r)
    \/ Serve(r) \/ Fail(r) \/ Leave(r) \/ Release(r)

Spec == Init /\ [][Next]_vars
=============================================================================
