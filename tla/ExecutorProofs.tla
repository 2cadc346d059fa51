--------------------------- MODULE ExecutorProofs ---------------------------
(***************************************************************************)
(* Proofs about Executor, for every set of requests and providers, every   *)
(* failover list, threshold, cooldown, probe count and retry budget, and   *)
(* for both breaker stores.                                                *)
(***************************************************************************)
EXTENDS Executor, FiniteSetTheorems, TLAPS

(* --- the breaker's transitions ------------------------------------------ *)

\* Every transition of a store maps an entry to an entry.
LEMMA TransitionsTyped ==
  ASSUME NEW e \in Entry, NEW t \in Int
  PROVE  /\ CoolDown(e, t) \in Entry
         /\ Succeed(e) \in Entry
         /\ Fail(e, t) \in Entry
  <1>1. CoolDown(e, t) \in Entry
    <2>1. 0 \in Nat
      OBVIOUS
    <2>2. [e EXCEPT !.state = "half_open", !.successes = 0] \in Entry
      BY <2>1, ZenonT(30) DEF Entry, State
    <2>3. QED
      BY <2>2, Zenon DEF CoolDown
  <1>2. Succeed(e) \in Entry
    <2>1. 0 \in Nat /\ e.successes + 1 \in Nat
      BY DEF Entry
    <2>2. /\ [e EXCEPT !.state = "closed", !.failures = 0] \in Entry
          /\ [e EXCEPT !.state = "closed", !.failures = 0, !.successes = 0]
               \in Entry
          /\ [e EXCEPT !.successes = @ + 1] \in Entry
      BY <2>1, ZenonT(30) DEF Entry, State
    <2>3. QED
      BY <2>2, Zenon DEF Succeed
  <1>3. Fail(e, t) \in Entry
    <2>1. \A x \in Entry : Trip(x, t) \in Entry
      BY ZenonT(30) DEF Trip, Entry, State
    <2>2. \A x \in Entry : [x EXCEPT !.successes = 0] \in Entry
      BY DEF Entry
    <2>3. [e EXCEPT !.failures = @ + 1] \in Entry
      BY DEF Entry
    <2>4. QED
      BY <2>1, <2>2, <2>3, ZenonT(30) DEF Fail
  <1>4. QED
    BY <1>1, <1>2, <1>3

\* Every transition keeps an entry's counters consistent with its state.
LEMMA TransitionsConsistent ==
  ASSUME NEW e \in Entry, NEW t \in Int, EntryConsistent(e)
  PROVE  /\ EntryConsistent(CoolDown(e, t))
         /\ EntryConsistent(Succeed(e))
         /\ EntryConsistent(Fail(e, t))
  <1>1. EntryConsistent(CoolDown(e, t))
    BY BreakerConfigAssumption DEF EntryConsistent, CoolDown, Entry, State
  <1>2. EntryConsistent(Succeed(e))
    BY BreakerConfigAssumption DEF EntryConsistent, Succeed, Entry, State
  <1>3. EntryConsistent(Fail(e, t))
    BY BreakerConfigAssumption DEF EntryConsistent, Fail, Trip, Entry, State
  <1>4. QED
    BY <1>1, <1>2, <1>3

\* The same of the events of the store the executor is wired to, with any
\* replica's clock.
LEMMA EventsTyped ==
  ASSUME NEW e \in Entry, NEW t \in Int
  PROVE  Snapshot(e, t) \in Entry /\ RecordSuccess(e, t) \in Entry
           /\ RecordFailure(e, t) \in Entry
  BY TransitionsTyped
  DEF Snapshot, RecordSuccess, RecordFailure, LocalSnapshot, ScriptPeek,
      LocalRecordSuccess, ScriptSuccess, LocalRecordFailure, ScriptFailure

LEMMA EventsConsistent ==
  ASSUME NEW e \in Entry, EntryConsistent(e), NEW t \in Int
  PROVE  EntryConsistent(Snapshot(e, t)) /\ EntryConsistent(RecordSuccess(e, t))
           /\ EntryConsistent(RecordFailure(e, t))
  BY TransitionsTyped, TransitionsConsistent
  DEF Snapshot, RecordSuccess, RecordFailure, LocalSnapshot, ScriptPeek,
      LocalRecordSuccess, ScriptSuccess, LocalRecordFailure, ScriptFailure

\* What an event that finds the circuit of p may leave it as.
Reported(p, e) ==
  \E t \in Clocks : e \in {Snapshot(Stored(p), t), RecordSuccess(Stored(p), t),
                           RecordFailure(Stored(p), t)}

\* An event of p, and no other change of a circuit.
EventAt(p) == \E e : Reported(p, e) /\ SetCircuit(p, e)

NoEvent == UNCHANGED <<circuit, touched, overshoot>>

\* A call that does not succeed fails with an error of some kind.
LEMMA FailuresFail ==
  ASSUME NEW r, CallCut(r) \/ \E k \in Errors : CallFails(r, k)
  PROVE  \E k \in Errors : Fails(r, k)
  <1>1. "unavailable" \in Errors
    BY DEF Errors, Kinds
  <1>2. QED
    BY <1>1 DEF CallCut, CallFails

\* Which steps are events.
LEMMA EventsOf ==
  ASSUME NEW r \in Requests
  PROVE  /\ Admit(r) \/ Refuse(r) => EventAt(Target(r))
         /\ CallSucceeds(r) => EventAt(Target(r)) \/ NoEvent
         /\ \A k : Fails(r, k) => EventAt(Target(r)) \/ NoEvent
  <1>1. Admit(r) \/ Refuse(r) => EventAt(Target(r))
    BY DEF Admit, Refuse, EventAt, Reported
  <1>2. CallSucceeds(r) => EventAt(Target(r)) \/ NoEvent
    BY DEF CallSucceeds, EventLost, EventAt, Reported, NoEvent
  <1>3. ASSUME NEW k, Fails(r, k)
        PROVE  EventAt(Target(r)) \/ NoEvent
    BY <1>3 DEF Fails, EventLost, EventAt, Reported, NoEvent
  <1>4. QED
    BY <1>1, <1>2, <1>3

\* Clocks are integers, and what they are applied to is an entry.
LEMMA ClocksTyped == TypeOK => now \in Nat /\ Clocks \subseteq Int
  BY ExecutorAssumption DEF Clocks, TypeOK

LEMMA StoredTyped ==
  ASSUME TypeOK, NEW p \in Providers
  PROVE  /\ Stored(p) \in Entry
         /\ EntryConsistent(circuit[p]) => EntryConsistent(Stored(p))
  <1>1. NewEntry \in Entry /\ EntryConsistent(NewEntry)
    BY BreakerConfigAssumption DEF NewEntry, Entry, State, EntryConsistent
  <1>2. QED
    BY <1>1 DEF Stored, TypeOK

\* In memory there is one clock, and nothing expires.
LEMMA StoredInMemory ==
  ASSUME ~Shared
  PROVE  /\ Clocks = {now}
         /\ \A p : Stored(p) = circuit[p]
  BY DEF Clocks, Stored, Expired

LEMMA ReportedTyped ==
  ASSUME TypeOK, NEW p \in Providers, NEW e, Reported(p, e)
  PROVE  /\ e \in Entry
         /\ EntryConsistent(circuit[p]) => EntryConsistent(e)
  <1>1. PICK t \in Clocks :
          e \in {Snapshot(Stored(p), t), RecordSuccess(Stored(p), t),
                 RecordFailure(Stored(p), t)}
    BY DEF Reported
  <1>2. t \in Int
    BY ClocksTyped
  <1>3. QED
    BY <1>1, <1>2, StoredTyped, EventsTyped, EventsConsistent

(* --- type correctness ---------------------------------------------------- *)

\* What a goroutine does with its own state keeps it well typed.
LEMMA RequestTyped ==
  ASSUME NEW q \in RequestState
  PROVE  /\ BeginCall(q) \in RequestState
         /\ \A k \in Errors : NextTarget(q, k) \in RequestState
         /\ \A k \in Errors \cup {"none"} : Answer(q, k) \in RequestState
         /\ [q EXCEPT !.started = TRUE] \in RequestState
         /\ [q EXCEPT !.gone = TRUE] \in RequestState
         /\ [q EXCEPT !.pc = "admitted"] \in RequestState
         /\ [q EXCEPT !.pc = "backoff"] \in RequestState
         /\ \A k \in Errors :
              [q EXCEPT !.pc = "failed", !.err = k] \in RequestState
  <1>1. BeginCall(q) \in RequestState
    <2>1. q.attempt + 1 \in Nat /\ (IF q.gone THEN q.late + 1 ELSE q.late) \in Nat
      BY DEF RequestState
    <2>2. "calling" \in Phases /\ "none" \in Errors \cup {"none"}
      BY DEF Phases
    <2>3. QED
      BY <2>1, <2>2, ZenonT(30) DEF BeginCall, RequestState
  <1>2. \A y \in RequestState : \A x \in Errors \cup {"none"} :
          Answer(y, x) \in RequestState
    BY ZenonT(30) DEF Answer, RequestState, Phases
  <1>3. ASSUME NEW k \in Errors
        PROVE  NextTarget(q, k) \in RequestState
    <2> DEFINE best == MoreInformative(q.best, k)
               next == [q EXCEPT !.best = best, !.errs = Append(@, k)]
    <2>1. best \in Errors \cup {"none"} /\ Append(q.errs, k) \in Seq(Errors)
      BY DEF MoreInformative, RequestState
    <2>2. next \in RequestState
      <3> HIDE DEF best
      <3> QED
        BY <2>1, ZenonT(30) DEF RequestState
    <2>3. next.idx + 1 \in Nat
      BY <2>2 DEF RequestState
    <2>4. [next EXCEPT !.pc = "admit", !.idx = @ + 1, !.attempt = 0]
            \in RequestState
      <3> HIDE DEF next
      <3>1. 0 \in Nat /\ "admit" \in Phases
        BY DEF Phases
      <3> QED
        BY <2>2, <2>3, <3>1, ZenonT(30) DEF RequestState
    <2>5. Answer(next, best) \in RequestState
      BY <1>2, <2>1, <2>2
    <2>6. QED
      BY <2>4, <2>5, Zenon DEF NextTarget
  <1>4. /\ [q EXCEPT !.started = TRUE] \in RequestState
        /\ [q EXCEPT !.gone = TRUE] \in RequestState
        /\ [q EXCEPT !.pc = "admitted"] \in RequestState
        /\ [q EXCEPT !.pc = "backoff"] \in RequestState
        /\ \A k \in Errors :
             [q EXCEPT !.pc = "failed", !.err = k] \in RequestState
    BY ZenonT(30) DEF RequestState, Phases
  <1>5. QED
    BY <1>1, <1>2, <1>3, <1>4

\* Idle is a request state.
LEMMA IdleTyped == Idle \in RequestState
  BY DEF Idle, RequestState, Phases

\* A failure more keeps the counts of a streak counts.
LEMMA StreakTyped ==
  ASSUME NEW n \in [faults : Nat, cuts : Nat], NEW cause \in {"faults", "cuts"}
  PROVE  /\ NoFailures \in [faults : Nat, cuts : Nat]
         /\ OneMore(n, cause) \in [faults : Nat, cuts : Nat]
  BY DEF NoFailures, OneMore

\* The errors the executor makes up itself are errors.
LEMMA KindsTyped ==
  /\ "unavailable" \in Errors
  /\ "canceled" \in Errors \cup {"none"}
  /\ "none" \in Errors \cup {"none"}
  BY DEF Errors, Kinds, PlainErrors

\* An event keeps the functions over providers typed.
LEMMA EventTyped ==
  ASSUME TypeOK, NEW p, EventAt(p) \/ NoEvent
  PROVE  /\ circuit' \in [Providers -> Entry]
         /\ touched' \in [Providers -> Nat]
         /\ overshoot' \in [Providers -> Nat]
  <1>1. CASE NoEvent
    BY <1>1 DEF NoEvent, TypeOK
  <1>2. CASE EventAt(p)
    <2>1. PICK e : Reported(p, e) /\ SetCircuit(p, e)
      BY <1>2 DEF EventAt
    <2>2. p \in Providers => e \in Entry
      BY <2>1, ReportedTyped
    <2>3. now \in Nat
      BY ClocksTyped
    <2>4. QED
      BY <2>1, <2>2, <2>3 DEF SetCircuit, TypeOK
  <1>3. QED
    BY <1>1, <1>2

\* So does a call that begins without asking it.
LEMMA CallBeginsTyped ==
  ASSUME TypeOK, NEW p, CallBegins(p)
  PROVE  overshoot' \in [Providers -> Nat]
  <1>1. \A n \in Nat : Saturating(n + 1, MaxOvershoot) \in Nat
    BY ExecutorAssumption DEF Saturating
  <1>2. QED
    BY <1>1 DEF CallBegins, TypeOK

\* A request is submitted well typed.
LEMMA SubmittedTyped ==
  ASSUME NEW ts \in TargetLists, NEW s \in BOOLEAN
  PROVE  [Idle EXCEPT !.pc = "admit", !.targets = ts, !.stream = s, !.idx = 1]
           \in RequestState
  <1>1. 1 \in Nat /\ "admit" \in Phases /\ ts \in TargetLists \cup {<<>>}
    BY DEF Phases
  <1>2. QED
    BY <1>1, IdleTyped, ZenonT(30) DEF RequestState

(* --- the inductive invariant of one request ------------------------------ *)

\* best is the earliest of the most informative errors of errs.
IsBest(best, errs) ==
  IF errs = <<>> THEN best = "none"
  ELSE \E i \in DOMAIN errs :
         /\ best = errs[i]
         /\ \A j \in DOMAIN errs :
              /\ KindRank(errs[j]) <= KindRank(best)
              /\ KindRank(errs[j]) = KindRank(best) => i <= j

(* What is true of the goroutine of one request between any two of its      *)
(* steps: where it is in its target list, what it has left, and what the    *)
(* errors it has collected amount to.                                       *)
ReqOK(q) ==
  /\ q.pc = "idle" => q = Idle
  /\ q.pc # "idle" =>
    /\ q.targets \in TargetLists
    /\ q.idx \in 1..Len(q.targets)
    /\ q.attempt \in 0..MaxAttempts
    /\ q.pc \in {"admit", "admitted"} => q.attempt = 0
    /\ q.pc \in {"calling", "failed", "backoff"} => q.attempt > 0
    /\ q.pc # "done" => Len(q.errs) = q.idx - 1
    /\ q.pc = "done" => \/ Len(q.errs) = q.idx - 1
                        \/ Len(q.errs) = q.idx /\ q.err = q.best
    /\ q.pc = "failed" => q.err \in Errors
    /\ q.pc = "backoff" => Retrying(q)
    /\ q.late <= 1
    /\ q.late = 1 => q.gone /\ q.pc \in {"calling", "failed", "done"}
    /\ q.started => q.pc \in {"calling", "failed", "done"}
    /\ q.errs # <<>> => q.best # "none"
    /\ Failoverable(q.best)
    /\ IsBest(q.best, q.errs)

\* A call begins only once the breaker let it pass, or after a backoff, within
\* the budget.
LEMMA BeginCallOK ==
  ASSUME NEW q \in RequestState, ReqOK(q),
         q.pc \in {"admitted", "backoff"}
  PROVE  ReqOK(BeginCall(q))
  <1> DEFINE b == BeginCall(q)
  <1>1. /\ b.pc = "calling" /\ b.attempt = q.attempt + 1 /\ b.err = "none"
        /\ b.late = IF q.gone THEN q.late + 1 ELSE q.late
        /\ b.targets = q.targets /\ b.idx = q.idx /\ b.gone = q.gone
        /\ b.errs = q.errs /\ b.best = q.best /\ b.started = q.started
    BY DEF BeginCall, RequestState
  <1>2. q.attempt \in Nat /\ q.late \in Nat
    BY DEF RequestState
  <1>3. q.attempt < MaxAttempts
    BY ExecutorAssumption DEF ReqOK, Retrying
  <1> SUFFICES ReqOK(b)
    OBVIOUS
  <1> HIDE DEF b
  <1>4. QED
    BY <1>1, <1>2, <1>3, ExecutorAssumption DEF ReqOK, Retrying

\* Answering leaves what the request has collected alone.
LEMMA AnswerOK ==
  ASSUME NEW q \in RequestState, ReqOK(q), q.pc \in Phases \ {"idle", "done"},
         q.late <= 1, NEW k \in Errors \cup {"none"}
  PROVE  ReqOK(Answer(q, k))
  <1> DEFINE b == Answer(q, k)
  <1>1. /\ b.pc = "done" /\ b.attempt = q.attempt /\ b.err = k
        /\ b.late = q.late /\ b.targets = q.targets /\ b.idx = q.idx
        /\ b.gone = q.gone /\ b.errs = q.errs /\ b.best = q.best
        /\ b.started = q.started
    BY DEF Answer, RequestState
  <1> SUFFICES ReqOK(b)
    OBVIOUS
  <1> HIDE DEF b
  <1>2. QED
    BY <1>1 DEF ReqOK

\* One more error keeps the running best the best.
LEMMA MoreInformativeBest ==
  ASSUME NEW best \in Errors \cup {"none"}, NEW errs \in Seq(Errors),
         NEW k \in Errors, IsBest(best, errs), errs # <<>> => best # "none"
  PROVE  /\ IsBest(MoreInformative(best, k), Append(errs, k))
         /\ MoreInformative(best, k) # "none"
  <1> DEFINE n == Len(errs) + 1
             all == Append(errs, k)
             new == MoreInformative(best, k)
  <1>0. \A x : KindRank(x) \in Nat
    BY DEF KindRank
  <1>1. k # "none"
    BY DEF Errors, Kinds, PlainErrors
  <1>2. /\ DOMAIN all = 1..n /\ DOMAIN errs = 1..(n-1) /\ n \in Nat \ {0}
        /\ all[n] = k /\ \A i \in 1..(n-1) : all[i] = errs[i]
        /\ all # <<>>
    OBVIOUS
  <1>3. CASE errs = <<>>
    <2>1. new = k /\ n = 1
      BY <1>3 DEF IsBest, MoreInformative
    <2>2. \A j \in DOMAIN all : all[j] = k /\ 1 <= j
      BY <1>2, <2>1
    <2>3. 1 \in DOMAIN all /\ new = all[1]
      BY <1>2, <2>1
    <2>4. QED
      BY <1>0, <1>1, <1>2, <2>1, <2>2, <2>3 DEF IsBest
  <1>4. CASE errs # <<>>
    <2>1. PICK i \in 1..(n-1) :
            /\ best = errs[i]
            /\ \A j \in 1..(n-1) :
                 /\ KindRank(errs[j]) <= KindRank(best)
                 /\ KindRank(errs[j]) = KindRank(best) => i <= j
      BY <1>2, <1>4 DEF IsBest
    <2>2. best # "none"
      BY <1>4
    <2>3. CASE KindRank(k) > KindRank(best)
      <3>1. new = k
        BY <2>3 DEF MoreInformative
      <3>2. \A j \in 1..n : /\ KindRank(all[j]) <= KindRank(new)
                            /\ KindRank(all[j]) = KindRank(new) => n <= j
        BY <1>0, <1>2, <2>1, <2>3, <3>1
      <3>3. QED
        BY <1>1, <1>2, <3>1, <3>2 DEF IsBest
    <2>4. CASE ~(KindRank(k) > KindRank(best))
      <3>1. new = best
        BY <2>2, <2>4 DEF MoreInformative
      <3>2. i \in 1..n /\ new = all[i]
        BY <1>2, <2>1, <3>1
      <3>3. \A j \in 1..n : /\ KindRank(all[j]) <= KindRank(new)
                            /\ KindRank(all[j]) = KindRank(new) => i <= j
        BY <1>0, <1>2, <2>1, <2>4, <3>1
      <3>4. QED
        BY <1>2, <2>2, <3>1, <3>2, <3>3 DEF IsBest
    <2>5. QED
      BY <2>3, <2>4
  <1>5. QED
    BY <1>3, <1>4

\* Giving up a target moves to the next one, or answers with the joined error.
LEMMA NextTargetOK ==
  ASSUME NEW q \in RequestState, ReqOK(q), q.pc \in {"admit", "failed"},
         q.late = 0, ~q.started, NEW k \in Errors, Failoverable(k)
  PROVE  ReqOK(NextTarget(q, k))
  <1> DEFINE best == MoreInformative(q.best, k)
             b == NextTarget(q, k)
  <1>1. /\ q.errs \in Seq(Errors) /\ q.idx \in Nat /\ q.attempt \in Nat
        /\ q.best \in Errors \cup {"none"}
    BY DEF RequestState
  <1>2. /\ IsBest(best, Append(q.errs, k)) /\ best # "none"
        /\ Failoverable(best)
    BY <1>1, MoreInformativeBest DEF ReqOK, MoreInformative
  <1>3. /\ Len(Append(q.errs, k)) = Len(q.errs) + 1
        /\ Append(q.errs, k) # <<>>
    BY <1>1
  <1>4. /\ b.targets = q.targets /\ b.gone = q.gone /\ b.late = q.late
        /\ b.errs = Append(q.errs, k) /\ b.best = best
        /\ b.started = q.started
    BY DEF NextTarget, Answer, RequestState
  <1>5. CASE q.idx < Len(q.targets)
    <2>1. b.pc = "admit" /\ b.idx = q.idx + 1 /\ b.attempt = 0
      BY <1>5 DEF NextTarget, RequestState
    <2> SUFFICES ReqOK(b)
      OBVIOUS
    <2> HIDE DEF b, best
    <2>2. Len(q.targets) \in Nat
      BY ExecutorAssumption DEF ReqOK
    <2>3. QED
      BY <1>1, <1>2, <1>3, <1>4, <1>5, <2>1, <2>2, ExecutorAssumption DEF ReqOK
  <1>6. CASE ~(q.idx < Len(q.targets))
    <2>1. b.pc = "done" /\ b.idx = q.idx /\ b.attempt = q.attempt /\ b.err = best
      BY <1>6 DEF NextTarget, Answer, RequestState
    <2> SUFFICES ReqOK(b)
      OBVIOUS
    <2> HIDE DEF b, best
    <2>2. QED
      BY <1>1, <1>2, <1>3, <1>4, <1>6, <2>1 DEF ReqOK
  <1>7. QED
    BY <1>5, <1>6

RequestsOK == \A r \in Requests : ReqOK(req[r])

LEMMA InitTyped == Init => TypeOK
  <1>1. NewEntry \in Entry
    BY DEF NewEntry, Entry, State
  <1>2. QED
    BY <1>1, IdleTyped, ExecutorAssumption DEF Init, TypeOK, NoFailures

\* A step keeps every variable in its type.
LEMMA StepTyped == TypeOK /\ RequestsOK /\ [Next]_vars => TypeOK'
  <1> SUFFICES ASSUME TypeOK, RequestsOK, [Next]_vars PROVE TypeOK'
    OBVIOUS
  <1>0. now \in Nat /\ \A r \in Requests : req[r] \in RequestState
    BY DEF TypeOK
  <1>1. ASSUME NEW r \in Requests, Submit(r) PROVE TypeOK'
    BY <1>1, SubmittedTyped DEF Submit, TypeOK
  <1>2. ASSUME NEW r \in Requests, Admit(r) PROVE TypeOK'
    <2>1. /\ circuit' \in [Providers -> Entry] /\ touched' \in [Providers -> Nat]
          /\ overshoot' \in [Providers -> Nat]
      BY <1>2, EventsOf, EventTyped
    <2>2. [req[r] EXCEPT !.pc = "admitted"] \in RequestState
      BY <1>0, RequestTyped, Zenon
    <2>3. QED
      BY <1>2, <2>1, <2>2 DEF Admit, TypeOK
  <1>3. ASSUME NEW r \in Requests, AdmitBlind(r) PROVE TypeOK'
    <2>1. [req[r] EXCEPT !.pc = "admitted"] \in RequestState
      BY <1>0, RequestTyped, Zenon
    <2>2. QED
      BY <1>3, <2>1 DEF AdmitBlind, TypeOK
  <1>4. ASSUME NEW r \in Requests, Refuse(r) PROVE TypeOK'
    <2>1. NextTarget(req[r], "unavailable") \in RequestState
      BY <1>0, RequestTyped, KindsTyped, Zenon
    <2>2. /\ circuit' \in [Providers -> Entry] /\ touched' \in [Providers -> Nat]
          /\ overshoot' \in [Providers -> Nat]
      BY <1>4, EventsOf, EventTyped
    <2>3. QED
      BY <1>4, <2>1, <2>2 DEF Refuse, TypeOK
  <1>5. ASSUME NEW r \in Requests, FirstChunk(r) PROVE TypeOK'
    <2>1. [req[r] EXCEPT !.started = TRUE] \in RequestState
      BY <1>0, RequestTyped, Zenon
    <2>2. QED
      BY <1>5, <2>1 DEF FirstChunk, TypeOK
  <1>6. ASSUME NEW r \in Requests, CallSucceeds(r) PROVE TypeOK'
    <2>1. /\ circuit' \in [Providers -> Entry] /\ touched' \in [Providers -> Nat]
          /\ overshoot' \in [Providers -> Nat]
      BY <1>6, EventsOf, EventTyped
    <2>2. Answer(req[r], "none") \in RequestState
      BY <1>0, RequestTyped, KindsTyped, Zenon
    <2>3. QED
      BY <1>6, <2>1, <2>2, StreakTyped DEF CallSucceeds, TypeOK
  <1>7. ASSUME NEW r \in Requests,
               CallCut(r) \/ \E k \in Errors : CallFails(r, k)
        PROVE  TypeOK'
    <2>1. PICK k \in Errors : Fails(r, k)
      BY <1>7, FailuresFail
    <2>2. /\ circuit' \in [Providers -> Entry] /\ touched' \in [Providers -> Nat]
          /\ overshoot' \in [Providers -> Nat]
      BY <2>1, EventsOf, EventTyped
    <2>3. [req[r] EXCEPT !.pc = "failed", !.err = k] \in RequestState
      BY <1>0, RequestTyped, Zenon
    <2>4. req' \in [Requests -> RequestState] /\ now' = now
      BY <2>1, <2>3 DEF Fails, TypeOK
    <2>5. streak' \in [Providers -> [faults : Nat, cuts : Nat]]
      <3> DEFINE p == Target(r)
      <3>1. ASSUME NEW cause \in {"faults", "cuts"},
                   streak' = [streak EXCEPT ![p] = OneMore(@, cause)]
            PROVE  streak' \in [Providers -> [faults : Nat, cuts : Nat]]
        <4> HIDE DEF p
        <4>1. QED
          BY <3>1, StreakTyped DEF TypeOK
      <3>2. \/ streak' = [streak EXCEPT ![p] = OneMore(@, "faults")]
            \/ streak' = [streak EXCEPT ![p] = OneMore(@, "cuts")]
            \/ streak' = streak
        BY <1>7, Zenon DEF CallCut, CallFails
      <3> HIDE DEF p
      <3>3. QED
        BY <3>1, <3>2 DEF TypeOK
    <2>6. QED
      BY <2>2, <2>4, <2>5 DEF TypeOK
  <1>8. ASSUME NEW r \in Requests, Stop(r) PROVE TypeOK'
    <2>1. req[r].err \in Errors \cup {"none"}
      BY <1>0 DEF RequestState
    <2>2. Answer(req[r], req[r].err) \in RequestState
      BY <1>0, <2>1, RequestTyped, Zenon
    <2>3. QED
      BY <1>8, <2>2 DEF Stop, TypeOK
  <1>9. ASSUME NEW r \in Requests, Backoff(r) PROVE TypeOK'
    <2>1. [req[r] EXCEPT !.pc = "backoff"] \in RequestState
      BY <1>0, RequestTyped, Zenon
    <2>2. QED
      BY <1>9, <2>1 DEF Backoff, TypeOK
  <1>10. ASSUME NEW r \in Requests, FailOver(r) PROVE TypeOK'
    <2>1. req[r].err \in Errors
      BY <1>10 DEF FailOver, RequestsOK, ReqOK
    <2>2. NextTarget(req[r], req[r].err) \in RequestState
      BY <1>0, <2>1, RequestTyped, Zenon
    <2>3. QED
      BY <1>10, <2>2 DEF FailOver, TypeOK
  <1>11. ASSUME NEW r \in Requests, Wake(r) PROVE TypeOK'
    <2>1. BeginCall(req[r]) \in RequestState
      BY <1>0, RequestTyped, Zenon
    <2>2. overshoot' \in [Providers -> Nat]
      BY <1>11, CallBeginsTyped DEF Wake
    <2>3. QED
      BY <1>11, <2>1, <2>2 DEF Wake, TypeOK
  <1>12. ASSUME NEW r \in Requests, WakeCanceled(r) PROVE TypeOK'
    <2>1. Answer(req[r], "canceled") \in RequestState
      BY <1>0, RequestTyped, KindsTyped, Zenon
    <2>2. QED
      BY <1>12, <2>1 DEF WakeCanceled, TypeOK
  <1>13. ASSUME NEW r \in Requests, Disconnect(r) PROVE TypeOK'
    <2>1. [req[r] EXCEPT !.gone = TRUE] \in RequestState
      BY <1>0, RequestTyped, Zenon
    <2>2. QED
      BY <1>13, <2>1 DEF Disconnect, TypeOK
  <1>14. ASSUME NEW r \in Requests, Reply(r) PROVE TypeOK'
    BY <1>14, IdleTyped DEF Reply, TypeOK
  <1>15. CASE Tick
    BY <1>15, ExecutorAssumption DEF Tick, TypeOK
  <1>16. CASE UNCHANGED vars
    BY <1>16 DEF vars, TypeOK
  <1>17. ASSUME NEW r \in Requests, Begin(r) PROVE TypeOK'
    <2>1. BeginCall(req[r]) \in RequestState
      BY <1>0, RequestTyped, Zenon
    <2>2. overshoot' \in [Providers -> Nat]
      BY <1>17, CallBeginsTyped DEF Begin
    <2>3. QED
      BY <1>17, <2>1, <2>2 DEF Begin, TypeOK
  <1>18. QED
    BY <1>1, <1>2, <1>3, <1>4, <1>5, <1>6, <1>7, <1>8, <1>9, <1>10, <1>11,
       <1>12, <1>13, <1>14, <1>15, <1>16, <1>17 DEF Next, Proceed, Returns

\* A step keeps every request's own invariant.
LEMMA StepRequestsOK == TypeOK /\ RequestsOK /\ [Next]_vars => RequestsOK'
  <1> SUFFICES ASSUME TypeOK, RequestsOK, [Next]_vars PROVE RequestsOK'
    OBVIOUS
  <1>0. /\ \A r \in Requests : req[r] \in RequestState /\ ReqOK(req[r])
        /\ ReqOK(Idle)
    BY DEF TypeOK, RequestsOK, ReqOK, Idle
  <1>1. ASSUME NEW r \in Requests, NEW q, ReqOK(q), req' = [req EXCEPT ![r] = q]
        PROVE  RequestsOK'
    BY <1>0, <1>1 DEF TypeOK, RequestsOK
  <1>2. ASSUME UNCHANGED req PROVE RequestsOK'
    BY <1>2 DEF RequestsOK
  <1>3. ASSUME NEW r \in Requests, Submit(r) PROVE RequestsOK'
    <2>1. PICK ts \in TargetLists, s \in BOOLEAN :
            req' = [req EXCEPT ![r] = [Idle EXCEPT !.pc = "admit",
                      !.targets = ts, !.stream = s, !.idx = 1]]
      BY <1>3 DEF Submit
    <2> DEFINE b == [Idle EXCEPT !.pc = "admit", !.targets = ts,
                                 !.stream = s, !.idx = 1]
    <2>2. /\ b.pc = "admit" /\ b.attempt = 0 /\ b.late = 0 /\ b.errs = <<>>
          /\ b.best = "none" /\ ~b.started /\ b.targets = ts /\ b.idx = 1
      BY DEF Idle
    <2>3. Len(ts) \in Nat \ {0}
      BY ExecutorAssumption
    <2> HIDE DEF b
    <2>4. ReqOK(b)
      BY <2>2, <2>3, ExecutorAssumption DEF ReqOK, IsBest, Failoverable
    <2>5. QED
      BY <1>1, <2>1, <2>4 DEF b
  <1>4. ASSUME NEW r \in Requests, Begin(r) \/ Wake(r)
        PROVE  RequestsOK'
    <2>1. ReqOK(BeginCall(req[r]))
      BY <1>0, <1>4, BeginCallOK DEF Begin, Wake
    <2>2. QED
      BY <1>1, <1>4, <2>1 DEF Begin, Wake
  <1>5. ASSUME NEW r \in Requests, Refuse(r) PROVE RequestsOK'
    <2>1. ReqOK(NextTarget(req[r], "unavailable"))
      <3>1. req[r].late = 0 /\ ~req[r].started /\ Failoverable("unavailable")
        BY <1>0, <1>5 DEF Refuse, ReqOK, RequestState, Failoverable
      <3>2. QED
        BY <1>0, <1>5, <3>1, NextTargetOK, KindsTyped DEF Refuse
    <2>2. QED
      BY <1>1, <1>5, <2>1 DEF Refuse
  <1>6. ASSUME NEW r \in Requests, FirstChunk(r) PROVE RequestsOK'
    <2> DEFINE b == [req[r] EXCEPT !.started = TRUE]
    <2>1. ReqOK(b)
      BY <1>0, <1>6 DEF FirstChunk, ReqOK, RequestState, Retrying
    <2>2. req' = [req EXCEPT ![r] = b]
      BY <1>6 DEF FirstChunk
    <2>3. QED
      BY <1>1, <2>1, <2>2
  <1>7. ASSUME NEW r \in Requests, CallSucceeds(r) PROVE RequestsOK'
    <2>1. ReqOK(Answer(req[r], "none"))
      BY <1>0, <1>7, AnswerOK, KindsTyped DEF CallSucceeds, ReqOK, Phases
    <2>2. QED
      BY <1>1, <1>7, <2>1 DEF CallSucceeds
  <1>8. ASSUME NEW r \in Requests,
               CallCut(r) \/ \E k \in Errors : CallFails(r, k)
        PROVE  RequestsOK'
    <2>0. PICK k \in Errors : Fails(r, k)
      BY <1>8, FailuresFail
    <2> DEFINE b == [req[r] EXCEPT !.pc = "failed", !.err = k]
    <2>1. /\ b.pc = "failed" /\ b.attempt = req[r].attempt /\ b.err = k
          /\ b.late = req[r].late /\ b.targets = req[r].targets
          /\ b.idx = req[r].idx /\ b.gone = req[r].gone
          /\ b.errs = req[r].errs /\ b.best = req[r].best
          /\ b.started = req[r].started
      BY <1>0 DEF RequestState
    <2>2. req' = [req EXCEPT ![r] = b] /\ req[r].pc = "calling"
      BY <2>0 DEF Fails
    <2> HIDE DEF b
    <2>3. ReqOK(b)
      BY <1>0, <2>1, <2>2 DEF ReqOK
    <2>4. QED
      BY <1>1, <2>2, <2>3
  <1>9. ASSUME NEW r \in Requests, Stop(r) PROVE RequestsOK'
    <2>1. ReqOK(Answer(req[r], req[r].err))
      BY <1>0, <1>9, AnswerOK DEF Stop, ReqOK, RequestState, Phases
    <2>2. QED
      BY <1>1, <1>9, <2>1 DEF Stop
  <1>10. ASSUME NEW r \in Requests, Backoff(r) PROVE RequestsOK'
    <2> DEFINE b == [req[r] EXCEPT !.pc = "backoff"]
    <2>1. /\ b.pc = "backoff" /\ b.attempt = req[r].attempt
          /\ b.err = req[r].err
          /\ b.late = req[r].late /\ b.targets = req[r].targets
          /\ b.idx = req[r].idx /\ b.gone = req[r].gone
          /\ b.errs = req[r].errs /\ b.best = req[r].best
          /\ b.started = req[r].started
      BY <1>0 DEF RequestState
    <2>2. /\ req' = [req EXCEPT ![r] = b] /\ req[r].pc = "failed"
          /\ ~req[r].gone /\ ~req[r].started /\ Retrying(req[r])
      BY <1>10 DEF Backoff, Final
    <2> HIDE DEF b
    <2>3. ReqOK(b)
      BY <1>0, <2>1, <2>2 DEF ReqOK, Retrying
    <2>4. QED
      BY <1>1, <2>2, <2>3
  <1>11. ASSUME NEW r \in Requests, FailOver(r) PROVE RequestsOK'
    <2>1. /\ req[r].late = 0 /\ req[r].err \in Errors /\ req[r].pc = "failed"
          /\ ~req[r].started /\ Failoverable(req[r].err)
      BY <1>0, <1>11 DEF FailOver, Final, ReqOK, RequestState
    <2>2. ReqOK(NextTarget(req[r], req[r].err))
      BY <1>0, <2>1, NextTargetOK
    <2>3. QED
      BY <1>1, <1>11, <2>2 DEF FailOver
  <1>12. ASSUME NEW r \in Requests, WakeCanceled(r) PROVE RequestsOK'
    <2>1. ReqOK(Answer(req[r], "canceled"))
      BY <1>0, <1>12, AnswerOK, KindsTyped DEF WakeCanceled, ReqOK, Phases
    <2>2. QED
      BY <1>1, <1>12, <2>1 DEF WakeCanceled
  <1>13. ASSUME NEW r \in Requests, Disconnect(r) PROVE RequestsOK'
    <2> DEFINE b == [req[r] EXCEPT !.gone = TRUE]
    <2>1. ReqOK(b)
      BY <1>0, <1>13 DEF Disconnect, ReqOK, RequestState, Retrying
    <2>2. req' = [req EXCEPT ![r] = b]
      BY <1>13 DEF Disconnect
    <2>3. QED
      BY <1>1, <2>1, <2>2
  <1>14. ASSUME NEW r \in Requests, Reply(r) PROVE RequestsOK'
    BY <1>0, <1>1, <1>14 DEF Reply
  <1>15. ASSUME NEW r \in Requests, Admit(r) \/ AdmitBlind(r)
         PROVE  RequestsOK'
    <2> DEFINE b == [req[r] EXCEPT !.pc = "admitted"]
    <2>1. ReqOK(b)
      BY <1>0, <1>15 DEF Admit, AdmitBlind, ReqOK, RequestState
    <2>2. req' = [req EXCEPT ![r] = b]
      BY <1>15 DEF Admit, AdmitBlind
    <2>3. QED
      BY <1>1, <2>1, <2>2
  <1>16. QED
    BY <1>2, <1>3, <1>4, <1>5, <1>6, <1>7, <1>8, <1>9, <1>10, <1>11, <1>12,
       <1>13, <1>14, <1>15 DEF Next, Proceed, Returns, Tick, vars

(* --- the invariants ------------------------------------------------------ *)

\* The conjunction is inductive.
LEMMA Inductive == Spec => [](TypeOK /\ RequestsOK)
  <1>1. Init => TypeOK /\ RequestsOK
    BY InitTyped DEF Init, RequestsOK, ReqOK, Idle
  <1>2. TypeOK /\ RequestsOK /\ [Next]_vars => (TypeOK /\ RequestsOK)'
    BY StepTyped, StepRequestsOK
  <1>3. QED
    BY <1>1, <1>2, PTL DEF Spec

(* Every variable stays in its type, whatever the interleaving of requests  *)
(* (executor.go:99-198 over breaker.go:79-129).                             *)
THEOREM TypeCorrect == Spec => []TypeOK
  BY Inductive, PTL

(* The retry budget and the bounds of the failover loop hold for every      *)
(* target list and every MaxAttempts (executor.go:114-139, 163-197).        *)
THEOREM BudgetKept == Spec => []WithinBudget
  <1>1. TypeOK /\ RequestsOK => WithinBudget
    BY DEF RequestsOK, ReqOK, WithinBudget
  <1>2. QED
    BY <1>1, Inductive, PTL

(* However cancellation races with the retry timer and failover, a client   *)
(* that left costs at most one more provider call (executor.go:131, 187).   *)
THEOREM DisconnectBounded == Spec => []DisconnectCostsOneCall
  <1>1. TypeOK /\ RequestsOK => DisconnectCostsOneCall
    <2> SUFFICES ASSUME TypeOK, RequestsOK, NEW r \in Requests
                 PROVE  req[r].late <= 1
      BY DEF DisconnectCostsOneCall
    <2>1. req[r].late <= 1
      BY DEF RequestsOK, ReqOK, Idle
    <2>2. QED
      BY <2>1
  <1>2. QED
    BY <1>1, Inductive, PTL

(* The joined error is the earliest of the most informative ones, for every *)
(* number of targets and every mixture of failures and refusals             *)
(* (executor.go:248-280).                                                   *)
THEOREM BestErrorJoined == Spec => []BestErrorReported
  <1>1. TypeOK /\ RequestsOK => BestErrorReported
    <2> SUFFICES ASSUME TypeOK, RequestsOK, NEW r \in Requests,
                        req[r].pc = "done",
                        Len(req[r].errs) = Len(req[r].targets)
                 PROVE  \E i \in DOMAIN req[r].errs :
                          /\ req[r].err = req[r].errs[i]
                          /\ \A j \in DOMAIN req[r].errs :
                               /\ KindRank(req[r].errs[j]) <= KindRank(req[r].err)
                               /\ KindRank(req[r].errs[j]) = KindRank(req[r].err)
                                    => i <= j
      BY DEF BestErrorReported
    <2> DEFINE q == req[r]
    <2>1. ReqOK(q) /\ q.errs \in Seq(Errors)
      BY DEF RequestsOK, TypeOK, RequestState
    <2>2. Len(q.errs) = q.idx /\ q.err = q.best /\ q.errs # <<>>
      BY <2>1, ExecutorAssumption DEF ReqOK
    <2>3. QED
      BY <2>1, <2>2 DEF ReqOK, IsBest
  <1>2. QED
    BY <1>1, Inductive, PTL

(* --- the circuits --------------------------------------------------------- *)

\* An event leaves all circuits consistent.
LEMMA EventConsistent ==
  ASSUME TypeOK, CircuitsConsistent, NEW p \in Providers, EventAt(p)
  PROVE  CircuitsConsistent'
  <1>1. PICK e : Reported(p, e) /\ SetCircuit(p, e)
    BY DEF EventAt
  <1>2. EntryConsistent(e)
    BY <1>1, ReportedTyped DEF CircuitsConsistent
  <1>3. QED
    BY <1>1, <1>2 DEF TypeOK, CircuitsConsistent, SetCircuit

\* A request's target is a provider.
LEMMA TargetIsProvider ==
  ASSUME RequestsOK, NEW r \in Requests, req[r].pc # "idle"
  PROVE  Target(r) \in Providers
  BY ExecutorAssumption DEF RequestsOK, ReqOK, Target

(* The circuit of every provider agrees with its counters in every          *)
(* interleaving of overlapping requests, for both stores, lost events       *)
(* included (breaker.go:79-129, redis_breaker.go:34-83).                    *)
THEOREM CircuitsAlwaysConsistent == Spec => []CircuitsConsistent
  <1>1. Init => CircuitsConsistent
    BY BreakerConfigAssumption
    DEF Init, CircuitsConsistent, NewEntry, EntryConsistent
  <1>2. TypeOK /\ RequestsOK /\ CircuitsConsistent /\ [Next]_vars
          => CircuitsConsistent'
    <2> SUFFICES ASSUME TypeOK, RequestsOK, CircuitsConsistent, [Next]_vars
                 PROVE  CircuitsConsistent'
      OBVIOUS
    <2>1. ASSUME UNCHANGED circuit PROVE CircuitsConsistent'
      BY <2>1 DEF CircuitsConsistent
    <2>2. ASSUME NEW r \in Requests,
                 \/ Admit(r) \/ Refuse(r) \/ CallSucceeds(r)
                 \/ \E k \in Errors : Fails(r, k)
          PROVE  CircuitsConsistent'
      <3>1. Target(r) \in Providers
        BY <2>2, TargetIsProvider DEF Admit, Refuse, CallSucceeds, Fails
      <3>2. EventAt(Target(r)) \/ NoEvent
        BY <2>2, EventsOf
      <3>3. QED
        BY <2>1, <3>1, <3>2, EventConsistent DEF NoEvent
    <2>3. QED
      BY <2>1, <2>2, FailuresFail
      DEF Next, Proceed, Returns, Tick, vars, Submit, AdmitBlind, FirstChunk,
          Begin, Stop, Backoff, FailOver, Wake, WakeCanceled, Disconnect, Reply
  <1>3. QED
    BY <1>1, <1>2, Inductive, PTL DEF Spec

(* While a circuit of the in-memory store is closed, its counter is exactly *)
(* the upstream faults since the provider's last success and the calls that *)
(* clients cut off while an answer was decoded, and below the threshold:    *)
(* callers' mistakes and failed writes never open a circuit, disconnects    *)
(* may, against executor.go:180-182 (breaker.go:38, openai.go:162-163).     *)
THEOREM ClosedCounts ==
  ASSUME ~Shared, ~StoreFails
  PROVE  Spec => []ClosedCountsFaults
  <1>1. Init => ClosedCountsFaults
    BY BreakerConfigAssumption DEF Init, ClosedCountsFaults, NewEntry, NoFailures
  <1>2. TypeOK /\ RequestsOK /\ ClosedCountsFaults /\ [Next]_vars
          => ClosedCountsFaults'
    <2> SUFFICES ASSUME TypeOK, RequestsOK, ClosedCountsFaults, [Next]_vars
                 PROVE  ClosedCountsFaults'
      OBVIOUS
    <2> USE DEF ClosedCountsFaults
    <2>1. /\ \A p \in Providers : /\ circuit[p] \in Entry
                                  /\ streak[p] \in [faults : Nat, cuts : Nat]
          /\ DOMAIN circuit = Providers /\ DOMAIN streak = Providers
      BY DEF TypeOK
    <2>2. ASSUME UNCHANGED <<circuit, streak>> PROVE ClosedCountsFaults'
      BY <2>2
    <2>3. ASSUME NEW r \in Requests, Admit(r) \/ Refuse(r)
          PROVE  ClosedCountsFaults'
      <3>1. Target(r) \in Providers
        BY <2>3, TargetIsProvider DEF Admit, Refuse
      <3>2. PICK e : /\ e = Snapshot(circuit[Target(r)], now)
                     /\ SetCircuit(Target(r), e)
        BY <2>3, StoredInMemory DEF Admit, Refuse
      <3>3. e.state = "closed" => e = circuit[Target(r)]
        BY <2>1, <3>1, <3>2
        DEF Snapshot, LocalSnapshot, ScriptPeek, CoolDown, Entry
      <3>4. QED
        BY <2>1, <2>3, <3>1, <3>2, <3>3 DEF Admit, Refuse, SetCircuit
    <2>4. ASSUME NEW r \in Requests, CallSucceeds(r) PROVE ClosedCountsFaults'
      <3>1. Target(r) \in Providers
        BY <2>4, TargetIsProvider DEF CallSucceeds
      <3>2. PICK e : /\ e = RecordSuccess(circuit[Target(r)], now)
                     /\ SetCircuit(Target(r), e)
        BY <2>4, StoredInMemory DEF CallSucceeds, EventLost, StoreError
      <3>3. e.state = "closed" => e.failures = 0
        BY <2>1, <3>1, <3>2 DEF RecordSuccess, LocalRecordSuccess, Succeed, Entry
      <3>4. QED
        BY <2>1, <2>4, <3>1, <3>2, <3>3, BreakerConfigAssumption
        DEF CallSucceeds, SetCircuit, NoFailures
    <2>5. ASSUME NEW r \in Requests, Target(r) \in Providers,
                 NEW cause \in {"faults", "cuts"},
                 SetCircuit(Target(r), RecordFailure(circuit[Target(r)], now)),
                 streak' = [streak EXCEPT ![Target(r)] = OneMore(@, cause)]
          PROVE  ClosedCountsFaults'
      <3> DEFINE c == circuit[Target(r)]
                 e == RecordFailure(c, now)
                 n == streak[Target(r)]
      <3>1. /\ SetCircuit(Target(r), e)
            /\ streak'[Target(r)] = OneMore(n, cause)
            /\ \A p \in Providers : p # Target(r) => streak'[p] = streak[p]
        BY <2>1, <2>5
      <3>2. c \in Entry /\ n \in [faults : Nat, cuts : Nat]
        BY <2>1, <2>5
      <3>3. e.state = "closed" => /\ c.state = "closed"
                                  /\ e.failures = c.failures + 1
                                  /\ e.failures < FailureThreshold
        <4>1. e = Fail(c, now)
          BY DEF RecordFailure, LocalRecordFailure
        <4>2. CASE c.state = "half_open"
          <5>1. Fail(c, now) = [Trip(c, now) EXCEPT !.successes = 0]
            BY <4>2 DEF Fail
          <5>2. [Trip(c, now) EXCEPT !.successes = 0].state = "open"
            BY <3>2 DEF Trip, Entry
          <5>3. QED
            BY <4>1, <5>1, <5>2
        <4>3. CASE c.state # "half_open"
          <5> DEFINE counted == [c EXCEPT !.failures = @ + 1]
          <5>1. /\ counted.state = c.state
                /\ counted.failures = c.failures + 1
            BY <3>2 DEF Entry
          <5>2. Trip(counted, now).state = "open"
            BY <3>2 DEF Trip, Entry
          <5>3. Fail(c, now) = IF counted.failures >= FailureThreshold
                               THEN Trip(counted, now) ELSE counted
            BY <4>3 DEF Fail
          <5>4. c.failures + 1 \in Nat
            BY <3>2 DEF Entry
          <5> HIDE DEF counted, e, c
          <5>5. CASE c.failures + 1 >= FailureThreshold
            BY <4>1, <5>1, <5>2, <5>3, <5>5
          <5>6. CASE ~(c.failures + 1 >= FailureThreshold)
            BY <4>1, <5>1, <5>3, <5>4, <5>6, BreakerConfigAssumption
          <5>7. QED
            BY <5>5, <5>6
        <4>4. QED
          BY <4>2, <4>3
      <3>4. c.state = "closed" => /\ c.failures = n.faults + n.cuts
                                  /\ n.faults + n.cuts < FailureThreshold
        BY <2>5
      <3>5. n.faults + n.cuts < FailureThreshold =>
              OneMore(n, cause).faults + OneMore(n, cause).cuts
                = n.faults + n.cuts + 1
        BY <2>5, <3>2, BreakerConfigAssumption DEF OneMore
      <3> HIDE DEF e, c, n
      <3>6. e.state = "closed" =>
              /\ e.failures = streak'[Target(r)].faults + streak'[Target(r)].cuts
              /\ e.failures < FailureThreshold
        BY <3>1, <3>3, <3>4, <3>5
      <3>7. \A p \in Providers : /\ circuit'[p] = IF p = Target(r) THEN e
                                                  ELSE circuit[p]
                                 /\ p # Target(r) => streak'[p] = streak[p]
        BY <2>1, <3>1 DEF SetCircuit
      <3>8. QED
        BY <3>6, <3>7
    <2>6. ASSUME NEW r \in Requests, NEW k \in Errors, Fails(r, k)
          PROVE  /\ Target(r) \in Providers
                 /\ CountsAgainstProvider(k) =>
                      SetCircuit(Target(r), RecordFailure(circuit[Target(r)], now))
                 /\ ~CountsAgainstProvider(k) => UNCHANGED circuit
      BY <2>6, TargetIsProvider, StoredInMemory DEF Fails, EventLost, StoreError
    <2>7. ASSUME NEW r \in Requests, NEW k \in Errors, CallFails(r, k)
          PROVE  ClosedCountsFaults'
      <3>1. CountsAgainstProvider(k) <=> k \in UpstreamFault
        BY DEF CountsAgainstProvider, UpstreamFault, Kinds
      <3>2. CASE k \in UpstreamFault
        BY <2>5, <2>6, <2>7, <3>1, <3>2 DEF CallFails
      <3>3. CASE k \notin UpstreamFault
        BY <2>2, <2>6, <2>7, <3>1, <3>3 DEF CallFails
      <3>4. QED
        BY <3>2, <3>3
    <2>8. ASSUME NEW r \in Requests, CallCut(r) PROVE ClosedCountsFaults'
      <3>1. "unavailable" \in Errors /\ CountsAgainstProvider("unavailable")
        BY DEF CountsAgainstProvider, Errors, Kinds
      <3>2. QED
        BY <2>5, <2>6, <2>8, <3>1 DEF CallCut
    <2>9. QED
      BY <2>2, <2>3, <2>4, <2>7, <2>8
      DEF Next, Proceed, Returns, Tick, vars, Submit, AdmitBlind, FirstChunk,
          Begin, Stop, Backoff, FailOver, Wake, WakeCanceled, Disconnect, Reply
  <1>3. QED
    BY <1>1, <1>2, Inductive, PTL DEF Spec

(* --- what gets through an open circuit ------------------------------------ *)

\* The calls that requests admitted to p may still make there.
AtTarget(r, p) ==
  /\ req[r].pc \in {"admitted", "calling", "failed", "backoff"}
  /\ Target(r) = p

CallsAt(p) ==
  {x \in Requests \X (1..MaxAttempts) :
     AtTarget(x[1], p) /\ req[x[1]].attempt < x[2]}

(* What has got through an open circuit and what still may stay below what   *)
(* all requests together may call: the call whose failure opened it is one   *)
(* of those, and a call that is begun is one that is not left.               *)
OvershootInv ==
  \A p \in Providers :
    /\ circuit[p].state # "open" => overshoot[p] = 0
    /\ circuit[p].state = "open" =>
         overshoot[p] + Cardinality(CallsAt(p)) < CallsOfAll

\* There are no more pairs of a request and an attempt than CallsOfAll, and
\* fewer when one of them is missing.
LEMMA CallsCounted ==
  ASSUME NEW S, S \subseteq Requests \X (1..MaxAttempts)
  PROVE  /\ IsFiniteSet(S) /\ Cardinality(S) \in Nat /\ CallsOfAll \in Nat
         /\ \A x \in Requests \X (1..MaxAttempts) :
              x \notin S => Cardinality(S) < CallsOfAll
  <1> DEFINE All == Requests \X (1..MaxAttempts)
  <1>1. IsFiniteSet(Requests) /\ MaxAttempts \in Nat \ {0}
    BY ExecutorAssumption
  <1>2. IsFiniteSet(1..MaxAttempts) /\ Cardinality(1..MaxAttempts) = MaxAttempts
    BY <1>1, FS_Interval
  <1>3. IsFiniteSet(All) /\ Cardinality(All) = CallsOfAll
    BY <1>1, <1>2, FS_Product DEF CallsOfAll
  <1>4. IsFiniteSet(S) /\ Cardinality(S) \in Nat /\ CallsOfAll \in Nat
    BY <1>3, FS_Subset, FS_CardinalityType
  <1>5. ASSUME NEW x \in All, x \notin S PROVE Cardinality(S) < CallsOfAll
    <2>1. /\ IsFiniteSet(All \ {x})
          /\ Cardinality(All \ {x}) = CallsOfAll - 1
      BY <1>3, <1>5, FS_RemoveElement
    <2>2. S \subseteq All \ {x}
      BY <1>5
    <2> HIDE DEF All
    <2>3. Cardinality(S) <= CallsOfAll - 1
      BY <2>1, <2>2, FS_Subset
    <2>4. QED
      BY <1>4, <2>3
  <1>6. QED
    BY <1>4, <1>5

LEMMA CallsTyped ==
  \A p : /\ IsFiniteSet(CallsAt(p)) /\ Cardinality(CallsAt(p)) \in Nat
        /\ IsFiniteSet(CallsAt(p)') /\ Cardinality(CallsAt(p)') \in Nat
        /\ CallsOfAll \in Nat
  <1> TAKE p
  <1>1. /\ CallsAt(p) \subseteq Requests \X (1..MaxAttempts)
        /\ CallsAt(p)' \subseteq Requests \X (1..MaxAttempts)
    BY DEF CallsAt
  <1>2. QED
    BY <1>1, CallsCounted

\* Where no call is added there are no more of them, and where one is missing
\* they are not all.
LEMMA CallsFewer ==
  ASSUME NEW p
  PROVE  /\ CallsAt(p)' \subseteq CallsAt(p) =>
              Cardinality(CallsAt(p)') <= Cardinality(CallsAt(p))
         /\ \A x \in Requests \X (1..MaxAttempts) :
              x \notin CallsAt(p)' => Cardinality(CallsAt(p)') < CallsOfAll
  <1>1. CallsAt(p)' \subseteq Requests \X (1..MaxAttempts)
    BY DEF CallsAt
  <1>2. QED
    BY <1>1, CallsCounted, CallsTyped, FS_Subset

\* Steps that give no request another call at any provider.
LEMMA NoMoreCalls ==
  ASSUME NEW r \in Requests,
         \A x \in Requests : x # r => req'[x] = req[x],
         req'[r].pc \in {"admitted", "calling", "failed", "backoff"} =>
           /\ req[r].pc \in {"admitted", "calling", "failed", "backoff"}
           /\ req'[r].targets = req[r].targets /\ req'[r].idx = req[r].idx
           /\ req'[r].attempt = req[r].attempt
  PROVE  \A p : CallsAt(p)' \subseteq CallsAt(p)
  <1>1. ASSUME NEW x \in Requests, NEW p, AtTarget(x, p)'
        PROVE  AtTarget(x, p) /\ req'[x].attempt = req[x].attempt
    BY <1>1 DEF AtTarget, Target
  <1>2. QED
    BY <1>1 DEF CallsAt

\* A request that leaves a target waits for the next one or is answered.
LEMMA NextTargetLeaves ==
  ASSUME NEW q \in RequestState, NEW e
  PROVE  NextTarget(q, e).pc \in {"admit", "done"}
  BY DEF NextTarget, Answer, RequestState

\* A breaker event of a request that has no first call to make any more keeps
\* the count of an open circuit, or resets it below the bound.
LEMMA EventKeepsCount ==
  ASSUME ~Shared, TypeOK, OvershootInv, NEW p \in Providers, NEW r \in Requests,
         EventAt(p) \/ NoEvent,
         \A q : CallsAt(q)' \subseteq CallsAt(q) /\ <<r, 1>> \notin CallsAt(q)'
  PROVE  OvershootInv'
  <1>1. /\ circuit \in [Providers -> Entry] /\ overshoot \in [Providers -> Nat]
        /\ \A q : Stored(q) = circuit[q]
    BY StoredInMemory DEF TypeOK
  <1>2. <<r, 1>> \in Requests \X (1..MaxAttempts)
    BY ExecutorAssumption
  <1>3. ASSUME NEW q \in Providers
        PROVE  /\ circuit'[q].state # "open" => overshoot'[q] = 0
               /\ circuit'[q].state = "open" =>
                    \/ overshoot'[q] = 0
                    \/ circuit[q].state = "open" /\ overshoot'[q] = overshoot[q]
    <2>1. CASE NoEvent
      BY <1>1, <2>1 DEF NoEvent, OvershootInv
    <2>2. CASE EventAt(p)
      BY <1>1, <2>2 DEF EventAt, SetCircuit, OvershootInv
    <2>3. QED
      BY <2>1, <2>2
  <1>4. ASSUME NEW q \in Providers, circuit'[q].state = "open"
        PROVE  overshoot'[q] + Cardinality(CallsAt(q)') < CallsOfAll
    <2> DEFINE left == Cardinality(CallsAt(q)')
    <2>1. /\ left \in Nat /\ left < CallsOfAll /\ CallsOfAll \in Nat
          /\ left <= Cardinality(CallsAt(q))
          /\ Cardinality(CallsAt(q)) \in Nat /\ overshoot[q] \in Nat
      BY <1>1, <1>2, CallsTyped, CallsFewer
    <2>2. CASE overshoot'[q] = 0
      BY <2>1, <2>2
    <2>3. CASE circuit[q].state = "open" /\ overshoot'[q] = overshoot[q]
      <3>1. overshoot[q] + Cardinality(CallsAt(q)) < CallsOfAll
        BY <2>3 DEF OvershootInv
      <3> HIDE DEF left
      <3>2. overshoot'[q] + left < CallsOfAll
        BY <2>1, <2>3, <3>1
      <3>3. QED
        BY <3>2 DEF left
    <2>4. QED
      BY <1>3, <1>4, <2>2, <2>3
  <1>5. QED
    BY <1>3, <1>4 DEF OvershootInv

\* A call that begins is one of those that were left.
LEMMA CallKeepsCount ==
  ASSUME ~Shared, TypeOK, RequestsOK, OvershootInv, NEW r \in Requests,
         Begin(r) \/ Wake(r)
  PROVE  OvershootInv'
  <1>0. /\ req \in [Requests -> RequestState] /\ req[r] \in RequestState
        /\ ReqOK(req[r]) /\ overshoot \in [Providers -> Nat]
    BY DEF TypeOK, RequestsOK
  <1> DEFINE k == req[r].attempt + 1
  <1>1. /\ req[r].pc \in {"admitted", "backoff"}
        /\ req' = [req EXCEPT ![r] = BeginCall(@)]
        /\ CallBegins(Target(r)) /\ UNCHANGED circuit
    BY DEF Begin, Wake
  <1>2. PICK t \in Providers : t = Target(r)
    BY <1>1, TargetIsProvider
  <1>3. /\ req[r].attempt \in Nat /\ k \in 1..MaxAttempts
        /\ req'[r].attempt = k /\ req'[r].pc = "calling"
        /\ req'[r].targets = req[r].targets /\ req'[r].idx = req[r].idx
        /\ \A x \in Requests : x # r => req'[x] = req[x]
    <2>1. req[r].attempt \in Nat /\ req[r].attempt < MaxAttempts
      BY <1>0, <1>1, ExecutorAssumption DEF ReqOK, Retrying, RequestState
    <2>2. QED
      BY <1>0, <1>1, <2>1, ExecutorAssumption DEF BeginCall, RequestState
  <1>4. \A p : CallsAt(p)' \subseteq CallsAt(p)
    BY <1>1, <1>3 DEF CallsAt, AtTarget, Target
  <1>5. <<r, k>> \in CallsAt(t) /\ <<r, k>> \notin CallsAt(t)'
    BY <1>1, <1>2, <1>3 DEF CallsAt, AtTarget
  <1>6. Cardinality(CallsAt(t)') <= Cardinality(CallsAt(t)) - 1
    <2>1. CallsAt(t)' \subseteq CallsAt(t) \ {<<r, k>>}
      BY <1>4, <1>5
    <2>2. /\ IsFiniteSet(CallsAt(t) \ {<<r, k>>})
          /\ Cardinality(CallsAt(t) \ {<<r, k>>}) = Cardinality(CallsAt(t)) - 1
      BY <1>5, CallsTyped, FS_RemoveElement
    <2>3. Cardinality(CallsAt(t)') <= Cardinality(CallsAt(t) \ {<<r, k>>})
      BY <2>1, <2>2, FS_Subset
    <2>4. QED
      BY <2>2, <2>3
  <1>7. /\ overshoot'[t] \in Nat /\ overshoot'[t] <= overshoot[t] + 1
        /\ circuit[t].state # "open" => overshoot'[t] = overshoot[t]
        /\ \A p \in Providers : p # t => overshoot'[p] = overshoot[p]
    BY <1>0, <1>1, <1>2, ExecutorAssumption, StoredInMemory
    DEF CallBegins, Saturating
  <1>8. ASSUME NEW p \in Providers
        PROVE  /\ circuit'[p].state # "open" => overshoot'[p] = 0
               /\ circuit'[p].state = "open" =>
                    overshoot'[p] + Cardinality(CallsAt(p)') < CallsOfAll
    <2>1. CASE p = t
      BY <1>0, <1>1, <1>6, <1>7, <2>1, CallsTyped DEF OvershootInv
    <2>2. CASE p # t
      <3>1. Cardinality(CallsAt(p)') <= Cardinality(CallsAt(p))
        BY <1>4, CallsFewer
      <3>2. QED
        BY <1>0, <1>1, <1>7, <2>2, <3>1, CallsTyped DEF OvershootInv
    <2>3. QED
      BY <2>1, <2>2
  <1>9. QED
    BY <1>8 DEF OvershootInv

\* With a store that answers, no call begins but those of admitted requests,
\* and none is admitted by an open circuit.
LEMMA OvershootStep ==
  ASSUME ~Shared, ~StoreFails, TypeOK, RequestsOK, OvershootInv, [Next]_vars
  PROVE  OvershootInv'
  <1>0. /\ req \in [Requests -> RequestState]
        /\ \A r \in Requests : req[r] \in RequestState /\ ReqOK(req[r])
        /\ overshoot \in [Providers -> Nat]
        /\ \A r \in Requests : ~StoreError(r)
    BY DEF TypeOK, RequestsOK, StoreError
  <1>1. ASSUME UNCHANGED <<circuit, overshoot>>,
               \A p : CallsAt(p)' \subseteq CallsAt(p)
        PROVE  OvershootInv'
    <2>1. ASSUME NEW p \in Providers, circuit[p].state = "open"
          PROVE  overshoot[p] + Cardinality(CallsAt(p)') < CallsOfAll
      <3>1. /\ Cardinality(CallsAt(p)') <= Cardinality(CallsAt(p))
            /\ overshoot[p] + Cardinality(CallsAt(p)) < CallsOfAll
        BY <1>1, <2>1, CallsFewer DEF OvershootInv
      <3>2. QED
        BY <1>0, <3>1, CallsTyped
    <2>2. QED
      BY <1>1, <2>1 DEF OvershootInv
  <1>2. ASSUME NEW r \in Requests, Admit(r) PROVE OvershootInv'
    <2>1. Target(r) \in Providers
      BY <1>2, TargetIsProvider DEF Admit
    <2>t. PICK t \in Providers : t = Target(r)
      BY <2>1
    <2>2. PICK e : e.state # "open" /\ SetCircuit(t, e)
      BY <1>2, <2>t DEF Admit
    <2>3. circuit'[t].state # "open" /\ overshoot'[t] = 0
      BY <2>2 DEF SetCircuit, TypeOK
    <2>4. \A p \in Providers :
            p # t => circuit'[p] = circuit[p] /\ overshoot'[p] = overshoot[p]
      BY <2>2 DEF SetCircuit, TypeOK
    <2>5. \A p \in Providers : p # t => CallsAt(p)' \subseteq CallsAt(p)
      <3>1. /\ \A x \in Requests : x # r => req'[x] = req[x]
            /\ req'[r].targets = req[r].targets /\ req'[r].idx = req[r].idx
        BY <1>0, <1>2 DEF Admit, RequestState
      <3>2. QED
        BY <2>t, <3>1 DEF CallsAt, AtTarget, Target
    <2>6. ASSUME NEW p \in Providers
          PROVE  /\ circuit'[p].state # "open" => overshoot'[p] = 0
                 /\ circuit'[p].state = "open" =>
                      overshoot'[p] + Cardinality(CallsAt(p)') < CallsOfAll
      <3>1. CASE p = t
        BY <2>3, <3>1
      <3>2. CASE p # t
        <4>1. Cardinality(CallsAt(p)') <= Cardinality(CallsAt(p))
          BY <2>5, <3>2, CallsFewer
        <4>2. QED
          BY <1>0, <2>4, <3>2, <4>1, CallsTyped DEF OvershootInv
      <3>3. QED
        BY <3>1, <3>2
    <2>7. QED
      BY <2>6 DEF OvershootInv
  <1>3. ASSUME NEW r \in Requests, Begin(r) \/ Wake(r) PROVE OvershootInv'
    BY <1>3, CallKeepsCount
  <1>4. ASSUME NEW r \in Requests, NEW k, Fails(r, k) PROVE OvershootInv'
    <2>1. Target(r) \in Providers
      BY <1>4, TargetIsProvider DEF Fails
    <2>2. \A p : CallsAt(p)' \subseteq CallsAt(p)
      BY <1>0, <1>4, NoMoreCalls DEF Fails, RequestState
    <2>3. req'[r].attempt \in Nat \ {0}
      BY <1>0, <1>4 DEF Fails, ReqOK, RequestState
    <2>4. \A p : <<r, 1>> \notin CallsAt(p)'
      BY <2>3 DEF CallsAt
    <2>5. QED
      BY <1>4, <2>1, <2>2, <2>4, EventsOf, EventKeepsCount
  <1>5. ASSUME NEW r \in Requests,
               Submit(r) \/ Refuse(r) \/ CallSucceeds(r) \/ Stop(r)
                 \/ FailOver(r) \/ WakeCanceled(r) \/ Reply(r)
        PROVE  OvershootInv'
    <2> DEFINE Left == /\ req'[r].pc \in {"idle", "admit", "done"}
                       /\ \A x \in Requests : x # r => req'[x] = req[x]
    <2>1. Left
      <3>1. CASE Submit(r)
        BY <1>0, <3>1 DEF Submit, Idle
      <3>2. ASSUME NEW e, req' = [req EXCEPT ![r] = NextTarget(req[r], e)]
            PROVE  Left
        BY <1>0, <3>2, NextTargetLeaves
      <3>3. ASSUME NEW e, req' = [req EXCEPT ![r] = Answer(req[r], e)]
            PROVE  Left
        BY <1>0, <3>3 DEF Answer, RequestState
      <3>4. CASE Refuse(r)
        <4>1. req' = [req EXCEPT ![r] = NextTarget(req[r], "unavailable")]
          BY <3>4 DEF Refuse
        <4>2. QED
          BY <3>2, <4>1
      <3>5. CASE FailOver(r)
        <4>1. req' = [req EXCEPT ![r] = NextTarget(req[r], req[r].err)]
          BY <3>5 DEF FailOver
        <4>2. QED
          BY <3>2, <4>1
      <3>6. CASE Stop(r)
        <4>1. req' = [req EXCEPT ![r] = Answer(req[r], req[r].err)]
          BY <3>6 DEF Stop
        <4>2. QED
          BY <3>3, <4>1
      <3>7. CASE WakeCanceled(r)
        <4>1. req' = [req EXCEPT ![r] = Answer(req[r], "canceled")]
          BY <3>7 DEF WakeCanceled
        <4>2. QED
          BY <3>3, <4>1
      <3>8. CASE Reply(r)
        BY <1>0, <3>8 DEF Reply, Idle
      <3>9. CASE CallSucceeds(r)
        <4>1. req' = [req EXCEPT ![r] = Answer(req[r], "none")]
          BY <3>9 DEF CallSucceeds
        <4>2. QED
          BY <3>3, <4>1
      <3>10. QED
        BY <1>5, <3>1, <3>4, <3>5, <3>6, <3>7, <3>8, <3>9
    <2>2. \A p : CallsAt(p)' \subseteq CallsAt(p) /\ <<r, 1>> \notin CallsAt(p)'
      <3>1. \A p : CallsAt(p)' \subseteq CallsAt(p)
        BY <2>1, NoMoreCalls
      <3>2. QED
        BY <2>1, <3>1 DEF CallsAt, AtTarget
    <2>3. CASE Refuse(r) \/ CallSucceeds(r)
      <3>1. Target(r) \in Providers
        BY <2>3, TargetIsProvider DEF Refuse, CallSucceeds
      <3>2. QED
        BY <2>2, <2>3, <3>1, EventsOf, EventKeepsCount
    <2>4. CASE ~(Refuse(r) \/ CallSucceeds(r))
      <3>1. UNCHANGED <<circuit, overshoot>>
        BY <1>5, <2>4 DEF Submit, Stop, FailOver, WakeCanceled, Reply
      <3>2. QED
        BY <1>1, <2>2, <3>1
    <2>5. QED
      BY <2>3, <2>4
  <1>6. ASSUME NEW r \in Requests, Backoff(r) \/ FirstChunk(r) \/ Disconnect(r)
        PROVE  OvershootInv'
    <2>1. \A p : CallsAt(p)' \subseteq CallsAt(p)
      <3>1. CASE Backoff(r)
        BY <1>0, <3>1, NoMoreCalls DEF Backoff, RequestState
      <3>2. CASE FirstChunk(r)
        BY <1>0, <3>2, NoMoreCalls DEF FirstChunk, RequestState
      <3>3. CASE Disconnect(r)
        BY <1>0, <3>3, NoMoreCalls DEF Disconnect, RequestState
      <3>4. QED
        BY <1>6, <3>1, <3>2, <3>3
    <2>2. UNCHANGED <<circuit, overshoot>>
      BY <1>6 DEF Backoff, FirstChunk, Disconnect
    <2>3. QED
      BY <1>1, <2>1, <2>2
  <1>7. ASSUME NEW r \in Requests, AdmitBlind(r) PROVE OvershootInv'
    BY <1>0, <1>7 DEF AdmitBlind
  <1>8. CASE Tick \/ UNCHANGED vars
    <2>1. UNCHANGED <<circuit, req, overshoot>>
      BY <1>8 DEF Tick, vars
    <2>2. \A p : CallsAt(p)' \subseteq CallsAt(p)
      BY <2>1 DEF CallsAt, AtTarget, Target
    <2>3. QED
      BY <1>1, <2>1, <2>2
  <1>9. QED
    BY <1>2, <1>3, <1>4, <1>5, <1>6, <1>7, <1>8, FailuresFail
    DEF Next, Proceed, Returns

(* With an in-memory store an open circuit is overrun by first attempts and  *)
(* retries of the requests admitted before it opened, and by no other call:  *)
(* by fewer calls than all requests together may make at one target, since   *)
(* one of those has failed and opened it (executor.go:112-127, 157-197).     *)
THEOREM OvershootIsBounded ==
  ASSUME ~Shared, ~StoreFails
  PROVE  Spec => []OvershootBounded
  <1>1. Init => OvershootInv
    BY DEF Init, OvershootInv, NewEntry
  <1>2. TypeOK /\ RequestsOK /\ OvershootInv /\ [Next]_vars => OvershootInv'
    BY OvershootStep
  <1>3. TypeOK /\ OvershootInv => OvershootBounded
    <2> SUFFICES ASSUME TypeOK, OvershootInv, NEW p \in Providers,
                        circuit[p].state = "open"
                 PROVE  overshoot[p] < CallsOfAll
      BY DEF OvershootBounded
    <2>1. /\ overshoot[p] \in Nat
          /\ overshoot[p] + Cardinality(CallsAt(p)) < CallsOfAll
      BY DEF TypeOK, OvershootInv
    <2>2. QED
      BY <2>1, CallsTyped
  <1>4. QED
    BY <1>1, <1>2, <1>3, Inductive, PTL DEF Spec

(* --- replicas and keys that expire ---------------------------------------- *)

\* An event of the script finds the circuit cooled down, and one event is not
\* enough to close a circuit that wants several probes.
LEMMA CooledStaysOut ==
  ASSUME Shared, HalfOpenProbes > 1, NEW e \in Entry, e.state = "open",
         NEW t \in Int, t - e.openedAt >= OpenDuration
  PROVE  /\ Snapshot(e, t).state # "closed"
         /\ RecordSuccess(e, t).state # "closed"
         /\ RecordFailure(e, t).state # "closed"
  <1> DEFINE c == CoolDown(e, t)
  <1>1. c.state = "half_open" /\ c.successes = 0
    BY DEF CoolDown, Entry
  <1>2. Snapshot(e, t) = c /\ RecordSuccess(e, t) = Succeed(c)
          /\ RecordFailure(e, t) = Fail(c, t)
    BY DEF Snapshot, RecordSuccess, RecordFailure, ScriptPeek, ScriptSuccess,
           ScriptFailure
  <1>3. c \in [state : State, failures : Nat, successes : Nat, openedAt : Int]
    BY DEF CoolDown, Entry, State
  <1> HIDE DEF c
  <1>4. Succeed(c).state = "half_open"
    <2>1. ~(c.successes + 1 >= HalfOpenProbes)
      BY <1>1, BreakerConfigAssumption
    <2>2. QED
      BY <1>1, <1>3, <2>1 DEF Succeed
  <1>5. Fail(c, t).state = "open"
    BY <1>1, <1>3 DEF Fail, Trip
  <1>6. QED
    BY <1>1, <1>2, <1>4, <1>5

\* A circuit and its key change only by an event of the provider.
LEMMA CircuitChanges ==
  ASSUME TypeOK, [Next]_vars, NEW p \in Providers
  PROVE  \/ circuit'[p] = circuit[p] /\ touched'[p] = touched[p]
         \/ Reported(p, circuit'[p])
              /\ touched'[p] = IF Shared THEN now ELSE touched[p]
  <1>1. ASSUME NEW q, EventAt(q)
        PROVE  \/ circuit'[p] = circuit[p] /\ touched'[p] = touched[p]
               \/ Reported(p, circuit'[p])
                    /\ touched'[p] = IF Shared THEN now ELSE touched[p]
    BY <1>1 DEF EventAt, SetCircuit, TypeOK
  <1>2. ASSUME NEW r \in Requests,
               \/ Admit(r) \/ Refuse(r) \/ CallSucceeds(r)
               \/ \E k \in Errors : Fails(r, k)
        PROVE  EventAt(Target(r)) \/ UNCHANGED <<circuit, touched>>
    BY <1>2, EventsOf DEF NoEvent
  <1>3. ASSUME NEW r \in Requests,
               \/ Submit(r) \/ AdmitBlind(r) \/ Begin(r) \/ Stop(r)
               \/ Backoff(r) \/ FailOver(r) \/ Wake(r) \/ WakeCanceled(r)
               \/ FirstChunk(r) \/ Disconnect(r) \/ Reply(r)
        PROVE  UNCHANGED <<circuit, touched>>
    BY <1>3 DEF Submit, AdmitBlind, Begin, Stop, Backoff, FailOver, Wake,
                WakeCanceled, FirstChunk, Disconnect, Reply
  <1>4. CASE Tick \/ UNCHANGED vars
    BY <1>4 DEF Tick, vars
  <1>5. QED
    BY <1>1, <1>2, <1>3, <1>4, FailuresFail DEF Next, Proceed, Returns

(* With shared state, the success of a call that outlives the cooldown of    *)
(* the circuit, by every replica's clock, is one probe: it never closes the  *)
(* circuit by itself, whatever other requests do in the meantime, unless the *)
(* circuit's key has expired (redis_breaker.go:47-83).                       *)
THEOREM CooledNeedsProbes ==
  ASSUME Shared
  PROVE  Spec => CooledCircuitNeedsProbes
  <1> DEFINE Probed == \A p \in Providers :
                /\ circuit[p].state = "open"
                /\ now - circuit[p].openedAt >= OpenDuration + ClockSkew
                /\ ~Expired(p)
                /\ HalfOpenProbes > 1
                => circuit'[p].state # "closed"
  <1>1. TypeOK /\ [Next]_vars => [Probed]_vars
    <2> SUFFICES ASSUME TypeOK, [Next]_vars, NEW p \in Providers,
                        circuit[p].state = "open",
                        now - circuit[p].openedAt >= OpenDuration + ClockSkew,
                        ~Expired(p),
                        HalfOpenProbes > 1
                 PROVE  circuit'[p].state # "closed"
      OBVIOUS
    <2>1. /\ circuit[p] \in Entry /\ circuit[p].openedAt \in Int
          /\ now \in Nat /\ Stored(p) = circuit[p]
      BY DEF TypeOK, Entry, Stored
    <2>2. CASE Reported(p, circuit'[p])
      <3>1. PICK t \in Clocks :
              circuit'[p] \in {Snapshot(circuit[p], t),
                               RecordSuccess(circuit[p], t),
                               RecordFailure(circuit[p], t)}
        BY <2>1, <2>2 DEF Reported
      <3>2. t \in Int /\ t >= now - ClockSkew
        BY <2>1, ExecutorAssumption DEF Clocks
      <3>3. t - circuit[p].openedAt >= OpenDuration
        BY <2>1, <3>2, ExecutorAssumption, BreakerConfigAssumption
      <3>4. QED
        BY <2>1, <3>1, <3>2, <3>3, CooledStaysOut
    <2>3. QED
      BY <2>2, CircuitChanges
  <1> HIDE DEF Probed
  <1>2. Spec => []TypeOK
    BY TypeCorrect
  <1>3. Spec => [][Probed]_vars
    BY <1>1, <1>2, PTL DEF Spec
  <1>4. QED
    BY <1>3 DEF CooledCircuitNeedsProbes, Probed

(* An open circuit was opened, or its trip confirmed, by no clock that is    *)
(* further ahead of its key than clocks may be.                              *)
KeysFollow ==
  \A p \in Providers :
    /\ touched[p] <= now
    /\ circuit[p].state = "open" => circuit[p].openedAt <= touched[p] + ClockSkew

\* What an event leaves open was open, or is opened by the clock it came with.
LEMMA OpenedByClock ==
  ASSUME NEW e \in Entry, NEW t \in Int,
         NEW f \in {Snapshot(e, t), RecordSuccess(e, t), RecordFailure(e, t)},
         f.state = "open"
  PROVE  f.openedAt = t \/ (e.state = "open" /\ f.openedAt = e.openedAt)
  <1>1. \A x \in Entry : x.state \in State
    BY DEF Entry
  <1>2. ASSUME NEW x \in Entry
        PROVE  /\ CoolDown(x, t).state = "open" => CoolDown(x, t) = x
               /\ Succeed(x).state # "open"
               /\ Fail(x, t).state = "open" =>
                    Fail(x, t).openedAt = t
                      \/ (x.state = "open" /\ Fail(x, t).openedAt = x.openedAt)
    <2>1. CoolDown(x, t).state = "open" => CoolDown(x, t) = x
      BY DEF CoolDown, Entry
    <2>2. Succeed(x).state # "open"
      BY DEF Succeed, Entry, State
    <2>3. Fail(x, t).state = "open" =>
            Fail(x, t).openedAt = t
              \/ (x.state = "open" /\ Fail(x, t).openedAt = x.openedAt)
      BY DEF Fail, Trip, Entry
    <2>4. QED
      BY <2>1, <2>2, <2>3
  <1>3. CoolDown(e, t) \in Entry
    BY TransitionsTyped
  <1>4. CoolDown(e, t).state = "open" => CoolDown(e, t) = e
    BY <1>2
  <1>5. CASE f = Snapshot(e, t)
    BY <1>4, <1>5 DEF Snapshot, LocalSnapshot, ScriptPeek
  <1>6. CASE f = RecordSuccess(e, t)
    BY <1>2, <1>3, <1>6 DEF RecordSuccess, LocalRecordSuccess, ScriptSuccess
  <1>7. CASE f = RecordFailure(e, t)
    <2>1. f = Fail(e, t) \/ f = Fail(CoolDown(e, t), t)
      BY <1>7 DEF RecordFailure, LocalRecordFailure, ScriptFailure
    <2>2. QED
      BY <1>2, <1>3, <1>4, <2>1
  <1>8. QED
    BY <1>5, <1>6, <1>7

LEMMA KeysFollowStep ==
  ASSUME Shared, TypeOK, KeysFollow, [Next]_vars
  PROVE  KeysFollow'
  <1>1. now \in Nat /\ now' \in {now, now + 1}
    <2>1. now \in Nat
      BY DEF TypeOK
    <2>2. CASE Tick \/ UNCHANGED vars
      BY <2>1, <2>2 DEF Tick, vars
    <2>3. ASSUME NEW r \in Requests, Proceed(r) PROVE now' = now
      <3>1. CASE Admit(r) \/ Refuse(r)
        BY <3>1 DEF Admit, Refuse
      <3>2. CASE AdmitBlind(r) \/ Begin(r) \/ Wake(r) \/ WakeCanceled(r)
        BY <3>2 DEF AdmitBlind, Begin, Wake, WakeCanceled
      <3>3. CASE Stop(r) \/ Backoff(r) \/ FailOver(r)
        BY <3>3 DEF Stop, Backoff, FailOver
      <3>4. QED
        BY <2>3, <3>1, <3>2, <3>3 DEF Proceed
    <2>4. ASSUME NEW r \in Requests,
                 Submit(r) \/ FirstChunk(r) \/ Disconnect(r) \/ Reply(r)
          PROVE  now' = now
      BY <2>4 DEF Submit, FirstChunk, Disconnect, Reply
    <2>5. ASSUME NEW r \in Requests, Returns(r) PROVE now' = now
      <3>1. CASE CallSucceeds(r)
        BY <3>1 DEF CallSucceeds
      <3>2. ASSUME NEW k, Fails(r, k) PROVE now' = now
        BY <3>2 DEF Fails
      <3>3. QED
        BY <2>5, <3>1, <3>2, FailuresFail DEF Returns
    <2>6. QED
      BY <2>1, <2>2, <2>3, <2>4, <2>5 DEF Next
  <1>2. ASSUME NEW p \in Providers
        PROVE  /\ touched'[p] <= now'
               /\ circuit'[p].state = "open" =>
                    circuit'[p].openedAt <= touched'[p] + ClockSkew
    <2>1. /\ touched[p] \in Nat /\ touched[p] <= now
          /\ Stored(p) \in Entry /\ Stored(p).openedAt \in Int
          /\ Stored(p).state = "open" => Stored(p).openedAt <= touched[p] + ClockSkew
      <3>1. Stored(p) \in Entry /\ Stored(p).openedAt \in Int
        BY StoredTyped DEF Entry
      <3>2. QED
        BY <3>1 DEF KeysFollow, TypeOK, Stored, NewEntry
    <2>2. CASE circuit'[p] = circuit[p] /\ touched'[p] = touched[p]
      BY <1>1, <2>1, <2>2 DEF KeysFollow
    <2>3. CASE Reported(p, circuit'[p]) /\ touched'[p] = now
      <3>1. PICK t \in Clocks :
              circuit'[p] \in {Snapshot(Stored(p), t),
                               RecordSuccess(Stored(p), t),
                               RecordFailure(Stored(p), t)}
        BY <2>3 DEF Reported
      <3>2. t \in Int /\ t <= now + ClockSkew
        BY <1>1, ExecutorAssumption DEF Clocks
      <3>3. circuit'[p].state = "open" =>
              \/ circuit'[p].openedAt = t
              \/ /\ Stored(p).state = "open"
                 /\ circuit'[p].openedAt = Stored(p).openedAt
        BY <2>1, <3>1, <3>2, OpenedByClock
      <3>4. QED
        BY <1>1, <2>1, <2>3, <3>2, <3>3, ExecutorAssumption
    <2>4. QED
      BY <2>2, <2>3, CircuitChanges
  <1>3. QED
    BY <1>2 DEF KeysFollow

\* The key of an open circuit outlives its cooldown.
KeysOutliveCooldowns ==
  \A p \in Providers :
    circuit[p].state = "open" /\ Expired(p)
      => now - circuit[p].openedAt >= OpenDuration

(* "Expire idle keys: a provider removed from config should not leave state  *)
(* in Redis forever" (redis_breaker.go:78): a circuit that is forgotten      *)
(* while it is open has cooled down, by Redis's clock, so that its expiry    *)
(* admits no call earlier than the cooldown would.  The key lives ten        *)
(* cooldowns, at least ten minutes, from its last event: it is enough that   *)
(* no replica's clock is off by nine.                                        *)
THEOREM ExpiryForgetsOnlyCooled ==
  ASSUME Shared, KeyTTL >= OpenDuration + ClockSkew
  PROVE  Spec => []KeysOutliveCooldowns
  <1>1. Init => KeysFollow
    BY DEF Init, KeysFollow, NewEntry
  <1>2. TypeOK /\ KeysFollow /\ [Next]_vars => KeysFollow'
    BY KeysFollowStep
  <1>3. TypeOK /\ KeysFollow => KeysOutliveCooldowns
    <2> SUFFICES ASSUME TypeOK, KeysFollow, NEW p \in Providers,
                        circuit[p].state = "open", Expired(p)
                 PROVE  now - circuit[p].openedAt >= OpenDuration
      BY DEF KeysOutliveCooldowns
    <2>1. /\ now \in Nat /\ touched[p] \in Nat /\ circuit[p].openedAt \in Int
      BY DEF TypeOK, Entry
    <2>2. /\ now - touched[p] >= KeyTTL
          /\ circuit[p].openedAt <= touched[p] + ClockSkew
      BY DEF Expired, KeysFollow
    <2> DEFINE opened == circuit[p].openedAt
               last == touched[p]
    <2>3. /\ now \in Nat /\ last \in Nat /\ opened \in Int
          /\ now - last >= KeyTTL /\ opened <= last + ClockSkew
      BY <2>1, <2>2
    <2>4. KeyTTL \in Nat /\ ClockSkew \in Nat /\ OpenDuration \in Nat
      BY ExecutorAssumption, BreakerConfigAssumption
    <2> HIDE DEF opened, last
    <2>5. now - opened >= OpenDuration
      BY <2>3, <2>4
    <2>6. QED
      BY <2>5 DEF opened
  <1>4. QED
    BY <1>1, <1>2, <1>3, TypeCorrect, PTL DEF Spec

(* --- the loops end -------------------------------------------------------- *)

\* What one target may cost: three steps an attempt, the question and its
\* answer.
TargetSteps == 3 * MaxAttempts + 2

\* With one target less ahead of it, a request has that much less to do.
LEMMA OneTargetLess ==
  ASSUME NEW n \in Nat, NEW c \in Nat
  PROVE  n * c \in Nat /\ (n + 1) * c = n * c + c
  OBVIOUS

\* The bound of a request that is under way, part by part.
LEMMA StepsLeftParts ==
  ASSUME NEW q, ReqOK(q), q.pc \in Phases \ {"idle", "done"},
         NEW n \in Nat, Len(q.targets) - q.idx = n
  PROVE  /\ n * TargetSteps \in Nat
         /\ 3 * (MaxAttempts - q.attempt) \in Nat
         /\ q.pc = "admit" => StepsLeft(q) =
              n * TargetSteps + 3 * (MaxAttempts - q.attempt) + 2
         /\ q.pc = "admitted" => StepsLeft(q) =
              n * TargetSteps + 3 * (MaxAttempts - q.attempt) + 1
         /\ q.pc = "calling" => StepsLeft(q) =
              n * TargetSteps + 3 * (MaxAttempts - q.attempt) + 3
         /\ q.pc = "failed" => StepsLeft(q) =
              n * TargetSteps + 3 * (MaxAttempts - q.attempt) + 2
         /\ q.pc = "backoff" => StepsLeft(q) =
              n * TargetSteps + 3 * (MaxAttempts - q.attempt) + 1
  <1>1. TargetSteps \in Nat /\ n * TargetSteps \in Nat
    BY ExecutorAssumption, OneTargetLess DEF TargetSteps
  <1>2. 3 * (MaxAttempts - q.attempt) \in Nat
    BY ExecutorAssumption DEF ReqOK, Phases
  <1>3. StepsLeft(q) = n * TargetSteps + 3 * (MaxAttempts - q.attempt)
          + [admit |-> 2, admitted |-> 1,
             calling |-> 3, failed |-> 2, backoff |-> 1][q.pc]
    BY DEF StepsLeft, TargetSteps, Phases
  <1>4. QED
    BY <1>1, <1>2, <1>3

\* A request under way has a target that it may be at, and steps to take.
LEMMA TargetsAhead ==
  ASSUME NEW q, ReqOK(q), q.pc \in Phases \ {"idle", "done"}
  PROVE  /\ Len(q.targets) - q.idx \in Nat
         /\ StepsLeft(q) \in Nat \ {0}
  <1>1. Len(q.targets) \in Nat /\ Len(q.targets) - q.idx \in Nat
    BY ExecutorAssumption DEF ReqOK, Phases
  <1> DEFINE n == Len(q.targets) - q.idx
             a == n * TargetSteps
             b == 3 * (MaxAttempts - q.attempt)
  <1>2. /\ a \in Nat /\ b \in Nat
        /\ StepsLeft(q) \in {a + b + 1, a + b + 2, a + b + 3}
    BY <1>1, StepsLeftParts DEF Phases
  <1> HIDE DEF a, b
  <1>3. StepsLeft(q) \in Nat \ {0}
    BY <1>2
  <1>4. QED
    BY <1>1, <1>3

\* An answer leaves nothing to do.
LEMMA AnswerAdvances ==
  ASSUME NEW q \in RequestState, ReqOK(q), q.pc \in Phases \ {"idle", "done"},
         NEW k
  PROVE  StepsLeft(Answer(q, k)) \in 0..(StepsLeft(q) - 1)
  <1>1. Answer(q, k).pc = "done"
    BY DEF Answer, RequestState
  <1>2. StepsLeft(Answer(q, k)) = 0
    BY <1>1 DEF StepsLeft
  <1>3. QED
    BY <1>2, TargetsAhead

\* A call uses up an attempt: the step that begins it and the two that end it
\* are those the attempt was counted for.
LEMMA BeginCallAdvances ==
  ASSUME NEW q \in RequestState, ReqOK(q), q.pc \in {"admitted", "backoff"}
  PROVE  StepsLeft(BeginCall(q)) \in 0..(StepsLeft(q) - 1)
  <1> DEFINE b == BeginCall(q)
             n == Len(q.targets) - q.idx
             a == n * TargetSteps
  <1>1. /\ b.pc = "calling" /\ b.attempt = q.attempt + 1
        /\ b.targets = q.targets /\ b.idx = q.idx
    BY DEF BeginCall, RequestState
  <1>2. ReqOK(b)
    BY BeginCallOK
  <1>3. n \in Nat /\ Len(b.targets) - b.idx = n
    BY <1>1, TargetsAhead DEF Phases
  <1>4. /\ a \in Nat /\ 3 * (MaxAttempts - b.attempt) \in Nat
        /\ StepsLeft(b) = a + 3 * (MaxAttempts - b.attempt) + 3
    BY <1>1, <1>2, <1>3, StepsLeftParts DEF Phases
  <1>5. StepsLeft(q) = a + 3 * (MaxAttempts - q.attempt) + 1
    BY <1>3, StepsLeftParts DEF Phases
  <1>6. q.attempt \in Nat /\ MaxAttempts \in Nat
    BY ExecutorAssumption DEF RequestState
  <1> HIDE DEF a, b, n
  <1>7. StepsLeft(b) \in 0..(StepsLeft(q) - 1)
    BY <1>1, <1>4, <1>5, <1>6
  <1>8. QED
    BY <1>7 DEF b

\* A target that is given up takes its attempts with it.
LEMMA NextTargetAdvances ==
  ASSUME NEW q \in RequestState, ReqOK(q), q.pc \in {"admit", "failed"},
         NEW k, ReqOK(NextTarget(q, k))
  PROVE  StepsLeft(NextTarget(q, k)) \in 0..(StepsLeft(q) - 1)
  <1> DEFINE b == NextTarget(q, k)
             best == MoreInformative(q.best, k)
             next == [q EXCEPT !.best = best, !.errs = Append(@, k)]
  <1>1. CASE q.idx < Len(q.targets)
    <2> DEFINE m == Len(q.targets) - (q.idx + 1)
               a == m * TargetSteps
               e == 3 * (MaxAttempts - q.attempt)
    <2>1. b = [next EXCEPT !.pc = "admit", !.idx = @ + 1, !.attempt = 0]
      BY <1>1 DEF NextTarget
    <2>2. /\ b.pc = "admit" /\ b.attempt = 0
          /\ b.targets = q.targets /\ b.idx = q.idx + 1
      BY <2>1 DEF RequestState
    <2>3. /\ m \in Nat /\ Len(b.targets) - b.idx = m
          /\ Len(q.targets) - q.idx = m + 1 /\ m + 1 \in Nat
      BY <1>1, <2>2, TargetsAhead DEF Phases, RequestState
    <2>4. a \in Nat /\ StepsLeft(b) = a + 3 * (MaxAttempts - 0) + 2
      BY <2>2, <2>3, StepsLeftParts DEF Phases
    <2>5. /\ e \in Nat
          /\ StepsLeft(q) = (m + 1) * TargetSteps + e + 2
      BY <2>3, StepsLeftParts DEF Phases
    <2>6. (m + 1) * TargetSteps = a + 3 * MaxAttempts + 2
      <3>1. TargetSteps \in Nat
        BY ExecutorAssumption DEF TargetSteps
      <3>2. (m + 1) * TargetSteps = a + TargetSteps
        BY <2>3, <3>1, OneTargetLess
      <3> HIDE DEF a
      <3>3. QED
        BY <2>4, <3>2, ExecutorAssumption DEF TargetSteps
    <2> HIDE DEF a, b, e, m
    <2>7. StepsLeft(b) \in 0..(StepsLeft(q) - 1)
      BY <2>4, <2>5, <2>6, ExecutorAssumption
    <2>8. QED
      BY <2>7 DEF b
  <1>2. CASE ~(q.idx < Len(q.targets))
    <2>1. b = Answer(next, best)
      BY <1>2 DEF NextTarget
    <2>2. b.pc = "done"
      BY <2>1 DEF Answer, RequestState
    <2>3. StepsLeft(b) = 0
      BY <2>2 DEF StepsLeft
    <2>4. QED
      BY <2>3, TargetsAhead DEF Phases
  <1>3. QED
    BY <1>1, <1>2

\* What a step does to the request whose goroutine takes it.
Advanced(q, next) ==
  q.pc \notin {"idle", "done"} =>
    \/ StepsLeft(next) \in 0..(StepsLeft(q) - 1)
    \/ next = [q EXCEPT !.gone = next.gone, !.started = next.started]

\* A request that was let pass, a call that has failed and a failure that is to
\* be retried are further on.
LEMMA PhaseAdvances ==
  ASSUME NEW q \in RequestState, ReqOK(q), NEW b, ReqOK(b),
         b.targets = q.targets, b.idx = q.idx, b.attempt = q.attempt,
         \/ q.pc = "admit" /\ b.pc = "admitted"
         \/ q.pc = "calling" /\ b.pc = "failed"
         \/ q.pc = "failed" /\ b.pc = "backoff"
  PROVE  StepsLeft(b) \in 0..(StepsLeft(q) - 1)
  <1> DEFINE n == Len(q.targets) - q.idx
             a == n * TargetSteps
             e == 3 * (MaxAttempts - q.attempt)
  <1>1. n \in Nat /\ Len(b.targets) - b.idx = n
    BY TargetsAhead DEF Phases
  <1>2. /\ a \in Nat /\ e \in Nat
        /\ q.pc = "admit" => StepsLeft(q) = a + e + 2
        /\ q.pc = "calling" => StepsLeft(q) = a + e + 3
        /\ q.pc = "failed" => StepsLeft(q) = a + e + 2
    BY <1>1, StepsLeftParts DEF Phases
  <1>3. /\ b.pc = "failed" => StepsLeft(b) = a + e + 2
        /\ b.pc = "backoff" => StepsLeft(b) = a + e + 1
        /\ b.pc = "admitted" => StepsLeft(b) = a + e + 1
    BY <1>1, StepsLeftParts DEF Phases
  <1> HIDE DEF a, e, n
  <1>4. QED
    BY <1>2, <1>3

LEMMA RequestsAdvanceStep ==
  ASSUME TypeOK, RequestsOK, RequestsOK', [Next]_vars, NEW r \in Requests
  PROVE  Advanced(req[r], req'[r])
  <1>0. /\ \A s \in Requests : req[s] \in RequestState /\ ReqOK(req[s])
        /\ ReqOK(req'[r]) /\ req \in [Requests -> RequestState]
    BY DEF TypeOK, RequestsOK
  <1>1. ASSUME req'[r] = req[r] PROVE Advanced(req[r], req'[r])
    BY <1>0, <1>1 DEF Advanced, RequestState
  <1>2. ASSUME NEW b, req' = [req EXCEPT ![r] = b] PROVE req'[r] = b
    BY <1>0, <1>2
  <1>3. CASE Begin(r) \/ Wake(r)
    <2>1. /\ req'[r] = BeginCall(req[r])
          /\ req[r].pc \in {"admitted", "backoff"}
      BY <1>2, <1>3 DEF Begin, Wake
    <2>2. QED
      BY <1>0, <2>1, BeginCallAdvances DEF Advanced
  <1>4. CASE Refuse(r) \/ FailOver(r)
    <2>1. PICK k : req'[r] = NextTarget(req[r], k)
      BY <1>2, <1>4 DEF Refuse, FailOver
    <2>2. req[r].pc \in {"admit", "failed"}
      BY <1>4 DEF Refuse, FailOver
    <2>3. QED
      BY <1>0, <2>1, <2>2, NextTargetAdvances DEF Advanced
  <1>5. CASE CallSucceeds(r) \/ Stop(r) \/ WakeCanceled(r)
    <2>1. PICK k : req'[r] = Answer(req[r], k)
      BY <1>2, <1>5 DEF CallSucceeds, Stop, WakeCanceled
    <2>2. req[r].pc \in Phases \ {"idle", "done"}
      BY <1>5 DEF CallSucceeds, Stop, WakeCanceled, Phases
    <2>3. QED
      BY <1>0, <2>1, <2>2, AnswerAdvances DEF Advanced
  <1>6. ASSUME NEW k \in Errors, Fails(r, k)
        PROVE  Advanced(req[r], req'[r])
    <2>1. /\ req[r].pc = "calling"
          /\ req'[r] = [req[r] EXCEPT !.pc = "failed", !.err = k]
      BY <1>0, <1>6 DEF Fails
    <2>2. /\ req'[r].pc = "failed" /\ req'[r].targets = req[r].targets
          /\ req'[r].idx = req[r].idx /\ req'[r].attempt = req[r].attempt
      BY <1>0, <2>1 DEF RequestState
    <2>3. QED
      BY <1>0, <2>1, <2>2, PhaseAdvances DEF Advanced
  <1>7. CASE Admit(r) \/ AdmitBlind(r) \/ Backoff(r)
    <2>1. \/ /\ req[r].pc = "admit"
             /\ req'[r] = [req[r] EXCEPT !.pc = "admitted"]
          \/ /\ req[r].pc = "failed"
             /\ req'[r] = [req[r] EXCEPT !.pc = "backoff"]
      BY <1>0, <1>7 DEF Admit, AdmitBlind, Backoff
    <2>2. /\ \/ req[r].pc = "admit" /\ req'[r].pc = "admitted"
             \/ req[r].pc = "failed" /\ req'[r].pc = "backoff"
          /\ req'[r].targets = req[r].targets
          /\ req'[r].idx = req[r].idx /\ req'[r].attempt = req[r].attempt
      BY <1>0, <2>1 DEF RequestState
    <2>3. QED
      BY <1>0, <2>1, <2>2, PhaseAdvances DEF Advanced
  <1>8. CASE FirstChunk(r) \/ Disconnect(r)
    <2>1. \/ req'[r] = [req[r] EXCEPT !.started = TRUE]
          \/ req'[r] = [req[r] EXCEPT !.gone = TRUE]
      BY <1>0, <1>8 DEF FirstChunk, Disconnect
    <2>2. req'[r] = [req[r] EXCEPT !.gone = req'[r].gone,
                                   !.started = req'[r].started]
      BY <1>0, <2>1 DEF RequestState
    <2>3. QED
      BY <2>2 DEF Advanced
  <1>9. CASE Submit(r) \/ Reply(r)
    BY <1>9 DEF Submit, Reply, Advanced
  <1>10. ASSUME NEW s \in Requests, s # r,
                Submit(s) \/ Proceed(s) \/ FirstChunk(s) \/ Returns(s)
                  \/ Disconnect(s) \/ Reply(s)
         PROVE  req'[r] = req[r]
    <2>1. PICK q : req' = [req EXCEPT ![s] = q]
      BY <1>0, <1>10
      DEF Submit, Proceed, FirstChunk, Returns, Disconnect, Reply, Admit,
          AdmitBlind, Refuse, Begin, Stop, Backoff, FailOver, Wake,
          WakeCanceled, CallSucceeds, CallCut, CallFails, Fails
    <2>2. QED
      BY <1>0, <1>10, <2>1
  <1>11. CASE Tick \/ UNCHANGED vars
    BY <1>1, <1>11 DEF Tick, vars
  <1>12. QED
    BY <1>1, <1>3, <1>4, <1>5, <1>6, <1>7, <1>8, <1>9, <1>10, <1>11,
       FailuresFail
    DEF Next, Proceed, Returns

(* The loops of do() and attemptWithRetries end, for every target list and  *)
(* every retry budget, whatever the circuits and other requests do: each    *)
(* step of a request's goroutine lowers the number of steps it may still    *)
(* take, and nothing raises it (executor.go:114-139, 183-197).              *)
THEOREM RequestStepsBounded == Spec => RequestsAdvance
  <1> DEFINE Advance == \A r \in Requests : Advanced(req[r], req'[r])
  <1>1. (TypeOK /\ RequestsOK) /\ (TypeOK /\ RequestsOK)' /\ [Next]_vars
          => [Advance]_vars
    BY RequestsAdvanceStep
  <1> HIDE DEF Advance
  <1>2. Spec => [][Advance]_vars
    BY <1>1, Inductive, PTL DEF Spec
  <1>3. QED
    BY <1>2 DEF RequestsAdvance, Advance, Advanced
=============================================================================
