-------------------------- MODULE ExecutorRefinement --------------------------
(***************************************************************************)
(* The executor implements the failover contract: every step of Executor   *)
(* is, for the jobs its clients see, a step of Failover or a stutter.      *)
(***************************************************************************)
EXTENDS ExecutorProofs

job == [r \in Requests |-> JobOf(req[r])]

\* A step of one request is a step of its job and of no other.
LEMMA JobStep ==
  ASSUME TypeOK, NEW r \in Requests, NEW q, req' = [req EXCEPT ![r] = q]
  PROVE  job' = [job EXCEPT ![r] = JobOf(q)]
  BY DEF job, TypeOK

\* What the client sees of a request whose state is known.
LEMMA JobFields ==
  ASSUME NEW q \in RequestState
  PROVE  /\ JobOf(q).targets = q.targets /\ JobOf(q).pos = q.idx
         /\ JobOf(q).tries = q.attempt /\ JobOf(q).live = (q.pc = "calling")
         /\ JobOf(q).sent = q.started /\ JobOf(q).gone = q.gone
         /\ JobOf(q).final = (q.pc \in {"failed", "done"} /\ ~Failoverable(q.err))
         /\ q.pc = "idle" => JobOf(q).phase = "free"
         /\ q.pc = "done" => JobOf(q).phase = IF q.err = "none" THEN "served"
                                                               ELSE "failed"
         /\ q.pc \notin {"idle", "done"} => JobOf(q).phase = "running"
  BY DEF JobOf

\* A request between two calls, none of them final: its job may go on.
LEMMA StoppedJob ==
  ASSUME NEW q \in RequestState,
         q.pc \in {"admit", "admitted", "failed", "backoff"},
         q.pc = "failed" => Failoverable(q.err)
  PROVE  /\ JobOf(q).phase = "running" /\ JobOf(q).live = FALSE
         /\ JobOf(q).final = FALSE /\ JobOf(q).pos = q.idx
         /\ JobOf(q).targets = q.targets /\ JobOf(q).sent = q.started
         /\ JobOf(q).tries = q.attempt
  <1>1. q.pc \notin {"idle", "done", "calling"}
    OBVIOUS
  <1>2. JobOf(q).phase = "running"
    BY <1>1 DEF JobOf
  <1>3. JobOf(q).live = FALSE
    BY <1>1 DEF JobOf
  <1>4. JobOf(q).final = FALSE
    BY DEF JobOf
  <1>5. /\ JobOf(q).pos = q.idx /\ JobOf(q).targets = q.targets
        /\ JobOf(q).sent = q.started /\ JobOf(q).tries = q.attempt
    BY DEF JobOf
  <1>6. QED
    BY <1>2, <1>3, <1>4, <1>5

\* Jobs of typed requests are typed.
LEMMA JobTyped ==
  ASSUME NEW q \in RequestState
  PROVE  JobOf(q) \in Contract!Job
  BY DEF JobOf, Contract!Job, RequestState, Phases

\* Two jobs with the same fields are the same job.
LEMMA SameJob ==
  ASSUME NEW i \in Contract!Job, NEW j \in Contract!Job,
         i.phase = j.phase, i.targets = j.targets, i.pos = j.pos,
         i.tries = j.tries, i.live = j.live, i.sent = j.sent,
         i.gone = j.gone, i.final = j.final
  PROVE  i = j
  BY DEF Contract!Job

\* A request state looks like the job that has its fields.
LEMMA JobIs ==
  ASSUME NEW b \in RequestState, NEW i \in Contract!Job,
         i.phase = JobOf(b).phase, i.live = JobOf(b).live,
         i.final = JobOf(b).final,
         i.targets = b.targets, i.pos = b.idx, i.tries = b.attempt,
         i.sent = b.started, i.gone = b.gone
  PROVE  JobOf(b) = i
  <1> DEFINE k == JobOf(b)
  <1>1. k \in Contract!Job
    BY JobTyped
  <1>2. /\ k.targets = i.targets /\ k.pos = i.pos /\ k.tries = i.tries
        /\ k.sent = i.sent /\ k.gone = i.gone /\ k.phase = i.phase
        /\ k.live = i.live /\ k.final = i.final
    BY JobFields
  <1> HIDE DEF k
  <1>3. k = i
    BY <1>1, <1>2, SameJob
  <1>4. QED
    BY <1>3 DEF k

\* What beginning a call and answering leave alone.
LEMMA BeginCallFields ==
  ASSUME NEW q \in RequestState
  PROVE  /\ BeginCall(q) \in RequestState
         /\ BeginCall(q).pc = "calling"
         /\ BeginCall(q).attempt = q.attempt + 1
         /\ BeginCall(q).targets = q.targets /\ BeginCall(q).idx = q.idx
         /\ BeginCall(q).gone = q.gone /\ BeginCall(q).started = q.started
  <1>1. BeginCall(q) \in RequestState
    BY RequestTyped
  <1>2. BeginCall(q).pc = "calling"
    BY DEF BeginCall, RequestState
  <1>3. BeginCall(q).attempt = q.attempt + 1
    BY DEF BeginCall, RequestState
  <1>4. BeginCall(q).targets = q.targets /\ BeginCall(q).idx = q.idx
    BY DEF BeginCall, RequestState
  <1>5. BeginCall(q).gone = q.gone /\ BeginCall(q).started = q.started
    BY DEF BeginCall, RequestState
  <1>6. QED
    BY <1>1, <1>2, <1>3, <1>4, <1>5

LEMMA AnswerFields ==
  ASSUME NEW q \in RequestState, NEW k \in Errors \cup {"none"}
  PROVE  /\ Answer(q, k) \in RequestState
         /\ Answer(q, k).pc = "done" /\ Answer(q, k).err = k
         /\ Answer(q, k).attempt = q.attempt
         /\ Answer(q, k).targets = q.targets /\ Answer(q, k).idx = q.idx
         /\ Answer(q, k).gone = q.gone /\ Answer(q, k).started = q.started
  <1>1. Answer(q, k) \in RequestState
    BY RequestTyped
  <1>2. Answer(q, k).pc = "done" /\ Answer(q, k).err = k
    BY DEF Answer, RequestState
  <1>3. Answer(q, k).attempt = q.attempt
    BY DEF Answer, RequestState
  <1>4. Answer(q, k).targets = q.targets /\ Answer(q, k).idx = q.idx
    BY DEF Answer, RequestState
  <1>5. Answer(q, k).gone = q.gone /\ Answer(q, k).started = q.started
    BY DEF Answer, RequestState
  <1>6. QED
    BY <1>1, <1>2, <1>3, <1>4, <1>5

\* A call begins.
LEMMA CallJob ==
  ASSUME NEW q \in RequestState, q.pc \in {"admitted", "backoff"}
  PROVE  JobOf(BeginCall(q)) = [JobOf(q) EXCEPT !.live = TRUE, !.tries = @ + 1]
  <1> DEFINE b == BeginCall(q)
             j == JobOf(q)
             i == [j EXCEPT !.live = TRUE, !.tries = @ + 1]
  <1>1. /\ b \in RequestState /\ b.pc = "calling" /\ b.attempt = q.attempt + 1
        /\ b.targets = q.targets /\ b.idx = q.idx /\ b.gone = q.gone
        /\ b.started = q.started
    BY BeginCallFields
  <1>2. j \in Contract!Job /\ j.tries + 1 \in Nat
    BY JobTyped DEF Contract!Job
  <1>3. /\ i.live = TRUE /\ i.tries = j.tries + 1 /\ i.phase = j.phase
        /\ i.targets = j.targets /\ i.pos = j.pos /\ i.sent = j.sent
        /\ i.gone = j.gone /\ i.final = j.final
    BY <1>2 DEF Contract!Job
  <1>4. i \in Contract!Job
    BY <1>2, ZenonT(30) DEF Contract!Job
  <1> HIDE DEF b, i
  <1>5. /\ j.phase = "running" /\ j.final = FALSE /\ j.pos = q.idx
        /\ j.targets = q.targets /\ j.tries = q.attempt
        /\ j.sent = q.started /\ j.gone = q.gone
    BY JobFields
  <1>6. /\ JobOf(b).phase = "running" /\ JobOf(b).final = FALSE
        /\ JobOf(b).live = TRUE
    BY <1>1, JobFields
  <1> HIDE DEF j
  <1>7. JobOf(b) = i
    <2>1. /\ i.phase = JobOf(b).phase /\ i.live = JobOf(b).live
          /\ i.final = JobOf(b).final
      BY <1>3, <1>5, <1>6
    <2>2. /\ i.targets = b.targets /\ i.pos = b.idx
          /\ i.sent = b.started /\ i.gone = b.gone
      BY <1>1, <1>3, <1>5
    <2>3. i.tries = b.attempt
      BY <1>1, <1>3, <1>5
    <2>4. QED
      BY <1>1, <1>4, <2>1, <2>2, <2>3, JobIs
  <1>8. QED
    BY <1>7 DEF b, i, j

\* A request that ends without being served.
LEMMA FailJob ==
  ASSUME NEW q \in RequestState, NEW b \in RequestState,
         q.pc \in {"admit", "failed", "backoff"}, b.pc = "done",
         b.err # "none", b.targets = q.targets, b.idx = q.idx,
         b.attempt = q.attempt, b.gone = q.gone, b.started = q.started,
         ~Failoverable(b.err) <=> q.pc = "failed" /\ ~Failoverable(q.err)
  PROVE  JobOf(b) = [JobOf(q) EXCEPT !.phase = "failed"]
  <1> DEFINE j == JobOf(q)
             i == [j EXCEPT !.phase = "failed"]
  <1>1. j \in Contract!Job
    BY JobTyped
  <1>2. /\ i.phase = "failed" /\ i.live = j.live /\ i.tries = j.tries
        /\ i.targets = j.targets /\ i.pos = j.pos /\ i.sent = j.sent
        /\ i.gone = j.gone /\ i.final = j.final
    BY <1>1 DEF Contract!Job
  <1>3. i \in Contract!Job
    BY <1>1, ZenonT(30) DEF Contract!Job
  <1> HIDE DEF i
  <1>4. /\ j.live = FALSE /\ j.pos = q.idx
        /\ j.targets = q.targets /\ j.tries = q.attempt
        /\ j.sent = q.started /\ j.gone = q.gone
        /\ j.final = (q.pc = "failed" /\ ~Failoverable(q.err))
    BY JobFields
  <1>5. /\ JobOf(b).phase = "failed" /\ JobOf(b).live = FALSE
        /\ JobOf(b).final = (~Failoverable(b.err))
    BY JobFields
  <1> HIDE DEF j
  <1>6. JobOf(b) = i
    <2>1. /\ i.phase = JobOf(b).phase /\ i.live = JobOf(b).live
          /\ i.final = JobOf(b).final
      BY <1>2, <1>3, <1>4, <1>5
    <2>2. /\ i.targets = b.targets /\ i.pos = b.idx /\ i.tries = b.attempt
          /\ i.sent = b.started /\ i.gone = b.gone
      BY <1>2, <1>3, <1>4, <1>5
    <2>3. b \in RequestState /\ i \in Contract!Job
      BY <1>2, <1>3, <1>4, <1>5
    <2>4. QED
      BY <2>1, <2>2, <2>3, JobIs
  <1>7. QED
    BY <1>6 DEF i, j

\* The next target's turn.
LEMMA AdvanceJob ==
  ASSUME NEW q \in RequestState, NEW b \in RequestState,
         q.pc \in {"admit", "failed"}, q.pc = "failed" => Failoverable(q.err),
         b.pc = "admit", b.targets = q.targets, b.idx = q.idx + 1,
         b.attempt = 0, b.gone = q.gone, b.started = q.started
  PROVE  JobOf(b) = [JobOf(q) EXCEPT !.pos = @ + 1, !.tries = 0]
  <1> DEFINE j == JobOf(q)
             i == [j EXCEPT !.pos = @ + 1, !.tries = 0]
  <1>1. j \in Contract!Job /\ j.pos + 1 \in Nat /\ 0 \in Nat
    BY JobTyped DEF Contract!Job
  <1>2. /\ i.phase = j.phase /\ i.live = j.live /\ i.tries = 0
        /\ i.targets = j.targets /\ i.pos = j.pos + 1 /\ i.sent = j.sent
        /\ i.gone = j.gone /\ i.final = j.final
    BY <1>1 DEF Contract!Job
  <1>3. i \in Contract!Job
    BY <1>1, ZenonT(30) DEF Contract!Job
  <1> HIDE DEF i
  <1>4. /\ j.phase = "running" /\ j.live = FALSE /\ j.pos = q.idx
        /\ j.targets = q.targets /\ j.sent = q.started /\ j.gone = q.gone
        /\ j.final = FALSE
    BY JobFields
  <1>5. /\ JobOf(b).phase = "running" /\ JobOf(b).live = FALSE
        /\ JobOf(b).final = FALSE
    BY JobFields
  <1> HIDE DEF j
  <1>6. JobOf(b) = i
    <2>1. /\ i.phase = JobOf(b).phase /\ i.live = JobOf(b).live
          /\ i.final = JobOf(b).final
      BY <1>2, <1>3, <1>4, <1>5
    <2>2. /\ i.targets = b.targets /\ i.pos = b.idx /\ i.tries = b.attempt
          /\ i.sent = b.started /\ i.gone = b.gone
      BY <1>2, <1>3, <1>4, <1>5
    <2>3. b \in RequestState /\ i \in Contract!Job
      BY <1>2, <1>3, <1>4, <1>5
    <2>4. QED
      BY <2>1, <2>2, <2>3, JobIs
  <1>7. QED
    BY <1>6 DEF i, j

\* The call in progress succeeds.
LEMMA ServeJob ==
  ASSUME NEW q \in RequestState, q.pc = "calling"
  PROVE  JobOf(Answer(q, "none"))
           = [JobOf(q) EXCEPT !.live = FALSE, !.phase = "served"]
  <1> DEFINE b == Answer(q, "none")
             j == JobOf(q)
             i == [j EXCEPT !.live = FALSE, !.phase = "served"]
  <1>1. /\ b \in RequestState /\ b.pc = "done" /\ b.err = "none"
        /\ b.attempt = q.attempt /\ b.targets = q.targets /\ b.idx = q.idx
        /\ b.gone = q.gone /\ b.started = q.started
    BY AnswerFields
  <1>2. j \in Contract!Job
    BY JobTyped
  <1>3. /\ i.phase = "served" /\ i.live = FALSE /\ i.tries = j.tries
        /\ i.targets = j.targets /\ i.pos = j.pos /\ i.sent = j.sent
        /\ i.gone = j.gone /\ i.final = j.final
    BY <1>2 DEF Contract!Job
  <1>4. i \in Contract!Job
    BY <1>2, ZenonT(30) DEF Contract!Job
  <1> HIDE DEF b, i
  <1>5. /\ j.pos = q.idx /\ j.targets = q.targets /\ j.tries = q.attempt
        /\ j.sent = q.started /\ j.gone = q.gone /\ j.final = FALSE
    BY JobFields
  <1>6. /\ JobOf(b).phase = "served" /\ JobOf(b).live = FALSE
        /\ JobOf(b).final = FALSE
    BY <1>1, JobFields DEF Failoverable
  <1> HIDE DEF j
  <1>7. JobOf(b) = i
    <2>1. /\ i.phase = JobOf(b).phase /\ i.live = JobOf(b).live
          /\ i.final = JobOf(b).final
      BY <1>1, <1>3, <1>4, <1>5, <1>6
    <2>2. /\ i.targets = b.targets /\ i.pos = b.idx /\ i.tries = b.attempt
          /\ i.sent = b.started /\ i.gone = b.gone
      BY <1>1, <1>3, <1>4, <1>5, <1>6
    <2>3. b \in RequestState /\ i \in Contract!Job
      BY <1>1, <1>3, <1>4, <1>5, <1>6
    <2>4. QED
      BY <2>1, <2>2, <2>3, JobIs
  <1>8. QED
    BY <1>7 DEF b, i, j

\* The call in progress fails.
LEMMA FaultJob ==
  ASSUME NEW q \in RequestState, q.pc = "calling", NEW k \in Errors
  PROVE  JobOf([q EXCEPT !.pc = "failed", !.err = k])
           = [JobOf(q) EXCEPT !.live = FALSE, !.final = ~Failoverable(k)]
  <1> DEFINE b == [q EXCEPT !.pc = "failed", !.err = k]
             f == ~Failoverable(k)
             j == JobOf(q)
             i == [j EXCEPT !.live = FALSE, !.final = f]
  <1>1. /\ b \in RequestState /\ b.pc = "failed" /\ b.err = k
        /\ b.attempt = q.attempt /\ b.targets = q.targets /\ b.idx = q.idx
        /\ b.gone = q.gone /\ b.started = q.started
    <2>1. b \in RequestState
      BY RequestTyped
    <2>2. b.pc = "failed" /\ b.err = k
      BY DEF RequestState
    <2>3. b.attempt = q.attempt /\ b.targets = q.targets /\ b.idx = q.idx
      BY DEF RequestState
    <2>4. b.gone = q.gone /\ b.started = q.started
      BY DEF RequestState
    <2>5. QED
      BY <2>1, <2>2, <2>3, <2>4
  <1>2. j \in Contract!Job /\ f \in BOOLEAN
    BY JobTyped
  <1> HIDE DEF f
  <1>3. /\ i.phase = j.phase /\ i.live = FALSE /\ i.tries = j.tries
        /\ i.targets = j.targets /\ i.pos = j.pos /\ i.sent = j.sent
        /\ i.gone = j.gone /\ i.final = f
    BY <1>2 DEF Contract!Job
  <1>4. i \in Contract!Job
    BY <1>2, ZenonT(30) DEF Contract!Job
  <1> HIDE DEF b, i
  <1>5. /\ j.pos = q.idx /\ j.targets = q.targets /\ j.tries = q.attempt
        /\ j.sent = q.started /\ j.gone = q.gone /\ j.phase = "running"
    BY JobFields
  <1>6. /\ JobOf(b).phase = "running" /\ JobOf(b).live = FALSE
        /\ JobOf(b).final = f
    BY <1>1, JobFields DEF f
  <1> HIDE DEF j
  <1>7. JobOf(b) = i
    <2>1. /\ i.phase = JobOf(b).phase /\ i.live = JobOf(b).live
          /\ i.final = JobOf(b).final
      BY <1>1, <1>3, <1>4, <1>5, <1>6
    <2>2. /\ i.targets = b.targets /\ i.pos = b.idx /\ i.tries = b.attempt
          /\ i.sent = b.started /\ i.gone = b.gone
      BY <1>1, <1>3, <1>4, <1>5, <1>6
    <2>3. b \in RequestState /\ i \in Contract!Job
      BY <1>1, <1>3, <1>4, <1>5, <1>6
    <2>4. QED
      BY <2>1, <2>2, <2>3, JobIs
  <1>8. QED
    BY <1>7 DEF b, i, j, f

\* A chunk reaches the client.
LEMMA DeliverJob ==
  ASSUME NEW q \in RequestState, q.pc = "calling"
  PROVE  JobOf([q EXCEPT !.started = TRUE]) = [JobOf(q) EXCEPT !.sent = TRUE]
  <1> DEFINE b == [q EXCEPT !.started = TRUE]
             j == JobOf(q)
             i == [j EXCEPT !.sent = TRUE]
  <1>1. /\ b \in RequestState /\ b.pc = "calling"
        /\ b.attempt = q.attempt /\ b.targets = q.targets /\ b.idx = q.idx
        /\ b.gone = q.gone /\ b.started = TRUE
    <2>1. b \in RequestState
      BY RequestTyped, Zenon
    <2>2. /\ b.pc = "calling" /\ b.started = TRUE /\ b.gone = q.gone
          /\ b.attempt = q.attempt /\ b.targets = q.targets /\ b.idx = q.idx
      BY DEF RequestState
    <2>3. QED
      BY <2>1, <2>2
  <1>2. j \in Contract!Job
    BY JobTyped
  <1>3. /\ i \in Contract!Job
        /\ i.phase = j.phase /\ i.live = j.live /\ i.tries = j.tries
        /\ i.targets = j.targets /\ i.pos = j.pos /\ i.sent = TRUE
        /\ i.gone = j.gone /\ i.final = j.final
    BY <1>2 DEF Contract!Job
  <1> HIDE DEF b, i
  <1>4. /\ j.pos = q.idx /\ j.targets = q.targets /\ j.tries = q.attempt
        /\ j.gone = q.gone /\ j.phase = "running" /\ j.live = TRUE
        /\ j.final = FALSE
    BY JobFields
  <1>5. /\ JobOf(b).phase = "running" /\ JobOf(b).live = TRUE
        /\ JobOf(b).final = FALSE
    BY <1>1, JobFields
  <1> HIDE DEF j
  <1>6. JobOf(b) = i
    <2>1. /\ i.phase = JobOf(b).phase /\ i.live = JobOf(b).live
          /\ i.final = JobOf(b).final
      BY <1>1, <1>3, <1>4, <1>5
    <2>2. /\ i.targets = b.targets /\ i.pos = b.idx /\ i.tries = b.attempt
          /\ i.sent = b.started /\ i.gone = b.gone
      BY <1>1, <1>3, <1>4, <1>5
    <2>3. b \in RequestState /\ i \in Contract!Job
      BY <1>1, <1>3, <1>4, <1>5
    <2>4. QED
      BY <2>1, <2>2, <2>3, JobIs
  <1>7. QED
    BY <1>6 DEF b, i, j

\* The client leaves.
LEMMA LeaveJob ==
  ASSUME NEW q \in RequestState, q.pc \notin {"idle", "done"}
  PROVE  JobOf([q EXCEPT !.gone = TRUE]) = [JobOf(q) EXCEPT !.gone = TRUE]
  <1> DEFINE b == [q EXCEPT !.gone = TRUE]
             j == JobOf(q)
             i == [j EXCEPT !.gone = TRUE]
  <1>1. /\ b \in RequestState /\ b.pc = q.pc /\ b.err = q.err
        /\ b.attempt = q.attempt /\ b.targets = q.targets /\ b.idx = q.idx
        /\ b.gone = TRUE /\ b.started = q.started
    <2>1. b \in RequestState
      BY RequestTyped, Zenon
    <2>2. /\ b.pc = q.pc /\ b.err = q.err /\ b.gone = TRUE
          /\ b.attempt = q.attempt /\ b.targets = q.targets /\ b.idx = q.idx
          /\ b.started = q.started
      BY DEF RequestState
    <2>3. QED
      BY <2>1, <2>2
  <1>2. j \in Contract!Job
    BY JobTyped
  <1>3. /\ i \in Contract!Job
        /\ i.phase = j.phase /\ i.live = j.live /\ i.tries = j.tries
        /\ i.targets = j.targets /\ i.pos = j.pos /\ i.sent = j.sent
        /\ i.gone = TRUE /\ i.final = j.final
    BY <1>2 DEF Contract!Job
  <1> HIDE DEF b, i
  <1>4. /\ j.pos = q.idx /\ j.targets = q.targets /\ j.tries = q.attempt
        /\ j.sent = q.started /\ j.phase = "running"
        /\ j.live = (q.pc = "calling")
        /\ j.final = (q.pc = "failed" /\ ~Failoverable(q.err))
    BY JobFields
  <1>5. /\ JobOf(b).phase = "running" /\ JobOf(b).live = (q.pc = "calling")
        /\ JobOf(b).final = (q.pc = "failed" /\ ~Failoverable(q.err))
    BY <1>1, JobFields
  <1> HIDE DEF j
  <1>6. JobOf(b) = i
    <2>1. /\ i.phase = JobOf(b).phase /\ i.live = JobOf(b).live
          /\ i.final = JobOf(b).final
      BY <1>1, <1>3, <1>4, <1>5
    <2>2. /\ i.targets = b.targets /\ i.pos = b.idx /\ i.tries = b.attempt
          /\ i.sent = b.started /\ i.gone = b.gone
      BY <1>1, <1>3, <1>4, <1>5
    <2>3. b \in RequestState /\ i \in Contract!Job
      BY <1>1, <1>3, <1>4, <1>5
    <2>4. QED
      BY <2>1, <2>2, <2>3, JobIs
  <1>7. QED
    BY <1>6 DEF b, i, j

\* Sleeping before a retry changes nothing for the client.
LEMMA BackoffJob ==
  ASSUME NEW q \in RequestState, q.pc = "failed", Failoverable(q.err)
  PROVE  JobOf([q EXCEPT !.pc = "backoff"]) = JobOf(q)
  BY DEF JobOf, RequestState

\* Nor does the answer of the breaker that lets a call pass.
LEMMA AdmittedJob ==
  ASSUME NEW q \in RequestState, q.pc = "admit"
  PROVE  JobOf([q EXCEPT !.pc = "admitted"]) = JobOf(q)
  BY DEF JobOf, RequestState

\* An idle slot is a free job.
LEMMA IdleJob == JobOf(Idle) = Contract!Free /\ Contract!Free \in Contract!Job
  BY DEF JobOf, Idle, Contract!Free, Contract!Job, Failoverable

\* A submitted request is a running job at its first target.
LEMMA SubmitJob ==
  ASSUME NEW ts \in TargetLists, NEW s \in BOOLEAN
  PROVE  JobOf([Idle EXCEPT !.pc = "admit", !.targets = ts, !.stream = s,
                            !.idx = 1])
         = [Contract!Free EXCEPT !.phase = "running", !.targets = ts, !.pos = 1]
  <1> DEFINE b == [Idle EXCEPT !.pc = "admit", !.targets = ts, !.stream = s,
                               !.idx = 1]
             j == Contract!Free
             i == [j EXCEPT !.phase = "running", !.targets = ts, !.pos = 1]
  <1>1. /\ b.pc = "admit" /\ b.attempt = 0 /\ b.targets = ts /\ b.idx = 1
        /\ b.gone = FALSE /\ b.started = FALSE
    BY IdleTyped DEF Idle
  <1>2. b \in RequestState
    BY SubmittedTyped
  <1>3. j \in Contract!Job /\ 1 \in Nat
    BY IdleJob
  <1>4. /\ i.phase = "running" /\ i.targets = ts /\ i.pos = 1 /\ i.tries = 0
        /\ i.live = FALSE /\ i.sent = FALSE /\ i.gone = FALSE /\ i.final = FALSE
    BY <1>3 DEF Contract!Job, Contract!Free
  <1> HIDE DEF j
  <1>5. i \in Contract!Job
    BY <1>3, ZenonT(30) DEF Contract!Job
  <1> HIDE DEF b, i
  <1>6. /\ JobOf(b).phase = "running" /\ JobOf(b).live = FALSE
        /\ JobOf(b).final = FALSE
    BY <1>1, <1>2, JobFields
  <1>7. JobOf(b) = i
    <2>1. /\ i.phase = JobOf(b).phase /\ i.live = JobOf(b).live
          /\ i.final = JobOf(b).final
      BY <1>1, <1>2, <1>4, <1>5, <1>6
    <2>2. /\ i.targets = b.targets /\ i.pos = b.idx /\ i.tries = b.attempt
          /\ i.sent = b.started /\ i.gone = b.gone
      BY <1>1, <1>2, <1>4, <1>5, <1>6
    <2>3. b \in RequestState /\ i \in Contract!Job
      BY <1>1, <1>2, <1>4, <1>5, <1>6
    <2>4. QED
      BY <2>1, <2>2, <2>3, JobIs
  <1>8. QED
    BY <1>7 DEF b, i, j

(* --- the steps ------------------------------------------------------------ *)

\* Giving up a target either moves the job to its next target or fails it.
LEMMA NextTargetJob ==
  ASSUME NEW q \in RequestState, ReqOK(q), q.pc \in {"admit", "failed"},
         q.pc = "failed" => Failoverable(q.err),
         NEW k \in Errors, Failoverable(k)
  PROVE  \/ /\ q.idx < Len(q.targets)
            /\ JobOf(NextTarget(q, k))
                 = [JobOf(q) EXCEPT !.pos = @ + 1, !.tries = 0]
         \/ /\ q.idx = Len(q.targets)
            /\ JobOf(NextTarget(q, k)) = [JobOf(q) EXCEPT !.phase = "failed"]
  <1> DEFINE best == MoreInformative(q.best, k)
             b == NextTarget(q, k)
  <1>1. b \in RequestState
    BY RequestTyped
  <1>2. /\ b.targets = q.targets /\ b.gone = q.gone /\ b.started = q.started
    BY DEF NextTarget, Answer, RequestState
  <1>3. CASE q.idx < Len(q.targets)
    <2>1. b.pc = "admit" /\ b.idx = q.idx + 1 /\ b.attempt = 0
      BY <1>3 DEF NextTarget, RequestState
    <2> HIDE DEF b
    <2>2. JobOf(b) = [JobOf(q) EXCEPT !.pos = @ + 1, !.tries = 0]
      BY <1>1, <1>2, <2>1, AdvanceJob
    <2>3. QED
      BY <1>3, <2>2 DEF b
  <1>4. CASE ~(q.idx < Len(q.targets))
    <2>1. b.pc = "done" /\ b.idx = q.idx /\ b.attempt = q.attempt /\ b.err = best
      BY <1>4 DEF NextTarget, Answer, RequestState
    <2>2. best # "none" /\ Failoverable(best)
      BY DEF MoreInformative, ReqOK, Errors, Kinds, PlainErrors
    <2>3. q.idx = Len(q.targets)
      BY <1>4, ExecutorAssumption DEF ReqOK
    <2> HIDE DEF b, best
    <2>4. JobOf(b) = [JobOf(q) EXCEPT !.phase = "failed"]
      BY <1>1, <1>2, <2>1, <2>2, FailJob
    <2>5. QED
      BY <2>3, <2>4 DEF b
  <1>5. QED
    BY <1>3, <1>4

\* Every step of the executor is a step of the contract, or a stutter.
LEMMA StepRefines ==
  ASSUME TypeOK, RequestsOK, [Next]_vars
  PROVE  [Contract!Next]_Contract!vars
  <1> USE DEF Contract!Becomes
  <1>1. ASSUME NEW r \in Requests
        PROVE  req[r] \in RequestState /\ ReqOK(req[r]) /\ job[r] = JobOf(req[r])
    BY DEF TypeOK, RequestsOK, job
  <1>2. ASSUME NEW r \in Requests, Submit(r) PROVE Contract!Submit(r)
    <2>1. PICK ts \in TargetLists, s \in BOOLEAN :
            req' = [req EXCEPT ![r] = [Idle EXCEPT !.pc = "admit",
                      !.targets = ts, !.stream = s, !.idx = 1]]
      BY <1>2 DEF Submit
    <2>2. job' = [job EXCEPT ![r] = [Contract!Free EXCEPT !.phase = "running",
                                        !.targets = ts, !.pos = 1]]
      <3> DEFINE b == [Idle EXCEPT !.pc = "admit", !.targets = ts,
                                   !.stream = s, !.idx = 1]
                 i == [Contract!Free EXCEPT !.phase = "running",
                                            !.targets = ts, !.pos = 1]
      <3>1. JobOf(b) = i
        BY SubmitJob
      <3>2. req' = [req EXCEPT ![r] = b]
        BY <2>1
      <3> HIDE DEF b, i
      <3>3. job' = [job EXCEPT ![r] = JobOf(b)]
        BY <3>2, JobStep
      <3>4. QED
        BY <3>1, <3>3 DEF i
    <2>3. job[r].phase = "free"
      BY <1>1, <1>2, JobFields DEF Submit
    <2>4. QED
      BY <2>2, <2>3 DEF Contract!Submit, job
  <1>3. ASSUME NEW r \in Requests, req[r].pc \in {"admitted", "backoff"},
               req' = [req EXCEPT ![r] = BeginCall(@)]
        PROVE  Contract!Call(r)
    <2>1. job' = [job EXCEPT ![r] = [job[r] EXCEPT !.live = TRUE,
                                                   !.tries = @ + 1]]
      <3>1. job' = [job EXCEPT ![r] = JobOf(BeginCall(req[r]))]
        BY <1>3, JobStep
      <3>2. JobOf(BeginCall(req[r]))
              = [JobOf(req[r]) EXCEPT !.live = TRUE, !.tries = @ + 1]
        BY <1>1, <1>3, CallJob
      <3>3. QED
        BY <1>1, <3>1, <3>2
    <2>2. /\ job[r].phase = "running" /\ ~job[r].live /\ ~job[r].final
          /\ job[r].sent = req[r].started /\ job[r].tries = req[r].attempt
      <3>1. job[r] = JobOf(req[r])
        BY <1>1
      <3>2. /\ req[r].pc \in {"admit", "admitted", "failed", "backoff"}
            /\ req[r].pc # "failed"
        BY <1>3
      <3>3. /\ JobOf(req[r]).phase = "running" /\ JobOf(req[r]).live = FALSE
            /\ JobOf(req[r]).final = FALSE
            /\ JobOf(req[r]).pos = req[r].idx
            /\ JobOf(req[r]).targets = req[r].targets
            /\ JobOf(req[r]).sent = req[r].started
            /\ JobOf(req[r]).tries = req[r].attempt
        BY <1>1, <3>2, StoppedJob
      <3>4. QED
        BY <3>1, <3>3
    <2>3. ~req[r].started /\ req[r].attempt < MaxAttempts
      BY <1>1, <1>3, ExecutorAssumption DEF ReqOK, Retrying
    <2>4. QED
      BY <2>1, <2>2, <2>3 DEF Contract!Call, Contract!MayCall, job
  <1>4. ASSUME NEW r \in Requests, req[r].pc \in {"admit", "failed"},
               req[r].pc = "failed" => Failoverable(req[r].err),
               ~req[r].started, NEW k \in Errors, Failoverable(k),
               req' = [req EXCEPT ![r] = NextTarget(@, k)]
        PROVE  Contract!Advance(r) \/ Contract!Fail(r)
    <2>1. job' = [job EXCEPT ![r] = JobOf(NextTarget(req[r], k))]
      BY <1>4, JobStep
    <2>2. /\ job[r].phase = "running" /\ ~job[r].live /\ ~job[r].final
          /\ job[r].pos = req[r].idx /\ job[r].targets = req[r].targets
          /\ job[r].sent = req[r].started
      <3>1. job[r] = JobOf(req[r])
        BY <1>1
      <3>2. /\ req[r].pc \in {"admit", "admitted", "failed", "backoff"}
            /\ req[r].pc = "failed" => Failoverable(req[r].err)
        BY <1>4
      <3>3. /\ JobOf(req[r]).phase = "running" /\ JobOf(req[r]).live = FALSE
            /\ JobOf(req[r]).final = FALSE
            /\ JobOf(req[r]).pos = req[r].idx
            /\ JobOf(req[r]).targets = req[r].targets
            /\ JobOf(req[r]).sent = req[r].started
            /\ JobOf(req[r]).tries = req[r].attempt
        BY <1>1, <3>2, StoppedJob
      <3>4. QED
        BY <3>1, <3>3
    <2>3. CASE /\ req[r].idx < Len(req[r].targets)
               /\ JobOf(NextTarget(req[r], k))
                    = [JobOf(req[r]) EXCEPT !.pos = @ + 1, !.tries = 0]
      <3>1. job' = [job EXCEPT ![r] = [job[r] EXCEPT !.pos = @ + 1, !.tries = 0]]
        BY <1>1, <2>1, <2>3
      <3>2. QED
        BY <1>4, <2>2, <2>3, <3>1 DEF Contract!Advance, Contract!MayCall, job
    <2>4. CASE /\ req[r].idx = Len(req[r].targets)
               /\ JobOf(NextTarget(req[r], k))
                    = [JobOf(req[r]) EXCEPT !.phase = "failed"]
      <3>1. job' = [job EXCEPT ![r] = [job[r] EXCEPT !.phase = "failed"]]
        BY <1>1, <2>1, <2>4
      <3>2. QED
        BY <2>2, <2>4, <3>1 DEF Contract!Fail, Contract!MayFail, job
    <2>5. QED
      BY <1>1, <1>4, <2>3, <2>4, NextTargetJob
  <1>5. ASSUME NEW r \in Requests, Refuse(r)
        PROVE  Contract!Advance(r) \/ Contract!Fail(r)
    <2>1. ~req[r].started
      BY <1>1, <1>5 DEF Refuse, ReqOK
    <2>2. QED
      BY <1>4, <1>5, <2>1, KindsTyped DEF Refuse, Failoverable
  <1>6. ASSUME NEW r \in Requests, FailOver(r)
        PROVE  Contract!Advance(r) \/ Contract!Fail(r)
    <2>1. /\ req[r].err \in Errors /\ Failoverable(req[r].err)
          /\ ~req[r].started
      BY <1>1, <1>6 DEF FailOver, Final, ReqOK
    <2>2. QED
      BY <1>4, <1>6, <2>1 DEF FailOver
  <1>7. ASSUME NEW r \in Requests, NEW k \in Errors \cup {"none"},
               req[r].pc \in {"failed", "backoff"}, k # "none",
               ~Failoverable(k) <=> req[r].pc = "failed"
                                      /\ ~Failoverable(req[r].err),
               \/ req[r].gone \/ req[r].started
               \/ req[r].pc = "failed" /\ ~Failoverable(req[r].err),
               req' = [req EXCEPT ![r] = Answer(@, k)]
        PROVE  Contract!Fail(r)
    <2> DEFINE b == Answer(req[r], k)
    <2>1. /\ b \in RequestState /\ b.pc = "done" /\ b.err = k
          /\ b.attempt = req[r].attempt /\ b.targets = req[r].targets
          /\ b.idx = req[r].idx /\ b.gone = req[r].gone
          /\ b.started = req[r].started
      BY <1>1, AnswerFields
    <2>2. job' = [job EXCEPT ![r] = JobOf(b)]
      BY <1>7, JobStep
    <2> HIDE DEF b
    <2>3. JobOf(b) = [JobOf(req[r]) EXCEPT !.phase = "failed"]
      BY <1>1, <1>7, <2>1, FailJob
    <2>4. job' = [job EXCEPT ![r] = [job[r] EXCEPT !.phase = "failed"]]
      BY <1>1, <2>2, <2>3
    <2>5. /\ job[r].phase = "running" /\ ~job[r].live
          /\ job[r].gone = req[r].gone /\ job[r].sent = req[r].started
          /\ job[r].final = (req[r].pc = "failed" /\ ~Failoverable(req[r].err))
      <3>1. req[r].pc \in {"failed", "backoff"} /\ job[r] = JobOf(req[r])
        BY <1>1, <1>7
      <3>2. /\ JobOf(req[r]).phase = "running"
            /\ JobOf(req[r]).live = FALSE
            /\ JobOf(req[r]).gone = req[r].gone
            /\ JobOf(req[r]).sent = req[r].started
        BY <1>1, <3>1, JobFields
      <3>3. JobOf(req[r]).final
              = (req[r].pc = "failed" /\ ~Failoverable(req[r].err))
        BY <3>1 DEF JobOf
      <3>4. QED
        BY <3>1, <3>2, <3>3
    <2>6. QED
      BY <1>7, <2>4, <2>5 DEF Contract!Fail, Contract!MayFail, job
  <1>8. ASSUME NEW r \in Requests, Stop(r) PROVE Contract!Fail(r)
    <2>1. req[r].err \in Errors /\ req[r].err # "none"
      BY <1>1, <1>8 DEF Stop, ReqOK, Errors, Kinds, PlainErrors
    <2>2. QED
      BY <1>7, <1>8, <2>1 DEF Stop, Final
  <1>9. ASSUME NEW r \in Requests, WakeCanceled(r) PROVE Contract!Fail(r)
    BY <1>7, <1>9, KindsTyped DEF WakeCanceled, Failoverable
  <1>10. ASSUME NEW r \in Requests, Backoff(r) PROVE job' = job
    <2>1. Failoverable(req[r].err)
      BY <1>10 DEF Backoff, Retrying, Retryable, Failoverable
    <2>2. job' = [job EXCEPT ![r] = job[r]]
      <3> DEFINE b == [req[r] EXCEPT !.pc = "backoff"]
      <3>1. JobOf(b) = JobOf(req[r])
        BY <1>1, <1>10, <2>1, BackoffJob DEF Backoff
      <3>2. req' = [req EXCEPT ![r] = b]
        BY <1>10 DEF Backoff
      <3> HIDE DEF b
      <3>3. QED
        BY <1>1, <3>1, <3>2, JobStep
    <2>3. QED
      BY <2>2 DEF job
  <1>11. ASSUME NEW r \in Requests, FirstChunk(r) PROVE Contract!Deliver(r)
    <2>1. job' = [job EXCEPT ![r] = [job[r] EXCEPT !.sent = TRUE]]
      <3> DEFINE b == [req[r] EXCEPT !.started = TRUE]
      <3>1. JobOf(b) = [JobOf(req[r]) EXCEPT !.sent = TRUE]
        BY <1>1, <1>11, DeliverJob DEF FirstChunk
      <3>2. req' = [req EXCEPT ![r] = b]
        BY <1>11 DEF FirstChunk
      <3> HIDE DEF b
      <3>3. QED
        BY <1>1, <3>1, <3>2, JobStep
    <2>2. QED
      BY <1>1, <1>11, <2>1, JobFields DEF FirstChunk, Contract!Deliver, job
  <1>12. ASSUME NEW r \in Requests, CallSucceeds(r) PROVE Contract!Serve(r)
    <2>1. job' = [job EXCEPT ![r] = [job[r] EXCEPT !.live = FALSE,
                                                   !.phase = "served"]]
      <3> DEFINE b == Answer(req[r], "none")
      <3>1. JobOf(b) = [JobOf(req[r]) EXCEPT !.live = FALSE,
                                                   !.phase = "served"]
        BY <1>1, <1>12, ServeJob DEF CallSucceeds
      <3>2. req' = [req EXCEPT ![r] = b]
        BY <1>12 DEF CallSucceeds
      <3> HIDE DEF b
      <3>3. QED
        BY <1>1, <3>1, <3>2, JobStep
    <2>2. QED
      BY <1>1, <1>12, <2>1, JobFields DEF CallSucceeds, Contract!Serve, job
  <1>13. ASSUME NEW r \in Requests, NEW k \in Errors, Fails(r, k)
         PROVE  Contract!Fault(r)
    <2>1. job' = [job EXCEPT ![r] = [job[r] EXCEPT !.live = FALSE,
                                                   !.final = ~Failoverable(k)]]
      <3> DEFINE b == [req[r] EXCEPT !.pc = "failed", !.err = k]
      <3>1. JobOf(b) = [JobOf(req[r]) EXCEPT !.live = FALSE,
                                                   !.final = ~Failoverable(k)]
        BY <1>1, <1>13, FaultJob DEF Fails
      <3>2. req' = [req EXCEPT ![r] = b]
        BY <1>13 DEF Fails
      <3> HIDE DEF b
      <3>3. job' = [job EXCEPT ![r] = JobOf(b)]
        BY <3>2, JobStep
      <3>4. QED
        BY <1>1, <3>1, <3>3, Zenon
    <2>2. job[r].live
      BY <1>1, <1>13, JobFields DEF Fails
    <2>3. QED
      BY <2>1, <2>2 DEF Contract!Fault, job
  <1>14. ASSUME NEW r \in Requests, Disconnect(r) PROVE Contract!Leave(r)
    <2>1. job' = [job EXCEPT ![r] = [job[r] EXCEPT !.gone = TRUE]]
      <3> DEFINE b == [req[r] EXCEPT !.gone = TRUE]
      <3>1. JobOf(b) = [JobOf(req[r]) EXCEPT !.gone = TRUE]
        BY <1>1, <1>14, LeaveJob DEF Disconnect
      <3>2. req' = [req EXCEPT ![r] = b]
        BY <1>14 DEF Disconnect
      <3> HIDE DEF b
      <3>3. QED
        BY <1>1, <3>1, <3>2, JobStep
    <2>2. QED
      BY <1>1, <1>14, <2>1, JobFields DEF Disconnect, Contract!Leave, job
  <1>15. ASSUME NEW r \in Requests, Reply(r) PROVE Contract!Release(r)
    <2>1. job' = [job EXCEPT ![r] = Contract!Free]
      BY <1>15, JobStep, IdleJob DEF Reply
    <2>2. job[r].phase \in {"served", "failed"}
      BY <1>1, <1>15, JobFields DEF Reply
    <2>3. QED
      BY <2>1, <2>2 DEF Contract!Release, job
  <1>16. ASSUME Tick \/ UNCHANGED vars PROVE job' = job
    BY <1>16 DEF Tick, vars, job
  <1>17. ASSUME NEW r \in Requests, Begin(r) \/ Wake(r)
         PROVE  Contract!Call(r)
    BY <1>3, <1>17 DEF Begin, Wake
  <1>18. ASSUME NEW r \in Requests, Admit(r) \/ AdmitBlind(r)
         PROVE  job' = job
    <2>1. job' = [job EXCEPT ![r] = job[r]]
      <3> DEFINE b == [req[r] EXCEPT !.pc = "admitted"]
      <3>1. JobOf(b) = JobOf(req[r])
        BY <1>1, <1>18, AdmittedJob DEF Admit, AdmitBlind
      <3>2. req' = [req EXCEPT ![r] = b]
        BY <1>18 DEF Admit, AdmitBlind
      <3> HIDE DEF b
      <3>3. QED
        BY <1>1, <3>1, <3>2, JobStep
    <2>2. QED
      BY <2>1 DEF job
  <1>19. CASE Next
    <2>1. CASE Tick
      BY <1>16, <2>1 DEF Contract!vars, job
    <2>2. ASSUME NEW r \in Requests,
                 Submit(r) \/ Proceed(r) \/ FirstChunk(r) \/ Returns(r)
                   \/ Disconnect(r) \/ Reply(r)
          PROVE  Contract!Next \/ job' = job
      <3>1. CASE Submit(r) \/ FirstChunk(r) \/ Disconnect(r) \/ Reply(r)
        BY <1>2, <1>11, <1>14, <1>15, <3>1 DEF Contract!Next
      <3>2. CASE Returns(r)
        BY <1>12, <1>13, <3>2, FailuresFail DEF Returns, Contract!Next
      <3>3. CASE Proceed(r)
        BY <1>5, <1>6, <1>8, <1>9, <1>10, <1>17, <1>18, <3>3
        DEF Proceed, Contract!Next
      <3>4. QED
        BY <2>2, <3>1, <3>2, <3>3
    <2>3. QED
      BY <1>19, <2>1, <2>2 DEF Next, Contract!vars, job
  <1>20. QED
    BY <1>16, <1>19 DEF Contract!vars, job

(* The executor implements the failover contract for every set of requests  *)
(* and target lists, and every retry and breaker configuration              *)
(* (executor.go:81-198).                                                    *)
THEOREM ExecutorImplementsFailover == Spec => FailoverContract
  <1>1. Init => Contract!Init
    BY IdleJob DEF Init, Contract!Init
  <1>2. Spec => [](TypeOK /\ RequestsOK)
    BY Inductive
  <1>3. TypeOK /\ RequestsOK /\ [Next]_vars
          => [Contract!Next]_Contract!vars
    BY StepRefines
  <1>4. QED
    BY <1>1, <1>2, <1>3, PTL DEF Spec, FailoverContract, Contract!Spec
=============================================================================
