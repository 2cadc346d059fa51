---------------------------- MODULE ServerProofs ----------------------------
(***************************************************************************)
(* The process runs the meter as Meter specifies it, so that what is       *)
(* proved of the meter holds in it; and its shutdown neither leaves a row  *)
(* behind nor closes the pool under one.  What a valid file builds is      *)
(* sound, and the loop of the embeddings endpoint keeps the executor's     *)
(* contract.  For every set of configuration files, requests and target    *)
(* lists, every buffer and batch size.                                     *)
(***************************************************************************)
EXTENDS Server, LedgerProofs

(* Every action of the process, grouped by what it does to the meter.        *)
LEMMA ServerRunsMeterStep == [ServerNext]_serverVars => [Next]_vars
  <1> SUFFICES ASSUME [ServerNext]_serverVars
               PROVE  [Next]_vars
    OBVIOUS
  <1>1. CASE Main
    <2>1. CASE CloseMeter
      BY <2>1 DEF CloseMeter, Next, Closer
    <2>2. CASE LoadConfig \/ Build \/ Listen \/ ListenerFails \/ BeginDrain
                 \/ Drained \/ DrainTimesOut \/ ClosePool \/ Release
      BY <2>2 DEF LoadConfig, Build, Listen, ListenerFails, BeginDrain, Drained,
                  DrainTimesOut, ClosePool, Release, meterVars
    <2>3. QED
      BY <1>1, <2>1, <2>2 DEF Main
  <1>2. CASE Signal
    BY <1>2 DEF Signal, meterVars
  <1>3. ASSUME NEW r \in Requests,
               Arrive(r) \/ LookUp(r) \/ Found(r) \/ Refuse(r) \/ Answer(r)
                 \/ Cut(r) \/ RecordRow(r)
        PROVE  [Next]_vars
    <2>1. CASE RecordRow(r)
      BY <2>1 DEF RecordRow, Next
    <2>2. CASE Arrive(r) \/ LookUp(r) \/ Found(r) \/ Refuse(r) \/ Answer(r)
                 \/ Cut(r)
      BY <2>2 DEF Arrive, LookUp, Found, Refuse, Answer, Cut, SetConn, meterVars
    <2>3. QED
      BY <1>3, <2>1, <2>2
  <1>4. CASE Writes(Writer)
    BY <1>4 DEF Writes, Next
  <1>5. CASE \E c \in Clients : Embed(c)
    BY <1>5 DEF Embed, meterVars
  <1>6. CASE UNCHANGED serverVars
    BY <1>6 DEF serverVars, meterVars
  <1>7. QED
    BY <1>1, <1>2, <1>3, <1>4, <1>5, <1>6 DEF ServerNext

(* The process contains a meter that behaves as Meter says: its handlers,   *)
(* its writer and its closer take the steps of that module only             *)
(* (main.go:236-262, 325-331).                                              *)
THEOREM ServerRunsMeter == ServerSpec => Spec
  <1>1. ServerInit => Init
    BY DEF ServerInit
  <1>2. QED
    BY <1>1, ServerRunsMeterStep, PTL DEF ServerSpec, Spec

(* In the process, too, the buffer and the batches stay within their sizes. *)
THEOREM MeterTypedInProcess == ServerSpec => []TypeOK
  BY ServerRunsMeter, MeterTypeCorrect, PTL

(* In the process, too, no row is lost from or repeated in the counters     *)
(* (meter.go:116-126, 139-183).                                             *)
THEOREM RowsAccountedInProcess == ServerSpec => []RowsAccounted
  BY ServerRunsMeter, MeterRowsAccounted, PTL

(* Through any shutdown of the process every row is settled once, and none  *)
(* is left in memory when the meter is closed (main.go:325-331).            *)
THEOREM LedgerKeptInProcess == ServerSpec => LedgerContract
  BY ServerRunsMeter, MeterImplementsLedger, PTL

(* In the process, too, what the ledger misses is in the counters, but for  *)
(* late records and rows whose id the table has (meter.go:107-108).         *)
THEOREM LossesCountedInProcess == ServerSpec => []LossesCounted
  BY ServerRunsMeter, EveryLossIsCounted, PTL

(* In the process, too, every row counted as written has its id in the      *)
(* table, also when clients choose one id twice (meter.go:49).              *)
THEOREM WrittenArePersistedInProcess == ServerSpec => []WrittenArePersisted
  BY ServerRunsMeter, WrittenRowsArePersisted, PTL

(* Shutdown waits for the writer for a bounded number of its steps, however *)
(* many handlers outlive Server.Shutdown and go on recording                *)
(* (main.go:325-331).                                                       *)
THEOREM DrainIsBoundedInProcess == ServerSpec => DrainAdvances
  BY ServerRunsMeter, DrainIsBounded, PTL

-----------------------------------------------------------------------------
(* The process's side: the meter and the pool are closed only after the     *)
(* server has returned, and a gateway that has drained has no handler left  *)
(* that has not recorded.                                                   *)
Serving == {"loading", "building", "built", "serving", "draining"}

Settled(r) ==
  /\ conn[r] \in {"answered", "cut"}
  /\ metered => row[r] \in {"enqueued", "dropped"}

Unwinds ==
  /\ conn \in [Requests -> Handlers]
  /\ main \in Serving => outcome = "none" /\ closer = "open"
  /\ pool \in {"closing", "closed"} =>
       main \notin Serving /\ (metered => closer = "closed")
  /\ outcome = "drained" =>
       \A r \in Requests : conn[r] # "absent" => Settled(r)

ShutdownInv == ClosedInOrder /\ Unwinds

LEMMA MainUnwinds ==
  ASSUME TypeOK, ShutdownInv, Main
  PROVE  Unwinds'
  <1> USE DEF Serving
  <1>1. CASE LoadConfig
    BY <1>1 DEF LoadConfig, Exit, ShutdownInv, Unwinds, Settled, meterVars, vars
  <1>2. CASE Build
    BY <1>2 DEF Build, Exit, ShutdownInv, Unwinds, Settled, meterVars, vars
  <1>3. CASE Listen \/ ListenerFails \/ BeginDrain \/ DrainTimesOut \/ Release
    BY <1>3 DEF Listen, ListenerFails, BeginDrain, DrainTimesOut, Release,
                ShutdownInv, Unwinds, Settled, meterVars, vars
  <1>4. CASE Drained
    <2>1. ASSUME NEW r \in Requests, conn[r] # "absent"
          PROVE  Settled(r)
      BY <1>4, <2>1 DEF Drained, Returned, Settled, ShutdownInv, Unwinds,
                        ClosedInOrder, TypeOK, RowStates
    <2>2. QED
      BY <1>4, <2>1 DEF Drained, ShutdownInv, Unwinds, Settled, meterVars, vars
  <1>5. CASE CloseMeter
    BY <1>5 DEF CloseMeter, BeginClose, CloseChannel, FinishClose, processVars,
                ShutdownInv, Unwinds, Settled
  <1>6. CASE ClosePool
    BY <1>6 DEF ClosePool, ShutdownInv, Unwinds, Settled, meterVars, vars
  <1>7. QED
    BY <1>1, <1>2, <1>3, <1>4, <1>5, <1>6 DEF Main

LEMMA HandlersUnwind ==
  ASSUME TypeOK, ShutdownInv, NEW r \in Requests,
         Arrive(r) \/ LookUp(r) \/ Found(r) \/ Refuse(r) \/ Answer(r)
           \/ Cut(r) \/ RecordRow(r)
  PROVE  Unwinds'
  <1>1. CASE Arrive(r) \/ LookUp(r)
    BY <1>1 DEF Arrive, LookUp, Open, SetConn, Handlers, ShutdownInv, Unwinds,
                Settled, processVars, meterVars, vars
  <1>2. CASE Found(r) \/ Refuse(r) \/ Answer(r) \/ Cut(r)
    BY <1>2 DEF Found, Refuse, Answer, Cut, SetConn, Handlers, ShutdownInv,
                Unwinds, Settled, processVars, meterVars, vars
  <1>3. CASE RecordRow(r)
    <2>1. UNCHANGED <<closer, processVars, conn>>
      BY <1>3 DEF RecordRow, Handler, Check, Send, Count
    <2>2. \A q \in Requests : q # r => row'[q] = row[q]
      BY <1>3 DEF RecordRow, Handler, Check, Send, Count, SetRow, TypeOK
    <2>3. ~Settled(r) /\ conn[r] # "absent"
      BY <1>3 DEF RecordRow, Handler, Check, Send, Count, Settled
    <2>4. QED
      BY <2>1, <2>2, <2>3 DEF ShutdownInv, Unwinds, Settled, processVars
  <1>4. QED
    BY <1>1, <1>2, <1>3

LEMMA ShutdownStep ==
  TypeOK /\ ShutdownInv /\ [ServerNext]_serverVars => ShutdownInv'
  <1> SUFFICES ASSUME TypeOK, ShutdownInv, [ServerNext]_serverVars
               PROVE  ShutdownInv'
    OBVIOUS
  <1>1. ClosedInOrder'
    BY ServerRunsMeterStep, MeterClosesInOrder DEF ShutdownInv
  <1>2. Unwinds'
    <2>1. CASE Main
      BY <2>1, MainUnwinds
    <2>2. CASE Signal
      BY <2>2 DEF Signal, ShutdownInv, Unwinds, Settled, Serving, meterVars, vars
    <2>3. ASSUME NEW r \in Requests,
                 Arrive(r) \/ LookUp(r) \/ Found(r) \/ Refuse(r) \/ Answer(r)
                   \/ Cut(r) \/ RecordRow(r)
          PROVE  Unwinds'
      BY <2>3, HandlersUnwind
    <2>4. CASE Writes(Writer)
      <3>1. UNCHANGED <<row, closer, processVars, conn>>
        BY <2>4 DEF Writes, Writer, Receive, Flush, Drain, WriteSucceeds,
                    WriteFails, Written
      <3>2. QED
        BY <3>1 DEF ShutdownInv, Unwinds, Settled, Serving, processVars
    <2>5. CASE \E c \in Clients : Embed(c)
      BY <2>5 DEF Embed, ShutdownInv, Unwinds, Settled, Serving, meterVars, vars,
                  processVars
    <2>6. CASE UNCHANGED serverVars
      BY <2>6 DEF serverVars, ShutdownInv, Unwinds, Settled, Serving, meterVars,
                  vars, processVars
    <2>7. QED
      BY <2>1, <2>2, <2>3, <2>4, <2>5, <2>6 DEF ServerNext
  <1>3. QED
    BY <1>1, <1>2 DEF ShutdownInv

LEMMA ShutdownInvariant == ServerSpec => []ShutdownInv
  <1>1. ServerInit => ShutdownInv
    BY DEF ServerInit, Init, ShutdownInv, ClosedInOrder, Unwinds, Serving,
           Handlers
  <1>2. QED
    BY <1>1, ShutdownStep, MeterTypedInProcess, PTL DEF ServerSpec

(* A shutdown within its timeout leaves no handler that has not recorded,   *)
(* so that none is late (server.go:131-137).                                *)
THEOREM DrainBooksEveryRequest == ServerSpec => []DrainedIsBooked
  <1>1. ShutdownInv => DrainedIsBooked
    BY DEF ShutdownInv, Unwinds, Settled, DrainedIsBooked
  <1>2. QED
    BY <1>1, ShutdownInvariant, PTL

(* Whatever ended the server, the pool is closed over an empty meter        *)
(* (main.go:327-328).                                                       *)
THEOREM PoolOutlivesMeter == ServerSpec => []PoolOutlivesRows
  <1>1. ShutdownInv => PoolOutlivesRows
    <2> SUFFICES ASSUME ShutdownInv, pool \in {"closing", "closed"}, metered
                 PROVE  writer = "exited" /\ InFlight = {}
      BY DEF PoolOutlivesRows
    <2>1. writer = "exited" /\ ch = <<>> /\ buf = <<>>
      BY DEF ShutdownInv, Unwinds, ClosedInOrder
    <2>2. QED
      BY <2>1 DEF InFlight
  <1>2. QED
    BY <1>1, ShutdownInvariant, PTL

-----------------------------------------------------------------------------
(* Validation and the constructors agree, whatever the file holds. *)

LEMMA ValidBuildsRouter ==
  ASSUME NEW c, Valid(c)
  PROVE  RouterBuilds(c)
  <1>1. \A n \in DOMAIN c.aliases : \A i \in DOMAIN c.aliases[n].targets :
          c.aliases[n].targets[i].provider \in EnabledNames(c)
    BY DEF Valid, AliasesValid, TargetValid
  <1>2. \A name \in EnabledNames(c) : \E p \in Registered(c) : p.name = name
    BY DEF EnabledNames, Enabled, Registered
  <1>3. QED
    BY <1>1, <1>2 DEF RouterBuilds

LEMMA ValidBuildsLayers ==
  ASSUME NEW c, Valid(c)
  PROVE  /\ c.cache => UsesRedis(c)
         /\ c.semantic => EmbedderBuilds(c)
  <1>1. c.cache => c.redis
    BY DEF Valid, StoresValid
  <1>2. c.semantic => EmbedderBuilds(c)
    BY DEF Valid, SemanticValid, EmbedderBuilds
  <1>3. QED
    BY <1>1, <1>2 DEF UsesRedis

LEMMA ValidIsSound ==
  ASSUME NEW c, Valid(c)
  PROVE  Sound(c, Layers(c))
  <1> DEFINE l == Layers(c)
  <1>1. ASSUME NEW n \in DOMAIN l.routes
        PROVE  /\ l.routes[n].targets # <<>>
               /\ l.routes[n].weighted =>
                    \A i \in DOMAIN l.routes[n].weights :
                      l.routes[n].weights[i] > 0
    <2>1. n \in DOMAIN c.aliases
      BY <1>1 DEF Layers
    <2> DEFINE a == c.aliases[n]
    <2>2. /\ l.routes[n].weighted = (a.strategy = "weighted")
          /\ l.routes[n].targets = a.targets
          /\ l.routes[n].weights = [i \in DOMAIN a.targets |->
                                     a.targets[i].weight]
      BY <2>1 DEF Layers
    <2>3. /\ a.targets # <<>>
          /\ a.strategy = "weighted" =>
               \A i \in DOMAIN a.targets : a.targets[i].weight > 0
      BY <2>1 DEF Valid, AliasesValid, TargetValid
    <2>4. QED
      BY <2>2, <2>3
  <1>2. l.attempts >= 1 /\ l.buffer > 0 /\ l.batch > 0
    BY DEF Layers, Positive, Valid, NumbersValid
  <1>3. c.limit => l.limiter = "redis" /\ l.rpm > 0 /\ l.burst > 0
    BY DEF Layers, Positive, UsesRedis, Valid, NumbersValid, StoresValid
  <1>4. c.meter => l.meter /\ l.auth = "keys"
    BY DEF Layers, Valid, StoresValid
  <1>5. c.semantic => l.semantic
    BY DEF Layers, Valid, SemanticValid
  <1>6. QED
    BY <1>1, <1>2, <1>3, <1>4, <1>5 DEF Sound

(* The configuration from its validation to the start of the server.         *)
Configured ==
  /\ main \in {"building", "built"} => Valid(config)
  /\ main = "built" => layers = Layers(config)

LEMMA ConfiguredInvariant == ServerSpec => []Configured
  <1>1. ServerInit => Configured
    BY DEF ServerInit, Configured
  <1>2. Configured /\ [ServerNext]_serverVars => Configured'
    <2> SUFFICES ASSUME Configured, [ServerNext]_serverVars
                 PROVE  Configured'
      OBVIOUS
    <2>1. CASE Main
      <3>1. CASE LoadConfig
        BY <3>1 DEF LoadConfig, Exit, Configured
      <3>2. CASE Build
        BY <3>2 DEF Build, Exit, Configured
      <3>3. CASE CloseMeter
        BY <3>3 DEF CloseMeter, processVars, Configured
      <3>4. CASE Listen \/ ListenerFails \/ BeginDrain \/ Drained
                   \/ DrainTimesOut \/ ClosePool \/ Release
        BY <3>4 DEF Listen, ListenerFails, BeginDrain, Drained, DrainTimesOut,
                    ClosePool, Release, Configured
      <3>5. QED
        BY <2>1, <3>1, <3>2, <3>3, <3>4 DEF Main
    <2>2. CASE UNCHANGED <<main, config, layers>>
      BY <2>2 DEF Configured
    <2>3. QED
      BY <2>1, <2>2 DEF ServerNext, Signal, Arrive, LookUp, Found, Refuse,
                        Answer, Cut, SetConn, RecordRow, Writes, Embed,
                        serverVars, processVars
  <1>3. QED
    BY <1>1, <1>2, PTL DEF ServerSpec

(* Once a file has passed validation, build fails neither in the router nor *)
(* in the cache or its embedder, whatever the file holds (router.go:60-63). *)
THEOREM ValidConfigurationBuilds == ServerSpec => []BuildAgrees
  <1>1. Configured => BuildAgrees
    BY ValidBuildsRouter, ValidBuildsLayers
    DEF Configured, BuildAgrees, StartupFaults
  <1>2. QED
    BY <1>1, ConfiguredInvariant, PTL

(* A gateway that starts to listen has what its file switches on, and what  *)
(* the other modules assume of their constants (config.go:307-308).         *)
THEOREM ValidLayersAreSound == ServerSpec => []LayersAsAssumed
  <1>1. Configured => LayersAsAssumed
    BY ValidIsSound DEF Configured, LayersAsAssumed
  <1>2. QED
    BY <1>1, ConfiguredInvariant, PTL

-----------------------------------------------------------------------------
(* The embeddings endpoint keeps the executor's promise. *)

(* The handler of one request, between any two of its steps: where it is in *)
(* the list of its alias, and that it goes on only after an error that      *)
(* another provider may not give.                                           *)
EmbOK(s) ==
  /\ s \in Emb!State
  /\ s.pc = "new" => s = Emb!New
  /\ s.pc \in {"ready", "calling", "failed"} => s.targets # <<>>
  /\ s.targets # <<>> => s.idx \in 1..Len(s.targets)
  /\ s.pc \in {"ready", "calling"} => Emb!Failoverable(s.last)
  /\ s.pc = "failed" => s.last \in Emb!Failures

EmbInv == emb \in [Clients -> Emb!State] /\ \A c \in Clients : EmbOK(emb[c])

(* An error ends the loop exactly when no other provider would do better.   *)
LEMMA EndsLoopWhenFinal ==
  \A k : Emb!EndsLoop(k) = ~Emb!Failoverable(k)
  BY DEF Emb!EndsLoop, Emb!Failoverable

(* The last error is one that every provider would give.                    *)
EmbFinal(k) == k # "none" /\ ~Emb!Failoverable(k)

LEMMA EmbFinalOrNot ==
  \A k : /\ EmbFinal(k) \in BOOLEAN
         /\ Emb!Failoverable(k) => EmbFinal(k) = FALSE
         /\ k # "none" /\ ~Emb!Failoverable(k) => EmbFinal(k) = TRUE
  BY DEF EmbFinal

(* A state of a handler, as the contract sees it.                           *)
LEMMA EmbJobFields ==
  ASSUME NEW s \in Emb!State
  PROVE  /\ Emb!JobOf(s) \in Emb!Contract!Job
         /\ Emb!JobOf(s).targets = s.targets /\ Emb!JobOf(s).pos = s.idx
         /\ Emb!JobOf(s).sent = FALSE /\ Emb!JobOf(s).gone = s.gone
         /\ s.pc = "calling" => Emb!JobOf(s).live = TRUE
         /\ s.pc # "calling" => Emb!JobOf(s).live = FALSE
         /\ s.pc \in {"new", "ready"} \/ s.targets = <<>> =>
              Emb!JobOf(s).tries = 0
         /\ s.pc \notin {"new", "ready"} /\ s.targets # <<>> =>
              Emb!JobOf(s).tries = 1
         /\ Emb!JobOf(s).final = EmbFinal(s.last)
         /\ s.targets = <<>> => Emb!JobOf(s).phase = "free"
         /\ s.targets # <<>> /\ s.pc # "answered" =>
              Emb!JobOf(s).phase = "running"
         /\ s.targets # <<>> /\ s.pc = "answered" =>
              Emb!JobOf(s).phase = IF s.answer = "vectors" THEN "served"
                                                          ELSE "failed"
  <1>1. Emb!JobOf(s) \in Emb!Contract!Job
    BY DEF Emb!JobOf, Emb!Contract!Job, Emb!State
  <1>2. /\ Emb!JobOf(s).targets = s.targets /\ Emb!JobOf(s).pos = s.idx
        /\ Emb!JobOf(s).sent = FALSE /\ Emb!JobOf(s).gone = s.gone
    BY DEF Emb!JobOf
  <1>3. /\ s.pc = "calling" => Emb!JobOf(s).live = TRUE
        /\ s.pc # "calling" => Emb!JobOf(s).live = FALSE
    BY DEF Emb!JobOf
  <1>4. /\ s.pc \in {"new", "ready"} \/ s.targets = <<>> =>
             Emb!JobOf(s).tries = 0
        /\ s.pc \notin {"new", "ready"} /\ s.targets # <<>> =>
             Emb!JobOf(s).tries = 1
    BY DEF Emb!JobOf
  <1>5. Emb!JobOf(s).final = EmbFinal(s.last)
    BY DEF Emb!JobOf, EmbFinal
  <1>6. /\ s.targets = <<>> => Emb!JobOf(s).phase = "free"
        /\ s.targets # <<>> /\ s.pc # "answered" => Emb!JobOf(s).phase = "running"
    BY DEF Emb!JobOf
  <1>7. s.targets # <<>> /\ s.pc = "answered" =>
          Emb!JobOf(s).phase = IF s.answer = "vectors" THEN "served" ELSE "failed"
    BY DEF Emb!JobOf
  <1>8. QED
    BY <1>1, <1>2, <1>3, <1>4, <1>5, <1>6, <1>7

(* Two jobs with the same fields are the same job.                          *)
LEMMA SameEmbJob ==
  ASSUME NEW i \in Emb!Contract!Job, NEW j \in Emb!Contract!Job,
         i.phase = j.phase, i.targets = j.targets, i.pos = j.pos,
         i.tries = j.tries, i.live = j.live, i.sent = j.sent,
         i.gone = j.gone, i.final = j.final
  PROVE  i = j
  BY DEF Emb!Contract!Job

(* A job that has changed as a step of the contract changes it.             *)
LEMMA CallIs ==
  ASSUME NEW k \in Emb!Contract!Job, NEW i \in Emb!Contract!Job,
         i.phase = k.phase, i.targets = k.targets, i.pos = k.pos, i.tries = k.tries + 1,
         i.live = TRUE, i.sent = k.sent, i.gone = k.gone, i.final = k.final
  PROVE  i = [k EXCEPT !.live = TRUE, !.tries = @ + 1]
  <1> DEFINE j == [k EXCEPT !.live = TRUE, !.tries = @ + 1]
  <1>1. k.tries + 1 \in Nat /\ TRUE \in BOOLEAN
    BY DEF Emb!Contract!Job
  <1>2. j \in Emb!Contract!Job
    BY <1>1, ZenonT(30) DEF Emb!Contract!Job
  <1>3. /\ j.phase = k.phase /\ j.targets = k.targets /\ j.pos = k.pos /\ j.tries = k.tries + 1
        /\ j.live = TRUE /\ j.sent = k.sent /\ j.gone = k.gone /\ j.final = k.final
    BY DEF Emb!Contract!Job
  <1> HIDE DEF j
  <1>4. i = j
    BY <1>2, <1>3, SameEmbJob
  <1>5. QED
    BY <1>4 DEF j

LEMMA ServeIs ==
  ASSUME NEW k \in Emb!Contract!Job, NEW i \in Emb!Contract!Job,
         i.phase = "served", i.targets = k.targets, i.pos = k.pos, i.tries = k.tries,
         i.live = FALSE, i.sent = k.sent, i.gone = k.gone, i.final = k.final
  PROVE  i = [k EXCEPT !.live = FALSE, !.phase = "served"]
  <1> DEFINE j == [k EXCEPT !.live = FALSE, !.phase = "served"]
  <1>1. FALSE \in BOOLEAN
    BY DEF Emb!Contract!Job
  <1>2. j \in Emb!Contract!Job
    BY <1>1, ZenonT(30) DEF Emb!Contract!Job
  <1>3. /\ j.phase = "served" /\ j.targets = k.targets /\ j.pos = k.pos /\ j.tries = k.tries
        /\ j.live = FALSE /\ j.sent = k.sent /\ j.gone = k.gone /\ j.final = k.final
    BY DEF Emb!Contract!Job
  <1> HIDE DEF j
  <1>4. i = j
    BY <1>2, <1>3, SameEmbJob
  <1>5. QED
    BY <1>4 DEF j

LEMMA FaultIs ==
  ASSUME NEW k \in Emb!Contract!Job, NEW f \in BOOLEAN, NEW i \in Emb!Contract!Job,
         i.phase = k.phase, i.targets = k.targets, i.pos = k.pos, i.tries = k.tries,
         i.live = FALSE, i.sent = k.sent, i.gone = k.gone, i.final = f
  PROVE  i = [k EXCEPT !.live = FALSE, !.final = f]
  <1> DEFINE j == [k EXCEPT !.live = FALSE, !.final = f]
  <1>1. FALSE \in BOOLEAN
    BY DEF Emb!Contract!Job
  <1>2. j \in Emb!Contract!Job
    BY <1>1, ZenonT(30) DEF Emb!Contract!Job
  <1>3. /\ j.phase = k.phase /\ j.targets = k.targets /\ j.pos = k.pos /\ j.tries = k.tries
        /\ j.live = FALSE /\ j.sent = k.sent /\ j.gone = k.gone /\ j.final = f
    BY DEF Emb!Contract!Job
  <1> HIDE DEF j
  <1>4. i = j
    BY <1>2, <1>3, SameEmbJob
  <1>5. QED
    BY <1>4 DEF j

LEMMA AdvanceIs ==
  ASSUME NEW k \in Emb!Contract!Job, NEW i \in Emb!Contract!Job,
         i.phase = k.phase, i.targets = k.targets, i.pos = k.pos + 1, i.tries = 0,
         i.live = k.live, i.sent = k.sent, i.gone = k.gone, i.final = k.final
  PROVE  i = [k EXCEPT !.pos = @ + 1, !.tries = 0]
  <1> DEFINE j == [k EXCEPT !.pos = @ + 1, !.tries = 0]
  <1>1. k.pos + 1 \in Nat /\ 0 \in Nat
    BY DEF Emb!Contract!Job
  <1>2. j \in Emb!Contract!Job
    BY <1>1, ZenonT(30) DEF Emb!Contract!Job
  <1>3. /\ j.phase = k.phase /\ j.targets = k.targets /\ j.pos = k.pos + 1 /\ j.tries = 0
        /\ j.live = k.live /\ j.sent = k.sent /\ j.gone = k.gone /\ j.final = k.final
    BY DEF Emb!Contract!Job
  <1> HIDE DEF j
  <1>4. i = j
    BY <1>2, <1>3, SameEmbJob
  <1>5. QED
    BY <1>4 DEF j

LEMMA FailIs ==
  ASSUME NEW k \in Emb!Contract!Job, NEW i \in Emb!Contract!Job,
         i.phase = "failed", i.targets = k.targets, i.pos = k.pos, i.tries = k.tries,
         i.live = k.live, i.sent = k.sent, i.gone = k.gone, i.final = k.final
  PROVE  i = [k EXCEPT !.phase = "failed"]
  <1> DEFINE j == [k EXCEPT !.phase = "failed"]
  <1>1. TRUE \in BOOLEAN
    BY DEF Emb!Contract!Job
  <1>2. j \in Emb!Contract!Job
    BY <1>1, ZenonT(30) DEF Emb!Contract!Job
  <1>3. /\ j.phase = "failed" /\ j.targets = k.targets /\ j.pos = k.pos /\ j.tries = k.tries
        /\ j.live = k.live /\ j.sent = k.sent /\ j.gone = k.gone /\ j.final = k.final
    BY DEF Emb!Contract!Job
  <1> HIDE DEF j
  <1>4. i = j
    BY <1>2, <1>3, SameEmbJob
  <1>5. QED
    BY <1>4 DEF j

LEMMA LeaveIs ==
  ASSUME NEW k \in Emb!Contract!Job, NEW i \in Emb!Contract!Job,
         i.phase = k.phase, i.targets = k.targets, i.pos = k.pos, i.tries = k.tries,
         i.live = k.live, i.sent = k.sent, i.gone = TRUE, i.final = k.final
  PROVE  i = [k EXCEPT !.gone = TRUE]
  <1> DEFINE j == [k EXCEPT !.gone = TRUE]
  <1>1. TRUE \in BOOLEAN
    BY DEF Emb!Contract!Job
  <1>2. j \in Emb!Contract!Job
    BY <1>1, ZenonT(30) DEF Emb!Contract!Job
  <1>3. /\ j.phase = k.phase /\ j.targets = k.targets /\ j.pos = k.pos /\ j.tries = k.tries
        /\ j.live = k.live /\ j.sent = k.sent /\ j.gone = TRUE /\ j.final = k.final
    BY DEF Emb!Contract!Job
  <1> HIDE DEF j
  <1>4. i = j
    BY <1>2, <1>3, SameEmbJob
  <1>5. QED
    BY <1>4 DEF j

LEMMA EmbNew ==
  /\ Emb!New \in Emb!State /\ EmbOK(Emb!New)
  /\ Emb!JobOf(Emb!New) = Emb!Contract!Free
  <1>1. Emb!New \in Emb!State
    BY DEF Emb!New, Emb!State, Emb!Steps, Emb!Answers
  <1>2. EmbOK(Emb!New)
    BY <1>1 DEF EmbOK, Emb!New
  <1>3. Emb!JobOf(Emb!New) = Emb!Contract!Free
    BY DEF Emb!New, Emb!JobOf, Emb!Contract!Free
  <1>4. QED
    BY <1>1, <1>2, <1>3

embJob == [c \in Clients |-> Emb!JobOf(emb[c])]

(* A step of one handler is a step of its job and of no other.              *)
LEMMA EmbBecomes ==
  ASSUME EmbInv, NEW c \in Clients, NEW b, EmbOK(b), Emb!Becomes(c, b)
  PROVE  EmbInv' /\ embJob' = [embJob EXCEPT ![c] = Emb!JobOf(b)]
  <1>1. b \in Emb!State
    BY DEF EmbOK
  <1>2. emb' = [emb EXCEPT ![c] = b]
    BY DEF Emb!Becomes
  <1>3. /\ emb' \in [Clients -> Emb!State] /\ emb'[c] = b
        /\ \A d \in Clients : d # c => emb'[d] = emb[d]
    BY <1>1, <1>2 DEF EmbInv
  <1>4. EmbInv'
    <2>1. \A d \in Clients : EmbOK(emb'[d])
      BY <1>3 DEF EmbInv
    <2>2. QED
      BY <1>3, <2>1 DEF EmbInv
  <1>5. embJob' = [embJob EXCEPT ![c] = Emb!JobOf(b)]
    BY <1>3 DEF embJob
  <1>6. QED
    BY <1>4, <1>5

(* A handler calls its current target.                                       *)
LEMMA EmbCalls ==
  ASSUME EmbInv, NEW c \in Clients, Emb!Call(c)
  PROVE  EmbInv' /\ Emb!Contract!Call(c)
  <1> DEFINE s == emb[c]
  <1>1. s \in Emb!State /\ EmbOK(s) /\ s.pc = "ready"
    BY DEF EmbInv, Emb!Call
  <1> DEFINE b == [s EXCEPT !.pc = "calling"]
  <1>2. "calling" \in Emb!Steps
    BY DEF Emb!Steps
  <1>3. b \in Emb!State
    BY <1>1, <1>2, ZenonT(30) DEF Emb!State, Emb!Steps, Emb!Answers
  <1>4. /\ b.pc = "calling" /\ b.targets = s.targets /\ b.idx = s.idx
        /\ b.last = s.last /\ b.gone = s.gone /\ b.answer = s.answer
    BY <1>1 DEF Emb!State
  <1>5. Emb!Becomes(c, b)
    BY DEF Emb!Call
  <1>6. s.targets # <<>> /\ Emb!Failoverable(s.last)
    BY <1>1 DEF EmbOK
  <1> HIDE DEF b
  <1>e. /\ Emb!Failoverable(s.last) => ~EmbFinal(s.last)
        /\ s.last # "none" /\ ~Emb!Failoverable(s.last) => EmbFinal(s.last)
    BY EmbFinalOrNot
  <1>7. EmbOK(b)
    BY <1>1, <1>2, <1>3, <1>4, <1>6, EndsLoopWhenFinal DEF EmbOK
  <1>8. EmbInv' /\ embJob' = [embJob EXCEPT ![c] = Emb!JobOf(b)]
    BY <1>5, <1>7, EmbBecomes
  <1>9. embJob[c] = Emb!JobOf(s)
    BY DEF embJob
  <1> DEFINE j == Emb!JobOf(s)
             i == Emb!JobOf(b)
  <1>10. /\ j \in Emb!Contract!Job
         /\ j.phase = "running" /\ j.targets = s.targets /\ j.pos = s.idx /\ j.tries = 0
         /\ j.live = FALSE /\ j.sent = FALSE /\ j.gone = s.gone /\ j.final = EmbFinal(s.last)
    BY <1>1, <1>6, EmbJobFields
  <1>11. /\ i \in Emb!Contract!Job
         /\ i.phase = "running" /\ i.targets = s.targets /\ i.pos = s.idx /\ i.tries = 1
         /\ i.live = TRUE /\ i.sent = FALSE /\ i.gone = s.gone /\ i.final = EmbFinal(s.last)
    BY <1>3, <1>4, <1>6, EmbJobFields
  <1> HIDE DEF i, j
  <1>12. i = [j EXCEPT !.live = TRUE, !.tries = @ + 1]
    <2>0. i.tries = j.tries + 1
      <3>1. j.tries = 0 /\ i.tries = 1
        BY <1>10, <1>11
      <3>2. 0 + 1 = 1
        OBVIOUS
      <3>3. QED
        BY <3>1, <3>2, Zenon
    <2>1. /\ i.phase = j.phase /\ i.targets = j.targets /\ i.pos = j.pos
          /\ i.live = TRUE /\ i.sent = j.sent /\ i.gone = j.gone /\ i.final = j.final
      BY <1>10, <1>11
    <2>2. j \in Emb!Contract!Job /\ i \in Emb!Contract!Job
      BY <1>10, <1>11
    <2>3. QED
      BY <2>0, <2>1, <2>2, CallIs
  <1>m. embJob[c] = j
    BY <1>9 DEF j
  <1>n. /\ j.final = FALSE /\ j.tries < 1 /\ j.live = FALSE /\ j.sent = FALSE
        /\ j.phase = "running"
    <2>1. j.final = FALSE
      <3>1. EmbFinal(s.last) = FALSE
        BY <1>6, EmbFinalOrNot
      <3>2. QED
        BY <1>10, <3>1
    <2>2. j.tries = 0
      BY <1>10
    <2>3. QED
      BY <1>10, <2>1, <2>2
  <1>o. Emb!Contract!MayCall(j)
    BY <1>n DEF Emb!Contract!MayCall
  <1>13. Emb!Contract!Call(c)
    BY <1>8, <1>m, <1>n, <1>o, <1>12
    DEF Emb!Contract!Call, Emb!Contract!Becomes, embJob, i
  <1>14. QED
    BY <1>8, <1>13

(* The call succeeds: the client is served.                                  *)
LEMMA EmbServes ==
  ASSUME EmbInv, NEW c \in Clients, Emb!CallSucceeds(c)
  PROVE  EmbInv' /\ Emb!Contract!Serve(c)
  <1> DEFINE s == emb[c]
  <1>1. s \in Emb!State /\ EmbOK(s) /\ s.pc = "calling"
    BY DEF EmbInv, Emb!CallSucceeds
  <1> DEFINE b == [s EXCEPT !.pc = "answered", !.answer = "vectors"]
  <1>2. "answered" \in Emb!Steps /\ "vectors" \in Emb!Answers
    BY DEF Emb!Steps, Emb!Answers
  <1>3. b \in Emb!State
    BY <1>1, <1>2, ZenonT(30) DEF Emb!State, Emb!Steps, Emb!Answers
  <1>4. /\ b.pc = "answered" /\ b.targets = s.targets /\ b.idx = s.idx
        /\ b.last = s.last /\ b.gone = s.gone /\ b.answer = "vectors"
    BY <1>1 DEF Emb!State
  <1>5. Emb!Becomes(c, b)
    BY DEF Emb!CallSucceeds
  <1>6. s.targets # <<>> /\ Emb!Failoverable(s.last)
    BY <1>1 DEF EmbOK
  <1> HIDE DEF b
  <1>e. /\ Emb!Failoverable(s.last) => ~EmbFinal(s.last)
        /\ s.last # "none" /\ ~Emb!Failoverable(s.last) => EmbFinal(s.last)
    BY EmbFinalOrNot
  <1>7. EmbOK(b)
    BY <1>1, <1>2, <1>3, <1>4, <1>6, EndsLoopWhenFinal DEF EmbOK
  <1>8. EmbInv' /\ embJob' = [embJob EXCEPT ![c] = Emb!JobOf(b)]
    BY <1>5, <1>7, EmbBecomes
  <1>9. embJob[c] = Emb!JobOf(s)
    BY DEF embJob
  <1> DEFINE j == Emb!JobOf(s)
             i == Emb!JobOf(b)
  <1>10. /\ j \in Emb!Contract!Job
         /\ j.phase = "running" /\ j.targets = s.targets /\ j.pos = s.idx /\ j.tries = 1
         /\ j.live = TRUE /\ j.sent = FALSE /\ j.gone = s.gone /\ j.final = EmbFinal(s.last)
    BY <1>1, <1>6, EmbJobFields
  <1>11. /\ i \in Emb!Contract!Job
         /\ i.phase = "served" /\ i.targets = s.targets /\ i.pos = s.idx /\ i.tries = 1
         /\ i.live = FALSE /\ i.sent = FALSE /\ i.gone = s.gone /\ i.final = EmbFinal(s.last)
    BY <1>3, <1>4, <1>6, EmbJobFields
  <1> HIDE DEF i, j
  <1>12. i = [j EXCEPT !.live = FALSE, !.phase = "served"]
    <2>1. /\ i.phase = "served" /\ i.targets = j.targets /\ i.pos = j.pos /\ i.tries = j.tries
          /\ i.live = FALSE /\ i.sent = j.sent /\ i.gone = j.gone /\ i.final = j.final
      BY <1>10, <1>11
    <2>2. j \in Emb!Contract!Job /\ i \in Emb!Contract!Job
      BY <1>10, <1>11
    <2>3. QED
      BY <2>1, <2>2, ServeIs
  <1>13. Emb!Contract!Serve(c)
    BY <1>6, <1>e, <1>8, <1>9, <1>10, <1>12
    DEF Emb!Contract!Serve, Emb!Contract!Becomes, embJob, i, j
  <1>14. QED
    BY <1>8, <1>13

(* The next target's turn.                                                   *)
LEMMA EmbAdvances ==
  ASSUME EmbInv, NEW c \in Clients, Emb!TryNext(c)
  PROVE  EmbInv' /\ Emb!Contract!Advance(c)
  <1> DEFINE s == emb[c]
  <1>1. s \in Emb!State /\ EmbOK(s) /\ s.pc = "failed"
    BY DEF EmbInv, Emb!TryNext
  <1> DEFINE b == [s EXCEPT !.pc = "ready", !.idx = @ + 1]
  <1>2. "ready" \in Emb!Steps /\ s.idx + 1 \in Nat
    BY <1>1 DEF Emb!Steps, Emb!State
  <1>3. b \in Emb!State
    BY <1>1, <1>2, ZenonT(30) DEF Emb!State, Emb!Steps, Emb!Answers
  <1>4. /\ b.pc = "ready" /\ b.targets = s.targets /\ b.idx = s.idx + 1
        /\ b.last = s.last /\ b.gone = s.gone /\ b.answer = s.answer
    BY <1>1 DEF Emb!State
  <1>5. Emb!Becomes(c, b)
    BY DEF Emb!TryNext
  <1>6. /\ s.targets # <<>> /\ Emb!Failoverable(s.last)
        /\ s.idx < Len(s.targets) /\ s.idx \in 1..Len(s.targets)
        /\ Len(s.targets) \in Nat
    BY <1>1, EndsLoopWhenFinal, ServerAssumption DEF EmbOK, Emb!State, Emb!TryNext
  <1> HIDE DEF b
  <1>e. /\ Emb!Failoverable(s.last) => ~EmbFinal(s.last)
        /\ s.last # "none" /\ ~Emb!Failoverable(s.last) => EmbFinal(s.last)
    BY EmbFinalOrNot
  <1>7. EmbOK(b)
    BY <1>1, <1>2, <1>3, <1>4, <1>6, EndsLoopWhenFinal DEF EmbOK
  <1>8. EmbInv' /\ embJob' = [embJob EXCEPT ![c] = Emb!JobOf(b)]
    BY <1>5, <1>7, EmbBecomes
  <1>9. embJob[c] = Emb!JobOf(s)
    BY DEF embJob
  <1> DEFINE j == Emb!JobOf(s)
             i == Emb!JobOf(b)
  <1>10. /\ j \in Emb!Contract!Job
         /\ j.phase = "running" /\ j.targets = s.targets /\ j.pos = s.idx /\ j.tries = 1
         /\ j.live = FALSE /\ j.sent = FALSE /\ j.gone = s.gone /\ j.final = EmbFinal(s.last)
    BY <1>1, <1>6, EmbJobFields
  <1>11. /\ i \in Emb!Contract!Job
         /\ i.phase = "running" /\ i.targets = s.targets /\ i.pos = s.idx + 1 /\ i.tries = 0
         /\ i.live = FALSE /\ i.sent = FALSE /\ i.gone = s.gone /\ i.final = EmbFinal(s.last)
    BY <1>3, <1>4, <1>6, EmbJobFields
  <1> HIDE DEF i, j
  <1>12. i = [j EXCEPT !.pos = @ + 1, !.tries = 0]
    <2>1. /\ i.phase = j.phase /\ i.targets = j.targets /\ i.pos = j.pos + 1 /\ i.tries = 0
          /\ i.live = j.live /\ i.sent = j.sent /\ i.gone = j.gone /\ i.final = j.final
      BY <1>10, <1>11
    <2>2. j \in Emb!Contract!Job /\ i \in Emb!Contract!Job
      BY <1>10, <1>11
    <2>3. QED
      BY <2>1, <2>2, AdvanceIs
  <1>13. Emb!Contract!Advance(c)
    BY <1>6, <1>e, <1>8, <1>9, <1>10, <1>12
    DEF Emb!Contract!Advance, Emb!Contract!MayCall, Emb!Contract!Becomes, embJob, i, j
  <1>14. QED
    BY <1>8, <1>13

(* The last error is the answer.                                             *)
LEMMA EmbFails ==
  ASSUME EmbInv, NEW c \in Clients, Emb!GiveUp(c)
  PROVE  EmbInv' /\ Emb!Contract!Fail(c)
  <1> DEFINE s == emb[c]
  <1>1. s \in Emb!State /\ EmbOK(s) /\ s.pc = "failed"
    BY DEF EmbInv, Emb!GiveUp
  <1> DEFINE b == [s EXCEPT !.pc = "answered", !.answer = s.last]
  <1>2. "answered" \in Emb!Steps /\ s.last \in Emb!Answers /\ s.last # "vectors"
    BY <1>1 DEF EmbOK, Emb!Steps, Emb!Answers, Emb!Failures, Emb!Errors, Emb!Kinds, Emb!PlainErrors
  <1>3. b \in Emb!State
    BY <1>1, <1>2, ZenonT(30) DEF Emb!State, Emb!Steps, Emb!Answers
  <1>4. /\ b.pc = "answered" /\ b.targets = s.targets /\ b.idx = s.idx
        /\ b.last = s.last /\ b.gone = s.gone /\ b.answer = s.last
    BY <1>1 DEF Emb!State
  <1>5. Emb!Becomes(c, b)
    BY DEF Emb!GiveUp
  <1>6. /\ s.targets # <<>> /\ s.last # "none"
        /\ ~Emb!Failoverable(s.last) \/ s.idx = Len(s.targets)
    BY <1>1, EndsLoopWhenFinal DEF EmbOK, Emb!GiveUp, Emb!Failures, Emb!Errors, Emb!Kinds, Emb!PlainErrors
  <1> HIDE DEF b
  <1>e. /\ Emb!Failoverable(s.last) => ~EmbFinal(s.last)
        /\ s.last # "none" /\ ~Emb!Failoverable(s.last) => EmbFinal(s.last)
    BY EmbFinalOrNot
  <1>7. EmbOK(b)
    BY <1>1, <1>2, <1>3, <1>4, <1>6, EndsLoopWhenFinal DEF EmbOK
  <1>8. EmbInv' /\ embJob' = [embJob EXCEPT ![c] = Emb!JobOf(b)]
    BY <1>5, <1>7, EmbBecomes
  <1>9. embJob[c] = Emb!JobOf(s)
    BY DEF embJob
  <1> DEFINE j == Emb!JobOf(s)
             i == Emb!JobOf(b)
  <1>10. /\ j \in Emb!Contract!Job
         /\ j.phase = "running" /\ j.targets = s.targets /\ j.pos = s.idx /\ j.tries = 1
         /\ j.live = FALSE /\ j.sent = FALSE /\ j.gone = s.gone /\ j.final = EmbFinal(s.last)
    BY <1>1, <1>6, EmbJobFields
  <1>11. /\ i \in Emb!Contract!Job
         /\ i.phase = "failed" /\ i.targets = s.targets /\ i.pos = s.idx /\ i.tries = 1
         /\ i.live = FALSE /\ i.sent = FALSE /\ i.gone = s.gone /\ i.final = EmbFinal(s.last)
    <2>1. b.pc = "answered" /\ b.targets # <<>> /\ b.answer # "vectors"
      BY <1>2, <1>4, <1>6
    <2>2. i.phase = "failed"
      BY <1>3, <2>1, EmbJobFields
    <2>3. QED
      BY <1>3, <1>4, <1>6, <2>2, EmbJobFields
  <1> HIDE DEF i, j
  <1>12. i = [j EXCEPT !.phase = "failed"]
    <2>1. /\ i.phase = "failed" /\ i.targets = j.targets /\ i.pos = j.pos /\ i.tries = j.tries
          /\ i.live = j.live /\ i.sent = j.sent /\ i.gone = j.gone /\ i.final = j.final
      BY <1>10, <1>11
    <2>2. j \in Emb!Contract!Job /\ i \in Emb!Contract!Job
      BY <1>10, <1>11
    <2>3. QED
      BY <2>1, <2>2, FailIs
  <1>13. Emb!Contract!Fail(c)
    BY <1>6, <1>e, <1>8, <1>9, <1>10, <1>12
    DEF Emb!Contract!Fail, Emb!Contract!MayFail, Emb!Contract!Becomes, embJob, i, j
  <1>14. QED
    BY <1>8, <1>13

(* The call fails; the error may be worth another target or not.            *)
LEMMA EmbFaults ==
  ASSUME EmbInv, NEW c \in Clients, Emb!CallFails(c)
  PROVE  EmbInv' /\ Emb!Contract!Fault(c)
  <1> DEFINE s == emb[c]
  <1>1. s \in Emb!State /\ EmbOK(s) /\ s.pc = "calling"
    BY DEF EmbInv, Emb!CallFails
  <1>p. PICK k \in Emb!FaultsOf(c) : Emb!Becomes(c, [s EXCEPT !.pc = "failed", !.last = k])
    BY DEF Emb!CallFails
  <1> DEFINE b == [s EXCEPT !.pc = "failed", !.last = k]
  <1>2. "failed" \in Emb!Steps /\ k \in Emb!Failures
    BY ServerAssumption DEF Emb!Steps, Emb!FaultsOf, Emb!Failures, Emb!Errors, Emb!Kinds
  <1>3. b \in Emb!State
    BY <1>1, <1>2, ZenonT(30) DEF Emb!State, Emb!Steps, Emb!Answers
  <1>4. /\ b.pc = "failed" /\ b.targets = s.targets /\ b.idx = s.idx
        /\ b.last = k /\ b.gone = s.gone /\ b.answer = s.answer
    BY <1>1 DEF Emb!State
  <1>5. Emb!Becomes(c, b)
    BY <1>p
  <1>6. s.targets # <<>> /\ Emb!Failoverable(s.last)
    BY <1>1 DEF EmbOK
  <1> HIDE DEF b
  <1>e. /\ Emb!Failoverable(s.last) => ~EmbFinal(s.last)
        /\ s.last # "none" /\ ~Emb!Failoverable(s.last) => EmbFinal(s.last)
    BY EmbFinalOrNot
  <1>7. EmbOK(b)
    BY <1>1, <1>2, <1>3, <1>4, <1>6, EndsLoopWhenFinal DEF EmbOK
  <1>8. EmbInv' /\ embJob' = [embJob EXCEPT ![c] = Emb!JobOf(b)]
    BY <1>5, <1>7, EmbBecomes
  <1>9. embJob[c] = Emb!JobOf(s)
    BY DEF embJob
  <1> DEFINE j == Emb!JobOf(s)
             i == Emb!JobOf(b)
  <1>10. /\ j \in Emb!Contract!Job
         /\ j.phase = "running" /\ j.targets = s.targets /\ j.pos = s.idx /\ j.tries = 1
         /\ j.live = TRUE /\ j.sent = FALSE /\ j.gone = s.gone /\ j.final = EmbFinal(s.last)
    BY <1>1, <1>6, EmbJobFields
  <1>11. /\ i \in Emb!Contract!Job
         /\ i.phase = "running" /\ i.targets = s.targets /\ i.pos = s.idx /\ i.tries = 1
         /\ i.live = FALSE /\ i.sent = FALSE /\ i.gone = s.gone /\ i.final = EmbFinal(k)
    BY <1>3, <1>4, <1>6, EmbJobFields
  <1> DEFINE f == EmbFinal(k)
  <1>f. f \in BOOLEAN /\ i.final = f
    BY <1>11, EmbFinalOrNot
  <1> HIDE DEF i, j, f
  <1>12. i = [j EXCEPT !.live = FALSE, !.final = f]
    <2>1. /\ i.phase = j.phase /\ i.targets = j.targets /\ i.pos = j.pos /\ i.tries = j.tries
          /\ i.live = FALSE /\ i.sent = j.sent /\ i.gone = j.gone /\ i.final = f
      BY <1>f, <1>10, <1>11
    <2>2. j \in Emb!Contract!Job /\ i \in Emb!Contract!Job
      BY <1>f, <1>10, <1>11
    <2>3. QED
      BY <1>f, <2>1, <2>2, FaultIs
  <1>13. Emb!Contract!Fault(c)
    BY <1>f, <1>6, <1>e, <1>8, <1>9, <1>10, <1>12
    DEF Emb!Contract!Fault, Emb!Contract!Becomes, embJob, i, j
  <1>14. QED
    BY <1>8, <1>13

(* The client leaves.                                                        *)
LEMMA EmbLeaves ==
  ASSUME EmbInv, NEW c \in Clients, Emb!Leave(c)
  PROVE  EmbInv' /\ Emb!Contract!Leave(c)
  <1> DEFINE s == emb[c]
             b == [s EXCEPT !.gone = TRUE]
  <1>1. s \in Emb!State /\ EmbOK(s) /\ s.pc \in {"ready", "calling", "failed"}
    BY DEF EmbInv, Emb!Leave
  <1>2. b \in Emb!State
    BY <1>1, ZenonT(30) DEF Emb!State
  <1>3. /\ b.pc = s.pc /\ b.targets = s.targets /\ b.idx = s.idx
        /\ b.last = s.last /\ b.gone = TRUE /\ b.answer = s.answer
    BY <1>1 DEF Emb!State
  <1>4. Emb!Becomes(c, b)
    BY DEF Emb!Leave
  <1>5. s.targets # <<>>
    BY <1>1 DEF EmbOK
  <1> HIDE DEF b
  <1>6. EmbOK(b)
    BY <1>1, <1>2, <1>3 DEF EmbOK
  <1>7. EmbInv' /\ embJob' = [embJob EXCEPT ![c] = Emb!JobOf(b)]
    BY <1>4, <1>6, EmbBecomes
  <1>8. embJob[c] = Emb!JobOf(s)
    BY DEF embJob
  <1> DEFINE j == Emb!JobOf(s)
             i == Emb!JobOf(b)
  <1>9. /\ j \in Emb!Contract!Job /\ i \in Emb!Contract!Job
        /\ i.phase = j.phase /\ i.targets = j.targets /\ i.pos = j.pos
        /\ i.tries = j.tries /\ i.live = j.live /\ i.sent = j.sent
        /\ i.gone = TRUE /\ i.final = j.final /\ j.phase = "running"
    <2>1. j \in Emb!Contract!Job /\ i \in Emb!Contract!Job
      BY <1>1, <1>2, EmbJobFields
    <2>2. s.pc # "answered" /\ b.pc # "answered" /\ b.targets # <<>>
      BY <1>1, <1>3, <1>5
    <2>3. i.phase = "running" /\ j.phase = "running"
      BY <1>1, <1>2, <1>5, <2>2, EmbJobFields
    <2>4. i.tries = j.tries
      <3>1. CASE s.pc = "ready"
        <4>1. j.tries = 0
          BY <1>1, <3>1, EmbJobFields
        <4>2. b.pc = "ready"
          BY <1>3, <3>1
        <4>3. i.tries = 0
          BY <1>2, <4>2, EmbJobFields
        <4>4. QED
          BY <4>1, <4>3
      <3>2. CASE s.pc # "ready"
        <4>1. s.pc \notin {"new", "ready"} /\ b.pc \notin {"new", "ready"}
          BY <1>1, <1>3, <3>2
        <4>2. j.tries = 1
          BY <1>1, <1>5, <4>1, EmbJobFields
        <4>3. i.tries = 1
          BY <1>2, <2>2, <4>1, EmbJobFields
        <4>4. QED
          BY <4>2, <4>3
      <3>3. QED
        BY <3>1, <3>2
    <2>5. i.live = j.live
      <3>1. CASE s.pc = "calling"
        <4>1. j.live = TRUE
          BY <1>1, <3>1, EmbJobFields
        <4>2. b.pc = "calling"
          BY <1>3, <3>1
        <4>3. i.live = TRUE
          BY <1>2, <4>2, EmbJobFields
        <4>4. QED
          BY <4>1, <4>3
      <3>2. CASE s.pc # "calling"
        <4>1. j.live = FALSE
          BY <1>1, <3>2, EmbJobFields
        <4>2. b.pc # "calling"
          BY <1>3, <3>2
        <4>3. i.live = FALSE
          BY <1>2, <4>2, EmbJobFields
        <4>4. QED
          BY <4>1, <4>3
      <3>3. QED
        BY <3>1, <3>2
    <2>6. i.final = j.final
      <3>1. i.final = EmbFinal(b.last)
        BY <1>2, EmbJobFields
      <3>2. j.final = EmbFinal(s.last)
        BY <1>1, EmbJobFields
      <3>3. QED
        BY <1>3, <3>1, <3>2
    <2>7. /\ i.targets = j.targets /\ i.pos = j.pos /\ i.sent = j.sent
          /\ i.gone = TRUE
      <3>1. i.targets = b.targets /\ i.pos = b.idx /\ i.sent = FALSE /\ i.gone = b.gone
        BY <1>2, EmbJobFields
      <3>2. j.targets = s.targets /\ j.pos = s.idx /\ j.sent = FALSE
        BY <1>1, EmbJobFields
      <3>3. QED
        BY <1>3, <3>1, <3>2
    <2>8. QED
      BY <2>1, <2>3, <2>4, <2>5, <2>6, <2>7
  <1> HIDE DEF i, j
  <1>10. i = [j EXCEPT !.gone = TRUE]
    BY <1>9, LeaveIs
  <1>11. Emb!Contract!Leave(c)
    BY <1>7, <1>8, <1>9, <1>10
    DEF Emb!Contract!Leave, Emb!Contract!Becomes, embJob, i, j
  <1>12. QED
    BY <1>7, <1>11

(* A request is accepted: its targets are those of its alias.               *)
LEMMA EmbSubmits ==
  ASSUME EmbInv, NEW c \in Clients, Emb!Submit(c)
  PROVE  EmbInv' /\ Emb!Contract!Submit(c)
  <1> DEFINE s == emb[c]
  <1>1. s \in Emb!State /\ s = Emb!New
    BY DEF EmbInv, EmbOK, Emb!Submit
  <1>p. PICK ts \in EmbeddingLists :
          Emb!Becomes(c, [s EXCEPT !.pc = "ready", !.targets = ts, !.idx = 1])
    BY DEF Emb!Submit
  <1> DEFINE b == [s EXCEPT !.pc = "ready", !.targets = ts, !.idx = 1]
  <1>2. /\ "ready" \in Emb!Steps /\ 1 \in Nat
        /\ Len(ts) \in Nat \ {0}
    BY ServerAssumption DEF Emb!Steps
  <1>3. b \in Emb!State
    <2>1. ts \in EmbeddingLists \cup {<<>>}
      OBVIOUS
    <2>2. QED
      BY <1>1, <1>2, <2>1, ZenonT(60) DEF Emb!State
  <1>4. /\ b.pc = "ready" /\ b.targets = ts /\ b.idx = 1
        /\ b.last = "none" /\ b.gone = FALSE
    BY <1>1 DEF Emb!State, Emb!New
  <1>5. Emb!Becomes(c, b)
    BY <1>p
  <1>6. ts # <<>> /\ Emb!Failoverable("none")
    BY <1>2 DEF Emb!Failoverable
  <1> HIDE DEF b
  <1>7. EmbOK(b)
    BY <1>2, <1>3, <1>4, <1>6 DEF EmbOK
  <1>8. EmbInv' /\ embJob' = [embJob EXCEPT ![c] = Emb!JobOf(b)]
    BY <1>5, <1>7, EmbBecomes
  <1>9. embJob[c] = Emb!Contract!Free
    BY <1>1, EmbNew DEF embJob
  <1> DEFINE i == Emb!JobOf(b)
  <1>10. i.final = FALSE
    <2>1. i.final = EmbFinal(b.last)
      BY <1>3, EmbJobFields
    <2>2. QED
      BY <1>4, <2>1 DEF EmbFinal
  <1>11. /\ i \in Emb!Contract!Job
         /\ i.phase = "running" /\ i.targets = ts /\ i.pos = 1 /\ i.tries = 0
         /\ i.live = FALSE /\ i.sent = FALSE /\ i.gone = FALSE /\ i.final = FALSE
    BY <1>3, <1>4, <1>6, <1>10, EmbJobFields
  <1> HIDE DEF i
  <1> DEFINE j == [Emb!Contract!Free EXCEPT !.phase = "running", !.targets = ts,
                                            !.pos = 1]
  <1>12. /\ j \in Emb!Contract!Job
         /\ j.phase = "running" /\ j.targets = ts /\ j.pos = 1 /\ j.tries = 0
         /\ j.live = FALSE /\ j.sent = FALSE /\ j.gone = FALSE /\ j.final = FALSE
    BY <1>2 DEF Emb!Contract!Job, Emb!Contract!Free
  <1>13. i = j
    <2> HIDE DEF j
    <2>1. QED
      BY <1>11, <1>12, SameEmbJob
  <1>14. Emb!Contract!Submit(c)
    <2>1. Emb!Contract!Free.phase = "free"
      BY DEF Emb!Contract!Free
    <2>2. embJob' = [embJob EXCEPT ![c] = j]
      BY <1>8, <1>13 DEF i
    <2> HIDE DEF j
    <2>3. Emb!Contract!Becomes(c, j)
      BY <2>2 DEF Emb!Contract!Becomes, embJob
    <2>4. embJob[c].phase = "free"
      BY <1>9, <2>1
    <2>5. QED
      BY <2>3, <2>4 DEF Emb!Contract!Submit, embJob, j
  <1>15. QED
    BY <1>8, <1>14

(* A request that is not one is refused before any provider is called: the  *)
(* contract sees nothing.                                                   *)
LEMMA EmbRefuses ==
  ASSUME EmbInv, NEW c \in Clients, Emb!Refuse(c)
  PROVE  EmbInv' /\ embJob' = embJob
  <1> DEFINE s == emb[c]
             b == [s EXCEPT !.pc = "answered", !.answer = "refused"]
  <1>1. s \in Emb!State /\ s = Emb!New
    BY DEF EmbInv, EmbOK, Emb!Refuse
  <1>2. "answered" \in Emb!Steps /\ "refused" \in Emb!Answers
    BY DEF Emb!Steps, Emb!Answers
  <1>3. b \in Emb!State
    BY <1>1, <1>2, ZenonT(30) DEF Emb!State, Emb!Steps, Emb!Answers
  <1>4. /\ b.pc = "answered" /\ b.targets = <<>> /\ b.idx = 0
        /\ b.last = "none" /\ b.gone = FALSE
    BY <1>1 DEF Emb!State, Emb!New
  <1>5. Emb!Becomes(c, b)
    BY DEF Emb!Refuse
  <1> HIDE DEF b
  <1>6. EmbOK(b)
    BY <1>3, <1>4 DEF EmbOK
  <1>7. EmbInv' /\ embJob' = [embJob EXCEPT ![c] = Emb!JobOf(b)]
    BY <1>5, <1>6, EmbBecomes
  <1>8. embJob[c] = Emb!JobOf(b)
    <2>1. embJob[c] = Emb!Contract!Free
      BY <1>1, EmbNew DEF embJob
    <2>2. Emb!JobOf(b).final = FALSE
      <3>1. Emb!JobOf(b).final = EmbFinal(b.last)
        BY <1>3, EmbJobFields
      <3>2. QED
        BY <1>4, <3>1 DEF EmbFinal
    <2> DEFINE i == Emb!JobOf(b)
               j == Emb!Contract!Free
    <2>3. /\ i \in Emb!Contract!Job
          /\ i.phase = "free" /\ i.targets = <<>> /\ i.pos = 0 /\ i.tries = 0
          /\ i.live = FALSE /\ i.sent = FALSE /\ i.gone = FALSE /\ i.final = FALSE
      BY <1>3, <1>4, <2>2, EmbJobFields
    <2>4. /\ j \in Emb!Contract!Job
          /\ j.phase = "free" /\ j.targets = <<>> /\ j.pos = 0 /\ j.tries = 0
          /\ j.live = FALSE /\ j.sent = FALSE /\ j.gone = FALSE /\ j.final = FALSE
      BY DEF Emb!Contract!Job, Emb!Contract!Free
    <2> HIDE DEF i, j
    <2>5. i = j
      BY <2>3, <2>4, SameEmbJob
    <2>6. QED
      BY <2>1, <2>5 DEF i, j
  <1>9. embJob' = embJob
    BY <1>7, <1>8 DEF embJob
  <1>10. QED
    BY <1>7, <1>9

(* A step of the endpoint is a step of the contract, or none that it sees.  *)
LEMMA EmbStep ==
  ASSUME EmbInv, NEW c \in Clients, Emb!Proceed(c) \/ Emb!Leave(c)
  PROVE  EmbInv' /\ (Emb!Contract!Next \/ embJob' = embJob)
  <1>1. CASE Emb!Refuse(c)
    BY <1>1, EmbRefuses
  <1>2. CASE Emb!Submit(c)
    BY <1>2, EmbSubmits DEF Emb!Contract!Next
  <1>3. CASE Emb!Call(c)
    BY <1>3, EmbCalls DEF Emb!Contract!Next
  <1>4. CASE Emb!CallSucceeds(c)
    BY <1>4, EmbServes DEF Emb!Contract!Next
  <1>5. CASE Emb!CallFails(c)
    BY <1>5, EmbFaults DEF Emb!Contract!Next
  <1>6. CASE Emb!TryNext(c)
    BY <1>6, EmbAdvances DEF Emb!Contract!Next
  <1>7. CASE Emb!GiveUp(c)
    BY <1>7, EmbFails DEF Emb!Contract!Next
  <1>8. CASE Emb!Leave(c)
    BY <1>8, EmbLeaves DEF Emb!Contract!Next
  <1>9. QED
    BY <1>1, <1>2, <1>3, <1>4, <1>5, <1>6, <1>7, <1>8 DEF Emb!Proceed

LEMMA EmbServerStep ==
  ASSUME EmbInv, [ServerNext]_serverVars
  PROVE  EmbInv' /\ (Emb!Contract!Next \/ embJob' = embJob)
  <1>1. CASE \E c \in Clients : Embed(c)
    BY <1>1, EmbStep DEF Embed
  <1>2. CASE UNCHANGED emb
    BY <1>2 DEF EmbInv, EmbOK, embJob
  <1>3. QED
    BY <1>1, <1>2
    DEF ServerNext, Main, LoadConfig, Build, Listen, ListenerFails, BeginDrain,
        Drained, DrainTimesOut, CloseMeter, ClosePool, Release, Signal, Arrive,
        LookUp, Found, Refuse, Answer, Cut, SetConn, RecordRow, Writes,
        serverVars

LEMMA EmbInvariant == ServerSpec => []EmbInv
  <1>1. ServerInit => EmbInv
    BY EmbNew DEF ServerInit, EmbInv
  <1>2. EmbInv /\ [ServerNext]_serverVars => EmbInv'
    BY EmbServerStep
  <1>3. QED
    BY <1>1, <1>2, PTL DEF ServerSpec

(* An embeddings alias fails over exactly like a chat alias                 *)
(* (server.go:183-184), in any process and for any lists of targets: with   *)
(* one attempt for each target, the endpoint keeps the executor's contract. *)
THEOREM EmbeddingsImplementFailover == ServerSpec => EmbeddingsFailOver
  <1>1. ServerInit => Emb!Contract!Init
    BY EmbNew DEF ServerInit, Emb!Contract!Init
  <1>2. EmbInv /\ [ServerNext]_serverVars
          => [Emb!Contract!Next]_Emb!Contract!vars
    BY EmbServerStep DEF Emb!Contract!vars, embJob
  <1>3. QED
    BY <1>1, <1>2, EmbInvariant, PTL
    DEF ServerSpec, EmbeddingsFailOver, Emb!FailsOverLikeChat, Emb!Contract!Spec

-----------------------------------------------------------------------------
(* The process's own state. *)

ProcessTyped ==
  /\ main \in Phases /\ outcome \in Outcomes
  /\ metered \in BOOLEAN /\ signaled \in BOOLEAN
  /\ pool \in {"none", "open", "closing", "closed"}
  /\ main = "built" => layers.meter = metered

LEMMA MainTyped ==
  ASSUME ProcessTyped, Main
  PROVE  ProcessTyped'
  <1> USE DEF Phases, Outcomes
  <1>1. CASE LoadConfig
    BY <1>1 DEF LoadConfig, Exit, ProcessTyped
  <1>2. CASE Build
    <2>1. \A c : Layers(c).meter \in BOOLEAN
      BY DEF Layers
    <2>2. CASE UNCHANGED metered
      BY <1>2, <2>2 DEF Build, Exit, ProcessTyped
    <2>3. CASE metered' = layers'.meter /\ layers' = Layers(config)
      BY <1>2, <2>1, <2>3 DEF Build, Exit, ProcessTyped
    <2>4. QED
      BY <1>2, <2>2, <2>3 DEF Build
  <1>3. CASE Listen \/ ListenerFails \/ BeginDrain \/ Drained \/ DrainTimesOut
               \/ Release
    BY <1>3 DEF Listen, ListenerFails, BeginDrain, Drained, DrainTimesOut,
                Release, ProcessTyped
  <1>4. CASE CloseMeter
    BY <1>4 DEF CloseMeter, processVars, ProcessTyped
  <1>5. CASE ClosePool
    BY <1>5 DEF ClosePool, ProcessTyped
  <1>6. QED
    BY <1>1, <1>2, <1>3, <1>4, <1>5 DEF Main

LEMMA ProcessTypeCorrect == ServerSpec => []ProcessTyped
  <1>1. ServerInit => ProcessTyped
    BY DEF ServerInit, ProcessTyped, Phases, Outcomes
  <1>2. ProcessTyped /\ [ServerNext]_serverVars => ProcessTyped'
    <2> SUFFICES ASSUME ProcessTyped, [ServerNext]_serverVars
                 PROVE  ProcessTyped'
      OBVIOUS
    <2>1. CASE Main
      BY <2>1, MainTyped
    <2>2. CASE Signal
      BY <2>2 DEF Signal, ProcessTyped
    <2>3. CASE UNCHANGED processVars
      BY <2>3 DEF processVars, ProcessTyped
    <2>4. QED
      BY <2>1, <2>2, <2>3
      DEF ServerNext, Arrive, LookUp, Found, Refuse, Answer, Cut, SetConn,
          RecordRow, Writes, Embed, serverVars
  <1>3. QED
    BY <1>1, <1>2, PTL DEF ServerSpec

(* The process, its requests and its embeddings handlers keep to their      *)
(* states, and it starts to listen with the meter that its layers have.     *)
THEOREM ServerTypeCorrect == ServerSpec => []ServerTypeOK
  <1>1. ProcessTyped /\ ShutdownInv /\ EmbInv => ServerTypeOK
    BY DEF ProcessTyped, ShutdownInv, Unwinds, EmbInv, EmbOK, ServerTypeOK,
           Emb!TypeOK
  <1>2. QED
    BY <1>1, ProcessTypeCorrect, ShutdownInvariant, EmbInvariant, PTL

=============================================================================
