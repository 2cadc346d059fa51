------------------------------- MODULE Server -------------------------------
(***************************************************************************)
(* The process (cmd/gateway/main.go, internal/api/server.go): it loads its *)
(* configuration, builds its layers, serves, drains when a signal comes,   *)
(* and tears the layers down.  It composes the modules Configuration,      *)
(* Meter and Embeddings; a chat completion is here its life as a handler,  *)
(* which ends with the usage row.                                          *)
(*                                                                         *)
(* The context of every request derives from the signal's.                 *)
(***************************************************************************)
EXTENDS Meter, Configuration

CONSTANTS
  Files,           \* the configurations the file may hold
  Clients,         \* the embeddings requests
  EmbeddingLists,  \* the lists Route may return for them
  NoEmbeddings,    \* the providers without an embeddings call
  UpstreamErrors   \* the kinds the others may fail with

VARIABLES
  main,      \* the main goroutine
  config,    \* the configuration, until the layers are built; then NoConfig
  layers,    \* the layers, until the gateway listens; then NoLayers
  metered,   \* the gateway runs a meter
  pool,      \* the database pool
  signaled,  \* the root context is cancelled
  outcome,   \* why run() returns
  conn,      \* request -> its handler
  emb        \* embeddings request -> the state of its handler

Emb == INSTANCE Embeddings WITH TargetLists <- EmbeddingLists

(* Validation refuses an alias without targets, and a failed call is        *)
(* classified by the adapter that made it.                                  *)
ASSUME ServerAssumption ==
  /\ \A ts \in EmbeddingLists : Len(ts) \in Nat \ {0}
  /\ UpstreamErrors \subseteq Emb!Kinds

meterVars == vars
processVars == <<main, config, layers, metered, pool, signaled, outcome>>
serverVars == <<meterVars, processVars, conn, emb>>

NoConfig == [providers |-> <<>>]
NoLayers == [meter |-> FALSE]

Phases == {"loading", "building", "built", "serving", "draining", "closing",
           "releasing", "exited"}

(* refused: Load or build failed.  drained, timed_out: how Shutdown          *)
(* returned.  listener: the listener failed.                                *)
Outcomes == {"none", "refused", "drained", "timed_out", "listener"}

(* absent: not arrived.  looking: its key is looked up, over a connection   *)
(* of the pool.  answered, cut: the handler is about to record, after an    *)
(* answer or because its context was cancelled with the process's.          *)
Handlers == {"absent", "looking", "running", "answered", "cut"}

ServerInit ==
  /\ Init
  /\ main = "loading" /\ outcome = "none"
  /\ config \in Files /\ layers = NoLayers
  /\ metered = FALSE /\ pool = "none"
  /\ signaled = FALSE
  /\ conn = [r \in Requests |-> "absent"]
  /\ emb = [c \in Clients |-> Emb!New]

Running == main # "exited"

-----------------------------------------------------------------------------
(* The main goroutine. *)

Exit(why) == main' = "exited" /\ outcome' = why

LoadConfig ==
  /\ main = "loading"
  /\ LET c == ApplyDefaults(config) IN
       \/ /\ Valid(c)
          /\ config' = c
          /\ main' = "building"
          /\ UNCHANGED outcome
       \/ /\ ~Valid(c)
          /\ config' = NoConfig
          /\ Exit("refused")
  /\ UNCHANGED <<meterVars, layers, metered, pool, signaled, conn, emb>>

\* The first error ends the process; what was opened before is not closed.
Build ==
  /\ main = "building"
  /\ \E down \in SUBSET Stores :
       \/ /\ StartupFaults(config, down) = {}
          /\ layers' = Layers(config)
          /\ metered' = layers'.meter
          /\ pool' = IF config.postgres THEN "open" ELSE "none"
          /\ main' = "built"
          /\ UNCHANGED <<config, outcome>>
       \/ /\ StartupFaults(config, down) # {}
          /\ config' = NoConfig
          /\ Exit("refused")
          /\ UNCHANGED <<layers, metered, pool>>
  /\ UNCHANGED <<meterVars, signaled, conn, emb>>

\* ListenAndServe.  From here on the layers are the constants of the modules
\* that model them.
Listen ==
  /\ main = "built"
  /\ main' = "serving"
  /\ config' = NoConfig /\ layers' = NoLayers
  /\ UNCHANGED <<meterVars, metered, pool, signaled, outcome, conn, emb>>

\* SIGINT or SIGTERM, once NotifyContext has been called.
Signal ==
  /\ main \notin {"loading", "exited"}
  /\ ~signaled
  /\ signaled' = TRUE
  /\ UNCHANGED <<meterVars, main, config, layers, metered, pool, outcome,
                 conn, emb>>

\* ListenAndServe returns without a signal: nothing is drained or cancelled.
ListenerFails ==
  /\ main = "serving"
  /\ main' = "closing" /\ outcome' = "listener"
  /\ UNCHANGED <<meterVars, config, layers, metered, pool, signaled, conn, emb>>

BeginDrain ==
  /\ main = "serving" /\ signaled
  /\ main' = "draining"
  /\ UNCHANGED <<meterVars, config, layers, metered, pool, signaled, outcome,
                 conn, emb>>

\* The handler of r has returned, its deferred Record included.
Returned(r) ==
  \/ conn[r] = "absent"
  \/ /\ conn[r] \in {"answered", "cut"}
     /\ metered => row[r] \notin {"serving", "checked", "sent"}

\* mutant: Close instead of Shutdown: handlers are not waited for.
DrainedAtOnce ==
  /\ main = "draining"
  /\ main' = "closing" /\ outcome' = "drained"
  /\ UNCHANGED <<meterVars, config, layers, metered, pool, signaled, conn, emb>>

Drained ==
  /\ main = "draining"
  /\ \A r \in Requests : Returned(r)
  /\ \A c \in Clients : emb[c].pc \in {"new", "answered"}
  /\ main' = "closing" /\ outcome' = "drained"
  /\ UNCHANGED <<meterVars, config, layers, metered, pool, signaled, conn, emb>>

\* mutant: Shutdown is given a context without a deadline.
NeverTimesOut ==
  /\ main = "draining" /\ FALSE
  /\ UNCHANGED serverVars

\* The shutdown timeout: handlers go on while the layers are torn down.
DrainTimesOut ==
  /\ main = "draining"
  /\ main' = "closing" /\ outcome' = "timed_out"
  /\ UNCHANGED <<meterVars, config, layers, metered, pool, signaled, conn, emb>>

\* mutant: the pool is closed before the meter.
PoolFirst ==
  /\ main = "closing"
  /\ pool' = IF pool = "open" THEN "closed" ELSE pool
  /\ main' = "releasing"
  /\ UNCHANGED <<meterVars, config, layers, metered, signaled, outcome, conn,
                 emb>>

\* Meter.Close, if there is a meter.
CloseMeter ==
  /\ main = "closing" /\ metered
  /\ BeginClose \/ CloseChannel \/ FinishClose
  /\ UNCHANGED <<processVars, conn, emb>>

\* The pool is closed after the meter.  It accepts no queries any more, and
\* waits for the connections that are in use.
ClosePool ==
  /\ main = "closing"
  /\ metered => closer = "closed"
  /\ \/ pool = "open" /\ pool' = "closing" /\ UNCHANGED main
     \/ /\ pool = "closing" /\ \A r \in Requests : conn[r] # "looking"
        /\ pool' = "closed" /\ main' = "releasing"
     \/ pool = "none" /\ UNCHANGED pool /\ main' = "releasing"
  /\ UNCHANGED <<meterVars, config, layers, metered, signaled, outcome, conn,
                 emb>>

\* The Redis client and the tracer, which has five seconds.
Release ==
  /\ main = "releasing"
  /\ main' = "exited"
  /\ UNCHANGED <<meterVars, config, layers, metered, pool, signaled, outcome,
                 conn, emb>>

Main ==
  \/ LoadConfig \/ Build \/ Listen \/ ListenerFails
  \/ BeginDrain \/ Drained \/ DrainTimesOut
  \/ CloseMeter \/ ClosePool \/ Release

-----------------------------------------------------------------------------
(* Handlers and the writer. *)

SetConn(r, s) ==
  /\ Running
  /\ conn' = [conn EXCEPT ![r] = s]
  /\ UNCHANGED <<meterVars, processVars, emb>>

\* Connections bring requests until the gateway has drained: those a timeout
\* leaves open, or that were open when the listener failed, after that too.
Open == main \in {"serving", "draining", "closing", "releasing"}
          /\ outcome # "drained"

\* Its key is remembered, or there is none to check.
Arrive(r) == Open /\ conn[r] = "absent" /\ SetConn(r, "running")

LookUp(r) ==
  Open /\ pool = "open" /\ conn[r] = "absent" /\ SetConn(r, "looking")

Found(r) == conn[r] = "looking" /\ SetConn(r, "running")

\* The middleware, or the validation of the body, answers without a row.
Refuse(r) == conn[r] \in {"looking", "running"} /\ SetConn(r, "absent")

\* A lookup ends when its context does: with the root context, or before.
LookupCanceled(r) == signaled /\ conn[r] = "looking" /\ SetConn(r, "absent")

\* Served, or failed for a reason of its own.
Answer(r) == conn[r] = "running" /\ SetConn(r, "answered")

\* A call fails because the root context is cancelled.
Cut(r) == signaled /\ conn[r] = "running" /\ SetConn(r, "cut")

RecordRow(r) ==
  /\ Running /\ metered
  /\ conn[r] \in {"answered", "cut"}
  /\ Handler(r)
  /\ UNCHANGED <<processVars, conn, emb>>

\* A step of the writer goroutine.
Writes(step) ==
  /\ Running /\ metered
  /\ step
  /\ UNCHANGED <<processVars, conn, emb>>

Embed(c) ==
  /\ Running
  /\ emb[c].pc = "new" => Open
  /\ Emb!Proceed(c) \/ Emb!Leave(c)
  /\ UNCHANGED <<meterVars, processVars, conn>>

ServerNext ==
  \/ Main
  \/ Signal
  \/ \E r \in Requests :
       \/ Arrive(r) \/ LookUp(r) \/ Found(r) \/ Refuse(r)
       \/ Answer(r) \/ Cut(r) \/ RecordRow(r)
  \/ Writes(Writer)
  \/ \E c \in Clients : Embed(c)

ServerSpec == ServerInit /\ [][ServerNext]_serverVars

\* What the main goroutine is at, when nothing but a deadline holds it.
GoOn ==
  \/ Build \/ Listen \/ BeginDrain \/ DrainTimesOut
  \/ CloseMeter \/ ClosePool \/ Release

(* The main goroutine runs, and its waits end: build's with the root        *)
(* context, Shutdown at its timeout (server.go:136), Meter.Close with a     *)
(* WriteBatch that has a deadline (meter.go:170).  The writer runs and its  *)
(* ticker fires.  A lookup has no deadline: it is only assumed to end when  *)
(* its context is cancelled.  Nothing is assumed of handlers, providers and *)
(* clients, nor that a signal comes or the listener fails.                  *)
Fairness ==
  /\ WF_serverVars(GoOn)
  /\ WF_serverVars(Writes(Receive \/ Drain \/ WriteSucceeds \/ WriteFails))
  /\ WF_serverVars(Writes(Flush))
  /\ \A r \in Requests : WF_serverVars(LookupCanceled(r))

FairServerSpec == ServerSpec /\ Fairness

-----------------------------------------------------------------------------
ServerTypeOK ==
  /\ main \in Phases /\ outcome \in Outcomes
  /\ metered \in BOOLEAN /\ signaled \in BOOLEAN
  /\ pool \in {"none", "open", "closing", "closed"}
  /\ conn \in [Requests -> Handlers]
  /\ Emb!TypeOK
  /\ main = "built" => layers.meter = metered

(* "A failure here means config and registry disagree" (router.go:60-63):   *)
(* whatever the file says, once it has passed validation no constructor     *)
(* fails for a reason that validation is there to rule out.                 *)
BuildAgrees ==
  main = "building" =>
    StartupFaults(config, {}) \cap {"router", "cache", "embedder"} = {}

(* "Validate enforces the invariants the rest of the process assumes"       *)
(* (config.go:307-308): a gateway that starts to listen has what its file   *)
(* switches on, and the assumptions of Router, Executor, Meter and          *)
(* TokenBucket on their constants hold for its layers.                      *)
LayersAsAssumed == main = "built" => Sound(config, layers)

(* A shutdown within its timeout finishes what was begun: the row of every  *)
(* request that was answered or cut has been taken or counted as dropped    *)
(* before the meter begins to close, so that none is late                   *)
(* (server.go:131-137, main.go:325-336).                                    *)
DrainedIsBooked ==
  outcome = "drained" /\ metered =>
    \A r \in Requests :
      conn[r] # "absent" => row[r] \in {"enqueued", "dropped"}

(* "It must flush buffered usage rows before the pool it writes through is  *)
(* closed" (main.go:327-328): whether the gateway drained, timed out or     *)
(* lost its listener, no row is in memory, and none can be taken any more,  *)
(* when the pool begins to close.                                           *)
PoolOutlivesRows ==
  pool \in {"closing", "closed"} /\ metered =>
    writer = "exited" /\ InFlight = {}

(* "One Ctrl-C unwinds the whole process" (main.go:66-67): after a signal   *)
(* the process ends.  Neither Shutdown nor the closing of the meter and of  *)
(* the pool waits for ever, although handlers hang in their providers and   *)
(* the database does not answer.                                            *)
ProcessEnds == signaled ~> main = "exited"

EmbeddingsFailOver == Emb!FailsOverLikeChat

(* "drains in-flight requests within the configured shutdown timeout"       *)
(* (server.go:105-106): until the timeout a request in progress may finish. *)
InFlightDrained ==
  \A r \in Requests :
    conn[r] = "cut" => outcome \in {"timed_out", "listener"}
=============================================================================
