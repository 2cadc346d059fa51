----------------------------- MODULE ChatHandler -----------------------------
(***************************************************************************)
(* A chat completion from its arrival to its last trace (internal/api/     *)
(* chat.go): cache lookup, routing, the provider calls, what the client is *)
(* sent, the usage row, and the detached write to the cache.               *)
(*                                                                         *)
(* Each request is a goroutine that shares the two cache tiers with the    *)
(* others.  The executor is here what it promises, the module Failover,    *)
(* which the module Executor implements; the meter is the row handed to    *)
(* Record.  Writing to the client is part of the step that causes it.      *)
(***************************************************************************)
EXTENDS Router, Adapter, ResponseCache

CONSTANTS
  Requests,     \* each is one request, and the store it may leave behind
  MaxAttempts,  \* calls to one target in a row
  Family,       \* provider -> family of its adapter
  Replies,      \* the replies other than 200 providers give
  Lengths       \* the lengths completions have, in tokens; 0: empty

VARIABLES
  exact,   \* key -> entry, Absent or Corrupt (Redis)
  points,  \* point -> entry or Absent (Qdrant)
  job,     \* request -> its run through the executor
  req      \* request -> the state of its handler

vars == <<exact, points, job, req>>

Exec == INSTANCE Failover
          WITH TargetLists <- UNION {Route(a.model) : a \in Questions}

ASSUME HandlerAssumption ==
  /\ Lengths \subseteq Nat
  /\ Replies \subseteq Reply
  /\ Family \in [DOMAIN Family -> Families]
  /\ \A a \in DOMAIN Aliases : Aliases[a].targets \in Seq(DOMAIN Family)

NoQuestion == [tenant |-> "nobody"]
NoRow      == [code |-> 0, cost |-> 0, saved |-> 0]

Amounts == Lengths \cup {0}

(* A cached completion: the question it answered, whose model and           *)
(* temperature it carries, its reported length, whether its provider had    *)
(* finished it, and whether it has outlived the semantic TTL.               *)
Entry == [ask : Questions, tokens : Amounts, whole : BOOLEAN, stale : BOOLEAN]
Absent  == [tokens |-> -1]
Corrupt == [tokens |-> -2]

Keys   == {ExactKey(a) : a \in Questions}
Points == {PointID(a) : a \in Questions}

Steps   == {"new", "get", "evict", "search", "route", "exec", "done"}
Lookups == {"none", "exact_hit", "semantic_hit", "miss", "bypass"}
Codes   == {0, 200, 400, 404, 429, 500, 502, 504}  \* 0: none yet
Shows   == {"nothing", "part", "cut", "whole", "error"}
Stores  == {"none", "exact", "semantic", "done"}
Rows    == [code : Codes, cost : Amounts, saved : Amounts]

Handler ==
  [pc : Steps, ask : Questions \cup {NoQuestion}, lookup : Lookups,
   hit    : Entry \cup {Absent},   \* what the cache served it
   text   : BOOLEAN,               \* some text has been accumulated
   whole  : BOOLEAN,               \* the provider has finished the completion
   tokens : Amounts,               \* the usage it reported
   errs   : SUBSET Errors,         \* of which the executor returns one
   status : Codes, shown : Shows,  \* what the client was sent
   row    : Rows,                  \* what was booked
   store  : Stores]                \* the tier the detached store writes next

NewRequest ==
  [pc |-> "new", ask |-> NoQuestion, lookup |-> "none", hit |-> Absent,
   text |-> FALSE, whole |-> FALSE, tokens |-> 0, errs |-> {}, status |-> 0,
   shown |-> "nothing", row |-> NoRow, store |-> "none"]

Init ==
  /\ exact = [k \in Keys |-> Absent]
  /\ points = [p \in Points |-> Absent]
  /\ Exec!Init
  /\ req = [r \in Requests |-> NewRequest]

At(r, pc)     == req[r].pc = pc
Becomes(r, h) == req' = [req EXCEPT ![r] = h]

-----------------------------------------------------------------------------
(* The cache lookup.                                                        *)

Arrive(r) ==
  /\ At(r, "new")
  /\ \E a \in Questions :
       Becomes(r, [req[r] EXCEPT
         !.ask = a,
         !.pc = IF Cacheable(a) THEN "get" ELSE "route",
         !.lookup = IF Cacheable(a) THEN @ ELSE "bypass"])
  /\ UNCHANGED <<exact, points, job>>

\* The entry e is replayed, whole, and booked as savings.
FromCache(h, e, lookup) ==
  [h EXCEPT !.pc = "done", !.lookup = lookup, !.hit = e, !.status = 200,
            !.shown = "whole",
            !.row = [code |-> 200, cost |-> 0, saved |-> e.tokens]]

GetHits(r) ==
  /\ At(r, "get")
  /\ exact[ExactKey(req[r].ask)] \in Entry
  /\ Becomes(r, FromCache(req[r], exact[ExactKey(req[r].ask)], "exact_hit"))
  /\ UNCHANGED <<exact, points, job>>

\* The key is absent, or Redis does not answer, whatever it holds.
GetMisses(r) ==
  /\ At(r, "get")
  /\ Becomes(r, [req[r] EXCEPT !.pc = "search"])
  /\ UNCHANGED <<exact, points, job>>

GetCorrupt(r) ==
  /\ At(r, "get")
  /\ exact[ExactKey(req[r].ask)] = Corrupt
  /\ Becomes(r, [req[r] EXCEPT !.pc = "evict"])
  /\ UNCHANGED <<exact, points, job>>

\* Del is sent for whatever is stored by then; its failure is ignored.
Evict(r) ==
  /\ At(r, "evict")
  /\ Becomes(r, [req[r] EXCEPT !.pc = "search"])
  /\ \/ exact' = [exact EXCEPT ![ExactKey(req[r].ask)] = Absent]
     \/ UNCHANGED exact
  /\ UNCHANGED <<points, job>>

SearchHits(r) ==
  /\ At(r, "search")
  /\ \E p \in Nearest(req[r].ask, {q \in Points : points[q] # Absent}) :
       /\ Compatible(req[r].ask, points[p])
       /\ Becomes(r, FromCache(req[r], points[p], "semantic_hit"))
  /\ UNCHANGED <<exact, points, job>>

\* No near point, one that may not be served, or no embedding or answer.
SearchMisses(r) ==
  /\ At(r, "search")
  /\ Becomes(r, [req[r] EXCEPT !.pc = "route", !.lookup = "miss"])
  /\ UNCHANGED <<exact, points, job>>

-----------------------------------------------------------------------------
(* The provider call.  Inside it the executor's steps are Failover's.       *)

NotFound(r) ==
  /\ At(r, "route")
  /\ Route(req[r].ask.model) = {}
  /\ Becomes(r, [req[r] EXCEPT
       !.pc = "done", !.status = 404, !.shown = "error",
       !.row = [NoRow EXCEPT !.code = 404]])
  /\ UNCHANGED <<exact, points, job>>

\* newStreamWriter sends the status line before any provider is called.
Submit(r) ==
  /\ At(r, "route")
  /\ Exec!Submit(r)
  /\ job'[r].targets \in Route(req[r].ask.model)
  /\ Becomes(r, [req[r] EXCEPT
       !.pc = "exec", !.status = IF req[r].ask.stream THEN 200 ELSE 0])
  /\ UNCHANGED <<exact, points>>

Call(r) == Exec!Call(r) /\ UNCHANGED <<exact, points, req>>

\* A target passed without a call has its circuit open.
Advance(r) ==
  /\ Exec!Advance(r)
  /\ Becomes(r, [req[r] EXCEPT
       !.errs = IF job[r].tries = 0 THEN @ \cup {"unavailable"} ELSE @])
  /\ UNCHANGED <<exact, points>>

Disconnect(r) == Exec!Leave(r) /\ UNCHANGED <<exact, points, req>>

FamilyOf(r) == Family[job[r].targets[job[r].pos]]

Chunk(r) ==
  /\ At(r, "exec") /\ req[r].ask.stream /\ ~req[r].whole
  /\ Exec!Deliver(r)
  /\ \E text \in BOOLEAN :
       Becomes(r, [req[r] EXCEPT !.text = @ \/ text, !.shown = "part"])
  /\ UNCHANGED <<exact, points>>

\* The length of a finished completion; the provider keeps to max_tokens.
Length(a, text) ==
  {n \in Lengths : (a.maxTok > 0 => n <= a.maxTok) /\ (text => n > 0)}

\* The chunks that carry the finish reason and the usage.
LastChunk(r) ==
  /\ At(r, "exec") /\ req[r].ask.stream /\ ~req[r].whole
  /\ Exec!Deliver(r)
  /\ \E n \in Length(req[r].ask, req[r].text) :
       Becomes(r, [req[r] EXCEPT
         !.text = n > 0, !.tokens = n, !.whole = TRUE, !.shown = "part"])
  /\ UNCHANGED <<exact, points>>

\* The answer is sent, the store is spawned, the row is booked at its cost.
Answered(h) ==
  [h EXCEPT
     !.pc = "done", !.errs = {}, !.status = 200,
     !.shown = IF h.whole THEN "whole" ELSE "cut",
     !.store = IF Cacheable(h.ask) /\ h.text THEN "exact" ELSE "none",
     !.row = [code |-> 200, cost |-> h.tokens, saved |-> 0]]

UnarySucceeds(r) ==
  /\ At(r, "exec") /\ ~req[r].ask.stream
  /\ Exec!Serve(r)
  /\ \E n \in Length(req[r].ask, FALSE) :
       Becomes(r, Answered([req[r] EXCEPT
         !.text = n > 0, !.tokens = n, !.whole = TRUE]))
  /\ UNCHANGED <<exact, points>>

\* OpenAI's terminator, which follows the last chunk, or an end of the body
\* that the adapter takes for one.
StreamSucceeds(r) ==
  /\ At(r, "exec") /\ req[r].ask.stream
  /\ Exec!Serve(r)
  /\ \/ FamilyOf(r) = "openai" /\ req[r].whole
     \/ EndOfBody(FamilyOf(r)) = "none"
  /\ Becomes(r, Answered(req[r]))
  /\ UNCHANGED <<exact, points>>

\* What the call in progress may fail with.
Faults(r) ==
  LET f == FamilyOf(r)
      stream == req[r].ask.stream
  IN  (IF job[r].sent THEN {"aborted"}
                      ELSE {ReplyKind(f, x) : x \in Replies})
      \cup TransportKinds(f, job[r].gone, stream)
      \cup {UndecodableKind} \cup BlockedKinds(f)
      \cup (IF stream THEN {EndOfBody(f)} \ {"none"} ELSE {})

CallFails(r) ==
  /\ job[r].live
  /\ \E k \in Faults(r) :
       /\ Exec!Fault(r)
       /\ job'[r].final = ~Failoverable(k)
       /\ Becomes(r, [req[r] EXCEPT
            !.errs = IF job'[r].final \/ job[r].sent THEN {k} ELSE @ \cup {k}])
  /\ UNCHANGED <<exact, points>>

(* The error the executor returns: one it has met, that of an open circuit  *)
(* if the last target was not called, or the context's.                     *)
Returned(r) ==
  req[r].errs \cup (IF job[r].tries = 0 THEN {"unavailable"} ELSE {})
              \cup (IF job[r].gone THEN {"canceled"} ELSE {})

\* mutant: a stream's failure is booked with the status that was sent.
GiveUpAsSent(r) ==
  /\ Exec!Fail(r)
  /\ \E k \in Returned(r) :
       LET code == IF req[r].ask.stream THEN 200 ELSE HTTPStatus(k)
       IN  Becomes(r, [req[r] EXCEPT
             !.pc = "done", !.errs = {}, !.shown = "error", !.status = code,
             !.row = [NoRow EXCEPT !.code = code]])
  /\ UNCHANGED <<exact, points>>

\* mutant: the text of a stream that failed is stored as well.
GiveUpAndStore(r) ==
  /\ Exec!Fail(r)
  /\ \E k \in Returned(r) :
       Becomes(r, [req[r] EXCEPT
         !.pc = "done", !.errs = {}, !.shown = "error",
         !.status = IF req[r].ask.stream THEN @ ELSE HTTPStatus(k),
         !.row = [NoRow EXCEPT !.code = HTTPStatus(k)],
         !.store = IF Cacheable(req[r].ask) /\ req[r].text
                   THEN "exact" ELSE "none"])
  /\ UNCHANGED <<exact, points>>

\* Once the stream has been opened its status stays what was sent.
GiveUp(r) ==
  /\ Exec!Fail(r)
  /\ \E k \in Returned(r) :
       Becomes(r, [req[r] EXCEPT
         !.pc = "done", !.errs = {}, !.shown = "error",
         !.status = IF req[r].ask.stream THEN @ ELSE HTTPStatus(k),
         !.row = [NoRow EXCEPT !.code = HTTPStatus(k)]])
  /\ UNCHANGED <<exact, points>>

-----------------------------------------------------------------------------
(* The detached store, one tier after the other; either write may fail, and *)
(* the vector may have to be computed again, which may fail as well.        *)

Completion(r) == [ask |-> req[r].ask, tokens |-> req[r].tokens,
                  whole |-> req[r].whole, stale |-> FALSE]

StoreExact(r) ==
  /\ req[r].store = "exact"
  /\ \/ exact' = [exact EXCEPT ![ExactKey(req[r].ask)] = Completion(r)]
     \/ UNCHANGED exact
  /\ req' = [req EXCEPT ![r].store = "semantic"]
  /\ UNCHANGED <<points, job>>

StoreSemantic(r) ==
  /\ req[r].store = "semantic"
  /\ \/ points' = [points EXCEPT ![PointID(req[r].ask)] = Completion(r)]
     \/ UNCHANGED points
  /\ req' = [req EXCEPT ![r].store = "done"]
  /\ UNCHANGED <<exact, job>>

(* What befalls the stores meanwhile: TTLs, and damage to an entry.         *)

Expire(k) ==
  /\ exact[k] # Absent
  /\ exact' = [exact EXCEPT ![k] = Absent]
  /\ UNCHANGED <<points, job, req>>

Damage(k) ==
  /\ exact[k] \in Entry
  /\ exact' = [exact EXCEPT ![k] = Corrupt]
  /\ UNCHANGED <<points, job, req>>

Age(p) ==
  /\ points[p] # Absent
  /\ ~points[p].stale
  /\ points' = [points EXCEPT ![p].stale = TRUE]
  /\ UNCHANGED <<exact, job, req>>

-----------------------------------------------------------------------------
Lookup(r) ==
  \/ GetHits(r) \/ GetMisses(r) \/ GetCorrupt(r) \/ Evict(r)
  \/ SearchHits(r) \/ SearchMisses(r)

Provide(r) ==
  \/ NotFound(r) \/ Submit(r) \/ Call(r) \/ Advance(r) \/ Disconnect(r)
  \/ Chunk(r) \/ LastChunk(r)
  \/ UnarySucceeds(r) \/ StreamSucceeds(r) \/ CallFails(r) \/ GiveUp(r)

Next ==
  \/ \E r \in Requests :
       Arrive(r) \/ Lookup(r) \/ Provide(r) \/ StoreExact(r) \/ StoreSemantic(r)
  \/ \E k \in Keys : Expire(k) \/ Damage(k)
  \/ \E p \in Points : Age(p)

Spec == Init /\ [][Next]_vars
-----------------------------------------------------------------------------
(* Properties.                                                              *)

(* Type invariant: every failure an adapter reports is of a kind the        *)
(* executor and the handler know, and the stores hold entries.              *)
TypeOK ==
  /\ exact \in [Keys -> Entry \cup {Absent, Corrupt}]
  /\ points \in [Points -> Entry \cup {Absent}]
  /\ req \in [Requests -> Handler]

(* A hit answers the question: a completion from either tier was written    *)
(* for the same tenant, by the alias that would serve this client, for a    *)
(* prompt near enough, at a near temperature, and is no longer than this    *)
(* client allows (Lookup and compatible, cache.go:168-248), however stores, *)
(* expiry, evictions and lookups interleave.                                *)
HitsAnswerTheQuestion ==
  \A r \in Requests :
    LET a == req[r].ask
        b == req[r].hit.ask
    IN  req[r].hit # Absent =>
          /\ b.tenant = a.tenant /\ AliasOf(b.model) = AliasOf(a.model)
          /\ Score[a.prompt][b.prompt] >= Threshold
          /\ a.temp - b.temp <= MaxTempDelta /\ b.temp - a.temp <= MaxTempDelta
          /\ a.maxTok > 0 => req[r].hit.tokens <= a.maxTok

\* What is in the cache, or on its way there.
Cached ==
  ({exact[k] : k \in Keys} \cup {points[p] : p \in Points}
     \cup {Completion(r) : r \in {q \in Requests :
                                    req[q].store \in {"exact", "semantic"}}})
  \ {Absent, Corrupt}

(* Only completions are cached that their provider had finished and that    *)
(* have a text: neither a stream that broke off (chat.go:264-277) nor an    *)
(* empty answer is replayed to the next client as a complete one.           *)
OnlyFinishedCached == \A e \in Cached : e.whole /\ e.tokens > 0

(* A client that opted out, or that asks for variety, neither gets a cached *)
(* answer nor leaves one for others (Cacheable, cache.go:147).              *)
OptOutHonored ==
  LET out(a) == a.noCache \/ a.temp > MaxTemperature
  IN  /\ \A r \in Requests : req[r].hit # Absent => ~out(req[r].ask)
      /\ \A e \in Cached : ~out(e.ask)

(* The row says what happened: a request is booked with status 200 exactly  *)
(* if its client was shown a complete answer, an unary client is sent the   *)
(* status that is booked, tokens are charged for a provider's answer and    *)
(* saved by a hit (meterSuccess, meterCacheHit, meterFailure).              *)
BookedAsAnswered ==
  \A r \in Requests :
    LET h == req[r]
    IN  h.pc = "done" =>
          /\ (h.row.code = 200) <=> (h.shown = "whole")
          /\ ~h.ask.stream => h.status = h.row.code
          /\ h.row.cost > 0 => job[r].phase = "served"
          /\ h.row.saved > 0 => h.hit # Absent /\ h.row.saved = h.hit.tokens

(* A client that stays gets an error only after every target of its alias   *)
(* has been passed, unless the error is final or the answer had begun: the  *)
(* lists the router draws leave none out (router.go:119-121).               *)
GivesUpOnlyAfterAll ==
  \A r \in Requests :
    LET j == job[r]
        all(a) == {Aliases[a].targets[i] : i \in DOMAIN Aliases[a].targets}
    IN  (j.phase = "failed" /\ ~j.gone /\ ~j.sent /\ ~j.final) =>
          /\ j.pos = Len(j.targets)
          /\ {j.targets[i] : i \in DOMAIN j.targets} =
               all(AliasOf(req[r].ask.model))
=============================================================================
