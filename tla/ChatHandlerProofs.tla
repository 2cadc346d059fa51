-------------------------- MODULE ChatHandlerProofs --------------------------
(***************************************************************************)
(* Proofs about ChatHandler, for any number of requests, any questions,    *)
(* routing table, families of adapters and scores.  Only three need more:  *)
(* that a hit answers the question, that the spellings of a name are       *)
(* routed alike (the run chat_spelling shows why) and a prompt is near     *)
(* itself; what is stored and booked, that streams end with OpenAI's       *)
(* terminator (the run chat_truncated shows why).                          *)
(*                                                                         *)
(* The inductive invariant is a predicate of each stored entry and one of  *)
(* each handler.  An entry fits the key or point it is stored under, keeps *)
(* to the limit of the question it answered, and was stored for a client   *)
(* that allows it; with the guard on matches, that is why a hit answers    *)
(* the question of another client.                                         *)
(***************************************************************************)
EXTENDS ChatHandler, FiniteSetTheorems, TLAPS

(* Spellings of one normalised name are routed alike.                       *)
NamesAgree ==
  \A a, b \in Questions :
    Normal[a.model] = Normal[b.model] => AliasOf(a.model) = AliasOf(b.model)

(* A prompt is near itself.                                                 *)
NearItself == \A a \in Questions : Score[a.prompt][a.prompt] >= Threshold

Fits(a, n) == a.maxTok > 0 => n <= a.maxTok

Stored(e) == Fits(e.ask, e.tokens) /\ Cacheable(e.ask)

\* The hit e answers the question a.
Answers(a, e) ==
  /\ e.ask.tenant = a.tenant /\ AliasOf(e.ask.model) = AliasOf(a.model)
  /\ Score[a.prompt][e.ask.prompt] >= Threshold
  /\ a.temp - e.ask.temp <= MaxTempDelta /\ e.ask.temp - a.temp <= MaxTempDelta
  /\ a.maxTok > 0 => e.tokens <= a.maxTok

Good(h) ==
  /\ h.pc = "new" => h.tokens = 0 /\ h.store = "none" /\ h.hit = Absent
  /\ h.pc # "new" => h.ask \in Questions /\ Fits(h.ask, h.tokens)
  /\ h.pc \in {"get", "evict", "search"} => Cacheable(h.ask)
  /\ h.store \in {"exact", "semantic"} => Cacheable(h.ask)
  /\ h.hit # Absent => /\ h.hit \in Entry /\ h.pc # "new"
                       /\ Cacheable(h.ask) /\ Cacheable(h.hit.ask)
                       /\ NamesAgree /\ NearItself => Answers(h.ask, h.hit)

ExactGood ==
  /\ exact \in [Keys -> Entry \cup {Absent, Corrupt}]
  /\ \A k \in Keys : exact[k] \in Entry =>
       Stored(exact[k]) /\ ExactKey(exact[k].ask) = k

PointsGood ==
  /\ points \in [Points -> Entry \cup {Absent}]
  /\ \A p \in Points : points[p] \in Entry =>
       Stored(points[p]) /\ PointID(points[p].ask) = p

HandlersGood ==
  /\ req \in [Requests -> Handler]
  /\ \A r \in Requests : Good(req[r])

\* A handler waits for its executor exactly while that runs.
Paired(h, j) ==
  /\ h.pc = "exec" <=> j.phase = "running"
  /\ j.live => j.phase = "running"

JobsGood ==
  /\ job \in [Requests -> Exec!Job]
  /\ \A r \in Requests : Paired(req[r], job[r])

Inv == ExactGood /\ PointsGood /\ HandlersGood /\ JobsGood

-----------------------------------------------------------------------------
(* Lemmas about the helpers.                                                *)

(* An adapter reports errors of the known kinds only (provider.go:40-66).   *)
LEMMA FaultsAreErrors == \A r : Faults(r) \subseteq Errors
<1>1. \A s : ClassifyStatus(s) \in Kinds
  BY DEF ClassifyStatus, Kinds
<1>2. \A f, x : ReplyKind(f, x) \in Kinds
  <2>1. \A f : \A c \in DOMAIN KindOfCause(f) : KindOfCause(f)[c] \in Kinds
    BY DEF KindOfCause, Kinds
  <2>2. "invalid_request" \in Kinds
    BY DEF Kinds
  <2> QED
    BY <1>1, <2>1, <2>2 DEF ReplyKind
<1>3. \A f, g, s : TransportKinds(f, g, s) \subseteq Kinds
  BY DEF TransportKinds, Kinds
<1>4. \A f : BlockedKinds(f) \subseteq Kinds /\ EndOfBody(f) \in Kinds \cup {"none"}
  BY DEF BlockedKinds, EndOfBody, Kinds
<1>5. UndecodableKind \in Kinds /\ "aborted" \in Errors /\ Kinds \subseteq Errors
  BY DEF UndecodableKind, Kinds, Errors, PlainErrors
<1> QED
  BY <1>2, <1>3, <1>4, <1>5 DEF Faults

(* The members of the small sets, so that the sets need not be expanded.    *)
LEMMA Names ==
  /\ \A pc \in {"get", "evict", "search", "route", "exec", "done"} : pc \in Steps
  /\ \A l \in {"exact_hit", "semantic_hit", "miss", "bypass"} : l \in Lookups
  /\ \A x \in {"part", "cut", "whole", "error"} : x \in Shows
  /\ \A x \in {"none", "exact", "semantic", "done"} : x \in Stores
  /\ 0 \in Amounts /\ 0 \in Codes /\ 200 \in Codes /\ 404 \in Codes
  BY DEF Steps, Lookups, Shows, Stores, Amounts, Codes

(* An absent or corrupt entry is no entry.                                  *)
LEMMA NotEntries == Absent \notin Entry /\ Corrupt \notin Entry
  BY HandlerAssumption DEF Absent, Corrupt, Entry

(* Changing one handler to a good one keeps all of them good.               *)
LEMMA OneHandler ==
  ASSUME HandlersGood, NEW r \in Requests, NEW h \in Handler,
         Good(h), Becomes(r, h)
  PROVE  HandlersGood'
<1>1. req' \in [Requests -> Handler]
  BY DEF HandlersGood, Becomes
<1>2. \A q \in Requests : req'[q] = IF q = r THEN h ELSE req[q]
  BY DEF HandlersGood, Becomes
<1>3. \A q \in Requests : Good(req'[q])
  BY <1>2 DEF HandlersGood
<1> QED
  BY <1>1, <1>3 DEF HandlersGood

(* The executor's step is that of the same request.                         *)
LEMMA OneJob ==
  ASSUME HandlersGood, JobsGood, NEW r \in Requests, NEW h, NEW j \in Exec!Job,
         Paired(h, j), Becomes(r, h), Exec!Becomes(r, j)
  PROVE  JobsGood'
<1>1. job' \in [Requests -> Exec!Job]
  BY DEF JobsGood, Exec!Becomes
<1>2. \A q \in Requests : /\ req'[q] = IF q = r THEN h ELSE req[q]
                          /\ job'[q] = IF q = r THEN j ELSE job[q]
  BY DEF HandlersGood, JobsGood, Becomes, Exec!Becomes
<1>3. \A q \in Requests : Paired(req'[q], job'[q])
  BY <1>2 DEF JobsGood
<1> QED
  BY <1>1, <1>3 DEF JobsGood

(* A handler that does not run the executor leaves it where it is.          *)
LEMMA NoJob ==
  ASSUME HandlersGood, JobsGood, NEW r \in Requests, NEW h,
         h.pc = "exec" <=> req[r].pc = "exec", Becomes(r, h), UNCHANGED job
  PROVE  JobsGood'
<1>1. \A q \in Requests : req'[q] = IF q = r THEN h ELSE req[q]
  BY DEF HandlersGood, Becomes
<1>2. \A q \in Requests : Paired(req'[q], job'[q])
  BY <1>1 DEF JobsGood, Paired
<1> QED
  BY <1>2 DEF JobsGood

(* What the exact tier holds for a key answers every question of that key.  *)
LEMMA SameKeyAnswers ==
  ASSUME NamesAgree, NearItself, NEW a \in Questions, NEW e \in Entry,
         Stored(e), ExactKey(e.ask) = ExactKey(a)
  PROVE  Answers(a, e)
<1>1. /\ e.ask.tenant = a.tenant /\ Normal[e.ask.model] = Normal[a.model]
      /\ e.ask.prompt = a.prompt /\ e.ask.temp = a.temp
      /\ e.ask.maxTok = a.maxTok
  BY DEF ExactKey
<1>2. e.ask \in Questions /\ a.temp \in Nat
  BY QuestionsAssumption DEF Entry
<1>3. AliasOf(e.ask.model) = AliasOf(a.model)
  BY <1>1, <1>2 DEF NamesAgree
<1>4. Score[a.prompt][e.ask.prompt] >= Threshold
  BY <1>1 DEF NearItself
<1>5. a.temp - e.ask.temp <= MaxTempDelta /\ e.ask.temp - a.temp <= MaxTempDelta
  BY <1>1, <1>2, LimitsAssumption
<1>6. a.maxTok > 0 => e.tokens <= a.maxTok
  BY <1>1 DEF Stored, Fits
<1> QED
  BY <1>1, <1>3, <1>4, <1>5, <1>6 DEF Answers

(* A near point that passes the guard answers the question.                 *)
LEMMA NearPointAnswers ==
  ASSUME NEW a \in Questions, NEW e \in Entry, NEW ids,
         PointID(e.ask) \in Nearest(a, ids), Compatible(a, e)
  PROVE  Answers(a, e)
  BY DEF PointID, Nearest, Compatible, Answers

-----------------------------------------------------------------------------
(* The steps of a handler.  Each leaves behind a good handler.              *)

LEMMA InitGood == Init => Inv
<1> SUFFICES ASSUME Init PROVE Inv
  OBVIOUS
<1>1. NewRequest \in Handler /\ Good(NewRequest)
  BY DEF NewRequest, Handler, Good, NoRow, Errors, Absent, Steps, Lookups,
         Shows, Stores, Amounts, Codes, Rows
<1>2. ExactGood /\ PointsGood
  BY NotEntries DEF Init, ExactGood, PointsGood
<1>3. Exec!Free \in Exec!Job /\ Paired(NewRequest, Exec!Free)
  BY DEF Exec!Free, Exec!Job, Paired, NewRequest
<1> QED
  BY <1>1, <1>2, <1>3 DEF Init, Exec!Init, Inv, HandlersGood, JobsGood

(* A replayed entry that answers the question leaves the handler good.      *)
LEMMA HitIsGood ==
  ASSUME NEW h \in Handler, Good(h), NEW e \in Entry,
         h.pc \in {"get", "search"}, Stored(e),
         NamesAgree /\ NearItself => Answers(h.ask, e),
         NEW l \in {"exact_hit", "semantic_hit"}
  PROVE  FromCache(h, e, l) \in Handler /\ Good(FromCache(h, e, l))
<1> DEFINE g == FromCache(h, e, l)
<1>1. g \in Handler
  <2>1. e.tokens \in Amounts
    BY DEF Entry
  <2> DEFINE booked == [code |-> 200, cost |-> 0, saved |-> e.tokens]
  <2>2. booked \in Rows
    BY <2>1 DEF Rows, Codes, Amounts
  <2>3. ASSUME NEW p \in Steps, NEW k \in Lookups, NEW c \in Codes,
               NEW s \in Shows, NEW row \in Rows
        PROVE  [h EXCEPT !.pc = p, !.lookup = k, !.hit = e, !.status = c,
                         !.shown = s, !.row = row] \in Handler
    BY ZenonT(60) DEF Handler
  <2>4. /\ "done" \in Steps /\ l \in Lookups /\ 200 \in Codes
        /\ "whole" \in Shows
    BY Names
  <2>5. g = [h EXCEPT !.pc = "done", !.lookup = l, !.hit = e, !.status = 200,
                      !.shown = "whole", !.row = booked]
    BY Zenon DEF FromCache
  <2> HIDE DEF booked, g
  <2>6. [h EXCEPT !.pc = "done", !.lookup = l, !.hit = e, !.status = 200,
                  !.shown = "whole", !.row = booked] \in Handler
    BY <2>2, <2>3, <2>4, ZenonT(60)
  <2> QED
    BY <2>5, <2>6
<1>2. /\ g.pc = "done" /\ g.hit = e /\ g.ask = h.ask
      /\ g.tokens = h.tokens /\ g.store = h.store
  BY DEF FromCache, Handler
<1>3. Good(g)
  BY <1>2 DEF Good, Stored
<1> QED
  BY <1>1, <1>3

LEMMA LookupGood ==
  ASSUME Inv, NEW r \in Requests, Lookup(r)
  PROVE  Inv'
<1>h. req[r] \in Handler /\ Good(req[r])
  BY DEF Inv, HandlersGood
<1>k. req[r].pc \in {"get", "evict", "search"} =>
        req[r].ask \in Questions /\ ExactKey(req[r].ask) \in Keys
  BY <1>h DEF Good, Keys
<1>e. UNCHANGED exact => ExactGood'
  BY DEF Inv, ExactGood
<1>p. UNCHANGED points => PointsGood'
  BY DEF Inv, PointsGood
<1> USE DEF At
<1>1. CASE GetHits(r)
  <2> DEFINE e == exact[ExactKey(req[r].ask)]
  <2>1. e \in Entry /\ Stored(e) /\ ExactKey(e.ask) = ExactKey(req[r].ask)
    BY <1>1, <1>k DEF GetHits, Inv, ExactGood
  <2>2. NamesAgree /\ NearItself => Answers(req[r].ask, e)
    BY <1>1, <1>k, <2>1, SameKeyAnswers DEF GetHits
  <2>3. /\ FromCache(req[r], e, "exact_hit") \in Handler
        /\ Good(FromCache(req[r], e, "exact_hit"))
    BY <1>1, <1>h, <2>1, <2>2, HitIsGood DEF GetHits
  <2>4. HandlersGood'
    BY <1>1, <2>3, OneHandler DEF GetHits, Inv
  <2>5. FromCache(req[r], e, "exact_hit").pc = "done"
    BY <1>h DEF FromCache, Handler
  <2>6. JobsGood'
    BY <1>1, <2>5, NoJob DEF GetHits, Inv
  <2> QED
    BY <1>1, <1>e, <1>p, <2>4, <2>6 DEF GetHits, Inv
<1>2. CASE SearchHits(r)
  <2>1. PICK p \in Nearest(req[r].ask, {q \in Points : points[q] # Absent}) :
          /\ Compatible(req[r].ask, points[p])
          /\ Becomes(r, FromCache(req[r], points[p], "semantic_hit"))
    BY <1>2 DEF SearchHits
  <2>2. p \in Points /\ points[p] \in Entry
    BY <2>1 DEF Nearest, Inv, PointsGood
  <2>3. Stored(points[p]) /\ PointID(points[p].ask) = p
    BY <2>2 DEF Inv, PointsGood
  <2>4. Answers(req[r].ask, points[p])
    BY <1>2, <1>k, <2>1, <2>2, <2>3, NearPointAnswers DEF SearchHits
  <2>5. /\ FromCache(req[r], points[p], "semantic_hit") \in Handler
        /\ Good(FromCache(req[r], points[p], "semantic_hit"))
    BY <1>2, <1>h, <2>2, <2>3, <2>4, HitIsGood DEF SearchHits
  <2>6. HandlersGood'
    BY <2>1, <2>5, OneHandler DEF Inv
  <2>7. FromCache(req[r], points[p], "semantic_hit").pc = "done"
    BY <1>h DEF FromCache, Handler
  <2>8. JobsGood'
    BY <1>2, <2>1, <2>7, NoJob DEF SearchHits, Inv
  <2> QED
    BY <1>2, <1>e, <1>p, <2>6, <2>8 DEF SearchHits, Inv
<1>3. CASE GetMisses(r) \/ GetCorrupt(r) \/ Evict(r) \/ SearchMisses(r)
  <2>1. PICK h : /\ Becomes(r, h) /\ h \in Handler
                 /\ req[r].pc \in {"get", "evict", "search"}
                 /\ h.pc \in {"evict", "search", "route"}
                 /\ h.ask = req[r].ask /\ h.tokens = req[r].tokens
                 /\ h.store = req[r].store /\ h.hit = req[r].hit
    <3>1. CASE GetMisses(r)
      <4> WITNESS [req[r] EXCEPT !.pc = "search"]
      <4> QED  BY <1>h, <3>1, Names DEF GetMisses, Handler
    <3>2. CASE GetCorrupt(r)
      <4> WITNESS [req[r] EXCEPT !.pc = "evict"]
      <4> QED  BY <1>h, <3>2, Names DEF GetCorrupt, Handler
    <3>3. CASE Evict(r)
      <4> WITNESS [req[r] EXCEPT !.pc = "search"]
      <4> QED  BY <1>h, <3>3, Names DEF Evict, Handler
    <3>4. CASE SearchMisses(r)
      <4> WITNESS [req[r] EXCEPT !.pc = "route", !.lookup = "miss"]
      <4> QED  BY <1>h, <3>4, Names DEF SearchMisses, Handler
    <3> QED  BY <1>3, <3>1, <3>2, <3>3, <3>4
  <2>2. Good(h)
    BY <1>h, <2>1 DEF Good
  <2>3. HandlersGood'
    BY <2>1, <2>2, OneHandler DEF Inv
  <2>4. ExactGood'
    <3>1. CASE UNCHANGED exact
      BY <3>1, <1>e
    <3>2. CASE exact' = [exact EXCEPT ![ExactKey(req[r].ask)] = Absent]
      BY <3>2, NotEntries DEF Inv, ExactGood
    <3> QED
      BY <1>3, <3>1, <3>2 DEF GetMisses, GetCorrupt, Evict, SearchMisses
  <2>5. PointsGood'
    BY <1>3, <1>p DEF GetMisses, GetCorrupt, Evict, SearchMisses
  <2>6. JobsGood'
    BY <1>3, <2>1, NoJob
       DEF GetMisses, GetCorrupt, Evict, SearchMisses, Inv
  <2> QED
    BY <2>3, <2>4, <2>5, <2>6 DEF Inv
<1> QED
  BY <1>1, <1>2, <1>3 DEF Lookup

(* A step of a handler that is not new, that keeps its question and hit, to *)
(* a state with the limit kept.                                             *)
LEMMA StepGood ==
  ASSUME Inv, NEW r \in Requests, NEW h \in Handler, NEW j \in Exec!Job,
         req[r].pc # "new", h.pc \in {"route", "exec", "done"},
         h.ask = req[r].ask, h.hit = req[r].hit, Fits(h.ask, h.tokens),
         h.store \in {"exact", "semantic"} => Cacheable(h.ask),
         Paired(h, j), Becomes(r, h), Exec!Becomes(r, j),
         UNCHANGED <<exact, points>>
  PROVE  Inv'
<1>1. Good(h)
  BY DEF Inv, HandlersGood, Good
<1>2. HandlersGood' /\ JobsGood'
  BY <1>1, OneHandler, OneJob DEF Inv
<1>3. ExactGood' /\ PointsGood'
  BY DEF Inv, ExactGood, PointsGood
<1> QED
  BY <1>2, <1>3 DEF Inv

(* Every status a failure is answered with is an error's.                   *)
LEMMA FailureStatus == \A k : HTTPStatus(k) \in Codes \ {0, 200}
  BY DEF HTTPStatus, Codes

(* A completion keeps to the limit of its question (generation ends there). *)
LEMMA LengthFits ==
  \A a, text : \A n \in Length(a, text) : n \in Amounts /\ Fits(a, n)
  BY DEF Length, Amounts, Fits

(* What the steps set in a job and in a handler, for any value of its type. *)
LEMMA JobUpdates ==
  \A j \in Exec!Job :
    /\ \A b \in BOOLEAN, n \in Nat :
         [j EXCEPT !.live = b, !.tries = n] \in Exec!Job
    /\ \A n, m \in Nat : [j EXCEPT !.pos = n, !.tries = m] \in Exec!Job
    /\ \A b, c \in BOOLEAN : [j EXCEPT !.live = b, !.final = c] \in Exec!Job
    /\ \A b \in BOOLEAN : [j EXCEPT !.sent = b] \in Exec!Job
                        /\ [j EXCEPT !.gone = b] \in Exec!Job
    /\ \A p \in {"served", "failed"} :
         /\ [j EXCEPT !.phase = p] \in Exec!Job
         /\ \A b \in BOOLEAN : [j EXCEPT !.live = b, !.phase = p] \in Exec!Job
<1> SUFFICES ASSUME NEW j \in Exec!Job
             PROVE  /\ \A b \in BOOLEAN, n \in Nat :
                         [j EXCEPT !.live = b, !.tries = n] \in Exec!Job
                    /\ \A n, m \in Nat :
                         [j EXCEPT !.pos = n, !.tries = m] \in Exec!Job
                    /\ \A b, c \in BOOLEAN :
                         [j EXCEPT !.live = b, !.final = c] \in Exec!Job
                    /\ \A b \in BOOLEAN : [j EXCEPT !.sent = b] \in Exec!Job
                                        /\ [j EXCEPT !.gone = b] \in Exec!Job
                    /\ \A p \in {"served", "failed"} :
                         /\ [j EXCEPT !.phase = p] \in Exec!Job
                         /\ \A b \in BOOLEAN :
                              [j EXCEPT !.live = b, !.phase = p] \in Exec!Job
  OBVIOUS
<1>1. \A b \in BOOLEAN, n \in Nat :
        [j EXCEPT !.live = b, !.tries = n] \in Exec!Job
  BY ZenonT(60) DEF Exec!Job
<1>2. \A n, m \in Nat : [j EXCEPT !.pos = n, !.tries = m] \in Exec!Job
  BY ZenonT(60) DEF Exec!Job
<1>3. \A b, c \in BOOLEAN : [j EXCEPT !.live = b, !.final = c] \in Exec!Job
  BY ZenonT(60) DEF Exec!Job
<1>4. \A b \in BOOLEAN : [j EXCEPT !.sent = b] \in Exec!Job
                        /\ [j EXCEPT !.gone = b] \in Exec!Job
  BY ZenonT(60) DEF Exec!Job
<1>5. \A p \in {"served", "failed"} : [j EXCEPT !.phase = p] \in Exec!Job
  BY ZenonT(60) DEF Exec!Job
<1>6. \A p \in {"served", "failed"} : \A b \in BOOLEAN :
        [j EXCEPT !.live = b, !.phase = p] \in Exec!Job
  BY ZenonT(60) DEF Exec!Job
<1> QED
  BY <1>1, <1>2, <1>3, <1>4, <1>5, <1>6

LEMMA HandlerUpdates ==
  \A h \in Handler :
    /\ \A p \in Steps, c \in Codes :
         [h EXCEPT !.pc = p, !.status = c] \in Handler
    /\ \A p \in Steps, c \in Codes, s \in Shows, row \in Rows :
         [h EXCEPT !.pc = p, !.status = c, !.shown = s, !.row = row] \in Handler
    /\ \A errs \in SUBSET Errors : [h EXCEPT !.errs = errs] \in Handler
    /\ \A text \in BOOLEAN, s \in Shows :
         [h EXCEPT !.text = text, !.shown = s] \in Handler
    /\ \A text, whole \in BOOLEAN, n \in Amounts :
         [h EXCEPT !.text = text, !.tokens = n, !.whole = whole] \in Handler
    /\ \A text, whole \in BOOLEAN, n \in Amounts, s \in Shows :
         [h EXCEPT !.text = text, !.tokens = n, !.whole = whole, !.shown = s]
           \in Handler
    /\ \A p \in Steps, errs \in SUBSET Errors, c \in Codes, s \in Shows,
          row \in Rows :
         [h EXCEPT !.pc = p, !.errs = errs, !.shown = s, !.status = c,
                   !.row = row] \in Handler
    /\ \A p \in Steps, errs \in SUBSET Errors, c \in Codes, s \in Shows,
          t \in Stores, row \in Rows :
         [h EXCEPT !.pc = p, !.errs = errs, !.status = c, !.shown = s,
                   !.store = t, !.row = row] \in Handler
<1>1. \A h \in Handler :
    \A p \in Steps, c \in Codes :
       [h EXCEPT !.pc = p, !.status = c] \in Handler
  BY ZenonT(60) DEF Handler
<1>2. \A h \in Handler :
    \A p \in Steps, c \in Codes, s \in Shows, row \in Rows :
       [h EXCEPT !.pc = p, !.status = c, !.shown = s, !.row = row] \in Handler
  BY ZenonT(60) DEF Handler
<1>3. \A h \in Handler :
    \A errs \in SUBSET Errors : [h EXCEPT !.errs = errs] \in Handler
  BY ZenonT(60) DEF Handler
<1>4. \A h \in Handler :
    \A text \in BOOLEAN, s \in Shows :
       [h EXCEPT !.text = text, !.shown = s] \in Handler
  BY ZenonT(60) DEF Handler
<1>5. \A h \in Handler :
    \A text, whole \in BOOLEAN, n \in Amounts :
       [h EXCEPT !.text = text, !.tokens = n, !.whole = whole] \in Handler
  BY ZenonT(60) DEF Handler
<1>6. \A h \in Handler :
    \A text, whole \in BOOLEAN, n \in Amounts, s \in Shows :
       [h EXCEPT !.text = text, !.tokens = n, !.whole = whole, !.shown = s]
         \in Handler
  BY ZenonT(60) DEF Handler
<1>7. \A h \in Handler :
    \A p \in Steps, errs \in SUBSET Errors, c \in Codes, s \in Shows,
        row \in Rows :
       [h EXCEPT !.pc = p, !.errs = errs, !.shown = s, !.status = c,
                 !.row = row] \in Handler
  BY ZenonT(60) DEF Handler
<1>8. \A h \in Handler :
    \A p \in Steps, errs \in SUBSET Errors, c \in Codes, s \in Shows,
        t \in Stores, row \in Rows :
       [h EXCEPT !.pc = p, !.errs = errs, !.status = c, !.shown = s,
                 !.store = t, !.row = row] \in Handler
  BY ZenonT(60) DEF Handler
<1> QED
  BY <1>1, <1>2, <1>3, <1>4, <1>5, <1>6, <1>7, <1>8

LEMMA ProvideGood ==
  ASSUME Inv, NEW r \in Requests, Provide(r)
  PROVE  Inv'
<1>h. /\ req[r] \in Handler /\ Good(req[r])
      /\ job[r] \in Exec!Job /\ Paired(req[r], job[r])
  BY DEF Inv, HandlersGood, JobsGood
<1>f. req[r].pc # "new" => /\ req[r].ask \in Questions
                           /\ Fits(req[r].ask, req[r].tokens)
                           /\ req[r].store \in {"exact", "semantic"} =>
                                Cacheable(req[r].ask)
  BY <1>h DEF Good
<1>j. req = [req EXCEPT ![r] = req[r]] /\ job = [job EXCEPT ![r] = job[r]]
  BY DEF Inv, HandlersGood, JobsGood
<1>t. job[r].tries + 1 \in Nat /\ job[r].pos + 1 \in Nat
  BY <1>h DEF Exec!Job
<1> USE DEF At
<1>1. CASE NotFound(r)
  <2>1. PICK st \in Codes, row \in Rows :
          Becomes(r, [req[r] EXCEPT !.pc = "done", !.status = st,
                                    !.shown = "error", !.row = row])
    <3>0. 404 \in Codes /\ [NoRow EXCEPT !.code = 404] \in Rows
      BY DEF NoRow, Rows, Codes, Amounts
    <3> DEFINE booked == [NoRow EXCEPT !.code = 404]
    <3>1. Becomes(r, [req[r] EXCEPT !.pc = "done", !.status = 404,
                                    !.shown = "error", !.row = booked])
      BY <1>1, Zenon DEF NotFound
    <3>2. 404 \in Codes /\ booked \in Rows
      BY <3>0
    <3> HIDE DEF booked
    <3> QED  BY <3>1, <3>2, ZenonT(30)
  <2> DEFINE h == [req[r] EXCEPT !.pc = "done", !.status = st,
                                 !.shown = "error", !.row = row]
  <2>2. h \in Handler
    BY <1>h, HandlerUpdates, Names
  <2>3. /\ h.pc = "done" /\ h.ask = req[r].ask /\ h.hit = req[r].hit
        /\ h.tokens = req[r].tokens /\ h.store = req[r].store
    BY <1>h DEF Handler
  <2>4. req[r].pc = "route" /\ UNCHANGED <<exact, points, job>>
    BY <1>1 DEF NotFound
  <2>5. Paired(h, job[r])
    BY <1>h, <2>3, <2>4 DEF Paired
  <2>6. Becomes(r, h) /\ Exec!Becomes(r, job[r])
    BY <1>j, <2>1, <2>4 DEF Exec!Becomes
  <2> HIDE DEF h
  <2> QED
    BY <1>h, <1>f, <2>2, <2>3, <2>4, <2>5, <2>6, StepGood
<1>2. CASE Submit(r)
  <2>1. PICK st \in Codes :
          Becomes(r, [req[r] EXCEPT !.pc = "exec", !.status = st])
    <3> (IF req[r].ask.stream THEN 200 ELSE 0) \in Codes
      BY DEF Codes
    <3> WITNESS (IF req[r].ask.stream THEN 200 ELSE 0) \in Codes
    <3> QED  BY <1>2, Zenon DEF Submit
  <2> DEFINE h == [req[r] EXCEPT !.pc = "exec", !.status = st]
  <2>2. h \in Handler
    BY <1>h, HandlerUpdates, Names
  <2>3. /\ h.pc = "exec" /\ h.ask = req[r].ask /\ h.hit = req[r].hit
        /\ h.tokens = req[r].tokens /\ h.store = req[r].store
    BY <1>h DEF Handler
  <2>4. PICK ts \in UNION {Route(a.model) : a \in Questions} :
          Exec!Becomes(r, [Exec!Free EXCEPT
                             !.phase = "running", !.targets = ts, !.pos = 1])
    BY <1>2 DEF Submit, Exec!Submit
  <2> DEFINE j == [Exec!Free EXCEPT
                     !.phase = "running", !.targets = ts, !.pos = 1]
  <2>5. Exec!Free \in Exec!Job /\ ~Exec!Free.live
    BY DEF Exec!Free, Exec!Job
  <2>6. j \in Exec!Job /\ j.phase = "running" /\ ~j.live
    BY <2>5 DEF Exec!Job
  <2>7. Paired(h, j)
    BY <2>3, <2>6 DEF Paired
  <2>8. Becomes(r, h) /\ req[r].pc = "route" /\ UNCHANGED <<exact, points>>
    BY <1>2, <2>1 DEF Submit
  <2> HIDE DEF h, j
  <2> QED
    BY <1>h, <1>f, <2>2, <2>3, <2>4, <2>6, <2>7, <2>8, StepGood DEF j
<1>3. CASE Call(r) \/ Disconnect(r)
  <2>1. PICK j \in Exec!Job : Exec!Becomes(r, j) /\ j.phase = "running"
    <3>1. CASE Call(r)
      <4> DEFINE j == [job[r] EXCEPT !.live = TRUE, !.tries = @ + 1]
      <4> j \in Exec!Job
        BY <1>h, <1>t, JobUpdates
      <4> WITNESS j \in Exec!Job
      <4> QED  BY <1>h, <3>1 DEF Call, Exec!Call, Exec!MayCall, Exec!Job
    <3>2. CASE Disconnect(r)
      <4> DEFINE j == [job[r] EXCEPT !.gone = TRUE]
      <4> j \in Exec!Job
        BY <1>h, JobUpdates
      <4> WITNESS j \in Exec!Job
      <4> QED  BY <1>h, <3>2 DEF Disconnect, Exec!Leave, Exec!Job
    <3> QED  BY <1>3, <3>1, <3>2
  <2>2. job[r].phase = "running" /\ UNCHANGED <<exact, points, req>>
    BY <1>3 DEF Call, Exec!Call, Exec!MayCall, Disconnect, Exec!Leave
  <2>3. Paired(req[r], j)
    BY <1>h, <2>1, <2>2 DEF Paired
  <2>4. req[r].pc = "exec" /\ Becomes(r, req[r])
    BY <1>h, <1>j, <2>2 DEF Paired, Becomes
  <2> QED
    BY <1>h, <1>f, <2>1, <2>2, <2>3, <2>4, StepGood
<1>4. CASE Advance(r)
  <2>1. PICK errs \in SUBSET Errors :
          Becomes(r, [req[r] EXCEPT !.errs = errs])
    <3> DEFINE errs == IF job[r].tries = 0 THEN req[r].errs \cup {"unavailable"}
                       ELSE req[r].errs
    <3> errs \in SUBSET Errors
      BY <1>h DEF Handler, Errors, Kinds
    <3> WITNESS errs \in SUBSET Errors
    <3> QED  BY <1>4, Zenon DEF Advance
  <2> DEFINE h == [req[r] EXCEPT !.errs = errs]
  <2> DEFINE j == [job[r] EXCEPT !.pos = @ + 1, !.tries = 0]
  <2>2. j \in Exec!Job
    BY <1>h, <1>t, JobUpdates
  <2>3. Exec!Becomes(r, j) /\ j.phase = "running" /\ req[r].pc = "exec"
    BY <1>4, <1>h DEF Advance, Exec!Advance, Exec!MayCall, Exec!Job, Paired
  <2>4. h \in Handler
    BY <1>h, HandlerUpdates
  <2>5. /\ h.pc = "exec" /\ h.ask = req[r].ask /\ h.hit = req[r].hit
        /\ h.tokens = req[r].tokens /\ h.store = req[r].store
    BY <1>h, <2>3 DEF Handler
  <2>6. Becomes(r, h) /\ UNCHANGED <<exact, points>>
    BY <1>4, <2>1 DEF Advance
  <2> HIDE DEF h, j
  <2>7. Paired(h, j)
    BY <2>3, <2>5 DEF Paired
  <2> QED
    BY <1>h, <1>f, <2>2, <2>3, <2>4, <2>5, <2>6, <2>7, StepGood
<1>5. CASE Chunk(r) \/ LastChunk(r)
  <2> DEFINE j == [job[r] EXCEPT !.sent = TRUE]
  <2>1. j \in Exec!Job
    BY <1>h, JobUpdates
  <2>2. Exec!Becomes(r, j) /\ j.phase = "running"
    BY <1>5, <1>h DEF Chunk, LastChunk, Exec!Deliver, Exec!Job, Paired
  <2>3. req[r].pc = "exec" /\ UNCHANGED <<exact, points>>
    BY <1>5 DEF Chunk, LastChunk
  <2>4. PICK h \in Handler :
          /\ Becomes(r, h) /\ h.pc = "exec" /\ h.ask = req[r].ask
          /\ h.hit = req[r].hit /\ Fits(h.ask, h.tokens)
          /\ h.store = req[r].store
    <3>1. CASE Chunk(r)
      <4>1. PICK text \in BOOLEAN :
              Becomes(r, [req[r] EXCEPT !.text = text, !.shown = "part"])
        BY <3>1, Zenon DEF Chunk
      <4> DEFINE h == [req[r] EXCEPT !.text = text, !.shown = "part"]
      <4> h \in Handler
        BY <1>h, HandlerUpdates, Names
      <4> WITNESS h \in Handler
      <4> QED  BY <1>h, <1>f, <2>3, <4>1 DEF Handler
    <3>2. CASE LastChunk(r)
      <4>1. PICK n \in Length(req[r].ask, req[r].text), text \in BOOLEAN :
              Becomes(r, [req[r] EXCEPT
                !.text = text, !.tokens = n, !.whole = TRUE, !.shown = "part"])
        <5>1. PICK n \in Length(req[r].ask, req[r].text) :
              Becomes(r, [req[r] EXCEPT
                !.text = n > 0, !.tokens = n, !.whole = TRUE, !.shown = "part"])
          BY <3>2, Zenon DEF LastChunk
        <5> (n > 0) \in BOOLEAN
          OBVIOUS
        <5> WITNESS n \in Length(req[r].ask, req[r].text), (n > 0) \in BOOLEAN
        <5> QED  BY <5>1, Zenon
      <4> DEFINE h == [req[r] EXCEPT
            !.text = text, !.tokens = n, !.whole = TRUE, !.shown = "part"]
      <4> h \in Handler
        BY <1>h, <4>1, HandlerUpdates, LengthFits, Names
      <4> WITNESS h \in Handler
      <4> QED  BY <1>h, <2>3, <4>1, LengthFits DEF Handler
    <3> QED  BY <1>5, <3>1, <3>2
  <2> HIDE DEF j
  <2>5. Paired(h, j)
    BY <2>2, <2>4 DEF Paired
  <2> QED
    BY <1>f, <2>1, <2>2, <2>3, <2>4, <2>5, StepGood
<1>6. CASE UnarySucceeds(r) \/ StreamSucceeds(r)
  <2> DEFINE j == [job[r] EXCEPT !.live = FALSE, !.phase = "served"]
  <2>1. j \in Exec!Job
    BY <1>h, JobUpdates
  <2>2. Exec!Becomes(r, j) /\ j.phase = "served" /\ ~j.live
    BY <1>6, <1>h DEF UnarySucceeds, StreamSucceeds, Exec!Serve, Exec!Job
  <2>3. req[r].pc = "exec" /\ UNCHANGED <<exact, points>>
    BY <1>6 DEF UnarySucceeds, StreamSucceeds
  <2>4. PICK g \in Handler :
          /\ Becomes(r, Answered(g)) /\ g.ask = req[r].ask
          /\ g.hit = req[r].hit /\ Fits(g.ask, g.tokens)
    <3>1. CASE UnarySucceeds(r)
      <4>1. PICK n \in Length(req[r].ask, FALSE), text \in BOOLEAN :
              Becomes(r, Answered([req[r] EXCEPT
                !.text = text, !.tokens = n, !.whole = TRUE]))
        <5>1. PICK n \in Length(req[r].ask, FALSE) :
              Becomes(r, Answered([req[r] EXCEPT
                !.text = n > 0, !.tokens = n, !.whole = TRUE]))
          BY <3>1, Zenon DEF UnarySucceeds
        <5> (n > 0) \in BOOLEAN
          OBVIOUS
        <5> WITNESS n \in Length(req[r].ask, FALSE), (n > 0) \in BOOLEAN
        <5> QED  BY <5>1, Zenon
      <4> DEFINE g == [req[r] EXCEPT
                !.text = text, !.tokens = n, !.whole = TRUE]
      <4> g \in Handler
        BY <1>h, <4>1, HandlerUpdates, LengthFits
      <4>3. g.ask = req[r].ask /\ g.hit = req[r].hit /\ g.tokens = n
        BY <1>h DEF Handler
      <4> WITNESS g \in Handler
      <4> HIDE DEF g
      <4> QED  BY <1>h, <4>1, <4>3, LengthFits DEF g
    <3>2. CASE StreamSucceeds(r)
      <4> req[r] \in Handler
        BY <1>h
      <4> WITNESS req[r] \in Handler
      <4> QED  BY <1>h, <1>f, <2>3, <3>2 DEF StreamSucceeds
    <3> QED  BY <1>6, <3>1, <3>2
  <2>5. PICK h \in Handler :
          /\ Becomes(r, h) /\ h.pc = "done" /\ h.ask = g.ask
          /\ h.hit = g.hit /\ h.tokens = g.tokens
          /\ h.store \in {"exact", "semantic"} => Cacheable(h.ask)
    <3> DEFINE shown == IF g.whole THEN "whole" ELSE "cut"
               store == IF Cacheable(g.ask) /\ g.text THEN "exact" ELSE "none"
               row == [code |-> 200, cost |-> g.tokens, saved |-> 0]
               code == 200
               errs == {}
    <3>1. /\ shown \in Shows /\ store \in Stores /\ row \in Rows
          /\ code \in Codes /\ errs \in SUBSET Errors
      BY <2>4 DEF Handler, Shows, Stores, Rows, Codes, Amounts
    <3>2. store \in {"exact", "semantic"} => Cacheable(g.ask)
      OBVIOUS
    <3>3. Answered(g) = [g EXCEPT
                 !.pc = "done", !.errs = errs, !.status = code, !.shown = shown,
                 !.store = store, !.row = row]
      BY Zenon DEF Answered
    <3> HIDE DEF shown, store, row, code, errs
    <3> DEFINE h == [g EXCEPT
                 !.pc = "done", !.errs = errs, !.status = code, !.shown = shown,
                 !.store = store, !.row = row]
    <3> h \in Handler
      <4> g \in Handler /\ "done" \in Steps
        BY <2>4, Names
      <4> QED
        BY <3>1, HandlerUpdates, ZenonT(60)
    <3>4. /\ h.pc = "done" /\ h.ask = g.ask /\ h.hit = g.hit
          /\ h.tokens = g.tokens /\ h.store = store
      BY DEF Handler
    <3> WITNESS h \in Handler
    <3> HIDE DEF h
    <3> QED  BY <2>4, <3>2, <3>3, <3>4 DEF h
  <2> HIDE DEF j
  <2>6. Paired(h, j)
    BY <2>2, <2>5 DEF Paired
  <2> QED
    BY <2>1, <2>2, <2>3, <2>4, <2>5, <2>6, StepGood
<1>7. CASE CallFails(r)
  <2>1. PICK f \in BOOLEAN :
          Exec!Becomes(r, [job[r] EXCEPT !.live = FALSE, !.final = f])
    BY <1>7 DEF CallFails, Exec!Fault
  <2> DEFINE j == [job[r] EXCEPT !.live = FALSE, !.final = f]
  <2>2. j \in Exec!Job
    BY <1>h, JobUpdates
  <2>3. j.phase = job[r].phase /\ ~j.live
    BY <1>h DEF Exec!Job
  <2>4. PICK errs \in SUBSET Errors :
          Becomes(r, [req[r] EXCEPT !.errs = errs])
    <3>1. PICK k \in Faults(r) : Becomes(r, [req[r] EXCEPT
            !.errs = IF job'[r].final \/ job[r].sent THEN {k} ELSE @ \cup {k}])
      BY <1>7 DEF CallFails
    <3> DEFINE errs == IF job'[r].final \/ job[r].sent THEN {k}
                       ELSE req[r].errs \cup {k}
    <3> errs \in SUBSET Errors
      BY <1>h, FaultsAreErrors DEF Handler
    <3> WITNESS errs \in SUBSET Errors
    <3> QED  BY <3>1, Zenon
  <2> DEFINE h == [req[r] EXCEPT !.errs = errs]
  <2>5. req[r].pc = "exec" /\ job[r].phase = "running"
    BY <1>7, <1>h DEF CallFails, Paired
  <2>6. h \in Handler
    BY <1>h, HandlerUpdates
  <2>7. /\ h.pc = "exec" /\ h.ask = req[r].ask /\ h.hit = req[r].hit
        /\ h.tokens = req[r].tokens /\ h.store = req[r].store
    BY <1>h, <2>5 DEF Handler
  <2>8. Becomes(r, h) /\ Exec!Becomes(r, j) /\ UNCHANGED <<exact, points>>
    BY <1>7, <2>1, <2>4 DEF CallFails
  <2> HIDE DEF h, j
  <2>9. Paired(h, j)
    BY <2>3, <2>5, <2>7 DEF Paired
  <2> QED
    BY <1>f, <2>2, <2>5, <2>6, <2>7, <2>8, <2>9, StepGood
<1>8. CASE GiveUp(r)
  <2>1. PICK st \in Codes, row \in Rows :
          Becomes(r, [req[r] EXCEPT !.pc = "done", !.errs = {},
            !.shown = "error", !.status = st, !.row = row])
    <3>1. PICK k \in Returned(r) :
          Becomes(r, [req[r] EXCEPT
            !.pc = "done", !.errs = {}, !.shown = "error",
            !.status = IF req[r].ask.stream THEN @ ELSE HTTPStatus(k),
            !.row = [NoRow EXCEPT !.code = HTTPStatus(k)]])
      BY <1>8 DEF GiveUp
    <3> DEFINE st == IF req[r].ask.stream THEN req[r].status ELSE HTTPStatus(k)
               row == [NoRow EXCEPT !.code = HTTPStatus(k)]
    <3> st \in Codes /\ row \in Rows
      BY <1>h, FailureStatus DEF Handler, NoRow, Rows, Amounts
    <3> WITNESS st \in Codes, row \in Rows
    <3> QED  BY <3>1, Zenon
  <2> DEFINE h == [req[r] EXCEPT !.pc = "done", !.errs = {},
                    !.shown = "error", !.status = st, !.row = row]
  <2> DEFINE j == [job[r] EXCEPT !.phase = "failed"]
  <2>2. j \in Exec!Job
    BY <1>h, JobUpdates
  <2>3. Exec!Becomes(r, j) /\ j.phase = "failed" /\ ~j.live
    BY <1>8, <1>h DEF GiveUp, Exec!Fail, Exec!MayFail, Exec!Job
  <2>4. req[r].pc = "exec" /\ UNCHANGED <<exact, points>>
    BY <1>8, <1>h DEF GiveUp, Exec!Fail, Exec!MayFail, Paired
  <2>5. h \in Handler
    <3> "done" \in Steps /\ "error" \in Shows /\ {} \in SUBSET Errors
      BY Names
    <3> QED
      BY <1>h, <2>1, HandlerUpdates, ZenonT(60)
  <2>6. /\ h.pc = "done" /\ h.ask = req[r].ask /\ h.hit = req[r].hit
        /\ h.tokens = req[r].tokens /\ h.store = req[r].store
    BY <1>h DEF Handler
  <2> HIDE DEF h, j
  <2>7. Paired(h, j)
    BY <2>3, <2>6 DEF Paired
  <2> QED
    BY <1>f, <2>1, <2>2, <2>3, <2>4, <2>5, <2>6, <2>7, StepGood DEF h
<1> QED
  BY <1>1, <1>2, <1>3, <1>4, <1>5, <1>6, <1>7, <1>8 DEF Provide

LEMMA ArriveGood ==
  ASSUME Inv, NEW r \in Requests, Arrive(r)
  PROVE  Inv'
<1>h. req[r] \in Handler /\ Good(req[r])
  BY DEF Inv, HandlersGood
<1>1. PICK a \in Questions, p \in {"get", "route"}, l \in Lookups :
        /\ Becomes(r, [req[r] EXCEPT !.ask = a, !.pc = p, !.lookup = l])
        /\ p = "get" => Cacheable(a)
  <2>1. PICK a \in Questions :
          Becomes(r, [req[r] EXCEPT
            !.ask = a,
            !.pc = IF Cacheable(a) THEN "get" ELSE "route",
            !.lookup = IF Cacheable(a) THEN req[r].lookup ELSE "bypass"])
    BY Zenon DEF Arrive
  <2> DEFINE p == IF Cacheable(a) THEN "get" ELSE "route"
             l == IF Cacheable(a) THEN req[r].lookup ELSE "bypass"
  <2> p \in {"get", "route"}
    OBVIOUS
  <2> l \in Lookups
    BY <1>h, Names DEF Handler
  <2>2. p = "get" => Cacheable(a)
    OBVIOUS
  <2> WITNESS a \in Questions, p \in {"get", "route"}, l \in Lookups
  <2> QED  BY <2>1, <2>2, Zenon
<1> DEFINE h == [req[r] EXCEPT !.ask = a, !.pc = p, !.lookup = l]
<1>2. p \in Steps
  BY Names
<1>3. h \in Handler
  BY <1>h, <1>2 DEF Handler
<1>4. /\ h.ask = a /\ h.pc = p /\ h.hit = req[r].hit
      /\ h.tokens = req[r].tokens /\ h.store = req[r].store
  BY <1>h DEF Handler
<1>5. req[r].pc = "new" /\ UNCHANGED <<exact, points, job>>
  BY DEF Arrive, At
<1>6. Fits(a, 0)
  BY QuestionsAssumption DEF Fits
<1>7. Becomes(r, h)
  BY <1>1
<1> HIDE DEF h
<1>8. Good(h)
  BY <1>h, <1>1, <1>4, <1>5, <1>6 DEF Good
<1>9. HandlersGood' /\ JobsGood'
  BY <1>3, <1>4, <1>5, <1>7, <1>8, OneHandler, NoJob DEF Inv
<1> QED
  BY <1>5, <1>9 DEF Inv, ExactGood, PointsGood

(* What the detached store writes: an entry for its question, within the    *)
(* limit, of a client that allows it, under its own key and point.          *)
LEMMA StoreGood ==
  ASSUME Inv, NEW r \in Requests, StoreExact(r) \/ StoreSemantic(r)
  PROVE  Inv'
<1>h. req[r] \in Handler /\ Good(req[r])
  BY DEF Inv, HandlersGood
<1>1. req[r].store \in {"exact", "semantic"} /\ UNCHANGED job
  BY DEF StoreExact, StoreSemantic
<1>2. PICK t \in Stores :
        Becomes(r, [req[r] EXCEPT !.store = t]) /\ t \in {"semantic", "done"}
  <2>1. req' = [req EXCEPT ![r] = [req[r] EXCEPT !.store = "semantic"]] \/
        req' = [req EXCEPT ![r] = [req[r] EXCEPT !.store = "done"]]
    BY Zenon DEF StoreExact, StoreSemantic
  <2> QED
    BY <2>1, Names DEF Becomes
<1> DEFINE h == [req[r] EXCEPT !.store = t]
<1>3. h \in Handler
  BY <1>h DEF Handler
<1>4. /\ h.pc = req[r].pc /\ h.ask = req[r].ask /\ h.hit = req[r].hit
      /\ h.tokens = req[r].tokens /\ h.store = t
  BY <1>h DEF Handler
<1>5. Becomes(r, h)
  BY <1>2
<1>6. req[r].pc # "new"
  BY <1>h, <1>1 DEF Good
<1> HIDE DEF h
<1>7. Good(h)
  BY <1>h, <1>1, <1>4, <1>6 DEF Good
<1>8. HandlersGood' /\ JobsGood'
  BY <1>1, <1>3, <1>4, <1>5, <1>7, OneHandler, NoJob DEF Inv
<1> DEFINE e == Completion(r)
<1>9. e \in Entry /\ Stored(e) /\ e.ask = req[r].ask
  <2>1. req[r].ask \in Questions /\ Fits(req[r].ask, req[r].tokens)
        /\ Cacheable(req[r].ask)
    BY <1>h, <1>1, <1>6 DEF Good
  <2>2. req[r].tokens \in Lengths \/ req[r].tokens = 0
    BY <1>h DEF Handler, Amounts
  <2> QED
    BY <1>h, <2>1, <2>2 DEF Completion, Entry, Stored, Handler
<1>10. ExactKey(req[r].ask) \in Keys /\ PointID(req[r].ask) \in Points
  BY <1>9 DEF Entry, Keys, Points
<1> HIDE DEF e
<1>11. ExactGood'
  <2>1. UNCHANGED exact \/ exact' = [exact EXCEPT ![ExactKey(req[r].ask)] = e]
    BY DEF StoreExact, StoreSemantic, e
  <2> QED
    BY <1>9, <1>10, <2>1 DEF Inv, ExactGood
<1>12. PointsGood'
  <2>1. UNCHANGED points \/ points' = [points EXCEPT ![PointID(req[r].ask)] = e]
    BY DEF StoreExact, StoreSemantic, e
  <2> QED
    BY <1>9, <1>10, <2>1 DEF Inv, PointsGood
<1> QED
  BY <1>8, <1>11, <1>12 DEF Inv

(* Expiry and damage only take entries away; age changes nothing else.      *)
LEMMA MishapGood ==
  ASSUME Inv, \/ \E k \in Keys : Expire(k) \/ Damage(k)
              \/ \E p \in Points : Age(p)
  PROVE  Inv'
<1>1. UNCHANGED <<job, req>>
  BY DEF Expire, Damage, Age
<1>2. HandlersGood' /\ JobsGood'
  BY <1>1 DEF Inv, HandlersGood, JobsGood
<1>3. CASE \E k \in Keys : Expire(k) \/ Damage(k)
  <2>1. PICK k \in Keys : \/ exact' = [exact EXCEPT ![k] = Absent]
                          \/ exact' = [exact EXCEPT ![k] = Corrupt]
    BY <1>3 DEF Expire, Damage
  <2>2. ExactGood'
    BY <2>1, NotEntries DEF Inv, ExactGood
  <2>3. PointsGood'
    BY <1>3 DEF Expire, Damage, Inv, PointsGood
  <2> QED
    BY <1>2, <2>2, <2>3 DEF Inv
<1>4. CASE \E p \in Points : Age(p)
  <2>1. PICK p \in Points : Age(p)
    BY <1>4
  <2>2. points[p] \in Entry /\ Stored(points[p]) /\ PointID(points[p].ask) = p
    BY <2>1 DEF Age, Inv, PointsGood
  <2> DEFINE e == [points[p] EXCEPT !.stale = TRUE]
  <2>3. e \in Entry /\ e.ask = points[p].ask /\ e.tokens = points[p].tokens
    BY <2>2 DEF Entry
  <2>4. points' = [points EXCEPT ![p] = e]
    BY <2>1 DEF Age
  <2> HIDE DEF e
  <2>5. PointsGood'
    BY <2>2, <2>3, <2>4 DEF Inv, PointsGood, Stored
  <2>6. ExactGood'
    BY <2>1 DEF Age, Inv, ExactGood
  <2> QED
    BY <1>2, <2>5, <2>6 DEF Inv
<1> QED
  BY <1>3, <1>4

-----------------------------------------------------------------------------
(* The theorems.                                                            *)

LEMMA NextGood ==
  ASSUME Inv, [Next]_vars
  PROVE  Inv'
<1>1. CASE UNCHANGED vars
  BY <1>1 DEF vars, Inv, ExactGood, PointsGood, HandlersGood, JobsGood
<1>2. CASE Next
  BY <1>2, ArriveGood, LookupGood, ProvideGood, StoreGood, MishapGood DEF Next
<1> QED
  BY <1>1, <1>2

LEMMA Invariance == Spec => []Inv
<1>1. Init => Inv
  BY InitGood
<1>2. Inv /\ [Next]_vars => Inv'
  BY NextGood
<1> QED
  BY <1>1, <1>2, PTL DEF Spec

(* Every error an adapter reports is of a kind the executor and the handler *)
(* know, and the stores hold nothing but entries (provider.go:40-66).       *)
THEOREM ChatTypeCorrect == Spec => []TypeOK
<1>1. Inv => TypeOK
  BY DEF Inv, ExactGood, PointsGood, HandlersGood, TypeOK
<1> QED
  BY <1>1, Invariance, PTL

(* A client is served from the cache only what answers its question: its    *)
(* tenant's, its alias's, near enough and within its limit, whatever stores,*)
(* evictions, expiry and lookups interleave (Lookup and compatible,         *)
(* cache.go:168-248), where no two spellings of a name are routed apart.    *)
THEOREM HitsAnswer ==
  ASSUME NamesAgree, NearItself
  PROVE  Spec => []HitsAnswerTheQuestion
<1>1. Inv => HitsAnswerTheQuestion
  BY DEF Inv, HandlersGood, Good, Answers, HitsAnswerTheQuestion
<1> QED
  BY <1>1, Invariance, PTL

(* A client that opted out, or asks for variety, neither gets a cached      *)
(* answer nor leaves one (Cacheable, cache.go:147).                         *)
THEOREM OptOutKept == Spec => []OptOutHonored
<1>1. ASSUME Inv PROVE OptOutHonored
  <2>1. \A a \in Questions :
          Cacheable(a) => ~(a.noCache \/ a.temp > MaxTemperature)
    BY QuestionsAssumption, LimitsAssumption DEF Cacheable
  <2>2. \A r \in Requests : req[r].hit # Absent =>
          req[r].ask \in Questions /\ Cacheable(req[r].ask)
    BY <1>1 DEF Inv, HandlersGood, Good
  <2>3. \A e \in Cached : e.ask \in Questions /\ Cacheable(e.ask)
    <3>1. \A k \in Keys : exact[k] \notin {Absent, Corrupt} =>
            exact[k].ask \in Questions /\ Cacheable(exact[k].ask)
      BY <1>1 DEF Inv, ExactGood, Stored, Entry
    <3>2. \A p \in Points : points[p] # Absent =>
            points[p].ask \in Questions /\ Cacheable(points[p].ask)
      BY <1>1 DEF Inv, PointsGood, Stored, Entry
    <3>3. \A r \in Requests : req[r].store \in {"exact", "semantic"} =>
            /\ Completion(r).ask \in Questions
            /\ Cacheable(Completion(r).ask)
      BY <1>1 DEF Inv, HandlersGood, Good, Completion
    <3> QED
      BY <3>1, <3>2, <3>3 DEF Cached
  <2> QED
    BY <2>1, <2>2, <2>3 DEF OptOutHonored
<1> QED
  BY <1>1, Invariance, PTL

-----------------------------------------------------------------------------
(* The lists the router draws.                                              *)

(* What a weighted alias draws is an order of all of its targets: a target  *)
(* that has been drawn is not drawn again, so that none is left over.       *)
LEMMA DrawsLeaveNoneOut ==
  ASSUME NEW a \in DOMAIN Aliases, NEW o \in WeightedOrders(Aliases[a].weights)
  PROVE  LET all == 1..Len(Aliases[a].targets)
         IN  o \in [all -> all] /\ \A i \in all : \E k \in all : o[k] = i
<1> DEFINE n == Len(Aliases[a].targets)
           all == 1..n
<1>1. n \in Nat /\ DOMAIN Aliases[a].weights = all
  BY RouterAssumption
<1>2. o \in [all -> all]
  BY <1>1 DEF WeightedOrders
<1>3. \A k \in all : o[k] \notin {o[j] : j \in 1..(k - 1)}
  BY <1>1 DEF WeightedOrders
<1>4. ASSUME NEW j \in all, NEW k \in all, j < k
      PROVE  o[j] # o[k]
  <2>1. j \in 1..(k - 1)
    BY <1>1, <1>4
  <2>2. QED
    BY <1>3, <2>1
<1>5. \A j, k \in all : o[j] = o[k] => j = k
  BY <1>1, <1>4
<1> HIDE DEF all
<1>6. o \in Injection(all, all)
  BY <1>2, <1>5 DEF Injection, IsInjective
<1>7. IsFiniteSet(all)
  BY <1>1, FS_Interval DEF all
<1>8. o \in Surjection(all, all)
  BY <1>6, <1>7, FS_Injection
<1>9. \A i \in all : \E k \in all : o[k] = i
  BY <1>8 DEF Surjection
<1> QED
  BY <1>2, <1>9 DEF all

TargetsOf(a) == {Aliases[a].targets[i] : i \in DOMAIN Aliases[a].targets}

(* A list that Route returns is not empty and names the targets of the      *)
(* alias and no others.                                                     *)
LEMMA RouteNamesAll ==
  ASSUME NEW m, NEW ts \in Route(m)
  PROVE  /\ Len(ts) \in Nat \ {0} /\ DOMAIN ts = 1..Len(ts)
         /\ {ts[i] : i \in DOMAIN ts} = TargetsOf(AliasOf(m))
<1> DEFINE a == AliasOf(m)
           n == Len(Aliases[a].targets)
           all == 1..n
<1>1. a \in DOMAIN Aliases
  BY DEF Route
<1>2. /\ Aliases[a].targets \in Seq(DOMAIN Family) /\ Aliases[a].targets # <<>>
      /\ Aliases[a].weights \in Seq(Int) /\ Len(Aliases[a].weights) = n
  BY <1>1, RouterAssumption, HandlerAssumption
<1>3. n \in Nat \ {0} /\ DOMAIN Aliases[a].targets = all
  BY <1>2
<1>4. CASE ts = Aliases[a].targets
  BY <1>3, <1>4 DEF TargetsOf
<1>5. CASE ts # Aliases[a].targets
  <2>1. PICK o \in WeightedOrders(Aliases[a].weights) :
          ts = [k \in DOMAIN o |-> Aliases[a].targets[o[k]]]
    BY <1>1, <1>5 DEF Route
  <2>2. o \in [all -> all] /\ \A i \in all : \E k \in all : o[k] = i
    BY <1>1, <2>1, DrawsLeaveNoneOut
  <2> HIDE DEF a, n
  <2> DEFINE T == Aliases[a].targets
  <2> HIDE DEF all, T
  <2>3. DOMAIN ts = all /\ \A k \in all : ts[k] = T[o[k]]
    BY <2>1, <2>2 DEF T
  <2>4. \A k \in all : T[o[k]] \in DOMAIN Family
    BY <1>2, <1>3, <2>2 DEF T
  <2>5. ts \in Seq(DOMAIN Family) /\ Len(ts) = n
    <3>1. ts = [k \in 1..n |-> T[o[k]]]
      BY <2>1, <2>2 DEF T, all
    <3> QED
      BY <1>3, <2>4, <3>1 DEF all
  <2>6. {ts[i] : i \in all} = {T[i] : i \in all}
    BY <2>2, <2>3
  <2> QED
    BY <1>3, <2>3, <2>5, <2>6 DEF TargetsOf, a, T, all
<1> QED
  BY <1>4, <1>5

-----------------------------------------------------------------------------
(* The executor within the handler.                                         *)

(* Every step of the executor is its contract's, and the handler takes none *)
(* on its behalf.                                                           *)
LEMMA RunsExecutorStep == [Next]_vars => [Exec!Next]_Exec!vars
<1> SUFFICES ASSUME [Next]_vars, job' # job PROVE Exec!Next
  BY DEF Exec!vars
<1>1. PICK r \in Requests : Provide(r)
  BY DEF Next, vars, Arrive, Lookup, GetHits, GetMisses, GetCorrupt, Evict,
         SearchHits, SearchMisses, StoreExact, StoreSemantic, Expire, Damage, Age
<1>2. CASE Submit(r) \/ Call(r) \/ Advance(r) \/ Disconnect(r)
  BY <1>2 DEF Submit, Call, Advance, Disconnect, Exec!Next
<1>3. CASE Chunk(r) \/ LastChunk(r)
  BY <1>3 DEF Chunk, LastChunk, Exec!Next
<1>4. CASE UnarySucceeds(r) \/ StreamSucceeds(r)
  BY <1>4 DEF UnarySucceeds, StreamSucceeds, Exec!Next
<1>5. CASE CallFails(r)
  BY <1>5 DEF CallFails, Exec!Next
<1>6. CASE GiveUp(r)
  BY <1>6 DEF GiveUp, Exec!Next
<1>7. CASE NotFound(r)
  BY <1>7 DEF NotFound
<1> QED
  BY <1>1, <1>2, <1>3, <1>4, <1>5, <1>6, <1>7 DEF Provide

(* The handler drives the executor as its contract says, which the module   *)
(* Executor implements: what is proved of one holds of the other            *)
(* (executor.go:81-140, chat.go:146-150, 205-230).                          *)
THEOREM HandlerRunsExecutor == Spec => Exec!Spec
<1>1. Init => Exec!Init
  BY DEF Init
<1> QED
  BY <1>1, RunsExecutorStep, PTL DEF Spec, Exec!Spec

(* The executor runs for a question that has been routed, over a list of    *)
(* its alias, and fails a client that stays only at the end of that list.   *)
OnRoute(h, j) ==
  /\ h.pc \notin {"exec", "done"} => j.phase = "free"
  /\ j.phase # "free" =>
       j.targets \in Route(h.ask.model) /\ j.pos \in 1..Len(j.targets)
  /\ j.phase = "failed" =>
       j.gone \/ j.sent \/ j.final \/ j.pos = Len(j.targets)

AllOnRoute == \A r \in Requests : OnRoute(req[r], job[r])

(* A handler that calls its providers keeps its question.                   *)
LEMMA ProvideKeepsAsk ==
  ASSUME Inv, NEW r \in Requests, Provide(r)
  PROVE  /\ req'[r].ask = req[r].ask /\ req'[r].pc \in {"exec", "done"}
         /\ \A q \in Requests : q # r => req'[q] = req[q] /\ job'[q] = job[q]
<1>h. req \in [Requests -> Handler] /\ job \in [Requests -> Exec!Job]
      /\ req[r] \in Handler /\ Paired(req[r], job[r])
  BY DEF Inv, HandlersGood, JobsGood
<1>1. ASSUME NEW h, Becomes(r, h)
      PROVE  req'[r] = h /\ \A q \in Requests : q # r => req'[q] = req[q]
  BY <1>h, <1>1 DEF Becomes
<1>2. \A q \in Requests : q # r => job'[q] = job[q]
  <2>1. UNCHANGED job \/ \E j : job' = [job EXCEPT ![r] = j]
    BY DEF Provide, NotFound, Submit, Call, Advance, Disconnect, Chunk,
           LastChunk, UnarySucceeds, StreamSucceeds, CallFails, GiveUp,
           Exec!Submit, Exec!Call, Exec!Advance, Exec!Leave, Exec!Deliver,
           Exec!Serve, Exec!Fault, Exec!Fail, Exec!Becomes
  <2> QED
    BY <1>h, <2>1
<1>3. \E h : Becomes(r, h) /\ h.ask = req[r].ask /\ h.pc \in {"exec", "done"}
  <2>1. CASE NotFound(r)
    <3>1. Becomes(r, [req[r] EXCEPT
            !.pc = "done", !.status = 404, !.shown = "error",
            !.row = [NoRow EXCEPT !.code = 404]])
      BY <2>1, Zenon DEF NotFound
    <3> DEFINE h == [req[r] EXCEPT
            !.pc = "done", !.status = 404, !.shown = "error",
            !.row = [NoRow EXCEPT !.code = 404]]
    <3>2. h.ask = req[r].ask /\ h.pc = "done"
      BY <1>h, <2>1 DEF NotFound, At, Handler
    <3> WITNESS h
    <3> HIDE DEF h
    <3> QED
      BY <3>1, <3>2 DEF h
  <2>2. CASE Submit(r)
    <3>1. Becomes(r, [req[r] EXCEPT
            !.pc = "exec", !.status = IF req[r].ask.stream THEN 200 ELSE 0])
      BY <2>2, Zenon DEF Submit
    <3> DEFINE h == [req[r] EXCEPT
            !.pc = "exec", !.status = IF req[r].ask.stream THEN 200 ELSE 0]
    <3>2. h.ask = req[r].ask /\ h.pc = "exec"
      BY <1>h, <2>2 DEF Submit, At, Handler
    <3> WITNESS h
    <3> HIDE DEF h
    <3> QED
      BY <3>1, <3>2 DEF h
  <2>3. CASE Call(r) \/ Disconnect(r)
    <3>1. Becomes(r, req[r])
      BY <1>h, <2>3 DEF Call, Disconnect, Becomes
    <3>2. req[r].pc = "exec"
      BY <1>h, <2>3 DEF Call, Exec!Call, Exec!MayCall, Disconnect, Exec!Leave,
                        Paired
    <3> QED
      BY <3>1, <3>2
  <2>4. CASE Advance(r)
    <3>1. Becomes(r, [req[r] EXCEPT
            !.errs = IF job[r].tries = 0 THEN @ \cup {"unavailable"} ELSE @])
      BY <2>4, Zenon DEF Advance
    <3> DEFINE h == [req[r] EXCEPT
            !.errs = IF job[r].tries = 0 THEN @ \cup {"unavailable"} ELSE @]
    <3>2. h.ask = req[r].ask /\ h.pc = "exec"
      BY <1>h, <2>4 DEF Advance, At, Handler, Exec!Advance, Exec!MayCall,
                        Paired
    <3> WITNESS h
    <3> HIDE DEF h
    <3> QED
      BY <3>1, <3>2 DEF h
  <2>5. CASE Chunk(r)
    <3>1. PICK text \in BOOLEAN :
            Becomes(r, [req[r] EXCEPT !.text = @ \/ text, !.shown = "part"])
      BY <2>5, Zenon DEF Chunk
    <3> DEFINE h == [req[r] EXCEPT !.text = @ \/ text, !.shown = "part"]
    <3>2. h.ask = req[r].ask /\ h.pc = "exec"
      BY <1>h, <2>5 DEF Chunk, At, Handler
    <3> WITNESS h
    <3> HIDE DEF h
    <3> QED
      BY <3>1, <3>2 DEF h
  <2>6. CASE LastChunk(r)
    <3>1. PICK n \in Length(req[r].ask, req[r].text) :
            Becomes(r, [req[r] EXCEPT
            !.text = n > 0, !.tokens = n, !.whole = TRUE, !.shown = "part"])
      BY <2>6, Zenon DEF LastChunk
    <3> DEFINE h == [req[r] EXCEPT
            !.text = n > 0, !.tokens = n, !.whole = TRUE, !.shown = "part"]
    <3>2. h.ask = req[r].ask /\ h.pc = "exec"
      BY <1>h, <2>6 DEF LastChunk, At, Handler
    <3> WITNESS h
    <3> HIDE DEF h
    <3> QED
      BY <3>1, <3>2 DEF h
  <2>7. ASSUME NEW g \in Handler
        PROVE  Answered(g).ask = g.ask /\ Answered(g).pc = "done"
    BY DEF Answered, Handler
  <2>8. CASE UnarySucceeds(r)
    <3>1. PICK n \in Length(req[r].ask, FALSE) :
            Becomes(r, Answered([req[r] EXCEPT
              !.text = n > 0, !.tokens = n, !.whole = TRUE]))
      BY <2>8, Zenon DEF UnarySucceeds
    <3> DEFINE g == [req[r] EXCEPT !.text = n > 0, !.tokens = n, !.whole = TRUE]
    <3>2. (n > 0) \in BOOLEAN /\ TRUE \in BOOLEAN /\ n \in Amounts
      <4>1. n \in Amounts
        BY LengthFits, Zenon
      <4>2. (n > 0) \in BOOLEAN
        OBVIOUS
      <4> QED
        BY <4>1, <4>2, Zenon
    <3>3. g \in Handler
      BY <1>h, <3>2, HandlerUpdates, ZenonT(60)
    <3>4. g.ask = req[r].ask
      BY <1>h DEF Handler
    <3> HIDE DEF g
    <3>5. Answered(g).ask = req[r].ask /\ Answered(g).pc = "done"
      BY <2>7, <3>3, <3>4
    <3> WITNESS Answered(g)
    <3> QED
      BY <3>1, <3>5 DEF g
  <2>9. CASE StreamSucceeds(r)
    <3>1. Answered(req[r]).ask = req[r].ask /\ Answered(req[r]).pc = "done"
      BY <1>h, <2>7
    <3> WITNESS Answered(req[r])
    <3> QED
      BY <2>9, <3>1 DEF StreamSucceeds
  <2>10. CASE CallFails(r)
    <3>0. PICK k \in Faults(r) :
            Becomes(r, [req[r] EXCEPT
              !.errs = IF job'[r].final \/ job[r].sent THEN {k} ELSE @ \cup {k}])
      BY <2>10, Zenon DEF CallFails
    <3>1. PICK errs : Becomes(r, [req[r] EXCEPT !.errs = errs])
      BY <3>0, Zenon
    <3> DEFINE h == [req[r] EXCEPT !.errs = errs]
    <3>2. h.ask = req[r].ask /\ h.pc = "exec"
      BY <1>h, <2>10 DEF CallFails, Handler, Paired
    <3> WITNESS h
    <3> HIDE DEF h
    <3> QED
      BY <3>1, <3>2 DEF h
  <2>11. CASE GiveUp(r)
    <3>1. PICK k \in Returned(r) :
            Becomes(r, [req[r] EXCEPT
            !.pc = "done", !.errs = {}, !.shown = "error",
            !.status = IF req[r].ask.stream THEN @ ELSE HTTPStatus(k),
            !.row = [NoRow EXCEPT !.code = HTTPStatus(k)]])
      BY <2>11, Zenon DEF GiveUp
    <3> DEFINE h == [req[r] EXCEPT
            !.pc = "done", !.errs = {}, !.shown = "error",
            !.status = IF req[r].ask.stream THEN @ ELSE HTTPStatus(k),
            !.row = [NoRow EXCEPT !.code = HTTPStatus(k)]]
    <3>2. h.ask = req[r].ask /\ h.pc = "done"
      BY <1>h, <2>11 DEF GiveUp, At, Handler
    <3> WITNESS h
    <3> HIDE DEF h
    <3> QED
      BY <3>1, <3>2 DEF h
  <2> QED
    BY <2>1, <2>2, <2>3, <2>4, <2>5, <2>6, <2>8, <2>9, <2>10, <2>11 DEF Provide
<1> QED
  BY <1>1, <1>2, <1>3

LEMMA OnRouteStep ==
  ASSUME Inv, AllOnRoute, [Next]_vars
  PROVE  AllOnRoute'
<1>j. job \in [Requests -> Exec!Job] /\ req \in [Requests -> Handler]
  BY DEF Inv, HandlersGood, JobsGood
<1>1. ASSUME NEW r \in Requests, Provide(r)
      PROVE  AllOnRoute'
  <2> DEFINE j == job[r]
             i == job'[r]
  <2>1. /\ req'[r].ask = req[r].ask /\ req'[r].pc \in {"exec", "done"}
        /\ \A q \in Requests : q # r => req'[q] = req[q] /\ job'[q] = job[q]
    BY <1>1, ProvideKeepsAsk
  <2>2. j \in Exec!Job /\ OnRoute(req[r], j)
    BY <1>j DEF AllOnRoute
  <2>3. OnRoute(req'[r], i)
    <3>1. CASE Submit(r)
      <4>1. PICK ts : i = [Exec!Free EXCEPT !.phase = "running", !.targets = ts,
                                             !.pos = 1]
        BY <1>j, <3>1 DEF Submit, Exec!Submit, Exec!Becomes
      <4>2. i.targets = ts /\ i.pos = 1 /\ i.phase = "running"
        BY <4>1 DEF Exec!Free
      <4>3. ts \in Route(req[r].ask.model)
        BY <3>1, <4>2 DEF Submit
      <4>4. 1 \in 1..Len(ts)
        BY <4>3, RouteNamesAll
      <4> QED
        BY <2>1, <4>2, <4>3, <4>4 DEF OnRoute
    <3>2. CASE NotFound(r)
      BY <2>1, <2>2, <3>2 DEF NotFound, OnRoute, At
    <3>3. CASE Advance(r)
      <4>1. i = [j EXCEPT !.pos = @ + 1, !.tries = 0] /\ j.pos < Len(j.targets)
            /\ j.phase = "running"
        BY <1>j, <3>3 DEF Advance, Exec!Advance, Exec!MayCall, Exec!Becomes
      <4>2. i.targets = j.targets /\ i.pos = j.pos + 1 /\ i.phase = "running"
        BY <2>2, <4>1 DEF Exec!Job
      <4>3. j.targets \in Route(req[r].ask.model) /\ j.pos \in 1..Len(j.targets)
        BY <2>2, <4>1 DEF OnRoute
      <4>4. j.pos + 1 \in 1..Len(j.targets)
        BY <4>1, <4>3, RouteNamesAll
      <4> QED
        BY <2>1, <4>2, <4>3, <4>4 DEF OnRoute
    <3>4. CASE GiveUp(r)
      <4>1. i = [j EXCEPT !.phase = "failed"] /\ Exec!MayFail(j)
        BY <1>j, <3>4 DEF GiveUp, Exec!Fail, Exec!Becomes
      <4>2. /\ i.targets = j.targets /\ i.pos = j.pos /\ i.phase = "failed"
            /\ i.gone = j.gone /\ i.sent = j.sent /\ i.final = j.final
        BY <2>2, <4>1 DEF Exec!Job
      <4>3. j.phase = "running"
            /\ (j.sent \/ j.gone \/ j.final \/ j.pos = Len(j.targets))
        BY <4>1 DEF Exec!MayFail
      <4> QED
        BY <2>1, <2>2, <4>2, <4>3 DEF OnRoute
    <3>5. CASE Call(r) \/ Disconnect(r) \/ Chunk(r) \/ LastChunk(r)
                 \/ UnarySucceeds(r) \/ StreamSucceeds(r) \/ CallFails(r)
      <4>2. /\ i.targets = j.targets /\ i.pos = j.pos
            /\ i.phase = j.phase \/ i.phase = "served"
        <5>1. CASE Call(r)
          BY <1>j, <2>2, <5>1 DEF Call, Exec!Call, Exec!Becomes, Exec!Job
        <5>2. CASE Disconnect(r)
          BY <1>j, <2>2, <5>2 DEF Disconnect, Exec!Leave, Exec!Becomes, Exec!Job
        <5>3. CASE Chunk(r) \/ LastChunk(r)
          <6>1. i = [j EXCEPT !.sent = TRUE]
            BY <1>j, <5>3 DEF Chunk, LastChunk, Exec!Deliver, Exec!Becomes
          <6> QED
            BY <2>2, <6>1 DEF Exec!Job
        <5>4. CASE UnarySucceeds(r) \/ StreamSucceeds(r)
          <6>1. i = [j EXCEPT !.live = FALSE, !.phase = "served"]
            BY <1>j, <5>4
            DEF UnarySucceeds, StreamSucceeds, Exec!Serve, Exec!Becomes
          <6> QED
            BY <2>2, <6>1 DEF Exec!Job
        <5>5. CASE CallFails(r)
          <6>1. PICK f \in BOOLEAN : i = [j EXCEPT !.live = FALSE, !.final = f]
            BY <1>j, <5>5 DEF CallFails, Exec!Fault, Exec!Becomes
          <6> QED
            BY <2>2, <6>1 DEF Exec!Job
        <5> QED
          BY <3>5, <5>1, <5>2, <5>3, <5>4, <5>5
      <4>3. j.phase = "running"
        <5>1. j.phase = "running" \/ j.live
          BY <3>5
          DEF Call, Disconnect, Chunk, LastChunk, UnarySucceeds, StreamSucceeds,
              CallFails, Exec!Call, Exec!MayCall, Exec!Leave, Exec!Deliver,
              Exec!Serve
        <5> QED
          BY <5>1 DEF Inv, JobsGood, Paired
      <4> QED
        BY <2>1, <2>2, <4>2, <4>3 DEF OnRoute
    <3> QED
      BY <1>1, <3>1, <3>2, <3>3, <3>4, <3>5 DEF Provide
  <2>4. \A q \in Requests : OnRoute(req'[q], job'[q])
    BY <2>1, <2>3 DEF AllOnRoute
  <2> QED
    BY <2>4 DEF AllOnRoute
<1>2. ASSUME NEW r \in Requests, Arrive(r) \/ Lookup(r)
      PROVE  AllOnRoute'
  <2>1. req[r].pc \notin {"exec", "done"} /\ UNCHANGED job
    BY <1>2 DEF Arrive, Lookup, GetHits, GetMisses, GetCorrupt, Evict,
                SearchHits, SearchMisses, At
  <2>2. \A q \in Requests : q # r => req'[q] = req[q]
    BY <1>2, <1>j
    DEF Arrive, Lookup, GetHits, GetMisses, GetCorrupt, Evict, SearchHits,
        SearchMisses, Becomes
  <2>3. job[r].phase = "free"
    BY <2>1 DEF AllOnRoute, OnRoute
  <2> QED
    BY <2>1, <2>2, <2>3 DEF AllOnRoute, OnRoute
<1>3. ASSUME NEW r \in Requests, StoreExact(r) \/ StoreSemantic(r)
      PROVE  AllOnRoute'
  <2>1. UNCHANGED job /\ \A q \in Requests :
                           req'[q].pc = req[q].pc /\ req'[q].ask = req[q].ask
    BY <1>3, <1>j DEF StoreExact, StoreSemantic, Handler
  <2> QED
    BY <2>1 DEF AllOnRoute, OnRoute
<1>4. CASE UNCHANGED <<job, req>>
  BY <1>4 DEF AllOnRoute, OnRoute
<1> QED
  BY <1>1, <1>2, <1>3, <1>4 DEF Next, vars, Expire, Damage, Age

LEMMA OnRouteInvariance == Spec => []AllOnRoute
<1>1. Init => AllOnRoute
  BY DEF Init, AllOnRoute, OnRoute, NewRequest, Exec!Init, Exec!Free
<1> QED
  BY <1>1, OnRouteStep, Invariance, PTL DEF Spec

(* A client that stays, and whose answer has not begun, gets an error that  *)
(* another provider might not have given only after all the targets of its  *)
(* alias: for every routing table and whatever the draws                    *)
(* (router.go:119-121).                                                     *)
THEOREM NoTargetLeftOut == Spec => []GivesUpOnlyAfterAll
<1>1. ASSUME Inv, AllOnRoute PROVE GivesUpOnlyAfterAll
  <2> SUFFICES ASSUME NEW r \in Requests, job[r].phase = "failed",
                      ~job[r].gone, ~job[r].sent, ~job[r].final
               PROVE  /\ job[r].pos = Len(job[r].targets)
                      /\ {job[r].targets[i] : i \in DOMAIN job[r].targets} =
                           TargetsOf(AliasOf(req[r].ask.model))
    BY DEF GivesUpOnlyAfterAll, TargetsOf
  <2>1. /\ job[r].targets \in Route(req[r].ask.model)
        /\ job[r].pos = Len(job[r].targets)
    BY <1>1 DEF AllOnRoute, OnRoute
  <2> QED
    BY <2>1, RouteNamesAll
<1> QED
  BY <1>1, Invariance, OnRouteInvariance, PTL

-----------------------------------------------------------------------------
(* What the client was told, what is booked and what is cached.             *)

(* Every stream is answered by adapters that know how one ends: OpenAI's    *)
(* terminator.  The run chat_truncated shows what happens without it.       *)
StreamsTerminated ==
  \A a \in Questions : a.stream =>
    \A ts \in Route(a.model) : \A i \in DOMAIN ts : Family[ts[i]] = "openai"

(* A finished completion that has a text has a length, only finished ones   *)
(* are stored, and the row of a request that is over is what it was told.   *)
Told(h, j) ==
  /\ h.whole /\ h.text => h.tokens > 0
  /\ h.store \in {"exact", "semantic"} => h.whole /\ h.tokens > 0
  /\ h.pc = "done" =>
       /\ (h.row.code = 200) <=> (h.shown = "whole")
       /\ ~h.ask.stream => h.status = h.row.code
       /\ h.row.cost > 0 => j.phase = "served"
       /\ h.row.saved > 0 => h.hit # Absent /\ h.row.saved = h.hit.tokens

Finished(e) == e.whole /\ e.tokens > 0

AllTold == \A r \in Requests : Told(req[r], job[r])

CachesFinished ==
  /\ \A k \in Keys : exact[k] \in Entry => Finished(exact[k])
  /\ \A p \in Points : points[p] \in Entry => Finished(points[p])

(* A request that is answered by a provider: it is told so and booked so.   *)
LEMMA AnsweredTold ==
  ASSUME NEW g \in Handler, g.whole, g.text => g.tokens > 0,
         NEW j, j.phase = "served"
  PROVE  Told(Answered(g), j)
<1> DEFINE h == Answered(g)
<1>1. h.whole = g.whole /\ h.text = g.text /\ h.tokens = g.tokens
  BY DEF Answered, Handler
<1>2. h.shown = "whole" /\ h.status = 200
  BY DEF Answered, Handler
<1>3. (h.store = "exact" => h.text) /\ h.store # "semantic"
  BY <1>1 DEF Answered, Handler
<1>4. h.row = [code |-> 200, cost |-> g.tokens, saved |-> 0]
  BY DEF Answered, Handler
<1> HIDE DEF h
<1>5. h.row.code = 200 /\ ~(h.row.saved > 0)
  BY <1>4
<1>6. Told(h, j)
  <2>1. h.whole /\ (h.text => h.tokens > 0)
    BY <1>1
  <2> QED
    BY <1>2, <1>3, <1>5, <2>1 DEF Told
<1> QED
  BY <1>6 DEF h

(* A failure is told and booked with the same status, at no cost.           *)
LEMMA FailureTold ==
  ASSUME NEW g \in Handler, NEW h \in Handler, NEW i, NEW j, Told(g, i),
         NEW c \in Codes \ {200},
         h.whole = g.whole, h.text = g.text, h.tokens = g.tokens,
         h.store = g.store, h.shown = "error", h.ask = g.ask,
         h.row = [NoRow EXCEPT !.code = c], ~h.ask.stream => h.status = c
  PROVE  Told(h, j)
<1>1. h.row.code = c /\ h.row.cost = 0 /\ h.row.saved = 0
  BY DEF NoRow
<1>2. c # 200
  OBVIOUS
<1> QED
  BY <1>1, <1>2 DEF Told

(* A request that goes on as it was is told no more.                        *)
LEMMA GoesOnTold ==
  ASSUME NEW g, NEW h, NEW i, NEW j, Told(g, i),
         h.whole = g.whole, h.text = g.text, h.tokens = g.tokens,
         h.store = g.store, h.pc # "done"
  PROVE  Told(h, j)
  BY DEF Told

LEMMA ProvideTold ==
  ASSUME StreamsTerminated, Inv, AllOnRoute, AllTold, NEW r \in Requests,
         Provide(r)
  PROVE  Told(req'[r], job'[r])
<1>h. /\ req \in [Requests -> Handler] /\ job \in [Requests -> Exec!Job]
      /\ req[r] \in Handler /\ Paired(req[r], job[r]) /\ Good(req[r])
      /\ OnRoute(req[r], job[r]) /\ Told(req[r], job[r])
  BY DEF Inv, HandlersGood, JobsGood, AllOnRoute, AllTold
<1>b. ASSUME NEW h, Becomes(r, h)
      PROVE  req'[r] = h
  BY <1>h, <1>b DEF Becomes
<1>1. CASE NotFound(r)
  <2> DEFINE code == 404
             row == [NoRow EXCEPT !.code = code]
             h == [req[r] EXCEPT !.pc = "done", !.status = code,
                                 !.shown = "error", !.row = row]
  <2>1. Becomes(r, h)
    BY <1>1, Zenon DEF NotFound
  <2>2. code \in Codes \ {200} /\ row \in Rows
    BY DEF Codes, Rows, NoRow, Amounts
  <2> HIDE DEF code
  <2>3. h \in Handler
    <3>1. code \in Codes /\ "done" \in Steps /\ "error" \in Shows
      BY <2>2, Names
    <3> HIDE DEF row
    <3> QED
      BY <1>h, <2>2, <3>1, HandlerUpdates, ZenonT(60)
  <2>4. /\ h.whole = req[r].whole /\ h.text = req[r].text
        /\ h.tokens = req[r].tokens /\ h.store = req[r].store
        /\ h.shown = "error" /\ h.ask = req[r].ask /\ h.row = row
        /\ h.status = code
    BY <1>h DEF Handler
  <2>5. req'[r] = h
    BY <1>b, <2>1
  <2> HIDE DEF h
  <2> QED
    BY <1>h, <2>2, <2>3, <2>4, <2>5, FailureTold
<1>2. CASE Submit(r)
  <2>1. req'[r] = [req[r] EXCEPT
          !.pc = "exec", !.status = IF req[r].ask.stream THEN 200 ELSE 0]
    BY <1>b, <1>2, Zenon DEF Submit
  <2>2. /\ req'[r].whole = req[r].whole /\ req'[r].text = req[r].text
        /\ req'[r].tokens = req[r].tokens /\ req'[r].store = req[r].store
        /\ req'[r].pc = "exec"
    BY <1>h, <2>1 DEF Handler
  <2> QED
    BY <1>h, <2>2, GoesOnTold
<1>3. CASE Call(r) \/ Disconnect(r)
  <2>1. req'[r] = req[r] /\ req[r].pc = "exec"
    BY <1>h, <1>3 DEF Call, Exec!Call, Exec!MayCall, Disconnect, Exec!Leave,
                      Paired
  <2> QED
    BY <1>h, <2>1, GoesOnTold
<1>4. CASE Advance(r) \/ CallFails(r)
  <2>1. \E errs : Becomes(r, [req[r] EXCEPT !.errs = errs])
    <3>1. CASE Advance(r)
      BY <3>1, Zenon DEF Advance
    <3>2. CASE CallFails(r)
      BY <3>2, Zenon DEF CallFails
    <3> QED
      BY <1>4, <3>1, <3>2
  <2>2. PICK errs : req'[r] = [req[r] EXCEPT !.errs = errs]
    BY <1>b, <2>1
  <2>3. req[r].pc = "exec"
    BY <1>h, <1>4 DEF Advance, CallFails, Exec!Advance, Exec!MayCall, Paired
  <2>4. /\ req'[r].whole = req[r].whole /\ req'[r].text = req[r].text
        /\ req'[r].tokens = req[r].tokens /\ req'[r].store = req[r].store
        /\ req'[r].pc = "exec"
    BY <1>h, <2>2, <2>3 DEF Handler
  <2> QED
    BY <1>h, <2>4, GoesOnTold
<1>5. CASE Chunk(r)
  <2>1. PICK text \in BOOLEAN :
          Becomes(r, [req[r] EXCEPT !.text = @ \/ text, !.shown = "part"])
    BY <1>5, Zenon DEF Chunk
  <2>2. req'[r] = [req[r] EXCEPT !.text = @ \/ text, !.shown = "part"]
    BY <1>b, <2>1
  <2>3. ~req[r].whole /\ req[r].pc = "exec"
    BY <1>5 DEF Chunk, At
  <2>4. /\ req'[r].whole = req[r].whole /\ req'[r].pc = "exec"
        /\ req'[r].store = req[r].store
    BY <1>h, <2>2, <2>3 DEF Handler
  <2> QED
    BY <1>h, <2>3, <2>4 DEF Told
<1>6. CASE LastChunk(r)
  <2>1. PICK n \in Length(req[r].ask, req[r].text) :
          Becomes(r, [req[r] EXCEPT
            !.text = n > 0, !.tokens = n, !.whole = TRUE, !.shown = "part"])
    BY <1>6, Zenon DEF LastChunk
  <2>2. req'[r] = [req[r] EXCEPT
            !.text = n > 0, !.tokens = n, !.whole = TRUE, !.shown = "part"]
    BY <1>b, <2>1
  <2>3. ~req[r].whole /\ req[r].pc = "exec"
    BY <1>6 DEF LastChunk, At
  <2>4. /\ req'[r].text = (n > 0) /\ req'[r].tokens = n
        /\ req'[r].pc = "exec" /\ req'[r].store = req[r].store
    BY <1>h, <2>2, <2>3 DEF Handler
  <2> QED
    BY <1>h, <2>3, <2>4 DEF Told
<1>7. CASE UnarySucceeds(r) \/ StreamSucceeds(r)
  <2>1. \E g \in Handler : /\ Becomes(r, Answered(g))
                           /\ g.whole /\ (g.text => g.tokens > 0)
    <3>1. CASE UnarySucceeds(r)
      <4>1. PICK n \in Length(req[r].ask, FALSE) :
              Becomes(r, Answered([req[r] EXCEPT
                !.text = n > 0, !.tokens = n, !.whole = TRUE]))
        BY <3>1, Zenon DEF UnarySucceeds
      <4> DEFINE g == [req[r] EXCEPT !.text = n > 0, !.tokens = n, !.whole = TRUE]
      <4>2. (n > 0) \in BOOLEAN /\ TRUE \in BOOLEAN /\ n \in Amounts
        <5>1. n \in Amounts
          BY LengthFits, Zenon
        <5>2. (n > 0) \in BOOLEAN
          OBVIOUS
        <5> QED
          BY <5>1, <5>2, Zenon
      <4>3. g \in Handler
        BY <1>h, <4>2, HandlerUpdates, ZenonT(60)
      <4>4. g.whole = TRUE /\ g.text = (n > 0) /\ g.tokens = n
        BY <1>h DEF Handler
      <4> WITNESS g \in Handler
      <4> HIDE DEF g
      <4> QED
        BY <4>1, <4>4 DEF g
    <3>2. CASE StreamSucceeds(r)
      <4>1. job[r].phase = "running" /\ req[r].ask \in Questions
        BY <1>h, <3>2 DEF StreamSucceeds, At, Paired, Good
      <4>2. /\ job[r].targets \in Route(req[r].ask.model)
            /\ job[r].pos \in DOMAIN job[r].targets
        BY <1>h, <4>1, RouteNamesAll DEF OnRoute
      <4>3. FamilyOf(r) = "openai"
        BY <3>2, <4>1, <4>2 DEF StreamsTerminated, StreamSucceeds, FamilyOf
      <4>4. req[r].whole
        BY <3>2, <4>3 DEF StreamSucceeds, EndOfBody
      <4>5. Becomes(r, Answered(req[r]))
        BY <3>2 DEF StreamSucceeds
      <4> QED
        BY <1>h, <4>4, <4>5 DEF Told
    <3> QED
      BY <1>7, <3>1, <3>2
  <2>2. PICK g \in Handler : /\ req'[r] = Answered(g)
                             /\ g.whole /\ (g.text => g.tokens > 0)
    BY <1>b, <2>1
  <2>3. job'[r].phase = "served"
    BY <1>h, <1>7 DEF UnarySucceeds, StreamSucceeds, Exec!Serve, Exec!Becomes,
                      Exec!Job
  <2> QED
    BY <2>2, <2>3, AnsweredTold
<1>8. CASE GiveUp(r)
  <2>1. PICK k \in Returned(r) :
          Becomes(r, [req[r] EXCEPT
            !.pc = "done", !.errs = {}, !.shown = "error",
            !.status = IF req[r].ask.stream THEN @ ELSE HTTPStatus(k),
            !.row = [NoRow EXCEPT !.code = HTTPStatus(k)]])
    BY <1>8, Zenon DEF GiveUp
  <2> DEFINE c == HTTPStatus(k)
             st == IF req[r].ask.stream THEN req[r].status ELSE c
             row == [NoRow EXCEPT !.code = c]
             none == {}
             h == [req[r] EXCEPT !.pc = "done", !.errs = none,
                     !.shown = "error", !.status = st, !.row = row]
  <2>2. Becomes(r, h)
    BY <2>1, Zenon
  <2>3. c \in Codes \ {200} /\ st \in Codes
    BY <1>h, FailureStatus DEF Handler
  <2>4. row \in Rows /\ none \in SUBSET Errors
    BY <2>3 DEF Rows, NoRow, Amounts
  <2>s. ~req[r].ask.stream => st = c
    OBVIOUS
  <2> HIDE DEF c, st, row, none
  <2>5. h \in Handler
    <3> "done" \in Steps /\ "error" \in Shows
      BY Names
    <3> QED
      BY <1>h, <2>3, <2>4, HandlerUpdates, ZenonT(60)
  <2>6. /\ h.whole = req[r].whole /\ h.text = req[r].text
        /\ h.tokens = req[r].tokens /\ h.store = req[r].store
        /\ h.shown = "error" /\ h.ask = req[r].ask /\ h.row = row
        /\ h.status = st
    BY <1>h DEF Handler
  <2>7. req'[r] = h
    BY <1>b, <2>2
  <2> HIDE DEF h
  <2>8. h.row = [NoRow EXCEPT !.code = c]
    BY <2>6 DEF row
  <2> QED
    BY <1>h, <2>3, <2>s, <2>5, <2>6, <2>7, <2>8, FailureTold
<1> QED
  BY <1>1, <1>2, <1>3, <1>4, <1>5, <1>6, <1>7, <1>8 DEF Provide

(* A hit is told whole, and its length is booked as saved.                  *)
LEMMA HitTold ==
  ASSUME NEW g \in Handler, NEW e \in Entry, NEW l, NEW i, NEW j, Told(g, i)
  PROVE  Told(FromCache(g, e, l), j)
<1> DEFINE h == FromCache(g, e, l)
<1>1. /\ h.whole = g.whole /\ h.text = g.text /\ h.tokens = g.tokens
      /\ h.store = g.store /\ h.shown = "whole" /\ h.status = 200 /\ h.hit = e
      /\ h.row.code = 200 /\ h.row.cost = 0 /\ h.row.saved = e.tokens
  BY DEF FromCache, Handler
<1>2. e # Absent
  BY NotEntries
<1> HIDE DEF h
<1>3. Told(h, j)
  BY <1>1, <1>2 DEF Told
<1> QED
  BY <1>3 DEF h

LEMMA LookupTold ==
  ASSUME Inv, AllTold, NEW r \in Requests, Arrive(r) \/ Lookup(r)
  PROVE  Told(req'[r], job'[r])
<1>h. /\ req \in [Requests -> Handler] /\ req[r] \in Handler
      /\ Told(req[r], job[r]) /\ Good(req[r])
  BY DEF Inv, HandlersGood, AllTold
<1>b. ASSUME NEW h, Becomes(r, h)
      PROVE  req'[r] = h
  BY <1>h, <1>b DEF Becomes
<1>1. CASE GetHits(r)
  <2>1. req'[r] = FromCache(req[r], exact[ExactKey(req[r].ask)], "exact_hit")
    BY <1>b, <1>1 DEF GetHits
  <2> QED
    BY <1>h, <1>1, <2>1, HitTold DEF GetHits
<1>2. CASE SearchHits(r)
  <2>1. PICK p \in Points :
          /\ points[p] # Absent
          /\ Becomes(r, FromCache(req[r], points[p], "semantic_hit"))
    BY <1>2 DEF SearchHits, Nearest
  <2>2. points[p] \in Entry
    BY <2>1 DEF Inv, PointsGood
  <2> QED
    BY <1>h, <1>b, <2>1, <2>2, HitTold
<1>3. CASE GetMisses(r) \/ GetCorrupt(r) \/ Evict(r) \/ SearchMisses(r)
  <2>1. \/ req'[r] = [req[r] EXCEPT !.pc = "search"]
        \/ req'[r] = [req[r] EXCEPT !.pc = "evict"]
        \/ req'[r] = [req[r] EXCEPT !.pc = "route", !.lookup = "miss"]
    BY <1>b, <1>3 DEF GetMisses, GetCorrupt, Evict, SearchMisses
  <2>2. /\ req'[r].whole = req[r].whole /\ req'[r].text = req[r].text
        /\ req'[r].tokens = req[r].tokens /\ req'[r].store = req[r].store
        /\ req'[r].pc # "done"
    BY <1>h, <2>1 DEF Handler
  <2> QED
    BY <1>h, <2>2, GoesOnTold
<1>4. CASE Arrive(r)
  <2>1. PICK a \in Questions :
          Becomes(r, [req[r] EXCEPT
            !.ask = a,
            !.pc = IF Cacheable(a) THEN "get" ELSE "route",
            !.lookup = IF Cacheable(a) THEN @ ELSE "bypass"])
    BY <1>4, Zenon DEF Arrive
  <2>2. req'[r] = [req[r] EXCEPT
            !.ask = a,
            !.pc = IF Cacheable(a) THEN "get" ELSE "route",
            !.lookup = IF Cacheable(a) THEN @ ELSE "bypass"]
    BY <1>b, <2>1
  <2>3. /\ req'[r].whole = req[r].whole /\ req'[r].text = req[r].text
        /\ req'[r].tokens = req[r].tokens /\ req'[r].store = req[r].store
        /\ req'[r].pc # "done"
    BY <1>h, <2>2 DEF Handler
  <2> QED
    BY <1>h, <2>3, GoesOnTold
<1> QED
  BY <1>1, <1>2, <1>3, <1>4 DEF Lookup

(* The detached store writes a finished completion, or nothing.             *)
LEMMA StoreTold ==
  ASSUME Inv, AllTold, CachesFinished, NEW r \in Requests,
         StoreExact(r) \/ StoreSemantic(r)
  PROVE  AllTold' /\ CachesFinished'
<1>h. /\ req \in [Requests -> Handler] /\ req[r] \in Handler
      /\ Told(req[r], job[r])
  BY DEF Inv, HandlersGood, AllTold
<1>1. req[r].store \in {"exact", "semantic"} /\ UNCHANGED job
  BY DEF StoreExact, StoreSemantic
<1>2. AllTold'
  <2>1. ASSUME NEW q \in Requests
        PROVE  /\ req'[q].whole = req[q].whole /\ req'[q].text = req[q].text
               /\ req'[q].tokens = req[q].tokens /\ req'[q].pc = req[q].pc
               /\ req'[q].row = req[q].row /\ req'[q].shown = req[q].shown
               /\ req'[q].status = req[q].status /\ req'[q].ask = req[q].ask
               /\ req'[q].hit = req[q].hit
               /\ \/ q = r /\ req'[q].store \in {"semantic", "done"}
                  \/ req'[q].store = req[q].store
    BY <1>h DEF StoreExact, StoreSemantic, Handler
  <2>2. \A q \in Requests : Told(req[q], job[q])
    BY DEF AllTold
  <2>3. ASSUME NEW q \in Requests
        PROVE  Told(req'[q], job'[q])
    BY <1>1, <2>1, <2>2 DEF Told
  <2> QED
    BY <2>3 DEF AllTold
<1> DEFINE e == Completion(r)
<1>3. Finished(e)
  BY <1>h, <1>1 DEF Told, Completion, Finished
<1> HIDE DEF e
<1>4. UNCHANGED exact \/ exact' = [exact EXCEPT ![ExactKey(req[r].ask)] = e]
  BY DEF StoreExact, StoreSemantic, e
<1>5. UNCHANGED points \/ points' = [points EXCEPT ![PointID(req[r].ask)] = e]
  BY DEF StoreExact, StoreSemantic, e
<1>6. CachesFinished'
  BY <1>3, <1>4, <1>5 DEF CachesFinished, Inv, ExactGood, PointsGood
<1> QED
  BY <1>2, <1>6

LEMMA ToldStep ==
  ASSUME StreamsTerminated, Inv, AllOnRoute, AllTold, CachesFinished,
         [Next]_vars
  PROVE  AllTold' /\ CachesFinished'
<1>t. \A q \in Requests : Told(req[q], job[q])
  BY DEF AllTold
<1>e. UNCHANGED <<exact, points>> => CachesFinished'
  BY DEF CachesFinished
<1>1. ASSUME NEW r \in Requests, Provide(r)
      PROVE  AllTold' /\ CachesFinished'
  <2>1. \A q \in Requests : q # r => req'[q] = req[q] /\ job'[q] = job[q]
    BY <1>1, ProvideKeepsAsk
  <2>2. Told(req'[r], job'[r])
    BY <1>1, ProvideTold
  <2>3. UNCHANGED <<exact, points>>
    BY <1>1
    DEF Provide, NotFound, Submit, Call, Advance, Disconnect, Chunk, LastChunk,
        UnarySucceeds, StreamSucceeds, CallFails, GiveUp
  <2>4. \A q \in Requests : Told(req'[q], job'[q])
    BY <1>t, <2>1, <2>2
  <2> QED
    BY <1>e, <2>3, <2>4 DEF AllTold
<1>2. ASSUME NEW r \in Requests, Arrive(r) \/ Lookup(r)
      PROVE  AllTold' /\ CachesFinished'
  <2>1. /\ UNCHANGED <<job, points>>
        /\ \A q \in Requests : q # r => req'[q] = req[q]
    BY <1>2 DEF Arrive, Lookup, GetHits, GetMisses, GetCorrupt, Evict,
                SearchHits, SearchMisses, Becomes, Inv, HandlersGood
  <2>2. Told(req'[r], job'[r])
    BY <1>2, LookupTold
  <2>3. \A q \in Requests : Told(req'[q], job'[q])
    BY <1>t, <2>1, <2>2
  <2>4. UNCHANGED exact \/ exact' = [exact EXCEPT ![ExactKey(req[r].ask)] = Absent]
    BY <1>2 DEF Arrive, Lookup, GetHits, GetMisses, GetCorrupt, Evict,
                SearchHits, SearchMisses
  <2>5. CachesFinished'
    BY <2>1, <2>4, NotEntries DEF CachesFinished, Inv, ExactGood
  <2> QED
    BY <2>3, <2>5 DEF AllTold
<1>3. ASSUME NEW r \in Requests, StoreExact(r) \/ StoreSemantic(r)
      PROVE  AllTold' /\ CachesFinished'
  BY <1>3, StoreTold
<1>4. CASE UNCHANGED vars
  BY <1>4, <1>t, <1>e DEF vars, AllTold
<1>5. CASE \E k \in Keys : Expire(k) \/ Damage(k)
  <2>1. PICK k \in Keys : \/ exact' = [exact EXCEPT ![k] = Absent]
                          \/ exact' = [exact EXCEPT ![k] = Corrupt]
    BY <1>5 DEF Expire, Damage
  <2>2. UNCHANGED <<points, job, req>>
    BY <1>5 DEF Expire, Damage
  <2>3. CachesFinished'
    BY <2>1, <2>2, NotEntries DEF CachesFinished, Inv, ExactGood
  <2> QED
    BY <1>t, <2>2, <2>3 DEF AllTold
<1>6. CASE \E p \in Points : Age(p)
  <2>1. PICK p \in Points : Age(p)
    BY <1>6
  <2>2. UNCHANGED <<exact, job, req>> /\ points[p] \in Entry
    BY <2>1 DEF Age, Inv, PointsGood
  <2> DEFINE e == [points[p] EXCEPT !.stale = TRUE]
  <2>3. points' = [points EXCEPT ![p] = e]
    BY <2>1 DEF Age
  <2>4. Finished(e)
    BY <2>2 DEF CachesFinished, Finished, Entry
  <2> HIDE DEF e
  <2>5. CachesFinished'
    BY <2>2, <2>3, <2>4 DEF CachesFinished, Inv, PointsGood
  <2> QED
    BY <1>t, <2>2, <2>5 DEF AllTold
<1> QED
  BY <1>1, <1>2, <1>3, <1>4, <1>5, <1>6 DEF Next

LEMMA ToldInvariance ==
  ASSUME StreamsTerminated
  PROVE  Spec => [](AllTold /\ CachesFinished)
<1>1. Init => AllTold /\ CachesFinished
  BY NotEntries
  DEF Init, AllTold, Told, CachesFinished, NewRequest
<1>2. Inv /\ AllOnRoute /\ (AllTold /\ CachesFinished) /\ [Next]_vars
        => (AllTold /\ CachesFinished)'
  BY ToldStep
<1> QED
  BY <1>1, <1>2, Invariance, OnRouteInvariance, PTL DEF Spec

(* Only completions that their provider had finished, and that have a text, *)
(* are cached: neither a stream that broke off (chat.go:264-277) nor an     *)
(* empty answer, where the streams that clients ask for end with OpenAI's   *)
(* terminator.                                                              *)
THEOREM CacheHoldsFinished ==
  ASSUME StreamsTerminated
  PROVE  Spec => []OnlyFinishedCached
<1>1. ASSUME Inv, AllTold, CachesFinished PROVE OnlyFinishedCached
  <2>1. \A k \in Keys : exact[k] \notin {Absent, Corrupt} => Finished(exact[k])
    BY <1>1 DEF Inv, ExactGood, CachesFinished
  <2>2. \A p \in Points : points[p] # Absent => Finished(points[p])
    BY <1>1 DEF Inv, PointsGood, CachesFinished
  <2>3. \A r \in Requests : req[r].store \in {"exact", "semantic"} =>
          Finished(Completion(r))
    BY <1>1 DEF AllTold, Told, Completion, Finished
  <2> QED
    BY <2>1, <2>2, <2>3 DEF OnlyFinishedCached, Cached, Finished
<1> QED
  BY <1>1, Invariance, ToldInvariance, PTL

(* The row says what happened: a request is booked with status 200 exactly  *)
(* if its client was shown a complete answer, and tokens are charged for a  *)
(* provider's answer and saved by a hit (meterSuccess, meterCacheHit,       *)
(* meterFailure), where streams end with OpenAI's terminator.               *)
THEOREM RowsSayWhatHappened ==
  ASSUME StreamsTerminated
  PROVE  Spec => []BookedAsAnswered
<1>1. AllTold => BookedAsAnswered
  BY DEF AllTold, Told, BookedAsAnswered
<1> QED
  BY <1>1, ToldInvariance, PTL
=============================================================================
