----------------------------- MODULE Embeddings -----------------------------
(***************************************************************************)
(* The embeddings endpoint (handleEmbeddings, internal/api/server.go): one *)
(* call per target of the alias, without breaker, retries or metering.     *)
(*                                                                         *)
(* Unlike the executor, the loop does not look at the client's context: it *)
(* goes on to the next target with a context that is already cancelled.    *)
(***************************************************************************)
EXTENDS ProviderErrors, Sequences

CONSTANTS
  Clients,        \* the embeddings requests
  TargetLists,    \* the lists Route may return, as provider sequences
  NoEmbeddings,   \* the providers whose adapter has no embeddings call
  UpstreamErrors  \* the kinds the others may fail with

VARIABLE emb  \* request -> the state of its handler

vars == <<emb>>

(* ready: about to call the current target.  failed: the call has returned  *)
(* an error.                                                                *)
Steps == {"new", "ready", "calling", "failed", "answered"}

Failures == Errors \cup {"unsupported"}

\* What the client is told: vectors, a fault, or that its request is not one.
Answers == {"none", "vectors", "refused"} \cup Failures

State == [pc : Steps, targets : TargetLists \cup {<<>>}, idx : Nat,
          last : Failures \cup {"none"}, gone : BOOLEAN, answer : Answers]

New == [pc |-> "new", targets |-> <<>>, idx |-> 0, last |-> "none",
        gone |-> FALSE, answer |-> "none"]

Init == emb = [c \in Clients |-> New]

Becomes(c, s) == emb' = [emb EXCEPT ![c] = s]

Target(c) == emb[c].targets[emb[c].idx]

\* A body that does not decode, no model, no input, or an unknown model.
Refuse(c) ==
  /\ emb[c].pc = "new"
  /\ Becomes(c, [emb[c] EXCEPT !.pc = "answered", !.answer = "refused"])

Submit(c) ==
  /\ emb[c].pc = "new"
  /\ \E ts \in TargetLists :
       Becomes(c, [emb[c] EXCEPT !.pc = "ready", !.targets = ts, !.idx = 1])

Call(c) ==
  /\ emb[c].pc = "ready"
  /\ Becomes(c, [emb[c] EXCEPT !.pc = "calling"])

CallSucceeds(c) ==
  /\ emb[c].pc = "calling"
  /\ Target(c) \notin NoEmbeddings
  /\ Becomes(c, [emb[c] EXCEPT !.pc = "answered", !.answer = "vectors"])

(* A cancelled context shows as an internal error, or, while the body is    *)
(* read, as an outage of the provider.                                      *)
FaultsOf(c) ==
  IF Target(c) \in NoEmbeddings THEN {"unsupported"}
  ELSE UpstreamErrors \cup {"timeout"}
         \cup IF emb[c].gone THEN {"internal", "unavailable"} ELSE {}

CallFails(c) ==
  /\ emb[c].pc = "calling"
  /\ \E k \in FaultsOf(c) :
       Becomes(c, [emb[c] EXCEPT !.pc = "failed", !.last = k])

\* mutant: only an outage is worth another target, or none at all.
EndsAtUnsupported(k) == ~Failoverable(k) \/ k = "unsupported"

\* mutant: any error is worth another target.
NeverEnds(k) == FALSE

\* The error is the same everywhere: the other targets are not tried.
EndsLoop(k) == k # "unsupported" /\ ~Failoverable(k)

\* mutant: one target too many is tried.
TryPastTheEnd(c) ==
  /\ emb[c].pc = "failed" /\ ~EndsLoop(emb[c].last)
  /\ emb[c].idx <= Len(emb[c].targets)
  /\ Becomes(c, [emb[c] EXCEPT !.pc = "ready", !.idx = @ + 1])

TryNext(c) ==
  /\ emb[c].pc = "failed" /\ ~EndsLoop(emb[c].last)
  /\ emb[c].idx < Len(emb[c].targets)
  /\ Becomes(c, [emb[c] EXCEPT !.pc = "ready", !.idx = @ + 1])

\* The last error is the answer, whatever came before it.
GiveUp(c) ==
  /\ emb[c].pc = "failed"
  /\ EndsLoop(emb[c].last) \/ emb[c].idx = Len(emb[c].targets)
  /\ Becomes(c, [emb[c] EXCEPT !.pc = "answered", !.answer = emb[c].last])

\* The client leaves, or the context of the whole process is cancelled.
Leave(c) ==
  /\ emb[c].pc \in {"ready", "calling", "failed"}
  /\ Becomes(c, [emb[c] EXCEPT !.gone = TRUE])

Proceed(c) ==
  \/ Refuse(c) \/ Submit(c) \/ Call(c) \/ CallSucceeds(c) \/ CallFails(c)
  \/ TryNext(c) \/ GiveUp(c)

Next == \E c \in Clients : Proceed(c) \/ Leave(c)

Spec == Init /\ [][Next]_vars

-----------------------------------------------------------------------------
TypeOK ==
  /\ emb \in [Clients -> State]
  /\ \A c \in Clients :
       emb[c].targets # <<>> => emb[c].idx \in 1..Len(emb[c].targets)

\* The run of c as the executor's contract sees it.
JobOf(s) ==
  [phase   |-> CASE s.targets = <<>> -> "free"
                 [] s.targets # <<>> /\ s.pc # "answered" -> "running"
                 [] OTHER -> IF s.answer = "vectors" THEN "served" ELSE "failed",
   targets |-> s.targets,
   pos     |-> s.idx,
   tries   |-> IF s.pc \in {"new", "ready"} \/ s.targets = <<>> THEN 0 ELSE 1,
   live    |-> s.pc = "calling",
   sent    |-> FALSE,
   gone    |-> s.gone,
   final   |-> s.last # "none" /\ ~Failoverable(s.last)]

Contract == INSTANCE Failover
              WITH Requests <- Clients, MaxAttempts <- 1,
                   job <- [c \in Clients |-> JobOf(emb[c])]

(* "An embeddings alias can fail over exactly like a chat alias"            *)
(* (server.go:183-184): the loop keeps the executor's promise, with one     *)
(* attempt per target.  No target is passed over or tried twice, none is    *)
(* called after an error that is the same everywhere, and the client is     *)
(* only failed for such an error or after the last target.                  *)
FailsOverLikeChat == Contract!Spec
=============================================================================
