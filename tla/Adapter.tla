------------------------------- MODULE Adapter -------------------------------
(***************************************************************************)
(* What the provider adapters (internal/provider/openai.go, gemini.go)     *)
(* report of one upstream call: the kind of error each way of failing      *)
(* becomes, and how the end of a stream is read.  Groq speaks the OpenAI   *)
(* protocol and is of its family.                                          *)
(***************************************************************************)
EXTENDS ProviderErrors

Families == {"openai", "gemini"}

(* A reply other than 200: its status, and what the error body adds to it   *)
(* (OpenAI's error code or type, Google's canonical status), or "none".     *)
Causes == {"none", "context_length_exceeded", "content_filter",
           "insufficient_quota", "invalid_request_error",
           "RESOURCE_EXHAUSTED", "UNAUTHENTICATED", "PERMISSION_DENIED",
           "UNAVAILABLE", "INTERNAL", "DEADLINE_EXCEEDED", "INVALID_ARGUMENT",
           "INVALID_TOKENS"}  \* INVALID_ARGUMENT that speaks of tokens

Reply == [status : 201..599, cause : Causes]

ClassifyStatus(s) ==
  CASE s \in {401, 403} -> "auth"
    [] s \in {408, 504} -> "timeout"
    [] s = 429          -> "rate_limit"
    [] s >= 500 /\ s # 504 -> "unavailable"
    [] s \in 400..499 \ {401, 403, 408, 429} -> "invalid_request"
    [] OTHER            -> "internal"

\* The causes errorFromResponse knows, and the kinds they decide.
KindOfCause(family) ==
  IF family = "openai"
  THEN [context_length_exceeded |-> "context_length",
        content_filter          |-> "content_filter",
        insufficient_quota      |-> "unavailable"]
  ELSE [RESOURCE_EXHAUSTED |-> "rate_limit",
        UNAUTHENTICATED    |-> "auth",
        PERMISSION_DENIED  |-> "auth",
        UNAVAILABLE        |-> "unavailable",
        INTERNAL           |-> "unavailable",
        DEADLINE_EXCEEDED  |-> "timeout",
        INVALID_TOKENS     |-> "context_length",
        INVALID_ARGUMENT   |-> "invalid_request"]

\* mutant: an exhausted quota is a kind of its own, that nobody knows.
ReplyKindOfQuota(family, reply) ==
  IF family = "openai" /\ reply.cause = "insufficient_quota"
  THEN "quota" ELSE ClassifyStatus(reply.status)

ReplyKind(family, reply) ==
  LET kind == ClassifyStatus(reply.status)
  IN  IF reply.cause \in DOMAIN KindOfCause(family)
      THEN KindOfCause(family)[reply.cause]
      ELSE IF family = "openai" /\ reply.cause = "invalid_request_error"
              /\ kind = "internal"
           THEN "invalid_request" ELSE kind

(* No reply, or a body that breaks off: what transportError may answer.     *)
(* OpenAI's looks at the error, Gemini's only at the context; a deadline is *)
(* set for unary calls alone (withTimeout).                                 *)
TransportKinds(family, gone, stream) ==
  IF gone /\ family = "gemini" THEN {"internal"}
  ELSE {"unavailable"} \cup (IF gone THEN {"internal"} ELSE {})
                       \cup (IF stream THEN {} ELSE {"timeout"})

\* A 200 that cannot be decoded, for whatever reason, or has no choices.
UndecodableKind == "unavailable"

\* Gemini refuses a prompt with a 200.
BlockedKinds(family) == IF family = "gemini" THEN {"content_filter"} ELSE {}

\* The body of a stream ends without OpenAI's [DONE]: "none" is success.
EndOfBody(family) == IF family = "openai" THEN "unavailable" ELSE "none"

\* The status the gateway answers a failure with.
HTTPStatus(k) ==
  CASE k \in {"invalid_request", "context_length", "content_filter"} -> 400
    [] k \in {"auth", "unavailable"} -> 502
    [] k = "rate_limit"              -> 429
    [] k = "timeout"                 -> 504
    [] OTHER                         -> 500
=============================================================================
