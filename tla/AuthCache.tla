------------------------------ MODULE AuthCache ------------------------------
(***************************************************************************)
(* Authentication of one API key (internal/api/auth.go): concurrent        *)
(* requests resolve it through a cache in the gateway's memory, in front   *)
(* of the key table, while an operator issues and revokes it (glmctl).     *)
(*                                                                         *)
(* The cache's lock is released between the lookup and the insertion, so   *)
(* that the answer of the key table may be stored any time after it was    *)
(* true.                                                                   *)
(***************************************************************************)
EXTENDS Integers

CONSTANTS
  Handlers,  \* concurrent requests that carry the key
  TTL,       \* lifetime of a cache entry
  Delay,     \* from the key table's answer to its insertion, at most
  MaxTime    \* bound: the clock stops here

ASSUME AuthCacheAssumption ==
  TTL \in Nat \ {0} /\ Delay \in Nat /\ MaxTime \in Nat

VARIABLES
  now,         \* the gateway's clock
  key,         \* the key in the key table
  changed,     \* history: status -> when the key got it, or never
  entry,       \* the cache entry of the key
  lookup,      \* handler -> its progress with Authenticate
  told         \* history: the last answer given to a client

vars == <<now, key, changed, entry, lookup, told>>

Never == -1

\* An unknown key is answered like a revoked one: no row.
Statuses == {"unknown", "valid", "revoked"}

\* What Authenticate returns: a tenant, ErrUnauthorized, or another error.
Outcomes == {"accepted", "rejected", "unavailable"}

Entry == [outcome : {"absent", "accepted", "rejected"}, expires : Nat]

NoEntry == [outcome |-> "absent", expires |-> 0]

(* idle: no request.  missed: the lookup found nothing usable.  answered:   *)
(* the key table's answer is in hand, as of the instant asOf.               *)
Lookup == [pc : {"idle", "missed", "answered"},
           outcome : Outcomes \cup {"none"},
           asOf : Int]

Ready == [pc |-> "idle", outcome |-> "none", asOf |-> Never]

Init ==
  /\ now = 0
  /\ key = "unknown"
  /\ changed = [s \in Statuses |-> Never]
  /\ entry = NoEntry
  /\ lookup = [h \in Handlers |-> Ready]
  /\ told = "none"

-----------------------------------------------------------------------------
(* The operator. *)

SetKey(s) == key' = s /\ changed' = [changed EXCEPT ![s] = now]

CreateKey ==
  /\ key = "unknown"
  /\ SetKey("valid")
  /\ told' = "none"
  /\ UNCHANGED <<now, entry, lookup>>

RevokeKey ==
  /\ key = "valid"
  /\ SetKey("revoked")
  /\ told' = "none"
  /\ UNCHANGED <<now, entry, lookup>>

\* Whoever revokes the key drops its cache entry.  Nothing in the gateway
\* does: revocation is left to the TTL.
Invalidate ==
  /\ key = "revoked"
  /\ entry' = NoEntry
  /\ UNCHANGED <<now, key, changed, lookup, told>>

-----------------------------------------------------------------------------
(* Authenticate, in the handler h. *)

Fresh == entry.outcome # "absent" /\ now < entry.expires

\* mutant: a tenant's entry is renewed whenever it is used.
HitRenews(h) ==
  /\ lookup[h].pc = "idle" /\ Fresh
  /\ told' = entry.outcome
  /\ entry' = IF entry.outcome = "accepted"
              THEN [entry EXCEPT !.expires = now + TTL] ELSE entry
  /\ UNCHANGED <<now, key, changed, lookup>>

Hit(h) ==
  /\ lookup[h].pc = "idle" /\ Fresh
  /\ told' = entry.outcome
  /\ UNCHANGED <<now, key, changed, entry, lookup>>

Miss(h) ==
  /\ lookup[h].pc = "idle" /\ ~Fresh
  /\ lookup' = [lookup EXCEPT ![h].pc = "missed"]
  /\ told' = "none"
  /\ UNCHANGED <<now, key, changed, entry>>

\* The SELECT sees the key as it is at one instant.
Query(h) ==
  /\ lookup[h].pc = "missed"
  /\ lookup' = [lookup EXCEPT ![h] =
       [pc |-> "answered", asOf |-> now,
        outcome |-> IF key = "valid" THEN "accepted" ELSE "rejected"]]
  /\ told' = "none"
  /\ UNCHANGED <<now, key, changed, entry>>

\* mutant: an outage of the key table is cached as a rejection.
OutageCached(h) ==
  /\ lookup[h].pc = "missed"
  /\ lookup' = [lookup EXCEPT ![h] = Ready]
  /\ entry' = [outcome |-> "rejected", expires |-> now + TTL]
  /\ told' = "unavailable"
  /\ UNCHANGED <<now, key, changed>>

\* mutant: every outcome is cached.
OutageKept(h) ==
  /\ lookup[h].pc = "missed"
  /\ lookup' = [lookup EXCEPT ![h] = Ready]
  /\ entry' = [outcome |-> "unavailable", expires |-> now + TTL]
  /\ told' = "unavailable"
  /\ UNCHANGED <<now, key, changed>>

\* The key table is unreachable: 503, and nothing is cached.
QueryFails(h) ==
  /\ lookup[h].pc = "missed"
  /\ lookup' = [lookup EXCEPT ![h] = Ready]
  /\ told' = "unavailable"
  /\ UNCHANGED <<now, key, changed, entry>>

\* Either answer is cached, over whatever is there.
Insert(h) ==
  /\ lookup[h].pc = "answered"
  /\ entry' = [outcome |-> lookup[h].outcome, expires |-> now + TTL]
  /\ lookup' = [lookup EXCEPT ![h] = Ready]
  /\ told' = lookup[h].outcome
  /\ UNCHANGED <<now, key, changed>>

Tick ==
  /\ now < MaxTime
  /\ \A h \in Handlers :
       lookup[h].pc = "answered" => now < lookup[h].asOf + Delay
  /\ now' = now + 1
  /\ told' = "none"
  /\ UNCHANGED <<key, changed, entry, lookup>>

Next ==
  \/ CreateKey \/ RevokeKey \/ Invalidate
  \/ \E h \in Handlers :
       Hit(h) \/ Miss(h) \/ Query(h) \/ QueryFails(h) \/ Insert(h)
  \/ Tick

Spec == Init /\ [][Next]_vars

-----------------------------------------------------------------------------
TypeOK ==
  /\ now \in 0..MaxTime
  /\ key \in Statuses
  /\ changed \in [Statuses -> Int]
  /\ entry \in Entry
  /\ lookup \in [Handlers -> Lookup]
  /\ told \in Outcomes \cup {"none"}

(* "The TTL bounds how long a revoked key keeps working" (auth.go:117-118):  *)
(* with the time an answer takes to reach the cache added, whatever stale    *)
(* answers overwrite newer ones.  A key never issued does not work at all.   *)
RevokedKeyExpires ==
  told = "accepted" =>
    \/ key = "valid"
    \/ key = "revoked" /\ now - changed["revoked"] < TTL + Delay

(* "and how long a newly issued key is rejected" (auth.go:117-118), an       *)
(* outage of the key table included: it never reads as a rejected            *)
(* credential, not even for the requests that follow it.                     *)
IssuedKeyWorks ==
  told = "rejected" /\ key = "valid" => now - changed["valid"] < TTL + Delay
=============================================================================
