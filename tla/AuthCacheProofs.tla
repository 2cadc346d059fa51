--------------------------- MODULE AuthCacheProofs ---------------------------
(***************************************************************************)
(* How long an answer of the authentication cache outlives its truth, for  *)
(* any number of overlapping requests, any lifetime of the entries and any *)
(* delay between an answer of the key table and its insertion.             *)
(***************************************************************************)
EXTENDS AuthCache, TLAPS

(* The key got its status in the past.                                      *)
StatusDated ==
  /\ key = "valid" => changed["valid"] \in 0..now
  /\ key = "revoked" => changed["revoked"] \in 0..now

(* An answer in hand is at most Delay old, and was true when it was given:   *)
(* before the key got a status that contradicts it.                          *)
AnswersWereTrue ==
  \A h \in Handlers :
    lookup[h].pc = "answered" =>
      /\ lookup[h].outcome \in {"accepted", "rejected"}
      /\ lookup[h].asOf \in 0..now
      /\ now <= lookup[h].asOf + Delay
      /\ lookup[h].outcome = "accepted" =>
           /\ key # "unknown"
           /\ key = "revoked" => lookup[h].asOf <= changed["revoked"]
      /\ lookup[h].outcome = "rejected" =>
           (key = "valid" => lookup[h].asOf <= changed["valid"])

(* An entry that contradicts the key expires within TTL + Delay of the       *)
(* change, because the answer it holds was inserted within Delay of it.      *)
EntriesExpire ==
  /\ entry.outcome # "absent" => entry.expires <= now + TTL
  /\ entry.outcome = "accepted" =>
       /\ key # "unknown"
       /\ key = "revoked" => entry.expires <= changed["revoked"] + TTL + Delay
  /\ entry.outcome = "rejected" =>
       (key = "valid" => entry.expires <= changed["valid"] + TTL + Delay)

AuthInv ==
  /\ TypeOK /\ StatusDated /\ AnswersWereTrue /\ EntriesExpire
  /\ RevokedKeyExpires /\ IssuedKeyWorks

\* Nothing is cached or known at the start.
LEMMA AuthInit == Init => AuthInv
  <1> SUFFICES ASSUME Init PROVE AuthInv
    OBVIOUS
  <1>1. TypeOK
    BY AuthCacheAssumption
    DEF Init, TypeOK, Statuses, Outcomes, Entry, NoEntry, Lookup, Ready, Never
  <1>2. AnswersWereTrue
    BY DEF Init, AnswersWereTrue, Ready
  <1>3. StatusDated /\ EntriesExpire /\ RevokedKeyExpires /\ IssuedKeyWorks
    BY DEF Init, StatusDated, EntriesExpire, NoEntry, RevokedKeyExpires,
           IssuedKeyWorks
  <1>4. QED
    BY <1>1, <1>2, <1>3 DEF AuthInv

\* Steps that neither move the clock nor touch the key table, the entry or an
\* answer in hand, and tell the client neither outcome of the table.
LEMMA QuietStep ==
  ASSUME AuthInv, TypeOK', UNCHANGED <<now, key, changed, entry>>,
         told' \in {"none", "unavailable"},
         \A h \in Handlers :
           lookup'[h].pc = "answered" => lookup'[h] = lookup[h]
  PROVE  AuthInv'
  <1>1. AnswersWereTrue'
    BY DEF AuthInv, AnswersWereTrue
  <1>2. /\ StatusDated' /\ EntriesExpire'
        /\ RevokedKeyExpires' /\ IssuedKeyWorks'
    BY DEF AuthInv, StatusDated, EntriesExpire, RevokedKeyExpires,
           IssuedKeyWorks
  <1>3. QED
    BY <1>1, <1>2 DEF AuthInv

\* The operator's steps: what was true until now is still recent.
LEMMA OperatorStep ==
  AuthInv /\ (CreateKey \/ RevokeKey \/ Invalidate) => AuthInv'
  <1> SUFFICES ASSUME AuthInv, CreateKey \/ RevokeKey \/ Invalidate
               PROVE  AuthInv'
    OBVIOUS
  <1>0. /\ now \in Nat /\ TTL \in Nat /\ Delay \in Nat
        /\ changed \in [Statuses -> Int] /\ entry \in Entry
        /\ lookup \in [Handlers -> Lookup]
    BY AuthCacheAssumption DEF AuthInv, TypeOK
  <1>1. TypeOK'
    BY <1>0
    DEF AuthInv, TypeOK, CreateKey, RevokeKey, Invalidate, SetKey, Statuses,
        Outcomes, Entry, NoEntry
  <1>2. CASE CreateKey
    <2>1. /\ key = "unknown" /\ key' = "valid" /\ changed'["valid"] = now
          /\ UNCHANGED <<now, entry, lookup>> /\ told' = "none"
      BY <1>0, <1>2 DEF CreateKey, SetKey, Statuses
    <2>2. StatusDated'
      BY <1>0, <2>1 DEF StatusDated
    <2>3. AnswersWereTrue'
      BY <1>0, <2>1 DEF AuthInv, AnswersWereTrue
    <2>4. EntriesExpire'
      BY <1>0, <2>1 DEF AuthInv, EntriesExpire, Entry
    <2>5. RevokedKeyExpires' /\ IssuedKeyWorks'
      BY <2>1 DEF RevokedKeyExpires, IssuedKeyWorks
    <2>6. QED
      BY <1>1, <2>2, <2>3, <2>4, <2>5 DEF AuthInv
  <1>3. CASE RevokeKey
    <2>1. /\ key = "valid" /\ key' = "revoked" /\ changed'["revoked"] = now
          /\ UNCHANGED <<now, entry, lookup>> /\ told' = "none"
      BY <1>0, <1>3 DEF RevokeKey, SetKey, Statuses
    <2>2. StatusDated'
      BY <1>0, <2>1 DEF StatusDated
    <2>3. AnswersWereTrue'
      BY <1>0, <2>1 DEF AuthInv, AnswersWereTrue
    <2>4. EntriesExpire'
      BY <1>0, <2>1 DEF AuthInv, EntriesExpire, Entry
    <2>5. RevokedKeyExpires' /\ IssuedKeyWorks'
      BY <2>1 DEF RevokedKeyExpires, IssuedKeyWorks
    <2>6. QED
      BY <1>1, <2>2, <2>3, <2>4, <2>5 DEF AuthInv
  <1>4. CASE Invalidate
    <2>1. entry'.outcome = "absent" /\ UNCHANGED <<now, key, changed, lookup, told>>
      BY <1>4 DEF Invalidate, NoEntry
    <2>2. AnswersWereTrue'
      BY <2>1 DEF AuthInv, AnswersWereTrue
    <2>3. /\ StatusDated' /\ EntriesExpire'
          /\ RevokedKeyExpires' /\ IssuedKeyWorks'
      BY <2>1 DEF AuthInv, StatusDated, EntriesExpire, RevokedKeyExpires,
                  IssuedKeyWorks
    <2>4. QED
      BY <1>1, <2>2, <2>3 DEF AuthInv
  <1>5. QED
    BY <1>2, <1>3, <1>4

\* The steps of Authenticate.
LEMMA HandlerStep ==
  ASSUME AuthInv, NEW h \in Handlers,
         Hit(h) \/ Miss(h) \/ Query(h) \/ QueryFails(h) \/ Insert(h)
  PROVE  AuthInv'
  <1>0. /\ TypeOK /\ now \in Nat /\ TTL \in Nat \ {0} /\ Delay \in Nat
        /\ changed \in [Statuses -> Int] /\ entry \in Entry
        /\ entry.expires \in Nat
        /\ lookup \in [Handlers -> Lookup]
        /\ key \in Statuses
    BY AuthCacheAssumption DEF AuthInv, TypeOK, Entry
  <1>1. CASE Hit(h)
    <2>1. /\ entry.outcome # "absent" /\ now < entry.expires
          /\ told' = entry.outcome
          /\ UNCHANGED <<now, key, changed, entry, lookup>>
      BY <1>1 DEF Hit, Fresh
    <2>2. TypeOK'
      BY <1>0, <2>1 DEF TypeOK, Entry, Outcomes
    <2>3. StatusDated' /\ AnswersWereTrue' /\ EntriesExpire'
      BY <2>1 DEF AuthInv, StatusDated, AnswersWereTrue, EntriesExpire
    <2>4. RevokedKeyExpires'
      <3>1. /\ key = "revoked" /\ entry.outcome = "accepted" =>
                 now - changed["revoked"] < TTL + Delay
            /\ entry.outcome = "accepted" => key \in {"valid", "revoked"}
        BY <1>0, <2>1 DEF AuthInv, EntriesExpire, StatusDated, Statuses
      <3>2. QED
        BY <2>1, <3>1 DEF RevokedKeyExpires
    <2>5. IssuedKeyWorks'
      BY <1>0, <2>1 DEF AuthInv, EntriesExpire, StatusDated, IssuedKeyWorks
    <2>6. QED
      BY <2>2, <2>3, <2>4, <2>5 DEF AuthInv
  <1>2. CASE Miss(h) \/ QueryFails(h)
    <2>1. /\ UNCHANGED <<now, key, changed, entry>>
          /\ told' \in {"none", "unavailable"}
          /\ lookup' = [lookup EXCEPT ![h] = lookup'[h]]
          /\ lookup'[h].pc \in {"missed", "idle"}
          /\ lookup'[h] \in Lookup
      BY <1>0, <1>2 DEF Miss, QueryFails, Ready, Lookup, Outcomes, Never
    <2>2. TypeOK'
      BY <1>0, <2>1 DEF TypeOK, Outcomes
    <2>3. \A g \in Handlers :
            lookup'[g].pc = "answered" => lookup'[g] = lookup[g]
      BY <1>0, <2>1
    <2>4. QED
      BY <2>1, <2>2, <2>3, QuietStep
  <1>3. CASE Query(h)
    <2> DEFINE answer == [pc |-> "answered", asOf |-> now,
                          outcome |-> IF key = "valid" THEN "accepted"
                                                       ELSE "rejected"]
    <2>1. /\ UNCHANGED <<now, key, changed, entry>> /\ told' = "none"
          /\ lookup' = [lookup EXCEPT ![h] = answer]
      BY <1>3 DEF Query
    <2>2. TypeOK'
      BY <1>0, <2>1 DEF TypeOK, Outcomes, Lookup
    <2>3. AnswersWereTrue'
      <3> SUFFICES ASSUME NEW g \in Handlers, lookup'[g].pc = "answered"
                   PROVE  /\ lookup'[g].outcome \in {"accepted", "rejected"}
                          /\ lookup'[g].asOf \in 0..now'
                          /\ now' <= lookup'[g].asOf + Delay
                          /\ lookup'[g].outcome = "accepted" =>
                               /\ key' # "unknown"
                               /\ key' = "revoked" =>
                                    lookup'[g].asOf <= changed'["revoked"]
                          /\ lookup'[g].outcome = "rejected" =>
                               (key' = "valid" =>
                                  lookup'[g].asOf <= changed'["valid"])
        BY DEF AnswersWereTrue
      <3>1. CASE g = h
        <4>1. lookup'[g] = answer
          BY <1>0, <2>1, <3>1
        <4>2. QED
          BY <1>0, <2>1, <4>1
      <3>2. CASE g # h
        <4>1. lookup'[g] = lookup[g]
          BY <1>0, <2>1, <3>2
        <4>2. QED
          BY <2>1, <4>1 DEF AuthInv, AnswersWereTrue
      <3>3. QED
        BY <3>1, <3>2
    <2>4. /\ StatusDated' /\ EntriesExpire'
          /\ RevokedKeyExpires' /\ IssuedKeyWorks'
      BY <2>1 DEF AuthInv, StatusDated, EntriesExpire, RevokedKeyExpires,
                  IssuedKeyWorks
    <2>5. QED
      BY <2>2, <2>3, <2>4 DEF AuthInv
  <1>4. CASE Insert(h)
    <2>1. /\ lookup[h].pc = "answered"
          /\ entry' = [outcome |-> lookup[h].outcome, expires |-> now + TTL]
          /\ lookup' = [lookup EXCEPT ![h] = Ready]
          /\ told' = lookup[h].outcome
          /\ UNCHANGED <<now, key, changed>>
      BY <1>4 DEF Insert
    <2>2. /\ lookup[h].outcome \in {"accepted", "rejected"}
          /\ lookup[h].asOf \in 0..now
          /\ now <= lookup[h].asOf + Delay
          /\ lookup[h].outcome = "accepted" =>
               /\ key # "unknown"
               /\ key = "revoked" => lookup[h].asOf <= changed["revoked"]
          /\ lookup[h].outcome = "rejected" =>
               (key = "valid" => lookup[h].asOf <= changed["valid"])
      BY <2>1 DEF AuthInv, AnswersWereTrue
    <2>3. TypeOK'
      BY <1>0, <2>1, <2>2 DEF TypeOK, Outcomes, Entry, Lookup, Ready, Never
    <2>4. AnswersWereTrue'
      <3>1. \A g \in Handlers :
              lookup'[g].pc = "answered" => lookup'[g] = lookup[g]
        BY <1>0, <2>1 DEF Ready
      <3>2. QED
        BY <2>1, <3>1 DEF AuthInv, AnswersWereTrue
    <2>5. /\ changed["valid"] \in Int /\ changed["revoked"] \in Int
          /\ entry'.outcome = lookup[h].outcome /\ entry'.expires = now + TTL
          /\ lookup[h].asOf \in Int
      BY <1>0, <2>1, <2>2 DEF Statuses
    <2>6. EntriesExpire'
      BY <1>0, <2>1, <2>2, <2>5 DEF EntriesExpire
    <2>7. StatusDated'
      BY <2>1 DEF AuthInv, StatusDated
    <2>8. RevokedKeyExpires' /\ IssuedKeyWorks'
      BY <1>0, <2>1, <2>2, <2>5
      DEF RevokedKeyExpires, IssuedKeyWorks, Statuses
    <2>9. QED
      BY <2>3, <2>4, <2>6, <2>7, <2>8 DEF AuthInv
  <1>5. QED
    BY <1>1, <1>2, <1>3, <1>4

\* Time passes only while every answer in hand may still wait.
LEMMA TickStep == AuthInv /\ Tick => AuthInv'
  <1> SUFFICES ASSUME AuthInv, Tick PROVE AuthInv'
    OBVIOUS
  <1>1. /\ now' = now + 1 /\ now < MaxTime /\ told' = "none"
        /\ UNCHANGED <<key, changed, entry, lookup>>
        /\ \A h \in Handlers :
             lookup[h].pc = "answered" => now < lookup[h].asOf + Delay
    BY DEF Tick
  <1>2. /\ TypeOK /\ now \in Nat /\ MaxTime \in Nat /\ TTL \in Nat
        /\ Delay \in Nat /\ now' \in 0..MaxTime /\ entry.expires \in Nat
    BY <1>1, AuthCacheAssumption DEF AuthInv, TypeOK, Entry
  <1>3. TypeOK'
    BY <1>1, <1>2 DEF TypeOK
  <1>4. AnswersWereTrue'
    BY <1>1, <1>2 DEF AuthInv, AnswersWereTrue
  <1>5. StatusDated' /\ EntriesExpire'
    BY <1>1, <1>2 DEF AuthInv, StatusDated, EntriesExpire
  <1>6. RevokedKeyExpires' /\ IssuedKeyWorks'
    BY <1>1 DEF RevokedKeyExpires, IssuedKeyWorks
  <1>7. QED
    BY <1>3, <1>4, <1>5, <1>6 DEF AuthInv

LEMMA AuthStep == AuthInv /\ [Next]_vars => AuthInv'
  <1> SUFFICES ASSUME AuthInv, [Next]_vars PROVE AuthInv'
    OBVIOUS
  <1>1. CASE UNCHANGED vars
    BY <1>1
    DEF AuthInv, TypeOK, StatusDated, AnswersWereTrue, EntriesExpire,
        RevokedKeyExpires, IssuedKeyWorks, vars
  <1>2. CASE Next
    BY <1>2, OperatorStep, HandlerStep, TickStep DEF Next
  <1>3. QED
    BY <1>1, <1>2

(* Every variable stays in its type; an outage is never an entry            *)
(* (auth.go:119-126).                                                       *)
THEOREM AuthTypeCorrect == Spec => []TypeOK
  <1>1. AuthInv => TypeOK
    BY DEF AuthInv
  <1>2. QED
    BY <1>1, AuthInit, AuthStep, PTL DEF Spec

(* A revoked key is refused once TTL and the delay of an answer have passed, *)
(* however many stale answers overwrite newer ones (auth.go:104-127).        *)
THEOREM RevocationTakesEffect == Spec => []RevokedKeyExpires
  <1>1. AuthInv => RevokedKeyExpires
    BY DEF AuthInv
  <1>2. QED
    BY <1>1, AuthInit, AuthStep, PTL DEF Spec

(* A key is accepted once the same time has passed since it was issued,      *)
(* unless the key table is unreachable (auth.go:104-127).                    *)
THEOREM IssueTakesEffect == Spec => []IssuedKeyWorks
  <1>1. AuthInv => IssuedKeyWorks
    BY DEF AuthInv
  <1>2. QED
    BY <1>1, AuthInit, AuthStep, PTL DEF Spec
=============================================================================
