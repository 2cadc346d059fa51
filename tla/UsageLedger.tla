----------------------------- MODULE UsageLedger -----------------------------
(***************************************************************************)
(* What metering promises for the usage row of each request, whatever the  *)
(* buffer, the batches and the shutdown do: a row is taken at most once,   *)
(* settled at most once, and never changes again; once the ledger is shut  *)
(* no row is left held and none is taken any more.                         *)
(***************************************************************************)
CONSTANT Requests

VARIABLES
  fate,  \* request -> what became of its usage row
  shut   \* the ledger has been closed

vars == <<fate, shut>>

Fates == {"owed", "held", "booked", "lost"}

Init ==
  /\ fate = [r \in Requests |-> "owed"]
  /\ shut = FALSE

Hold(r) ==
  /\ ~shut /\ fate[r] = "owed"
  /\ fate' = [fate EXCEPT ![r] = "held"]
  /\ UNCHANGED shut

Discard(r) ==
  /\ fate[r] = "owed"
  /\ fate' = [fate EXCEPT ![r] = "lost"]
  /\ UNCHANGED shut

\* Of the rows in S, those in B are booked in one step, the others lost.
Settle(S, B) ==
  /\ ~shut
  /\ \A r \in S : fate[r] = "held"
  /\ fate' = [r \in Requests |-> IF r \in B THEN "booked"
                                 ELSE IF r \in S THEN "lost" ELSE fate[r]]
  /\ UNCHANGED shut

Shut ==
  /\ \A r \in Requests : fate[r] # "held"
  /\ shut' = TRUE
  /\ UNCHANGED fate

Next ==
  \/ \E r \in Requests : Hold(r) \/ Discard(r)
  \/ \E S \in SUBSET Requests : \E B \in SUBSET S : Settle(S, B)
  \/ Shut

Spec == Init /\ [][Next]_vars
=============================================================================
