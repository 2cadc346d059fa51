-------------------------------- MODULE Meter --------------------------------
(***************************************************************************)
(* The usage meter (internal/meter): every request handler records one row   *)
(* without blocking, a writer goroutine batches rows into the ledger         *)
(* table, and Close drains what is buffered when the gateway shuts down.     *)
(*                                                                           *)
(* The process tears the meter down after Server.Shutdown returns, which     *)
(* may be its timeout: handlers still run while Close does.  When that is,   *)
(* and which handlers record, is left open here; Server settles it.          *)
(***************************************************************************)
EXTENDS Integers, Sequences, FiniteSets

CONSTANTS
  Requests,    \* the requests to meter, one handler each
  RequestID,   \* request -> its id, which a client may choose (X-Request-Id)
  BufferSize,  \* capacity of the channel
  BatchSize,   \* rows per INSERT
  SinkFails    \* whether an INSERT may fail

ASSUME MeterAssumption ==
  /\ IsFiniteSet(Requests)
  /\ BufferSize \in Nat \ {0}
  /\ BatchSize \in Nat \ {0}
  /\ SinkFails \in BOOLEAN

VARIABLES
  row,      \* request -> how far its handler is with Record
  closer,   \* the goroutine that closes the meter
  closing,  \* the atomic flag
  ch,       \* the channel's contents
  chClosed, \* close(ch) has happened
  writer,   \* the writer goroutine
  buf,      \* the rows it has received and not written yet
  ledger,   \* the requests whose row is in usage_log
  stats     \* the meter's counters

vars == <<row, closer, closing, ch, chClosed, writer, buf, ledger, stats>>

(* serving: Record not called yet.  checked: closing was read as false.      *)
(* sent: the row is in the channel.  enqueued: and counted.  dropped: the    *)
(* buffer was full.  late: closing was read as true.  panicked: the send     *)
(* hit a closed channel.                                                     *)
RowStates ==
  {"serving", "checked", "sent", "enqueued", "dropped", "late", "panicked"}

Counters == [enqueued : Nat, dropped : Nat, written : Nat, failed : Nat]

Init ==
  /\ row = [r \in Requests |-> "serving"]
  /\ closer = "open"
  /\ closing = FALSE
  /\ ch = <<>> /\ chClosed = FALSE
  /\ writer = "receiving" /\ buf = <<>>
  /\ ledger = {}
  /\ stats = [enqueued |-> 0, dropped |-> 0, written |-> 0, failed |-> 0]

-----------------------------------------------------------------------------
(* Record, in the handler of r. *)

SetRow(r, s) == row' = [row EXCEPT ![r] = s]

\* closing.Load().
Check(r) ==
  /\ row[r] = "serving"
  /\ SetRow(r, IF closing THEN "late" ELSE "checked")
  /\ UNCHANGED <<closer, closing, ch, chClosed, writer, buf, ledger, stats>>

\* mutant: the send waits for room in the buffer.
SendOnly(r) ==
  /\ row[r] = "checked" /\ ~chClosed /\ Len(ch) < BufferSize
  /\ ch' = Append(ch, r)
  /\ SetRow(r, "sent")
  /\ UNCHANGED <<closer, closing, chClosed, writer, buf, ledger, stats>>

\* mutant: a full buffer drops the row without counting it.
SendOrForget(r) ==
  /\ row[r] = "checked"
  /\ \/ /\ chClosed
        /\ SetRow(r, "panicked")
        /\ UNCHANGED ch
     \/ /\ ~chClosed /\ Len(ch) < BufferSize
        /\ ch' = Append(ch, r)
        /\ SetRow(r, "sent")
     \/ /\ ~chClosed /\ Len(ch) = BufferSize
        /\ SetRow(r, "dropped")
        /\ UNCHANGED ch
  /\ UNCHANGED <<closer, closing, chClosed, writer, buf, ledger, stats>>

\* The select: send if there is room, drop if there is not; sending on a
\* closed channel panics, default case or not.
Send(r) ==
  /\ row[r] = "checked"
  /\ \/ /\ chClosed
        /\ SetRow(r, "panicked")
        /\ UNCHANGED <<ch, stats>>
     \/ /\ ~chClosed /\ Len(ch) < BufferSize
        /\ ch' = Append(ch, r)
        /\ SetRow(r, "sent")
        /\ UNCHANGED stats
     \/ /\ ~chClosed /\ Len(ch) = BufferSize
        /\ SetRow(r, "dropped")
        /\ stats' = [stats EXCEPT !.dropped = @ + 1]
        /\ UNCHANGED ch
  /\ UNCHANGED <<closer, closing, chClosed, writer, buf, ledger>>

Count(r) ==
  /\ row[r] = "sent"
  /\ SetRow(r, "enqueued")
  /\ stats' = [stats EXCEPT !.enqueued = @ + 1]
  /\ UNCHANGED <<closer, closing, ch, chClosed, writer, buf, ledger>>

Handler(r) == Check(r) \/ Send(r) \/ Count(r)

-----------------------------------------------------------------------------
(* The writer goroutine. *)

\* mutant: one row too many in a batch.
ReceiveOneMore ==
  /\ writer = "receiving" /\ ch # <<>>
  /\ buf' = Append(buf, Head(ch))
  /\ ch' = Tail(ch)
  /\ writer' = IF Len(buf) >= BatchSize THEN "writing" ELSE writer
  /\ UNCHANGED <<row, closer, closing, chClosed, ledger, stats>>

\* A row is received; a full batch is written.
Receive ==
  /\ writer = "receiving" /\ ch # <<>>
  /\ buf' = Append(buf, Head(ch))
  /\ ch' = Tail(ch)
  /\ writer' = IF Len(buf) + 1 >= BatchSize THEN "writing" ELSE writer
  /\ UNCHANGED <<row, closer, closing, chClosed, ledger, stats>>

\* mutant: a batch is only written when it is full.
FlushFull ==
  /\ writer = "receiving" /\ Len(buf) >= BatchSize
  /\ writer' = "writing"
  /\ UNCHANGED <<row, closer, closing, ch, chClosed, buf, ledger, stats>>

\* The ticker fires with rows waiting.
Flush ==
  /\ writer = "receiving" /\ buf # <<>>
  /\ writer' = "writing"
  /\ UNCHANGED <<row, closer, closing, ch, chClosed, buf, ledger, stats>>

\* The channel is closed and empty: the last batch is written.
Drain ==
  /\ writer = "receiving" /\ chClosed /\ ch = <<>>
  /\ writer' = IF buf = <<>> THEN "exited" ELSE "draining"
  /\ UNCHANGED <<row, closer, closing, ch, chClosed, buf, ledger, stats>>

\* INSERT ... ON CONFLICT (request_id) DO NOTHING: the first row with an id
\* is the one that stays.
Inserted(rows) ==
  ledger \cup
    {rows[i] : i \in {k \in DOMAIN rows :
       /\ \A r \in ledger : RequestID[r] # RequestID[rows[k]]
       /\ \A j \in 1..(k - 1) : RequestID[rows[j]] # RequestID[rows[k]]}}

\* writeBatch returns: the batch is given up, written or not.
Written(counted) ==
  /\ writer \in {"writing", "draining"}
  /\ stats' = [stats EXCEPT ![counted] = @ + Len(buf)]
  /\ buf' = <<>>
  /\ writer' = IF writer = "draining" THEN "exited" ELSE "receiving"
  /\ UNCHANGED <<row, closer, closing, ch, chClosed>>

\* mutant: the batch slice is not reset after a write.
KeepsBatch ==
  /\ writer \in {"writing", "draining"}
  /\ stats' = [stats EXCEPT !.written = @ + Len(buf)]
  /\ ledger' = Inserted(buf)
  /\ writer' = IF writer = "draining" THEN "exited" ELSE "receiving"
  /\ UNCHANGED <<row, closer, closing, ch, chClosed, buf>>

WriteSucceeds == Written("written") /\ ledger' = Inserted(buf)

\* mutant: the rows of a failed batch count as written.
FailsAsWritten == SinkFails /\ Written("written") /\ UNCHANGED ledger

\* mutant: a failed batch is kept, to be written with the next one.
KeepsFailedBatch ==
  /\ SinkFails /\ writer \in {"writing", "draining"}
  /\ writer' = "receiving"
  /\ ledger' \in {ledger, Inserted(buf)}
  /\ UNCHANGED <<row, closer, closing, ch, chClosed, buf, stats>>

\* An error says nothing about the statement: it may have been committed
\* before the connection or the ten seconds ran out.
WriteFails ==
  /\ SinkFails
  /\ Written("failed")
  /\ ledger' \in {ledger, Inserted(buf)}

Writer == Receive \/ Flush \/ Drain \/ WriteSucceeds \/ WriteFails

-----------------------------------------------------------------------------
(* Close. *)

\* closing.CompareAndSwap(false, true).
BeginClose ==
  /\ closer = "open"
  /\ closer' = "swapped"
  /\ closing' = TRUE
  /\ UNCHANGED <<row, ch, chClosed, writer, buf, ledger, stats>>

\* mutant: the writer is waited for, but the channel stays open.
LeaveChannelOpen ==
  /\ closer = "swapped"
  /\ closer' = "waiting"
  /\ UNCHANGED <<row, closing, ch, chClosed, writer, buf, ledger, stats>>

CloseChannel ==
  /\ closer = "swapped"
  /\ closer' = "waiting"
  /\ chClosed' = TRUE
  /\ UNCHANGED <<row, closing, ch, writer, buf, ledger, stats>>

\* mutant: the sink is closed without waiting for the writer.
FinishWithoutWaiting ==
  /\ closer = "waiting"
  /\ closer' = "closed"
  /\ UNCHANGED <<row, closing, ch, chClosed, writer, buf, ledger, stats>>

\* wg.Wait() returns; the sink, and then the database pool, are closed.
FinishClose ==
  /\ closer = "waiting" /\ writer = "exited"
  /\ closer' = "closed"
  /\ UNCHANGED <<row, closing, ch, chClosed, writer, buf, ledger, stats>>

Closer == BeginClose \/ CloseChannel \/ FinishClose

Next ==
  \/ \E r \in Requests : Handler(r)
  \/ Writer
  \/ Closer

Spec == Init /\ [][Next]_vars

-----------------------------------------------------------------------------
\* The rows in the process's memory.
InFlight == {ch[i] : i \in DOMAIN ch} \cup {buf[i] : i \in DOMAIN buf}

\* What became of the row of r.
FateOf(r) ==
  CASE r \in ledger                     -> "booked"
    [] r \in InFlight                   -> "held"
    [] row[r] \in {"serving", "checked"} -> "owed"
    [] OTHER                            -> "lost"

Contract == INSTANCE UsageLedger WITH fate <- [r \in Requests |-> FateOf(r)],
                                      shut <- closer = "closed"

(* The meter implements UsageLedger: a row is settled once, whatever the     *)
(* batches it goes through, and "Close stops accepting records and flushes   *)
(* what remains" (meter.go:185): no row is left in memory when the pool is   *)
(* closed, although handlers still record while the channel is closed.       *)
LedgerContract == Contract!Spec

TypeOK ==
  /\ row \in [Requests -> RowStates]
  /\ closer \in {"open", "swapped", "waiting", "closed"}
  /\ closing \in BOOLEAN /\ chClosed \in BOOLEAN
  /\ ch \in Seq(Requests) /\ Len(ch) <= BufferSize
  /\ writer \in {"receiving", "writing", "draining", "exited"}
  /\ buf \in Seq(Requests) /\ Len(buf) <= BatchSize
  /\ ledger \subseteq Requests
  /\ stats \in Counters

In(s) == {r \in Requests : row[r] = s}

(* Every row that was sent is waiting in the channel, in the open batch, or  *)
(* was counted exactly once as written or failed: the counters a scrape sees *)
(* never lose or repeat a row across flushes, full batches and the final     *)
(* drain (meter.go:116-126, 139-183).                                        *)
RowsAccounted ==
  /\ Cardinality(In("sent")) + stats.enqueued
       = Len(ch) + Len(buf) + stats.written + stats.failed
  /\ Cardinality(In("enqueued")) = stats.enqueued
  /\ Cardinality(In("dropped")) = stats.dropped

\* A row with the id of r is in the ledger.
InLedger(r) == \E q \in ledger : RequestID[q] = RequestID[r]

(* "Drops are counted so the gap is visible rather than silent"              *)
(* (meter.go:107-108): but for records that come while the meter is being    *)
(* closed, a row that is lost is in a counter, unless the table refused it   *)
(* because it has a row with its id (postgres.go:63).                        *)
LossesCounted ==
  Cardinality({r \in Requests : /\ FateOf(r) = "lost" /\ ~InLedger(r)
                                /\ row[r] \notin {"late", "panicked"}})
    <= stats.dropped + stats.failed

(* "Written is records successfully persisted" (meter.go:49): of every row   *)
(* that is counted as written the table has the id.  That row need not be    *)
(* this one: where clients choose one id twice, it is the first.             *)
WrittenArePersisted ==
  stats.written <=
    Cardinality({r \in Requests : /\ row[r] \in {"sent", "enqueued"}
                                  /\ r \notin InFlight /\ InLedger(r)})

(* "Close stops accepting records and flushes what remains" (meter.go:185):  *)
(* once the channel is closed every step of the writer, whether its writes   *)
(* succeed or fail, brings it nearer to its end, and no record that comes    *)
(* late takes it away again: Close waits for a bounded number of steps.      *)
WorkLeft ==
  3 * Len(ch) + CASE writer = "receiving" -> IF buf = <<>> THEN 1 ELSE 3
                  [] writer = "writing"   -> 2
                  [] writer = "draining"  -> 1
                  [] writer = "exited"    -> 0

DrainAdvances ==
  [][chClosed => \/ WorkLeft' \in 0..(WorkLeft - 1)
                 \/ UNCHANGED <<ch, writer, buf>>]_vars

(* "It never blocks" (meter.go:103): a handler inside Record can always go   *)
(* on, even while a write hangs, the buffer is full or the meter is closing. *)
RecordNeverWaits ==
  \A r \in Requests :
    row[r] \in {"serving", "checked", "sent"} => ENABLED Handler(r)

(* "Time-based flush bounds how long a low-traffic gateway's rows sit        *)
(* unwritten" (meter.go:153-155): rows do not stay in memory for ever,       *)
(* although their batch never fills.                                         *)
RowsSettled == InFlight # {} ~> InFlight = {}

(* "asserts a late record does not panic on a closed channel"                *)
(* (meter_test.go:114-115).                                                  *)
LateRecordDoesNotPanic == \A r \in Requests : row[r] # "panicked"
=============================================================================
