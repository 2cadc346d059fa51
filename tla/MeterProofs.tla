----------------------------- MODULE MeterProofs -----------------------------
(***************************************************************************)
(* The meter's type invariant and its bookkeeping, for any number of         *)
(* requests, buffer size and batch size.                                     *)
(***************************************************************************)
EXTENDS Meter, FiniteSetTheorems, TLAPS

(* A batch being filled has room: the writer leaves the receive loop when    *)
(* the batch is full.                                                        *)
RoomInBatch == writer = "receiving" => Len(buf) < BatchSize

MeterInv == TypeOK /\ RoomInBatch /\ RowsAccounted

\* The requests in a state are finitely many.
LEMMA InFinite ==
  ASSUME NEW s
  PROVE  IsFiniteSet(In(s)) /\ Cardinality(In(s)) \in Nat
  <1>1. In(s) \subseteq Requests
    BY DEF In
  <1>2. QED
    BY <1>1, MeterAssumption, FS_Subset, FS_CardinalityType

(* The equation of RowsAccounted when the batch is written.                  *)
LEMMA Balance ==
  ASSUME NEW a \in Nat, NEW b \in Nat, NEW c \in Nat, NEW d \in Nat,
         NEW e \in Nat, NEW f \in Nat, a + b = c + d + e + f
  PROVE  /\ a + b = c + 0 + (e + d) + f
         /\ a + b = c + 0 + e + (f + d)
  OBVIOUS

\* Moving one request from state t to state s moves one unit between the
\* numbers of requests in them.
LEMMA Moves ==
  ASSUME row \in [Requests -> RowStates], NEW r \in Requests,
         NEW CONSTANT t, NEW CONSTANT s, s \in RowStates, t # s,
         row[r] = t, SetRow(r, s)
  PROVE  /\ row' \in [Requests -> RowStates]
         /\ Cardinality(In(s))' = Cardinality(In(s)) + 1
         /\ Cardinality(In(t))' = Cardinality(In(t)) - 1
         /\ \A u : u # s /\ u # t => Cardinality(In(u))' = Cardinality(In(u))
  <1>1. row' \in [Requests -> RowStates]
    BY DEF SetRow
  <1>2. Cardinality(In(s))' = Cardinality(In(s)) + 1
    <2>1. In(s)' = In(s) \cup {r} /\ r \notin In(s)
      BY DEF In, SetRow
    <2>2. QED
      BY <2>1, InFinite, FS_AddElement
  <1>3. Cardinality(In(t))' = Cardinality(In(t)) - 1
    <2>1. In(t)' = In(t) \ {r} /\ r \in In(t)
      BY DEF In, SetRow
    <2>2. QED
      BY <2>1, InFinite, FS_RemoveElement
  <1>4. ASSUME NEW CONSTANT u, u # s, u # t
        PROVE  Cardinality(In(u))' = Cardinality(In(u))
    <2>1. In(u)' = In(u)
      BY <1>4 DEF In, SetRow
    <2>2. QED
      BY <2>1
  <1>5. QED
    BY <1>1, <1>2, <1>3, <1>4

\* Initially nothing is recorded.
LEMMA MeterInit == Init => MeterInv
  <1> SUFFICES ASSUME Init PROVE MeterInv
    OBVIOUS
  <1>1. \A s : s # "serving" => In(s) = {}
    BY DEF Init, In
  <1>2. /\ Cardinality(In("sent")) = 0 /\ Cardinality(In("enqueued")) = 0
        /\ Cardinality(In("dropped")) = 0
    BY <1>1, FS_EmptySet
  <1>3. TypeOK
    <2>1. /\ row \in [Requests -> RowStates]
          /\ stats \in Counters
      BY DEF Init, RowStates, Counters
    <2>2. ch \in Seq(Requests) /\ buf \in Seq(Requests)
          /\ Len(ch) = 0 /\ Len(buf) = 0
      BY DEF Init
    <2>3. Len(ch) <= BufferSize /\ Len(buf) <= BatchSize
      BY <2>2, MeterAssumption
    <2>4. /\ closer = "open" /\ closing = FALSE /\ chClosed = FALSE
          /\ writer = "receiving" /\ ledger = {}
      BY DEF Init
    <2>5. QED
      BY <2>1, <2>2, <2>3, <2>4 DEF TypeOK
  <1>4. QED
    BY <1>2, <1>3, MeterAssumption DEF Init, MeterInv, RoomInBatch, RowsAccounted

\* Every step of a handler, the writer or the closer keeps the invariant.
LEMMA MeterStep == MeterInv /\ [Next]_vars => MeterInv'
  <1> SUFFICES ASSUME MeterInv, [Next]_vars PROVE MeterInv'
    OBVIOUS
  <1> USE DEF MeterInv
  <1>0. /\ TypeOK /\ RoomInBatch
        /\ stats \in Counters
        /\ ch \in Seq(Requests) /\ buf \in Seq(Requests)
    BY DEF TypeOK
  <1>n. /\ RowsAccounted
        /\ stats.enqueued \in Nat /\ stats.dropped \in Nat
        /\ stats.written \in Nat /\ stats.failed \in Nat
        /\ Len(ch) \in Nat /\ Len(buf) \in Nat
        /\ Cardinality(In("sent")) \in Nat
        /\ Cardinality(In("enqueued")) \in Nat
        /\ Cardinality(In("dropped")) \in Nat
    BY InFinite DEF TypeOK, Counters
  <1>1. ASSUME UNCHANGED row
        PROVE  /\ Cardinality(In("sent"))' = Cardinality(In("sent"))
               /\ Cardinality(In("enqueued"))' = Cardinality(In("enqueued"))
               /\ Cardinality(In("dropped"))' = Cardinality(In("dropped"))
    BY <1>1 DEF In
  <1>2. ASSUME NEW r \in Requests, Check(r) PROVE MeterInv'
    <2> DEFINE s == IF closing THEN "late" ELSE "checked"
    <2>1. /\ row' \in [Requests -> RowStates]
          /\ Cardinality(In("sent"))' = Cardinality(In("sent"))
          /\ Cardinality(In("enqueued"))' = Cardinality(In("enqueued"))
          /\ Cardinality(In("dropped"))' = Cardinality(In("dropped"))
      BY <1>0, <1>2, Moves DEF Check, TypeOK, RowStates
    <2>2. QED
      BY <1>0, <1>2, <2>1 DEF Check, TypeOK, RoomInBatch, RowsAccounted
  <1>3. ASSUME NEW r \in Requests, Send(r) PROVE MeterInv'
    <2>0. /\ row \in [Requests -> RowStates] /\ row[r] = "checked"
          /\ {"panicked", "sent", "dropped"} \subseteq RowStates
      BY <1>0, <1>3 DEF Send, TypeOK, RowStates
    <2>1. CASE SetRow(r, "panicked") /\ UNCHANGED <<ch, stats>>
      <3>1. /\ row' \in [Requests -> RowStates]
            /\ Cardinality(In("sent"))' = Cardinality(In("sent"))
            /\ Cardinality(In("enqueued"))' = Cardinality(In("enqueued"))
            /\ Cardinality(In("dropped"))' = Cardinality(In("dropped"))
        BY <2>0, <2>1, Moves
      <3>2. QED
        BY <1>0, <1>3, <2>1, <3>1 DEF Send, TypeOK, RoomInBatch, RowsAccounted
    <2>2. CASE /\ Len(ch) < BufferSize /\ ch' = Append(ch, r)
               /\ SetRow(r, "sent") /\ UNCHANGED stats
      <3>1. /\ row' \in [Requests -> RowStates]
            /\ Cardinality(In("sent"))' = Cardinality(In("sent")) + 1
            /\ Cardinality(In("enqueued"))' = Cardinality(In("enqueued"))
            /\ Cardinality(In("dropped"))' = Cardinality(In("dropped"))
        BY <2>0, <2>2, Moves
      <3>2. ch' \in Seq(Requests) /\ Len(ch') = Len(ch) + 1
        BY <1>0, <2>2
      <3>3. TypeOK' /\ RoomInBatch'
        BY <1>0, <1>3, <2>2, <3>1, <3>2, MeterAssumption
        DEF Send, TypeOK, RoomInBatch
      <3>4. RowsAccounted'
        <4>1. buf' = buf /\ stats' = stats
          BY <1>3, <2>2 DEF Send
        <4>2. /\ stats'.enqueued = stats.enqueued
              /\ stats'.written = stats.written
              /\ stats'.failed = stats.failed
              /\ stats'.dropped = stats.dropped
              /\ Len(buf') = Len(buf) /\ Len(ch') = Len(ch) + 1
          BY <3>2, <4>1
        <4>3. /\ Cardinality(In("sent"))' = Cardinality(In("sent")) + 1
              /\ Cardinality(In("enqueued"))' = Cardinality(In("enqueued"))
              /\ Cardinality(In("dropped"))' = Cardinality(In("dropped"))
          BY <3>1
        <4>4. (Cardinality(In("sent")) + 1) + stats.enqueued
                = (Len(ch) + 1) + Len(buf) + stats.written + stats.failed
          <5> DEFINE a == Cardinality(In("sent"))
                     b == stats.enqueued
                     c == Len(ch)
                     d == Len(buf)
                     e == stats.written
                     f == stats.failed
          <5>1. /\ a \in Nat /\ b \in Nat /\ c \in Nat
                /\ d \in Nat /\ e \in Nat /\ f \in Nat
            BY <1>n
          <5>2. a + b = c + d + e + f
            BY <1>n, Zenon DEF RowsAccounted
          <5> HIDE DEF a, b, c, d, e, f
          <5>3. (a + 1) + b = (c + 1) + d + e + f
            BY <5>1, <5>2
          <5>4. QED
            BY <5>3 DEF a, b, c, d, e, f
        <4>5. Cardinality(In("sent"))' + stats'.enqueued
                = Len(ch') + Len(buf') + stats'.written + stats'.failed
          <5>1. Cardinality(In("sent"))' + stats'.enqueued
                  = (Cardinality(In("sent")) + 1) + stats.enqueued
            BY <4>2, <4>3
          <5>2. Len(ch') + Len(buf') + stats'.written + stats'.failed
                  = (Len(ch) + 1) + Len(buf) + stats.written + stats.failed
            BY <4>2
          <5>3. QED
            BY <5>1, <5>2, <4>4
        <4>6. /\ Cardinality(In("enqueued"))' = stats'.enqueued
              /\ Cardinality(In("dropped"))' = stats'.dropped
          BY <1>n, <4>2, <4>3 DEF RowsAccounted
        <4>7. QED
          BY <4>5, <4>6 DEF RowsAccounted
      <3>5. QED
        BY <3>3, <3>4
    <2>3. CASE /\ SetRow(r, "dropped") /\ UNCHANGED ch
               /\ stats' = [stats EXCEPT !.dropped = @ + 1]
      <3>1. /\ row' \in [Requests -> RowStates]
            /\ Cardinality(In("sent"))' = Cardinality(In("sent"))
            /\ Cardinality(In("enqueued"))' = Cardinality(In("enqueued"))
            /\ Cardinality(In("dropped"))' = Cardinality(In("dropped")) + 1
        BY <2>0, <2>3, Moves
      <3>2. /\ stats' \in Counters /\ stats'.dropped = stats.dropped + 1
            /\ stats'.enqueued = stats.enqueued
            /\ stats'.written = stats.written /\ stats'.failed = stats.failed
        BY <1>0, <2>3 DEF TypeOK, Counters
      <3>3. QED
        BY <1>0, <1>3, <2>3, <3>1, <3>2
        DEF Send, TypeOK, RoomInBatch, RowsAccounted
    <2>4. QED
      BY <1>3, <2>1, <2>2, <2>3 DEF Send
  <1>4. ASSUME NEW r \in Requests, Count(r) PROVE MeterInv'
    <2>1. /\ row' \in [Requests -> RowStates]
          /\ Cardinality(In("sent"))' = Cardinality(In("sent")) - 1
          /\ Cardinality(In("enqueued"))' = Cardinality(In("enqueued")) + 1
          /\ Cardinality(In("dropped"))' = Cardinality(In("dropped"))
      BY <1>0, <1>4, Moves DEF Count, TypeOK, RowStates
    <2>2. /\ stats' \in Counters /\ stats'.dropped = stats.dropped
          /\ stats'.enqueued = stats.enqueued + 1
          /\ stats'.written = stats.written /\ stats'.failed = stats.failed
      BY <1>0, <1>4 DEF Count, TypeOK, Counters
    <2>3. TypeOK' /\ RoomInBatch'
      BY <1>0, <1>4, <2>1, <2>2 DEF Count, TypeOK, RoomInBatch
    <2>4. RowsAccounted'
      <3>1. Len(buf') = Len(buf) /\ Len(ch') = Len(ch)
        BY <1>4 DEF Count
      <3>2. (Cardinality(In("sent")) - 1) + (stats.enqueued + 1)
              = Len(ch) + Len(buf) + stats.written + stats.failed
        <4> DEFINE a == Cardinality(In("sent"))
                   b == stats.enqueued
                   c == Len(ch)
                   d == Len(buf)
                   e == stats.written
                   f == stats.failed
        <4>1. /\ a \in Nat /\ b \in Nat /\ c \in Nat
              /\ d \in Nat /\ e \in Nat /\ f \in Nat
          BY <1>n
        <4>2. a + b = c + d + e + f
          BY <1>n, Zenon DEF RowsAccounted
        <4> HIDE DEF a, b, c, d, e, f
        <4>3. (a - 1) + (b + 1) = c + d + e + f
          BY <4>1, <4>2
        <4>4. QED
          BY <4>3 DEF a, b, c, d, e, f
      <3>3. Cardinality(In("sent"))' + stats'.enqueued
              = Len(ch') + Len(buf') + stats'.written + stats'.failed
        <4>1. Cardinality(In("sent"))' + stats'.enqueued
                = (Cardinality(In("sent")) - 1) + (stats.enqueued + 1)
          BY <2>1, <2>2
        <4>2. Len(ch') + Len(buf') + stats'.written + stats'.failed
                = Len(ch) + Len(buf) + stats.written + stats.failed
          BY <2>2, <3>1
        <4>3. QED
          BY <3>2, <4>1, <4>2
      <3>4. /\ Cardinality(In("enqueued"))' = stats'.enqueued
            /\ Cardinality(In("dropped"))' = stats'.dropped
        BY <1>n, <2>1, <2>2 DEF RowsAccounted
      <3>5. QED
        BY <3>3, <3>4 DEF RowsAccounted
    <2>5. QED
      BY <2>3, <2>4
  <1>5. CASE Receive
    <2>1. /\ buf' \in Seq(Requests) /\ Len(buf') = Len(buf) + 1
          /\ ch' \in Seq(Requests) /\ Len(ch') = Len(ch) - 1
      BY <1>0, <1>5 DEF Receive
    <2>2. TypeOK' /\ RoomInBatch'
      BY <1>0, <1>5, <2>1, MeterAssumption DEF Receive, TypeOK, RoomInBatch
    <2>3. RowsAccounted'
      <3>1. UNCHANGED row /\ stats' = stats
        BY <1>5 DEF Receive
      <3>2. Len(ch') + Len(buf') = Len(ch) + Len(buf)
        BY <1>n, <2>1
      <3>3. Len(ch') \in Nat /\ Len(buf') \in Nat
        BY <2>1
      <3>4. QED
        BY <1>n, <1>1, <3>1, <3>2, <3>3 DEF RowsAccounted
    <2>4. QED
      BY <2>2, <2>3
  <1>6. CASE Flush \/ Drain
    BY <1>0, <1>1, <1>6 DEF Flush, Drain, TypeOK, RoomInBatch, RowsAccounted
  <1>7. CASE WriteSucceeds \/ WriteFails
    <2>1. PICK counted \in {"written", "failed"} : Written(counted)
      BY <1>7 DEF WriteSucceeds, WriteFails
    <2>2. /\ stats' \in Counters /\ stats'.dropped = stats.dropped
          /\ stats'.enqueued = stats.enqueued
          /\ \/ /\ stats'.written = stats.written + Len(buf)
                /\ stats'.failed = stats.failed
             \/ /\ stats'.written = stats.written
                /\ stats'.failed = stats.failed + Len(buf)
      <3>1. CASE counted = "written"
        BY <1>0, <2>1, <3>1 DEF Written, TypeOK, Counters
      <3>2. CASE counted = "failed"
        BY <1>0, <2>1, <3>2 DEF Written, TypeOK, Counters
      <3>3. QED
        BY <3>1, <3>2
    <2>3. buf' = <<>> /\ UNCHANGED <<row, closer, closing, ch, chClosed>>
      BY <2>1 DEF Written
    <2>4. writer' \in {"exited", "receiving"}
      BY <2>1 DEF Written
    <2>5. Inserted(buf) \subseteq Requests
      BY <1>0 DEF Inserted, TypeOK
    <2>6. ledger' \subseteq Requests
      BY <1>0, <1>7, <2>5 DEF WriteSucceeds, WriteFails, TypeOK
    <2>7. TypeOK' /\ RoomInBatch'
      BY <1>0, <2>2, <2>3, <2>4, <2>6, MeterAssumption
      DEF TypeOK, RoomInBatch
    <2>8. RowsAccounted'
      <3>1. stats'.written \in Nat /\ stats'.failed \in Nat
        BY <2>2 DEF Counters
      <3>2. Len(buf') = 0 /\ Len(ch') = Len(ch)
        BY <2>3
      <3>3. /\ Cardinality(In("sent"))' = Cardinality(In("sent"))
            /\ Cardinality(In("enqueued"))' = Cardinality(In("enqueued"))
            /\ Cardinality(In("dropped"))' = Cardinality(In("dropped"))
        BY <1>1, <2>3
      <3>4. /\ Cardinality(In("sent")) + stats.enqueued
                 = Len(ch) + 0 + (stats.written + Len(buf)) + stats.failed
            /\ Cardinality(In("sent")) + stats.enqueued
                 = Len(ch) + 0 + stats.written + (stats.failed + Len(buf))
        BY <1>n, Balance DEF RowsAccounted
      <3>5. Cardinality(In("sent"))' + stats'.enqueued
              = Len(ch') + Len(buf') + stats'.written + stats'.failed
        BY <2>2, <3>2, <3>3, <3>4
      <3>6. QED
        BY <1>n, <2>2, <3>3, <3>5 DEF RowsAccounted
    <2>9. QED
      BY <2>7, <2>8
  <1>8. CASE Closer
    BY <1>0, <1>1, <1>8
    DEF Closer, BeginClose, CloseChannel, FinishClose, TypeOK, RoomInBatch,
        RowsAccounted
  <1>9. CASE UNCHANGED vars
    BY <1>0, <1>1, <1>9 DEF vars, TypeOK, RoomInBatch, RowsAccounted
  <1>10. QED
    BY <1>2, <1>3, <1>4, <1>5, <1>6, <1>7, <1>8, <1>9
    DEF Next, Handler, Writer

(* Channel and batch never grow past their bounds, and every variable stays  *)
(* in its type (meter.go:91-101, 139-151).                                   *)
THEOREM MeterTypeCorrect == Spec => []TypeOK
  <1>1. Spec => []MeterInv
    BY MeterInit, MeterStep, PTL DEF Spec
  <1>2. MeterInv => TypeOK
    BY DEF MeterInv
  <1>3. QED
    BY <1>1, <1>2, PTL

(* The counters account for every row, for any number of requests and any    *)
(* buffer and batch size (meter.go:116-126, 139-183).                        *)
THEOREM MeterRowsAccounted == Spec => []RowsAccounted
  <1>1. Spec => []MeterInv
    BY MeterInit, MeterStep, PTL DEF Spec
  <1>2. MeterInv => RowsAccounted
    BY DEF MeterInv
  <1>3. QED
    BY <1>1, <1>2, PTL

(* The drain ends. *)

\* What the writer has left besides the channel.
BatchWork ==
  CASE writer = "receiving" -> IF buf = <<>> THEN 1 ELSE 3
    [] writer = "writing"   -> 2
    [] writer = "draining"  -> 1
    [] writer = "exited"    -> 0

\* A step of the writer after close(ch).
LEMMA WriterAdvances ==
  ASSUME TypeOK, TypeOK', chClosed, Writer
  PROVE  WorkLeft' \in 0..(WorkLeft - 1)
  <1>0. /\ BatchWork \in 0..3 /\ Len(ch) \in Nat
        /\ BatchWork' \in 0..3 /\ Len(ch') \in Nat
        /\ WorkLeft = 3 * Len(ch) + BatchWork
        /\ WorkLeft' = 3 * Len(ch') + BatchWork'
    <2>1. /\ BatchWork \in 0..3 /\ Len(ch) \in Nat
          /\ WorkLeft = 3 * Len(ch) + BatchWork
      BY DEF TypeOK, BatchWork, WorkLeft
    <2>2. /\ BatchWork' \in 0..3 /\ Len(ch') \in Nat
          /\ WorkLeft' = 3 * Len(ch') + BatchWork'
      BY DEF TypeOK, BatchWork, WorkLeft
    <2>3. QED
      BY <2>1, <2>2
  <1>1. CASE Receive
    <2>1. /\ ch \in Seq(Requests) /\ ch # <<>> /\ ch' = Tail(ch)
          /\ buf \in Seq(Requests) /\ buf' = Append(buf, Head(ch))
          /\ writer = "receiving" /\ writer' \in {"receiving", "writing"}
      BY <1>1 DEF Receive, TypeOK
    <2>2. Len(ch') = Len(ch) - 1
      BY <2>1
    <2>3. BatchWork >= 1
      BY <2>1 DEF BatchWork
    <2>4. QED
      BY <1>0, <2>2, <2>3
  <1>2. CASE Flush
    <2>1. ch' = ch /\ BatchWork = 3 /\ BatchWork' = 2
      BY <1>2 DEF Flush, BatchWork
    <2>2. QED
      BY <1>0, <2>1
  <1>3. CASE Drain
    <2>1. ch' = ch /\ BatchWork' < BatchWork
      BY <1>3 DEF Drain, BatchWork
    <2>2. QED
      BY <1>0, <2>1
  <1>4. CASE WriteSucceeds \/ WriteFails
    <2>1. PICK counted : Written(counted)
      BY <1>4 DEF WriteSucceeds, WriteFails
    <2>2. ch' = ch /\ BatchWork' < BatchWork
      BY <2>1 DEF Written, BatchWork
    <2>3. QED
      BY <1>0, <2>2
  <1>5. QED
    BY <1>1, <1>2, <1>3, <1>4 DEF Writer

LEMMA DrainStep ==
  ASSUME TypeOK, TypeOK', chClosed, [Next]_vars
  PROVE  \/ WorkLeft' \in 0..(WorkLeft - 1)
         \/ UNCHANGED <<ch, writer, buf>>
  <1>1. ASSUME NEW r \in Requests, Handler(r)
        PROVE  UNCHANGED <<ch, writer, buf>>
    BY <1>1 DEF Handler, Check, Send, Count
  <1>2. CASE Writer
    BY <1>2, WriterAdvances
  <1>3. CASE Closer \/ UNCHANGED vars
    BY <1>3 DEF Closer, BeginClose, CloseChannel, FinishClose, vars
  <1>4. QED
    BY <1>1, <1>2, <1>3 DEF Next

(* "Close stops accepting records and flushes what remains" (meter.go:185):  *)
(* for any buffer and batch size, any number of handlers that record while   *)
(* the meter closes, and writes that fail at any time, the writer comes      *)
(* nearer to its end with every step it takes after close(ch)                *)
(* (meter.go:139-197).                                                       *)
THEOREM DrainIsBounded == Spec => DrainAdvances
  <1> DEFINE Advance == chClosed => \/ WorkLeft' \in 0..(WorkLeft - 1)
                                    \/ UNCHANGED <<ch, writer, buf>>
  <1>1. TypeOK /\ TypeOK' /\ [Next]_vars => [Advance]_vars
    BY DrainStep
  <1> HIDE DEF Advance
  <1>2. Spec => [][Advance]_vars
    BY <1>1, MeterTypeCorrect, PTL DEF Spec
  <1>3. QED
    BY <1>2 DEF DrainAdvances, Advance
=============================================================================
