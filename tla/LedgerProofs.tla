---------------------------- MODULE LedgerProofs ----------------------------
(***************************************************************************)
(* What becomes of each usage row: it is in one place at a time, settled     *)
(* once, and counted when it is lost.  For any number of requests, any       *)
(* buffer and batch size, and a sink that fails at any time.                 *)
(***************************************************************************)
EXTENDS MeterProofs

(* What Close leaves behind, in the order it does so: nothing is refused or  *)
(* panics before the flag is set, the writer goes only when the channel is   *)
(* closed and empty, with its batch written, and Close returns after it.     *)
ClosedInOrder ==
  /\ IF closer = "open" THEN ~closing /\ ~chClosed ELSE closing
  /\ \A r \in Requests : row[r] \in {"late", "panicked"} => closing
  /\ writer \in {"draining", "exited"} => chClosed /\ ch = <<>>
  /\ writer = "exited" => buf = <<>>
  /\ closer = "closed" => writer = "exited"

LEMMA HandlerKeepsOrder ==
  ASSUME TypeOK, ClosedInOrder, NEW r \in Requests, Handler(r)
  PROVE  ClosedInOrder'
  <1>1. CASE Check(r)
    BY <1>1 DEF Check, SetRow, ClosedInOrder, TypeOK
  <1>2. CASE Send(r)
    BY <1>2 DEF Send, SetRow, ClosedInOrder, TypeOK
  <1>3. CASE Count(r)
    BY <1>3 DEF Count, SetRow, ClosedInOrder, TypeOK
  <1>4. QED
    BY <1>1, <1>2, <1>3 DEF Handler

LEMMA WriterKeepsOrder ==
  ASSUME TypeOK, ClosedInOrder, Writer
  PROVE  ClosedInOrder'
  <1>1. CASE Receive
    BY <1>1 DEF Receive, ClosedInOrder, TypeOK
  <1>2. CASE Flush
    BY <1>2 DEF Flush, ClosedInOrder, TypeOK
  <1>3. CASE Drain
    BY <1>3 DEF Drain, ClosedInOrder, TypeOK
  <1>4. CASE WriteSucceeds \/ WriteFails
    <2>1. PICK counted : Written(counted)
      BY <1>4 DEF WriteSucceeds, WriteFails
    <2>2. QED
      BY <2>1 DEF Written, ClosedInOrder, TypeOK
  <1>5. QED
    BY <1>1, <1>2, <1>3, <1>4 DEF Writer

LEMMA MeterClosesInOrder ==
  TypeOK /\ ClosedInOrder /\ [Next]_vars => ClosedInOrder'
  <1> SUFFICES ASSUME TypeOK, ClosedInOrder, [Next]_vars
               PROVE  ClosedInOrder'
    OBVIOUS
  <1>1. CASE \E r \in Requests : Handler(r)
    BY <1>1, HandlerKeepsOrder
  <1>2. CASE Writer
    BY <1>2, WriterKeepsOrder
  <1>3. CASE BeginClose
    BY <1>3 DEF BeginClose, ClosedInOrder, TypeOK
  <1>4. CASE CloseChannel
    BY <1>4 DEF CloseChannel, ClosedInOrder, TypeOK
  <1>5. CASE FinishClose
    BY <1>5 DEF FinishClose, ClosedInOrder, TypeOK
  <1>6. CASE UNCHANGED vars
    BY <1>6 DEF vars, ClosedInOrder
  <1>7. QED
    BY <1>1, <1>2, <1>3, <1>4, <1>5, <1>6 DEF Next, Closer

-----------------------------------------------------------------------------
(* The rows in the process's memory, place by place. *)

RowsOf(s) == {s[i] : i \in DOMAIN s}

NoRepeats(s) == \A i, j \in DOMAIN s : s[i] = s[j] => i = j

\* Appending a row that is not there.
LEMMA AppendRow ==
  ASSUME NEW s \in Seq(Requests), NEW r \in Requests
  PROVE  /\ RowsOf(Append(s, r)) = RowsOf(s) \cup {r}
         /\ NoRepeats(s) /\ r \notin RowsOf(s) => NoRepeats(Append(s, r))
  <1>1. /\ DOMAIN Append(s, r) = 1..(Len(s) + 1)
        /\ \A i \in 1..Len(s) : Append(s, r)[i] = s[i]
        /\ Append(s, r)[Len(s) + 1] = r
        /\ DOMAIN s = 1..Len(s) /\ Len(s) \in Nat
    OBVIOUS
  <1>2. RowsOf(Append(s, r)) = RowsOf(s) \cup {r}
    BY <1>1 DEF RowsOf
  <1>3. ASSUME NoRepeats(s), r \notin RowsOf(s)
        PROVE  NoRepeats(Append(s, r))
    BY <1>1, <1>3 DEF NoRepeats, RowsOf
  <1>4. QED
    BY <1>2, <1>3

\* Taking the first row off.
LEMMA TakeRow ==
  ASSUME NEW s \in Seq(Requests), s # <<>>, NoRepeats(s)
  PROVE  /\ Head(s) \in RowsOf(s)
         /\ RowsOf(Tail(s)) = RowsOf(s) \ {Head(s)}
         /\ NoRepeats(Tail(s))
  <1>1. /\ DOMAIN s = 1..Len(s) /\ Len(s) \in Nat /\ Len(s) >= 1
        /\ Head(s) = s[1]
        /\ DOMAIN Tail(s) = 1..(Len(s) - 1)
        /\ \A i \in 1..(Len(s) - 1) : Tail(s)[i] = s[i + 1]
    OBVIOUS
  <1>2. NoRepeats(Tail(s))
    BY <1>1 DEF NoRepeats
  <1>3. Head(s) \in RowsOf(s)
    BY <1>1 DEF RowsOf
  <1>4. RowsOf(Tail(s)) \subseteq RowsOf(s) \ {Head(s)}
    BY <1>1 DEF RowsOf, NoRepeats
  <1>5. ASSUME NEW x \in RowsOf(s), x # Head(s)
        PROVE  x \in RowsOf(Tail(s))
    <2>1. PICK i \in 1..Len(s) : x = s[i]
      BY <1>1 DEF RowsOf
    <2>2. i - 1 \in 1..(Len(s) - 1) /\ Tail(s)[i - 1] = x
      BY <1>1, <1>5, <2>1
    <2>3. QED
      BY <1>1, <2>2 DEF RowsOf
  <1>6. QED
    BY <1>2, <1>3, <1>4, <1>5

\* A sequence without repeats has as many rows as it is long; any other fewer.
LEMMA RowsCounted ==
  ASSUME NEW s \in Seq(Requests), NoRepeats(s)
  PROVE  IsFiniteSet(RowsOf(s)) /\ Cardinality(RowsOf(s)) = Len(s)
  <1>1. /\ DOMAIN s = 1..Len(s) /\ Len(s) \in Nat
        /\ s \in [1..Len(s) -> RowsOf(s)]
    BY DEF RowsOf
  <1>2. s \in Bijection(1..Len(s), RowsOf(s))
    BY <1>1 DEF Bijection, Injection, Surjection, IsInjective, NoRepeats, RowsOf
  <1>3. ExistsBijection(1..Len(s), RowsOf(s))
    BY <1>2 DEF ExistsBijection
  <1>4. QED
    BY <1>1, <1>3, FS_CountingElements, FS_Interval, FS_Bijection

-----------------------------------------------------------------------------
(* A row is in the channel, in the batch or in the ledger, once, and in      *)
(* neither before it was sent.                                               *)
Sent == In("sent") \cup In("enqueued")

EachRowOnce ==
  /\ NoRepeats(ch) /\ NoRepeats(buf)
  /\ RowsOf(ch) \cap RowsOf(buf) = {}
  /\ RowsOf(ch) \cup RowsOf(buf) \cup ledger \subseteq Sent
  /\ (RowsOf(ch) \cup RowsOf(buf)) \cap ledger = {}

LEMMA InFlightRows == InFlight = RowsOf(ch) \cup RowsOf(buf)
  BY DEF InFlight, RowsOf

\* The batch is inserted, but for rows whose id is taken.
LEMMA InsertedRows ==
  /\ ledger \subseteq Inserted(buf)
  /\ Inserted(buf) \subseteq ledger \cup RowsOf(buf)
  BY DEF Inserted, RowsOf

(* Where the rows are after a step, in terms of where they were.            *)
LEMMA RowsMove ==
  ASSUME TypeOK, EachRowOnce, [Next]_vars
  PROVE  \/ /\ UNCHANGED <<ch, buf, ledger>>
            /\ Sent' = Sent
         \/ \E r \in Requests :
              /\ row[r] = "checked" /\ row'[r] = "sent"
              /\ ch' = Append(ch, r) /\ UNCHANGED <<buf, ledger>>
              /\ Sent' = Sent \cup {r}
         \/ Receive /\ Sent' = Sent
         \/ WriteSucceeds /\ Sent' = Sent
         \/ WriteFails /\ Sent' = Sent
  <1>1. ASSUME NEW r \in Requests, Check(r)
        PROVE  UNCHANGED <<ch, buf, ledger>> /\ Sent' = Sent
    BY <1>1 DEF Check, SetRow, Sent, In, TypeOK
  <1>2. ASSUME NEW r \in Requests, Send(r)
        PROVE  \/ UNCHANGED <<ch, buf, ledger>> /\ Sent' = Sent
               \/ /\ row[r] = "checked" /\ row'[r] = "sent"
                  /\ ch' = Append(ch, r) /\ UNCHANGED <<buf, ledger>>
                  /\ Sent' = Sent \cup {r}
    BY <1>2 DEF Send, SetRow, Sent, In, TypeOK
  <1>3. ASSUME NEW r \in Requests, Count(r)
        PROVE  UNCHANGED <<ch, buf, ledger>> /\ Sent' = Sent
    BY <1>3 DEF Count, SetRow, Sent, In, TypeOK
  <1>4. CASE Writer
    <2>1. UNCHANGED row
      BY <1>4 DEF Writer, Receive, Flush, Drain, WriteSucceeds, WriteFails, Written
    <2>2. Sent' = Sent
      BY <2>1 DEF Sent, In
    <2>3. Flush \/ Drain => UNCHANGED <<ch, buf, ledger>>
      BY DEF Flush, Drain
    <2>4. QED
      BY <1>4, <2>2, <2>3 DEF Writer
  <1>5. CASE Closer \/ UNCHANGED vars
    <2>1. UNCHANGED <<row, ch, buf, ledger>>
      BY <1>5 DEF Closer, BeginClose, CloseChannel, FinishClose, vars
    <2>2. QED
      BY <2>1 DEF Sent, In
  <1>6. QED
    BY <1>1, <1>2, <1>3, <1>4, <1>5 DEF Next, Handler

LEMMA EachRowOnceStep ==
  ASSUME TypeOK, EachRowOnce, [Next]_vars
  PROVE  EachRowOnce'
  <1>0. /\ ch \in Seq(Requests) /\ buf \in Seq(Requests)
        /\ row \in [Requests -> RowStates]
    BY DEF TypeOK
  <1>1. CASE UNCHANGED <<ch, buf, ledger>> /\ Sent' = Sent
    BY <1>1 DEF EachRowOnce
  <1>2. ASSUME NEW r \in Requests,
               row[r] = "checked", ch' = Append(ch, r),
               UNCHANGED <<buf, ledger>>, Sent' = Sent \cup {r}
        PROVE  EachRowOnce'
    <2>1. r \notin Sent
      BY <1>2 DEF Sent, In
    <2>2. r \notin RowsOf(ch) /\ r \notin RowsOf(buf) /\ r \notin ledger
      BY <2>1 DEF EachRowOnce
    <2>3. RowsOf(ch') = RowsOf(ch) \cup {r} /\ NoRepeats(ch')
      BY <1>0, <1>2, <2>2, AppendRow DEF EachRowOnce
    <2>4. QED
      BY <1>2, <2>2, <2>3 DEF EachRowOnce
  <1>3. CASE Receive /\ Sent' = Sent
    <2>1. /\ ch # <<>> /\ ch' = Tail(ch) /\ buf' = Append(buf, Head(ch))
          /\ ledger' = ledger
      BY <1>3 DEF Receive
    <2>2. /\ Head(ch) \in RowsOf(ch) /\ Head(ch) \in Requests
          /\ RowsOf(ch') = RowsOf(ch) \ {Head(ch)} /\ NoRepeats(ch')
      BY <1>0, <2>1, TakeRow DEF EachRowOnce
    <2>3. RowsOf(buf') = RowsOf(buf) \cup {Head(ch)} /\ NoRepeats(buf')
      BY <1>0, <2>1, <2>2, AppendRow DEF EachRowOnce
    <2>4. QED
      BY <1>3, <2>1, <2>2, <2>3 DEF EachRowOnce
  <1>4. CASE (WriteSucceeds \/ WriteFails) /\ Sent' = Sent
    <2>1. /\ ch' = ch /\ buf' = <<>>
          /\ ledger' \subseteq ledger \cup RowsOf(buf)
      BY <1>4, InsertedRows DEF WriteSucceeds, WriteFails, Written
    <2>2. RowsOf(buf') = {} /\ NoRepeats(buf')
      BY <2>1 DEF RowsOf, NoRepeats
    <2>3. QED
      BY <1>4, <2>1, <2>2 DEF EachRowOnce
  <1>5. QED
    BY <1>1, <1>2, <1>3, <1>4, RowsMove

-----------------------------------------------------------------------------
(* What an INSERT leaves in the table, when clients may choose one id twice. *)

\* A set of indices has a least one.
LEMMA LeastIndex ==
  ASSUME NEW S \in SUBSET Nat, S # {}
  PROVE  \E k \in S : \A j \in S : k <= j
  <1> DEFINE Upto == {1..k : k \in S}
  <1>1. Upto \subseteq FiniteSubsetsOf(Nat) /\ Upto # {}
    <2>1. ASSUME NEW k \in S
          PROVE  1..k \in FiniteSubsetsOf(Nat)
      <3>1. k \in Int /\ 1 \in Int /\ 1..k \in SUBSET Nat
        OBVIOUS
      <3>2. IsFiniteSet(1..k)
        BY <3>1, FS_Interval
      <3>3. QED
        BY <3>1, <3>2 DEF FiniteSubsetsOf
    <2>2. QED
      BY <2>1
  <1>2. PICK x \in Upto : \A y \in Upto : ~ (<<y, x>> \in StrictSubsetOrdering(Nat))
    <2> HIDE DEF Upto
    <2>1. QED
      BY <1>1, FS_StrictSubsetOrderingWellFounded, WFMin, Zenon
  <1>3. PICK k \in S : x = 1..k
    BY <1>2
  <1>4. ASSUME NEW j \in S, j < k
        PROVE  FALSE
    <2>1. 1..j \in SUBSET Nat /\ 1..k \in SUBSET Nat
      OBVIOUS
    <2>2. 1..j \subseteq 1..k /\ 1..j # 1..k
      <3>1. k \in 1..k /\ k \notin 1..j
        BY <1>4
      <3>2. QED
        BY <1>4, <3>1
    <2>3. <<1..j, 1..k>> \in StrictSubsetOrdering(Nat)
      BY <2>1, <2>2 DEF StrictSubsetOrdering
    <2>4. QED
      BY <1>2, <1>3, <2>3
  <1>5. QED
    BY <1>4

\* Of every row of the batch the table has the id: that of a row that was
\* there, or of the first row of the batch with it.
LEMMA InsertedIDs ==
  ASSUME TypeOK, NEW i \in DOMAIN buf
  PROVE  \E q \in Inserted(buf) : RequestID[q] = RequestID[buf[i]]
  <1> DEFINE Same == {k \in DOMAIN buf : RequestID[buf[k]] = RequestID[buf[i]]}
  <1>1. /\ DOMAIN buf = 1..Len(buf) /\ Len(buf) \in Nat
        /\ Same \in SUBSET Nat /\ i \in Same
    BY DEF TypeOK
  <1>2. PICK k \in Same : \A j \in Same : k <= j
    <2> HIDE DEF Same
    <2>1. QED
      BY <1>1, LeastIndex
  <1>3. CASE \E r \in ledger : RequestID[r] = RequestID[buf[k]]
    BY <1>2, <1>3 DEF Inserted
  <1>4. CASE \A r \in ledger : RequestID[r] # RequestID[buf[k]]
    <2>1. k \in DOMAIN buf /\ k \in Nat
      BY <1>1
    <2>2. ASSUME NEW j \in 1..(k - 1)
          PROVE  RequestID[buf[j]] # RequestID[buf[k]]
      <3>1. j \in DOMAIN buf /\ ~(k <= j)
        BY <1>1, <2>1
      <3>2. j \notin Same
        BY <1>2, <3>1
      <3>3. QED
        BY <1>2, <3>1, <3>2
    <2>3. buf[k] \in Inserted(buf)
      BY <1>4, <2>1, <2>2 DEF Inserted
    <2>4. QED
      BY <1>2, <2>3
  <1>5. QED
    BY <1>3, <1>4

OneRowPerID ==
  \A q, s \in ledger : RequestID[q] = RequestID[s] => q = s

LEMMA InsertedOnce ==
  ASSUME TypeOK, OneRowPerID,
         NEW q \in Inserted(buf), NEW s \in Inserted(buf),
         RequestID[q] = RequestID[s]
  PROVE  q = s
  <1> DEFINE First(k) ==
        /\ \A r \in ledger : RequestID[r] # RequestID[buf[k]]
        /\ \A j \in 1..(k - 1) : RequestID[buf[j]] # RequestID[buf[k]]
  <1>1. DOMAIN buf \subseteq Nat \ {0}
    BY DEF TypeOK
  <1>2. /\ q \in ledger \/ \E k \in DOMAIN buf : q = buf[k] /\ First(k)
        /\ s \in ledger \/ \E k \in DOMAIN buf : s = buf[k] /\ First(k)
    BY DEF Inserted
  <1>3. CASE q \in ledger \/ s \in ledger
    BY <1>2, <1>3 DEF OneRowPerID
  <1>4. CASE q \notin ledger /\ s \notin ledger
    <2>1. PICK k \in DOMAIN buf : q = buf[k] /\ First(k)
      BY <1>2, <1>4
    <2>2. PICK m \in DOMAIN buf : s = buf[m] /\ First(m)
      BY <1>2, <1>4
    <2>3. k \notin 1..(m - 1) /\ m \notin 1..(k - 1)
      BY <2>1, <2>2
    <2>4. k = m
      BY <1>1, <2>3
    <2>5. QED
      BY <2>1, <2>2, <2>4
  <1>5. QED
    BY <1>3, <1>4

-----------------------------------------------------------------------------
(* The counters. *)

\* The rows the writer is done with, those whose id is in the table, and the
\* others.
Out      == Sent \ (RowsOf(ch) \cup RowsOf(buf))
Billed   == {r \in Out : InLedger(r)}
Unbilled == {r \in Out : ~InLedger(r)}

BooksKept ==
  /\ Cardinality(Unbilled) <= stats.failed
  /\ stats.written <= Cardinality(Billed)

\* Finite sets of requests.
LEMMA RequestsCounted ==
  ASSUME NEW S, S \subseteq Requests
  PROVE  IsFiniteSet(S) /\ Cardinality(S) \in Nat
  BY MeterAssumption, FS_Subset, FS_CardinalityType

LEMMA DisjointUnion ==
  ASSUME NEW S, S \subseteq Requests, NEW T, T \subseteq Requests,
         S \cap T = {}
  PROVE  Cardinality(S \cup T) = Cardinality(S) + Cardinality(T)
  <1>1. /\ IsFiniteSet(S) /\ IsFiniteSet(T)
        /\ Cardinality(S) \in Nat /\ Cardinality(T) \in Nat
    BY RequestsCounted
  <1>2. Cardinality(S \cup T) = Cardinality(S) + Cardinality(T) - Cardinality(S \cap T)
    BY <1>1, FS_Union
  <1>3. Cardinality(S \cap T) = 0
    BY FS_EmptySet
  <1>4. QED
    BY <1>1, <1>2, <1>3

\* A subset has no more elements.
LEMMA NoMoreThan ==
  ASSUME NEW T, T \subseteq Requests, NEW S, S \subseteq T
  PROVE  Cardinality(S) <= Cardinality(T)
  BY RequestsCounted, FS_Subset

\* Rows come and go in memory; those the writer is done with stay.
LEMMA OutStays ==
  ASSUME TypeOK, EachRowOnce, [Next]_vars, ~(WriteSucceeds \/ WriteFails)
  PROVE  ledger' = ledger /\ Out' = Out
  <1>0. ch \in Seq(Requests) /\ buf \in Seq(Requests)
    BY DEF TypeOK
  <1>1. CASE UNCHANGED <<ch, buf, ledger>> /\ Sent' = Sent
    BY <1>1 DEF Out
  <1>2. ASSUME NEW r \in Requests,
               row[r] = "checked", ch' = Append(ch, r),
               UNCHANGED <<buf, ledger>>, Sent' = Sent \cup {r}
        PROVE  ledger' = ledger /\ Out' = Out
    <2>1. r \notin Sent /\ RowsOf(ch') = RowsOf(ch) \cup {r}
      BY <1>0, <1>2, AppendRow DEF Sent, In
    <2>2. QED
      BY <1>2, <2>1 DEF Out
  <1>3. CASE Receive /\ Sent' = Sent
    <2>1. /\ ch # <<>> /\ ch' = Tail(ch) /\ buf' = Append(buf, Head(ch))
          /\ ledger' = ledger
      BY <1>3 DEF Receive
    <2>2. /\ Head(ch) \in RowsOf(ch) /\ Head(ch) \in Requests
          /\ RowsOf(ch') = RowsOf(ch) \ {Head(ch)}
      BY <1>0, <2>1, TakeRow DEF EachRowOnce
    <2>3. RowsOf(buf') = RowsOf(buf) \cup {Head(ch)}
      BY <1>0, <2>1, <2>2, AppendRow
    <2>4. QED
      BY <1>3, <2>1, <2>2, <2>3 DEF Out
  <1>4. QED
    BY <1>1, <1>2, <1>3, RowsMove

\* A batch is done with as a whole; what was in the table stays there.
LEMMA WriteEnds ==
  ASSUME TypeOK, EachRowOnce, [Next]_vars, WriteSucceeds \/ WriteFails
  PROVE  /\ Out' = Out \cup RowsOf(buf) /\ Out \cap RowsOf(buf) = {}
         /\ \A r \in Requests : InLedger(r) => InLedger(r)'
         /\ WriteSucceeds => \A r \in RowsOf(buf) : InLedger(r)'
  <1>1. ch' = ch /\ buf' = <<>> /\ row' = row
    BY DEF WriteSucceeds, WriteFails, Written
  <1>2. RowsOf(ch') = RowsOf(ch) /\ RowsOf(buf') = {} /\ Sent' = Sent
    BY <1>1 DEF RowsOf, Sent, In
  <1>3. Out' = Out \cup RowsOf(buf)
    BY <1>2 DEF Out, EachRowOnce
  <1>4. ledger \subseteq ledger'
    BY InsertedRows DEF WriteSucceeds, WriteFails
  <1>5. ASSUME WriteSucceeds, NEW r \in RowsOf(buf) PROVE InLedger(r)'
    <2>1. PICK i \in DOMAIN buf : r = buf[i]
      BY <1>5 DEF RowsOf
    <2>2. ledger' = Inserted(buf)
      BY <1>5 DEF WriteSucceeds
    <2>3. \E q \in ledger' : RequestID[q] = RequestID[r]
      BY <2>1, <2>2, InsertedIDs
    <2>4. QED
      BY <2>3 DEF InLedger
  <1>6. QED
    BY <1>3, <1>4, <1>5 DEF InLedger, Out

LEMMA BooksKeptStep ==
  ASSUME TypeOK, TypeOK', EachRowOnce, BooksKept, [Next]_vars
  PROVE  BooksKept'
  <1>0. /\ Out \subseteq Requests /\ Billed \subseteq Requests
        /\ Unbilled \subseteq Requests /\ Out' \subseteq Requests
        /\ Billed' \subseteq Requests /\ Unbilled' \subseteq Requests
    BY DEF Out, Billed, Unbilled, Sent, In
  <1>1. /\ stats.failed \in Nat /\ stats.written \in Nat
        /\ Cardinality(Billed) \in Nat /\ Cardinality(Unbilled) \in Nat
        /\ Cardinality(Billed)' \in Nat /\ Cardinality(Unbilled)' \in Nat
    BY <1>0, RequestsCounted DEF TypeOK, Counters
  <1>2. CASE ~(WriteSucceeds \/ WriteFails)
    <2>1. /\ stats'.failed = stats.failed /\ stats'.written = stats.written
      <3>1. stats \in Counters
        BY DEF TypeOK
      <3>2. ASSUME NEW r \in Requests, Handler(r)
            PROVE  stats'.failed = stats.failed /\ stats'.written = stats.written
        BY <3>1, <3>2 DEF Handler, Check, Send, Count, Counters
      <3>3. CASE Receive \/ Flush \/ Drain \/ Closer \/ UNCHANGED vars
        BY <3>3 DEF Receive, Flush, Drain, Closer, BeginClose, CloseChannel,
                    FinishClose, vars
      <3>4. QED
        BY <1>2, <3>2, <3>3 DEF Next, Writer
    <2>2. Billed' = Billed /\ Unbilled' = Unbilled
      BY <1>2, OutStays DEF Billed, Unbilled, InLedger
    <2>3. QED
      BY <2>1, <2>2 DEF BooksKept
  <1>3. CASE WriteSucceeds \/ WriteFails
    <2> DEFINE n == Len(buf)
    <2>1. /\ n \in Nat /\ Cardinality(RowsOf(buf)) = n
          /\ RowsOf(buf) \subseteq Requests
      <3>1. buf \in Seq(Requests)
        BY DEF TypeOK
      <3>2. n \in Nat /\ Cardinality(RowsOf(buf)) = n
        BY <3>1, RowsCounted DEF EachRowOnce
      <3>3. QED
        BY <3>1, <3>2 DEF RowsOf
    <2>2. /\ Out' = Out \cup RowsOf(buf)
          /\ Billed \cap RowsOf(buf) = {} /\ Unbilled \cap RowsOf(buf) = {}
          /\ Billed \subseteq Billed'
          /\ Unbilled' \subseteq Unbilled \cup RowsOf(buf)
      BY <1>0, <1>3, WriteEnds DEF Billed, Unbilled
    <2>3. /\ Cardinality(Billed \cup RowsOf(buf)) = Cardinality(Billed) + n
          /\ Cardinality(Unbilled \cup RowsOf(buf)) = Cardinality(Unbilled) + n
      BY <1>0, <2>1, <2>2, DisjointUnion
    <2>4. CASE WriteSucceeds
      <3>1. stats'.failed = stats.failed /\ stats'.written = stats.written + n
        BY <2>4 DEF WriteSucceeds, Written, TypeOK, Counters
      <3>2. \A r \in RowsOf(buf) : InLedger(r)'
        BY <2>4, WriteEnds
      <3>3. /\ Billed \cup RowsOf(buf) \subseteq Billed'
            /\ Unbilled' \subseteq Unbilled
        BY <2>2, <3>2 DEF Billed, Unbilled
      <3>4. /\ Cardinality(Billed \cup RowsOf(buf)) <= Cardinality(Billed)'
            /\ Cardinality(Unbilled)' <= Cardinality(Unbilled)
        BY <1>0, <3>3, NoMoreThan
      <3>5. QED
        BY <1>1, <2>1, <2>3, <3>1, <3>4 DEF BooksKept
    <2>5. CASE WriteFails
      <3>1. stats'.failed = stats.failed + n /\ stats'.written = stats.written
        BY <2>5 DEF WriteFails, Written, TypeOK, Counters
      <3>2. /\ Cardinality(Billed) <= Cardinality(Billed)'
            /\ Cardinality(Unbilled)' <= Cardinality(Unbilled \cup RowsOf(buf))
        BY <1>0, <2>1, <2>2, NoMoreThan
      <3>3. QED
        BY <1>1, <2>1, <2>3, <3>1, <3>2 DEF BooksKept
    <2>6. QED
      BY <1>3, <2>4, <2>5
  <1>4. QED
    BY <1>2, <1>3

-----------------------------------------------------------------------------
(* The meter implements UsageLedger. *)

FateMap == [r \in Requests |-> FateOf(r)]

\* A row that no one has sent yet is owed, until its handler is done.
LEMMA FateBeforeSending ==
  ASSUME EachRowOnce, NEW r \in Requests, row[r] \notin {"sent", "enqueued"}
  PROVE  FateOf(r) = IF row[r] \in {"serving", "checked"} THEN "owed" ELSE "lost"
  <1>1. r \notin ledger /\ r \notin InFlight
    BY InFlightRows DEF EachRowOnce, Sent, In
  <1>2. QED
    BY <1>1 DEF FateOf

\* A row that was sent is where it is.
LEMMA FateInMemory ==
  ASSUME EachRowOnce, NEW r \in InFlight
  PROVE  FateOf(r) = "held"
  <1>1. r \notin ledger /\ row[r] \notin {"serving", "checked"}
    BY InFlightRows DEF EachRowOnce, Sent, In
  <1>2. QED
    BY <1>1 DEF FateOf

LEMMA FateStays ==
  ASSUME UNCHANGED <<ch, buf, ledger>>, NEW q \in Requests, row'[q] = row[q]
  PROVE  FateOf(q)' = FateOf(q)
  BY DEF FateOf, InFlight

\* The fate of one row changes.
LEMMA OneFate ==
  ASSUME NEW r \in Requests, NEW v, FateOf(r)' = v,
         \A q \in Requests : q # r => FateOf(q)' = FateOf(q)
  PROVE  FateMap' = [FateMap EXCEPT ![r] = v]
  BY DEF FateMap

LEMMA HandlerSettles ==
  ASSUME TypeOK, ClosedInOrder, EachRowOnce, EachRowOnce',
         NEW r \in Requests, Handler(r)
  PROVE  Contract!Next \/ UNCHANGED Contract!vars
  <1> DEFINE Discarded == /\ FateOf(r) = "owed"
                          /\ FateMap' = [FateMap EXCEPT ![r] = "lost"]
  <1>0. /\ row \in [Requests -> RowStates] /\ closer' = closer
        /\ \A q \in Requests : q # r => row'[q] = row[q]
    BY DEF Handler, Check, Send, Count, SetRow, TypeOK
  <1>1. Discarded => Contract!Next
    BY <1>0 DEF Contract!Next, Contract!Discard, FateMap
  <1>2. UNCHANGED FateMap => UNCHANGED Contract!vars
    BY <1>0 DEF Contract!vars, FateMap
  <1>3. ASSUME UNCHANGED <<ch, buf, ledger>>
        PROVE  \A q \in Requests : q # r => FateOf(q)' = FateOf(q)
    BY <1>0, <1>3, FateStays
  <1>4. ASSUME UNCHANGED <<ch, buf, ledger>>,
               row[r] \in {"serving", "checked"},
               row'[r] \in {"late", "dropped", "panicked"}
        PROVE  Discarded
    <2>1. FateOf(r) = "owed"
      BY <1>4, FateBeforeSending
    <2>2. FateOf(r)' = "lost"
      <3>1. r \notin ledger' /\ r \notin InFlight'
        BY <1>4, InFlightRows DEF EachRowOnce, Sent, In, InFlight, RowsOf
      <3>2. QED
        BY <1>4, <3>1 DEF FateOf
    <2>3. QED
      BY <1>3, <1>4, <2>1, <2>2, OneFate
  <1>5. CASE Check(r)
    <2>1. /\ UNCHANGED <<ch, buf, ledger>> /\ row[r] = "serving"
          /\ row'[r] = IF closing THEN "late" ELSE "checked"
      BY <1>0, <1>5 DEF Check, SetRow
    <2>2. CASE closing
      BY <1>1, <1>4, <2>1, <2>2
    <2>3. CASE ~closing
      <3>1. FateOf(r) = "owed"
        BY <2>1, FateBeforeSending
      <3>2. FateOf(r)' = FateOf(r)
        BY <2>1, <2>3, <3>1 DEF FateOf, InFlight
      <3>3. QED
        BY <1>2, <1>3, <2>1, <3>2 DEF FateMap
    <2>4. QED
      BY <2>2, <2>3
  <1>6. CASE Send(r)
    <2>1. row[r] = "checked" /\ UNCHANGED <<buf, ledger>>
      BY <1>6 DEF Send
    <2>2. CASE row'[r] \in {"panicked", "dropped"} /\ UNCHANGED ch
      BY <1>1, <1>4, <2>1, <2>2
    <2>3. CASE ~chClosed /\ row'[r] = "sent" /\ ch' = Append(ch, r)
      <3>1. closer # "closed"
        BY <2>3 DEF ClosedInOrder
      <3>2. FateOf(r) = "owed"
        BY <2>1, FateBeforeSending
      <3>3. /\ RowsOf(ch') = RowsOf(ch) \cup {r}
            /\ r \notin ledger
        BY <2>1, <2>3, AppendRow DEF TypeOK, EachRowOnce, Sent, In
      <3>4. InFlight' = InFlight \cup {r}
        BY <2>1, <3>3 DEF InFlight, RowsOf
      <3>5. FateOf(r)' = "held"
        BY <2>1, <2>3, <3>3, <3>4 DEF FateOf
      <3>6. \A q \in Requests : q # r => FateOf(q)' = FateOf(q)
        BY <1>0, <2>1, <3>4 DEF FateOf
      <3>7. FateMap' = [FateMap EXCEPT ![r] = "held"]
        BY <3>5, <3>6, OneFate
      <3>8. QED
        BY <1>0, <3>1, <3>2, <3>7 DEF Contract!Next, Contract!Hold, FateMap
    <2>4. QED
      BY <1>0, <1>6, <2>2, <2>3 DEF Send, SetRow
  <1>7. CASE Count(r)
    <2>1. /\ UNCHANGED <<ch, buf, ledger>>
          /\ row[r] = "sent" /\ row'[r] = "enqueued"
      BY <1>0, <1>7 DEF Count, SetRow
    <2>2. FateOf(r)' = FateOf(r)
      BY <2>1 DEF FateOf, InFlight
    <2>3. QED
      BY <1>2, <1>3, <2>1, <2>2 DEF FateMap
  <1>8. QED
    BY <1>5, <1>6, <1>7 DEF Handler

\* A batch that is given up settles all its rows at once.
LEMMA WriteSettles ==
  ASSUME TypeOK, ClosedInOrder, EachRowOnce, WriteSucceeds \/ WriteFails
  PROVE  Contract!Next
  <1> DEFINE S == RowsOf(buf)
             B == ledger' \ ledger
  <1>1. /\ UNCHANGED <<row, closer, ch>> /\ buf' = <<>>
        /\ closer # "closed"
    BY DEF WriteSucceeds, WriteFails, Written, ClosedInOrder
  <1>2. /\ S \subseteq Requests /\ B \subseteq S
        /\ ledger \subseteq ledger' /\ ledger' \subseteq ledger \cup S
    <2>1. S \subseteq Requests
      BY DEF TypeOK, RowsOf
    <2>2. QED
      BY <2>1, InsertedRows DEF WriteSucceeds, WriteFails
  <1>3. InFlight' = RowsOf(ch)
    BY <1>1 DEF InFlight, RowsOf
  <1>4. \A r \in S : FateOf(r) = "held"
    BY InFlightRows, FateInMemory
  <1>s. \A r \in S : row'[r] \in {"sent", "enqueued"} /\ r \notin InFlight'
    BY <1>1, <1>3 DEF EachRowOnce, Sent, In
  <1>5. \A r \in Requests :
          FateOf(r)' = IF r \in B THEN "booked"
                       ELSE IF r \in S THEN "lost" ELSE FateOf(r)
    <2> SUFFICES ASSUME NEW r \in Requests
                 PROVE  FateOf(r)' = IF r \in B THEN "booked"
                                     ELSE IF r \in S THEN "lost" ELSE FateOf(r)
      OBVIOUS
    <2>1. CASE r \in B
      <3>1. r \in ledger' /\ row'[r] \in {"sent", "enqueued"} /\ r \notin InFlight'
        BY <1>2, <1>s, <2>1
      <3>2. FateOf(r)' = "booked"
        BY <3>1 DEF FateOf
      <3>3. QED
        BY <2>1, <3>2
    <2>2. CASE r \in S \ B
      <3>1. /\ r \notin ledger' /\ r \notin InFlight'
            /\ row'[r] \in {"sent", "enqueued"}
        BY <1>s, <2>2, InFlightRows DEF EachRowOnce
      <3>2. FateOf(r)' = "lost"
        BY <3>1 DEF FateOf
      <3>3. QED
        BY <2>2, <3>2
    <2>3. CASE r \notin S
      <3>1. /\ r \in ledger' <=> r \in ledger
            /\ r \in InFlight' <=> r \in InFlight
        BY <1>2, <1>3, <2>3, InFlightRows
      <3>2. FateOf(r)' = FateOf(r)
        BY <1>1, <3>1 DEF FateOf
      <3>3. QED
        BY <1>2, <2>3, <3>2
    <2>4. QED
      BY <2>1, <2>2, <2>3
  <1>6. Contract!Settle(S, B)
    BY <1>1, <1>2, <1>4, <1>5 DEF Contract!Settle
  <1>7. QED
    BY <1>2, <1>6 DEF Contract!Next

LEMMA MeterSettles ==
  ASSUME TypeOK, ClosedInOrder, EachRowOnce, EachRowOnce', [Next]_vars
  PROVE  [Contract!Next]_(Contract!vars)
  <1>1. ASSUME UNCHANGED <<row, InFlight, ledger>>
        PROVE  UNCHANGED FateMap
    BY <1>1 DEF FateMap, FateOf
  <1>2. CASE \E r \in Requests : Handler(r)
    BY <1>2, HandlerSettles
  <1>3. CASE Receive
    <2>1. /\ ch # <<>> /\ ch' = Tail(ch) /\ buf' = Append(buf, Head(ch))
          /\ UNCHANGED <<row, closer, ledger>>
      BY <1>3 DEF Receive
    <2>2. /\ ch \in Seq(Requests) /\ buf \in Seq(Requests)
      BY DEF TypeOK
    <2>3. /\ Head(ch) \in RowsOf(ch) /\ Head(ch) \in Requests
          /\ RowsOf(ch') = RowsOf(ch) \ {Head(ch)}
      BY <2>1, <2>2, TakeRow DEF EachRowOnce
    <2>4. RowsOf(buf') = RowsOf(buf) \cup {Head(ch)}
      BY <2>1, <2>2, <2>3, AppendRow
    <2>5. InFlight' = RowsOf(ch') \cup RowsOf(buf')
      BY DEF InFlight, RowsOf
    <2>6. UNCHANGED InFlight
      BY <2>3, <2>4, <2>5, InFlightRows
    <2>7. QED
      BY <1>1, <2>1, <2>6 DEF Contract!vars, FateMap
  <1>4. CASE WriteSucceeds \/ WriteFails
    BY <1>4, WriteSettles
  <1>5. CASE Flush \/ Drain \/ BeginClose \/ CloseChannel \/ UNCHANGED vars
    <2>1. /\ UNCHANGED <<row, ch, buf, ledger>>
          /\ (closer' = "closed") = (closer = "closed")
      BY <1>5 DEF Flush, Drain, BeginClose, CloseChannel, vars
    <2>2. UNCHANGED InFlight
      BY <2>1 DEF InFlight
    <2>3. QED
      BY <1>1, <2>1, <2>2 DEF Contract!vars, FateMap
  <1>6. CASE FinishClose
    <2>1. /\ UNCHANGED <<row, ch, buf, ledger>> /\ closer' = "closed"
          /\ ch = <<>> /\ buf = <<>>
      BY <1>6 DEF FinishClose, ClosedInOrder
    <2>2. InFlight = {} /\ UNCHANGED InFlight
      BY <2>1 DEF InFlight
    <2>3. \A r \in Requests : FateOf(r) # "held"
      BY <2>2 DEF FateOf
    <2>4. QED
      BY <1>1, <2>1, <2>2, <2>3 DEF Contract!Next, Contract!Shut, FateMap
  <1>7. QED
    BY <1>2, <1>3, <1>4, <1>5, <1>6 DEF Next, Writer, Closer

-----------------------------------------------------------------------------
LedgerInv == TypeOK /\ ClosedInOrder /\ EachRowOnce

LEMMA LedgerInvariant == Spec => []LedgerInv
  <1>1. Init => ClosedInOrder /\ EachRowOnce
    BY DEF Init, ClosedInOrder, EachRowOnce, NoRepeats, RowsOf
  <1>2. TypeOK /\ ClosedInOrder /\ EachRowOnce /\ [Next]_vars
          => ClosedInOrder' /\ EachRowOnce'
    BY MeterClosesInOrder, EachRowOnceStep
  <1>3. QED
    BY <1>1, <1>2, MeterTypeCorrect, PTL DEF Spec, LedgerInv

(* A row is settled once and never changes again, and no row is in memory    *)
(* when the meter is closed: the channel, the batches and the shutdown of    *)
(* meter.go implement the ledger that UsageLedger promises                   *)
(* (meter.go:104-197).                                                       *)
THEOREM MeterImplementsLedger == Spec => LedgerContract
  <1>1. Init => Contract!Init
    <2> SUFFICES ASSUME Init PROVE Contract!Init
      OBVIOUS
    <2>1. \A r \in Requests : FateOf(r) = "owed"
      BY DEF Init, FateOf, InFlight
    <2>2. QED
      BY <2>1 DEF Contract!Init, Init
  <1>2. LedgerInv /\ LedgerInv' /\ [Next]_vars => [Contract!Next]_(Contract!vars)
    BY MeterSettles DEF LedgerInv
  <1>3. QED
    BY <1>1, <1>2, LedgerInvariant, PTL DEF Spec, LedgerContract, Contract!Spec

LEMMA BooksInvariant == Spec => []BooksKept
  <1>1. Init => BooksKept
    <2> SUFFICES ASSUME Init PROVE BooksKept
      OBVIOUS
    <2>1. Billed = {} /\ Unbilled = {}
      BY DEF Init, Billed, Unbilled, Out, Sent, In
    <2>2. QED
      BY <2>1, FS_EmptySet DEF Init, BooksKept
  <1>2. LedgerInv /\ LedgerInv' /\ BooksKept /\ [Next]_vars => BooksKept'
    BY BooksKeptStep DEF LedgerInv
  <1>3. QED
    BY <1>1, <1>2, LedgerInvariant, PTL DEF Spec

(* "INSERT ... ON CONFLICT (request_id) DO NOTHING" (postgres.go:63): the    *)
(* table never has two rows with one id, whichever ids clients choose, in    *)
(* one batch or in several, and whichever inserts report an error.           *)
THEOREM LedgerHasOneRowPerID == Spec => []OneRowPerID
  <1>1. Init => OneRowPerID
    BY DEF Init, OneRowPerID
  <1>2. TypeOK /\ OneRowPerID /\ [Next]_vars => OneRowPerID'
    <2> SUFFICES ASSUME TypeOK, OneRowPerID, [Next]_vars PROVE OneRowPerID'
      OBVIOUS
    <2>1. ledger' = ledger \/ ledger' = Inserted(buf)
      BY DEF Next, Handler, Check, Send, Count, Writer, Receive, Flush, Drain,
             WriteSucceeds, WriteFails, Closer, BeginClose, CloseChannel,
             FinishClose, vars
    <2>2. CASE ledger' = ledger
      BY <2>2 DEF OneRowPerID
    <2>3. CASE ledger' = Inserted(buf)
      BY <2>3, InsertedOnce DEF OneRowPerID
    <2>4. QED
      BY <2>1, <2>2, <2>3
  <1>3. QED
    BY <1>1, <1>2, MeterTypeCorrect, PTL DEF Spec

\* The set that WrittenArePersisted counts.
LEMMA BilledRows ==
  ASSUME TypeOK
  PROVE  Billed = {r \in Requests : /\ row[r] \in {"sent", "enqueued"}
                                    /\ r \notin InFlight /\ InLedger(r)}
  BY InFlightRows DEF Billed, Out, Sent, In

(* "Written is records successfully persisted" (meter.go:49): whatever the   *)
(* sink does, and whichever ids clients choose, the table has the id of as   *)
(* many rows as are counted.                                                 *)
THEOREM WrittenRowsArePersisted == Spec => []WrittenArePersisted
  <1>1. TypeOK /\ BooksKept => WrittenArePersisted
    BY BilledRows DEF BooksKept, WrittenArePersisted
  <1>2. QED
    BY <1>1, BooksInvariant, MeterTypeCorrect, PTL

(* "Drops are counted so the gap is visible rather than silent"              *)
(* (meter.go:107-108): but for late records, and for rows the table refused  *)
(* because it has one with their id, no more rows are lost than the counters *)
(* say.                                                                      *)
THEOREM EveryLossIsCounted == Spec => []LossesCounted
  <1>1. LedgerInv /\ RowsAccounted /\ BooksKept => LossesCounted
    <2> SUFFICES ASSUME LedgerInv, RowsAccounted, BooksKept
                 PROVE  LossesCounted
      OBVIOUS
    <2> DEFINE Lost == {r \in Requests :
                          /\ FateOf(r) = "lost" /\ ~InLedger(r)
                          /\ row[r] \notin {"late", "panicked"}}
    <2>1. Lost \subseteq Unbilled \cup In("dropped")
      <3> SUFFICES ASSUME NEW r \in Lost, row[r] # "dropped"
                   PROVE  r \in Unbilled
        BY DEF In
      <3>1. r \notin InFlight
        BY DEF FateOf
      <3>2. row[r] \in {"sent", "enqueued"}
        BY DEF FateOf, LedgerInv, TypeOK, RowStates
      <3>3. QED
        BY <3>1, <3>2, InFlightRows DEF Unbilled, Out, Sent, In
    <2>2. /\ Unbilled \subseteq Requests /\ In("dropped") \subseteq Requests
          /\ Unbilled \cap In("dropped") = {}
      BY DEF Unbilled, Out, Sent, In
    <2>3. /\ Cardinality(Lost) \in Nat /\ Cardinality(Unbilled) \in Nat
      BY <2>2, RequestsCounted
    <2>4. Cardinality(Lost) <= Cardinality(Unbilled \cup In("dropped"))
      BY <2>1, <2>2, NoMoreThan
    <2>5. Cardinality(Unbilled \cup In("dropped"))
            = Cardinality(Unbilled) + Cardinality(In("dropped"))
      BY <2>2, DisjointUnion
    <2>6. Cardinality(In("dropped")) = stats.dropped
      BY DEF RowsAccounted
    <2>7. stats.dropped \in Nat /\ stats.failed \in Nat
      BY DEF LedgerInv, TypeOK, Counters
    <2> HIDE DEF Lost
    <2>8. Cardinality(Lost) <= stats.dropped + stats.failed
      BY <2>3, <2>4, <2>5, <2>6, <2>7 DEF BooksKept
    <2>9. QED
      BY <2>8 DEF LossesCounted, Lost
  <1>2. QED
    BY <1>1, LedgerInvariant, MeterRowsAccounted, BooksInvariant, PTL

-----------------------------------------------------------------------------
(* As long as no two requests have the same id. *)

DistinctIDs ==
  \A r, s \in Requests : RequestID[r] = RequestID[s] => r = s

LEMMA OwnRow ==
  ASSUME DistinctIDs, TypeOK, NEW r \in Requests
  PROVE  InLedger(r) <=> r \in ledger
  BY DEF DistinctIDs, TypeOK, InLedger

LEMMA BilledAreBooked ==
  ASSUME DistinctIDs, TypeOK
  PROVE  Billed \subseteq ledger
  BY OwnRow DEF Billed, Out, Sent, In

(* Where ids differ, the table has as many rows as are counted as written,   *)
(* and every row that the writer is done with and the table does not have    *)
(* is counted as failed (meter.go:49-52, 166-181).                           *)
THEOREM DistinctRowsAreBooked ==
  ASSUME DistinctIDs
  PROVE  Spec => [](/\ stats.written <= Cardinality(ledger)
                    /\ Cardinality(Out \ ledger) <= stats.failed)
  <1>1. TypeOK /\ BooksKept
          => /\ stats.written <= Cardinality(ledger)
             /\ Cardinality(Out \ ledger) <= stats.failed
    <2> SUFFICES ASSUME TypeOK, BooksKept
                 PROVE  /\ stats.written <= Cardinality(ledger)
                        /\ Cardinality(Out \ ledger) <= stats.failed
      OBVIOUS
    <2>1. ledger \subseteq Requests /\ Billed \subseteq Requests
      BY DEF TypeOK, Billed, Out, Sent, In
    <2>2. /\ Cardinality(Billed) <= Cardinality(ledger)
          /\ Cardinality(Billed) \in Nat /\ Cardinality(ledger) \in Nat
      BY <2>1, BilledAreBooked, NoMoreThan, RequestsCounted
    <2>3. Out \ ledger = Unbilled
      BY OwnRow DEF Unbilled, Out, Sent, In
    <2>4. stats.written \in Nat
      BY DEF TypeOK, Counters
    <2>5. QED
      BY <2>2, <2>3, <2>4 DEF BooksKept
  <1>2. QED
    BY <1>1, BooksInvariant, MeterTypeCorrect, PTL
=============================================================================
