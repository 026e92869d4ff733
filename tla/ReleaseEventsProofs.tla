----------------------- MODULE ReleaseEventsProofs -----------------------
(***************************************************************************)
(* What is proved of ReleaseEvents for every set of writers and of events  *)
(* and every page size: an INSERT drops nothing but duplicates, because    *)
(* the lock on the row of the release makes the MAX a writer has read the  *)
(* length of the log until it inserts; and a client has a prefix of the    *)
(* log, because the log only grows and the cursor is what the client has.  *)
(***************************************************************************)
EXTENDS ReleaseEvents, TLAPS

LEMMA InitHolds == Init => IInv
<1> SUFFICES ASSUME Init PROVE IInv
  OBVIOUS
<1>1. TypeOK
  BY DEF Init, TypeOK, TxTypes, StreamTypes, Keys
<1>2. RecordedOnce /\ ReceivedIsPrefix /\ TxHoldsLock /\ CursorIsReceived
  BY DEF Init, RecordedOnce, ReceivedIsPrefix, TxHoldsLock, CursorIsReceived
<1> QED
  BY <1>1, <1>2 DEF IInv

\* What is in a log stays in it when it grows.
LEMMA AppendContains ==
  ASSUME NEW s \in Seq(Keys), NEW k \in Keys
  PROVE  /\ Contains(Append(s, k), k)
         /\ \A e : Contains(s, e) => Contains(Append(s, k), e)
<1>1. Append(s, k) \in Seq(Keys) /\ Len(Append(s, k)) = Len(s) + 1
  OBVIOUS
<1>2. Append(s, k)[Len(s) + 1] = k /\ \A i \in 1 .. Len(s) : Append(s, k)[i] = s[i]
  OBVIOUS
<1> QED
  BY <1>1, <1>2 DEF Contains

-----------------------------------------------------------------------------
\* A writer goes to "lock" with a key: it holds nothing yet.
LEMMA RecordStep ==
  ASSUME IInv, NEW w \in Writers, NEW key \in Keys, Record(w, key),
         state' \in {"Pending", "InProgress", "Terminal"}
  PROVE  IInv'
<1> DEFINE t == [pc |-> "lock", key |-> key, max |-> 0]
<1>1. t \in TxTypes /\ tx' = [tx EXCEPT ![w] = t]
  BY DEF TxTypes, Record
<1>2. TypeOK'
  BY <1>1 DEF IInv, TypeOK, Record
<1>3. RecordedOnce' /\ TxHoldsLock'
  BY <1>1 DEF IInv, TypeOK, RecordedOnce, TxHoldsLock, Record
<1>4. ReceivedIsPrefix' /\ CursorIsReceived'
  BY DEF IInv, ReceivedIsPrefix, CursorIsReceived, Record
<1> QED
  BY <1>2, <1>3, <1>4 DEF IInv

LEMMA LockStep == ASSUME IInv, NEW w \in Writers, Lock(w) PROVE IInv'
<1>1. TypeOK'
  BY DEF IInv, TypeOK, Lock, TxTypes
<1>2. RecordedOnce' /\ TxHoldsLock'
  BY DEF IInv, TypeOK, RecordedOnce, TxHoldsLock, Lock, TxTypes
<1>3. ReceivedIsPrefix' /\ CursorIsReceived'
  BY DEF IInv, ReceivedIsPrefix, CursorIsReceived, Lock
<1> QED
  BY <1>1, <1>2, <1>3 DEF IInv

LEMMA ReadMaxStep == ASSUME IInv, NEW w \in Writers, ReadMax(w) PROVE IInv'
<1>1. Len(log) \in Nat
  BY DEF IInv, TypeOK
<1>2. TypeOK'
  BY <1>1 DEF IInv, TypeOK, ReadMax, TxTypes
<1>3. RecordedOnce' /\ TxHoldsLock'
  BY <1>1 DEF IInv, TypeOK, RecordedOnce, TxHoldsLock, ReadMax, TxTypes
<1>4. ReceivedIsPrefix' /\ CursorIsReceived'
  BY DEF IInv, ReceivedIsPrefix, CursorIsReceived, ReadMax
<1> QED
  BY <1>2, <1>3, <1>4 DEF IInv

\* No other writer is between its lock and its commit: the MAX read is current,
\* and a conflict can only be one of the dedupe key.
LEMMA InsertStep == ASSUME IInv, NEW w \in Writers, Insert(w) PROVE IInv'
<1> DEFINE k == tx[w].key
<1>1. log \in Seq(Keys) /\ k \in Keys /\ tx[w].max = Len(log)
  BY DEF IInv, TypeOK, TxTypes, TxHoldsLock, Insert
<1>2. \A v \in Writers \ {w} : tx[v].pc \notin {"read", "insert"}
  BY DEF IInv, TxHoldsLock, Insert
<1>3. tx' = [tx EXCEPT ![w].pc = "done"] /\ lock' = lock \ {w}
  BY DEF Insert
<1>4. \A v \in Writers : /\ tx'[v].key = tx[v].key
                         /\ tx'[v].pc = IF v = w THEN "done" ELSE tx[v].pc
  BY <1>3 DEF IInv, TypeOK, TxTypes
<1>5. TxHoldsLock'
  BY <1>2, <1>4 DEF TxHoldsLock
<1>6. CASE Contains(log, k)
  <2>1. log' = log
    BY <1>6 DEF Insert
  <2>2. TypeOK'
    BY <1>3, <2>1 DEF IInv, TypeOK, TxTypes, Insert
  <2>3. RecordedOnce'
    BY <1>4, <1>6, <2>1 DEF IInv, RecordedOnce
  <2>4. ReceivedIsPrefix' /\ CursorIsReceived'
    BY <2>1 DEF IInv, ReceivedIsPrefix, CursorIsReceived, Insert
  <2> QED
    BY <1>5, <2>2, <2>3, <2>4 DEF IInv
<1>7. CASE ~Contains(log, k)
  <2>1. log' = Append(log, k)
    BY <1>1, <1>7 DEF Insert
  <2>2. log' \in Seq(Keys) /\ Len(log') = Len(log) + 1 /\ log'[Len(log) + 1] = k
        /\ \A i \in 1 .. Len(log) : log'[i] = log[i]
    BY <1>1, <2>1
  <2>3. TypeOK'
    BY <1>3, <2>2 DEF IInv, TypeOK, TxTypes, Insert
  <2>4. \A v \in Writers : tx'[v].pc = "done" => Contains(log', tx'[v].key)
    BY <1>1, <1>4, <2>1, AppendContains DEF IInv, RecordedOnce
  <2>5. ASSUME NEW i \in 1 .. Len(log'), NEW j \in 1 .. Len(log'), log'[i] = log'[j]
        PROVE  i = j
    <3>1. \A n \in 1 .. Len(log) : log[n] # k
      BY <1>7 DEF Contains
    <3>2. \A m, n \in 1 .. Len(log) : log[m] = log[n] => m = n
      BY DEF IInv, RecordedOnce
    <3>3. Len(log) \in Nat
      BY <1>1
    <3> QED
      BY <2>2, <2>5, <3>1, <3>2, <3>3
  <2>6. ReceivedIsPrefix' /\ CursorIsReceived'
    <3>1. Len(log) \in Nat /\ Len(received) \in Nat /\ stream.upto \in Nat
      BY <1>1 DEF IInv, TypeOK, StreamTypes
    <3>2. UNCHANGED <<received, stream>>
      BY DEF Insert
    <3> QED
      BY <2>2, <3>1, <3>2 DEF IInv, ReceivedIsPrefix, CursorIsReceived
  <2> QED
    BY <1>5, <2>3, <2>4, <2>5, <2>6 DEF IInv, RecordedOnce
<1> QED
  BY <1>6, <1>7

LEMMA LoseStep == ASSUME IInv, NEW w \in Writers, Lose(w) PROVE IInv'
<1>1. TypeOK'
  BY DEF IInv, TypeOK, Lose, TxTypes
<1>2. RecordedOnce' /\ TxHoldsLock'
  BY DEF IInv, TypeOK, RecordedOnce, TxHoldsLock, Lose, TxTypes
<1>3. ReceivedIsPrefix' /\ CursorIsReceived'
  BY DEF IInv, ReceivedIsPrefix, CursorIsReceived, Lose
<1> QED
  BY <1>1, <1>2, <1>3 DEF IInv

LEMMA WriterStep == ASSUME IInv, NEW w \in Writers, Writer(w) PROVE IInv'
<1>1. CASE StartRelease(w)
  BY <1>1, RecordStep DEF StartRelease, Keys
<1>2. CASE EndRelease(w)
  BY <1>2, RecordStep DEF EndRelease, Keys
<1>3. CASE Report(w)
  BY <1>3, RecordStep DEF Report, Keys, IInv, TypeOK
<1> QED
  BY <1>1, <1>2, <1>3, LockStep, ReadMaxStep, InsertStep, LoseStep DEF Writer

-----------------------------------------------------------------------------
\* The steps of the streamer and its client leave the log and its writers alone.
LEMMA StreamStep ==
  ASSUME IInv, UNCHANGED <<state, log, lock, tx>>,
         stream' \in StreamTypes, received' \in Seq(Keys),
         ReceivedIsPrefix', CursorIsReceived'
  PROVE  IInv'
<1>1. TypeOK' /\ RecordedOnce' /\ TxHoldsLock'
  BY DEF IInv, TypeOK, RecordedOnce, TxHoldsLock
<1> QED
  BY <1>1 DEF IInv

LEMMA PollStep == ASSUME IInv, Poll PROVE IInv'
<1>1. stream \in StreamTypes /\ Len(log) \in Nat /\ stream.cursor \in Nat
      /\ stream.cursor = Len(received) /\ Limit \in Nat \ {0}
  BY LimitAssumption DEF IInv, TypeOK, StreamTypes, CursorIsReceived, Poll
<1>2. ReceivedIsPrefix'
  BY DEF IInv, ReceivedIsPrefix, Poll
<1>3. CASE Len(log) > stream.cursor
  <2>1. Smaller(Len(log), stream.cursor + Limit) \in Nat
        /\ stream.cursor < Smaller(Len(log), stream.cursor + Limit)
        /\ Smaller(Len(log), stream.cursor + Limit) <= Len(log)
    BY <1>1, <1>3 DEF Smaller
  <2>2. stream' = [stream EXCEPT !.pc = "send", !.terminalSeen = FALSE,
                                 !.upto = Smaller(Len(log), stream.cursor + Limit)]
        /\ UNCHANGED <<log, received>>
    BY <1>3 DEF Poll
  <2>3. stream' \in StreamTypes /\ CursorIsReceived'
    BY <1>1, <2>1, <2>2 DEF StreamTypes, CursorIsReceived
  <2> QED
    BY <1>2, <2>3, StreamStep DEF Poll, IInv, TypeOK
<1>4. CASE ~(Len(log) > stream.cursor)
  <2>1. stream' = [stream EXCEPT !.pc = "check"] /\ UNCHANGED <<log, received>>
    BY <1>4 DEF Poll
  <2>2. stream' \in StreamTypes /\ CursorIsReceived'
    BY <1>1, <2>1 DEF StreamTypes, CursorIsReceived
  <2> QED
    BY <1>2, <2>2, StreamStep DEF Poll, IInv, TypeOK
<1> QED
  BY <1>3, <1>4

LEMMA SendStep == ASSUME IInv, Send PROVE IInv'
<1>1. /\ stream \in StreamTypes /\ stream.pc = "send"
      /\ stream.cursor = Len(received)
      /\ stream.cursor < stream.upto /\ stream.upto <= Len(log)
      /\ log \in Seq(Keys) /\ received \in Seq(Keys)
  BY DEF IInv, TypeOK, CursorIsReceived, Send
<1>2. Len(received) \in Nat /\ Len(log) \in Nat /\ stream.upto \in Nat
  BY <1>1 DEF StreamTypes
<1>3. log[Len(received) + 1] \in Keys
  BY <1>1, <1>2
<1>4. received' = Append(received, log[Len(received) + 1])
  BY <1>1 DEF Send
<1>5. /\ received' \in Seq(Keys)
      /\ Len(received') = Len(received) + 1
      /\ received'[Len(received) + 1] = log[Len(received) + 1]
      /\ \A i \in 1 .. Len(received) : received'[i] = received[i]
  BY <1>1, <1>3, <1>4
<1>6. /\ stream'.cursor = Len(received')
      /\ stream'.upto = stream.upto
      /\ stream'.pc \in {"poll", "send"}
      /\ stream'.pc = "send" => stream.cursor + 1 # stream.upto
      /\ stream' \in StreamTypes
  <2>1. PICK pc \in {"poll", "send"} :
          pc = IF stream.cursor + 1 = stream.upto THEN "poll" ELSE stream.pc
    BY <1>1
  <2>2. stream' = [stream EXCEPT !.cursor = stream.cursor + 1, !.pc = pc]
    BY <2>1 DEF Send
  <2>3. stream.cursor + 1 \in Nat
    BY <1>1, <1>2
  <2> QED
    BY <1>1, <1>5, <2>1, <2>2, <2>3 DEF StreamTypes
<1>7. ReceivedIsPrefix'
  <2>1. Len(received') <= Len(log)
    BY <1>1, <1>2, <1>5
  <2>2. \A i \in 1 .. Len(received') : received'[i] = log[i]
    BY <1>2, <1>5 DEF IInv, ReceivedIsPrefix
  <2> QED
    BY <2>1, <2>2 DEF ReceivedIsPrefix, Send
<1>8. CursorIsReceived'
  BY <1>1, <1>2, <1>5, <1>6 DEF CursorIsReceived, Send
<1> QED
  BY <1>5, <1>6, <1>7, <1>8, StreamStep DEF Send

LEMMA CheckStep == ASSUME IInv, Check PROVE IInv'
<1>1. stream' \in StreamTypes /\ CursorIsReceived'
  BY DEF IInv, TypeOK, StreamTypes, CursorIsReceived, Check
<1> QED
  BY <1>1, StreamStep DEF IInv, TypeOK, ReceivedIsPrefix, Check

\* A lost frame leaves the client with a shorter prefix.
LEMMA DisconnectStep == ASSUME IInv, Disconnect PROVE IInv'
<1>1. stream' \in StreamTypes /\ CursorIsReceived'
  BY DEF IInv, TypeOK, StreamTypes, CursorIsReceived, Disconnect
<1>2. received' \in Seq(Keys) /\ ReceivedIsPrefix'
  <2>1. received \in Seq(Keys) /\ Len(received) \in Nat /\ log \in Seq(Keys) /\ Len(log) \in Nat
    BY DEF IInv, TypeOK
  <2>2. CASE received # <<>> /\ received' = Front(received)
    <3>1. Len(received) # 0
      BY <2>1, <2>2
    <3>2. received' = [i \in 1 .. Len(received) - 1 |-> received[i]]
      BY <2>1, <2>2, <3>1 DEF Front
    <3>3. received' \in Seq(Keys) /\ Len(received') = Len(received) - 1
      BY <2>1, <3>1, <3>2
    <3> QED
      BY <2>1, <3>1, <3>2, <3>3 DEF IInv, ReceivedIsPrefix, Disconnect
  <2> QED
    BY <2>1, <2>2 DEF IInv, ReceivedIsPrefix, Disconnect
<1> QED
  BY <1>1, <1>2, StreamStep DEF Disconnect

LEMMA ConnectStep == ASSUME IInv, Connect PROVE IInv'
<1>1. Len(received) \in Nat
  BY DEF IInv, TypeOK
<1>2. stream' \in StreamTypes /\ CursorIsReceived'
  BY <1>1 DEF StreamTypes, CursorIsReceived, Connect
<1> QED
  BY <1>2, StreamStep DEF IInv, TypeOK, ReceivedIsPrefix, Connect

LEMMA NextKeeps == IInv /\ [Next]_vars => IInv'
<1> SUFFICES ASSUME IInv, [Next]_vars PROVE IInv'
  OBVIOUS
<1>1. CASE UNCHANGED vars
  BY <1>1, StreamStep DEF vars, IInv, TypeOK, ReceivedIsPrefix, CursorIsReceived
<1> QED
  BY <1>1, WriterStep, PollStep, SendStep, CheckStep, DisconnectStep, ConnectStep
  DEF Next, Streamer

-----------------------------------------------------------------------------
\* The inductive invariant holds in every reachable state.
THEOREM Invariance == Spec => []IInv
<1>1. Init => IInv
  BY InitHolds
<1>2. IInv /\ [Next]_vars => IInv'
  BY NextKeeps
<1> QED
  BY <1>1, <1>2, PTL DEF Spec

\* Whenever InsertWithTx returns without an error, the event it was given is in
\* the log, once, however many writers record at the same time: the row lock of
\* the release makes ON CONFLICT DO NOTHING safe.
THEOREM NothingDropped == Spec => []RecordedOnce
<1>1. IInv => RecordedOnce
  BY DEF IInv
<1> QED
  BY <1>1, Invariance, PTL

\* What a client has received is a prefix of the log, through any page size, any
\* number of disconnections and any lost last frame.
THEOREM StreamIsPrefix == Spec => []ReceivedIsPrefix
<1>1. IInv => ReceivedIsPrefix
  BY DEF IInv
<1> QED
  BY <1>1, Invariance, PTL

-----------------------------------------------------------------------------
\* The release only moves on, so that what has happened stays so.
LEMMA WritersReportStep ==
  ASSUME IInv, WritersReport, [Next]_vars
  PROVE  WritersReport'
<1>1. ASSUME UNCHANGED <<state, tx>> PROVE WritersReport'
  BY <1>1 DEF WritersReport, Timeline!Happened
<1>2. ASSUME NEW w \in Writers, NEW key \in Keys, Record(w, key),
             state # "Pending" => state' # "Pending", state = "Terminal" => state' = "Terminal",
             key = "started" => state' # "Pending", key = "terminal" => state' = "Terminal"
      PROVE  WritersReport'
  <2>1. \A v \in Writers : tx'[v].key = IF v = w THEN key ELSE tx[v].key
    BY <1>2 DEF IInv, TypeOK, Record
  <2>2. \A v \in Writers \ {w} : tx'[v].pc = tx[v].pc
    BY <1>2 DEF IInv, TypeOK, Record
  <2> QED BY <1>2, <2>1, <2>2 DEF WritersReport, Timeline!Happened
<1>3. ASSUME NEW w \in Writers, Writer(w) PROVE WritersReport'
  <2>1. CASE StartRelease(w)
    BY <2>1, <1>2 DEF StartRelease, Keys
  <2>2. CASE EndRelease(w)
    BY <2>2, <1>2 DEF EndRelease, Keys
  <2>3. CASE Report(w)
    BY <2>3, <1>2, ReportsAssumption DEF Report, Keys
  <2>4. CASE Lock(w) \/ ReadMax(w) \/ Insert(w) \/ Lose(w)
    <3>1. tx[w].pc # "idle" /\ UNCHANGED state
      BY <2>4 DEF Lock, ReadMax, Insert, Lose
    <3>2. \A v \in Writers : tx'[v].key = tx[v].key
      <4> USE DEF IInv, TypeOK
      <4>1. CASE Lock(w) BY <4>1 DEF Lock
      <4>2. CASE ReadMax(w)
        <5>1. tx' = [tx EXCEPT ![w] = [tx[w] EXCEPT !.pc = "insert", !.max = Len(log)]]
          BY <4>2 DEF ReadMax
        <5>2. tx[w] \in TxTypes
          OBVIOUS
        <5>3. [tx[w] EXCEPT !.pc = "insert", !.max = Len(log)].key = tx[w].key
          BY <5>2 DEF TxTypes
        <5> QED BY <5>1, <5>3
      <4>3. CASE Insert(w) BY <4>3 DEF Insert
      <4>4. CASE Lose(w) BY <4>4 DEF Lose
      <4> QED BY <2>4, <4>1, <4>2, <4>3, <4>4
    <3>3. \A v \in Writers \ {w} : tx'[v].pc = tx[v].pc
      BY <2>4 DEF Lock, ReadMax, Insert, Lose, IInv, TypeOK, TxTypes
    <3> QED BY <3>1, <3>2, <3>3 DEF WritersReport, Timeline!Happened
  <2> QED BY <1>3, <2>1, <2>2, <2>3, <2>4 DEF Writer
<1>4. CASE Streamer \/ Disconnect \/ Connect \/ UNCHANGED vars
  BY <1>1, <1>4 DEF Streamer, Poll, Send, Check, Disconnect, Connect, vars
<1> QED BY <1>3, <1>4 DEF Next

\* A step of a writer starts or ends the release, records its event, or is not seen.
LEMMA WriterMaps ==
  ASSUME IInv, WritersReport, NEW w \in Writers, Writer(w)
  PROVE  [Timeline!Next]_(Timeline!vars)
<1>1. CASE StartRelease(w)
  BY <1>1 DEF StartRelease, Record, Timeline!Next, Timeline!Start
<1>2. CASE EndRelease(w)
  BY <1>2 DEF EndRelease, Record, Timeline!Next, Timeline!End
<1>3. CASE Insert(w)
  <2>1. CASE log' = log
    BY <1>3, <2>1 DEF Insert, Timeline!vars
  <2>2. CASE ~Contains(log, tx[w].key) /\ log' = Append(log, tx[w].key)
    <3>1. tx[w].key \in Timeline!Events
      BY DEF IInv, TypeOK, TxTypes, Keys, Timeline!Events
    <3>2. Timeline!Happened(tx[w].key)
      BY <1>3 DEF Insert, WritersReport
    <3>3. ~Timeline!Contains(log, tx[w].key)
      BY <2>2 DEF Contains, Timeline!Contains
    <3> QED BY <1>3, <2>2, <3>1, <3>2, <3>3 DEF Insert, Timeline!Next, Timeline!Record
  <2> QED BY <1>3, <2>1, <2>2 DEF Insert
<1>4. CASE Report(w) \/ Lock(w) \/ ReadMax(w) \/ Lose(w)
  BY <1>4 DEF Report, Record, Lock, ReadMax, Lose, Timeline!vars
<1> QED BY <1>1, <1>2, <1>3, <1>4 DEF Writer

\* The cursor is what the client has, so that it is sent the next event.
LEMMA StreamMaps ==
  ASSUME IInv, Streamer \/ Disconnect \/ Connect
  PROVE  [Timeline!Next]_(Timeline!vars)
<1>1. CASE Send
  <2>1. stream.cursor = Len(received) /\ stream.cursor < stream.upto /\ stream.upto <= Len(log)
    BY <1>1 DEF Send, IInv, CursorIsReceived
  <2>2. Len(received) \in Nat /\ Len(log) \in Nat /\ stream.upto \in Nat
    BY DEF IInv, TypeOK, StreamTypes
  <2>3. Timeline!Receive
    BY <1>1, <2>1, <2>2 DEF Send, Timeline!Receive
  <2> QED BY <2>3 DEF Timeline!Next
<1>2. CASE Disconnect
  BY <1>2 DEF Disconnect, Timeline!Next, Timeline!LoseLast, Timeline!vars, Front, Timeline!Front
<1>3. CASE Poll \/ Check \/ Connect
  BY <1>3 DEF Poll, Check, Connect, Timeline!vars
<1> QED BY <1>1, <1>2, <1>3 DEF Streamer

\* The writers, their transactions and the stream implement the timeline, for any writers,
\* reports and page size: the log only grows, by events that are new and have happened,
\* and whatever connection the client has, it receives the next one.
THEOREM TimelineImplemented == Spec => ImplementsTimeline
<1>1. Init => WritersReport /\ Timeline!Init
  BY DEF Init, WritersReport, Timeline!Init
<1>2. IInv /\ WritersReport /\ [Next]_vars => WritersReport'
  BY WritersReportStep
<1>3. IInv /\ WritersReport /\ [Next]_vars => [Timeline!Next]_(Timeline!vars)
  <2> SUFFICES ASSUME IInv, WritersReport, [Next]_vars
               PROVE  [Timeline!Next]_(Timeline!vars)
    OBVIOUS
  <2>1. CASE UNCHANGED vars
    BY <2>1 DEF vars, Timeline!vars
  <2> QED BY <2>1, WriterMaps, StreamMaps DEF Next
<1> QED BY <1>1, <1>2, <1>3, Invariance, PTL DEF Spec, ImplementsTimeline, Timeline!Spec

=============================================================================
