-------------------------- MODULE ReleaseEvents --------------------------
(***************************************************************************)
(* The timeline of one release: the transactions that record its events    *)
(* and one client that follows it over server-sent events                  *)
(* (pkg/services/release_event_recorder.go, release_event_streamer.go,     *)
(* pkg/stores/pgstore/release_event.go).                                   *)
(*                                                                         *)
(* An event is its dedupe key.  release_events has two unique indexes, on  *)
(* (release, sequence) and on (release, dedupe key), and INSERT does       *)
(* nothing on a conflict with either; since a new row always has the       *)
(* sequence MAX + 1, the committed rows are a sequence of keys.            *)
(*                                                                         *)
(* A writer is a goroutine: a worker that ends or starts the release, a    *)
(* handler that cancels it, a controller that reports on a resource.  It   *)
(* changes the state of the release first and records the event in a       *)
(* transaction of its own afterwards.  The module starts when the release  *)
(* and its first event have been created, by one transaction.              *)
(***************************************************************************)
EXTENDS Naturals, Sequences, SequencesExt

CONSTANTS
  Writers,   \* goroutines that record events
  Reports,   \* dedupe keys of build and resource events
  Limit      \* rows the streamer reads at a time (releaseEventsMaxLimit)

ASSUME LimitAssumption == Limit \in Nat \ {0}
ASSUME ReportsAssumption == Reports \cap {"created", "started", "terminal"} = {}

Keys == Reports \cup {"created", "started", "terminal"}

VARIABLES
  state,      \* of the release: "Pending", "InProgress" or "Terminal"
  log,        \* committed rows of release_events, by sequence
  lock,       \* the writers whose transaction has the row of the release locked
  tx,         \* tx[w]: the event writer w is recording
  stream,     \* the streamer's goroutine
  received    \* what the client has received

vars == <<state, log, lock, tx, stream, received>>

\* "done" is a writer whose INSERT has returned without an error.
TxTypes == [pc : {"idle", "lock", "read", "insert", "done"},
            key : Keys, max : Nat]

\* The rows up to "upto" have been read and are being sent.
StreamTypes == [pc : {"poll", "send", "check", "ended", "gone"},
                cursor : Nat, upto : Nat, terminalSeen : BOOLEAN]

TypeOK ==
  /\ state \in {"Pending", "InProgress", "Terminal"}
  /\ log \in Seq(Keys)
  /\ lock \in SUBSET Writers
  /\ tx \in [Writers -> TxTypes]
  /\ stream \in StreamTypes
  /\ received \in Seq(Keys)

Init ==
  /\ state = "Pending"
  /\ log = <<"created">>
  /\ lock = {}
  /\ tx = [w \in Writers |-> [pc |-> "idle", key |-> "created", max |-> 0]]
  /\ stream = [pc |-> "poll", cursor |-> 0, upto |-> 0, terminalSeen |-> FALSE]
  /\ received = <<>>

-----------------------------------------------------------------------------
(***************************************************************************)
(* Writers.                                                                *)
(***************************************************************************)
\* Writer w has an event to record.
Record(w, key) ==
  /\ tx[w].pc \in {"idle", "done"}
  /\ tx' = [tx EXCEPT ![w] = [pc |-> "lock", key |-> key, max |-> 0]]
  /\ UNCHANGED <<log, lock, stream, received>>

\* MarkInProgress.  An UPDATE of the row waits for the transaction that has it locked.
StartRelease(w) ==
  /\ lock = {}
  /\ state = "Pending"
  /\ state' = "InProgress"
  /\ Record(w, "started")

\* The conditional UPDATEs that end the release: only the one that does records the event.
EndRelease(w) ==
  /\ lock = {}
  /\ state # "Terminal"
  /\ state' = "Terminal"
  /\ Record(w, "terminal")

\* Controllers report on the resources of a release whatever its state.
Report(w) == (\E key \in Reports : Record(w, key)) /\ UNCHANGED state

\* Seeded fault: MAX is read without locking the row of the release.
LockNothing(w) ==
  /\ tx[w].pc = "lock"
  /\ tx' = [tx EXCEPT ![w].pc = "read"]
  /\ UNCHANGED <<state, log, lock, stream, received>>

\* SELECT ... FOR UPDATE of the row of the release.
Lock(w) ==
  /\ tx[w].pc = "lock"
  /\ lock = {}
  /\ lock' = {w}
  /\ tx' = [tx EXCEPT ![w].pc = "read"]
  /\ UNCHANGED <<state, log, stream, received>>

\* SELECT COALESCE(MAX(sequence), 0).
ReadMax(w) ==
  /\ tx[w].pc = "read"
  /\ tx' = [tx EXCEPT ![w].pc = "insert", ![w].max = Len(log)]
  /\ UNCHANGED <<state, log, lock, stream, received>>

\* INSERT ... ON CONFLICT DO NOTHING, and the commit.
Insert(w) ==
  /\ tx[w].pc = "insert"
  /\ log' = IF tx[w].max < Len(log) \/ Contains(log, tx[w].key)
              THEN log
              ELSE Append(log, tx[w].key)
  /\ lock' = lock \ {w}
  /\ tx' = [tx EXCEPT ![w].pc = "done"]
  /\ UNCHANGED <<state, stream, received>>

\* The transaction fails or its goroutine dies: recording is best effort.
Lose(w) ==
  /\ tx[w].pc \in {"lock", "read", "insert"}
  /\ tx' = [tx EXCEPT ![w].pc = "idle"]
  /\ lock' = lock \ {w}
  /\ UNCHANGED <<state, log, stream, received>>

-----------------------------------------------------------------------------
(***************************************************************************)
(* The streamer and its client.  The timers between two polls only delay   *)
(* the next one: they are not modelled.                                    *)
(***************************************************************************)
Smaller(m, n) == IF m < n THEN m ELSE n

\* Seeded fault: the cursor is moved past the page when it is read, so a page
\* that is full hides the rows behind it.
PollSkips ==
  /\ stream.pc = "poll"
  /\ IF Len(log) > stream.cursor
       THEN stream' = [stream EXCEPT !.pc = "send", !.upto = Len(log), !.terminalSeen = FALSE,
                                     !.cursor = Len(log) - Smaller(Len(log) - @, Limit)]
       ELSE stream' = [stream EXCEPT !.pc = "check"]
  /\ UNCHANGED <<state, log, lock, tx, received>>

\* ListByReleaseID: the rows after the cursor, at most Limit of them.  A page
\* with rows in it asks for a fresh pair of empty polls before the end.
Poll ==
  /\ stream.pc = "poll"
  /\ IF Len(log) > stream.cursor
       THEN stream' = [stream EXCEPT !.pc = "send", !.terminalSeen = FALSE,
                                     !.upto = Smaller(Len(log), stream.cursor + Limit)]
       ELSE stream' = [stream EXCEPT !.pc = "check"]
  /\ UNCHANGED <<state, log, lock, tx, received>>

\* One row of the page reaches the client.
Send ==
  /\ stream.pc = "send"
  /\ received' = Append(received, log[stream.cursor + 1])
  /\ stream' = [stream EXCEPT !.cursor = @ + 1,
                              !.pc = IF stream.cursor + 1 = stream.upto THEN "poll" ELSE @]
  /\ UNCHANGED <<state, log, lock, tx>>

\* Seeded fault: the empty poll is not remembered, so there is never a second.
CheckForgets ==
  /\ stream.pc = "check"
  /\ stream' = [stream EXCEPT !.pc = IF state = "Terminal" /\ stream.terminalSeen
                                       THEN "ended" ELSE "poll"]
  /\ UNCHANGED <<state, log, lock, tx, received>>

\* After an empty poll: the second one in a row that finds the release terminal
\* ends the stream.
Check ==
  /\ stream.pc = "check"
  /\ stream' = IF state = "Terminal" /\ stream.terminalSeen
                 THEN [stream EXCEPT !.pc = "ended"]
                 ELSE [stream EXCEPT !.pc = "poll", !.terminalSeen = (state = "Terminal")]
  /\ UNCHANGED <<state, log, lock, tx, received>>

\* The client goes away, or a query fails.  The last row sent may be lost.
Disconnect ==
  /\ stream.pc \notin {"ended", "gone"}
  /\ stream' = [stream EXCEPT !.pc = "gone"]
  /\ \/ UNCHANGED received
     \/ received # <<>> /\ received' = Front(received)
  /\ UNCHANGED <<state, log, lock, tx>>

\* A client asks for the rows after the last one it has received.
Connect ==
  /\ stream.pc \in {"ended", "gone"}
  /\ stream' = [pc |-> "poll", cursor |-> Len(received), upto |-> 0, terminalSeen |-> FALSE]
  /\ UNCHANGED <<state, log, lock, tx, received>>

-----------------------------------------------------------------------------
Writer(w) ==
  \/ StartRelease(w) \/ EndRelease(w) \/ Report(w)
  \/ Lock(w) \/ ReadMax(w) \/ Insert(w) \/ Lose(w)

Streamer == Poll \/ Send \/ Check

Next == (\E w \in Writers : Writer(w)) \/ Streamer \/ Disconnect \/ Connect

Spec == Init /\ [][Next]_vars

\* The goroutine of the streamer runs; nothing is assumed of writers and client.
FairSpec == Spec /\ WF_vars(Streamer)

-----------------------------------------------------------------------------
(***************************************************************************)
(* Properties.                                                             *)
(***************************************************************************)

\* ON CONFLICT DO NOTHING hides nothing but duplicates: when an INSERT returns
\* without an error the event is in the log, whoever recorded at the same time.
RecordedOnce ==
  /\ \A w \in Writers : tx[w].pc = "done" => Contains(log, tx[w].key)
  /\ \A i, j \in 1 .. Len(log) : log[i] = log[j] => i = j

\* The client sees the log from its start, with no gap, no row twice and no row
\* out of order, across pages, disconnections and lost frames.
ReceivedIsPrefix ==
  /\ Len(received) <= Len(log)
  /\ \A i \in 1 .. Len(received) : received[i] = log[i]

\* Where the lock and the cursor are: what the two invariants above rest on.
TxHoldsLock ==
  \A w \in Writers :
    /\ tx[w].pc \in {"read", "insert"} => lock = {w}
    /\ tx[w].pc = "insert" => tx[w].max = Len(log)

CursorIsReceived ==
  /\ stream.pc \in {"poll", "send", "check", "ended"} => stream.cursor = Len(received)
  /\ stream.pc = "send" => stream.cursor < stream.upto /\ stream.upto <= Len(log)

\* The inductive invariant.
IInv == TypeOK /\ RecordedOnce /\ ReceivedIsPrefix /\ TxHoldsLock /\ CursorIsReceived

\* Nothing recorded is taken back or recorded twice, an event is never on the timeline
\* before what it reports, and a client follows it row by row: ReleaseTimeline.  What the
\* client has is a prefix of the log, therefore, and changes by the next row only.
Timeline == INSTANCE ReleaseTimeline
ImplementsTimeline == Timeline!Spec

\* A writer has an event to record only once it has happened.
WritersReport == \A w \in Writers : tx[w].pc # "idle" => Timeline!Happened(tx[w].key)

\* Bounded, never hanging: once the release is terminal the stream ends, even if
\* the event of that end was lost.
StreamEnds == state = "Terminal" ~> stream.pc \in {"ended", "gone"}

\* release_event_streamer.go:73: "so the terminal event always gets emitted before
\* close": when a stream ends, no writer still has that event to record, and the
\* client has it if it is in the log.
TerminalEventSent ==
  stream.pc = "ended" =>
    /\ \A w \in Writers : ~(tx[w].key = "terminal" /\ tx[w].pc \in {"lock", "read", "insert"})
    /\ Contains(log, "terminal") => Contains(received, "terminal")

=============================================================================
