-------------------------- MODULE ReleaseTimeline --------------------------
(***************************************************************************)
(* What the hub promises of the timeline of one release, with no writers,  *)
(* transactions, pages or connections in sight.                            *)
(*                                                                         *)
(* The timeline only grows, by one event at a time that is not on it yet   *)
(* and that reports what has happened.  A client follows it from its       *)
(* start: what it has received grows by the next event, or loses the last  *)
(* one when its connection breaks.                                         *)
(*                                                                         *)
(* ReleaseEvents is shown to implement this module.                        *)
(***************************************************************************)
EXTENDS Naturals, Sequences, SequencesExt

CONSTANT Reports   \* events of builds and resources

Events == Reports \cup {"created", "started", "terminal"}

VARIABLES
  state,      \* of the release: "Pending", "InProgress" or "Terminal"
  log,        \* the events recorded, in their order
  received    \* those that the client has

vars == <<state, log, received>>

Init ==
  /\ state = "Pending"
  /\ log = <<"created">>
  /\ received = <<>>

-----------------------------------------------------------------------------
Start == state = "Pending" /\ state' = "InProgress" /\ UNCHANGED <<log, received>>

End == state # "Terminal" /\ state' = "Terminal" /\ UNCHANGED <<log, received>>

\* What event e reports has happened.  A release may end before it starts, and what a
\* report says of the cluster is not looked into.
Happened(e) ==
  /\ e = "started" => state # "Pending"
  /\ e = "terminal" => state = "Terminal"

Record(e) ==
  /\ Happened(e)
  /\ ~Contains(log, e)
  /\ log' = Append(log, e)
  /\ UNCHANGED <<state, received>>

Receive ==
  /\ Len(received) < Len(log)
  /\ received' = Append(received, log[Len(received) + 1])
  /\ UNCHANGED <<state, log>>

LoseLast ==
  /\ received # <<>>
  /\ received' = Front(received)
  /\ UNCHANGED <<state, log>>

Next == Start \/ End \/ (\E e \in Events : Record(e)) \/ Receive \/ LoseLast

Spec == Init /\ [][Next]_vars

=============================================================================
