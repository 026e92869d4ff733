---------------------------- MODULE WakeupQueue ----------------------------
(***************************************************************************)
(* What the queue of a worker promises its goroutines, with no order of    *)
(* operands and no marks: a set of operands that are to be executed.       *)
(*                                                                         *)
(* An operand is executed by one goroutine at a time.  Waking it up while  *)
(* it is executed means that it will be executed once more, and nothing    *)
(* but the end of the process takes a wakeup back.                         *)
(*                                                                         *)
(* WorkQueue is shown to implement this module.                            *)
(***************************************************************************)
CONSTANTS
  Operands,
  Goroutines

VARIABLES
  pending,    \* operands to be executed
  executing   \* executing[g]: what goroutine g executes, an operand or nothing

vars == <<pending, executing>>

Init ==
  /\ pending = {}
  /\ executing = [g \in Goroutines |-> {}]

Wake(o) ==
  /\ pending' = pending \cup {o}
  /\ UNCHANGED executing

Take(g, o) ==
  /\ executing[g] = {}
  /\ o \in pending
  /\ \A h \in Goroutines : o \notin executing[h]
  /\ pending' = pending \ {o}
  /\ executing' = [executing EXCEPT ![g] = {o}]

Finish(g) ==
  /\ executing[g] # {}
  /\ executing' = [executing EXCEPT ![g] = {}]
  /\ UNCHANGED pending

Restart ==
  /\ pending' = {}
  /\ executing' = [g \in Goroutines |-> {}]

Next ==
  \/ \E o \in Operands : Wake(o) \/ \E g \in Goroutines : Take(g, o)
  \/ \E g \in Goroutines : Finish(g)
  \/ Restart

Spec == Init /\ [][Next]_vars

=============================================================================
