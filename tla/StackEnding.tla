---------------------------- MODULE StackEnding ----------------------------
(***************************************************************************)
(* What the platform promises of the end of a stack, with no queue, worker *)
(* or failure in sight.                                                    *)
(*                                                                         *)
(* A stack goes from the outside in: its namespace, in which it runs, then *)
(* its row, then the rows of its volumes, the row of the namespace last.   *)
(* Nothing is taken from a stack that nobody deleted, but for volumes that *)
(* are deleted by calls of their own, which are left out, and what is gone *)
(* does not come back.                                                     *)
(*                                                                         *)
(* StackTeardown is shown to implement this module.                        *)
(***************************************************************************)
CONSTANT
  Volumes

VARIABLES
  stack,        \* the row of the stack: "live", "deleting", "none"
  namespace,    \* "none", "live", "terminating"
  occupied,     \* something is in the namespace
  rows,         \* volumes with a row
  namespaceRow  \* the namespace has a row

vars == <<stack, namespace, occupied, rows, namespaceRow>>

Init ==
  /\ stack = "live" /\ namespace = "none" /\ occupied = FALSE
  /\ rows = {} /\ namespaceRow = TRUE

-----------------------------------------------------------------------------
(***************************************************************************)
(* The rows.                                                               *)
(***************************************************************************)
Delete ==
  /\ stack = "live" /\ stack' = "deleting"
  /\ UNCHANGED <<namespace, occupied, rows, namespaceRow>>

Forget ==
  /\ namespace # "live"
  /\ stack = "deleting" /\ stack' = "none"
  /\ UNCHANGED <<namespace, occupied, rows, namespaceRow>>

\* Also to a stack that is being deleted.
AddVolume(v) ==
  /\ stack # "none"
  /\ rows' = rows \cup {v}
  /\ UNCHANGED <<stack, namespace, occupied, namespaceRow>>

DropVolume(v) ==
  /\ stack = "none"
  /\ rows' = rows \ {v}
  /\ UNCHANGED <<stack, namespace, occupied, namespaceRow>>

DropNamespace ==
  /\ stack = "none"
  /\ rows = {}
  /\ namespaceRow' = FALSE
  /\ UNCHANGED <<stack, namespace, occupied, rows>>

-----------------------------------------------------------------------------
(***************************************************************************)
(* The namespace and what is in it.                                        *)
(***************************************************************************)
Open ==
  /\ stack # "none"
  /\ namespace = "none" /\ namespace' = "live"
  /\ UNCHANGED <<stack, occupied, rows, namespaceRow>>

Fill ==
  /\ namespace = "live"
  /\ occupied' = TRUE
  /\ UNCHANGED <<stack, namespace, rows, namespaceRow>>

Clear ==
  /\ stack = "deleting"
  /\ occupied' = FALSE
  /\ UNCHANGED <<stack, namespace, rows, namespaceRow>>

Close ==
  /\ stack = "deleting"
  /\ namespace = "live" /\ namespace' = "terminating"
  /\ UNCHANGED <<stack, occupied, rows, namespaceRow>>

Gone ==
  /\ namespace = "terminating" /\ namespace' = "none"
  /\ occupied' = FALSE
  /\ UNCHANGED <<stack, rows, namespaceRow>>

Next ==
  \/ Delete \/ Forget \/ DropNamespace
  \/ \E v \in Volumes : AddVolume(v) \/ DropVolume(v)
  \/ Open \/ Fill \/ Clear \/ Close \/ Gone

Spec == Init /\ [][Next]_vars

-----------------------------------------------------------------------------
\* Without a row of its namespace, nothing of a stack is left: no row of the stack or
\* of a volume, no namespace but one that is going, and nothing in it once it is gone.
NothingBehind ==
  ~namespaceRow =>
    /\ stack = "none" /\ rows = {}
    /\ namespace # "live"
    /\ namespace = "none" => ~occupied

=============================================================================
