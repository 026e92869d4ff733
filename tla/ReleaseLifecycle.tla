------------------------- MODULE ReleaseLifecycle -------------------------
(***************************************************************************)
(* What the hub promises about the releases of ONE stack, with no worker,  *)
(* no queue and no cluster API in sight.                                   *)
(*                                                                         *)
(* A release is named by its sequence number, the pair (stack_id, sequence)*)
(* being unique in stack_releases.  It is created Pending, may be          *)
(* cancelled while Pending, and once InProgress is rendered at most once,  *)
(* applied to the cluster, and ends in one of the terminal states.  The    *)
(* Stack resource in the cluster carries the sequence of one release and   *)
(* only ever moves to a newer one.                                         *)
(*                                                                         *)
(* ReleaseWorker is shown to implement this module.                        *)
(***************************************************************************)
EXTENDS Naturals

CONSTANT MaxReleases   \* bound on the sequence numbers ever handed out

Releases == 1 .. MaxReleases

VARIABLES
  state,      \* state[r]: the state column of release r, "None" before its INSERT
  rendered,   \* rendered[r]: release r has a manifest
  applied     \* sequence of the release the cluster's Stack resource carries, 0 if none

vars == <<state, rendered, applied>>

Active   == {"Pending", "InProgress"}
Terminal == {"Released", "Failed", "Superseded", "Cancelled"}

TypeOK ==
  /\ state \in [Releases -> Active \cup Terminal \cup {"None"}]
  /\ rendered \in [Releases -> BOOLEAN]
  /\ applied \in Releases \cup {0}

Init ==
  /\ state = [r \in Releases |-> "None"]
  /\ rendered = [r \in Releases |-> FALSE]
  /\ applied = 0

-----------------------------------------------------------------------------

\* A state change of one row; the state column is written nowhere else.
Move(r, from, to) ==
  /\ state[r] \in from
  /\ state' = [state EXCEPT ![r] = to]

\* Sequence numbers are handed out in order.  A rollback is created with the
\* manifest of the Released release it copies.
Create(r) ==
  /\ \A q \in Releases : state[q] = "None" <=> q >= r
  /\ Move(r, {"None"}, "Pending")
  /\ \/ UNCHANGED rendered
     \/ /\ \E src \in Releases : state[src] = "Released"
        /\ rendered' = [rendered EXCEPT ![r] = TRUE]
  /\ UNCHANGED applied

Cancel(r) == Move(r, {"Pending"}, "Cancelled") /\ UNCHANGED <<rendered, applied>>

Start(r) == Move(r, {"Pending"}, "InProgress") /\ UNCHANGED <<rendered, applied>>

Fail(r) == Move(r, {"InProgress"}, "Failed") /\ UNCHANGED <<rendered, applied>>

\* Only a release that has a newer sibling is ever superseded.
Supersede(r) ==
  /\ \E q \in Releases : q > r /\ state[q] # "None"
  /\ Move(r, Active, "Superseded")
  /\ UNCHANGED <<rendered, applied>>

\* A release is declared live only once the cluster has moved at least to it.
Release(r) ==
  /\ rendered[r]
  /\ applied >= r
  /\ Move(r, {"InProgress"}, "Released")
  /\ UNCHANGED <<rendered, applied>>

\* The manifest is written once, while the release is InProgress.
Render(r) ==
  /\ state[r] = "InProgress"
  /\ ~rendered[r]
  /\ rendered' = [rendered EXCEPT ![r] = TRUE]
  /\ UNCHANGED <<state, applied>>

\* The Stack resource moves forward to a rendered release still in progress, or
\* to one that was failed from outside (its stack is being deleted) mid-apply.
Apply(r) ==
  /\ state[r] \in {"InProgress", "Failed"}
  /\ rendered[r]
  /\ applied < r
  /\ applied' = r
  /\ UNCHANGED <<state, rendered>>

Next ==
  \E r \in Releases :
    \/ Create(r) \/ Cancel(r) \/ Start(r) \/ Fail(r)
    \/ Supersede(r) \/ Release(r) \/ Render(r) \/ Apply(r)

Spec == Init /\ [][Next]_vars

=============================================================================
