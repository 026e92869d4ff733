-------------------------- MODULE AddonLifecycle --------------------------
(***************************************************************************)
(* What the platform promises of a PostgreSQL addon, with no calls, queue  *)
(* or worker in sight.                                                     *)
(*                                                                         *)
(* The row of an addon goes the way from live to deleted once, and stays   *)
(* gone.  Its PostgresCluster is made while there is a row, in             *)
(* surroundings that were made before, is taken down only after the addon  *)
(* was found unused, and does not go on running without a row.  The        *)
(* surroundings, among them its namespace and secrets, are left behind.    *)
(*                                                                         *)
(* PostgresAddon is shown to implement this module.                        *)
(***************************************************************************)
VARIABLES
  row,          \* "live", "deleting", "none"
  cluster,      \* "none", "live", "terminating"
  surroundings, \* there is something of what is made around the cluster
  used,         \* a stack refers to the addon
  approved,     \* it was found unused and is being taken down
  raced         \* history: it came into use after that

vars == <<row, cluster, surroundings, used, approved, raced>>

Init ==
  /\ row = "live" /\ cluster = "none" /\ surroundings = FALSE
  /\ used = FALSE /\ approved = FALSE /\ raced = FALSE

Delete ==
  /\ row = "live"
  /\ row' = "deleting"
  /\ UNCHANGED <<cluster, surroundings, used, approved, raced>>

\* From here on nothing is made in the cluster, until the addon is spared.
Approve ==
  /\ row = "deleting"
  /\ ~used
  /\ approved' = TRUE
  /\ UNCHANGED <<row, cluster, surroundings, used, raced>>

Spare ==
  /\ approved' = FALSE
  /\ UNCHANGED <<row, cluster, surroundings, used, raced>>

Remove ==
  /\ approved
  /\ cluster # "live"
  /\ row' = "none"
  /\ approved' = FALSE
  /\ UNCHANGED <<cluster, surroundings, used, raced>>

-----------------------------------------------------------------------------
Surround ==
  /\ row # "none"
  /\ ~approved
  /\ surroundings' = TRUE
  /\ UNCHANGED <<row, cluster, used, approved, raced>>

Make ==
  /\ row # "none"
  /\ ~approved
  /\ surroundings
  /\ cluster = "none" /\ cluster' = "live"
  /\ UNCHANGED <<row, surroundings, used, approved, raced>>

TakeDown ==
  /\ approved
  /\ cluster = "live" /\ cluster' = "terminating"
  /\ UNCHANGED <<row, surroundings, used, approved, raced>>

Gone ==
  /\ cluster = "terminating" /\ cluster' = "none"
  /\ UNCHANGED <<row, surroundings, used, approved, raced>>

Use ==
  /\ used' = TRUE
  /\ raced' = (raced \/ row = "none" \/ approved)
  /\ UNCHANGED <<row, cluster, surroundings, approved>>

Release ==
  /\ used' = FALSE
  /\ UNCHANGED <<row, cluster, surroundings, approved, raced>>

Next ==
  \/ Delete \/ Approve \/ Spare \/ Remove
  \/ Surround \/ Make \/ TakeDown \/ Gone
  \/ Use \/ Release

Spec == Init /\ [][Next]_vars

-----------------------------------------------------------------------------
\* An addon whose row is gone has no database running, and it has had none without
\* the surroundings that are left.
NothingRuns == (row = "none" => cluster # "live") /\ (cluster # "none" => surroundings)

\* Not so: nobody takes the surroundings away, before the row goes or after it.
NothingLeft == row = "none" /\ cluster = "none" => ~surroundings

=============================================================================
