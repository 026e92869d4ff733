----------------------------- MODULE LeasePool -----------------------------
(***************************************************************************)
(* What the platform promises of managed compute, with no transactions,    *)
(* locks or second looks in sight.                                         *)
(*                                                                         *)
(* An organisation is issued one lease, ever, and only while the pool has  *)
(* room; room is given back when the platform has cleaned up.  A call      *)
(* relies on the lease of its organisation only while that is in force, by *)
(* itself, and no cleaning begins before it has ended.                     *)
(*                                                                         *)
(* ComputeAccess is shown to implement this module.                        *)
(***************************************************************************)
EXTENDS Naturals, FiniteSets

CONSTANTS
  Organisations,
  Calls,      \* calls that consume compute
  Capacity,   \* how many leases there is room for
  Duration,   \* of an entitlement; 0: it does not expire
  Times,
  Never       \* no time

VARIABLES
  startsAt,   \* startsAt[o]: when the entitlement of o starts, Never if it has none
  lease,      \* lease[o]: "none", "active", "cleaning", "cleaned"
  relies      \* relies[c]: what call c relies on: an organisation's lease, seen at a time

vars == <<startsAt, lease, relies>>

Init ==
  /\ startsAt = [o \in Organisations |-> Never]
  /\ lease = [o \in Organisations |-> "none"]
  /\ relies = [c \in Calls |-> {}]

InForce(o, now) ==
  /\ lease[o] = "active"
  /\ startsAt[o] <= now
  /\ Duration > 0 => now < startsAt[o] + Duration

Occupied == {o \in Organisations : lease[o] \in {"active", "cleaning"}}

Unused(o) == \A c \in Calls : \A use \in relies[c] : use.org # o

-----------------------------------------------------------------------------
Issue(o) ==
  /\ lease[o] = "none"
  /\ Cardinality(Occupied) < Capacity
  /\ lease' = [lease EXCEPT ![o] = "active"]
  /\ \E now \in Times : startsAt' = [startsAt EXCEPT ![o] = now]
  /\ UNCHANGED relies

Rely(c, o) ==
  /\ \E now \in Times :
       /\ InForce(o, now)
       /\ relies' = [relies EXCEPT ![c] = {[org |-> o, now |-> now]}]
  /\ relies[c] = {}
  /\ Unused(o)
  /\ UNCHANGED <<startsAt, lease>>

Finish(c) ==
  /\ relies[c] # {}
  /\ relies' = [relies EXCEPT ![c] = {}]
  /\ UNCHANGED <<startsAt, lease>>

CleanUp(o) ==
  /\ \/ lease[o] = "active" /\ lease' = [lease EXCEPT ![o] = "cleaning"]
     \/ lease[o] = "cleaning" /\ lease' = [lease EXCEPT ![o] = "cleaned"]
  /\ Unused(o)
  /\ UNCHANGED <<startsAt, relies>>

Next ==
  \/ \E o \in Organisations : Issue(o) \/ CleanUp(o)
  \/ \E c \in Calls : Finish(c) \/ \E o \in Organisations : Rely(c, o)

Spec == Init /\ [][Next]_vars

=============================================================================
