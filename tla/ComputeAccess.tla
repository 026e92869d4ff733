--------------------------- MODULE ComputeAccess ---------------------------
(***************************************************************************)
(* First use of managed compute (pkg/computeaccess/service.go,             *)
(* pkg/stores/pgstore/compute_access.go): every call that consumes compute *)
(* starts its transaction with Activate, which locks the lease of the      *)
(* organisation or, where there is none, issues an entitlement and a lease *)
(* within the capacity of the platform.  An advisory lock, held until the  *)
(* transaction ends, keeps the first uses of all organisations apart.      *)
(*                                                                         *)
(* Nothing in the repository ends a lease: that is left to the platform    *)
(* that runs it, which moves the lease towards "cleaned".                  *)
(***************************************************************************)
EXTENDS Naturals, FiniteSets

CONSTANTS
  Organisations,
  Requests,                      \* calls that consume compute
  MaxActiveSharedComputeLeases,
  Duration,                      \* of an entitlement; 0: it does not expire
  MaxTime                        \* bound on the clock

Never == MaxTime + 1

VARIABLES
  clock,      \* the time of day
  startsAt,   \* startsAt[o]: when the entitlement of o starts, Never if it has none
  lease,      \* lease[o]: the lease of o
  request     \* request[r]: a call and its transaction; "first": it holds the advisory lock

vars == <<clock, startsAt, lease, request>>

LeaseStates == {"none", "active", "cleaning", "cleaned"}  \* cleaning: cleanup_pending, cleaning, error

TypeOK ==
  /\ clock \in 0..MaxTime
  /\ startsAt \in [Organisations -> 0..Never]
  /\ lease \in [Organisations -> LeaseStates]
  /\ request \in [Requests -> [pc : {"idle", "find", "lock", "again", "granted", "issued"},
                               org : Organisations, now : 0..MaxTime, first : BOOLEAN]]
  /\ \A o \in Organisations : (lease[o] = "none") = (startsAt[o] = Never)

Init ==
  /\ clock = 0
  /\ startsAt = [o \in Organisations |-> Never]
  /\ lease = [o \in Organisations |-> "none"]
  /\ request \in [Requests -> [pc : {"idle"}, org : Organisations, now : {0}, first : {FALSE}]]

-----------------------------------------------------------------------------
InForce(o, now) ==
  /\ lease[o] = "active"
  /\ startsAt[o] <= now
  /\ Duration > 0 => now < startsAt[o] + Duration

Current(o) == lease[o] \in {"active", "cleaning"}

\* Seeded fault: the lease is read without a lock.
LockedByNobody(o) == FALSE

\* SELECT ... FOR UPDATE, until the end of the transaction.
LockedLease(o) == \E r \in Requests : request[r].pc = "granted" /\ request[r].org = o

\* Seeded fault: first uses are not serialised.
AdvisoryLockIgnored == TRUE

AdvisoryLockFree == \A r \in Requests : ~request[r].first

Begin(r) ==
  /\ request[r].pc = "idle"
  /\ request' = [request EXCEPT ![r].pc = "find", ![r].now = clock]
  /\ UNCHANGED <<clock, startsAt, lease>>

End(r) == request' = [request EXCEPT ![r].pc = "idle", ![r].now = 0, ![r].first = FALSE]

\* Access is inactive, or used up.
Refuse(r) == End(r) /\ UNCHANGED <<clock, startsAt, lease>>

\* validateComputeAccess: a lease was found, and waited for.
Validate(r) ==
  LET o == request[r].org IN
    /\ Current(o)
    /\ ~LockedLease(o)
    /\ IF InForce(o, request[r].now)
         THEN /\ request' = [request EXCEPT ![r].pc = "granted"]
              /\ UNCHANGED <<clock, startsAt, lease>>
         ELSE Refuse(r)

Find(r) ==
  /\ request[r].pc = "find"
  /\ \/ Validate(r)
     \/ /\ ~Current(request[r].org)
        /\ request' = [request EXCEPT ![r].pc = "lock"]
        /\ UNCHANGED <<clock, startsAt, lease>>

AdvisoryLock(r) ==
  /\ request[r].pc = "lock"
  /\ AdvisoryLockFree
  /\ request' = [request EXCEPT ![r].pc = "again", ![r].first = TRUE]
  /\ UNCHANGED <<clock, startsAt, lease>>

\* An entitlement without a lease was used up; otherwise both are inserted.
Issue(r) ==
  IF startsAt[request[r].org] # Never
    THEN Refuse(r)
    ELSE /\ IF Cardinality({o \in Organisations : Current(o)}) >= MaxActiveSharedComputeLeases
              THEN End(r)
              ELSE request' = [request EXCEPT ![r].pc = "issued"]
         /\ UNCHANGED <<clock, startsAt, lease>>

Activate(r) ==
  /\ request[r].pc = "again"
  /\ \/ Validate(r)
     \/ ~Current(request[r].org) /\ Issue(r)

\* The transaction ends; an insert that breaks a unique index fails.
Commit(r) ==
  /\ request[r].pc \in {"granted", "issued"}
  /\ IF request[r].pc = "issued" /\ startsAt[request[r].org] = Never
       THEN /\ startsAt' = [startsAt EXCEPT ![request[r].org] = request[r].now]
            /\ lease' = [lease EXCEPT ![request[r].org] = "active"]
       ELSE UNCHANGED <<startsAt, lease>>
  /\ End(r)
  /\ UNCHANGED clock

Rollback(r) ==
  /\ request[r].pc # "idle"
  /\ End(r)
  /\ UNCHANGED <<clock, startsAt, lease>>

-----------------------------------------------------------------------------
\* The platform cleans up after a lease.
CleanUp(o) ==
  /\ ~LockedLease(o)
  /\ \/ lease[o] = "active" /\ lease' = [lease EXCEPT ![o] = "cleaning"]
     \/ lease[o] = "cleaning" /\ lease' = [lease EXCEPT ![o] = "cleaned"]
  /\ UNCHANGED <<clock, startsAt, request>>

Tick ==
  /\ clock < MaxTime
  /\ clock' = clock + 1
  /\ UNCHANGED <<startsAt, lease, request>>

Next ==
  \/ \E r \in Requests : Begin(r) \/ Find(r) \/ AdvisoryLock(r) \/ Activate(r)
                         \/ Commit(r) \/ Rollback(r)
  \/ \E o \in Organisations : CleanUp(o)
  \/ Tick

Spec == Init /\ [][Next]_vars

-----------------------------------------------------------------------------
(***************************************************************************)
(* Properties.                                                             *)
(***************************************************************************)
Issuing == {r \in Requests : request[r].pc = "issued"}

\* The leases there are, with those about to be committed, keep to the capacity
\* of the platform, whatever organisations use compute for the first time at once.
CapacityKept ==
  /\ TypeOK
  /\ Cardinality({o \in Organisations : Current(o)}) + Cardinality(Issuing)
       <= MaxActiveSharedComputeLeases

\* While a call that was granted access runs, nobody starts to clean up after the
\* lease it relies on.
AccessHeld ==
  \A r \in Requests : request[r].pc = "granted" => InForce(request[r].org, request[r].now)

\* What a call relies on: a lease it was granted, until its transaction ends.
Relied == [r \in Requests |-> IF request[r].pc = "granted"
                                THEN {[org |-> request[r].org, now |-> request[r].now]}
                                ELSE {}]

\* Counting, checking and inserting, spread over transactions that wait for each other,
\* come to one step of the pool of leases: LeasePool.
Pool == INSTANCE LeasePool WITH
  Calls <- Requests, Capacity <- MaxActiveSharedComputeLeases, Times <- 0..MaxTime,
  relies <- Relied

ImplementsPool == Pool!Spec
=============================================================================
