-------------------------- MODULE ServicesProofs --------------------------
(***************************************************************************)
(* What the components of Services and of Building promise, for any        *)
(* organisations, users, invitations, calls, builds and bounds: of each    *)
(* component the inductive invariant, one lemma per action, and the        *)
(* theorems. ComputeAccess comes first: the advisory lock has one holder,  *)
(* which nobody else's commit comes between, and a granted call holds the  *)
(* row of its lease.                                                       *)
(*                                                                         *)
(* ComputeAccess implements LeasePool, PostgresAddon AddonLifecycle and    *)
(* OrgInvites Admission; each refinement follows the invariant it needs.   *)
(***************************************************************************)
EXTENDS Services, Building, FiniteSetTheorems, TLAPS

AccessCalls == [pc : {"idle", "find", "lock", "again", "granted", "issued"},
          org : Organisations, now : 0..MaxTime, first : BOOLEAN]

UsedLeases == {o \in Organisations : Access!Current(o)}

\* What a call that is to issue a lease has, and whoever else holds the lock.
AccessFirstUse(r) == accessRequest[r].pc \in {"again", "issued"} => accessRequest[r].first

AccessFirstOnce ==
  \A q, r \in AccessRequests : accessRequest[q].first /\ accessRequest[r].first => q = r

AccessRoomLeft ==
  /\ IsFiniteSet(UsedLeases) /\ Cardinality(UsedLeases) <= MaxActiveSharedComputeLeases
  /\ Access!Issuing # {} => Cardinality(UsedLeases) < MaxActiveSharedComputeLeases

AccessInv ==
  /\ Access!TypeOK
  /\ \A r \in AccessRequests : AccessFirstUse(r)
  /\ AccessFirstOnce
  /\ Access!AccessHeld
  /\ AccessRoomLeft

-----------------------------------------------------------------------------
\* The instance has its own name for Cardinality.
LEMMA AccessCardinality ==
  ASSUME NEW S
  PROVE  Access!Cardinality(S) = Cardinality(S)
BY DEF Access!Cardinality, Access!IsFiniteSet, Cardinality, IsFiniteSet

LEMMA AccessInit ==
  ASSUME MaxActiveSharedComputeLeases \in Nat, MaxTime \in Nat, Access!Init
  PROVE  AccessInv
<1>1. Access!TypeOK
  <2>1. clock \in 0..MaxTime /\ Access!Never \in 0..Access!Never /\ 0 \in 0..MaxTime
    BY DEF Access!Init, Access!Never
  <2>2. accessRequest \in [AccessRequests -> AccessCalls]
    BY <2>1 DEF Access!Init, AccessCalls
  <2>3. /\ startsAt \in [Organisations -> 0..Access!Never]
        /\ lease \in [Organisations -> Access!LeaseStates]
        /\ \A o \in Organisations : lease[o] = "none" /\ startsAt[o] = Access!Never
    BY <2>1 DEF Access!Init, Access!LeaseStates
  <2> QED BY <2>1, <2>2, <2>3 DEF Access!TypeOK, AccessCalls
<1>2. UsedLeases = {} /\ Access!Issuing = {}
  BY DEF Access!Init, UsedLeases, Access!Current, Access!Issuing
<1>3. AccessRoomLeft
  BY <1>2, FS_EmptySet DEF AccessRoomLeft
<1>4. Access!AccessHeld /\ AccessFirstOnce /\ \A r \in AccessRequests : AccessFirstUse(r)
  BY DEF Access!Init, Access!AccessHeld, AccessFirstOnce, AccessFirstUse
<1> QED BY <1>1, <1>3, <1>4 DEF AccessInv

\* A step of one call that writes no row.
LEMMA AccessLocalStep ==
  ASSUME AccessInv, NEW r \in AccessRequests, NEW e \in AccessCalls,
         accessRequest' = [accessRequest EXCEPT ![r] = e], UNCHANGED <<clock, startsAt, lease>>,
         e.pc \in {"again", "issued"} => e.first,
         e.first => accessRequest[r].first \/ Access!AdvisoryLockFree,
         e.pc = "granted" => Access!InForce(e.org, e.now),
         e.pc = "issued" => Cardinality(UsedLeases) < MaxActiveSharedComputeLeases
  PROVE  AccessInv'
<1>1. Access!TypeOK'
  BY DEF AccessInv, Access!TypeOK, AccessCalls
<1>2. /\ accessRequest'[r] = e
      /\ \A q \in AccessRequests : q # r => accessRequest'[q] = accessRequest[q]
  BY DEF AccessInv, Access!TypeOK
<1>3. (\A q \in AccessRequests : AccessFirstUse(q))'
  BY <1>2 DEF AccessInv, AccessFirstUse
<1>4. AccessFirstOnce'
  BY <1>2 DEF AccessInv, AccessFirstOnce, Access!AdvisoryLockFree
<1>5. Access!AccessHeld'
  BY <1>2 DEF AccessInv, Access!AccessHeld, Access!InForce
<1>6. UsedLeases' = UsedLeases
  BY DEF UsedLeases, Access!Current
<1>7. AccessRoomLeft'
  BY <1>2, <1>6 DEF AccessInv, AccessRoomLeft, Access!Issuing
<1> QED BY <1>1, <1>3, <1>4, <1>5, <1>7 DEF AccessInv

\* The copies a call may come to.
LEMMA AccessCopies ==
  ASSUME Access!TypeOK, MaxTime \in Nat, NEW r \in AccessRequests
  PROVE  /\ accessRequest[r] \in AccessCalls
         /\ \A pc \in {"idle", "find", "lock", "again", "granted", "issued"} :
              [accessRequest[r] EXCEPT !.pc = pc] \in AccessCalls
         /\ [accessRequest[r] EXCEPT !.pc = "find", !.now = clock] \in AccessCalls
         /\ [accessRequest[r] EXCEPT !.pc = "again", !.first = TRUE] \in AccessCalls
         /\ [accessRequest[r] EXCEPT !.pc = "idle", !.now = 0, !.first = FALSE] \in AccessCalls
<1>1. accessRequest[r] \in AccessCalls /\ clock \in 0..MaxTime /\ 0 \in 0..MaxTime
  BY DEF Access!TypeOK, AccessCalls
<1> QED BY <1>1 DEF AccessCalls

LEMMA AccessEndKeeps ==
  ASSUME AccessInv, MaxTime \in Nat, NEW r \in AccessRequests, Access!End(r),
         UNCHANGED <<clock, startsAt, lease>>
  PROVE  AccessInv'
<1> DEFINE e == [accessRequest[r] EXCEPT !.pc = "idle", !.now = 0, !.first = FALSE]
<1>1. accessRequest[r] \in AccessCalls /\ e \in AccessCalls
  BY AccessCopies DEF AccessInv
<1>2. accessRequest' = [accessRequest EXCEPT ![r] = e] /\ e.pc = "idle" /\ ~e.first
  BY <1>1 DEF Access!End, AccessCalls
<1> HIDE DEF e
<1> QED BY <1>1, <1>2, AccessLocalStep

LEMMA AccessValidateKeeps ==
  ASSUME AccessInv, MaxTime \in Nat, NEW r \in AccessRequests, Access!Validate(r)
  PROVE  AccessInv'
<1> DEFINE e == [accessRequest[r] EXCEPT !.pc = "granted"]
<1>1. accessRequest[r] \in AccessCalls /\ e \in AccessCalls
  BY AccessCopies DEF AccessInv
<1>2. CASE Access!InForce(accessRequest[r].org, accessRequest[r].now)
  <2>1. /\ accessRequest' = [accessRequest EXCEPT ![r] = e]
           /\ UNCHANGED <<clock, startsAt, lease>>
        /\ e.pc = "granted" /\ e.first = accessRequest[r].first
        /\ e.org = accessRequest[r].org /\ e.now = accessRequest[r].now
    BY <1>1, <1>2 DEF Access!Validate, AccessCalls
  <2> HIDE DEF e
  <2> QED BY <1>1, <1>2, <2>1, AccessLocalStep
<1>3. CASE ~Access!InForce(accessRequest[r].org, accessRequest[r].now)
  BY <1>3, AccessEndKeeps DEF Access!Validate, Access!Refuse
<1> QED BY <1>2, <1>3

LEMMA AccessBeginKeeps ==
  ASSUME AccessInv, MaxTime \in Nat, NEW r \in AccessRequests, Access!Begin(r)
  PROVE  AccessInv'
<1> DEFINE e == [accessRequest[r] EXCEPT !.pc = "find", !.now = clock]
<1>1. accessRequest[r] \in AccessCalls /\ e \in AccessCalls
  BY AccessCopies DEF AccessInv
<1>2. /\ accessRequest' = [accessRequest EXCEPT ![r] = e]
         /\ UNCHANGED <<clock, startsAt, lease>>
      /\ e.pc = "find" /\ e.first = accessRequest[r].first
  BY <1>1 DEF Access!Begin, AccessCalls
<1> HIDE DEF e
<1> QED BY <1>1, <1>2, AccessLocalStep

LEMMA AccessFindKeeps ==
  ASSUME AccessInv, MaxTime \in Nat, NEW r \in AccessRequests, Access!Find(r)
  PROVE  AccessInv'
<1> DEFINE e == [accessRequest[r] EXCEPT !.pc = "lock"]
<1>1. accessRequest[r] \in AccessCalls /\ e \in AccessCalls
  BY AccessCopies DEF AccessInv
<1>2. CASE ~Access!Validate(r)
  <2>1. /\ accessRequest' = [accessRequest EXCEPT ![r] = e]
           /\ UNCHANGED <<clock, startsAt, lease>>
        /\ e.pc = "lock" /\ e.first = accessRequest[r].first
    BY <1>1, <1>2 DEF Access!Find, AccessCalls
  <2> HIDE DEF e
  <2> QED BY <1>1, <2>1, AccessLocalStep
<1> QED BY <1>2, AccessValidateKeeps

LEMMA AccessAdvisoryLockKeeps ==
  ASSUME AccessInv, MaxTime \in Nat, NEW r \in AccessRequests, Access!AdvisoryLock(r)
  PROVE  AccessInv'
<1> DEFINE e == [accessRequest[r] EXCEPT !.pc = "again", !.first = TRUE]
<1>1. accessRequest[r] \in AccessCalls /\ e \in AccessCalls
  BY AccessCopies DEF AccessInv
<1>2. /\ accessRequest' = [accessRequest EXCEPT ![r] = e]
         /\ UNCHANGED <<clock, startsAt, lease>>
      /\ e.pc = "again" /\ e.first
  BY <1>1 DEF Access!AdvisoryLock, AccessCalls
<1> HIDE DEF e
<1> QED BY <1>1, <1>2, AccessLocalStep DEF Access!AdvisoryLock

LEMMA AccessActivateKeeps ==
  ASSUME AccessInv, MaxTime \in Nat, NEW r \in AccessRequests,
         MaxActiveSharedComputeLeases \in Nat, Access!Activate(r)
  PROVE  AccessInv'
<1> DEFINE e == [accessRequest[r] EXCEPT !.pc = "issued"]
<1>1. accessRequest[r] \in AccessCalls /\ e \in AccessCalls
  BY AccessCopies DEF AccessInv
<1>2. CASE /\ Cardinality(UsedLeases) < MaxActiveSharedComputeLeases
           /\ accessRequest' = [accessRequest EXCEPT ![r].pc = "issued"]
           /\ UNCHANGED <<clock, startsAt, lease>>
  <2>1. /\ accessRequest' = [accessRequest EXCEPT ![r] = e] /\ e.pc = "issued"
        /\ e.first = accessRequest[r].first /\ accessRequest[r].first
    BY <1>1, <1>2 DEF AccessInv, AccessFirstUse, Access!Activate, AccessCalls
  <2> HIDE DEF e
  <2> QED BY <1>1, <1>2, <2>1, AccessLocalStep
<1>3. CASE Access!End(r) /\ UNCHANGED <<clock, startsAt, lease>>
  BY <1>3, AccessEndKeeps
<1>4. Cardinality(UsedLeases) \in Nat
  BY FS_CardinalityType DEF AccessInv, AccessRoomLeft
<1> QED BY <1>2, <1>3, <1>4, AccessCardinality, AccessValidateKeeps
    DEF Access!Activate, Access!Issue, Access!Refuse, UsedLeases

\* The lease that is committed is the one there was room for.
LEMMA AccessIssuedKeeps ==
  ASSUME AccessInv, NEW r \in AccessRequests, Access!Commit(r),
         MaxActiveSharedComputeLeases \in Nat,
         MaxTime \in Nat, accessRequest[r].pc = "issued",
                                        startsAt[accessRequest[r].org] = Access!Never
  PROVE  AccessInv'
<1> DEFINE o == accessRequest[r].org
           e == [accessRequest[r] EXCEPT !.pc = "idle", !.now = 0, !.first = FALSE]
<1>1. accessRequest[r] \in AccessCalls /\ e \in AccessCalls
  BY AccessCopies DEF AccessInv
<1>2. /\ startsAt' = [startsAt EXCEPT ![o] = accessRequest[r].now]
      /\ lease' = [lease EXCEPT ![o] = "active"]
      /\ accessRequest' = [accessRequest EXCEPT ![r] = e]
      /\ clock' = clock /\ o \in Organisations /\ accessRequest[r].now \in 0..MaxTime
      /\ e.pc = "idle" /\ ~e.first
  BY <1>1 DEF Access!Commit, Access!End, AccessCalls
<1> HIDE DEF e, o
<1>3. /\ accessRequest'[r] = e
      /\ \A q \in AccessRequests : q # r => accessRequest'[q] = accessRequest[q]
      /\ lease'[o] = "active" /\ \A p \in Organisations \ {o} : lease'[p] = lease[p]
      /\ \A p \in Organisations \ {o} : startsAt'[p] = startsAt[p]
  BY <1>2 DEF AccessInv, Access!TypeOK
<1>4. Access!TypeOK'
  <2>1. accessRequest[r].now \in 0..Access!Never /\ accessRequest[r].now # Access!Never
    BY <1>2 DEF Access!Never
  <2>2. accessRequest' \in [AccessRequests -> AccessCalls]
        /\ startsAt' \in [Organisations -> 0..Access!Never]
        /\ lease' \in [Organisations -> Access!LeaseStates]
    BY <1>1, <1>2, <2>1 DEF AccessInv, Access!TypeOK, AccessCalls, Access!LeaseStates
  <2>3. \A p \in Organisations : (lease'[p] = "none") = (startsAt'[p] = Access!Never)
    BY <1>2, <1>3, <2>1 DEF AccessInv, Access!TypeOK
  <2> QED BY <1>2, <2>2, <2>3 DEF AccessInv, Access!TypeOK, AccessCalls
<1>5. (\A q \in AccessRequests : AccessFirstUse(q))' /\ AccessFirstOnce'
  BY <1>2, <1>3 DEF AccessInv, AccessFirstUse, AccessFirstOnce
<1>6. lease[o] = "none"
  BY <1>2 DEF AccessInv, Access!TypeOK, o
<1>7. Access!AccessHeld'
  <2> SUFFICES ASSUME NEW q \in AccessRequests, accessRequest'[q].pc = "granted"
               PROVE  Access!InForce(accessRequest[q].org, accessRequest[q].now)' 
    BY DEF Access!AccessHeld
  <2>1. q # r /\ accessRequest'[q] = accessRequest[q]
        /\ Access!InForce(accessRequest[q].org, accessRequest[q].now)
    BY <1>2, <1>3 DEF AccessInv, Access!AccessHeld
  <2>2. accessRequest[q].org \in Organisations /\ accessRequest[q].org # o
    BY <1>6, <2>1 DEF AccessInv, Access!TypeOK, Access!InForce
  <2> QED BY <1>3, <2>1, <2>2 DEF Access!InForce
<1>8. Access!Issuing' = {}
  BY <1>2, <1>3 DEF AccessInv, Access!Issuing, AccessFirstUse, AccessFirstOnce
<1>9. AccessRoomLeft'
  <2>1. UsedLeases' = UsedLeases \cup {o} /\ o \notin UsedLeases
    BY <1>2, <1>3, <1>6 DEF UsedLeases, Access!Current
  <2>2. r \in Access!Issuing
    BY DEF Access!Issuing
  <2>3. IsFiniteSet(UsedLeases) /\ Cardinality(UsedLeases) \in Nat
        /\ Cardinality(UsedLeases) < MaxActiveSharedComputeLeases
    BY <2>2, FS_CardinalityType DEF AccessInv, AccessRoomLeft
  <2>4. IsFiniteSet(UsedLeases') /\ Cardinality(UsedLeases') = Cardinality(UsedLeases) + 1
    BY <2>1, <2>3, FS_AddElement
  <2> QED BY <1>8, <2>3, <2>4 DEF AccessRoomLeft
<1> QED BY <1>4, <1>5, <1>7, <1>9 DEF AccessInv

LEMMA AccessCleanUpKeeps ==
  ASSUME AccessInv, NEW o \in Organisations, Access!CleanUp(o),
         MaxActiveSharedComputeLeases \in Nat
  PROVE  AccessInv'
<1>1. Access!TypeOK'
  BY DEF Access!CleanUp, AccessInv, Access!TypeOK, Access!LeaseStates
<1>2. (\A r \in AccessRequests : AccessFirstUse(r))' /\ AccessFirstOnce'
  BY DEF Access!CleanUp, AccessInv, AccessFirstUse, AccessFirstOnce
<1>3. Access!AccessHeld'
  BY DEF Access!CleanUp, Access!LockedLease, AccessInv, Access!TypeOK, Access!AccessHeld,
         Access!InForce
<1>4. UsedLeases' \in SUBSET UsedLeases
  BY DEF Access!CleanUp, AccessInv, Access!TypeOK, UsedLeases, Access!Current
<1>5. IsFiniteSet(UsedLeases) /\ Cardinality(UsedLeases) \in Nat /\ IsFiniteSet(UsedLeases')
      /\ Cardinality(UsedLeases') \in Nat /\ Cardinality(UsedLeases') <= Cardinality(UsedLeases)
  BY <1>4, FS_Subset, FS_CardinalityType DEF AccessInv, AccessRoomLeft
<1>6. AccessRoomLeft'
  BY <1>5 DEF Access!CleanUp, AccessInv, AccessRoomLeft, Access!Issuing
<1> QED BY <1>1, <1>2, <1>3, <1>6 DEF AccessInv

LEMMA AccessTickKeeps ==
  ASSUME AccessInv, Access!Tick \/ UNCHANGED Access!vars, MaxTime \in Nat
  PROVE  AccessInv'
<1>1. UNCHANGED <<startsAt, lease, accessRequest>>
  BY DEF Access!Tick, Access!vars
<1>2. Access!TypeOK'
  BY DEF Access!Tick, Access!vars, AccessInv, Access!TypeOK
<1>3. UsedLeases' = UsedLeases
  BY <1>1 DEF UsedLeases, Access!Current
<1> QED BY <1>1, <1>2, <1>3 DEF AccessInv, AccessFirstUse, AccessFirstOnce, Access!AccessHeld,
                                Access!InForce, AccessRoomLeft, Access!Issuing

LEMMA AccessStepKeeps ==
  ASSUME AccessInv, [Access!Next]_(Access!vars), MaxActiveSharedComputeLeases \in Nat,
         MaxTime \in Nat
  PROVE  AccessInv'
<1>1. ASSUME NEW r \in AccessRequests, Access!Commit(r) PROVE AccessInv'
  <2>1. CASE accessRequest[r].pc = "issued" /\ startsAt[accessRequest[r].org] = Access!Never
    BY <1>1, <2>1, AccessIssuedKeeps
  <2>2. CASE ~(accessRequest[r].pc = "issued" /\ startsAt[accessRequest[r].org] = Access!Never)
    BY <1>1, <2>2, AccessEndKeeps DEF Access!Commit
  <2> QED BY <2>1, <2>2
<1>2. ASSUME NEW r \in AccessRequests, Access!Rollback(r) PROVE AccessInv'
  BY <1>2, AccessEndKeeps DEF Access!Rollback
<1> QED BY <1>1, <1>2, AccessBeginKeeps, AccessFindKeeps, AccessAdvisoryLockKeeps,
           AccessActivateKeeps,
           AccessCleanUpKeeps, AccessTickKeeps DEF Access!Next

\* AccessInv is an invariant of the calls that use compute.
THEOREM AccessInvariance ==
  Access!Spec => []AccessInv
<1>1. Access!Init => AccessInv
  BY AccessInit, BoundsAssumption
<1>2. AccessInv /\ [Access!Next]_(Access!vars) => AccessInv'
  BY AccessStepKeeps, BoundsAssumption
<1> QED BY <1>1, <1>2, PTL DEF Access!Spec

-----------------------------------------------------------------------------
\* However many organisations use compute for the first time at once, the leases there
\* are and those about to be committed keep to the capacity of the platform.
THEOREM CapacityNeverExceeded ==
  Access!Spec => []CapacityKept
<1>1. ASSUME AccessInv PROVE Access!CapacityKept
  <2>1. Cardinality(UsedLeases) \in Nat /\ Access!TypeOK
    BY <1>1, FS_CardinalityType DEF AccessInv, AccessRoomLeft
  <2>2. CASE Access!Issuing = {}
    BY <1>1, <2>1, <2>2, AccessCardinality, FS_EmptySet
    DEF AccessInv, AccessRoomLeft, Access!CapacityKept, UsedLeases
  <2>3. CASE Access!Issuing # {}
    <3>1. \E r \in AccessRequests : Access!Issuing = {r}
      BY <1>1, <2>3 DEF AccessInv, Access!Issuing, AccessFirstUse, AccessFirstOnce
    <3>2. Cardinality(Access!Issuing) = 1
      BY <3>1, FS_Singleton
    <3> QED BY <1>1, <2>1, <2>3, <3>2, AccessCardinality, BoundsAssumption
      DEF AccessInv, AccessRoomLeft, Access!CapacityKept, UsedLeases
  <2> QED BY <2>2, <2>3
<1> QED BY <1>1, AccessInvariance, PTL DEF CapacityKept

\* A lease that a running call was granted is not cleaned up, and its entitlement is
\* the one that was validated.
THEOREM AccessStaysHeld ==
  Access!Spec => []Access!AccessHeld
<1>1. AccessInv => Access!AccessHeld
  BY DEF AccessInv
<1> QED BY <1>1, AccessInvariance, PTL

\* The refinement of the pool of leases. What a step of one call does to what it relies on.
LEMMA AccessRelied ==
  ASSUME AccessInv, NEW r \in AccessRequests, NEW e \in AccessCalls,
         accessRequest' = [accessRequest EXCEPT ![r] = e]
  PROVE  Access!Relied' = [Access!Relied EXCEPT ![r] =
           IF e.pc = "granted" THEN {[org |-> e.org, now |-> e.now]} ELSE {}]
BY DEF AccessInv, Access!TypeOK, AccessCalls, Access!Relied

LEMMA AccessEndFinishes ==
  ASSUME AccessInv, NEW r \in AccessRequests, Access!End(r), UNCHANGED <<startsAt, lease>>
  PROVE  [Access!Pool!Next]_(Access!Pool!vars)
<1> DEFINE e == [accessRequest[r] EXCEPT !.pc = "idle", !.now = 0, !.first = FALSE]
<1>0. accessRequest[r] \in AccessCalls /\ e \in AccessCalls
  BY AccessCopies, BoundsAssumption DEF AccessInv
<1>1. accessRequest[r] \in AccessCalls /\ e \in AccessCalls /\ e.pc = "idle"
  BY <1>0 DEF AccessCalls
<1>2. accessRequest' = [accessRequest EXCEPT ![r] = e]
  BY DEF Access!End
<1> HIDE DEF e
<1>3. Access!Relied' = [Access!Relied EXCEPT ![r] = {}]
  BY <1>1, <1>2, AccessRelied
<1>4. CASE Access!Relied[r] = {}
  <2>1. Access!Relied' = Access!Relied
    BY <1>3, <1>4 DEF Access!Relied
  <2> QED BY <2>1 DEF Access!Pool!vars
<1>5. CASE Access!Relied[r] # {}
  BY <1>3, <1>5 DEF Access!Pool!Next, Access!Pool!Finish
<1> QED BY <1>4, <1>5

\* A step of a call that neither was granted a lease nor is.
LEMMA AccessUnseen ==
  ASSUME AccessInv, NEW r \in AccessRequests, NEW e \in AccessCalls,
         accessRequest' = [accessRequest EXCEPT ![r] = e], UNCHANGED <<startsAt, lease>>,
         accessRequest[r].pc # "granted", e.pc # "granted"
  PROVE  UNCHANGED Access!Pool!vars
<1>1. Access!Relied' = [Access!Relied EXCEPT ![r] = {}]
  BY AccessRelied
<1>2. Access!Relied[r] = {}
  BY DEF Access!Relied
<1>3. Access!Relied' = Access!Relied
  BY <1>1, <1>2 DEF Access!Relied
<1> QED BY <1>3 DEF Access!Pool!vars

LEMMA AccessValidateRelies ==
  ASSUME AccessInv, NEW r \in AccessRequests, Access!Validate(r),
         accessRequest[r].pc # "granted"
  PROVE  [Access!Pool!Next]_(Access!Pool!vars)
<1> DEFINE o == accessRequest[r].org
           moment == accessRequest[r].now
           e == [accessRequest[r] EXCEPT !.pc = "granted"]
<1>0. accessRequest[r] \in AccessCalls /\ e \in AccessCalls
  BY AccessCopies, BoundsAssumption DEF AccessInv
<1>1. /\ accessRequest[r] \in AccessCalls /\ e \in AccessCalls
      /\ e.pc = "granted" /\ e.org = o /\ e.now = moment
      /\ o \in Organisations /\ moment \in 0..MaxTime
  BY <1>0 DEF AccessCalls
<1>2. CASE Access!InForce(o, moment)
  <2>1. accessRequest' = [accessRequest EXCEPT ![r] = e] /\ UNCHANGED <<startsAt, lease>>
    BY <1>2 DEF Access!Validate
  <2> HIDE DEF e, o, moment
  <2>2. Access!Relied' = [Access!Relied EXCEPT ![r] = {[org |-> o, now |-> moment]}]
    BY <1>1, <2>1, AccessRelied
  <2>3. Access!Relied[r] = {}
    BY DEF Access!Relied
  <2>4. Access!Pool!Unused(o)
    BY DEF Access!Validate, Access!LockedLease, Access!Pool!Unused, Access!Relied, o
  <2>5. Access!Pool!InForce(o, moment)
    BY <1>2 DEF Access!InForce, Access!Pool!InForce
  <2>6. Access!Pool!Rely(r, o)
    BY <1>1, <2>1, <2>2, <2>3, <2>4, <2>5 DEF Access!Pool!Rely
  <2> QED BY <1>1, <2>6 DEF Access!Pool!Next
<1>3. CASE ~Access!InForce(o, moment)
  BY <1>3, AccessEndFinishes DEF Access!Validate, Access!Refuse
<1> QED BY <1>2, <1>3

\* The commit of an issued lease is the one step of the pool: there is still room, and
\* the organisation has never had a lease.
LEMMA AccessCommitIssues ==
  ASSUME AccessInv, NEW r \in AccessRequests, Access!Commit(r), accessRequest[r].pc = "issued",
         startsAt[accessRequest[r].org] = Access!Never
  PROVE  [Access!Pool!Next]_(Access!Pool!vars)
<1> DEFINE o == accessRequest[r].org
           e == [accessRequest[r] EXCEPT !.pc = "idle", !.now = 0, !.first = FALSE]
<1>0. accessRequest[r] \in AccessCalls /\ e \in AccessCalls
  BY AccessCopies, BoundsAssumption DEF AccessInv
<1>1. /\ accessRequest[r] \in AccessCalls /\ e \in AccessCalls /\ e.pc = "idle"
      /\ o \in Organisations /\ accessRequest[r].now \in 0..MaxTime
  BY <1>0 DEF AccessCalls
<1>2. /\ startsAt' = [startsAt EXCEPT ![o] = accessRequest[r].now]
      /\ lease' = [lease EXCEPT ![o] = "active"]
      /\ accessRequest' = [accessRequest EXCEPT ![r] = e]
  BY DEF Access!Commit, Access!End
<1> HIDE DEF e
<1>3. Access!Relied' = Access!Relied
  <2>1. Access!Relied' = [Access!Relied EXCEPT ![r] = {}] /\ Access!Relied[r] = {}
    BY <1>1, <1>2, AccessRelied DEF Access!Relied
  <2> QED BY <2>1 DEF Access!Relied
<1>4. lease[o] = "none"
  BY <1>1 DEF AccessInv, Access!TypeOK
<1>5. Cardinality(UsedLeases) < MaxActiveSharedComputeLeases
  BY DEF AccessInv, AccessRoomLeft, Access!Issuing
<1>6. Access!Pool!Cardinality(Access!Pool!Occupied) < MaxActiveSharedComputeLeases
  <2>1. Access!Pool!Occupied = UsedLeases
    BY DEF Access!Pool!Occupied, UsedLeases, Access!Current
  <2>2. Access!Pool!Cardinality(UsedLeases) = Cardinality(UsedLeases)
    BY DEF Access!Pool!Cardinality, Access!Pool!IsFiniteSet, Cardinality, IsFiniteSet
  <2> QED BY <1>5, <2>1, <2>2
<1>7. Access!Pool!Issue(o)
  BY <1>1, <1>2, <1>3, <1>4, <1>6 DEF Access!Pool!Issue
<1> QED BY <1>1, <1>7 DEF Access!Pool!Next

LEMMA AccessStepInPool ==
  ASSUME AccessInv, [Access!Next]_(Access!vars)
  PROVE  [Access!Pool!Next]_(Access!Pool!vars)
<1>1. ASSUME NEW r \in AccessRequests, Access!Begin(r) \/ Access!AdvisoryLock(r)
      PROVE  UNCHANGED Access!Pool!vars
  <2> DEFINE e == accessRequest'[r]
  <2>1. /\ accessRequest[r] \in AccessCalls
        /\ [accessRequest[r] EXCEPT !.pc = "find", !.now = clock] \in AccessCalls
        /\ [accessRequest[r] EXCEPT !.pc = "again", !.first = TRUE] \in AccessCalls
    BY AccessCopies, BoundsAssumption DEF AccessInv
  <2>2. accessRequest \in [AccessRequests -> AccessCalls]
    BY DEF AccessInv, Access!TypeOK, AccessCalls
  <2>3. /\ e \in AccessCalls /\ accessRequest[r].pc # "granted" /\ e.pc # "granted"
        /\ accessRequest' = [accessRequest EXCEPT ![r] = e] /\ UNCHANGED <<startsAt, lease>>
    BY <1>1, <2>1, <2>2 DEF AccessCalls, Access!Begin, Access!AdvisoryLock
  <2> HIDE DEF e
  <2> QED BY <2>3, AccessUnseen
<1>2. ASSUME NEW r \in AccessRequests, Access!Find(r)
      PROVE  [Access!Pool!Next]_(Access!Pool!vars)
  <2> DEFINE e == [accessRequest[r] EXCEPT !.pc = "lock"]
  <2>0. accessRequest[r] \in AccessCalls /\ e \in AccessCalls
    BY AccessCopies, BoundsAssumption DEF AccessInv
  <2>1. CASE Access!Validate(r)
    BY <1>2, <2>1, AccessValidateRelies DEF Access!Find
  <2>2. CASE ~Access!Validate(r)
    <3>1. /\ e \in AccessCalls /\ accessRequest[r].pc # "granted" /\ e.pc # "granted"
          /\ accessRequest' = [accessRequest EXCEPT ![r] = e] /\ UNCHANGED <<startsAt, lease>>
      BY <1>2, <2>0, <2>2 DEF AccessCalls, Access!Find
    <3> HIDE DEF e
    <3> QED BY <3>1, AccessUnseen
  <2> QED BY <2>1, <2>2
<1>3. ASSUME NEW r \in AccessRequests, Access!Activate(r)
      PROVE  [Access!Pool!Next]_(Access!Pool!vars)
  <2> DEFINE e == [accessRequest[r] EXCEPT !.pc = "issued"]
  <2>0. accessRequest[r] \in AccessCalls /\ e \in AccessCalls
    BY AccessCopies, BoundsAssumption DEF AccessInv
  <2>1. CASE Access!Validate(r)
    BY <1>3, <2>1, AccessValidateRelies DEF Access!Activate
  <2>2. CASE Access!End(r) /\ UNCHANGED <<startsAt, lease>>
    BY <2>2, AccessEndFinishes
  <2>3. CASE ~Access!Validate(r) /\ ~(Access!End(r) /\ UNCHANGED <<startsAt, lease>>)
    <3>1. /\ e \in AccessCalls /\ accessRequest[r].pc # "granted" /\ e.pc # "granted"
          /\ accessRequest' = [accessRequest EXCEPT ![r] = e] /\ UNCHANGED <<startsAt, lease>>
      BY <1>3, <2>0, <2>3 DEF AccessCalls, Access!Activate, Access!Issue, Access!Refuse
    <3> HIDE DEF e
    <3> QED BY <3>1, AccessUnseen
  <2> QED BY <2>1, <2>2, <2>3
<1>4. ASSUME NEW r \in AccessRequests, Access!Commit(r) \/ Access!Rollback(r)
      PROVE  [Access!Pool!Next]_(Access!Pool!vars)
  BY <1>4, AccessCommitIssues, AccessEndFinishes DEF Access!Commit, Access!Rollback
<1>5. ASSUME NEW o \in Organisations, Access!CleanUp(o)
      PROVE  Access!Pool!Next
  <2>1. Access!Pool!Unused(o) /\ Access!Relied' = Access!Relied
    BY <1>5 DEF Access!CleanUp, Access!LockedLease, Access!Pool!Unused, Access!Relied
  <2> QED BY <1>5, <2>1 DEF Access!CleanUp, Access!Pool!CleanUp, Access!Pool!Next
<1>6. CASE Access!Tick \/ UNCHANGED Access!vars
  BY <1>6 DEF Access!Tick, Access!vars, Access!Relied, Access!Pool!vars
<1> QED BY <1>1, <1>2, <1>3, <1>4, <1>5, <1>6 DEF Access!Next

\* Calls whose transactions count, wait for each other and insert implement the pool of
\* leases, in which an organisation is issued its one lease in a single step, within the
\* capacity, and no lease is cleaned up while a call relies on it.
THEOREM PoolImplemented == Access!Spec => ImplementsPool
<1>1. Access!Init => Access!Pool!Init
  BY DEF Access!Init, Access!Relied, Access!Pool!Init
<1>2. AccessInv /\ [Access!Next]_(Access!vars) => [Access!Pool!Next]_(Access!Pool!vars)
  BY AccessStepInPool
<1> QED BY <1>1, <1>2, AccessInvariance, PTL
    DEF Access!Spec, ImplementsPool, Access!ImplementsPool, Access!Pool!Spec

-----------------------------------------------------------------------------
(***************************************************************************)
(* PostgresAddon: the worker's last check and its deletions are ordered    *)
(* against every use but the one that is recorded in raced.                *)
(***************************************************************************)

AddonSteps == [at : {"idle", "check", "cluster", "row", "surround", "apply"}, spec : Addon!Specs]
ControllerWrites == [at : {"idle", "write"}, state : Addon!States, once : BOOLEAN]

\* Once its last check has passed, nobody uses the addon that the check has not seen.
UseSeen ==
  ~raced =>
    /\ worker.at \in {"cluster", "row"} => ~used
    /\ row = "none" => ~used

\* The worker takes down the cluster of an addon that is being deleted.
TakenDown ==
  worker.at \in {"check", "cluster", "row"} \/ cluster = "terminating" => row # "live"

\* Unless the queue will come back to it or something was lost, the worker has what the
\* row says or the cluster has it already.
UpToDate ==
  row = "live" /\ ~lost /\ ~queued /\ (\A r \in AddonRequests : request[r].pc # "enqueue") =>
    IF worker.at \in {"surround", "apply"} THEN worker.spec = spec
    ELSE cluster # "none" /\ clusterSpec = spec

AddonInv == Addon!TypeOK /\ UseSeen /\ TakenDown /\ UpToDate

-----------------------------------------------------------------------------
\* There is a specification, so that the chosen one is one.
LEMMA AddonQuiescent ==
  ASSUME NEW s \in Addon!Specs
  PROVE  Addon!NoCall \in Addon!Calls /\ Addon!Enqueuing \in Addon!Calls
         /\ Addon!Idle \in AddonSteps /\ Addon!Quiet \in ControllerWrites
<1>1. (CHOOSE t \in Addon!Specs : TRUE) \in Addon!Specs
  OBVIOUS
<1> QED BY <1>1 DEF Addon!NoCall, Addon!Enqueuing, Addon!Calls, Addon!Ops, Addon!Idle,
                    AddonSteps, Addon!Quiet, ControllerWrites, Addon!States

LEMMA AddonInit ==
  ASSUME MaxAddonFailures \in Nat, Addon!Init
  PROVE  AddonInv
<1>1. spec \in Addon!Specs
  BY DEF Addon!Init
<1>2. Addon!NoCall \in Addon!Calls /\ Addon!Idle \in AddonSteps
      /\ Addon!Quiet \in ControllerWrites
  BY <1>1, AddonQuiescent
<1>3. 0 \in 0..MaxAddonFailures
  OBVIOUS
<1>4. request \in [AddonRequests -> Addon!Calls]
  BY <1>2 DEF Addon!Init
<1>5. Addon!TypeOK
  BY <1>1, <1>2, <1>3, <1>4 DEF Addon!Init, Addon!TypeOK, AddonSteps, ControllerWrites,
                                Addon!States
<1> QED BY <1>5 DEF Addon!Init, AddonInv, UseSeen, TakenDown, UpToDate, Addon!Idle

-----------------------------------------------------------------------------
\* Calls: a step of one of them.
LEMMA AddonCallStep ==
  ASSUME Addon!TypeOK, NEW r \in AddonRequests, NEW c \in Addon!Calls,
         request' = [request EXCEPT ![r] = c]
  PROVE  /\ request' \in [AddonRequests -> Addon!Calls]
         /\ request'[r] = c
         /\ \A q \in AddonRequests \ {r} : request'[q] = request[q]
BY DEF Addon!TypeOK

LEMMA AddonReadKeeps ==
  ASSUME AddonInv, NEW r \in AddonRequests, Addon!Read(r)
  PROVE  AddonInv'
<1>1. PICK c \in Addon!Calls : c.pc = "write" /\ request' = [request EXCEPT ![r] = c]
  <2>1. PICK op \in Addon!Ops, wanted \in Addon!Specs :
          request' = [request EXCEPT ![r] =
            [pc |-> "write", op |-> op, spec |-> wanted, once |-> op = "delete" /\ readyOnce]]
    BY DEF Addon!Read
  <2>2. [pc |-> "write", op |-> op, spec |-> wanted,
         once |-> op = "delete" /\ readyOnce] \in Addon!Calls
    <3>1. PICK b \in BOOLEAN : b = (op = "delete" /\ readyOnce)
      OBVIOUS
    <3>2. [pc |-> "write", op |-> op, spec |-> wanted, once |-> b] \in Addon!Calls
      BY DEF Addon!Calls
    <3> QED BY <3>1, <3>2
  <2> QED BY <2>1, <2>2
<1>2. /\ request' \in [AddonRequests -> Addon!Calls] /\ request'[r] = c
      /\ \A q \in AddonRequests \ {r} : request'[q] = request[q]
  BY <1>1, AddonCallStep DEF AddonInv
<1>3. request[r].pc = "idle"
      /\ UNCHANGED <<Addon!addon, cluster, clusterSpec, surroundings, queued, worker, controller,
                     Addon!use, failures, lost>>
  BY DEF Addon!Read
<1>4. Addon!TypeOK'
  BY <1>2, <1>3 DEF AddonInv, Addon!TypeOK, Addon!addon, Addon!use
<1>5. UpToDate'
  BY <1>1, <1>2, <1>3 DEF AddonInv, UpToDate, Addon!addon
<1> QED BY <1>3, <1>4, <1>5 DEF AddonInv, UseSeen, TakenDown, Addon!addon, Addon!use

LEMMA AddonWriteKeeps ==
  ASSUME AddonInv, NEW r \in AddonRequests, Addon!Write(r)
  PROVE  AddonInv'
<1>1. /\ request[r] \in Addon!Calls /\ Addon!Enqueuing \in Addon!Calls
      /\ request' = [request EXCEPT ![r] = Addon!Enqueuing] /\ Addon!Enqueuing.pc = "enqueue"
  BY AddonQuiescent DEF AddonInv, Addon!TypeOK, Addon!Write, Addon!Goto, Addon!Enqueuing,
                        Addon!Calls
<1>2. request' \in [AddonRequests -> Addon!Calls] /\ request'[r].pc = "enqueue"
  BY <1>1, AddonCallStep DEF AddonInv
<1>3. Addon!TypeOK'
  BY <1>1, <1>2 DEF AddonInv, Addon!TypeOK, Addon!Write, Addon!Calls, Addon!use
<1>4. UpToDate'
  BY <1>2 DEF UpToDate
<1> QED BY <1>3, <1>4 DEF Addon!Write, AddonInv, UseSeen, TakenDown, Addon!use

LEMMA AddonMarkDeletedKeeps ==
  ASSUME AddonInv, NEW r \in AddonRequests, Addon!MarkDeleted(r)
  PROVE  AddonInv'
<1> DEFINE c == [request[r] EXCEPT !.pc = "status"]
<1>1. c \in Addon!Calls /\ request' = [request EXCEPT ![r] = c]
  BY DEF AddonInv, Addon!TypeOK, Addon!MarkDeleted, Addon!Goto, Addon!Calls
<1> HIDE DEF c
<1>2. request' \in [AddonRequests -> Addon!Calls]
  BY <1>1, AddonCallStep DEF AddonInv
<1>3. Addon!TypeOK'
  BY <1>2 DEF AddonInv, Addon!TypeOK, Addon!MarkDeleted, Addon!use
<1> QED BY <1>3 DEF Addon!MarkDeleted, AddonInv, UseSeen, TakenDown, UpToDate, Addon!use

LEMMA AddonSetDeletingKeeps ==
  ASSUME AddonInv, NEW r \in AddonRequests, Addon!SetDeleting(r)
  PROVE  AddonInv'
<1>1. /\ request[r] \in Addon!Calls /\ Addon!Enqueuing \in Addon!Calls
      /\ request' = [request EXCEPT ![r] = Addon!Enqueuing] /\ Addon!Enqueuing.pc = "enqueue"
  BY AddonQuiescent DEF AddonInv, Addon!TypeOK, Addon!SetDeleting, Addon!Goto, Addon!Enqueuing,
                        Addon!Calls
<1>2. request' \in [AddonRequests -> Addon!Calls] /\ request'[r].pc = "enqueue"
  BY <1>1, AddonCallStep DEF AddonInv
<1>3. request[r].once \in BOOLEAN
  BY <1>1 DEF Addon!Calls
<1>4. Addon!TypeOK'
  BY <1>2, <1>3 DEF AddonInv, Addon!TypeOK, Addon!SetDeleting, Addon!States, Addon!use
<1>5. UpToDate'
  BY <1>2 DEF UpToDate
<1> QED BY <1>4, <1>5 DEF Addon!SetDeleting, AddonInv, UseSeen, TakenDown, Addon!use

LEMMA AddonEnqueueKeeps ==
  ASSUME AddonInv, NEW r \in AddonRequests, Addon!Enqueue(r)
  PROVE  AddonInv'
<1>1. Addon!NoCall \in Addon!Calls /\ request' = [request EXCEPT ![r] = Addon!NoCall]
  BY AddonQuiescent DEF AddonInv, Addon!TypeOK, Addon!Enqueue, Addon!Goto
<1>2. request' \in [AddonRequests -> Addon!Calls]
  BY <1>1, AddonCallStep DEF AddonInv
<1>3. Addon!TypeOK'
  BY <1>2 DEF AddonInv, Addon!TypeOK, Addon!Enqueue, Addon!addon, Addon!use
<1> QED BY <1>3 DEF Addon!Enqueue, AddonInv, UseSeen, TakenDown, UpToDate, Addon!addon,
                    Addon!use

LEMMA AddonCallFailsKeeps ==
  ASSUME AddonInv, NEW r \in AddonRequests, Addon!CallFails(r)
  PROVE  AddonInv'
<1>1. /\ Addon!NoCall \in Addon!Calls /\ request' = [request EXCEPT ![r] = Addon!NoCall]
      /\ request[r].pc # "enqueue"
  BY AddonQuiescent DEF AddonInv, Addon!TypeOK, Addon!CallFails
<1>2. /\ request' \in [AddonRequests -> Addon!Calls]
      /\ \A q \in AddonRequests \ {r} : request'[q] = request[q]
  BY <1>1, AddonCallStep DEF AddonInv
<1>3. Addon!TypeOK'
  BY <1>2 DEF AddonInv, Addon!TypeOK, Addon!CallFails, Addon!addon, Addon!use
<1>4. UpToDate'
  BY <1>1, <1>2 DEF Addon!CallFails, AddonInv, UpToDate, Addon!addon
<1> QED BY <1>3, <1>4 DEF Addon!CallFails, AddonInv, UseSeen, TakenDown, Addon!addon, Addon!use

-----------------------------------------------------------------------------
LEMMA AddonQueueKeeps ==
  ASSUME AddonInv, Addon!ListInput \/ Addon!Execute
  PROVE  AddonInv'
<1>1. CASE Addon!ListInput
  <2>1. Addon!TypeOK'
    BY <1>1 DEF AddonInv, Addon!TypeOK, Addon!ListInput, Addon!addon, Addon!use
  <2> QED BY <1>1, <2>1 DEF Addon!ListInput, AddonInv, UseSeen, TakenDown, UpToDate,
                            Addon!addon, Addon!use
<1>2. CASE Addon!Execute
  <2>1. Addon!Idle \in AddonSteps /\ Addon!Idle.at = "idle"
        /\ [Addon!Idle EXCEPT !.at = "check"] \in AddonSteps
        /\ [Addon!Idle EXCEPT !.at = "check"].at = "check"
           /\ [at |-> "surround", spec |-> spec] \in AddonSteps
    BY AddonQuiescent DEF AddonInv, Addon!TypeOK, AddonSteps, Addon!Idle
  <2>2. row \in {"live", "deleting", "none"}
    BY DEF AddonInv, Addon!TypeOK
  <2>3. /\ worker' \in AddonSteps
        /\ row = "live" => worker'.at = "surround" /\ worker'.spec = spec
        /\ row = "deleting" => worker'.at = "check"
        /\ row = "none" => worker'.at = "idle"
    BY <1>2, <2>1, <2>2 DEF Addon!Execute
  <2>4. Addon!TypeOK'
    BY <1>2, <2>3 DEF AddonInv, Addon!TypeOK, Addon!Execute, AddonSteps, Addon!addon, Addon!use
  <2>5. TakenDown' /\ UseSeen' /\ UpToDate'
    BY <1>2, <2>2, <2>3 DEF Addon!Execute, AddonInv, UseSeen, TakenDown, UpToDate, Addon!addon,
                            Addon!use
  <2> QED BY <2>4, <2>5 DEF AddonInv
<1> QED BY <1>1, <1>2

LEMMA CheckUseKeeps ==
  ASSUME AddonInv, Addon!CheckUse
  PROVE  AddonInv'
<1>1. worker \in AddonSteps /\ Addon!Idle \in AddonSteps /\ Addon!Idle.at = "idle"
      /\ [worker EXCEPT !.at = "cluster"] \in AddonSteps
         /\ [worker EXCEPT !.at = "cluster"].at = "cluster"
  BY AddonQuiescent DEF AddonInv, Addon!TypeOK, AddonSteps, Addon!Idle
<1>2. worker' \in AddonSteps /\ queued' \in BOOLEAN
      /\ (used => worker'.at = "idle") /\ (~used => worker'.at = "cluster")
  BY <1>1 DEF Addon!CheckUse
<1>3. Addon!TypeOK'
  BY <1>2 DEF AddonInv, Addon!TypeOK, Addon!CheckUse, AddonSteps, Addon!addon, Addon!use
<1> QED BY <1>2, <1>3 DEF Addon!CheckUse, AddonInv, UseSeen, TakenDown, UpToDate, Addon!addon,
                          Addon!use

LEMMA AddonTakeDownKeeps ==
  ASSUME AddonInv, Addon!DeleteCluster \/ Addon!DeleteRow
  PROVE  AddonInv'
<1>1. worker \in AddonSteps /\ Addon!Idle \in AddonSteps /\ Addon!Idle.at = "idle"
      /\ [worker EXCEPT !.at = "row"] \in AddonSteps /\ [worker EXCEPT !.at = "row"].at = "row"
  BY AddonQuiescent DEF AddonInv, Addon!TypeOK, AddonSteps, Addon!Idle
<1>2. CASE Addon!DeleteCluster
  <2>1. worker' \in AddonSteps /\ worker'.at = "row" /\ worker.at = "cluster"
    BY <1>1, <1>2 DEF Addon!DeleteCluster
  <2>2. Addon!TypeOK'
    BY <1>2, <2>1 DEF AddonInv, Addon!TypeOK, Addon!DeleteCluster, AddonSteps, Addon!addon,
                      Addon!use
  <2> QED BY <1>2, <2>1, <2>2 DEF Addon!DeleteCluster, AddonInv, UseSeen, TakenDown, UpToDate,
                                  Addon!addon, Addon!use
<1>3. CASE Addon!DeleteRow
  <2>1. worker' \in AddonSteps /\ worker'.at = "idle" /\ worker.at = "row" /\ row' = "none"
    BY <1>1, <1>3 DEF Addon!DeleteRow
  <2>2. Addon!TypeOK'
    BY <1>3, <2>1 DEF AddonInv, Addon!TypeOK, Addon!DeleteRow, AddonSteps, Addon!use
  <2> QED BY <1>3, <2>1, <2>2 DEF Addon!DeleteRow, AddonInv, UseSeen, TakenDown, UpToDate,
                                  Addon!use
<1> QED BY <1>2, <1>3

LEMMA AddonApplyKeeps ==
  ASSUME AddonInv, Addon!Apply
  PROVE  AddonInv'
<1>1. worker \in AddonSteps /\ Addon!Idle \in AddonSteps /\ Addon!Idle.at = "idle"
  BY AddonQuiescent DEF AddonInv, Addon!TypeOK, AddonSteps, Addon!Idle
<1>2. worker.at = "apply" /\ worker' = Addon!Idle /\ clusterSpec' = worker.spec
      /\ worker.spec \in Addon!Specs
  BY <1>1 DEF Addon!Apply, AddonSteps
<1>3. Addon!TypeOK'
  BY <1>1, <1>2 DEF AddonInv, Addon!TypeOK, Addon!Apply, AddonSteps, Addon!addon, Addon!use
<1>4. cluster' # "none" /\ (cluster' = "terminating" => cluster = "terminating")
  BY DEF Addon!Apply
<1> QED BY <1>1, <1>2, <1>3, <1>4 DEF Addon!Apply, AddonInv, UseSeen, TakenDown, UpToDate,
           Addon!addon, Addon!use

LEMMA AddonSurroundKeeps ==
  ASSUME AddonInv, Addon!Surround
  PROVE  AddonInv'
<1>1. /\ worker \in AddonSteps /\ worker.at = "surround"
      /\ worker' \in AddonSteps /\ worker'.at = "apply" /\ worker'.spec = worker.spec
  BY DEF AddonInv, Addon!TypeOK, AddonSteps, Addon!Surround
<1>2. Addon!TypeOK'
  BY <1>1 DEF AddonInv, Addon!TypeOK, Addon!Surround, AddonSteps, Addon!addon, Addon!use
<1> QED BY <1>1, <1>2 DEF Addon!Surround, AddonInv, UseSeen, TakenDown, UpToDate, Addon!addon,
                          Addon!use

LEMMA AddonFailureKeeps ==
  ASSUME AddonInv, MaxAddonFailures \in Nat, Addon!StepFails \/ Addon!Crash
  PROVE  AddonInv'
<1>1. Addon!Idle \in AddonSteps /\ Addon!Idle.at = "idle" /\ Addon!NoCall \in Addon!Calls
      /\ Addon!Quiet \in ControllerWrites
  BY AddonQuiescent DEF AddonInv, Addon!TypeOK, Addon!Idle
<1>2. failures' \in 0..MaxAddonFailures /\ worker' = Addon!Idle /\ surroundings' \in BOOLEAN
  <2>1. failures' \in 0..MaxAddonFailures /\ worker' = Addon!Idle
    BY DEF Addon!StepFails, Addon!Crash, AddonInv, Addon!TypeOK
  <2>2. (surroundings \/ worker.at = "surround") \in BOOLEAN
    OBVIOUS
  <2>3. surroundings' \in {surroundings, surroundings \/ worker.at = "surround"}
    BY DEF Addon!StepFails, Addon!Crash, Addon!PartlySurround
  <2>4. surroundings \in BOOLEAN
    BY DEF AddonInv, Addon!TypeOK
  <2>5. surroundings' \in BOOLEAN
    BY <2>2, <2>3, <2>4, Zenon
  <2> QED BY <2>1, <2>5
<1>3. CASE Addon!StepFails
  <2>1. Addon!TypeOK'
    BY <1>1, <1>2, <1>3 DEF AddonInv, Addon!TypeOK, Addon!StepFails, AddonSteps, Addon!addon,
                            Addon!use
  <2> QED BY <1>1, <1>2, <1>3, <2>1 DEF Addon!StepFails, AddonInv, UseSeen, TakenDown,
             UpToDate, Addon!addon, Addon!use
<1>4. CASE Addon!Crash
  <2>1. request' \in [AddonRequests -> Addon!Calls] /\ controller' \in ControllerWrites
        /\ lost' \in BOOLEAN
    BY <1>1, <1>4 DEF Addon!Crash
  <2>2. Addon!TypeOK'
    BY <1>1, <1>2, <1>4, <2>1 DEF AddonInv, Addon!TypeOK, Addon!Crash, AddonSteps,
                                  ControllerWrites, Addon!addon, Addon!use
  <2>3. UpToDate'
    <3>1. ~lost' => ~lost /\ ~queued /\ worker = Addon!Idle
                    /\ \A r \in AddonRequests : request[r].pc # "enqueue"
      BY <1>4 DEF Addon!Crash
    <3>2. UNCHANGED <<row, spec, cluster, clusterSpec>>
      BY <1>4 DEF Addon!Crash, Addon!addon
    <3> QED BY <1>1, <1>2, <3>1, <3>2 DEF AddonInv, UpToDate
  <2> QED BY <1>1, <1>2, <1>4, <2>2, <2>3
           DEF Addon!Crash, AddonInv, UseSeen, TakenDown, Addon!addon, Addon!use
<1> QED BY <1>3, <1>4

-----------------------------------------------------------------------------
LEMMA AddonControllerKeeps ==
  ASSUME AddonInv, Addon!Observe \/ Addon!UpdateStatus \/ Addon!ClusterGone
  PROVE  AddonInv'
<1>1. CASE Addon!Observe
  <2>1. controller' \in ControllerWrites
    <3>1. PICK s \in Addon!States :
            controller' = [at |-> "write", state |-> s, once |-> readyOnce \/ s = "Ready"]
      BY <1>1 DEF Addon!Observe
    <3>2. PICK b \in BOOLEAN : b = (readyOnce \/ s = "Ready")
      OBVIOUS
    <3>3. [at |-> "write", state |-> s, once |-> b] \in ControllerWrites
      BY DEF ControllerWrites
    <3> QED BY <3>1, <3>2, <3>3
  <2>2. Addon!TypeOK'
    BY <1>1, <2>1 DEF AddonInv, Addon!TypeOK, Addon!Observe, ControllerWrites, Addon!addon,
                      Addon!use
  <2> QED BY <1>1, <2>2 DEF Addon!Observe, AddonInv, UseSeen, TakenDown, UpToDate, Addon!addon,
                            Addon!use
<1>2. CASE Addon!UpdateStatus
  <2>1. controller' \in ControllerWrites /\ controller.state \in Addon!States
        /\ controller.once \in BOOLEAN
    BY <1>2, AddonQuiescent DEF AddonInv, Addon!TypeOK, Addon!UpdateStatus, ControllerWrites
  <2>2. UNCHANGED <<row, spec>> /\ state' \in Addon!States /\ readyOnce' \in BOOLEAN
    BY <1>2, <2>1 DEF AddonInv, Addon!TypeOK, Addon!UpdateStatus, Addon!addon
  <2>3. Addon!TypeOK'
    BY <1>2, <2>1, <2>2 DEF AddonInv, Addon!TypeOK, Addon!UpdateStatus, ControllerWrites,
                            Addon!use
  <2> QED BY <1>2, <2>2, <2>3 DEF Addon!UpdateStatus, AddonInv, UseSeen, TakenDown, UpToDate,
                                  Addon!use
<1>3. CASE Addon!ClusterGone
  <2>1. Addon!TypeOK'
    BY <1>3 DEF AddonInv, Addon!TypeOK, Addon!ClusterGone, Addon!addon, Addon!use
  <2> QED BY <1>3, <2>1 DEF Addon!ClusterGone, AddonInv, UseSeen, TakenDown, UpToDate,
                            Addon!addon, Addon!use
<1> QED BY <1>1, <1>2, <1>3

LEMMA AddonStacksKeep ==
  ASSUME AddonInv, Addon!Bind \/ Addon!CommitUse \/ Addon!Unbind
  PROVE  AddonInv'
<1>1. used' \in BOOLEAN /\ binding' \in BOOLEAN /\ raced' \in BOOLEAN
  BY DEF Addon!Bind, Addon!CommitUse, Addon!Unbind, AddonInv, Addon!TypeOK
<1>2. /\ UNCHANGED <<Addon!addon, cluster, clusterSpec, surroundings, request>>
      /\ UNCHANGED <<queued, worker, controller, failures, lost>>
  BY DEF Addon!Bind, Addon!CommitUse, Addon!Unbind
<1>3. Addon!TypeOK'
  BY <1>1, <1>2 DEF AddonInv, Addon!TypeOK, Addon!addon
<1>4. UseSeen'
  <2>1. CASE Addon!Bind \/ Addon!Unbind
    BY <1>2, <2>1 DEF Addon!Bind, Addon!Unbind, AddonInv, UseSeen, Addon!addon
  <2>2. CASE Addon!CommitUse
    BY <1>2, <2>2 DEF Addon!CommitUse, UseSeen, Addon!addon
  <2> QED BY <2>1, <2>2
<1> QED BY <1>2, <1>3, <1>4 DEF AddonInv, TakenDown, UpToDate, Addon!addon

LEMMA AddonNextKeeps ==
  ASSUME AddonInv, MaxAddonFailures \in Nat, [Addon!Next]_(Addon!vars)
  PROVE  AddonInv'
<1>1. CASE UNCHANGED Addon!vars
  BY <1>1 DEF Addon!vars, Addon!addon, Addon!use, AddonInv, Addon!TypeOK, UseSeen, TakenDown,
              UpToDate
<1> QED BY <1>1, AddonReadKeeps, AddonWriteKeeps, AddonMarkDeletedKeeps, AddonSetDeletingKeeps,
           AddonEnqueueKeeps,
           AddonCallFailsKeeps, AddonQueueKeeps, CheckUseKeeps, AddonTakeDownKeeps,
           AddonSurroundKeeps, AddonApplyKeeps, AddonFailureKeeps,
           AddonControllerKeeps, AddonStacksKeep
    DEF Addon!Next, Addon!Call, Addon!Worker

\* For any calls, sizes and failures, AddonInv holds of an addon, its worker and its
\* controller throughout.
THEOREM AddonInvariance ==
  Addon!Spec => []AddonInv
<1>1. Addon!Init => AddonInv
  BY AddonInit, BoundsAssumption
<1>2. AddonInv /\ [Addon!Next]_(Addon!vars) => AddonInv'
  BY AddonNextKeeps, BoundsAssumption
<1> QED BY <1>1, <1>2, PTL DEF Addon!Spec

\* However the binding of stacks, the deletion of the addon and the steps of its worker
\* interleave, a row that is referenced is there, unless it was bound after the last check.
THEOREM UsedAddonStays ==
  Addon!Spec => []Addon!UsedAddonKept
<1>1. AddonInv => Addon!UsedAddonKept
  BY DEF AddonInv, UseSeen, Addon!UsedAddonKept
<1> QED BY <1>1, AddonInvariance, PTL

\* Whatever calls change the addon at once and whatever copy the worker has loaded, a
\* change that the cluster does not have yet is on its way, unless a crash lost it.
THEOREM ChangeIsOnItsWay ==
  Addon!Spec => []ChangeNotForgotten
<1>1. ASSUME AddonInv PROVE Addon!TypeOK /\ Addon!ChangeNotForgotten
  <2> QED BY <1>1 DEF AddonInv, UpToDate, Addon!ChangeNotForgotten
<1> QED BY <1>1, AddonInvariance, PTL DEF ChangeNotForgotten

-----------------------------------------------------------------------------
\* What the worker is about to do fits the row, which nobody else removes, and the
\* cluster, which nobody else makes.
WorkerFits ==
  /\ worker.at \in {"surround", "apply"} => row # "none"
  /\ worker.at = "apply" => surroundings
  /\ worker.at \in {"check", "cluster", "row"} => row = "deleting"
  /\ worker.at = "row" => cluster # "live"

\* A step of the lifecycle, or none, after which the worker fits still.
FittingStep == WorkerFits' /\ [Addon!Lifecycle!Next]_(Addon!Lifecycle!vars)

\* Steps that change neither the cluster nor what the worker is at.
LEMMA AddonCallFits ==
  ASSUME AddonInv, WorkerFits, NEW r \in AddonRequests, Addon!Call(r)
  PROVE  FittingStep
<1>1. UNCHANGED <<cluster, surroundings, worker, used, raced>>
  BY DEF Addon!Call, Addon!Read, Addon!Write, Addon!MarkDeleted, Addon!SetDeleting,
         Addon!Enqueue, Addon!CallFails, Addon!use
<1>2. row' = row \/ (row # "none" /\ row' = "deleting")
  BY DEF Addon!Call, Addon!Read, Addon!Write, Addon!MarkDeleted, Addon!SetDeleting,
         Addon!Enqueue, Addon!CallFails, Addon!addon
<1>3. row \in {"live", "deleting", "none"}
  BY DEF AddonInv, Addon!TypeOK
<1>4. CASE row' = row
  BY <1>1, <1>4 DEF FittingStep, WorkerFits, Addon!Lifecycle!vars
<1>5. CASE row' # row
  <2>1. row = "live" /\ row' = "deleting"
    BY <1>2, <1>3, <1>5
  <2>2. Addon!Lifecycle!Delete
    BY <1>1, <2>1 DEF Addon!Lifecycle!Delete
  <2> QED BY <1>1, <2>1, <2>2 DEF FittingStep, WorkerFits, Addon!Lifecycle!Next
<1> QED BY <1>4, <1>5

LEMMA AddonQuietFits ==
  ASSUME WorkerFits,
         Addon!ListInput \/ Addon!Observe \/ Addon!UpdateStatus \/ Addon!Bind
         \/ UNCHANGED Addon!vars
  PROVE  FittingStep
<1>1. UNCHANGED <<row, cluster, surroundings, worker, used, raced>>
  BY DEF Addon!ListInput, Addon!Observe, Addon!UpdateStatus, Addon!Bind, Addon!vars,
         Addon!addon,
         Addon!use
<1> QED BY <1>1 DEF FittingStep, WorkerFits, Addon!Lifecycle!vars

LEMMA AddonUseFits ==
  ASSUME WorkerFits, Addon!CommitUse \/ Addon!Unbind \/ Addon!ClusterGone
  PROVE  FittingStep
<1>1. UNCHANGED <<row, surroundings, worker>>
  BY DEF Addon!CommitUse, Addon!Unbind, Addon!ClusterGone, Addon!addon
<1>2. WorkerFits'
  BY <1>1 DEF WorkerFits, Addon!CommitUse, Addon!Unbind, Addon!ClusterGone
<1>3. CASE Addon!CommitUse
  <2>1. Addon!Lifecycle!Use
    BY <1>1, <1>3 DEF Addon!CommitUse, Addon!Lifecycle!Use
  <2> QED BY <1>2, <2>1 DEF FittingStep, Addon!Lifecycle!Next
<1>4. CASE Addon!Unbind
  <2>1. Addon!Lifecycle!Release
    BY <1>1, <1>4 DEF Addon!Unbind, Addon!Lifecycle!Release
  <2> QED BY <1>2, <2>1 DEF FittingStep, Addon!Lifecycle!Next
<1>5. CASE Addon!ClusterGone
  <2>1. Addon!Lifecycle!Gone
    BY <1>1, <1>5 DEF Addon!ClusterGone, Addon!use, Addon!Lifecycle!Gone
  <2> QED BY <1>2, <2>1 DEF FittingStep, Addon!Lifecycle!Next
<1> QED BY <1>3, <1>4, <1>5

\* The worker takes the addon from the queue, or gives it up.
LEMMA AddonTurnsFit ==
  ASSUME AddonInv, WorkerFits, Addon!Execute \/ Addon!StepFails \/ Addon!Crash
  PROVE  FittingStep
<1>1. UNCHANGED <<row, cluster, used, raced>> /\ Addon!Idle.at = "idle"
  BY DEF Addon!Execute, Addon!StepFails, Addon!Crash, Addon!addon, Addon!use, Addon!Idle
<1>2. row \in {"live", "deleting", "none"} /\ surroundings \in BOOLEAN
  BY DEF AddonInv, Addon!TypeOK
<1>3. /\ worker'.at \in {"idle", "surround", "check"}
      /\ worker'.at = "surround" => row = "live"
      /\ worker'.at = "check" => row = "deleting"
  <2>1. CASE Addon!Execute
    <3>1. [Addon!Idle EXCEPT !.at = "check"].at = "check"
      BY DEF Addon!Idle
    <3> QED BY <1>1, <1>2, <2>1, <3>1 DEF Addon!Execute
  <2>2. CASE Addon!StepFails \/ Addon!Crash
    BY <1>1, <2>2 DEF Addon!StepFails, Addon!Crash
  <2> QED BY <2>1, <2>2
<1>4. surroundings' = surroundings \/ (worker.at = "surround" /\ surroundings' /\ worker'.at = "idle")
  BY <1>1, <1>2 DEF Addon!Execute, Addon!StepFails, Addon!Crash, Addon!PartlySurround
<1>5. WorkerFits'
  BY <1>1, <1>3 DEF WorkerFits
<1>6. CASE surroundings' = surroundings
  BY <1>1, <1>3, <1>5, <1>6 DEF FittingStep, Addon!Lifecycle!Spare, Addon!Lifecycle!Next
<1>7. CASE worker.at = "surround" /\ surroundings' /\ worker'.at = "idle"
  BY <1>1, <1>5, <1>7 DEF FittingStep, WorkerFits, Addon!Lifecycle!Surround,
                          Addon!Lifecycle!Next
<1> QED BY <1>4, <1>6, <1>7

LEMMA AddonTakeDownFits ==
  ASSUME AddonInv, WorkerFits, Addon!CheckUse \/ Addon!DeleteCluster \/ Addon!DeleteRow
  PROVE  FittingStep
<1>1. worker \in AddonSteps /\ Addon!Idle.at = "idle"
  BY DEF AddonInv, Addon!TypeOK, AddonSteps, Addon!Idle
<1>2. UNCHANGED <<surroundings, used, raced>> /\ row = "deleting"
  BY DEF Addon!CheckUse, Addon!DeleteCluster, Addon!DeleteRow, Addon!use, WorkerFits
<1>3. CASE Addon!CheckUse
  <2>1. /\ worker.at = "check" /\ UNCHANGED <<row, cluster>>
        /\ worker'.at = IF used THEN "idle" ELSE "cluster"
    BY <1>1, <1>3 DEF Addon!CheckUse, Addon!addon, AddonSteps
  <2>2. WorkerFits'
    BY <1>2, <2>1 DEF WorkerFits
  <2>3. CASE used
    BY <1>2, <2>1, <2>2, <2>3 DEF FittingStep, Addon!Lifecycle!vars
  <2>4. CASE ~used
    <3>1. Addon!Lifecycle!Approve
      BY <1>2, <2>1, <2>4 DEF Addon!Lifecycle!Approve
    <3> QED BY <2>2, <3>1 DEF FittingStep, Addon!Lifecycle!Next
  <2> QED BY <2>3, <2>4
<1>4. CASE Addon!DeleteCluster
  <2>1. /\ worker.at = "cluster" /\ worker'.at = "row" /\ row' = row
        /\ cluster' = IF cluster = "live" THEN "terminating" ELSE cluster
    BY <1>1, <1>4 DEF Addon!DeleteCluster, Addon!addon, AddonSteps
  <2>2. WorkerFits'
    BY <1>2, <2>1 DEF WorkerFits
  <2>3. CASE cluster = "live"
    <3>1. Addon!Lifecycle!TakeDown
      BY <1>2, <2>1, <2>3 DEF Addon!Lifecycle!TakeDown
    <3> QED BY <2>2, <3>1 DEF FittingStep, Addon!Lifecycle!Next
  <2>4. CASE cluster # "live"
    BY <1>2, <2>1, <2>2, <2>4 DEF FittingStep, Addon!Lifecycle!vars
  <2> QED BY <2>3, <2>4
<1>5. CASE Addon!DeleteRow
  <2>1. /\ worker.at = "row" /\ worker'.at = "idle" /\ row' = "none"
        /\ cluster # "live" /\ cluster' = cluster
    BY <1>1, <1>5 DEF Addon!DeleteRow, WorkerFits
  <2>2. Addon!Lifecycle!Remove
    BY <1>2, <2>1 DEF Addon!Lifecycle!Remove
  <2> QED BY <2>1, <2>2 DEF FittingStep, WorkerFits, Addon!Lifecycle!Next
<1> QED BY <1>3, <1>4, <1>5

LEMMA AddonApplyFits ==
  ASSUME AddonInv, WorkerFits, Addon!Surround \/ Addon!Apply
  PROVE  FittingStep
<1>1. CASE Addon!Surround
  <2>1. /\ worker.at = "surround" /\ worker'.at = "apply" /\ row # "none"
        /\ UNCHANGED <<row, cluster, used, raced>> /\ surroundings' = TRUE
    BY <1>1 DEF AddonInv, Addon!TypeOK, Addon!Surround, WorkerFits, Addon!addon, Addon!use
  <2>2. Addon!Lifecycle!Surround
    BY <2>1 DEF Addon!Lifecycle!Surround
  <2> QED BY <2>1, <2>2 DEF FittingStep, WorkerFits, Addon!Lifecycle!Next
<1>2. CASE Addon!Apply
  <2>1. /\ worker.at = "apply" /\ worker'.at = "idle" /\ row # "none" /\ surroundings
        /\ UNCHANGED <<row, surroundings, used, raced>>
        /\ cluster' = IF cluster = "none" THEN "live" ELSE cluster
    BY <1>2 DEF Addon!Apply, WorkerFits, Addon!addon, Addon!use, Addon!Idle
  <2>2. CASE cluster = "none"
    <3>1. Addon!Lifecycle!Make
      BY <2>1, <2>2 DEF Addon!Lifecycle!Make
    <3> QED BY <2>1, <3>1 DEF FittingStep, WorkerFits, Addon!Lifecycle!Next
  <2>3. CASE cluster # "none"
    BY <2>1, <2>3 DEF FittingStep, WorkerFits, Addon!Lifecycle!vars
  <2> QED BY <2>2, <2>3
<1> QED BY <1>1, <1>2

\* Calls on copies of the row, a worker that is interrupted between its steps and stacks
\* that come and go implement the lifecycle of an addon: its PostgresCluster is made while
\* there is a row, is taken down after the addon was found unused, and is gone or going
\* when the row is.
THEOREM AddonLifecycleImplemented == Addon!Spec => ImplementsAddonLifecycle
<1>1. Addon!Init => WorkerFits /\ Addon!Lifecycle!Init
  BY DEF Addon!Init, WorkerFits, Addon!Lifecycle!Init, Addon!Idle
<1>2. AddonInv /\ WorkerFits /\ [Addon!Next]_(Addon!vars) => FittingStep
  BY AddonCallFits, AddonQuietFits, AddonUseFits, AddonTurnsFit, AddonTakeDownFits,
     AddonApplyFits DEF Addon!Next, Addon!Worker
<1>3. Addon!Spec => Addon!Lifecycle!Spec
  BY <1>1, <1>2, AddonInvariance, PTL DEF Addon!Spec, FittingStep, Addon!Lifecycle!Spec
<1> QED BY <1>3 DEF ImplementsAddonLifecycle, Addon!ImplementsLifecycle

\* No database of an addon goes on running once its row is gone, when no scan would find it
\* any more, nor runs without its surroundings, however often the worker was stopped while it
\* made them: the promise holds of the lifecycle, and so of what implements it.
THEOREM NothingRunsOn == Addon!Spec => []Addon!Lifecycle!NothingRuns
<1> DEFINE Inv == /\ worker.at \in {"cluster", "row"} => row = "deleting"
                  /\ surroundings \in BOOLEAN
                  /\ Addon!Lifecycle!NothingRuns
<1>1. Addon!Lifecycle!Init => Inv
  BY DEF Addon!Lifecycle!Init, Addon!Lifecycle!NothingRuns
<1>2. Inv /\ [Addon!Lifecycle!Next]_(Addon!Lifecycle!vars) => Inv'
  BY DEF Addon!Lifecycle!Next, Addon!Lifecycle!vars, Addon!Lifecycle!NothingRuns,
         Addon!Lifecycle!Delete, Addon!Lifecycle!Approve, Addon!Lifecycle!Spare,
         Addon!Lifecycle!Remove, Addon!Lifecycle!Surround, Addon!Lifecycle!Make,
         Addon!Lifecycle!TakeDown, Addon!Lifecycle!Gone, Addon!Lifecycle!Use,
         Addon!Lifecycle!Release
<1>3. Addon!Lifecycle!Spec => []Addon!Lifecycle!NothingRuns
  BY <1>1, <1>2, PTL DEF Addon!Lifecycle!Spec
<1>4. Addon!Spec => Addon!Lifecycle!Spec
  BY AddonLifecycleImplemented DEF ImplementsAddonLifecycle, Addon!ImplementsLifecycle
<1> QED BY <1>3, <1>4


-----------------------------------------------------------------------------
(***************************************************************************)
(* OrgInvites: an invitation leaves "pending" once, and only then has it a *)
(* consumer; and the step a signup is at says which of its roles Casbin    *)
(* has, row or no row.                                                     *)
(***************************************************************************)

InviteRows ==
  [status : {"none", "pending", "accepted", "revoked", "deleted"}, sent : BOOLEAN, late : BOOLEAN]
SignupStates == [step : Invitations!Steps, invite : Invites \cup {Invitations!NoInvite}]
InviteCalls ==
  [step : {"none", "create", "revoke", "resend", "enqueue"},
   invite : Invites \cup {Invitations!NoInvite}]

Gone == {"accepted", "revoked", "deleted"}   \* a row never comes back from these
Invited == {"accepted", "created", "member", "project"}
Insertion == {"inserted", "admin", "granted"}

\* A call that enqueues knows what.
Addressed ==
  \A r \in InviteRequests : inviteRequest[r].step = "enqueue" =>
    inviteRequest[r].invite \in Invites

\* A signup that has accepted an invitation keeps to it, and the invitation is used up.
Consumers ==
  /\ \A u \in Users : signup[u].step \in Invited => u \in consumed
  /\ \A u \in consumed :
       /\ signup[u].step \in Invited \cup {"end"}
       /\ signup[u].invite \in Invites /\ invites[signup[u].invite].status \in Gone

Mails ==
  /\ Invitations!SentMeansMailed
  /\ \A i \in Invites : sending[i] = "mailed" => i \in mailed

\* One transaction inserts a user with the address, as long as there is none.
OneInserts ==
  \A u \in Users : signup[u].step \in Insertion =>
    userRow = Invitations!NoUser /\ \A v \in Users : signup[v].step \in Insertion => v = u

\* What a signup has granted, and whether its user is there, by the step it is at.
RolesAt(u, step, roles) ==
  /\ step \in {"new", "begun", "valid", "accepted", "inserted"} => roles = {} /\ userRow # u
  /\ step = "admin" => roles = {"OrgAdmin"} /\ userRow # u
  /\ step = "granted" => roles = {"OrgAdmin", "OrgMember"} /\ userRow # u
  /\ step = "undo" => roles \subseteq {"OrgAdmin", "OrgMember"} /\ userRow # u
  /\ step = "undone" => roles \subseteq {"OrgMember"} /\ userRow # u
  /\ step \in {"created", "member"} => roles = {} /\ userRow = u
  /\ step = "project" => roles = {"Project"} /\ userRow = u
  /\ step = "end" =>
       \/ userRow # u /\ roles = {}
       \/ userRow = u /\ u \in consumed /\ roles = {"Project", "OrgMember"}
       \/ userRow = u /\ u \notin consumed /\ roles = {"OrgAdmin", "OrgMember"}

RolesByStep(u) == RolesAt(u, signup[u].step, grants[u])

InvitesInv ==
  /\ Invitations!TypeOK /\ Addressed
  /\ Consumers /\ Invitations!ConsumedOnce
  /\ Mails
  /\ OneInserts
  /\ \A u \in Users \ doubt : RolesByStep(u)

-----------------------------------------------------------------------------
LEMMA InvitesInit ==
  ASSUME MaxInviteFailures \in Nat, Invitations!NoUser \notin Users, Invitations!Init
  PROVE  InvitesInv
<1>1. 0 \in 0..MaxInviteFailures
  OBVIOUS
<1>2. /\ invites \in [Invites -> InviteRows] /\ signup \in [Users -> SignupStates]
      /\ inviteRequest \in [InviteRequests -> InviteCalls]
         /\ grants \in [Users -> SUBSET Invitations!Roles]
      /\ sending \in [Invites -> {"idle", "loaded", "marked", "mailed"}]
  BY DEF Invitations!Init, InviteRows, SignupStates, InviteCalls, Invitations!NoCall,
         Invitations!Steps
<1>3. Invitations!TypeOK
  BY <1>1, <1>2 DEF Invitations!Init, Invitations!TypeOK, InviteRows, SignupStates, InviteCalls
<1>4. Addressed /\ Consumers /\ Invitations!ConsumedOnce /\ Mails /\ OneInserts
  BY DEF Invitations!Init, Invitations!NoCall, Addressed, Consumers, Invited,
         Invitations!ConsumedOnce, Mails, Invitations!SentMeansMailed,
         OneInserts, Insertion
<1>5. ASSUME NEW u \in Users PROVE RolesByStep(u)
  BY DEF Invitations!Init, RolesByStep, RolesAt
<1> QED BY <1>3, <1>4, <1>5 DEF InvitesInv

-----------------------------------------------------------------------------
\* A step that is not of a signup: it may use up invitations but not revive them.
LEMMA InvitesOthersKeep ==
  ASSUME InvitesInv, Invitations!TypeOK', Addressed', Mails',
         UNCHANGED <<userRow, grants, signup, consumed, doubt>>,
         \A i \in Invites : invites[i].status \in Gone => invites'[i].status \in Gone
  PROVE  InvitesInv'
<1>1. Consumers' /\ Invitations!ConsumedOnce' /\ OneInserts'
  BY DEF InvitesInv, Consumers, Invitations!ConsumedOnce, OneInserts
<1>2. \A u \in Users \ doubt' : RolesByStep(u)'
  BY DEF InvitesInv, RolesByStep, RolesAt
<1> QED BY <1>1, <1>2 DEF InvitesInv

\* A call moves on.
LEMMA InvitesCallStep ==
  ASSUME InvitesInv, NEW r \in InviteRequests, NEW c \in InviteCalls,
         inviteRequest' = [inviteRequest EXCEPT ![r] = c],
         c.step = "enqueue" => c.invite \in Invites
  PROVE  inviteRequest' \in [InviteRequests -> InviteCalls] /\ Addressed'
BY DEF InvitesInv, Invitations!TypeOK, InviteCalls, Addressed

LEMMA InvitesCheckKeeps ==
  ASSUME InvitesInv, NEW r \in InviteRequests,
         \/ Invitations!CallFails(r)
         \/ \E i \in Invites : \/ Invitations!CreateCheck(r, i) \/ Invitations!RevokeCheck(r, i)
                              \/ Invitations!ResendCheck(r, i)
  PROVE  InvitesInv'
<1>1. \E c \in InviteCalls : c.step # "enqueue"
      /\ inviteRequest' = [inviteRequest EXCEPT ![r] = c]
  <2>1. CASE Invitations!CallFails(r)
    <3>1. Invitations!NoCall \in InviteCalls /\ Invitations!NoCall.step # "enqueue"
      BY DEF Invitations!NoCall, InviteCalls
    <3> QED BY <2>1, <3>1 DEF Invitations!CallFails
  <2>2. ASSUME NEW i \in Invites,
               \/ Invitations!CreateCheck(r, i) \/ Invitations!RevokeCheck(r, i)
               \/ Invitations!ResendCheck(r, i)
        PROVE  \E c \in InviteCalls : c.step # "enqueue"
               /\ inviteRequest' = [inviteRequest EXCEPT ![r] = c]
    <3>1. \A step \in {"create", "revoke", "resend"} : [step |-> step, invite |-> i] \in InviteCalls
      BY DEF InviteCalls
    <3>2. PICK step \in {"create", "revoke", "resend"} :
            inviteRequest' = [inviteRequest EXCEPT ![r] = [step |-> step, invite |-> i]]
      BY <2>2 DEF Invitations!CreateCheck, Invitations!RevokeCheck, Invitations!ResendCheck
    <3>3. [step |-> step, invite |-> i].step # "enqueue"
      OBVIOUS
    <3> QED BY <3>1, <3>2, <3>3
  <2> QED BY <2>1, <2>2
<1>2. inviteRequest' \in [InviteRequests -> InviteCalls] /\ Addressed'
  BY <1>1, InvitesCallStep
<1>3. UNCHANGED <<Invitations!tables, signup, Invitations!mailing, inviteFailures,
                  Invitations!history>>
  BY DEF Invitations!CreateCheck, Invitations!CallFails, Invitations!RevokeCheck,
         Invitations!ResendCheck
<1>4. Invitations!TypeOK' /\ Mails'
  BY <1>2, <1>3 DEF InvitesInv, Invitations!TypeOK, InviteCalls, Mails,
                    Invitations!SentMeansMailed, Invitations!tables, Invitations!mailing,
                    Invitations!history
<1> QED BY <1>2, <1>3, <1>4, InvitesOthersKeep DEF Invitations!tables, Invitations!history

LEMMA InvitesCreateKeeps ==
  ASSUME InvitesInv, NEW r \in InviteRequests, NEW i \in Invites, Invitations!Create(r, i)
  PROVE  InvitesInv'
<1> DEFINE c == [step |-> "enqueue", invite |-> i]
<1>1. c \in InviteCalls /\ c.invite \in Invites
      /\ inviteRequest' = [inviteRequest EXCEPT ![r] = c]
  BY DEF Invitations!Create, InviteCalls
<1> HIDE DEF c
<1>2. inviteRequest' \in [InviteRequests -> InviteCalls] /\ Addressed'
  BY <1>1, InvitesCallStep
<1>3. /\ invites[i].status = "none"
      /\ invites' = [invites EXCEPT ![i] = [invites[i] EXCEPT !.status = "pending"]]
      /\ UNCHANGED <<userRow, members, grants, signup, Invitations!mailing, inviteFailures,
                     Invitations!history>>
  BY DEF Invitations!Create
<1>4. /\ invites' \in [Invites -> InviteRows] /\ invites'[i].sent = invites[i].sent
      /\ \A j \in Invites \ {i} : invites'[j] = invites[j]
  BY <1>3 DEF InvitesInv, Invitations!TypeOK, InviteRows
<1>5. Invitations!TypeOK' /\ Mails'
  BY <1>2, <1>3, <1>4 DEF InvitesInv, Invitations!TypeOK, InviteRows, InviteCalls, Mails,
                          Invitations!SentMeansMailed, Invitations!mailing, Invitations!history
<1> QED BY <1>2, <1>3, <1>4, <1>5, InvitesOthersKeep DEF Invitations!history, Gone

LEMMA InvitesRevokeKeeps ==
  ASSUME InvitesInv, NEW r \in InviteRequests, NEW i \in Invites, Invitations!Revoke(r, i)
  PROVE  InvitesInv'
<1>1. Invitations!NoCall \in InviteCalls /\ Invitations!NoCall.step # "enqueue"
      /\ inviteRequest' = [inviteRequest EXCEPT ![r] = Invitations!NoCall]
  BY DEF Invitations!Revoke, Invitations!NoCall, InviteCalls
<1>2. inviteRequest' \in [InviteRequests -> InviteCalls] /\ Addressed'
  BY <1>1, InvitesCallStep
<1>3. /\ invites' = IF invites[i].status = "deleted" THEN invites
                    ELSE [invites EXCEPT ![i] = [invites[i] EXCEPT !.status = "revoked"]]
      /\ UNCHANGED <<userRow, members, grants, signup, Invitations!mailing, inviteFailures,
                     Invitations!history>>
  BY DEF Invitations!Revoke
<1>4. /\ invites' \in [Invites -> InviteRows] /\ invites'[i].sent = invites[i].sent
      /\ invites'[i].status \in Gone
      /\ \A j \in Invites \ {i} : invites'[j] = invites[j]
  BY <1>3 DEF InvitesInv, Invitations!TypeOK, InviteRows, Gone
<1>5. Invitations!TypeOK' /\ Mails'
  BY <1>2, <1>3, <1>4 DEF InvitesInv, Invitations!TypeOK, InviteRows, InviteCalls, Mails,
                          Invitations!SentMeansMailed, Invitations!mailing, Invitations!history
<1> QED BY <1>2, <1>3, <1>4, <1>5, InvitesOthersKeep DEF Invitations!history

\* The row that the mailing worker is about to mark as sent is not reset meanwhile.
LEMMA InvitesResendKeeps ==
  ASSUME InvitesInv, NEW r \in InviteRequests, NEW i \in Invites, Invitations!Resend(r, i)
  PROVE  InvitesInv'
<1> DEFINE c == [inviteRequest[r] EXCEPT !.step = "enqueue"]
<1>1. c \in InviteCalls /\ c.invite \in Invites
      /\ inviteRequest' = [inviteRequest EXCEPT ![r] = c]
  BY DEF Invitations!Resend, InviteCalls, InvitesInv, Invitations!TypeOK
<1> HIDE DEF c
<1>2. inviteRequest' \in [InviteRequests -> InviteCalls] /\ Addressed'
  BY <1>1, InvitesCallStep
<1>3. /\ invites' = [invites EXCEPT ![i] = [invites[i] EXCEPT !.sent = FALSE]]
      /\ mailed' = mailed \ {i} /\ sending[i] # "mailed"
      /\ UNCHANGED <<userRow, members, grants, signup, Invitations!mailing, inviteFailures,
                     consumed, doubt>>
  BY DEF Invitations!Resend, Invitations!Locked
<1>4. /\ invites' \in [Invites -> InviteRows] /\ invites'[i].sent = FALSE
      /\ invites'[i].status = invites[i].status
      /\ \A j \in Invites \ {i} : invites'[j] = invites[j]
  BY <1>3 DEF InvitesInv, Invitations!TypeOK, InviteRows
<1>5. Invitations!TypeOK' /\ Mails'
  BY <1>2, <1>3, <1>4 DEF InvitesInv, Invitations!TypeOK, InviteRows, InviteCalls, Mails,
                          Invitations!SentMeansMailed, Invitations!mailing
<1> QED BY <1>2, <1>3, <1>4, <1>5, InvitesOthersKeep

LEMMA InvitesEnqueueKeeps ==
  ASSUME InvitesInv, NEW r \in InviteRequests, Invitations!Enqueue(r)
  PROVE  InvitesInv'
<1>1. Invitations!NoCall \in InviteCalls /\ Invitations!NoCall.step # "enqueue"
      /\ inviteRequest' = [inviteRequest EXCEPT ![r] = Invitations!NoCall]
  BY DEF Invitations!Enqueue, Invitations!NoCall, InviteCalls
<1>2. inviteRequest' \in [InviteRequests -> InviteCalls] /\ Addressed'
  BY <1>1, InvitesCallStep
<1>3. inviteQueue' \subseteq Invites
  BY DEF Invitations!Enqueue, InvitesInv, Invitations!TypeOK, Addressed
<1>4. UNCHANGED <<Invitations!tables, signup, sending, expired, inviteFailures,
                  Invitations!history>>
  BY DEF Invitations!Enqueue
<1>5. Invitations!TypeOK' /\ Mails'
  BY <1>2, <1>3, <1>4 DEF InvitesInv, Invitations!TypeOK, InviteCalls, Mails,
                          Invitations!SentMeansMailed, Invitations!tables, Invitations!history
<1> QED BY <1>2, <1>4, <1>5, InvitesOthersKeep DEF Invitations!tables, Invitations!history

LEMMA InvitesAdministratorKeeps ==
  ASSUME InvitesInv, NEW r \in InviteRequests, Invitations!Administrator(r)
  PROVE  InvitesInv'
BY InvitesCheckKeeps, InvitesCreateKeeps, InvitesRevokeKeeps, InvitesResendKeeps,
   InvitesEnqueueKeeps DEF Invitations!Administrator

-----------------------------------------------------------------------------
\* The workers.
LEMMA InvitesQueueKeeps ==
  ASSUME InvitesInv,
         Invitations!ListInput \/ Invitations!ListExpired
         \/ (\E i \in Invites : Invitations!Execute(i) \/ Invitations!MarkSent(i))
  PROVE  InvitesInv'
<1>1. UNCHANGED <<Invitations!tables, signup, inviteRequest, inviteFailures, Invitations!history>>
  BY DEF Invitations!ListInput, Invitations!ListExpired, Invitations!Execute,
         Invitations!MarkSent
<1>2. /\ inviteQueue' \subseteq Invites /\ expired' \subseteq Invites
      /\ sending' \in [Invites -> {"idle", "loaded", "marked", "mailed"}]
  BY DEF Invitations!ListInput, Invitations!ListExpired, Invitations!Execute,
         Invitations!MarkSent, InvitesInv, Invitations!TypeOK
<1>3. \A i \in Invites : sending'[i] = "mailed" => sending[i] = "mailed"
  BY DEF Invitations!ListInput, Invitations!ListExpired, Invitations!Execute,
         Invitations!MarkSent, InvitesInv, Invitations!TypeOK
<1>4. Invitations!TypeOK' /\ Addressed' /\ Mails'
  BY <1>1, <1>2, <1>3 DEF InvitesInv, Invitations!TypeOK, Addressed, Mails,
                          Invitations!SentMeansMailed, Invitations!tables, Invitations!history
<1> QED BY <1>1, <1>4, InvitesOthersKeep DEF Invitations!tables, Invitations!history

LEMMA InvitesSendMailKeeps ==
  ASSUME InvitesInv, NEW i \in Invites, Invitations!SendMail(i)
  PROVE  InvitesInv'
<1>1. UNCHANGED <<Invitations!tables, signup, inviteRequest, inviteQueue, expired,
                  inviteFailures, consumed, doubt>>
  BY DEF Invitations!SendMail
<1>2. Invitations!TypeOK' /\ Addressed' /\ Mails'
  BY <1>1 DEF Invitations!SendMail, InvitesInv, Invitations!TypeOK, Addressed, Mails,
              Invitations!SentMeansMailed, Invitations!tables
<1> QED BY <1>1, <1>2, InvitesOthersKeep DEF Invitations!tables

\* The row is marked as sent by who has mailed it.
LEMMA InvitesSentKeeps ==
  ASSUME InvitesInv, NEW i \in Invites, MaxInviteFailures \in Nat,
         Invitations!CommitSent(i) \/ Invitations!MailFails(i)
  PROVE  InvitesInv'
<1>1. UNCHANGED <<userRow, members, grants, signup, inviteRequest, expired, Invitations!history>>
  BY DEF Invitations!CommitSent, Invitations!MailFails
<1>2. /\ inviteQueue' \subseteq Invites /\ inviteFailures' \in 0..MaxInviteFailures
      /\ sending' \in [Invites -> {"idle", "loaded", "marked", "mailed"}]
      /\ \A j \in Invites : sending'[j] = "mailed" => sending[j] = "mailed"
  BY DEF Invitations!CommitSent, Invitations!MailFails, Invitations!Fail, InvitesInv,
         Invitations!TypeOK
<1>3. /\ invites' \in [Invites -> InviteRows]
      /\ \A j \in Invites : /\ invites'[j].status = invites[j].status
                            /\ invites'[j].sent => invites[j].sent \/ j \in mailed
  <2>1. CASE UNCHANGED invites
    BY <2>1 DEF InvitesInv, Invitations!TypeOK, InviteRows
  <2>2. CASE sending[i] = "mailed" /\ Invitations!SentNow(i)
    <3>1. PICK b \in BOOLEAN : b = (invites[i].sent \/ invites[i].status # "deleted")
      OBVIOUS
    <3>2. invites' = [invites EXCEPT ![i] = [invites[i] EXCEPT !.sent = b]]
      BY <2>2, <3>1 DEF Invitations!SentNow
    <3>3. i \in mailed
      BY <2>2 DEF InvitesInv, Mails
    <3> QED BY <3>2, <3>3 DEF InvitesInv, Invitations!TypeOK, InviteRows
  <2> QED BY <2>1, <2>2 DEF Invitations!CommitSent, Invitations!MailFails
<1>4. Mails'
  BY <1>1, <1>2, <1>3 DEF InvitesInv, Mails, Invitations!SentMeansMailed, Invitations!history
<1>5. Invitations!TypeOK' /\ Addressed'
  BY <1>1, <1>2, <1>3 DEF InvitesInv, Invitations!TypeOK, InviteRows, Addressed,
                          Invitations!history
<1> QED BY <1>1, <1>3, <1>4, <1>5, InvitesOthersKeep DEF Invitations!history

LEMMA InvitesDeleteExpiredKeeps ==
  ASSUME InvitesInv, Invitations!DeleteExpired
  PROVE  InvitesInv'
<1>1. UNCHANGED <<userRow, members, grants, signup, inviteRequest, inviteQueue, sending,
                  inviteFailures, Invitations!history>>
  BY DEF Invitations!DeleteExpired
<1>2. \A i \in Invites : [invites[i] EXCEPT !.status = "deleted"] \in InviteRows
                        /\ [invites[i] EXCEPT !.status = "deleted"].status = "deleted"
                        /\ [invites[i] EXCEPT !.status = "deleted"].sent = invites[i].sent
  BY DEF InvitesInv, Invitations!TypeOK, InviteRows
<1>3. /\ invites' \in [Invites -> InviteRows]
      /\ \A i \in Invites : /\ invites'[i].status \in {invites[i].status, "deleted"}
                            /\ invites'[i].sent = invites[i].sent
  BY <1>2 DEF Invitations!DeleteExpired, InvitesInv, Invitations!TypeOK, InviteRows
<1>4. Mails'
  BY <1>1, <1>3 DEF InvitesInv, Mails, Invitations!SentMeansMailed, Invitations!history
<1>5. Invitations!TypeOK' /\ Addressed'
  BY <1>1, <1>3 DEF Invitations!DeleteExpired, InvitesInv, Invitations!TypeOK, InviteRows,
                    Addressed, Invitations!history
<1> QED BY <1>1, <1>3, <1>4, <1>5, InvitesOthersKeep DEF Invitations!history, Gone

LEMMA InvitesExpireKeeps ==
  ASSUME InvitesInv, NEW i \in Invites, Invitations!Expire(i)
  PROVE  InvitesInv'
<1>1. UNCHANGED <<userRow, members, grants, signup, inviteRequest, Invitations!mailing,
                  inviteFailures, Invitations!history>>
  BY DEF Invitations!Expire
<1>2. invites' = [invites EXCEPT ![i] = [invites[i] EXCEPT !.late = TRUE]]
  BY DEF Invitations!Expire
<1>3. /\ invites' \in [Invites -> InviteRows]
      /\ \A j \in Invites : /\ invites'[j].status = invites[j].status
                            /\ invites'[j].sent = invites[j].sent
  BY <1>2 DEF InvitesInv, Invitations!TypeOK, InviteRows
<1>4. Mails'
  BY <1>1, <1>3 DEF InvitesInv, Mails, Invitations!SentMeansMailed, Invitations!mailing,
                    Invitations!history
<1>5. Invitations!TypeOK' /\ Addressed'
  BY <1>1, <1>3 DEF InvitesInv, Invitations!TypeOK, InviteRows, Addressed, Invitations!mailing,
                    Invitations!history
<1> QED BY <1>1, <1>3, <1>4, <1>5, InvitesOthersKeep
         DEF Invitations!mailing, Invitations!history

-----------------------------------------------------------------------------
\* A step of the signup of u, to what c says, whatever the step is.
LEMMA InvitesSignupStep ==
  ASSUME InvitesInv, Invitations!TypeOK', NEW u \in Users, NEW c \in SignupStates,
         Invitations!NoUser \notin Users,
         signup' = [signup EXCEPT ![u] = c], UNCHANGED <<inviteRequest, sending, mailed>>,
         u \in consumed => c.invite = signup[u].invite,
         \/ UNCHANGED <<invites, consumed>>
         \/ /\ consumed' = consumed \cup {u} /\ u \notin consumed
            /\ c.invite \in Invites /\ invites[c.invite].status \notin Gone
            /\ \A i \in Invites : /\ invites[i].status \in Gone => invites'[i].status \in Gone
                                  /\ invites'[i].sent = invites[i].sent
            /\ invites'[c.invite].status \in Gone,
         u \in consumed' => c.step \in Invited \cup {"end"},
         c.step \in Invited => u \in consumed',
         \/ userRow' = userRow
         \/ /\ userRow = Invitations!NoUser /\ userRow' = u /\ c.step \notin Insertion
            /\ \A v \in Users \ {u} : signup[v].step \notin Insertion,
         c.step \in Insertion =>
           userRow' = Invitations!NoUser
           /\ \A v \in Users \ {u} : signup[v].step \notin Insertion,
         \A v \in Users \ {u} : grants'[v] = grants[v],
         doubt \subseteq doubt',
         u \notin doubt' => RolesByStep(u)'
  PROVE  InvitesInv'
<1>1. /\ signup'[u] = c
      /\ \A v \in Users \ {u} : signup'[v] = signup[v]
  BY DEF InvitesInv, Invitations!TypeOK
<1>2. \A v \in consumed' : v # u => v \in consumed
  OBVIOUS
<1>3. \A v \in consumed : v \in Users /\ v \in consumed'
  BY DEF InvitesInv, Invitations!TypeOK
<1>4. \A i \in Invites : invites[i].status \in Gone => invites'[i].status \in Gone
  OBVIOUS
<1>5. Consumers'
  <2>1. ASSUME NEW v \in Users, signup'[v].step \in Invited PROVE v \in consumed'
    BY <1>1, <1>3, <2>1 DEF InvitesInv, Consumers
  <2>2. ASSUME NEW v \in consumed'
        PROVE  /\ signup'[v].step \in Invited \cup {"end"}
               /\ signup'[v].invite \in Invites /\ invites'[signup'[v].invite].status \in Gone
    <3>1. CASE v = u
      BY <1>1, <1>4, <3>1 DEF InvitesInv, Consumers
    <3>2. CASE v # u
      BY <1>1, <1>2, <1>3, <1>4, <3>2 DEF InvitesInv, Consumers
    <3> QED BY <3>1, <3>2
  <2> QED BY <2>1, <2>2 DEF Consumers
<1>6. Invitations!ConsumedOnce'
  <2> SUFFICES ASSUME NEW v \in consumed', NEW w \in consumed',
                      signup'[v].invite = signup'[w].invite, v # w
               PROVE  FALSE
    BY DEF Invitations!ConsumedOnce
  <2>1. CASE v # u /\ w # u
    BY <1>1, <1>2, <1>3, <2>1 DEF InvitesInv, Invitations!ConsumedOnce
  <2>2. CASE u \in consumed
    BY <1>1, <1>2, <1>3, <2>2 DEF InvitesInv, Invitations!ConsumedOnce
  <2>3. ASSUME NEW q \in consumed, q # u, u \notin consumed,
               u \in consumed' PROVE signup'[q].invite # c.invite
    BY <1>1, <1>3, <2>3 DEF InvitesInv, Consumers
  <2> QED BY <1>1, <1>2, <2>1, <2>2, <2>3
<1>7. Mails'
  BY DEF InvitesInv, Mails, Invitations!SentMeansMailed
<1>8. OneInserts'
  BY <1>1 DEF InvitesInv, OneInserts
<1>9. ASSUME NEW v \in Users \ doubt' PROVE RolesByStep(v)'
  <2>1. CASE v = u
    BY <1>9, <2>1
  <2>2. CASE v # u
    <3>1. /\ v \in Users \ doubt /\ RolesByStep(v)
          /\ signup'[v] = signup[v] /\ grants'[v] = grants[v]
      BY <1>1, <2>2 DEF InvitesInv
    <3>2. (userRow' = v) = (userRow = v)
      BY <2>2
    <3>3. (v \in consumed') = (v \in consumed)
      BY <1>2, <1>3, <2>2
    <3> QED BY <3>1, <3>2, <3>3 DEF RolesByStep, RolesAt
  <2> QED BY <2>1, <2>2
<1>10. Addressed'
  BY DEF InvitesInv, Addressed
<1> QED BY <1>5, <1>6, <1>7, <1>8, <1>9, <1>10 DEF InvitesInv

\* The same for a step that leaves the invitations alone.
LEMMA InvitesGoToStep ==
  ASSUME InvitesInv, NEW u \in Users, NEW step \in Invitations!Steps,
         Invitations!NoUser \notin Users,
         Invitations!GoTo(u, step),
         UNCHANGED <<invites, consumed, inviteRequest, Invitations!mailing, mailed>>,
         members' \subseteq Users, inviteFailures' \in 0..MaxInviteFailures,
         doubt' \subseteq Users,
         NEW g \in SUBSET Invitations!Roles, grants' = [grants EXCEPT ![u] = g],
         u \in consumed => step \in Invited \cup {"end"},
         step \in Invited => u \in consumed,
         \/ userRow' = userRow
         \/ /\ userRow = Invitations!NoUser /\ userRow' = u /\ step \notin Insertion
            /\ \A v \in Users \ {u} : signup[v].step \notin Insertion,
         step \in Insertion =>
           userRow' = Invitations!NoUser
           /\ \A v \in Users \ {u} : signup[v].step \notin Insertion,
         doubt \subseteq doubt',
         u \notin doubt' => RolesAt(u, step, g)'
  PROVE  InvitesInv'
<1> DEFINE c == [signup[u] EXCEPT !.step = step]
<1>1. c \in SignupStates /\ c.step = step /\ c.invite = signup[u].invite
  BY DEF InvitesInv, Invitations!TypeOK, SignupStates
<1>2. signup' = [signup EXCEPT ![u] = c]
  BY DEF Invitations!GoTo
<1> HIDE DEF c
<1>3. signup' \in [Users -> SignupStates] /\ signup'[u] = c
  BY <1>1, <1>2 DEF InvitesInv, Invitations!TypeOK, SignupStates
<1>4. /\ grants' \in [Users -> SUBSET Invitations!Roles] /\ grants'[u] = g
      /\ \A v \in Users \ {u} : grants'[v] = grants[v]
  BY DEF InvitesInv, Invitations!TypeOK
<1>5. userRow' \in Users \cup {Invitations!NoUser}
  BY DEF InvitesInv, Invitations!TypeOK
<1>6. Invitations!TypeOK'
  BY <1>3, <1>4, <1>5 DEF InvitesInv, Invitations!TypeOK, SignupStates, Invitations!mailing
<1>7. u \notin doubt' => RolesByStep(u)'
  BY <1>1, <1>3, <1>4 DEF RolesByStep
<1>8. UNCHANGED <<inviteRequest, sending, mailed>> /\ UNCHANGED <<invites, consumed>>
  BY DEF Invitations!mailing
<1>9. /\ u \in consumed' => c.step \in Invited \cup {"end"}
      /\ c.step \in Invited => u \in consumed'
      /\ userRow' = userRow
         \/ (/\ userRow = Invitations!NoUser /\ userRow' = u /\ c.step \notin Insertion
                       /\ \A v \in Users \ {u} : signup[v].step \notin Insertion)
      /\ c.step \in Insertion =>
           userRow' = Invitations!NoUser
           /\ \A v \in Users \ {u} : signup[v].step \notin Insertion
  BY <1>1
<1> QED BY <1>1, <1>2, <1>4, <1>6, <1>7, <1>8, <1>9, InvitesSignupStep

\* What is known of a signup before its next step.
LEMMA InvitesBefore ==
  ASSUME InvitesInv, NEW u \in Users
  PROVE  /\ signup[u] \in SignupStates /\ grants[u] \in SUBSET Invitations!Roles
         /\ grants = [grants EXCEPT ![u] = grants[u]]
         /\ u \in consumed => signup[u].step \in Invited \cup {"end"}
         /\ signup[u].step \in Invited => u \in consumed
         /\ signup[u].step \in Insertion =>
              userRow = Invitations!NoUser
              /\ \A v \in Users \ {u} : signup[v].step \notin Insertion
         /\ u \notin doubt => RolesByStep(u)
         /\ members \subseteq Users /\ inviteFailures \in 0..MaxInviteFailures
            /\ doubt \subseteq Users
BY DEF InvitesInv, Invitations!TypeOK, SignupStates, Consumers, OneInserts

LEMMA InvitesBeginKeeps ==
  ASSUME InvitesInv, Invitations!NoUser \notin Users, NEW u \in Users, Invitations!Begin(u)
  PROVE  InvitesInv'
<1>1. /\ "begun" \in Invitations!Steps /\ Invitations!GoTo(u, "begun") /\ signup[u].step = "new"
      /\ "begun" \notin Insertion \cup Invited
  BY DEF Invitations!Begin, Invitations!Steps, Insertion, Invited
<1>2. UNCHANGED <<invites, consumed, inviteRequest, Invitations!mailing, mailed>>
      /\ UNCHANGED <<userRow, members, inviteFailures, doubt, grants>>
  BY DEF Invitations!Begin, Invitations!tables, Invitations!history
<1>3. u \notin consumed
  BY <1>1, InvitesBefore DEF Invited
<1>4. PICK g \in SUBSET Invitations!Roles : g = grants[u]
  BY InvitesBefore
<1>5. u \notin doubt' => RolesAt(u, "begun", g)'
  BY <1>1, <1>2, <1>4, InvitesBefore DEF RolesByStep, RolesAt
<1> QED BY <1>1, <1>2, <1>3, <1>4, <1>5, InvitesBefore, InvitesGoToStep

LEMMA InvitesInsertUserKeeps ==
  ASSUME InvitesInv, Invitations!NoUser \notin Users, NEW u \in Users, Invitations!InsertUser(u)
  PROVE  InvitesInv'
<1>1. /\ "inserted" \in Invitations!Steps /\ Invitations!GoTo(u, "inserted")
         /\ signup[u].step = "begun"
      /\ "inserted" \notin Invited /\ userRow = Invitations!NoUser
      /\ \A v \in Users : signup[v].step \notin Insertion
  BY DEF Invitations!InsertUser, Invitations!Steps, Invitations!Inserting, Insertion, Invited
<1>2. UNCHANGED <<invites, consumed, inviteRequest, Invitations!mailing, mailed>>
      /\ UNCHANGED <<userRow, members, inviteFailures, doubt, grants>>
  BY DEF Invitations!InsertUser, Invitations!tables, Invitations!history
<1>3. u \notin consumed
  BY <1>1, InvitesBefore DEF Invited
<1>4. PICK g \in SUBSET Invitations!Roles : g = grants[u]
  BY InvitesBefore
<1>5. u \notin doubt' => RolesAt(u, "inserted", g)'
  BY <1>1, <1>2, <1>4, InvitesBefore DEF RolesByStep, RolesAt
<1> QED BY <1>1, <1>2, <1>3, <1>4, <1>5, InvitesBefore, InvitesGoToStep

LEMMA InvitesValidateKeeps ==
  ASSUME InvitesInv, Invitations!NoUser \notin Users, NEW u \in Users, NEW i \in Invites,
         Invitations!Validate(u, i)
  PROVE  InvitesInv'
<1> DEFINE c == [step |-> "valid", invite |-> i]
<1>1. /\ c \in SignupStates /\ c.step = "valid" /\ signup' = [signup EXCEPT ![u] = c]
      /\ signup[u].step = "begun"
  BY DEF Invitations!Validate, SignupStates, Invitations!Steps
<1>2. UNCHANGED <<Invitations!tables, inviteRequest, Invitations!mailing, inviteFailures,
                  Invitations!history>>
  BY DEF Invitations!Validate
<1> HIDE DEF c
<1>3. signup' \in [Users -> SignupStates] /\ signup'[u] = c
  BY <1>1 DEF InvitesInv, Invitations!TypeOK, SignupStates
<1>4. UNCHANGED <<invites, userRow, members, grants, mailed, consumed, doubt>>
      /\ UNCHANGED <<inviteQueue, sending, expired, inviteRequest, inviteFailures>>
  BY <1>2 DEF Invitations!tables, Invitations!history, Invitations!mailing
<1>5. Invitations!TypeOK'
  BY <1>3, <1>4 DEF InvitesInv, Invitations!TypeOK, SignupStates
<1>6. u \notin consumed
  BY <1>1, InvitesBefore DEF Invited
<1>7. u \notin doubt' => RolesByStep(u)'
  BY <1>1, <1>3, <1>4, InvitesBefore DEF RolesByStep, RolesAt
<1>8. c.step \notin Insertion \cup Invited
  BY <1>1 DEF Insertion, Invited
<1> QED BY <1>1, <1>4, <1>5, <1>6, <1>7, <1>8, InvitesSignupStep

\* Of all who have found it pending, one is the first to accept it.
LEMMA InvitesAcceptKeeps ==
  ASSUME InvitesInv, Invitations!NoUser \notin Users, NEW u \in Users, NEW i \in Invites,
         Invitations!Accept(u, i)
  PROVE  InvitesInv'
<1> DEFINE c == [signup[u] EXCEPT !.step = "accepted"]
<1>1. /\ signup[u] \in SignupStates /\ signup[u].step = "valid" /\ signup[u].invite = i
      /\ invites[i].status = "pending"
  BY InvitesBefore DEF Invitations!Accept
<1>2. /\ c \in SignupStates /\ c.step = "accepted" /\ c.invite = i
      /\ signup' = [signup EXCEPT ![u] = c]
  BY <1>1 DEF Invitations!Accept, Invitations!AcceptedNow, Invitations!GoTo, SignupStates,
              Invitations!Steps
<1>3. /\ invites' = [invites EXCEPT ![i] = [invites[i] EXCEPT !.status = "accepted"]]
      /\ consumed' = consumed \cup {u}
      /\ UNCHANGED <<userRow, members, grants, inviteRequest, Invitations!mailing,
                     inviteFailures, mailed, doubt>>
  BY DEF Invitations!Accept, Invitations!AcceptedNow
<1> HIDE DEF c
<1>4. signup' \in [Users -> SignupStates] /\ signup'[u] = c
  BY <1>2 DEF InvitesInv, Invitations!TypeOK, SignupStates
<1>5. /\ invites' \in [Invites -> InviteRows] /\ invites'[i].status = "accepted"
      /\ \A j \in Invites : invites'[j].sent = invites[j].sent
      /\ \A j \in Invites \ {i} : invites'[j] = invites[j]
  BY <1>3 DEF InvitesInv, Invitations!TypeOK, InviteRows
<1>6. Invitations!TypeOK'
  BY <1>3, <1>4, <1>5 DEF InvitesInv, Invitations!TypeOK, SignupStates, InviteRows,
                          Invitations!mailing
<1>7. u \notin consumed
  BY <1>1, InvitesBefore DEF Invited
<1>8. u \notin doubt' => RolesByStep(u)'
  BY <1>1, <1>2, <1>3, <1>4, InvitesBefore DEF RolesByStep, RolesAt
<1>9. c.step \notin Insertion /\ c.step \in Invited
  BY <1>2 DEF Insertion, Invited
<1>10. /\ invites[i].status \notin Gone /\ invites'[i].status \in Gone
       /\ \A j \in Invites : invites[j].status \in Gone => invites'[j].status \in Gone
  BY <1>1, <1>5 DEF Gone
<1>11. UNCHANGED <<inviteRequest, sending, mailed>> /\ UNCHANGED <<userRow, grants, doubt>>
  BY <1>3 DEF Invitations!mailing
<1> QED BY <1>2, <1>3, <1>5, <1>6, <1>7, <1>8, <1>9, <1>10, <1>11, InvitesSignupStep

LEMMA InvitesCreateInvitedKeeps ==
  ASSUME InvitesInv, Invitations!NoUser \notin Users, NEW u \in Users,
         Invitations!CreateInvited(u)
  PROVE  InvitesInv'
<1>1. /\ "created" \in Invitations!Steps /\ Invitations!GoTo(u, "created")
         /\ signup[u].step = "accepted"
      /\ userRow = Invitations!NoUser /\ userRow' = u /\ "created" \notin Insertion
         /\ "created" \in Invited
  BY DEF Invitations!CreateInvited, Invitations!Steps, Insertion, Invited
<1>2. \A v \in Users : signup[v].step \notin Insertion
  BY DEF Invitations!CreateInvited, Invitations!Inserting, Insertion
<1>3. UNCHANGED <<invites, members, grants, inviteRequest, Invitations!mailing, inviteFailures,
                  mailed, consumed, doubt>>
  BY DEF Invitations!CreateInvited, Invitations!history
<1>4. UNCHANGED <<invites, consumed, inviteRequest, Invitations!mailing, mailed>>
      /\ UNCHANGED <<members, inviteFailures, doubt, grants>>
  BY <1>3
<1>5. u \in consumed
  BY <1>1, InvitesBefore DEF Invited
<1>6. PICK g \in SUBSET Invitations!Roles : g = grants[u]
  BY InvitesBefore
<1>7. u \notin doubt' => RolesAt(u, "created", g)'
  BY <1>1, <1>4, <1>6, InvitesBefore DEF RolesByStep, RolesAt
<1> QED BY <1>1, <1>2, <1>4, <1>5, <1>6, <1>7, InvitesBefore, InvitesGoToStep

LEMMA InvitesAddMemberKeeps ==
  ASSUME InvitesInv, Invitations!NoUser \notin Users, NEW u \in Users, Invitations!AddMember(u)
  PROVE  InvitesInv'
<1>1. /\ "member" \in Invitations!Steps /\ Invitations!GoTo(u, "member")
         /\ signup[u].step = "created"
      /\ "member" \notin Insertion /\ "member" \in Invited
  BY DEF Invitations!AddMember, Invitations!Steps, Insertion, Invited
<1>2. members' \subseteq Users
  BY InvitesBefore DEF Invitations!AddMember
<1>3. UNCHANGED <<invites, consumed, inviteRequest, Invitations!mailing, mailed>>
      /\ UNCHANGED <<userRow, inviteFailures, doubt, grants>>
  BY DEF Invitations!AddMember, Invitations!history
<1>4. u \in consumed
  BY <1>1, InvitesBefore DEF Invited
<1>5. PICK g \in SUBSET Invitations!Roles : g = grants[u]
  BY InvitesBefore
<1>6. u \notin doubt' => RolesAt(u, "member", g)'
  BY <1>1, <1>3, <1>5, InvitesBefore DEF RolesByStep, RolesAt
<1> QED BY <1>1, <1>2, <1>3, <1>4, <1>5, <1>6, InvitesBefore, InvitesGoToStep

LEMMA InvitesGrantInvitedKeeps ==
  ASSUME InvitesInv, Invitations!NoUser \notin Users, NEW u \in Users,
         Invitations!GrantInvited(u)
  PROVE  InvitesInv'
<1>1. UNCHANGED <<invites, consumed, inviteRequest, Invitations!mailing, mailed>>
      /\ UNCHANGED <<userRow, members, inviteFailures, doubt>>
  BY DEF Invitations!GrantInvited, Invitations!history
<1>2. CASE signup[u].step = "member"
  <2>1. PICK g \in SUBSET Invitations!Roles : g = grants[u] \cup {"Project"}
    BY InvitesBefore DEF Invitations!Roles
  <2>2. /\ "project" \in Invitations!Steps /\ Invitations!GoTo(u, "project")
           /\ grants' = [grants EXCEPT ![u] = g]
        /\ "project" \notin Insertion /\ "project" \in Invited /\ u \in consumed
    BY <1>2, <2>1, InvitesBefore DEF Invitations!GrantInvited, Invitations!Steps, Insertion,
       Invited
  <2>3. u \notin doubt' => RolesAt(u, "project", g)'
    BY <1>1, <1>2, <2>1, InvitesBefore DEF RolesByStep, RolesAt
  <2> QED BY <1>1, <2>2, <2>3, InvitesBefore, InvitesGoToStep
<1>3. CASE signup[u].step = "project"
  <2>1. PICK g \in SUBSET Invitations!Roles : g = grants[u] \cup {"OrgMember"}
    BY InvitesBefore DEF Invitations!Roles
  <2>2. /\ "end" \in Invitations!Steps /\ Invitations!GoTo(u, "end")
           /\ grants' = [grants EXCEPT ![u] = g]
        /\ "end" \notin Insertion \cup Invited /\ u \in consumed
    BY <1>3, <2>1, InvitesBefore DEF Invitations!GrantInvited, Invitations!Steps, Insertion,
       Invited
  <2>3. u \notin doubt' => RolesAt(u, "end", g)'
    <3>1. u \notin doubt => grants[u] = {"Project"} /\ userRow = u
      BY <1>3, InvitesBefore DEF RolesByStep, RolesAt
    <3> QED BY <1>1, <2>1, <2>2, <3>1 DEF RolesAt
  <2> QED BY <1>1, <2>2, <2>3, InvitesBefore, InvitesGoToStep
<1> QED BY <1>2, <1>3 DEF Invitations!GrantInvited

LEMMA InvitesGrantKeeps ==
  ASSUME InvitesInv, Invitations!NoUser \notin Users, NEW u \in Users, Invitations!Grant(u)
  PROVE  InvitesInv'
<1>1. UNCHANGED <<invites, consumed, inviteRequest, Invitations!mailing, mailed>>
      /\ UNCHANGED <<userRow, members, inviteFailures, doubt>>
  BY DEF Invitations!Grant, Invitations!history
<1>2. signup[u].step \in {"inserted", "admin"} /\ u \notin consumed
  BY InvitesBefore DEF Invitations!Grant, Invited
<1>3. userRow = Invitations!NoUser /\ \A v \in Users \ {u} : signup[v].step \notin Insertion
  BY <1>2, InvitesBefore DEF Insertion
<1>4. CASE signup[u].step = "inserted"
  <2>1. PICK g \in SUBSET Invitations!Roles : g = grants[u] \cup {"OrgAdmin"}
    BY InvitesBefore DEF Invitations!Roles
  <2>2. /\ "admin" \in Invitations!Steps /\ Invitations!GoTo(u, "admin")
           /\ grants' = [grants EXCEPT ![u] = g]
        /\ "admin" \notin Invited
    BY <1>4, <2>1 DEF Invitations!Grant, Invitations!Steps, Invited
  <2>3. u \notin doubt' => RolesAt(u, "admin", g)'
    BY <1>1, <1>4, <2>1, InvitesBefore DEF RolesByStep, RolesAt
  <2> QED BY <1>1, <1>2, <1>3, <2>2, <2>3, InvitesBefore, InvitesGoToStep
<1>5. CASE signup[u].step = "admin"
  <2>1. PICK g \in SUBSET Invitations!Roles : g = grants[u] \cup {"OrgMember"}
    BY InvitesBefore DEF Invitations!Roles
  <2>2. /\ "granted" \in Invitations!Steps /\ Invitations!GoTo(u, "granted")
           /\ grants' = [grants EXCEPT ![u] = g]
        /\ "granted" \notin Invited
    BY <1>5, <2>1 DEF Invitations!Grant, Invitations!Steps, Invited
  <2>3. u \notin doubt' => RolesAt(u, "granted", g)'
    BY <1>1, <1>5, <2>1, InvitesBefore DEF RolesByStep, RolesAt
  <2> QED BY <1>1, <1>2, <1>3, <2>2, <2>3, InvitesBefore, InvitesGoToStep
<1> QED BY <1>2, <1>4, <1>5

LEMMA InvitesGrantFailsKeeps ==
  ASSUME InvitesInv, Invitations!NoUser \notin Users, MaxInviteFailures \in Nat,
         NEW u \in Users, Invitations!GrantFails(u)
  PROVE  InvitesInv'
<1>1. UNCHANGED <<invites, consumed, inviteRequest, Invitations!mailing, mailed>>
      /\ UNCHANGED <<userRow, members, doubt>> /\ inviteFailures' \in 0..MaxInviteFailures
  BY InvitesBefore DEF Invitations!GrantFails, Invitations!Fail, Invitations!history
<1>2. /\ signup[u].step \in {"inserted", "admin"} /\ u \notin consumed
      /\ "undo" \in Invitations!Steps /\ Invitations!GoTo(u, "undo")
         /\ "undo" \notin Insertion \cup Invited
  BY InvitesBefore DEF Invitations!GrantFails, Invited, Invitations!Steps, Insertion
<1>3. PICK g \in SUBSET Invitations!Roles :
        /\ grants' = [grants EXCEPT ![u] = g]
        /\ g \subseteq grants[u] \cup {"OrgAdmin", "OrgMember"}
  <2>1. /\ grants[u] \cup {"OrgAdmin"} \in SUBSET Invitations!Roles
        /\ grants[u] \cup {"OrgMember"} \in SUBSET Invitations!Roles
    BY InvitesBefore DEF Invitations!Roles
  <2>2. grants' = grants => grants' = [grants EXCEPT ![u] = grants[u]]
    BY InvitesBefore
  <2> QED BY <2>1, <2>2, InvitesBefore DEF Invitations!GrantFails
<1>4. u \notin doubt' => RolesAt(u, "undo", g)'
  BY <1>1, <1>2, <1>3, InvitesBefore DEF RolesByStep, RolesAt
<1> QED BY <1>1, <1>2, <1>3, <1>4, InvitesBefore, InvitesGoToStep

LEMMA InvitesCommitKeeps ==
  ASSUME InvitesInv, Invitations!NoUser \notin Users, MaxInviteFailures \in Nat,
         NEW u \in Users,
         Invitations!Commit(u) \/ Invitations!CommitFails(u)
  PROVE  InvitesInv'
<1>1. UNCHANGED <<invites, consumed, inviteRequest, Invitations!mailing, mailed>>
      /\ UNCHANGED <<members, grants>> /\ inviteFailures' \in 0..MaxInviteFailures
  BY InvitesBefore DEF Invitations!Commit, Invitations!CommitFails, Invitations!Fail,
                       Invitations!history
<1>2. /\ signup[u].step = "granted" /\ u \notin consumed
      /\ {"end", "undo"} \subseteq Invitations!Steps \ (Insertion \cup Invited)
  BY InvitesBefore DEF Invitations!Commit, Invitations!CommitFails, Invited, Invitations!Steps,
                       Insertion
<1>3. userRow = Invitations!NoUser /\ \A v \in Users \ {u} : signup[v].step \notin Insertion
  BY <1>2, InvitesBefore DEF Insertion
<1>4. PICK g \in SUBSET Invitations!Roles : g = grants[u]
  BY InvitesBefore
<1>5. grants' = [grants EXCEPT ![u] = g]
  BY <1>1, <1>4, InvitesBefore
<1>6. u \notin doubt => g = {"OrgAdmin", "OrgMember"} /\ userRow # u
  BY <1>2, <1>4, InvitesBefore DEF RolesByStep, RolesAt
<1>7. CASE Invitations!Commit(u)
  <2>1. Invitations!GoTo(u, "end") /\ userRow' = u /\ doubt' = doubt
    BY <1>7 DEF Invitations!Commit, Invitations!history
  <2>2. u \notin doubt' => RolesAt(u, "end", g)'
    BY <1>1, <1>2, <1>6, <2>1 DEF RolesAt
  <2> QED BY <1>1, <1>2, <1>3, <1>4, <1>5, <2>1, <2>2, InvitesBefore, InvitesGoToStep
<1>8. CASE Invitations!CommitFails(u)
  <2>1. /\ Invitations!GoTo(u, "undo") /\ userRow' \in {userRow, u}
           /\ doubt' \in {doubt, doubt \cup {u}}
        /\ userRow' # userRow => doubt' = doubt \cup {u}
    BY <1>8 DEF Invitations!CommitFails
  <2>2. u \notin doubt' => RolesAt(u, "undo", g)'
    BY <1>6, <2>1 DEF RolesAt
  <2>3. doubt' \subseteq Users /\ doubt \subseteq doubt'
    BY <2>1, InvitesBefore
  <2> QED BY <1>1, <1>2, <1>3, <1>4, <1>5, <2>1, <2>2, <2>3, InvitesBefore, InvitesGoToStep
<1> QED BY <1>7, <1>8

LEMMA InvitesUndoKeeps ==
  ASSUME InvitesInv, Invitations!NoUser \notin Users, MaxInviteFailures \in Nat,
         NEW u \in Users, Invitations!Undo(u) \/ Invitations!UndoFails(u)
  PROVE  InvitesInv'
<1>1. UNCHANGED <<invites, consumed, inviteRequest, Invitations!mailing, mailed>>
      /\ UNCHANGED <<userRow, members>> /\ inviteFailures' \in 0..MaxInviteFailures
  BY InvitesBefore DEF Invitations!Undo, Invitations!UndoFails, Invitations!Fail,
                       Invitations!tables, Invitations!history
<1>2. /\ signup[u].step \in {"undo", "undone"} /\ u \notin consumed
      /\ {"undone", "end"} \subseteq Invitations!Steps \ (Insertion \cup Invited)
  BY InvitesBefore DEF Invitations!Undo, Invitations!UndoFails, Invited, Invitations!Steps,
                       Insertion
<1>3. doubt' \in {doubt, doubt \cup {u}} /\ (Invitations!UndoFails(u) => u \in doubt')
  BY DEF Invitations!Undo, Invitations!UndoFails, Invitations!history
<1>4. doubt' \subseteq Users /\ doubt \subseteq doubt'
  BY <1>3, InvitesBefore
<1>5. CASE signup[u].step = "undo"
  <2>1. PICK g \in SUBSET Invitations!Roles :
          /\ grants' = [grants EXCEPT ![u] = g]
          /\ u \notin doubt' => g = grants[u] \ {"OrgAdmin"}
    <3>1. CASE Invitations!Undo(u)
      <4>1. grants[u] \ {"OrgAdmin"} \in SUBSET Invitations!Roles
        BY InvitesBefore
      <4> QED BY <1>5, <3>1, <4>1 DEF Invitations!Undo
    <3>2. CASE ~Invitations!Undo(u)
      BY <1>3, <3>2, InvitesBefore DEF Invitations!UndoFails, Invitations!tables
    <3> QED BY <3>1, <3>2
  <2>2. Invitations!GoTo(u, "undone") /\ "undone" \in Invitations!Steps
        /\ "undone" \notin Invited \cup Insertion
    BY <1>2, <1>5 DEF Invitations!Undo, Invitations!UndoFails
  <2>3. u \notin doubt' => g \subseteq {"OrgMember"} /\ userRow # u
    <3>1. u \notin doubt' => grants[u] \subseteq {"OrgAdmin", "OrgMember"} /\ userRow # u
      BY <1>4, <1>5, InvitesBefore DEF RolesByStep, RolesAt
    <3> QED BY <2>1, <3>1
  <2>4. u \notin doubt' => RolesAt(u, "undone", g)'
    BY <1>1, <2>3 DEF RolesAt
  <2>5. /\ members' \subseteq Users /\ userRow' = userRow
        /\ grants' = [grants EXCEPT ![u] = g]
    BY <1>1, <2>1, InvitesBefore
  <2> QED BY <1>1, <1>2, <1>4, <2>2, <2>4, <2>5, InvitesGoToStep
<1>6. CASE signup[u].step = "undone"
  <2>1. PICK g \in SUBSET Invitations!Roles :
          /\ grants' = [grants EXCEPT ![u] = g]
          /\ u \notin doubt' => g = grants[u] \ {"OrgMember"}
    <3>1. CASE Invitations!Undo(u)
      <4>1. grants[u] \ {"OrgMember"} \in SUBSET Invitations!Roles
        BY InvitesBefore
      <4> QED BY <1>6, <3>1, <4>1 DEF Invitations!Undo
    <3>2. CASE ~Invitations!Undo(u)
      BY <1>3, <3>2, InvitesBefore DEF Invitations!UndoFails, Invitations!tables
    <3> QED BY <3>1, <3>2
  <2>2. Invitations!GoTo(u, "end") /\ "end" \in Invitations!Steps
        /\ "end" \notin Invited \cup Insertion
    BY <1>2, <1>6 DEF Invitations!Undo, Invitations!UndoFails
  <2>3. u \notin doubt' => g = {} /\ userRow # u
    <3>1. u \notin doubt' => grants[u] \subseteq {"OrgMember"} /\ userRow # u
      BY <1>4, <1>6, InvitesBefore DEF RolesByStep, RolesAt
    <3> QED BY <2>1, <3>1
  <2>4. u \notin doubt' => RolesAt(u, "end", g)'
    BY <1>1, <2>3 DEF RolesAt
  <2>5. /\ members' \subseteq Users /\ userRow' = userRow
        /\ grants' = [grants EXCEPT ![u] = g]
    BY <1>1, <2>1, InvitesBefore
  <2> QED BY <1>1, <1>2, <1>4, <2>2, <2>4, <2>5, InvitesGoToStep
<1> QED BY <1>2, <1>5, <1>6

\* A signup that ends early has granted nothing yet, or is in doubt.
LEMMA InvitesEndKeeps ==
  ASSUME InvitesInv, Invitations!NoUser \notin Users, MaxInviteFailures \in Nat,
         NEW u \in Users,
         Invitations!Refused(u) \/ Invitations!InvitedFails(u)
  PROVE  InvitesInv'
<1>1. UNCHANGED <<invites, consumed, inviteRequest, Invitations!mailing, mailed>>
      /\ UNCHANGED <<userRow, members, grants>> /\ inviteFailures' \in 0..MaxInviteFailures
  BY InvitesBefore DEF Invitations!Refused, Invitations!InvitedFails, Invitations!Fail,
                       Invitations!tables, Invitations!history
<1>2. "end" \in Invitations!Steps \ (Insertion \cup Invited) /\ Invitations!GoTo(u, "end")
  BY DEF Invitations!Refused, Invitations!InvitedFails, Invited, Invitations!Steps, Insertion
<1>3. /\ doubt' \in {doubt, doubt \cup {u}} /\ (Invitations!InvitedFails(u) => u \in doubt')
      /\ Invitations!Refused(u) => signup[u].step \in {"begun", "valid", "accepted"}
  BY DEF Invitations!Refused, Invitations!InvitedFails, Invitations!history
<1>4. doubt' \subseteq Users /\ doubt \subseteq doubt'
  BY <1>3, InvitesBefore
<1>5. PICK g \in SUBSET Invitations!Roles : g = grants[u]
  BY InvitesBefore
<1>6. grants' = [grants EXCEPT ![u] = g]
  BY <1>1, <1>5, InvitesBefore
<1>7. u \notin doubt' => RolesAt(u, "end", g)'
  <2>1. u \notin doubt' => g = {} /\ userRow # u
    BY <1>3, <1>4, <1>5, InvitesBefore DEF RolesByStep, RolesAt
  <2> QED BY <1>1, <2>1 DEF RolesAt
<1> QED BY <1>1, <1>2, <1>4, <1>6, <1>7, InvitesBefore, InvitesGoToStep

LEMMA InvitesSignupKeeps ==
  ASSUME InvitesInv, Invitations!NoUser \notin Users, MaxInviteFailures \in Nat,
         NEW u \in Users, Invitations!Signup(u)
  PROVE  InvitesInv'
BY InvitesBeginKeeps, InvitesInsertUserKeeps, InvitesValidateKeeps, InvitesAcceptKeeps,
   InvitesCreateInvitedKeeps, InvitesAddMemberKeeps,
   InvitesGrantInvitedKeeps, InvitesGrantKeeps, InvitesGrantFailsKeeps, InvitesCommitKeeps,
   InvitesUndoKeeps, InvitesEndKeeps
   DEF Invitations!Signup

\* Who was cut off is in doubt; the rows stay.
LEMMA InvitesCrashKeeps ==
  ASSUME InvitesInv, MaxInviteFailures \in Nat, Invitations!Crash
  PROVE  InvitesInv'
<1>1. UNCHANGED <<invites, userRow, members, grants, mailed, consumed>>
  BY DEF Invitations!Crash, Invitations!tables
<1>2. \A u \in Users :
        /\ signup'[u] \in SignupStates /\ signup'[u].invite = signup[u].invite
        /\ IF signup[u].step = "new" THEN signup'[u] = signup[u] ELSE signup'[u].step = "end"
  BY DEF Invitations!Crash, InvitesInv, Invitations!TypeOK, SignupStates, Invitations!Steps
<1>3. /\ signup' \in [Users -> SignupStates] /\ inviteFailures' \in 0..MaxInviteFailures
      /\ doubt' \subseteq Users /\ inviteRequest' \in [InviteRequests -> InviteCalls]
      /\ sending' \in [Invites -> {"idle", "loaded", "marked", "mailed"}]
      /\ inviteQueue' \subseteq Invites /\ expired' \subseteq Invites
  BY <1>2 DEF Invitations!Crash, Invitations!Fail, InvitesInv, Invitations!TypeOK,
              Invitations!NoCall, InviteCalls
<1>4. Invitations!TypeOK'
  BY <1>1, <1>3 DEF InvitesInv, Invitations!TypeOK, SignupStates, InviteCalls
<1>5. Addressed' /\ Mails'
  BY <1>1 DEF Invitations!Crash, Invitations!NoCall, Addressed, InvitesInv, Mails,
              Invitations!SentMeansMailed
<1>6. Consumers' /\ Invitations!ConsumedOnce'
  BY <1>1, <1>2 DEF InvitesInv, Invitations!TypeOK, Consumers, Invitations!ConsumedOnce, Invited
<1>7. OneInserts'
  BY <1>2 DEF OneInserts, Insertion
<1>8. ASSUME NEW u \in Users \ doubt' PROVE RolesByStep(u)'
  <2>1. /\ signup[u].step \in {"new", "end"} /\ u \notin doubt
        /\ signup'[u].step = signup[u].step
    BY <1>2, <1>8 DEF Invitations!Crash
  <2> QED BY <1>1, <2>1 DEF InvitesInv, RolesByStep, RolesAt
<1> QED BY <1>4, <1>5, <1>6, <1>7, <1>8 DEF InvitesInv

LEMMA InvitesNextKeeps ==
  ASSUME InvitesInv, Invitations!NoUser \notin Users, MaxInviteFailures \in Nat,
         [Invitations!Next]_(Invitations!vars)
  PROVE  InvitesInv'
<1>1. CASE UNCHANGED Invitations!vars
  <2>1. UNCHANGED <<Invitations!tables, inviteRequest, Invitations!mailing, inviteFailures>>
        /\ UNCHANGED <<signup, Invitations!history>>
    BY <1>1 DEF Invitations!vars
  <2>2. Invitations!TypeOK' /\ Addressed' /\ Mails'
    BY <2>1 DEF Invitations!tables, Invitations!mailing, Invitations!history, InvitesInv,
                Invitations!TypeOK, Addressed, Mails, Invitations!SentMeansMailed
  <2> QED BY <2>1, <2>2, InvitesOthersKeep DEF Invitations!tables, Invitations!history
<1>2. ASSUME NEW i \in Invites, Invitations!Mailer(i) PROVE InvitesInv'
  BY <1>2, InvitesQueueKeeps, InvitesSendMailKeeps, InvitesSentKeeps DEF Invitations!Mailer
<1> QED BY <1>1, <1>2, InvitesAdministratorKeeps, InvitesSignupKeeps, InvitesExpireKeeps,
           InvitesQueueKeeps,
           InvitesDeleteExpiredKeeps, InvitesCrashKeeps DEF Invitations!Next

\* For any invitations, signups and calls of administrators, InvitesInv holds throughout,
\* through mails, expiry, failed commits and crashes.
THEOREM InvitesInvariance ==
  Invitations!Spec => []InvitesInv
<1>1. Invitations!Init => InvitesInv
  BY InvitesInit, BoundsAssumption, UsersAssumption
<1>2. InvitesInv /\ [Invitations!Next]_(Invitations!vars) => InvitesInv'
  BY InvitesNextKeeps, BoundsAssumption, UsersAssumption
<1> QED BY <1>1, <1>2, PTL DEF Invitations!Spec

\* However many signups find an invitation pending, and however that interleaves with
\* revocations, mails and crashes: one of them uses it.
THEOREM InvitationUsedOnce ==
  Invitations!Spec => []Invitations!ConsumedOnce
<1>1. InvitesInv => Invitations!ConsumedOnce
  BY DEF InvitesInv
<1> QED BY <1>1, InvitesInvariance, PTL

\* A row is marked as sent only when the invitation was mailed since that was last
\* asked for: the transaction that mails holds the row.
THEOREM MarkedAfterMail ==
  Invitations!Spec => []Invitations!SentMeansMailed
<1>1. InvitesInv => Invitations!SentMeansMailed
  BY DEF InvitesInv, Mails
<1> QED BY <1>1, InvitesInvariance, PTL

\* The roles of a user, which are written outside of the transactions, are those that
\* the end of its signup calls for, unless it is in doubt.
THEOREM GrantsFollowRows ==
  Invitations!Spec => []GrantsMatchRows
<1>1. InvitesInv => Invitations!GrantsMatchRows
  BY DEF InvitesInv, RolesByStep, RolesAt, Invitations!GrantsMatchRows
<1> QED BY <1>1, InvitesInvariance, PTL DEF GrantsMatchRows

-----------------------------------------------------------------------------
(***************************************************************************)
(* OrgInvites implements Admission.                                        *)
(***************************************************************************)

\* What the workers and the administrators have their hands on is an invitation that
\* was made.
Made(i) == invites[i].status # "none"
MadeOnly ==
  /\ \A r \in InviteRequests : \A i \in Invites :
       inviteRequest[r] = [step |-> "revoke", invite |-> i] => Made(i)
  /\ \A i \in expired : Made(i)
  /\ \A i \in Invites : sending[i] # "idle" => Made(i)

\* No step takes an invitation back to where it was not made, so that MadeOnly can only
\* fail for what is taken up in the step.
LEMMA MadeStays ==
  ASSUME InvitesInv, Invitations!Next, NEW i \in Invites, Made(i)
  PROVE  Made(i)'
<1>1. invites \in [Invites -> InviteRows]
  BY DEF InvitesInv, Invitations!TypeOK, InviteRows
<1>2. CASE UNCHANGED invites
  BY <1>2 DEF Made
<1>3. ASSUME NEW r \in InviteRequests, NEW j \in Invites,
             Invitations!Create(r, j) \/ Invitations!Revoke(r, j) \/ Invitations!Resend(r, j)
      PROVE  Made(i)'
  BY <1>1, <1>3 DEF InviteRows, Made, Invitations!Create, Invitations!Revoke, Invitations!Resend
<1>4. ASSUME NEW u \in Users, NEW j \in Invites, Invitations!Accept(u, j)
      PROVE  Made(i)'
  BY <1>1, <1>4 DEF InviteRows, Made, Invitations!Accept, Invitations!AcceptedNow
<1>5. ASSUME NEW j \in Invites,
             Invitations!CommitSent(j) \/ Invitations!MailFails(j) \/ Invitations!Expire(j)
      PROVE  Made(i)'
  BY <1>1, <1>5 DEF InviteRows, Made, Invitations!CommitSent, Invitations!MailFails,
                    Invitations!SentNow, Invitations!Expire
<1>6. CASE Invitations!DeleteExpired
  BY <1>1, <1>6 DEF InviteRows, Made, Invitations!DeleteExpired
<1>7. ASSUME NEW r \in InviteRequests, Invitations!Administrator(r) PROVE Made(i)'
  BY <1>2, <1>3, <1>7 DEF Invitations!Administrator, Invitations!CreateCheck,
     Invitations!Enqueue, Invitations!CallFails, Invitations!RevokeCheck,
     Invitations!ResendCheck, Invitations!tables
<1>8. ASSUME NEW u \in Users, Invitations!Signup(u) PROVE Made(i)'
  <2>1. UNCHANGED invites \/ \E j \in Invites : Invitations!Accept(u, j)
    BY <1>8 DEF Invitations!Signup, Invitations!Begin, Invitations!CreateInvited,
       Invitations!AddMember, Invitations!GrantInvited, Invitations!InsertUser,
       Invitations!Grant, Invitations!GrantFails, Invitations!Commit, Invitations!CommitFails,
       Invitations!Undo, Invitations!UndoFails, Invitations!Refused, Invitations!InvitedFails,
       Invitations!Validate, Invitations!tables
  <2> QED BY <1>2, <1>4, <2>1
<1>9. ASSUME NEW j \in Invites, Invitations!Mailer(j) PROVE Made(i)'
  BY <1>2, <1>5, <1>9 DEF Invitations!Mailer, Invitations!Execute, Invitations!MarkSent,
     Invitations!SendMail, Invitations!tables
<1>10. CASE Invitations!ListInput \/ Invitations!ListExpired \/ Invitations!Crash
  BY <1>2, <1>10 DEF Invitations!ListInput, Invitations!ListExpired, Invitations!Crash,
     Invitations!tables
<1> QED BY <1>5, <1>6, <1>7, <1>8, <1>9, <1>10 DEF Invitations!Next

LEMMA MadeOnlyKeeps ==
  ASSUME InvitesInv, InvitesInv', MadeOnly, [Invitations!Next]_(Invitations!vars)
  PROVE  MadeOnly'
<1>1. CASE UNCHANGED Invitations!vars
  BY <1>1 DEF MadeOnly, Made, Invitations!vars, Invitations!tables, Invitations!mailing
<1>2. CASE Invitations!Next
  <2>1. \A i \in Invites : Made(i) => Made(i)'
    BY <1>2, MadeStays
  <2>2. /\ inviteRequest \in [InviteRequests -> InviteCalls] /\ expired \subseteq Invites
        /\ sending \in [Invites -> {"idle", "loaded", "marked", "mailed"}]
    BY DEF InvitesInv, Invitations!TypeOK, InviteCalls
  <2>3. ASSUME NEW r \in InviteRequests, NEW i \in Invites,
               inviteRequest'[r] = [step |-> "revoke", invite |-> i]
        PROVE  Made(i)
    <3>1. CASE inviteRequest'[r] = inviteRequest[r]
      BY <2>3, <3>1 DEF MadeOnly
    <3>2. ASSUME NEW q \in InviteRequests, NEW j \in Invites, Invitations!RevokeCheck(q, j)
          PROVE  Made(i)
      <4>1. CASE q = r
        BY <2>2, <2>3, <3>2, <4>1 DEF Invitations!RevokeCheck, Made
      <4>2. CASE q # r
        BY <2>2, <3>1, <3>2, <4>2 DEF Invitations!RevokeCheck
      <4> QED BY <4>1, <4>2
    <3>3. ASSUME NEW q \in InviteRequests, ~\E j \in Invites : Invitations!RevokeCheck(q, j),
                 Invitations!Administrator(q)
          PROVE  Made(i)
      <4>1. /\ inviteRequest' = [inviteRequest EXCEPT ![q] = inviteRequest'[q]]
            /\ inviteRequest'[q].step # "revoke"
        BY <2>2, <3>3 DEF Invitations!Administrator, Invitations!CreateCheck,
           Invitations!Enqueue, Invitations!CallFails, Invitations!ResendCheck,
           Invitations!Create, Invitations!Revoke, Invitations!Resend, InviteCalls,
           Invitations!NoCall
      <4>2. CASE q = r
        BY <2>3, <4>1, <4>2
      <4>3. CASE q # r
        BY <2>2, <3>1, <4>1, <4>3
      <4> QED BY <4>2, <4>3
    <3>4. CASE Invitations!Crash
      BY <2>3, <3>4 DEF Invitations!Crash, Invitations!NoCall
    <3>5. CASE UNCHANGED inviteRequest
      BY <3>1, <3>5
    <3>6. ASSUME NEW u \in Users, Invitations!Signup(u) PROVE UNCHANGED inviteRequest
      BY <3>6 DEF Invitations!Signup, Invitations!Begin, Invitations!CreateInvited,
         Invitations!AddMember, Invitations!GrantInvited, Invitations!InsertUser,
         Invitations!Grant, Invitations!GrantFails, Invitations!Commit,
         Invitations!CommitFails, Invitations!Undo, Invitations!UndoFails,
         Invitations!Refused, Invitations!InvitedFails, Invitations!Validate,
         Invitations!Accept, Invitations!AcceptedNow
    <3>7. ASSUME NEW j \in Invites, Invitations!Mailer(j) \/ Invitations!Expire(j)
          PROVE  UNCHANGED inviteRequest
      BY <3>7 DEF Invitations!Mailer, Invitations!Execute, Invitations!MarkSent,
         Invitations!SendMail, Invitations!CommitSent, Invitations!MailFails,
         Invitations!Expire
    <3>8. CASE Invitations!ListInput \/ Invitations!ListExpired \/ Invitations!DeleteExpired
      BY <3>5, <3>8 DEF Invitations!ListInput, Invitations!ListExpired,
         Invitations!DeleteExpired
    <3> QED BY <1>2, <3>2, <3>3, <3>4, <3>5, <3>6, <3>7, <3>8 DEF Invitations!Next
  <2>4. /\ \A i \in expired' : i \in Invites /\ Made(i)
        /\ \A i \in Invites : sending'[i] # "idle" => Made(i)
    <3>1. CASE UNCHANGED <<expired, sending>>
      BY <2>2, <3>1 DEF MadeOnly
    <3>2. CASE Invitations!ListExpired
      BY <3>2 DEF Invitations!ListExpired, MadeOnly, Made
    <3>3. CASE Invitations!DeleteExpired \/ Invitations!Crash
      BY <3>3 DEF Invitations!DeleteExpired, Invitations!Crash, MadeOnly
    <3>4. ASSUME NEW j \in Invites, Invitations!Mailer(j)
          PROVE  /\ expired' = expired
                 /\ \A i \in Invites : sending'[i] # "idle" => sending[i] # "idle" \/ Made(i)
      BY <2>2, <3>4 DEF Invitations!Mailer, Invitations!Execute, Invitations!MarkSent,
         Invitations!SendMail, Invitations!CommitSent, Invitations!MailFails, Made
    <3>5. ASSUME NEW u \in Users, Invitations!Signup(u) PROVE UNCHANGED <<expired, sending>>
      BY <3>5 DEF Invitations!Signup, Invitations!Begin, Invitations!CreateInvited,
         Invitations!AddMember, Invitations!GrantInvited, Invitations!InsertUser,
         Invitations!Grant, Invitations!GrantFails, Invitations!Commit,
         Invitations!CommitFails, Invitations!Undo, Invitations!UndoFails,
         Invitations!Refused, Invitations!InvitedFails, Invitations!Validate,
         Invitations!Accept, Invitations!AcceptedNow, Invitations!mailing
    <3>6. ASSUME NEW q \in InviteRequests, Invitations!Administrator(q)
          PROVE  UNCHANGED <<expired, sending>>
      BY <3>6 DEF Invitations!Administrator, Invitations!CreateCheck, Invitations!Enqueue,
         Invitations!CallFails, Invitations!RevokeCheck, Invitations!ResendCheck,
         Invitations!Create, Invitations!Revoke, Invitations!Resend, Invitations!mailing
    <3>7. CASE Invitations!ListInput \/ \E j \in Invites : Invitations!Expire(j)
      BY <3>1, <3>7 DEF Invitations!ListInput, Invitations!Expire, Invitations!mailing
    <3>8. ASSUME NEW j \in Invites, Invitations!Mailer(j)
          PROVE  /\ \A i \in expired' : i \in Invites /\ Made(i)
                 /\ \A i \in Invites : sending'[i] # "idle" => Made(i)
      BY <2>2, <3>4, <3>8 DEF MadeOnly
    <3> QED BY <1>2, <3>1, <3>2, <3>3, <3>5, <3>6, <3>7, <3>8 DEF Invitations!Next
  <2> QED BY <2>1, <2>3, <2>4 DEF MadeOnly
<1> QED BY <1>1, <1>2

-----------------------------------------------------------------------------
\* What Admission sees of a step.
AdmissionStep == [Invitations!Entry!Next]_(Invitations!Entry!vars)

\* A step that leaves every status, mark and mail, the row of the user, and what those
\* who were admitted hold.
LEMMA AdmissionUnseen ==
  ASSUME InvitesInv, UNCHANGED <<userRow, mailed, consumed>>,
         \A i \in Invites : /\ invites'[i].status = invites[i].status
                            /\ invites'[i].sent = invites[i].sent,
         \A u \in consumed : signup'[u].invite = signup[u].invite
  PROVE  AdmissionStep
<1>1. UNCHANGED <<Invitations!Open, Invitations!Closed, Invitations!Sent>>
  BY DEF Invitations!Open, Invitations!Closed, Invitations!Sent
<1>2. UNCHANGED <<Invitations!Admitted, Invitations!Owner>>
  BY DEF Invitations!Admitted, Invitations!Owner
<1> QED BY <1>1, <1>2 DEF AdmissionStep, Invitations!Entry!vars

\* The same with the rows as they are.
LEMMA AdmissionRowsUnseen ==
  ASSUME InvitesInv, UNCHANGED <<Invitations!tables, signup, Invitations!history>>
  PROVE  AdmissionStep
<1>1. UNCHANGED <<invites, userRow, signup, mailed, consumed>>
  BY DEF Invitations!tables, Invitations!history
<1> QED BY <1>1, AdmissionUnseen

\* A row that leaves "pending", or has left it, is an invitation taken back.
LEMMA AdmissionTakesBack ==
  ASSUME InvitesInv, UNCHANGED <<userRow, signup, mailed, consumed>>,
         \A i \in Invites :
           /\ invites'[i].sent = invites[i].sent
           /\ \/ invites'[i].status = invites[i].status
              \/ Made(i) /\ invites'[i].status \in Gone
  PROVE  AdmissionStep
<1> DEFINE gone == {i \in Invites : invites[i].status = "pending"
                                    /\ invites'[i].status # "pending"}
<1>1. \A i \in Invites : invites[i].status \in {"none", "pending"} \cup Gone
  BY DEF InvitesInv, Invitations!TypeOK, Gone
<1>2. /\ gone \subseteq Invitations!Open
      /\ Invitations!Open' = Invitations!Open \ gone
      /\ Invitations!Closed' = Invitations!Closed \cup gone
  BY <1>1 DEF Invitations!Open, Invitations!Closed, Gone, Made
<1>3. Invitations!Sent' = Invitations!Sent
  BY DEF Invitations!Sent
<1>4. UNCHANGED <<Invitations!Admitted, Invitations!Owner>>
  BY DEF Invitations!Admitted, Invitations!Owner
<1> HIDE DEF gone
<1>5. Invitations!Entry!TakeBack(gone)
  BY <1>2, <1>3, <1>4 DEF Invitations!Entry!TakeBack, Invitations!Entry!Close
<1> QED BY <1>2, <1>5 DEF AdmissionStep, Invitations!Entry!Next

LEMMA AdmissionCalls ==
  ASSUME InvitesInv, MadeOnly, NEW r \in InviteRequests, Invitations!Administrator(r)
  PROVE  AdmissionStep
<1>1. invites \in [Invites -> InviteRows]
  BY DEF InvitesInv, Invitations!TypeOK, InviteRows
<1>2. CASE \/ Invitations!Enqueue(r) \/ Invitations!CallFails(r)
           \/ \E i \in Invites : \/ Invitations!CreateCheck(r, i) \/ Invitations!RevokeCheck(r, i)
                                \/ Invitations!ResendCheck(r, i)
  BY <1>2, AdmissionRowsUnseen DEF Invitations!CreateCheck, Invitations!Enqueue,
     Invitations!CallFails, Invitations!RevokeCheck, Invitations!ResendCheck
<1>3. ASSUME NEW i \in Invites, Invitations!Create(r, i) PROVE AdmissionStep
  <2>1. /\ UNCHANGED <<userRow, signup, mailed, consumed>>
        /\ invites[i].status = "none" /\ invites'[i].status = "pending"
        /\ invites'[i].sent = invites[i].sent
        /\ \A j \in Invites \ {i} : invites'[j] = invites[j]
        /\ \A j \in Invites : InvitedTo[j] = InvitedTo[i] => invites[j].status # "pending"
    BY <1>1, <1>3 DEF Invitations!Create, Invitations!Unrivalled, Invitations!history, InviteRows
  <2>2. /\ \A j \in Invitations!Open : InvitedTo[j] # InvitedTo[i]
        /\ Invitations!Open' = Invitations!Open \cup {i}
        /\ i \notin Invitations!Closed /\ Invitations!Closed' = Invitations!Closed
    BY <2>1 DEF Invitations!Open, Invitations!Closed
  <2>3. UNCHANGED <<Invitations!Sent, Invitations!Admitted, Invitations!Owner>>
    BY <2>1 DEF Invitations!Sent, Invitations!Admitted, Invitations!Owner
  <2>4. Invitations!Entry!Invite(i)
    BY <2>1, <2>2, <2>3 DEF Invitations!Entry!Invite
  <2> QED BY <2>4 DEF AdmissionStep, Invitations!Entry!Next
<1>4. ASSUME NEW i \in Invites, Invitations!Revoke(r, i) PROVE AdmissionStep
  <2>1. Made(i)
    BY <1>4 DEF MadeOnly, Invitations!Revoke
  <2>2. /\ UNCHANGED <<userRow, signup, mailed, consumed>>
        /\ invites'[i].status \in Gone /\ invites'[i].sent = invites[i].sent
        /\ \A j \in Invites \ {i} : invites'[j] = invites[j]
    BY <1>1, <1>4 DEF Invitations!Revoke, Invitations!history, InviteRows, Gone
  <2> QED BY <2>1, <2>2, AdmissionTakesBack
<1>5. ASSUME NEW i \in Invites, Invitations!Resend(r, i) PROVE AdmissionStep
  <2>1. /\ UNCHANGED <<userRow, signup, consumed>> /\ mailed' = mailed \ {i}
        /\ invites'[i].status = invites[i].status /\ ~invites'[i].sent
        /\ \A j \in Invites \ {i} : invites'[j] = invites[j]
    BY <1>1, <1>5 DEF Invitations!Resend, InviteRows
  <2>2. UNCHANGED <<Invitations!Open, Invitations!Closed, Invitations!Admitted,
                    Invitations!Owner>>
    BY <2>1 DEF Invitations!Open, Invitations!Closed, Invitations!Admitted, Invitations!Owner
  <2>3. Invitations!Sent' = Invitations!Sent \ {i}
    BY <2>1 DEF Invitations!Sent
  <2>4. Invitations!Entry!Again(i)
    BY <2>1, <2>2, <2>3 DEF Invitations!Entry!Again
  <2> QED BY <2>4 DEF AdmissionStep, Invitations!Entry!Next
<1> QED BY <1>2, <1>3, <1>4, <1>5 DEF Invitations!Administrator

-----------------------------------------------------------------------------
\* A signup goes on, and nobody is admitted and no user made.
LEMMA AdmissionSignupUnseen ==
  ASSUME InvitesInv, NEW u \in Users, UNCHANGED <<invites, userRow, mailed, consumed>>,
         \/ \E step \in Invitations!Steps : Invitations!GoTo(u, step)
         \/ u \notin consumed /\ \E c \in SignupStates : signup' = [signup EXCEPT ![u] = c]
  PROVE  AdmissionStep
<1>1. signup \in [Users -> SignupStates] /\ consumed \subseteq Users
  BY DEF InvitesInv, Invitations!TypeOK, SignupStates
<1>2. \A v \in consumed : signup'[v].invite = signup[v].invite
  BY <1>1 DEF Invitations!GoTo, SignupStates
<1> QED BY <1>2, AdmissionUnseen

\* Whoever inserts the row of a user of the address finds none.
LEMMA AdmissionJoins ==
  ASSUME InvitesInv, NEW u \in Users, Invitations!NoUser \notin Users,
         UNCHANGED <<invites, mailed, consumed>>,
         \E step \in Invitations!Steps : Invitations!GoTo(u, step),
         userRow = Invitations!NoUser, userRow' = u
  PROVE  AdmissionStep
<1>1. signup \in [Users -> SignupStates] /\ consumed \subseteq Users
  BY DEF InvitesInv, Invitations!TypeOK, SignupStates
<1>2. \A v \in consumed : signup'[v].invite = signup[v].invite
  BY <1>1 DEF Invitations!GoTo, SignupStates
<1>3. UNCHANGED <<Invitations!Open, Invitations!Closed, Invitations!Admitted,
                  Invitations!Sent>>
  BY <1>2 DEF Invitations!Open, Invitations!Closed, Invitations!Admitted, Invitations!Sent
<1>4. Invitations!Owner = {} /\ Invitations!Owner' = {u}
  BY DEF Invitations!Owner
<1>5. Invitations!Entry!Join(u)
  BY <1>3, <1>4 DEF Invitations!Entry!Join
<1> QED BY <1>5 DEF AdmissionStep, Invitations!Entry!Next

LEMMA AdmissionAdmits ==
  ASSUME InvitesInv, NEW u \in Users, NEW i \in Invites, Invitations!Accept(u, i)
  PROVE  AdmissionStep
<1>1. /\ invites \in [Invites -> InviteRows] /\ signup \in [Users -> SignupStates]
      /\ consumed \subseteq Users
  BY DEF InvitesInv, Invitations!TypeOK, SignupStates, InviteRows
<1>2. /\ signup[u].step = "valid" /\ signup[u].invite = i /\ invites[i].status = "pending"
      /\ consumed' = consumed \cup {u} /\ UNCHANGED <<userRow, mailed>>
  BY DEF Invitations!Accept, Invitations!AcceptedNow
<1>3. u \notin consumed
  BY <1>2, InvitesBefore DEF Invited
<1>4. /\ invites'[i].status = "accepted" /\ invites'[i].sent = invites[i].sent
      /\ \A j \in Invites \ {i} : invites'[j] = invites[j]
  BY <1>1 DEF Invitations!Accept, Invitations!AcceptedNow, InviteRows
<1>5. \A v \in Users : signup'[v].invite = signup[v].invite
  BY <1>1 DEF Invitations!Accept, Invitations!AcceptedNow, Invitations!GoTo, SignupStates
<1>6. \A v \in consumed : signup[v].invite # i
  BY <1>2 DEF InvitesInv, Consumers, Gone
<1>7. /\ i \in Invitations!Open /\ Invitations!Open' = Invitations!Open \ {i}
      /\ Invitations!Closed' = Invitations!Closed \cup {i}
      /\ Invitations!Sent' = Invitations!Sent /\ Invitations!Owner' = Invitations!Owner
  BY <1>2, <1>4 DEF Invitations!Open, Invitations!Closed, Invitations!Sent, Invitations!Owner
<1>8. Invitations!Admitted' = [Invitations!Admitted EXCEPT ![i] = {u}]
  <2>1. \A j \in Invites : Invitations!Admitted'[j] =
                              IF j = i THEN {u} ELSE Invitations!Admitted[j]
    BY <1>1, <1>2, <1>5, <1>6 DEF Invitations!Admitted
  <2> QED BY <2>1 DEF Invitations!Admitted
<1>9. \A j \in Invites : u \notin Invitations!Admitted[j]
  BY <1>3 DEF Invitations!Admitted
<1>10. Invitations!Entry!Admit(i, u)
  BY <1>2, <1>7, <1>8, <1>9 DEF Invitations!Entry!Admit, Invitations!Entry!Close
<1> QED BY <1>10 DEF AdmissionStep, Invitations!Entry!Next

LEMMA AdmissionSignups ==
  ASSUME InvitesInv, Invitations!NoUser \notin Users, NEW u \in Users, Invitations!Signup(u)
  PROVE  AdmissionStep
<1>1. {"begun", "created", "member", "project", "end", "inserted", "admin", "granted", "undo",
       "undone"} \subseteq Invitations!Steps
  BY DEF Invitations!Steps
<1>2. CASE \/ Invitations!Begin(u) \/ Invitations!AddMember(u) \/ Invitations!GrantInvited(u)
           \/ Invitations!InsertUser(u) \/ Invitations!Grant(u) \/ Invitations!GrantFails(u)
  <2>1. UNCHANGED <<invites, userRow, mailed, consumed>>
    BY <1>2 DEF Invitations!Begin, Invitations!AddMember, Invitations!GrantInvited,
       Invitations!InsertUser, Invitations!Grant, Invitations!GrantFails, Invitations!tables,
       Invitations!history
  <2>2. \E step \in Invitations!Steps : Invitations!GoTo(u, step)
    BY <1>1, <1>2 DEF Invitations!Begin, Invitations!AddMember, Invitations!GrantInvited,
       Invitations!InsertUser, Invitations!Grant, Invitations!GrantFails
  <2> QED BY <2>1, <2>2, AdmissionSignupUnseen
<1>3. CASE \/ Invitations!Undo(u) \/ Invitations!UndoFails(u) \/ Invitations!Refused(u)
           \/ Invitations!InvitedFails(u)
  <2>1. UNCHANGED <<invites, userRow, mailed, consumed>>
    BY <1>3 DEF Invitations!Undo, Invitations!UndoFails, Invitations!Refused,
       Invitations!InvitedFails, Invitations!tables, Invitations!history
  <2>2. \E step \in Invitations!Steps : Invitations!GoTo(u, step)
    BY <1>1, <1>3 DEF Invitations!Undo, Invitations!UndoFails, Invitations!Refused,
       Invitations!InvitedFails
  <2> QED BY <2>1, <2>2, AdmissionSignupUnseen
<1>4. ASSUME NEW i \in Invites, Invitations!Validate(u, i) PROVE AdmissionStep
  <2>1. u \notin consumed
    BY <1>4, InvitesBefore DEF Invitations!Validate, Invited
  <2>2. [step |-> "valid", invite |-> i] \in SignupStates
    BY DEF SignupStates, Invitations!Steps
  <2>3. UNCHANGED <<invites, userRow, mailed, consumed>>
        /\ \E c \in SignupStates : signup' = [signup EXCEPT ![u] = c]
    BY <1>4, <2>2 DEF Invitations!Validate, Invitations!tables, Invitations!history
  <2> QED BY <2>1, <2>3, AdmissionSignupUnseen
<1>5. CASE Invitations!CreateInvited(u)
  BY <1>1, <1>5, AdmissionJoins DEF Invitations!CreateInvited, Invitations!history
<1>6. CASE Invitations!Commit(u) \/ Invitations!CommitFails(u)
  <2>1. userRow = Invitations!NoUser
    BY <1>6, InvitesBefore DEF Invitations!Commit, Invitations!CommitFails, Insertion
  <2>2. UNCHANGED <<invites, mailed, consumed>> /\ userRow' \in {userRow, u}
        /\ \E step \in Invitations!Steps : Invitations!GoTo(u, step)
    BY <1>1, <1>6 DEF Invitations!Commit, Invitations!CommitFails, Invitations!history
  <2> QED BY <2>1, <2>2, AdmissionJoins, AdmissionSignupUnseen
<1> QED BY <1>2, <1>3, <1>4, <1>5, <1>6, AdmissionAdmits DEF Invitations!Signup

-----------------------------------------------------------------------------
\* A row is marked as sent after the mail, and only then.
LEMMA AdmissionMailer ==
  ASSUME InvitesInv, MadeOnly, NEW i \in Invites, Invitations!Mailer(i)
  PROVE  AdmissionStep
<1>1. invites \in [Invites -> InviteRows]
  BY DEF InvitesInv, Invitations!TypeOK, InviteRows
<1>2. CASE Invitations!Execute(i) \/ Invitations!MarkSent(i)
  BY <1>2, AdmissionRowsUnseen DEF Invitations!Execute, Invitations!MarkSent
<1>3. CASE Invitations!SendMail(i)
  <2>1. /\ i \in Invitations!Open \cup Invitations!Closed
        /\ mailed' = mailed \cup {i} /\ UNCHANGED <<invites, userRow, signup, consumed>>
    BY <1>1, <1>3 DEF Invitations!SendMail, MadeOnly, Made, InviteRows, Invitations!Open,
       Invitations!Closed, Invitations!tables
  <2>2. UNCHANGED <<Invitations!Open, Invitations!Closed, Invitations!Admitted,
                    Invitations!Owner, Invitations!Sent>>
    BY <2>1 DEF Invitations!Open, Invitations!Closed, Invitations!Admitted,
       Invitations!Owner, Invitations!Sent
  <2>3. Invitations!Entry!Mail(i)
    BY <2>1, <2>2 DEF Invitations!Entry!Mail
  <2> QED BY <2>3 DEF AdmissionStep, Invitations!Entry!Next
<1>4. CASE Invitations!CommitSent(i) \/ Invitations!MailFails(i)
  <2>1. UNCHANGED <<userRow, signup, mailed, consumed>>
    BY <1>4 DEF Invitations!CommitSent, Invitations!MailFails, Invitations!history
  <2>2. CASE UNCHANGED invites
    BY <2>1, <2>2, AdmissionUnseen
  <2>3. CASE sending[i] = "mailed" /\ Invitations!SentNow(i)
    <3>1. /\ i \in mailed /\ invites'[i].status = invites[i].status
          /\ invites'[i].sent \in BOOLEAN /\ (invites[i].sent => invites'[i].sent)
          /\ \A j \in Invites \ {i} : invites'[j] = invites[j]
      BY <1>1, <2>3 DEF InvitesInv, Mails, Invitations!SentNow, InviteRows
    <3>2. UNCHANGED <<Invitations!Open, Invitations!Closed, Invitations!Admitted,
                      Invitations!Owner>>
      BY <2>1, <3>1 DEF Invitations!Open, Invitations!Closed, Invitations!Admitted,
         Invitations!Owner
    <3>3. CASE ~invites[i].sent /\ ~invites'[i].sent
      <4>1. Invitations!Sent' = Invitations!Sent
        BY <3>1, <3>3 DEF Invitations!Sent
      <4> QED BY <2>1, <3>2, <4>1 DEF AdmissionStep, Invitations!Entry!vars
    <3>4. CASE invites'[i].sent
      <4>1. Invitations!Sent' = Invitations!Sent \cup {i}
        BY <3>1, <3>4 DEF Invitations!Sent
      <4>2. Invitations!Entry!Confirm(i)
        BY <2>1, <3>1, <3>2, <4>1 DEF Invitations!Entry!Confirm
      <4> QED BY <4>2 DEF AdmissionStep, Invitations!Entry!Next
    <3> QED BY <3>1, <3>3, <3>4
  <2> QED BY <1>4, <2>2, <2>3 DEF Invitations!CommitSent, Invitations!MailFails
<1> QED BY <1>2, <1>3, <1>4 DEF Invitations!Mailer

LEMMA AdmissionOthers ==
  ASSUME InvitesInv, MadeOnly,
         \/ Invitations!ListInput \/ Invitations!ListExpired \/ Invitations!DeleteExpired
         \/ Invitations!Crash \/ (\E i \in Invites : Invitations!Expire(i))
         \/ UNCHANGED Invitations!vars
  PROVE  AdmissionStep
<1>1. invites \in [Invites -> InviteRows] /\ consumed \subseteq Users
      /\ signup \in [Users -> SignupStates]
  BY DEF InvitesInv, Invitations!TypeOK, InviteRows, SignupStates
<1>2. CASE Invitations!ListInput \/ Invitations!ListExpired \/ UNCHANGED Invitations!vars
  BY <1>2, AdmissionRowsUnseen DEF Invitations!ListInput, Invitations!ListExpired,
     Invitations!vars
<1>3. CASE Invitations!DeleteExpired
  <2>1. /\ UNCHANGED <<userRow, signup, mailed, consumed>>
        /\ \A i \in Invites :
             /\ invites'[i].sent = invites[i].sent
             /\ invites'[i].status = IF i \in expired THEN "deleted" ELSE invites[i].status
    BY <1>1, <1>3 DEF Invitations!DeleteExpired, InviteRows, Invitations!history
  <2>2. \A i \in expired : Made(i)
    BY DEF MadeOnly
  <2> QED BY <2>1, <2>2, AdmissionTakesBack DEF Gone
<1>4. CASE Invitations!Crash
  <2>1. \A u \in Users : signup'[u].invite = signup[u].invite
    BY <1>1, <1>4 DEF Invitations!Crash, SignupStates
  <2> QED BY <1>1, <1>4, <2>1, AdmissionUnseen DEF Invitations!Crash, Invitations!tables
<1>5. ASSUME NEW i \in Invites, Invitations!Expire(i) PROVE AdmissionStep
  <2>1. \A j \in Invites : /\ invites'[j].status = invites[j].status
                           /\ invites'[j].sent = invites[j].sent
    BY <1>1, <1>5 DEF Invitations!Expire, InviteRows
  <2> QED BY <1>5, <2>1, AdmissionUnseen DEF Invitations!Expire, Invitations!history
<1> QED BY <1>2, <1>3, <1>4, <1>5

\* Calls, signups and workers that look at an invitation, wait, and write it later, and
\* that crash in between, implement Admission, whichever organisation each invitation of
\* the address is of: an organisation has one open at a time, each is closed once, by the
\* one user it admits or by nobody, the address gets one user, and a row is marked as sent
\* after its mail.
THEOREM AdmissionImplemented == Invitations!Spec => ImplementsAdmission
<1>1. Invitations!Init => InvitesInv /\ MadeOnly /\ Invitations!Entry!Init
  <2> SUFFICES ASSUME Invitations!Init
               PROVE  InvitesInv /\ MadeOnly /\ Invitations!Entry!Init
    OBVIOUS
  <2>1. InvitesInv
    BY InvitesInit, BoundsAssumption, UsersAssumption
  <2>2. MadeOnly
    BY DEF Invitations!Init, Invitations!NoCall, MadeOnly
  <2>3. Invitations!Entry!Init
    BY DEF Invitations!Init, Invitations!Entry!Init, Invitations!Open, Invitations!Closed,
       Invitations!Sent, Invitations!Admitted, Invitations!Owner
  <2> QED BY <2>1, <2>2, <2>3
<1>2. InvitesInv /\ MadeOnly /\ [Invitations!Next]_(Invitations!vars)
      => InvitesInv' /\ MadeOnly' /\ [Invitations!Entry!Next]_(Invitations!Entry!vars)
  <2> SUFFICES ASSUME InvitesInv, MadeOnly, [Invitations!Next]_(Invitations!vars)
               PROVE  InvitesInv' /\ MadeOnly' /\ AdmissionStep
    BY DEF AdmissionStep
  <2>1. InvitesInv'
    BY InvitesNextKeeps, BoundsAssumption, UsersAssumption
  <2>2. MadeOnly'
    BY <2>1, MadeOnlyKeeps
  <2>3. AdmissionStep
    BY UsersAssumption, AdmissionCalls, AdmissionSignups, AdmissionMailer, AdmissionOthers
       DEF Invitations!Next
  <2> QED BY <2>1, <2>2, <2>3
<1> QED BY <1>1, <1>2, PTL
    DEF Invitations!Spec, ImplementsAdmission, Invitations!ImplementsAdmission,
        Invitations!Entry!Spec

-----------------------------------------------------------------------------
(***************************************************************************)
(* BuildMirror: a failure is propagated to the row of its resource before  *)
(* it is recorded, and what was propagated stays.                          *)
(***************************************************************************)

BuildSteps ==
  [at : {"idle", "create", "propagate", "record"}, saw : Mirror!BuildStates, copy : Mirror!Statuses]
ResourceSteps == [at : {"idle", "write"}, saw : Mirror!ResourceStates, copy : Mirror!Statuses]

\* The build has been in state s.
Reached(s) ==
  /\ s \in {"Failed", "Success", "Cancelled"} => build = s
  /\ s = "retrying" => build \notin {"none", "new", "pending"}

\* What was propagated stays until it is recorded.
Propagated ==
  buildCtl.at = "record" /\ Mirror!Failing(buildCtl.saw) /\ ~mirrorCrossed /\ ~hidden =>
    rowStatus.failure = "build"

\* A failure that is recorded is shown, or the build went on and that is being handled.
Shown ==
  Mirror!Failing(buildRow) /\ ~unseen /\ ~mirrorCrossed /\ ~hidden =>
    \/ rowStatus.failure = "build"
    \/ build # buildRow /\ (buildQueued \/ buildCtl.at # "idle")

MirrorInv ==
  /\ Mirror!TypeOK
  /\ Reached(buildRow) /\ (buildCtl.at # "idle" => Reached(buildCtl.saw))
  /\ Propagated /\ Shown

-----------------------------------------------------------------------------
LEMMA MirrorInit ==
  ASSUME MaxMirrorFailures \in Nat, Mirror!Init
  PROVE  MirrorInv
<1>1. 0 \in 0..MaxMirrorFailures
  OBVIOUS
<1>2. /\ Mirror!IdleBuild \in BuildSteps
      /\ Mirror!IdleResource \in ResourceSteps
      /\ Mirror!IdleBuild.at = "idle" /\ Mirror!Null \in Mirror!Statuses
  BY DEF Mirror!IdleBuild, BuildSteps, Mirror!IdleResource, ResourceSteps, Mirror!BuildStates,
  Mirror!ResourceStates,
         Mirror!Statuses
<1>3. Mirror!TypeOK
  BY <1>1, <1>2 DEF Mirror!Init, Mirror!TypeOK, BuildSteps, ResourceSteps,
                    Mirror!ResourceStates, Mirror!BuildStates
<1> QED BY <1>2, <1>3 DEF Mirror!Init, MirrorInv, Reached, Propagated, Shown, Mirror!Failing

-----------------------------------------------------------------------------
LEMMA MirrorQueuesTyped ==
  ASSUME MirrorInv
  PROVE  /\ resourceQueued \in BOOLEAN /\ buildQueued \in BOOLEAN
         /\ mirrorFailures \in 0..MaxMirrorFailures
         /\ resourceCtl \in ResourceSteps
BY DEF MirrorInv, Mirror!TypeOK, BuildSteps, ResourceSteps

LEMMA MirrorAgentKeeps ==
  ASSUME MirrorInv, Mirror!AgentResource \/ Mirror!AgentBuild
  PROVE  MirrorInv'
<1>1. UNCHANGED <<Mirror!rows, resourceCtl, buildCtl, mirrorFailures, Mirror!history>>
  BY DEF Mirror!AgentResource, Mirror!AgentBuild
<1>2. /\ cr' \in Mirror!ResourceStates /\ build' \in Mirror!BuildStates
      /\ resourceQueued' \in BOOLEAN /\ buildQueued' \in BOOLEAN
  BY DEF Mirror!AgentResource, Mirror!AgentBuild, MirrorInv, Mirror!TypeOK, BuildSteps,
         ResourceSteps, Mirror!BuildStates
<1>3. /\ build' # build => buildQueued' /\ build \notin {"Failed", "Success", "Cancelled"}
      /\ build = "retrying" => build' \notin {"none", "new", "pending"}
      /\ buildQueued => buildQueued'
  BY DEF Mirror!AgentResource, Mirror!AgentBuild, MirrorInv, Mirror!TypeOK, BuildSteps,
         ResourceSteps
<1>4. Mirror!TypeOK'
  BY <1>1, <1>2 DEF MirrorInv, Mirror!TypeOK, BuildSteps, ResourceSteps, Mirror!rows, Mirror!history
<1>5. ASSUME NEW s \in Mirror!BuildStates, Reached(s) PROVE Reached(s)'
  BY <1>3, <1>5 DEF Reached, MirrorInv, Mirror!TypeOK, BuildSteps, ResourceSteps, Mirror!BuildStates
<1>6. Reached(buildRow)' /\ (buildCtl'.at # "idle" => Reached(buildCtl.saw)')
  BY <1>1, <1>5 DEF MirrorInv, Mirror!TypeOK, BuildSteps, ResourceSteps, Mirror!rows
<1>7. Propagated'
  BY <1>1 DEF MirrorInv, Propagated, Mirror!Failing, Mirror!rows, Mirror!history
<1>8. Mirror!Failing(buildRow) /\ build # buildRow => build' # buildRow
  BY <1>3 DEF MirrorInv, Mirror!TypeOK, BuildSteps, ResourceSteps, Reached, Mirror!Failing,
              Mirror!BuildStates
<1>9. Shown'
  BY <1>1, <1>3, <1>8 DEF MirrorInv, Shown, Mirror!Failing, Mirror!rows, Mirror!history
<1> QED BY <1>4, <1>6, <1>7, <1>9 DEF MirrorInv

LEMMA MirrorLoadResourceKeeps ==
  ASSUME MaxMirrorFailures \in Nat, MirrorInv, Mirror!LoadResource \/ Mirror!ResourceFails
  PROVE  MirrorInv'
<1>1. UNCHANGED <<Mirror!objects, Mirror!rows, buildQueued, buildCtl, Mirror!history>>
  BY DEF Mirror!LoadResource, Mirror!ResourceFails
<1>2. /\ resourceCtl' \in ResourceSteps
      /\ resourceQueued' \in BOOLEAN /\ mirrorFailures' \in 0..MaxMirrorFailures
  <2>1. CASE Mirror!LoadResource
    <3>1. [at |-> "write", saw |-> cr, copy |-> rowStatus]
            \in ResourceSteps
      BY DEF MirrorInv, Mirror!TypeOK, BuildSteps, ResourceSteps
    <3> QED BY <2>1, <3>1, MirrorQueuesTyped DEF Mirror!LoadResource
  <2>2. CASE Mirror!ResourceFails
    BY <2>2, MirrorQueuesTyped DEF Mirror!ResourceFails, Mirror!IdleResource, ResourceSteps,
    Mirror!Statuses,
       Mirror!ResourceStates
  <2> QED BY <2>1, <2>2
<1>3. Mirror!TypeOK'
  BY <1>1, <1>2 DEF MirrorInv, Mirror!TypeOK, BuildSteps, ResourceSteps, Mirror!objects,
                    Mirror!rows, Mirror!history
<1> QED BY <1>1, <1>3 DEF MirrorInv, Reached, Propagated, Shown, Mirror!objects, Mirror!rows,
                          Mirror!history

\* A status that was written by the controller of resources over what it had read keeps
\* the failure of the build, unless the resource itself crashes.
LEMMA MirrorWriteResourceKeeps ==
  ASSUME MirrorInv, Mirror!WriteResource
  PROVE  MirrorInv'
<1>1. UNCHANGED <<Mirror!objects, buildRow, Mirror!queues, buildCtl, mirrorFailures, unseen>>
  BY DEF Mirror!WriteResource
<1>2. PICK c \in BOOLEAN, h \in BOOLEAN :
        /\ c = (mirrorCrossed \/ rowStatus # resourceCtl.copy)
        /\ h = (hidden \/ (rowStatus.failure = "build" /\ resourceCtl.saw = "crashing"))
  OBVIOUS
<1>3. mirrorCrossed' = c /\ hidden' = h
  BY <1>2 DEF Mirror!WriteResource
<1>4. /\ Mirror!Rewrite(resourceCtl.copy, resourceCtl.saw) \in Mirror!Statuses
      /\ resourceCtl.copy.failure = "build" /\ resourceCtl.saw # "crashing" =>
           Mirror!Rewrite(resourceCtl.copy, resourceCtl.saw).failure = "build"
  BY DEF Mirror!Rewrite, MirrorInv, Mirror!TypeOK, BuildSteps, ResourceSteps, Mirror!Statuses,
         Mirror!ResourceStates
<1>5. /\ rowStatus' \in Mirror!Statuses
      /\ ~c /\ ~h /\ rowStatus.failure = "build" => rowStatus'.failure = "build"
  BY <1>2, <1>4 DEF Mirror!WriteResource
<1>6. resourceCtl' \in ResourceSteps
  BY DEF Mirror!WriteResource, Mirror!IdleResource, ResourceSteps, Mirror!Statuses,
         Mirror!ResourceStates
<1>7. Mirror!TypeOK'
  BY <1>1, <1>3, <1>5, <1>6 DEF MirrorInv, Mirror!TypeOK, BuildSteps, ResourceSteps,
                                Mirror!objects, Mirror!queues
<1>8. (c \/ ~mirrorCrossed) /\ (h \/ ~hidden)
  BY <1>2
<1>9. Propagated'
  BY <1>1, <1>3, <1>5, <1>8 DEF MirrorInv, Propagated, Mirror!Failing
<1>10. Shown'
  BY <1>1, <1>3, <1>5, <1>8 DEF MirrorInv, Shown, Mirror!Failing, Mirror!objects, Mirror!queues
<1> QED BY <1>1, <1>7, <1>9, <1>10 DEF MirrorInv, Reached, Mirror!objects

-----------------------------------------------------------------------------
\* Steps of the controller of builds that write no row: it starts on what it has read of
\* the build, gives up, or was up to date.
LEMMA MirrorLoadBuildKeeps ==
  ASSUME MirrorInv, Mirror!LoadBuild
  PROVE  MirrorInv'
<1>1. UNCHANGED <<Mirror!objects, Mirror!rows, resourceQueued, resourceCtl, mirrorFailures,
                  Mirror!history>>
  BY DEF Mirror!LoadBuild
<1>2. buildQueued' = FALSE
  BY DEF Mirror!LoadBuild
<1>3. \/ buildCtl' = [at |-> "create", saw |-> build, copy |-> rowStatus] /\ buildRow = "none"
      \/ buildCtl' = buildCtl /\ buildRow = build /\ buildCtl.at = "idle"
      \/ buildCtl' = [at |-> "propagate", saw |-> build, copy |-> rowStatus]
  BY DEF Mirror!LoadBuild
<1>4. buildCtl' \in BuildSteps
  BY <1>3 DEF MirrorInv, Mirror!TypeOK, BuildSteps, ResourceSteps
<1>5. Mirror!TypeOK'
  BY <1>1, <1>2, <1>4 DEF MirrorInv, Mirror!TypeOK, BuildSteps, ResourceSteps, Mirror!objects,
                          Mirror!rows, Mirror!history
<1>6. Reached(build)
  BY DEF Reached
<1>7. Reached(buildRow)' /\ (buildCtl'.at # "idle" => Reached(buildCtl.saw)')
  BY <1>1, <1>3, <1>6 DEF MirrorInv, Reached, Mirror!objects, Mirror!rows
<1>8. Propagated'
  BY <1>1, <1>3 DEF MirrorInv, Propagated, Mirror!Failing, Mirror!rows, Mirror!history
<1>9. Shown'
  BY <1>1, <1>3 DEF MirrorInv, Shown, Mirror!Failing, Mirror!objects, Mirror!rows,
                    Mirror!history
<1> QED BY <1>5, <1>7, <1>8, <1>9 DEF MirrorInv

LEMMA MirrorGiveUpKeeps ==
  ASSUME MaxMirrorFailures \in Nat, MirrorInv,
         Mirror!PropagateLater \/ Mirror!BuildFails \/ Mirror!Crash
  PROVE  MirrorInv'
<1>1. UNCHANGED <<Mirror!objects, Mirror!rows, Mirror!history>> /\ buildQueued' = TRUE
      /\ buildCtl' = Mirror!IdleBuild
  BY DEF Mirror!PropagateLater, Mirror!BuildFails, Mirror!Crash
<1>2. /\ Mirror!IdleBuild \in BuildSteps
      /\ Mirror!IdleBuild.at = "idle"
      /\ resourceCtl' \in ResourceSteps
      /\ resourceQueued' \in BOOLEAN /\ mirrorFailures' \in 0..MaxMirrorFailures
  <2>1. /\ Mirror!IdleBuild \in BuildSteps
        /\ Mirror!IdleResource \in ResourceSteps
        /\ Mirror!IdleBuild.at = "idle"
    BY DEF Mirror!IdleBuild, BuildSteps, Mirror!IdleResource, ResourceSteps, Mirror!BuildStates,
    Mirror!ResourceStates,
           Mirror!Statuses
  <2>2. resourceQueued' \in BOOLEAN
    <3>1. CASE UNCHANGED resourceQueued
      BY <3>1, MirrorQueuesTyped
    <3>2. CASE resourceQueued' = TRUE
      BY <3>2
    <3> QED BY <3>1, <3>2 DEF Mirror!PropagateLater, Mirror!BuildFails, Mirror!Crash
  <2> QED BY <2>1, <2>2, MirrorQueuesTyped
           DEF Mirror!PropagateLater, Mirror!BuildFails, Mirror!Crash
<1>3. Mirror!TypeOK'
  BY <1>1, <1>2 DEF MirrorInv, Mirror!TypeOK, BuildSteps, ResourceSteps, Mirror!objects,
                    Mirror!rows, Mirror!history
<1> QED BY <1>1, <1>2, <1>3 DEF MirrorInv, Reached, Propagated, Shown, Mirror!Failing,
                                Mirror!objects, Mirror!rows, Mirror!history

\* A row that is created with a failure counts as unseen.
LEMMA MirrorCreateRowKeeps ==
  ASSUME MirrorInv, Mirror!CreateRow
  PROVE  MirrorInv'
<1>1. UNCHANGED <<Mirror!objects, rowStatus, resourceQueued, resourceCtl, mirrorFailures,
                  mirrorCrossed, hidden>>
  BY DEF Mirror!CreateRow
<1>2. PICK n \in BOOLEAN : n = (unseen \/ Mirror!Failing(buildCtl.saw))
  BY DEF Mirror!Failing
<1>3. /\ buildRow' = buildCtl.saw /\ unseen' = n /\ buildQueued' = TRUE
         /\ buildCtl' = Mirror!IdleBuild
      /\ buildCtl.at # "idle"
  BY <1>2 DEF Mirror!CreateRow
<1>4. /\ Mirror!IdleBuild \in BuildSteps
      /\ Mirror!IdleBuild.at = "idle"
  BY DEF Mirror!IdleBuild, BuildSteps, Mirror!BuildStates, Mirror!Statuses
<1>5. Mirror!TypeOK'
  BY <1>1, <1>3, <1>4 DEF MirrorInv, Mirror!TypeOK, BuildSteps, ResourceSteps, Mirror!objects
<1>6. Mirror!Failing(buildRow)' => n
  BY <1>2, <1>3 DEF Mirror!Failing
<1>7. Reached(buildRow)' /\ Propagated' /\ Shown'
  BY <1>1, <1>3, <1>4, <1>6 DEF MirrorInv, Reached, Propagated, Shown, Mirror!objects
<1> QED BY <1>3, <1>4, <1>5, <1>7 DEF MirrorInv

\* The failure is written over what was read, before it is recorded.
LEMMA MirrorPropagateKeeps ==
  ASSUME MirrorInv, Mirror!Propagate
  PROVE  MirrorInv'
<1> DEFINE c == [buildCtl EXCEPT !.at = "record"]
<1>1. /\ c \in BuildSteps
      /\ c.at = "record" /\ c.saw = buildCtl.saw /\ buildCtl' = c
      /\ buildCtl.at # "idle"
  BY DEF Mirror!Propagate, MirrorInv, Mirror!TypeOK, BuildSteps, ResourceSteps
<1> HIDE DEF c
<1>2. UNCHANGED <<Mirror!objects, buildRow, Mirror!queues, resourceCtl, mirrorFailures, unseen,
                  hidden>>
  BY DEF Mirror!Propagate
<1>3. PICK x \in BOOLEAN : x = (mirrorCrossed \/ rowStatus # buildCtl.copy)
  OBVIOUS
<1>4. mirrorCrossed' \in BOOLEAN /\ (mirrorCrossed => mirrorCrossed')
  BY <1>3 DEF Mirror!Propagate, MirrorInv, Mirror!TypeOK, BuildSteps, ResourceSteps
<1>5. /\ rowStatus' \in Mirror!Statuses
      /\ Mirror!Failing(buildCtl.saw) => rowStatus'.failure = "build"
      /\ buildCtl.saw # "Success" /\ rowStatus.failure = "build" => rowStatus'.failure = "build"
  <2>1. CASE buildCtl.copy # Mirror!Null /\ Mirror!Changed
    <3>1. PICK f \in {"build", "none"} :
            /\ rowStatus' = [buildCtl.copy EXCEPT !.failure = f]
            /\ Mirror!Failing(buildCtl.saw) => f = "build"
      BY <2>1 DEF Mirror!Propagate
    <3>2. buildCtl.copy \in [seen : Mirror!ResourceStates, failure : {"none", "runtime", "build"}]
      BY <2>1 DEF MirrorInv, Mirror!TypeOK, BuildSteps, ResourceSteps, Mirror!Statuses
    <3>3. buildCtl.saw # "Success" => Mirror!Failing(buildCtl.saw)
      BY <2>1 DEF Mirror!Changed
    <3> QED BY <3>1, <3>2, <3>3 DEF Mirror!Statuses
  <2>2. CASE ~(buildCtl.copy # Mirror!Null /\ Mirror!Changed)
    <3>1. rowStatus' = rowStatus /\ ~Mirror!Failing(buildCtl.saw)
      BY <2>2 DEF Mirror!Propagate, Mirror!Changed
    <3> QED BY <3>1 DEF MirrorInv, Mirror!TypeOK, BuildSteps, ResourceSteps
  <2> QED BY <2>1, <2>2
<1>6. Mirror!TypeOK'
  BY <1>1, <1>2, <1>4, <1>5 DEF MirrorInv, Mirror!TypeOK, BuildSteps, ResourceSteps,
                                Mirror!objects, Mirror!queues
<1>7. Reached(buildCtl.saw)
  BY <1>1 DEF MirrorInv
<1>8. Shown'
  <2>1. Mirror!Failing(buildRow) /\ buildCtl.saw = "Success" => build # buildRow
    BY <1>7 DEF Reached, Mirror!Failing
  <2> QED BY <1>1, <1>2, <1>4, <1>5, <2>1
           DEF MirrorInv, Shown, Mirror!Failing, Mirror!objects, Mirror!queues
<1>9. Propagated'
  BY <1>1, <1>5 DEF Propagated, Mirror!Failing
<1> QED BY <1>1, <1>2, <1>6, <1>7, <1>8, <1>9 DEF MirrorInv, Reached, Mirror!objects

LEMMA MirrorRecordKeeps ==
  ASSUME MirrorInv, Mirror!Record
  PROVE  MirrorInv'
<1>1. UNCHANGED <<Mirror!objects, rowStatus, Mirror!queues, resourceCtl, mirrorFailures,
                  Mirror!history>>
  BY DEF Mirror!Record
<1>2. buildRow' = buildCtl.saw /\ buildCtl' = Mirror!IdleBuild /\ buildCtl.at = "record"
  BY DEF Mirror!Record
<1>3. /\ Mirror!IdleBuild \in BuildSteps
      /\ Mirror!IdleBuild.at = "idle"
  BY DEF Mirror!IdleBuild, BuildSteps, Mirror!BuildStates, Mirror!Statuses
<1>4. Mirror!TypeOK'
  BY <1>1, <1>2, <1>3 DEF MirrorInv, Mirror!TypeOK, BuildSteps, ResourceSteps, Mirror!objects,
  Mirror!queues,
                          Mirror!history
<1> QED BY <1>1, <1>2, <1>3, <1>4 DEF MirrorInv, Reached, Propagated, Shown, Mirror!Failing,
           Mirror!objects, Mirror!history

LEMMA MirrorOthersKeep ==
  ASSUME MirrorInv, Mirror!Resync \/ UNCHANGED Mirror!vars
  PROVE  MirrorInv'
<1>1. /\ UNCHANGED <<Mirror!objects, Mirror!rows, resourceCtl, buildCtl, mirrorFailures,
                     Mirror!history>>
      /\ resourceQueued' \in BOOLEAN /\ buildQueued' \in BOOLEAN
         /\ (buildQueued => buildQueued')
  <2>1. CASE Mirror!Resync
    BY <2>1 DEF Mirror!Resync
  <2>2. CASE UNCHANGED Mirror!vars
    BY <2>2, MirrorQueuesTyped DEF Mirror!vars, Mirror!queues
  <2> QED BY <2>1, <2>2
<1>2. Mirror!TypeOK'
  BY <1>1 DEF MirrorInv, Mirror!TypeOK, BuildSteps, ResourceSteps, Mirror!objects, Mirror!rows,
              Mirror!history
<1> QED BY <1>1, <1>2 DEF MirrorInv, Reached, Propagated, Shown, Mirror!Failing,
                          Mirror!objects, Mirror!rows, Mirror!history

LEMMA MirrorNextKeeps ==
  ASSUME MaxMirrorFailures \in Nat, MirrorInv, [Mirror!Next]_(Mirror!vars)
  PROVE  MirrorInv'
BY MirrorAgentKeeps, MirrorLoadResourceKeeps, MirrorWriteResourceKeeps, MirrorLoadBuildKeeps,
   MirrorGiveUpKeeps, MirrorCreateRowKeeps,
   MirrorPropagateKeeps, MirrorRecordKeeps, MirrorOthersKeep
   DEF Mirror!Next, Mirror!ResourceController, Mirror!BuildController

\* What is recorded as a failed build is shown on its resource, whatever fails between the
\* two writes and however the two controllers interleave, but for the exceptions it names.
THEOREM FailureIsShown ==
  Mirror!Spec => []FailureShown
<1>1. Mirror!Init => MirrorInv
  BY MirrorInit, TicksAssumption
<1>2. MirrorInv /\ [Mirror!Next]_(Mirror!vars) => MirrorInv'
  BY MirrorNextKeeps, TicksAssumption
<1>3. MirrorInv => Mirror!FailureShown
  BY DEF MirrorInv, Shown, Mirror!FailureShown
<1> QED BY <1>1, <1>2, <1>3, PTL DEF Mirror!Spec, FailureShown


-----------------------------------------------------------------------------
(***************************************************************************)
(* ReleaseDeadline: the clock that runs was started after the last build   *)
(* ended, or a build was overlooked.                                       *)
(***************************************************************************)

DeadlineSteps ==
  [at : {"idle", "loaded", "stamp", "clear", "expired", "capped"}, clock : Deadline!Clocks]

\* The worker alone writes the clock, so that it works on what the row holds.
LoadedClock ==
  /\ deadlineWorker.at # "idle" => deadlineWorker.clock = releaseClock
  /\ deadlineWorker.at = "stamp" => releaseClock = Deadline!NoClock
  /\ deadlineWorker.at \in {"clear", "expired"} => releaseClock # Deadline!NoClock
  /\ deadlineWorker.at = "expired" => now > releaseClock + convergenceTimeout

\* The clock stands still while the worker knows that builds run.
StoppedByBuilds ==
  releaseState = "InProgress" /\ noticed /\ Deadline!Running =>
    releaseClock = Deadline!NoClock /\ deadlineWorker.at # "stamp"

\* The clock was started after the last build ended, or a build was overlooked.
StartedAfterBuilds ==
  releaseState = "InProgress" /\ releaseClock # Deadline!NoClock /\ ~overlooked =>
    doneAt <= releaseClock

DeadlineInv ==
  /\ Deadline!TypeOK /\ doneAt <= now
  /\ LoadedClock /\ StoppedByBuilds /\ StartedAfterBuilds
  /\ Deadline!DeployWindowKept

DeadlineNumbers == MaxTicks \in Nat /\ MaxDeadlineFailures \in Nat /\ convergenceTimeout \in Nat

-----------------------------------------------------------------------------
LEMMA DeadlineInit ==
  ASSUME DeadlineNumbers, Deadline!Init
  PROVE  DeadlineInv
<1>1. 0 \in Deadline!Times /\ 0 \in 0..MaxDeadlineFailures
      /\ Deadline!NoClock \in Deadline!Clocks /\ Deadline!Idle.at = "idle"
      /\ Deadline!Idle \in DeadlineSteps
  BY DEF DeadlineNumbers, Deadline!Times, Deadline!Clocks, Deadline!NoClock, Deadline!Idle,
         DeadlineSteps
<1>2. Deadline!TypeOK
  BY <1>1 DEF Deadline!Init, Deadline!TypeOK, DeadlineSteps
<1> QED BY <1>1, <1>2 DEF Deadline!Init, DeadlineInv, LoadedClock, StoppedByBuilds,
                          StartedAfterBuilds, Deadline!DeployWindowKept

\* Steps of the worker that write nothing but its own state, and what it has noticed.
LEMMA DeadlineLoadKeeps ==
  ASSUME DeadlineNumbers, DeadlineInv, Deadline!Load
  PROVE  DeadlineInv'
<1>1. /\ deadlineWorker' \in DeadlineSteps
      /\ deadlineWorker'.at = "loaded" /\ deadlineWorker'.clock = releaseClock
  BY DEF Deadline!Load, DeadlineInv, Deadline!TypeOK, DeadlineSteps
<1>2. UNCHANGED <<now, builds, Deadline!row, deadlineFailures, Deadline!history>>
  BY DEF Deadline!Load
<1>3. Deadline!TypeOK'
  BY <1>1, <1>2 DEF DeadlineInv, Deadline!TypeOK, DeadlineSteps, Deadline!row, Deadline!history
<1> QED BY <1>1, <1>2, <1>3 DEF DeadlineInv, Deadline!row, Deadline!history, LoadedClock,
                                StoppedByBuilds, Deadline!Running,
           StartedAfterBuilds, Deadline!DeployWindowKept

LEMMA DeadlineDecideKeeps ==
  ASSUME DeadlineNumbers, DeadlineInv, Deadline!Decide
  PROVE  DeadlineInv'
<1>1. /\ Deadline!Decided \in {"capped", "clear", "stamp", "expired", "idle"}
      /\ Deadline!Decided = "stamp" =>
           ~Deadline!Running /\ deadlineWorker.clock = Deadline!NoClock
      /\ Deadline!Decided = "clear" => deadlineWorker.clock # Deadline!NoClock
      /\ Deadline!Decided = "expired" =>
           deadlineWorker.clock # Deadline!NoClock
           /\ now > deadlineWorker.clock + convergenceTimeout
  BY DEF Deadline!Decided, Deadline!BuildsDone
<1>2. /\ deadlineWorker' \in DeadlineSteps
      /\ deadlineWorker'.at = Deadline!Decided /\ deadlineWorker'.clock = deadlineWorker.clock
  BY <1>1 DEF Deadline!Decide, DeadlineInv, Deadline!TypeOK, DeadlineSteps
<1>3. deadlineWorker.clock = releaseClock
  BY DEF Deadline!Decide, DeadlineInv, LoadedClock
<1>4. /\ UNCHANGED <<now, builds, Deadline!row, deadlineFailures, doneAt, overlooked, lasted>>
      /\ noticed' \in BOOLEAN
      /\ noticed' => noticed \/ (Deadline!Running /\ releaseClock = Deadline!NoClock)
  BY <1>3 DEF Deadline!Decide, DeadlineInv, Deadline!TypeOK, DeadlineSteps
<1>5. Deadline!TypeOK'
  BY <1>2, <1>4 DEF DeadlineInv, Deadline!TypeOK, DeadlineSteps, Deadline!row
<1>6. LoadedClock'
  BY <1>1, <1>2, <1>3, <1>4 DEF LoadedClock, Deadline!row
<1>7. StoppedByBuilds'
  BY <1>1, <1>2, <1>4 DEF DeadlineInv, StoppedByBuilds, Deadline!Running, Deadline!row
<1> QED BY <1>4, <1>5, <1>6, <1>7 DEF DeadlineInv, Deadline!row, StartedAfterBuilds,
           Deadline!DeployWindowKept

\* The clock starts or stops, and the worker is through.
LEMMA DeadlineClockKeeps ==
  ASSUME DeadlineNumbers, DeadlineInv, Deadline!Stamp \/ Deadline!Clear
  PROVE  DeadlineInv'
<1>1. /\ deadlineWorker' \in DeadlineSteps
      /\ deadlineWorker'.at = "idle"
  BY DEF Deadline!Stamp, Deadline!Clear, Deadline!Idle, DeadlineSteps, Deadline!Clocks,
         Deadline!NoClock
<1>2. /\ UNCHANGED <<now, builds, releaseState, deadlineFailures, doneAt, overlooked, lasted>>
      /\ noticed' \in BOOLEAN
      /\ Deadline!Stamp => noticed' = noticed
  BY DEF Deadline!Stamp, Deadline!Clear, Deadline!history, DeadlineInv, Deadline!TypeOK,
         DeadlineSteps
<1>3. /\ releaseClock' \in Deadline!Clocks
      /\ releaseState = "InProgress" =>
           releaseClock' = Deadline!NoClock
           \/ (deadlineWorker.at = "stamp" /\ Deadline!Stamp /\ releaseClock' = now)
  BY DEF Deadline!Stamp, Deadline!Clear, Deadline!Clocks, Deadline!NoClock, DeadlineInv,
         Deadline!TypeOK, DeadlineSteps
<1>4. Deadline!TypeOK'
  BY <1>1, <1>2, <1>3 DEF DeadlineInv, Deadline!TypeOK, DeadlineSteps
<1>5. StoppedByBuilds'
  BY <1>1, <1>2, <1>3 DEF DeadlineInv, StoppedByBuilds, Deadline!Running
<1>6. StartedAfterBuilds'
  BY <1>2, <1>3 DEF DeadlineInv, StartedAfterBuilds
<1> QED BY <1>1, <1>2, <1>4, <1>5, <1>6 DEF DeadlineInv, LoadedClock, Deadline!DeployWindowKept

\* The release fails at the second clock when that has run since the last build ended.
LEMMA DeadlineFailKeeps ==
  ASSUME DeadlineNumbers, DeadlineInv, Deadline!Fail
  PROVE  DeadlineInv'
<1>1. /\ deadlineWorker' \in DeadlineSteps
      /\ deadlineWorker'.at = "idle"
  BY DEF Deadline!Fail, Deadline!Idle, DeadlineSteps, Deadline!Clocks, Deadline!NoClock
<1>2. UNCHANGED <<now, builds, releaseClock, deadlineFailures, doneAt, noticed, overlooked>>
  BY DEF Deadline!Fail
<1>3. releaseState' \in {"Failed", "Released"}
  BY DEF Deadline!Fail, DeadlineInv, Deadline!TypeOK, DeadlineSteps
<1>4. /\ lasted' \in Deadline!Clocks
      /\ lasted' = lasted \/ (~overlooked => lasted' > convergenceTimeout)
  <2>1. CASE releaseState = "InProgress" /\ deadlineWorker.at = "expired" /\ ~Deadline!Running
    <3>1. lasted' = now - doneAt /\ now \in Nat /\ doneAt \in Nat /\ doneAt <= now
      BY <2>1 DEF Deadline!Fail, DeadlineInv, Deadline!TypeOK, DeadlineSteps, Deadline!Times
    <3>2. releaseClock # Deadline!NoClock /\ now > releaseClock + convergenceTimeout
          /\ releaseClock \in Nat
      BY <2>1 DEF DeadlineInv, LoadedClock, Deadline!TypeOK, DeadlineSteps, Deadline!Clocks,
      Deadline!Times,
                  Deadline!NoClock, DeadlineNumbers
    <3>3. ~overlooked => doneAt <= releaseClock
      BY <2>1, <3>2 DEF DeadlineInv, StartedAfterBuilds
    <3>4. now <= MaxTicks
      BY DEF DeadlineInv, Deadline!TypeOK, DeadlineSteps, Deadline!Times
    <3> QED BY <3>1, <3>2, <3>3, <3>4 DEF DeadlineNumbers, Deadline!Clocks, Deadline!Times
  <2>2. CASE ~(releaseState = "InProgress" /\ deadlineWorker.at = "expired" /\ ~Deadline!Running)
    BY <2>2 DEF Deadline!Fail, DeadlineInv, Deadline!TypeOK, DeadlineSteps
  <2> QED BY <2>1, <2>2
<1>5. Deadline!TypeOK'
  BY <1>1, <1>2, <1>3, <1>4 DEF DeadlineInv, Deadline!TypeOK, DeadlineSteps
<1> QED BY <1>1, <1>2, <1>3, <1>4, <1>5 DEF DeadlineInv, LoadedClock, StoppedByBuilds,
           StartedAfterBuilds,
           Deadline!DeployWindowKept

LEMMA DeadlineAbortsKeeps ==
  ASSUME DeadlineNumbers, DeadlineInv, Deadline!Aborts
  PROVE  DeadlineInv'
<1>1. /\ deadlineWorker' \in DeadlineSteps
      /\ deadlineWorker'.at = "idle"
  BY DEF Deadline!Aborts, Deadline!Idle, DeadlineSteps, Deadline!Clocks, Deadline!NoClock
<1>2. UNCHANGED <<now, builds, Deadline!row, Deadline!history>>
      /\ deadlineFailures' \in 0..MaxDeadlineFailures
  BY DEF Deadline!Aborts, DeadlineNumbers, DeadlineInv, Deadline!TypeOK, DeadlineSteps
<1>3. Deadline!TypeOK'
  BY <1>1, <1>2 DEF DeadlineInv, Deadline!TypeOK, DeadlineSteps, Deadline!row, Deadline!history
<1> QED BY <1>1, <1>2, <1>3 DEF DeadlineInv, Deadline!row, Deadline!history, LoadedClock,
                                StoppedByBuilds, Deadline!Running,
           StartedAfterBuilds, Deadline!DeployWindowKept

-----------------------------------------------------------------------------
LEMMA DeadlineBuildBeginsKeeps ==
  ASSUME DeadlineNumbers, DeadlineInv, NEW b \in Builds, Deadline!BuildBegins(b)
  PROVE  DeadlineInv'
<1>1. /\ UNCHANGED <<now, Deadline!row, deadlineWorker, deadlineFailures, doneAt, overlooked,
                     lasted>>
      /\ builds' \in [Builds -> {"none", "running", "done"}]
      /\ noticed' \in BOOLEAN /\ (noticed' => noticed /\ Deadline!Running)
  BY DEF Deadline!BuildBegins, DeadlineInv, Deadline!TypeOK, DeadlineSteps
<1>2. Deadline!TypeOK'
  BY <1>1 DEF DeadlineInv, Deadline!TypeOK, DeadlineSteps, Deadline!row
<1> QED BY <1>1, <1>2 DEF DeadlineInv, Deadline!row, LoadedClock, StoppedByBuilds,
                          StartedAfterBuilds, Deadline!DeployWindowKept

\* A build that ends beside a clock that runs was overlooked.
LEMMA DeadlineBuildEndsKeeps ==
  ASSUME DeadlineNumbers, DeadlineInv, NEW b \in Builds, Deadline!BuildEnds(b)
  PROVE  DeadlineInv'
<1>1. /\ UNCHANGED <<now, Deadline!row, deadlineWorker, deadlineFailures, noticed, lasted>>
      /\ builds' \in [Builds -> {"none", "running", "done"}]
      /\ doneAt' = now /\ overlooked' \in BOOLEAN
  BY DEF Deadline!BuildEnds, DeadlineInv, Deadline!TypeOK, DeadlineSteps
<1>2. /\ overlooked => overlooked'
      /\ releaseClock # Deadline!NoClock /\ ~noticed => overlooked'
  BY DEF Deadline!BuildEnds
<1>3. Deadline!Running /\ (Deadline!Running' => Deadline!Running)
  BY DEF Deadline!BuildEnds, Deadline!Running, DeadlineInv, Deadline!TypeOK, DeadlineSteps
<1>4. Deadline!TypeOK'
  BY <1>1 DEF DeadlineInv, Deadline!TypeOK, DeadlineSteps, Deadline!row
<1>5. StartedAfterBuilds'
  BY <1>1, <1>2, <1>3 DEF DeadlineInv, StoppedByBuilds, StartedAfterBuilds, Deadline!row
<1>6. now <= now
  BY DEF DeadlineInv, Deadline!TypeOK, DeadlineSteps, Deadline!Times
<1> QED BY <1>1, <1>2, <1>3, <1>4, <1>5, <1>6
         DEF DeadlineInv, Deadline!row, LoadedClock, StoppedByBuilds, Deadline!DeployWindowKept

LEMMA DeadlineOthersKeep ==
  ASSUME DeadlineNumbers, DeadlineInv, Deadline!Tick \/ Deadline!Ends \/ UNCHANGED Deadline!vars
  PROVE  DeadlineInv'
<1>1. /\ UNCHANGED <<builds, releaseClock, deadlineWorker, deadlineFailures, doneAt, noticed,
                     overlooked, lasted>>
      /\ now' \in Deadline!Times /\ now' >= now
      /\ releaseState' \in {"InProgress", "Failed", "Released"}
         /\ (releaseState' = "InProgress" => releaseState' = releaseState)
  BY DEF Deadline!Tick, Deadline!Ends, Deadline!vars, Deadline!row, Deadline!history,
         DeadlineInv, Deadline!TypeOK, DeadlineSteps, Deadline!Times, DeadlineNumbers
<1>2. Deadline!TypeOK'
  BY <1>1 DEF DeadlineInv, Deadline!TypeOK, DeadlineSteps
<1>3. doneAt' <= now'
      /\ (now > releaseClock + convergenceTimeout => now' > releaseClock' + convergenceTimeout)
  BY <1>1 DEF DeadlineInv, Deadline!TypeOK, DeadlineSteps, Deadline!Times, Deadline!Clocks,
  Deadline!NoClock,
              DeadlineNumbers
<1> QED BY <1>1, <1>2, <1>3 DEF DeadlineInv, LoadedClock, StoppedByBuilds, Deadline!Running,
                                StartedAfterBuilds, Deadline!DeployWindowKept

LEMMA DeadlineNextKeeps ==
  ASSUME DeadlineNumbers, DeadlineInv, [Deadline!Next]_(Deadline!vars)
  PROVE  DeadlineInv'
BY DeadlineLoadKeeps, DeadlineDecideKeeps, DeadlineClockKeeps, DeadlineFailKeeps,
   DeadlineAbortsKeeps, DeadlineBuildBeginsKeeps, DeadlineBuildEndsKeeps,
   DeadlineOthersKeep DEF Deadline!Next, Deadline!Worker

\* A slow build never eats the window of the deploy phase, whatever the timeouts are and
\* however the executions of the worker, the builds and the time interleave.
THEOREM DeployWindow ==
  Deadline!Spec => []DeployWindowKept
<1>1. Deadline!Init => DeadlineInv
  BY DeadlineInit, TicksAssumption, TimesAssumption DEF DeadlineNumbers
<1>2. DeadlineInv /\ [Deadline!Next]_(Deadline!vars) => DeadlineInv'
  BY DeadlineNextKeeps, TicksAssumption, TimesAssumption DEF DeadlineNumbers
<1>3. DeadlineInv => Deadline!DeployWindowKept
  BY DEF DeadlineInv
<1> QED BY <1>1, <1>2, <1>3, PTL DEF Deadline!Spec, DeployWindowKept
=============================================================================
