----------------------- MODULE ReleaseWorkerProofs -----------------------
(***************************************************************************)
(* What is proved of ReleaseWorker for every number of releases, every set *)
(* of resources and every choice of snapshots.                             *)
(*                                                                         *)
(* The argument.  Most steps of the worker change nothing but the local    *)
(* copy of one execution; lemma LocalStep says what such a step has to     *)
(* establish of the new copy (ExecOK) for the inductive invariant IInv to  *)
(* be preserved.  The steps that write a row or an object of the cluster   *)
(* are proved one by one.  With RenderedInv beside IInv, every step is one *)
(* of ReleaseLifecycle or none of it.                                      *)
(***************************************************************************)
EXTENDS ReleaseWorker, TLAPS

\* What IInv says of the execution of r when its copy is e.
ExecOK(r, e) ==
  /\ e \in Executions
  /\ e.pc = "put" /\ e.target = Stack /\ e.view = "current" => cr[Stack] < r
  /\ e.pc # "idle" => e.state \in Active
  /\ e.state = "InProgress" => MayWrite(r)
  /\ e.pc # "idle" /\ e.state = "Pending" => e.pc \in {"gate", "start", "markSuperseded"}
  /\ e.pc = "markReleased" => reported >= r
  /\ e.pc = "markSuperseded" => HasNewer(r)

\* IInv without what it says of executions.
Shared ==
  /\ state \in [Releases -> Active \cup Terminal \cup {"None"}]
  /\ rendered \in [Releases -> BOOLEAN]
  /\ content \in [Releases -> Releases \cup {0}]
  /\ deletion \in {"live", "deleting", "mirrored"}
  /\ converged \in Releases \cup {0}
  /\ requests \in SUBSET (Releases \cup {0})
  /\ deleter \in Deleters
  /\ cr \in [Objects -> Releases \cup {0}]
  /\ reported \in Releases \cup {0}
  /\ buildFailed \in [Releases -> BOOLEAN]
  /\ overdue \in [Releases -> BOOLEAN]
  /\ StatusTrails
  /\ ReleasedIsConverged
  /\ AppliedWasStarted
  /\ SupersededByNewer

\* IInv is Shared and ExecOK of every execution: in a state...
LEMMA IInvParts ==
  ASSUME IInv
  PROVE  /\ Shared
         /\ exec \in [Releases -> Executions]
         /\ \A r \in Releases : ExecOK(r, exec[r])
<1>1. exec \in [Releases -> Executions] /\ \A r \in Releases : exec[r] \in Executions
  BY DEF IInv, TypeOK
<1> QED
  BY <1>1 DEF IInv, TypeOK, Shared, PutForward, ExecStarted, MarkJustified, ExecOK, At

\* ... and in the next one.
LEMMA IInvNext ==
  ASSUME Shared',
         exec' \in [Releases -> Executions],
         \A r \in Releases : ExecOK(r, exec[r])'
  PROVE  IInv'
  BY DEF IInv, TypeOK, Shared, PutForward, ExecStarted, MarkJustified, ExecOK, At

\* An idle execution is as IInv wants it.
LEMMA IdleOK == ASSUME NEW r \in Releases PROVE ExecOK(r, Idle)
  BY DEF ExecOK, Idle, Executions, Steps, Views, Objects, Active

LEMMA LocalStep ==
  ASSUME IInv, NEW r \in Releases, NEW e, ExecOK(r, e),
         exec' = [exec EXCEPT ![r] = e],
         UNCHANGED <<rows, hub, cluster, overdue>>
  PROVE  IInv'
<1>1. Shared'
  <2>1. Shared
    BY IInvParts
  <2> QED
    BY <2>1 DEF Shared, rows, hub, cluster, StatusTrails, ReleasedIsConverged,
                AppliedWasStarted, SupersededByNewer
<1>2. ASSUME NEW q \in Releases PROVE ExecOK(q, exec[q])' <=> ExecOK(q, exec'[q])
  BY DEF ExecOK, MayWrite, HasNewer, rows, cluster
<1>3. exec' \in [Releases -> Executions] /\ \A q \in Releases : ExecOK(q, exec'[q])
  <2>1. e \in Executions
    BY DEF ExecOK
  <2> QED
    BY IInvParts, <2>1
<1> QED
  BY <1>1, <1>2, <1>3, IInvNext

\* The execution of r ends.
LEMMA ReturnStep ==
  ASSUME IInv, NEW r \in Releases, Return(r), UNCHANGED <<rows, hub, cluster, overdue>>
  PROVE  IInv'
  BY LocalStep, IdleOK DEF Return

LEMMA ResourcesOfType ==
  ASSUME Shared, NEW r \in Releases
  PROVE  ResourcesOf(r) \in SUBSET Resources
  BY SnapshotAssumption DEF ResourcesOf, Shared

-----------------------------------------------------------------------------
(***************************************************************************)
(* The steps of the worker that only change the local copy.                *)
(***************************************************************************)
\* Going to pc keeps the rest of the copy.
LEMMA GotoStep ==
  ASSUME IInv, NEW r \in Releases, NEW pc, Goto(r, pc),
         ExecOK(r, [exec[r] EXCEPT !.pc = pc]),
         UNCHANGED <<rows, hub, cluster, overdue>>
  PROVE  IInv'
<1>1. exec' = [exec EXCEPT ![r] = [exec[r] EXCEPT !.pc = pc]]
  BY DEF Goto
<1> QED
  BY <1>1, LocalStep

LEMMA LoadStep == ASSUME IInv, NEW r \in Releases, Load(r) PROVE IInv'
<1> DEFINE e == [exec[r] EXCEPT !.pc = "gate", !.state = state[r], !.rendered = rendered[r]]
<1>1. ExecOK(r, exec[r]) /\ Shared
  BY IInvParts
<1>2. ExecOK(r, e)
  BY <1>1 DEF ExecOK, Executions, Steps, Load, MayWrite, Active, Shared
<1>3. exec' = [exec EXCEPT ![r] = e]
  BY DEF Load
<1> QED
  BY <1>2, <1>3, LocalStep DEF Load

LEMMA GateStep == ASSUME IInv, NEW r \in Releases, Gate(r) PROVE IInv'
<1>1. ExecOK(r, exec[r])
  BY IInvParts
<1>2. CASE \E q \in ActiveReleases : q > r
  <2>1. HasNewer(r)
    BY <1>2 DEF ActiveReleases, HasNewer, Active
  <2>2. ExecOK(r, [exec[r] EXCEPT !.pc = "markSuperseded"])
    BY <1>1, <2>1 DEF ExecOK, Executions, Steps, Gate, At
  <2> QED
    BY <1>2, <2>2, GotoStep DEF Gate
<1>3. CASE ~(\E q \in ActiveReleases : q > r) /\ exec[r].state = "Pending"
  <2>1. ExecOK(r, [exec[r] EXCEPT !.pc = "start"])
    BY <1>1, <1>3 DEF ExecOK, Executions, Steps, Gate, At
  <2> QED
    BY <1>3, <2>1, GotoStep DEF Gate
<1>4. CASE ~(\E q \in ActiveReleases : q > r) /\ exec[r].state # "Pending"
  <2>1. ExecOK(r, [exec[r] EXCEPT !.pc = "deadline"])
    BY <1>1, <1>4 DEF ExecOK, Executions, Steps, Gate, At
  <2> QED
    BY <1>4, <2>1, GotoStep DEF Gate
<1> QED
  BY <1>2, <1>3, <1>4

\* From a step past the gatekeeper any other such step may follow, except the
\* three that IInv asks a reason for.
LEMMA PastGateStep ==
  ASSUME IInv, NEW r \in Releases, NEW pc \in Steps, Goto(r, pc),
         exec[r].pc \notin {"idle", "gate", "start", "markSuperseded"},
         pc \notin {"idle", "put", "markSuperseded", "markReleased"},
         UNCHANGED <<rows, hub, cluster, overdue>>
  PROVE  IInv'
<1>1. ExecOK(r, exec[r])
  BY IInvParts
<1>2. ExecOK(r, [exec[r] EXCEPT !.pc = pc])
  BY <1>1 DEF ExecOK, Executions, Steps
<1> QED
  BY <1>2, GotoStep

LEMMA DeadlineStep == ASSUME IInv, NEW r \in Releases, Deadline(r) PROVE IInv'
<1>1. PICK pc \in {"markFailed", "apply", "validate"} : Goto(r, pc)
  BY DEF Deadline
<1> QED
  BY <1>1, PastGateStep DEF Deadline, At, Steps

LEMMA ValidateStep == ASSUME IInv, NEW r \in Releases, Validate(r) PROVE IInv'
  BY PastGateStep DEF Validate, At, Steps

LEMMA RenderFailsStep == ASSUME IInv, NEW r \in Releases, RenderFails(r) PROVE IInv'
  BY PastGateStep DEF RenderFails, At, Steps

LEMMA ApplyStep == ASSUME IInv, NEW r \in Releases, Apply(r) PROVE IInv'
  BY PastGateStep DEF Apply, At, Steps

\* The Get of the Stack object: an object that carries a newer release proves
\* there is one, and one that may be updated carries an older release.
LEMMA GetStackStep == ASSUME IInv, NEW r \in Releases, GetStack(r) PROVE IInv'
<1>1. ExecOK(r, exec[r]) /\ Shared /\ At(r, "get")
  BY IInvParts DEF GetStack
<1>2. UNCHANGED <<rows, hub, cluster, overdue>>
  BY DEF GetStack
<1>3. ASSUME cr[Stack] = 0,
             exec' = [exec EXCEPT ![r].pc = "put", ![r].view = "absent"]
      PROVE  IInv'
  <2> DEFINE e == [exec[r] EXCEPT !.pc = "put", !.view = "absent"]
  <2>1. ExecOK(r, e)
    BY <1>1 DEF ExecOK, Executions, Steps, Views, At
  <2> QED
    BY <1>2, <1>3, <2>1, LocalStep
<1>4. ASSUME cr[Stack] > r, Goto(r, "markSuperseded")
      PROVE  IInv'
  <2>1. cr[Stack] \in Releases
    BY <1>1, <1>4, MaxReleasesAssumption DEF Shared, Objects, Releases
  <2>2. HasNewer(r)
    BY <1>1, <1>4, <2>1 DEF Shared, AppliedWasStarted, HasNewer, Objects, Releases
  <2>3. ExecOK(r, [exec[r] EXCEPT !.pc = "markSuperseded"])
    BY <1>1, <2>2 DEF ExecOK, Executions, Steps, At
  <2> QED
    BY <1>2, <1>4, <2>3, GotoStep
<1>5. ASSUME cr[Stack] = r,
             exec' = [exec EXCEPT ![r].pc = "resources", ![r].todo = ResourcesOf(r)]
      PROVE  IInv'
  <2> DEFINE e == [exec[r] EXCEPT !.pc = "resources", !.todo = ResourcesOf(r)]
  <2>1. ExecOK(r, e)
    BY <1>1, ResourcesOfType DEF ExecOK, Executions, Steps, At
  <2> QED
    BY <1>2, <1>5, <2>1, LocalStep
<1>6. ASSUME cr[Stack] \in 1 .. r - 1,
             exec' = [exec EXCEPT ![r].pc = "put", ![r].view = "current"]
      PROVE  IInv'
  <2> DEFINE e == [exec[r] EXCEPT !.pc = "put", !.view = "current"]
  <2>1. cr[Stack] < r
    BY <1>6, MaxReleasesAssumption DEF Releases
  <2>2. ExecOK(r, e)
    BY <1>1, <2>1 DEF ExecOK, Executions, Steps, Views, At
  <2> QED
    BY <1>2, <1>6, <2>2, LocalStep
<1> QED
  BY <1>3, <1>4, <1>5, <1>6 DEF GetStack

LEMMA GetResourceStep ==
  ASSUME IInv, NEW r \in Releases, NEW x \in Resources, GetResource(r, x)
  PROVE  IInv'
<1>1. ExecOK(r, exec[r]) /\ At(r, "resources") /\ x # Stack
  BY IInvParts, StackAssumption DEF GetResource
<1>2. CASE cr[x] = r
  <2> DEFINE e == [exec[r] EXCEPT !.todo = @ \ {x}]
  <2>1. ExecOK(r, e)
    BY <1>1 DEF ExecOK, Executions
  <2> QED
    BY <1>2, <2>1, LocalStep DEF GetResource
<1>3. CASE cr[x] # r
  <2> DEFINE view == IF cr[x] = 0 THEN "absent" ELSE "current"
             e == [exec[r] EXCEPT !.pc = "put", !.target = x, !.view = view]
  <2>1. view \in Views /\ x \in Objects
    BY DEF Views, Objects
  <2> HIDE DEF view
  <2>2. ExecOK(r, e)
    BY <1>1, <2>1 DEF ExecOK, Executions, Steps, At
  <2>3. exec' = [exec EXCEPT ![r] = e]
    BY <1>3 DEF GetResource, view
  <2> QED
    BY <2>2, <2>3, LocalStep DEF GetResource
<1> QED
  BY <1>2, <1>3

LEMMA ListOrphansStep == ASSUME IInv, NEW r \in Releases, ListOrphans(r) PROVE IInv'
<1> DEFINE orphans == {x \in Resources \ ResourcesOf(r) : cr[x] # 0}
           e == [exec[r] EXCEPT !.pc = "prune", !.todo = orphans]
<1>1. ExecOK(r, exec[r]) /\ At(r, "resources") /\ orphans \in SUBSET Resources
  BY IInvParts DEF ListOrphans
<1>2. exec' = [exec EXCEPT ![r] = e]
  BY DEF ListOrphans
<1> HIDE DEF orphans
<1>3. ExecOK(r, e)
  BY <1>1 DEF ExecOK, Executions, Steps, At
<1> QED
  BY <1>2, <1>3, LocalStep DEF ListOrphans

LEMMA PruneEndsStep == ASSUME IInv, NEW r \in Releases, PruneEnds(r) PROVE IInv'
<1> DEFINE e == [exec[r] EXCEPT !.pc = "converge", !.todo = {}]
<1>1. ExecOK(r, e)
  BY IInvParts DEF ExecOK, Executions, Steps, At, PruneEnds
<1> QED
  BY <1>1, LocalStep DEF PruneEnds

LEMMA PutConflictStep == ASSUME IInv, NEW r \in Releases, PutConflict(r) PROVE IInv'
  BY ReturnStep DEF PutConflict

LEMMA ApplyFailsStep == ASSUME IInv, NEW r \in Releases, ApplyFails(r) PROVE IInv'
  BY PastGateStep DEF ApplyFails, Steps

\* What the stack row has heard of the Stack object is not ahead of the object.
LEMMA ConvergeStep == ASSUME IInv, NEW r \in Releases, Converge(r) PROVE IInv'
<1>1. ExecOK(r, exec[r]) /\ Shared /\ At(r, "converge")
  BY IInvParts DEF Converge
<1>2. ASSUME HasConverged(r), Goto(r, "markReleased") PROVE IInv'
  <2>1. cr[Stack] \in Nat /\ reported \in Nat /\ converged \in Nat
    BY <1>1, MaxReleasesAssumption DEF Shared, Objects, Releases
  <2>2. reported >= r
    BY <1>1, <1>2, <2>1 DEF HasConverged, Shared, StatusTrails
  <2>3. ExecOK(r, [exec[r] EXCEPT !.pc = "markReleased"])
    BY <1>1, <2>2 DEF ExecOK, Executions, Steps, At
  <2> QED
    BY <1>2, <2>3, GotoStep DEF Converge
<1>3. ASSUME Goto(r, "markFailed") PROVE IInv'
  BY <1>1, <1>3, PastGateStep DEF Converge, At, Steps
<1>4. ASSUME Return(r) PROVE IInv'
  BY <1>4, ReturnStep DEF Converge
<1> QED
  BY <1>2, <1>3, <1>4 DEF Converge

LEMMA AbortStep == ASSUME IInv, NEW r \in Releases, Abort(r) PROVE IInv'
  BY ReturnStep DEF Abort

-----------------------------------------------------------------------------
(***************************************************************************)
(* The steps that write a row.  A row never goes back to what it was       *)
(* before it was started, nor before it existed.                           *)
(***************************************************************************)
RowsGoOn == \A q \in Releases : /\ Started(q) => Started(q)'
                                /\ state[q] # "None" => state'[q] # "None"

\* No release that may be writing is ended, but possibly those in R.
WritersGoOn(R) == \A q \in Releases \ R : MayWrite(q) => MayWrite(q)'

\* An execution left alone by a step on the rows is still as IInv wants it.
LEMMA RowsStep ==
  ASSUME IInv, Shared', RowsGoOn, WritersGoOn({}), UNCHANGED <<cr, exec>>,
         reported' >= reported
  PROVE  IInv'
<1>1. reported \in Nat /\ reported' \in Nat /\ Releases \in SUBSET Nat
  BY IInvParts, MaxReleasesAssumption DEF Shared, Releases
<1>2. ASSUME NEW q \in Releases, reported >= q PROVE reported' >= q
  BY <1>1, <1>2
<1>3. ASSUME NEW q \in Releases PROVE ExecOK(q, exec[q])'
  BY <1>2, IInvParts DEF RowsGoOn, WritersGoOn, ExecOK, HasNewer
<1> QED
  BY <1>3, IInvParts, IInvNext

\* The same when the cluster is left alone.
LEMMA QuietRowsStep ==
  ASSUME IInv, Shared', RowsGoOn, WritersGoOn({}), UNCHANGED <<cluster, exec>>
  PROVE  IInv'
<1>1. reported \in Nat /\ reported' = reported /\ cr' = cr /\ exec' = exec
  BY IInvParts, MaxReleasesAssumption DEF Shared, Releases, cluster
<1>2. reported' >= reported
  BY <1>1
<1> QED
  BY <1>1, <1>2, RowsStep

\* The same of a step of the execution of r that ends with a new copy.
LEMMA RowsExecStep ==
  ASSUME IInv, Shared', RowsGoOn, NEW r \in Releases, WritersGoOn({r}), UNCHANGED <<cr, reported>>,
         NEW e, exec' = [exec EXCEPT ![r] = e], ExecOK(r, e)'
  PROVE  IInv'
<1>1. exec' \in [Releases -> Executions]
  BY IInvParts DEF ExecOK
<1>2. ExecOK(r, exec[r])'
  BY IInvParts DEF ExecOK
<1>3. ASSUME NEW q \in Releases \ {r} PROVE ExecOK(q, exec[q])'
  BY IInvParts DEF RowsGoOn, WritersGoOn, ExecOK, HasNewer
<1> QED
  BY <1>1, <1>2, <1>3, IInvNext

\* One row moves on: a Released one needs its object, a Superseded one its newer
\* sibling, and no row is moved back.
LEMMA StateStep ==
  ASSUME Shared, NEW r \in Releases, NEW s \in Active \cup Terminal,
         state' = [state EXCEPT ![r] = s],
         Started(r) => s \notin {"Pending", "Cancelled"},
         s = "Released" => reported >= r,
         s = "Superseded" => HasNewer(r),
         deleter' \in Deleters, deleter'.converged = deleter.converged,
         UNCHANGED <<rendered, content, deletion, converged, requests, cluster, overdue>>
  PROVE  Shared' /\ RowsGoOn /\ WritersGoOn({r})
<1>1. state' \in [Releases -> Active \cup Terminal \cup {"None"}]
  BY DEF Shared
<1>2. RowsGoOn /\ WritersGoOn({r})
  BY DEF RowsGoOn, WritersGoOn, Shared, Started, MayWrite, Active, Terminal
<1>3. ReleasedIsConverged'
  BY DEF Shared, ReleasedIsConverged, cluster
<1>4. AppliedWasStarted'
  <2>1. ASSUME NEW o \in Objects, cr[o] # 0
        PROVE  state'[cr[o]] \notin {"None", "Pending", "Cancelled"}
    <3>1. cr[o] \in Releases /\ Started(cr[o])
      BY <2>1 DEF Shared, AppliedWasStarted, Started
    <3> QED
      BY <1>2, <3>1 DEF RowsGoOn, Started
  <2> QED
    BY <2>1 DEF AppliedWasStarted, cluster
<1>5. SupersededByNewer'
  BY <1>2 DEF Shared, SupersededByNewer, RowsGoOn, HasNewer
<1> QED
  BY <1>1, <1>2, <1>3, <1>4, <1>5 DEF Shared, StatusTrails, cluster

LEMMA StartStep == ASSUME IInv, NEW r \in Releases, Start(r) PROVE IInv'
<1>1. Shared /\ ExecOK(r, exec[r]) /\ At(r, "start")
  BY IInvParts DEF Start
<1>2. CASE state[r] = "Pending"
  <2>0. PICK e : e = [exec[r] EXCEPT !.pc = "deadline", !.state = "InProgress"]
    OBVIOUS
  <2>1. state' = [state EXCEPT ![r] = "InProgress"] /\ exec' = [exec EXCEPT ![r] = e]
    BY <1>2, <2>0 DEF Start
  <2>2. Shared' /\ RowsGoOn /\ WritersGoOn({r})
    BY <1>1, <2>1, StateStep DEF Start, Active, Shared, hub
  <2>3. MayWrite(r)'
    BY <1>1, <2>1 DEF MayWrite, Shared
  <2>4. ExecOK(r, e)'
    BY <1>1, <2>0, <2>3 DEF ExecOK, Executions, Steps, Active, At
  <2> QED
    BY <2>1, <2>2, <2>4, RowsExecStep DEF Start, cluster
<1>3. CASE state[r] # "Pending"
  BY <1>3, ReturnStep DEF Start, rows
<1> QED
  BY <1>2, <1>3

LEMMA MarkTerminalStep == ASSUME IInv, NEW r \in Releases, MarkTerminal(r) PROVE IInv'
<1> DEFINE pc == exec[r].pc
<1>1. Shared /\ ExecOK(r, exec[r]) /\ pc \in {"markSuperseded", "markFailed", "markReleased"}
  BY IInvParts DEF MarkTerminal, Mark
<1>2. Return(r) /\ UNCHANGED <<rendered, content, hub, cluster, overdue>>
  BY DEF MarkTerminal
<1>3. ASSUME NEW s \in {"Superseded", "Failed", "Released"},
             s = "Released" => reported >= r,
             s = "Superseded" => HasNewer(r),
             state' = [state EXCEPT ![r] = s]
      PROVE  IInv'
  <2>1. Shared' /\ RowsGoOn /\ WritersGoOn({r})
    BY <1>1, <1>2, <1>3, StateStep DEF Terminal, Shared, hub
  <2>2. ExecOK(r, Idle)'
    BY IdleOK DEF ExecOK, Idle, Executions, Steps, Views, Objects
  <2> QED
    BY <1>2, <2>1, <2>2, RowsExecStep DEF Return, cluster
<1>4. CASE UNCHANGED state
  BY <1>2, <1>4, ReturnStep DEF rows
<1>5. state' \in {state, [state EXCEPT ![r] = Mark[pc].to]}
  BY DEF MarkTerminal
<1>6. CASE pc = "markSuperseded"
  <2>1. Mark[pc].to = "Superseded"
    BY <1>6 DEF Mark
  <2>2. HasNewer(r)
    BY <1>1, <1>6 DEF ExecOK
  <2> QED
    BY <1>3, <1>4, <1>5, <2>1, <2>2
<1>7. CASE pc = "markFailed"
  <2>1. Mark[pc].to = "Failed"
    BY <1>7 DEF Mark
  <2> QED
    BY <1>3, <1>4, <1>5, <2>1
<1>8. CASE pc = "markReleased"
  <2>1. Mark[pc].to = "Released"
    BY <1>8 DEF Mark
  <2>2. reported >= r
    BY <1>1, <1>8 DEF ExecOK
  <2> QED
    BY <1>3, <1>4, <1>5, <2>1, <2>2
<1> QED
  BY <1>1, <1>6, <1>7, <1>8

LEMMA RenderStep == ASSUME IInv, NEW r \in Releases, Render(r) PROVE IInv'
<1>1. Shared
  BY IInvParts
<1>2. rendered' \in [Releases -> BOOLEAN]
  BY <1>1 DEF Render, Shared
<1>3. Shared' /\ RowsGoOn /\ WritersGoOn({r})
  BY <1>1, <1>2 DEF Render, Shared, RowsGoOn, WritersGoOn, Started, MayWrite, StatusTrails,
                    ReleasedIsConverged, AppliedWasStarted, SupersededByNewer, hub, cluster
<1>4. ExecOK(r, Idle)'
  BY IdleOK DEF ExecOK, Idle, Executions, Steps, Views, Objects
<1> QED
  BY <1>3, <1>4, RowsExecStep DEF Render, Return, cluster

LEMMA CreateReleaseStep ==
  ASSUME IInv, NEW r \in Releases, NEW src \in Releases \cup {0}, CreateRelease(r, src)
  PROVE  IInv'
<1>1. Shared /\ state[r] = "None"
  BY IInvParts, MaxReleasesAssumption DEF CreateRelease, NextSequence, Releases
<1>2. state' = [state EXCEPT ![r] = "Pending"] /\ UNCHANGED <<cr, reported, converged, deleter>>
  BY DEF CreateRelease, cluster
<1>3. RowsGoOn /\ WritersGoOn({})
  BY <1>1, <1>2 DEF RowsGoOn, WritersGoOn, Started, MayWrite, Shared
<1>4. StatusTrails' /\ ReleasedIsConverged' /\ SupersededByNewer'
  <2>1. StatusTrails'
    BY <1>1, <1>2 DEF Shared, StatusTrails
  <2>2. ReleasedIsConverged'
    BY <1>1, <1>2 DEF Shared, ReleasedIsConverged
  <2>3. SupersededByNewer'
    BY <1>1, <1>2, <1>3 DEF Shared, SupersededByNewer, RowsGoOn
  <2> QED
    BY <2>1, <2>2, <2>3
<1>5. AppliedWasStarted'
  BY <1>1, <1>2 DEF Shared, AppliedWasStarted
<1>6. content' \in [Releases -> Releases \cup {0}] /\ rendered' \in [Releases -> BOOLEAN]
  <2>1. content' \in [Releases -> Releases \cup {0}]
    BY <1>1 DEF CreateRelease, Shared
  <2>2. PICK b \in BOOLEAN : b = (src # 0 /\ rendered[src])
    OBVIOUS
  <2>3. rendered' = [rendered EXCEPT ![r] = b]
    BY <2>2 DEF CreateRelease
  <2> QED
    BY <1>1, <2>1, <2>3 DEF Shared
<1>7. Shared'
  BY <1>1, <1>2, <1>4, <1>5, <1>6 DEF Shared, CreateRelease, Active, cluster
<1> QED
  BY <1>2, <1>3, <1>7, QuietRowsStep DEF CreateRelease

\* The steps of the handlers that leave the rows of stack_releases alone.
LEMMA HandlerStep ==
  ASSUME IInv, UNCHANGED <<rows, cluster, overdue, exec>>,
         deletion' \in {"live", "deleting", "mirrored"},
         converged' \in Releases \cup {0}, converged' <= reported,
         requests' \in SUBSET (Releases \cup {0}),
         deleter' \in Deleters, deleter'.converged <= reported
  PROVE  IInv'
<1>1. Shared /\ Shared' /\ RowsGoOn /\ WritersGoOn({})
  BY IInvParts DEF Shared, RowsGoOn, WritersGoOn, Started, MayWrite, StatusTrails, ReleasedIsConverged,
                   AppliedWasStarted, SupersededByNewer, rows, cluster
<1> QED
  BY <1>1, QuietRowsStep

LEMMA TakeRequestStep ==
  ASSUME IInv, NEW src \in Releases \cup {0}, TakeRequest(src)
  PROVE  IInv'
  BY HandlerStep, IInvParts DEF TakeRequest, Shared, StatusTrails

LEMMA CancelReleaseStep == ASSUME IInv, NEW r \in Releases, CancelRelease(r) PROVE IInv'
<1>1. Shared /\ state[r] = "Pending"
  BY IInvParts DEF CancelRelease
<1>2. Shared' /\ RowsGoOn /\ WritersGoOn({r})
  BY <1>1, StateStep DEF CancelRelease, Terminal, Started, Shared, hub
<1>3. WritersGoOn({})
  BY <1>1, <1>2 DEF WritersGoOn, MayWrite
<1> QED
  BY <1>2, <1>3, QuietRowsStep DEF CancelRelease

LEMMA DeleteStackFailActiveStep == ASSUME IInv, DeleteStackFailActive PROVE IInv'
<1>1. Shared /\ deleter' \in Deleters /\ deleter'.converged = deleter.converged
  BY IInvParts DEF DeleteStackFailActive, Shared, Deleters
<1>2. CASE UNCHANGED state
  BY <1>1, <1>2, HandlerStep DEF DeleteStackFailActive, Shared, StatusTrails, rows
<1>3. ASSUME state[deleter.active] = "InProgress", deleter.active \in Releases,
             state' = [state EXCEPT ![deleter.active] = "Failed"]
      PROVE  IInv'
  <2>1. Shared' /\ RowsGoOn /\ WritersGoOn({deleter.active})
    BY <1>1, <1>3, StateStep DEF DeleteStackFailActive, Terminal
  <2>2. WritersGoOn({})
    BY <1>1, <1>3, <2>1 DEF WritersGoOn, MayWrite, Shared
  <2> QED
    BY <2>1, <2>2, QuietRowsStep DEF DeleteStackFailActive
<1>4. CASE deleter.active = 0 /\ state' = [state EXCEPT ![deleter.active] = "Failed"]
  <2>1. state = [r \in Releases |-> state[r]] /\ 0 \notin Releases
    BY <1>1 DEF Shared, Releases
  <2>2. state' = [r \in Releases |-> IF r = 0 THEN "Failed" ELSE state[r]]
    BY <1>4, <2>1
  <2>3. \A r \in Releases : (IF r = 0 THEN "Failed" ELSE state[r]) = state[r]
    BY <2>1
  <2> QED
    BY <1>2, <2>1, <2>2, <2>3
<1> QED
  BY <1>1, <1>2, <1>3, <1>4 DEF DeleteStackFailActive, Deleters, Shared

\* The other steps of InternalDeleteStack: what is written back to the row had
\* been read there.
LEMMA DeleterStep ==
  ASSUME IInv,
         DeleteStackRead \/ DeleteStackFindActive \/ DeleteStackStamp \/ AbortDelete
  PROVE  IInv'
<1>1. Shared /\ reported \in Nat /\ NoDeleter \in Deleters
  BY IInvParts, MaxReleasesAssumption DEF Shared, Releases, Deleters, NoDeleter
<1>2. deleter.converged \in Releases \cup {0} /\ deleter.converged <= reported
      /\ converged \in Releases \cup {0} /\ converged <= reported
  BY <1>1 DEF Shared, StatusTrails, Deleters
<1>3. CASE DeleteStackRead
  <2>1. deleter' \in Deleters /\ deleter'.converged <= reported
    BY <1>2, <1>3 DEF DeleteStackRead, Deleters
  <2> QED
    BY <1>1, <1>2, <1>3, <2>1, HandlerStep DEF DeleteStackRead, Shared
<1>4. CASE DeleteStackFindActive
  <2>1. deleter' \in Deleters /\ deleter'.converged <= reported
    BY <1>1, <1>2, <1>4 DEF DeleteStackFindActive, Deleters, Shared
  <2> QED
    BY <1>1, <1>2, <1>4, <2>1, HandlerStep DEF DeleteStackFindActive, Shared
<1>5. CASE DeleteStackStamp \/ AbortDelete
  <2>1. deleter' \in Deleters /\ deleter'.converged <= reported
    BY <1>1, <1>5 DEF DeleteStackStamp, AbortDelete, NoDeleter
  <2> QED
    BY <1>1, <1>2, <1>5, <2>1, HandlerStep DEF DeleteStackStamp, AbortDelete, Shared
<1> QED
  BY <1>3, <1>4, <1>5

LEMMA HandlersStep == ASSUME IInv, Handlers PROVE IInv'
<1>1. CASE RequestDeploy
  BY <1>1, TakeRequestStep DEF RequestDeploy
<1>2. CASE \E src \in Releases : RequestRollback(src)
  BY <1>2, TakeRequestStep DEF RequestRollback
<1>3. CASE \E r \in Releases, src \in Releases \cup {0} : CreateRelease(r, src)
  BY <1>3, CreateReleaseStep
<1>4. CASE AbortRequest
  BY <1>4, HandlerStep, IInvParts DEF AbortRequest, Shared, StatusTrails
<1>5. CASE \E r \in Releases : CancelRelease(r)
  BY <1>5, CancelReleaseStep
<1>6. CASE DeleteStackFailActive
  BY <1>6, DeleteStackFailActiveStep
<1>7. CASE DeleteStackRead \/ DeleteStackFindActive \/ DeleteStackStamp \/ AbortDelete
  BY <1>7, DeleterStep
<1> QED
  BY <1>1, <1>2, <1>3, <1>4, <1>5, <1>6, <1>7 DEF Handlers

-----------------------------------------------------------------------------
(***************************************************************************)
(* The steps that write an object of the cluster.  An Update that can      *)
(* still succeed moves the Stack object forward, because a write by any    *)
(* other execution since its Get would have made its view stale.           *)
(***************************************************************************)
\* What such a step of r has to keep, next being the copy it leaves r with.
LEMMA WriteStep ==
  ASSUME IInv, NEW r \in Releases, NEW o \in Objects, NEW v \in {0, r}, NEW next,
         cr' = [cr EXCEPT ![o] = v],
         cr'[Stack] >= cr[Stack],
         v # 0 => Started(r),
         o = Stack => v = r,
         exec' = AfterWrite(r, o, next),
         ExecOK(r, exec[r]),
         next \in Executions,
         next.pc \notin {"put", "idle", "markReleased", "markSuperseded"},
         next.state = exec[r].state,
         exec[r].pc \in {"put", "prune"},
         UNCHANGED <<rows, hub, reported, buildFailed, overdue>>
  PROVE  IInv'
<1>1. Shared /\ cr \in [Objects -> Releases \cup {0}] /\ Stack \in Objects
  BY IInvParts DEF Shared, Objects
<1>2. cr' \in [Objects -> Releases \cup {0}]
  BY <1>1
<1>3. cr[Stack] \in Nat /\ cr'[Stack] \in Nat /\ reported \in Nat /\ converged \in Nat
  BY <1>1, <1>2, MaxReleasesAssumption DEF Shared, Releases
<1>4. Shared'
  <2>1. StatusTrails'
    BY <1>1, <1>3 DEF Shared, StatusTrails, hub
  <2>2. ReleasedIsConverged'
    BY <1>1, <1>3, MaxReleasesAssumption DEF Shared, ReleasedIsConverged, rows, Releases
  <2>3. AppliedWasStarted'
    BY <1>1 DEF Shared, AppliedWasStarted, Started, rows
  <2>4. SupersededByNewer'
    BY <1>1 DEF Shared, SupersededByNewer, rows
  <2> QED
    BY <1>1, <1>2, <2>1, <2>2, <2>3, <2>4 DEF Shared, rows, hub
<1>5. \A q \in Releases : ExecOK(q, exec[q]) /\ exec[q] \in Executions
  BY IInvParts DEF ExecOK
<1>6. exec'[r] = next
  BY DEF AfterWrite
<1>7. ExecOK(r, exec[r])'
  BY <1>6 DEF ExecOK, MayWrite, rows
<1>8. ASSUME NEW q \in Releases \ {r} PROVE ExecOK(q, exec[q])'
  <2>1. CASE exec[q].target = o /\ exec[q].view = "current"
    <3>1. exec'[q] = [exec[q] EXCEPT !.view = "stale"]
      BY <2>1 DEF AfterWrite
    <3>2. exec'[q] \in Executions /\ exec'[q].view = "stale"
          /\ exec'[q].pc = exec[q].pc /\ exec'[q].state = exec[q].state
      BY <1>5, <3>1 DEF Executions, Views
    <3> QED
      BY <1>3, <1>5, <3>2, MaxReleasesAssumption
      DEF ExecOK, MayWrite, HasNewer, rows, Releases
  <2>2. CASE ~(exec[q].target = o /\ exec[q].view = "current")
    <3>1. exec'[q] = exec[q]
      BY <2>2 DEF AfterWrite
    <3>2. exec[q].target = Stack /\ exec[q].view = "current" => cr'[Stack] = cr[Stack]
      BY <1>1, <2>2
    <3> QED
      BY <1>3, <1>5, <3>1, <3>2, MaxReleasesAssumption
      DEF ExecOK, MayWrite, HasNewer, rows, Releases
  <2> QED
    BY <2>1, <2>2
<1>9. exec' \in [Releases -> Executions]
  <2>1. exec' = [q \in Releases |-> exec'[q]]
    BY DEF AfterWrite
  <2> QED
    BY <2>1, <1>7, <1>8 DEF ExecOK
<1> QED
  BY <1>4, <1>7, <1>8, <1>9, IInvNext

\* Whatever object it writes, a put leaves the Stack object no older than it was.
LEMMA PutMovesForward == ASSUME IInv, NEW r \in Releases, PutOK(r) PROVE cr'[Stack] >= cr[Stack]
<1>1. Shared /\ ExecOK(r, exec[r]) /\ exec[r].pc = "put"
  BY IInvParts DEF PutOK, At
<1>2. cr \in [Objects -> Releases \cup {0}] /\ cr[Stack] \in Nat /\ r \in Nat
  BY <1>1, MaxReleasesAssumption DEF Shared, Objects, Releases
<1>3. cr' = [cr EXCEPT ![exec[r].target] = r]
  BY DEF PutOK
<1>4. CASE exec[r].target # Stack
  BY <1>2, <1>3, <1>4
<1>5. CASE exec[r].target = Stack /\ exec[r].view = "current"
  <2>1. cr[Stack] < r
    BY <1>1, <1>5 DEF ExecOK
  <2> QED
    BY <1>2, <1>3, <1>5, <2>1
<1>6. CASE exec[r].target = Stack /\ cr[Stack] = 0
  BY <1>2, <1>3, <1>6
<1> QED
  BY <1>4, <1>5, <1>6 DEF PutOK

LEMMA PutOKStep == ASSUME IInv, NEW r \in Releases, PutOK(r) PROVE IInv'
<1>1. Shared /\ ExecOK(r, exec[r]) /\ exec[r].pc = "put"
  BY IInvParts DEF PutOK, At
<1>2. PICK o \in Objects : o = exec[r].target
  BY <1>1 DEF ExecOK, Executions
<1>3. PICK next : next = Written(r)
  OBVIOUS
<1>4. cr' = [cr EXCEPT ![o] = r] /\ exec' = AfterWrite(r, o, next)
  BY <1>2, <1>3 DEF PutOK
<1>5. cr'[Stack] >= cr[Stack]
  BY PutMovesForward
<1>6. Started(r)
  BY <1>1 DEF ExecOK, Active, MayWrite, Started
<1>7. next \in Executions /\ next.pc = "resources" /\ next.state = exec[r].state
  <2>1. ResourcesOf(r) \in SUBSET Resources
    BY <1>1, ResourcesOfType
  <2> QED
    BY <1>1, <1>3, <2>1 DEF Written, ExecOK, Executions, Steps, Views, Objects
<1> QED
  BY <1>1, <1>4, <1>5, <1>6, <1>7, WriteStep DEF PutOK

LEMMA PruneStep ==
  ASSUME IInv, NEW r \in Releases, NEW x \in Resources, Prune(r, x)
  PROVE  IInv'
<1>1. Shared /\ ExecOK(r, exec[r]) /\ exec[r].pc = "prune"
  BY IInvParts DEF Prune, At
<1>2. PICK next : next = [exec[r] EXCEPT !.todo = @ \ {x}]
  OBVIOUS
<1>3. cr' = [cr EXCEPT ![x] = 0] /\ exec' = AfterWrite(r, x, next)
  BY <1>2 DEF Prune
<1>4. x \in Objects /\ x # Stack
  BY StackAssumption DEF Objects
<1>5. cr'[Stack] >= cr[Stack]
  BY <1>1, <1>3, <1>4, MaxReleasesAssumption DEF Shared, Objects, Releases
<1>6. next \in Executions /\ next.pc = "prune" /\ next.state = exec[r].state
  BY <1>1, <1>2 DEF ExecOK, Executions
<1> QED
  BY <1>1, <1>3, <1>4, <1>5, <1>6, WriteStep DEF Prune

-----------------------------------------------------------------------------
(***************************************************************************)
(* All steps.                                                              *)
(***************************************************************************)
LEMMA WorkerStep == ASSUME IInv, NEW r \in Releases, Worker(r) PROVE IInv'
<1>1. CASE Load(r) \/ Gate(r) \/ Start(r) \/ Deadline(r) \/ Validate(r)
  BY <1>1, LoadStep, GateStep, StartStep, DeadlineStep, ValidateStep
<1>2. CASE Render(r) \/ RenderFails(r)
  BY <1>2, RenderStep, RenderFailsStep
<1>3. CASE Apply(r) \/ GetStack(r) \/ PutOK(r) \/ PutConflict(r) \/ ApplyFails(r)
  BY <1>3, ApplyStep, GetStackStep, PutOKStep, PutConflictStep, ApplyFailsStep
<1>4. CASE \E x \in Resources : GetResource(r, x) \/ Prune(r, x)
  BY <1>4, GetResourceStep, PruneStep
<1>5. CASE ListOrphans(r) \/ PruneEnds(r) \/ Converge(r) \/ MarkTerminal(r) \/ Abort(r)
  BY <1>5, ListOrphansStep, PruneEndsStep, ConvergeStep, MarkTerminalStep, AbortStep
<1> QED
  BY <1>1, <1>2, <1>3, <1>4, <1>5 DEF Worker

\* The agent reports what the Stack object carries, the hub what was reported.
LEMMA EnvironmentStep == ASSUME IInv, Environment PROVE IInv'
<1>1. Shared /\ Stack \in Objects
  BY IInvParts DEF Objects
<1>3. cr[Stack] \in Nat /\ reported \in Nat /\ converged \in Nat /\ deleter.converged \in Nat
  BY <1>1, MaxReleasesAssumption DEF Shared, Releases, Deleters
<1>4. UNCHANGED <<rows, cr, exec>>
  BY DEF Environment, AgentReportsConverged, AgentBuildFails, MirrorStatus, TimeRunsOut,
         cluster
<1>5. StatusTrails'
  BY <1>1, <1>3 DEF Environment, AgentReportsConverged, AgentBuildFails, MirrorStatus,
                    TimeRunsOut, Shared, StatusTrails, hub, cluster
<1>6. /\ converged' \in Releases \cup {0}
      /\ reported' \in Releases \cup {0}
      /\ buildFailed' \in [Releases -> BOOLEAN]
      /\ overdue' \in [Releases -> BOOLEAN]
      /\ deletion' \in {"live", "deleting", "mirrored"}
      /\ UNCHANGED <<requests, deleter>>
  BY <1>1 DEF Environment, AgentReportsConverged, AgentBuildFails, MirrorStatus,
              TimeRunsOut, Shared, hub, cluster
<1>7. reported' >= reported
  BY <1>1, <1>3 DEF Environment, AgentReportsConverged, AgentBuildFails, MirrorStatus,
                    TimeRunsOut, Shared, StatusTrails, hub, cluster
<1>8. ReleasedIsConverged'
  <2> SUFFICES ASSUME NEW r \in Releases, state'[r] = "Released"
               PROVE  reported' >= r
    BY DEF ReleasedIsConverged
  <2>1. reported >= r /\ r \in Nat /\ reported' \in Nat
    BY <1>1, <1>4, <1>6, MaxReleasesAssumption DEF Shared, ReleasedIsConverged, rows, Releases
  <2> QED
    BY <1>3, <1>7, <2>1
<1>9. Shared' /\ RowsGoOn /\ WritersGoOn({})
  BY <1>1, <1>4, <1>5, <1>6, <1>8 DEF Shared, RowsGoOn, WritersGoOn, Started, MayWrite,
                                      AppliedWasStarted, SupersededByNewer, rows
<1> QED
  BY <1>4, <1>7, <1>9, RowsStep

LEMMA StutterStep == ASSUME IInv, UNCHANGED vars PROVE IInv'
<1>1. Shared' /\ RowsGoOn /\ WritersGoOn({})
  BY IInvParts DEF Shared, RowsGoOn, WritersGoOn, Started, MayWrite, StatusTrails, ReleasedIsConverged,
                   AppliedWasStarted, SupersededByNewer, vars, rows, hub, cluster
<1> QED
  BY <1>1, QuietRowsStep DEF vars

LEMMA InitHolds == Init => IInv
<1> SUFFICES ASSUME Init PROVE IInv
  OBVIOUS
<1>1. \A r \in Releases : exec[r] = Idle /\ state[r] = "None" /\ Idle \in Executions
  BY IdleOK DEF Init, ExecOK
<1>2. TypeOK
  BY <1>1 DEF Init, TypeOK, Deleters, NoDeleter
<1>3. StatusTrails /\ ReleasedIsConverged /\ AppliedWasStarted /\ SupersededByNewer
  BY <1>1 DEF Init, NoDeleter, StatusTrails, ReleasedIsConverged, AppliedWasStarted,
              SupersededByNewer, Objects
<1>4. PutForward /\ ExecStarted /\ MarkJustified
  BY <1>1 DEF PutForward, ExecStarted, MarkJustified, At, Idle
<1> QED
  BY <1>2, <1>3, <1>4 DEF IInv

LEMMA NextKeeps == IInv /\ [Next]_vars => IInv'
  BY HandlersStep, WorkerStep, EnvironmentStep, StutterStep DEF Next

\* The inductive invariant holds in every reachable state: no interleaving of
\* handlers, executions, agent and clocks breaks any of its parts.
THEOREM Invariance == Spec => []IInv
<1>1. Init => IInv
  BY InitHolds
<1>2. IInv /\ [Next]_vars => IInv'
  BY NextKeeps
<1> QED
  BY <1>1, <1>2, PTL DEF Spec

\* Every variable keeps its type: in particular an execution's list of things
\* left to do only ever names resources of the stack.
THEOREM TypeCorrect == Spec => []TypeOK
<1>1. IInv => TypeOK
  BY DEF IInv
<1> QED
  BY <1>1, Invariance, PTL

\* A release is declared Released only once the agent has reported it or a newer
\* one converged (MarkReleased behind the test of converge.go on id and revision).
THEOREM ReleasedStaysConverged == Spec => []ReleasedIsConverged
<1>1. IInv => ReleasedIsConverged
  BY DEF IInv
<1> QED
  BY <1>1, Invariance, PTL

\* No object of the cluster ever carries a release that is still Pending or was
\* cancelled, however a cancel races with MarkInProgress.
THEOREM OnlyStartedApplied == Spec => []AppliedWasStarted
<1>1. IInv => AppliedWasStarted
  BY DEF IInv
<1> QED
  BY <1>1, Invariance, PTL

\* A release is marked Superseded only when a newer release exists, whether the
\* gatekeeper saw it in the database or apply saw it in the cluster.
THEOREM OnlyNewerSupersedes == Spec => []SupersededByNewer
<1>1. IInv => SupersededByNewer
  BY DEF IInv
<1> QED
  BY <1>1, Invariance, PTL

-----------------------------------------------------------------------------
(***************************************************************************)
(* What a step may never do.                                               *)
(***************************************************************************)
\* Only two steps write the cluster's objects.
LEMMA Writers ==
  ASSUME IInv, [Next]_vars
  PROVE  \/ UNCHANGED cr
         \/ \E r \in Releases : PutOK(r)
         \/ \E r \in Releases, x \in Resources : Prune(r, x)
<1>1. Handlers => UNCHANGED cr
  BY DEF Handlers, RequestDeploy, RequestRollback, TakeRequest, CreateRelease, AbortRequest,
         CancelRelease, DeleteStackRead, DeleteStackFindActive, DeleteStackFailActive,
         DeleteStackStamp, AbortDelete, cluster
<1>2. Environment => UNCHANGED cr
  BY DEF Environment, AgentReportsConverged, AgentBuildFails, MirrorStatus, TimeRunsOut,
         cluster
<1>3. ASSUME NEW r \in Releases, Worker(r)
      PROVE  UNCHANGED cr \/ PutOK(r) \/ \E x \in Resources : Prune(r, x)
  BY <1>3 DEF Worker, Load, Gate, Start, Deadline, Validate, Render, RenderFails,
              Apply, GetStack, PutConflict, ApplyFails, GetResource, ListOrphans, PruneEnds, Converge,
              MarkTerminal, Abort, cluster
<1> QED
  BY <1>1, <1>2, <1>3 DEF Next, vars, cluster

\* The release the Stack object carries only ever moves to a newer one.
THEOREM StackOnlyForward == Spec => StackMovesForward
<1>1. ASSUME IInv, [Next]_vars PROVE [cr'[Stack] >= cr[Stack]]_cr
  <2>1. Shared /\ Stack \in Objects /\ cr[Stack] \in Nat
    BY <1>1, IInvParts, MaxReleasesAssumption DEF Shared, Objects, Releases
  <2>2. ASSUME NEW r \in Releases, PutOK(r) PROVE cr'[Stack] >= cr[Stack]
    BY <1>1, <2>2, PutMovesForward
  <2>3. ASSUME NEW r \in Releases, NEW x \in Resources, Prune(r, x)
        PROVE  cr'[Stack] >= cr[Stack]
    BY <2>1, <2>3, StackAssumption DEF Prune, Shared
  <2> QED
    BY <1>1, <2>1, <2>2, <2>3, Writers
<1> QED
  BY <1>1, Invariance, PTL DEF Spec, StackMovesForward

\* An object is only ever written for a release that is InProgress or that was
\* failed by a request to delete its stack: once a release is Superseded,
\* Cancelled or Released, no execution of it has a write left to make.
THEOREM OnlyWritersWrite == Spec => WriterInProgress
<1> DEFINE A == \A o \in Objects : cr'[o] \notin {0, cr[o]} =>
                  state[cr'[o]] \in {"InProgress", "Failed"}
<1>1. ASSUME IInv, [Next]_vars PROVE [A]_cr
  <2>1. cr \in [Objects -> Releases \cup {0}]
    BY <1>1, IInvParts DEF Shared
  <2>2. ASSUME NEW r \in Releases, PutOK(r) PROVE A
    <3>1. MayWrite(r)
      BY <1>1, <2>2, IInvParts DEF PutOK, At, ExecOK, Active
    <3> QED
      BY <2>1, <2>2, <3>1 DEF PutOK, MayWrite
  <2>3. ASSUME NEW r \in Releases, NEW x \in Resources, Prune(r, x) PROVE A
    BY <2>1, <2>3 DEF Prune
  <2> QED
    BY <1>1, <2>2, <2>3, Writers
<1> QED
  BY <1>1, Invariance, PTL DEF Spec, WriterInProgress

-----------------------------------------------------------------------------
(***************************************************************************)
(* The lifecycle.  A release that is applied, or declared Released, was    *)
(* rendered, and the source of a rollback is Released.                     *)
(***************************************************************************)
AppliedSteps == {"apply", "get", "put", "resources", "prune", "converge", "markReleased"}

\* The execution of r takes r to be rendered.
TakenAsRendered(r) == exec[r].rendered \/ exec[r].pc \in AppliedSteps

RenderedInv ==
  /\ \A r \in Releases : state[r] = "None" => ~rendered[r]
  /\ \A r \in Releases : TakenAsRendered(r) => rendered[r]
  /\ \A src \in requests : src # 0 => state[src] = "Released"

\* Manifests and ends are for ever, and only a row that is there has a manifest.
RowsKeep ==
  \A q \in Releases : /\ rendered[q] => rendered'[q]
                      /\ state'[q] = "None" => state[q] = "None" /\ rendered'[q] = rendered[q]
                      /\ state[q] = "Released" => state'[q] = "Released"

LEMMA KeepsRendered ==
  ASSUME RenderedInv, RowsKeep, requests' \subseteq requests,
         requests \subseteq Releases \cup {0},
         \A q \in Releases : TakenAsRendered(q)' => TakenAsRendered(q) \/ rendered'[q]
  PROVE  RenderedInv'
BY DEF RenderedInv, RowsKeep

LEMMA InitRendered == Init => RenderedInv
BY DEF Init, RenderedInv, TakenAsRendered, Idle, AppliedSteps

LEMMA HandlersKeepRendered ==
  ASSUME IInv, RenderedInv, Handlers
  PROVE  RenderedInv'
<1>1. Shared /\ requests \subseteq Releases \cup {0}
  BY IInvParts DEF Shared
<1>2. exec' = exec
  BY DEF Handlers, RequestDeploy, RequestRollback, TakeRequest, CreateRelease, AbortRequest,
         CancelRelease, DeleteStackRead, DeleteStackFindActive, DeleteStackFailActive,
         DeleteStackStamp, AbortDelete
<1>3. \A q \in Releases : TakenAsRendered(q)' => TakenAsRendered(q)
  BY <1>2 DEF TakenAsRendered
<1>4. CASE RequestDeploy \/ \E src \in Releases : RequestRollback(src)
  BY <1>1, <1>3, <1>4 DEF RequestDeploy, RequestRollback, TakeRequest, RenderedInv, rows
<1>5. ASSUME NEW r \in Releases, NEW src \in Releases \cup {0}, CreateRelease(r, src)
      PROVE  RenderedInv'
  <2>1. RowsKeep
    <3>1. state[r] = "None" /\ ~rendered[r]
      BY <1>5, MaxReleasesAssumption DEF CreateRelease, NextSequence, RenderedInv, Releases
    <3>2. state'[r] = "Pending" /\ \A q \in Releases \ {r} : state'[q] = state[q]
      BY <1>1, <1>5 DEF CreateRelease, Shared
    <3>3. \A q \in Releases \ {r} : rendered'[q] = rendered[q]
      BY <1>1, <1>5 DEF CreateRelease, Shared
    <3> QED BY <3>1, <3>2, <3>3 DEF RowsKeep
  <2>2. requests' \subseteq requests
    BY <1>5 DEF CreateRelease
  <2> QED BY <1>1, <1>3, <2>1, <2>2, KeepsRendered
<1>6. CASE \/ AbortRequest \/ DeleteStackRead \/ DeleteStackFindActive
           \/ DeleteStackStamp \/ AbortDelete
  <2>1. UNCHANGED rows /\ requests' \subseteq requests
    BY <1>6 DEF AbortRequest, DeleteStackRead, DeleteStackFindActive, DeleteStackStamp,
                AbortDelete
  <2>2. RowsKeep
    BY <2>1 DEF RowsKeep, rows
  <2> QED BY <1>1, <1>3, <2>1, <2>2, KeepsRendered
<1>7. CASE (\E r \in Releases : CancelRelease(r)) \/ DeleteStackFailActive
  <2>1. RowsKeep /\ requests' = requests
    BY <1>1, <1>7 DEF CancelRelease, DeleteStackFailActive, RowsKeep, Shared, hub
  <2> QED BY <1>1, <1>3, <2>1, KeepsRendered
<1> QED BY <1>4, <1>5, <1>6, <1>7 DEF Handlers

\* A step of one execution that writes no row.
LEMMA LocalKeepsRendered ==
  ASSUME IInv, RenderedInv, NEW r \in Releases, UNCHANGED <<rows, requests>>,
         \A q \in Releases \ {r} : /\ exec'[q].pc = exec[q].pc
                                   /\ exec'[q].rendered = exec[q].rendered,
         TakenAsRendered(r)' => TakenAsRendered(r) \/ rendered[r]
  PROVE  RenderedInv'
<1>1. requests \subseteq Releases \cup {0}
  BY IInvParts DEF Shared
<1>2. RowsKeep
  BY DEF RowsKeep, rows
<1>3. \A q \in Releases : TakenAsRendered(q)' => TakenAsRendered(q) \/ rendered'[q]
  BY DEF TakenAsRendered, rows
<1> QED BY <1>1, <1>2, <1>3, KeepsRendered

LEMMA ReturnRendered ==
  ASSUME IInv, NEW r \in Releases, Return(r)
  PROVE  /\ ~TakenAsRendered(r)'
         /\ \A q \in Releases \ {r} : exec'[q] = exec[q]
BY IInvParts DEF Return, Idle, TakenAsRendered, AppliedSteps

LEMMA GotoRendered ==
  ASSUME IInv, RenderedInv, NEW r \in Releases, NEW pc, Goto(r, pc),
         UNCHANGED <<rows, requests>>, pc \in AppliedSteps => TakenAsRendered(r)
  PROVE  RenderedInv'
<1>1. exec'[r].pc = pc /\ exec'[r].rendered = exec[r].rendered
      /\ \A q \in Releases \ {r} : exec'[q] = exec[q]
  BY IInvParts DEF Goto, Executions
<1> QED BY <1>1, LocalKeepsRendered DEF TakenAsRendered

LEMMA WorkerKeepsRendered ==
  ASSUME IInv, RenderedInv, NEW r \in Releases, Worker(r)
  PROVE  RenderedInv'
<1>0. Shared /\ exec \in [Releases -> Executions]
  BY IInvParts
<1>1. CASE Load(r)
  <2>1. /\ exec'[r].pc = "gate" /\ exec'[r].rendered = rendered[r]
        /\ \A q \in Releases \ {r} : exec'[q] = exec[q]
    BY <1>0, <1>1 DEF Load, Executions
  <2> QED BY <1>1, <2>1, LocalKeepsRendered DEF Load, hub, TakenAsRendered, AppliedSteps
<1>2. CASE Gate(r) \/ Validate(r) \/ RenderFails(r) \/ ApplyFails(r)
  BY <1>2, GotoRendered DEF Gate, Validate, RenderFails, ApplyFails, hub, AppliedSteps
<1>3. CASE Deadline(r)
  BY <1>3, GotoRendered DEF Deadline, hub, AppliedSteps, TakenAsRendered
<1>4. CASE Apply(r)
  BY <1>4, GotoRendered DEF Apply, At, hub, AppliedSteps, TakenAsRendered
<1>5. CASE Converge(r) \/ Abort(r) \/ PutConflict(r)
  <2>1. CASE Return(r)
    BY <1>5, <2>1, ReturnRendered, LocalKeepsRendered DEF Converge, Abort, PutConflict, hub
  <2>2. CASE Converge(r) /\ ~Return(r)
    BY <2>2, GotoRendered DEF Converge, At, hub, AppliedSteps, TakenAsRendered
  <2> QED BY <1>5, <2>1, <2>2 DEF Abort, PutConflict
<1>6. CASE GetStack(r) \/ ListOrphans(r) \/ PruneEnds(r) \/ \E x \in Resources : GetResource(r, x)
  <2>1. exec[r].pc \in AppliedSteps /\ UNCHANGED <<rows, requests>>
    BY <1>6 DEF GetStack, GetResource, ListOrphans, PruneEnds, At, AppliedSteps, hub
  <2>2. \A q \in Releases \ {r} : exec'[q] = exec[q]
    BY <1>0, <1>6 DEF GetStack, GetResource, ListOrphans, PruneEnds, Goto
  <2> QED BY <2>1, <2>2, LocalKeepsRendered DEF TakenAsRendered
<1>7. CASE PutOK(r) \/ \E x \in Resources : Prune(r, x)
  <2>1. exec[r].pc \in AppliedSteps /\ UNCHANGED <<rows, requests>>
    BY <1>7 DEF PutOK, Prune, At, AppliedSteps, hub
  <2>2. PICK o, next : exec' = AfterWrite(r, o, next)
    BY <1>7 DEF PutOK, Prune
  <2>3. \A q \in Releases \ {r} : /\ exec'[q].pc = exec[q].pc
                                  /\ exec'[q].rendered = exec[q].rendered
    BY <1>0, <2>2 DEF AfterWrite, Executions
  <2> QED BY <2>1, <2>3, LocalKeepsRendered DEF TakenAsRendered
<1>8. CASE Start(r)
  <2>1. /\ exec'[r].pc \notin AppliedSteps
        /\ exec'[r].rendered => exec[r].rendered
        /\ \A q \in Releases \ {r} : exec'[q] = exec[q]
    BY <1>0, <1>8 DEF Start, Return, Idle, Executions, AppliedSteps
  <2>2. RowsKeep /\ requests' = requests
    BY <1>0, <1>8 DEF Start, RowsKeep, Shared, hub
  <2>3. \A q \in Releases : TakenAsRendered(q)' => TakenAsRendered(q)
    BY <2>1 DEF TakenAsRendered
  <2>4. requests \subseteq Releases \cup {0} /\ requests' \subseteq requests
    BY <1>0, <2>2 DEF Shared
  <2> QED BY <2>2, <2>3, <2>4, KeepsRendered
<1>9. CASE Render(r)
  <2>1. RowsKeep /\ requests' = requests /\ Return(r)
    BY <1>0, <1>9 DEF Render, RowsKeep, Shared, hub
  <2> QED BY <1>0, <2>1, ReturnRendered, KeepsRendered DEF TakenAsRendered, Shared
<1>10. CASE MarkTerminal(r)
  <2>1. RowsKeep /\ requests' = requests /\ Return(r)
    BY <1>0, <1>10 DEF MarkTerminal, Mark, Active, RowsKeep, Shared, hub
  <2> QED BY <1>0, <2>1, ReturnRendered, KeepsRendered DEF TakenAsRendered, Shared
<1> QED BY <1>1, <1>2, <1>3, <1>4, <1>5, <1>6, <1>7, <1>8, <1>9, <1>10 DEF Worker

LEMMA StepKeepsRendered == IInv /\ RenderedInv /\ [Next]_vars => RenderedInv'
<1> SUFFICES ASSUME IInv, RenderedInv, [Next]_vars PROVE RenderedInv'
  OBVIOUS
<1>1. CASE Environment \/ UNCHANGED vars
  <2>1. UNCHANGED <<rows, requests, exec>>
    BY <1>1 DEF Environment, AgentReportsConverged, AgentBuildFails, MirrorStatus, TimeRunsOut,
                vars, hub
  <2> QED BY <2>1 DEF RenderedInv, TakenAsRendered, rows
<1> QED BY <1>1, HandlersKeepRendered, WorkerKeepsRendered DEF Next

\* RenderedInv is an invariant of the release worker too.
THEOREM RenderedInvariance == Spec => []RenderedInv
<1>1. IInv /\ RenderedInv /\ [Next]_vars => RenderedInv'
  BY StepKeepsRendered
<1>2. Init => RenderedInv
  BY InitRendered
<1> QED BY <1>1, <1>2, Invariance, PTL DEF Spec

-----------------------------------------------------------------------------
\* A step of the lifecycle, or none.
LifecycleStep == [Lifecycle!Next]_Lifecycle!vars

LEMMA InitIsInit == Init => Lifecycle!Init
BY DEF Init, Lifecycle!Init, Releases, Lifecycle!Releases, Objects

LEMMA LifecycleStutters ==
  ASSUME UNCHANGED <<state, rendered, cr>>
  PROVE  LifecycleStep
BY DEF LifecycleStep, Lifecycle!vars

LEMMA CreateIsCreate ==
  ASSUME IInv, RenderedInv, NEW r \in Releases, NEW src \in Releases \cup {0},
         CreateRelease(r, src)
  PROVE  LifecycleStep
<1>0. Shared
  BY IInvParts
<1>1. \A q \in Lifecycle!Releases : state[q] = "None" <=> q >= r
  BY DEF CreateRelease, NextSequence, Releases, Lifecycle!Releases
<1>2. state[r] = "None" /\ ~rendered[r]
  BY DEF CreateRelease, NextSequence, Releases, RenderedInv
<1>3. state' = [state EXCEPT ![r] = "Pending"] /\ cr' = cr
  BY DEF CreateRelease, cluster
<1>4. \/ rendered' = rendered
      \/ /\ \E s \in Lifecycle!Releases : state[s] = "Released"
         /\ rendered' = [rendered EXCEPT ![r] = TRUE]
  <2>1. CASE src # 0 /\ rendered[src]
    BY <2>1 DEF CreateRelease, RenderedInv, Releases, Lifecycle!Releases
  <2>2. CASE ~(src # 0 /\ rendered[src])
    BY <1>0, <1>2, <2>2 DEF CreateRelease, Shared
  <2> QED BY <2>1, <2>2
<1>5. Lifecycle!Create(r)
  BY <1>1, <1>2, <1>3, <1>4 DEF Lifecycle!Create, Lifecycle!Move
<1> QED BY <1>5 DEF LifecycleStep, Lifecycle!Next, Releases, Lifecycle!Releases

LEMMA HandlersImplement ==
  ASSUME IInv, RenderedInv, Handlers
  PROVE  LifecycleStep
<1>1. CASE \/ RequestDeploy \/ \E src \in Releases : RequestRollback(src)
           \/ AbortRequest \/ DeleteStackRead \/ DeleteStackFindActive
           \/ DeleteStackStamp \/ AbortDelete
  <2>1. UNCHANGED <<rows, cluster>>
    BY <1>1 DEF RequestDeploy, RequestRollback, TakeRequest, AbortRequest, DeleteStackRead,
                DeleteStackFindActive, DeleteStackStamp, AbortDelete
  <2> QED BY <2>1, LifecycleStutters DEF rows, cluster
<1>2. ASSUME NEW r \in Releases, CancelRelease(r) PROVE LifecycleStep
  <2>1. Lifecycle!Cancel(r)
    BY <1>2 DEF CancelRelease, cluster, Lifecycle!Cancel, Lifecycle!Move
  <2> QED BY <2>1 DEF LifecycleStep, Lifecycle!Next, Releases, Lifecycle!Releases
<1>3. CASE DeleteStackFailActive
  <2>1. CASE UNCHANGED state
    BY <1>3, <2>1, LifecycleStutters DEF DeleteStackFailActive, cluster
  <2>2. CASE ~UNCHANGED state
    <3> DEFINE r == deleter.active
    <3>1. /\ state[r] = "InProgress" /\ state' = [state EXCEPT ![r] = "Failed"]
          /\ UNCHANGED <<rendered, cr>>
      BY <1>3, <2>2 DEF DeleteStackFailActive, cluster
    <3>2. r \in Releases
      <4>1. state \in [Releases -> Active \cup Terminal \cup {"None"}]
        BY IInvParts DEF Shared
      <4> QED BY <2>2, <3>1, <4>1
    <3>3. Lifecycle!Fail(r)
      BY <3>1 DEF Lifecycle!Fail, Lifecycle!Move
    <3> QED BY <3>2, <3>3 DEF LifecycleStep, Lifecycle!Next, Releases, Lifecycle!Releases
  <2> QED BY <2>1, <2>2
<1> QED BY <1>1, <1>2, <1>3, CreateIsCreate DEF Handlers

LEMMA MarkIsEnd ==
  ASSUME IInv, RenderedInv, NEW r \in Releases, MarkTerminal(r)
  PROVE  LifecycleStep
<1>0. /\ Shared /\ cr[Stack] \in Nat /\ reported \in Nat /\ r \in Nat
      /\ UNCHANGED <<rendered, cr>>
  BY IInvParts, MaxReleasesAssumption DEF Shared, Objects, Releases, MarkTerminal, cluster
<1>1. CASE UNCHANGED state
  BY <1>0, <1>1, LifecycleStutters
<1>2. CASE At(r, "markSuperseded") /\ ~UNCHANGED state
  <2>0. Mark[exec[r].pc].from = Active /\ Mark[exec[r].pc].to = "Superseded"
    BY <1>2 DEF Mark, At
  <2>1. state[r] \in Active /\ state' = [state EXCEPT ![r] = "Superseded"]
    BY <1>2, <2>0 DEF MarkTerminal
  <2>2. \E q \in Lifecycle!Releases : q > r /\ state[q] # "None"
    BY <1>2 DEF IInv, MarkJustified, HasNewer, Releases, Lifecycle!Releases
  <2>3. Lifecycle!Supersede(r)
    BY <1>0, <2>1, <2>2 DEF Lifecycle!Supersede, Lifecycle!Move, Lifecycle!Active, Active
  <2> QED BY <2>3 DEF LifecycleStep, Lifecycle!Next, Releases, Lifecycle!Releases
<1>3. CASE At(r, "markFailed") /\ ~UNCHANGED state
  <2>0. Mark[exec[r].pc].from = {"InProgress"} /\ Mark[exec[r].pc].to = "Failed"
    BY <1>3 DEF Mark, At
  <2>1. state[r] = "InProgress" /\ state' = [state EXCEPT ![r] = "Failed"]
    BY <1>3, <2>0 DEF MarkTerminal
  <2>2. Lifecycle!Fail(r)
    BY <1>0, <2>1 DEF Lifecycle!Fail, Lifecycle!Move
  <2> QED BY <2>2 DEF LifecycleStep, Lifecycle!Next, Releases, Lifecycle!Releases
<1>4. CASE At(r, "markReleased") /\ ~UNCHANGED state
  <2>0. Mark[exec[r].pc].from = {"InProgress"} /\ Mark[exec[r].pc].to = "Released"
    BY <1>4 DEF Mark, At
  <2>1. state[r] = "InProgress" /\ state' = [state EXCEPT ![r] = "Released"]
    BY <1>4, <2>0 DEF MarkTerminal
  <2>2. rendered[r]
    BY <1>4 DEF At, RenderedInv, TakenAsRendered, AppliedSteps
  <2>3. cr[Stack] >= r
    BY <1>0, <1>4 DEF IInv, MarkJustified, StatusTrails
  <2>4. Lifecycle!Release(r)
    BY <1>0, <2>1, <2>2, <2>3 DEF Lifecycle!Release, Lifecycle!Move
  <2> QED BY <2>4 DEF LifecycleStep, Lifecycle!Next, Releases, Lifecycle!Releases
<1>5. exec[r].pc \in {"markSuperseded", "markFailed", "markReleased"}
  BY DEF MarkTerminal, Mark
<1> QED BY <1>1, <1>2, <1>3, <1>4, <1>5 DEF At

LEMMA PutIsApply ==
  ASSUME IInv, RenderedInv, NEW r \in Releases, PutOK(r)
  PROVE  LifecycleStep
<1>0. /\ Shared /\ cr \in [Objects -> Releases \cup {0}] /\ cr[Stack] \in Nat /\ r \in Nat
      /\ UNCHANGED <<state, rendered>> /\ r > 0
      /\ ExecOK(r, exec[r])
  BY IInvParts, MaxReleasesAssumption DEF Shared, Objects, Releases, PutOK, rows
<1>1. CASE exec[r].target # Stack
  <2>1. cr'[Stack] = cr[Stack]
    BY <1>0, <1>1 DEF PutOK, Objects
  <2> QED BY <1>0, <2>1 DEF LifecycleStep, Lifecycle!vars
<1>2. CASE exec[r].target = Stack
  <2>1. cr'[Stack] = r
    BY <1>0, <1>2 DEF PutOK, Objects
  <2>2. cr[Stack] < r
    BY <1>0, <1>2 DEF PutOK, IInv, PutForward
  <2>3. state[r] \in {"InProgress", "Failed"}
    BY <1>0 DEF PutOK, At, ExecOK, Active, MayWrite
  <2>4. rendered[r]
    BY DEF PutOK, At, RenderedInv, TakenAsRendered, AppliedSteps
  <2>5. Lifecycle!Apply(r)
    BY <1>0, <2>1, <2>2, <2>3, <2>4 DEF Lifecycle!Apply
  <2> QED BY <2>5 DEF LifecycleStep, Lifecycle!Next, Releases, Lifecycle!Releases
<1> QED BY <1>1, <1>2

LEMMA WorkerImplements ==
  ASSUME IInv, RenderedInv, NEW r \in Releases, Worker(r)
  PROVE  LifecycleStep
<1>0. Shared
  BY IInvParts
<1>1. CASE \/ Load(r) \/ Gate(r) \/ Deadline(r) \/ Validate(r) \/ RenderFails(r) \/ Apply(r)
           \/ GetStack(r) \/ PutConflict(r) \/ ApplyFails(r) \/ ListOrphans(r) \/ PruneEnds(r)
           \/ Converge(r) \/ Abort(r) \/ \E x \in Resources : GetResource(r, x)
  <2>1. UNCHANGED <<rows, cluster>>
    BY <1>1 DEF Load, Gate, Deadline, Validate, RenderFails, Apply, GetStack, PutConflict,
                ApplyFails, ListOrphans, PruneEnds, Converge, Abort, GetResource
  <2> QED BY <2>1, LifecycleStutters DEF rows, cluster
<1>2. CASE Start(r)
  <2>1. CASE state[r] = "Pending"
    <3>1. Lifecycle!Start(r)
      BY <1>2, <2>1 DEF Start, cluster, Lifecycle!Start, Lifecycle!Move
    <3> QED BY <3>1 DEF LifecycleStep, Lifecycle!Next, Releases, Lifecycle!Releases
  <2>2. CASE state[r] # "Pending"
    BY <1>2, <2>2, LifecycleStutters DEF Start, cluster
  <2> QED BY <2>1, <2>2
<1>3. CASE Render(r)
  <2>1. CASE state[r] = "InProgress" /\ ~rendered[r]
    <3>1. Lifecycle!Render(r)
      BY <1>3, <2>1 DEF Render, cluster, Lifecycle!Render
    <3> QED BY <3>1 DEF LifecycleStep, Lifecycle!Next, Releases, Lifecycle!Releases
  <2>2. CASE ~(state[r] = "InProgress" /\ ~rendered[r])
    <3>1. UNCHANGED <<state, rendered, cr>>
      BY <1>0, <1>3, <2>2 DEF Render, Shared, cluster
    <3> QED BY <3>1, LifecycleStutters
  <2> QED BY <2>1, <2>2
<1>4. CASE \E x \in Resources : Prune(r, x)
  <2>1. cr'[Stack] = cr[Stack] /\ UNCHANGED <<state, rendered>>
    BY <1>0, <1>4, StackAssumption DEF Prune, Shared, Objects, rows
  <2> QED BY <2>1 DEF LifecycleStep, Lifecycle!vars
<1> QED BY <1>1, <1>2, <1>3, <1>4, PutIsApply, MarkIsEnd DEF Worker

\* Every step of the handlers, the workers and the agent is a step of the lifecycle,
\* or none of it: the worker implements what the hub promises about releases.
THEOREM LifecycleImplemented == Spec => ImplementsLifecycle
<1>1. Init => Lifecycle!Init
  BY InitIsInit
<1>2. ASSUME IInv, RenderedInv, [Next]_vars PROVE LifecycleStep
  <2>1. CASE Environment \/ UNCHANGED vars
    <3>1. UNCHANGED <<rows, cr>>
      BY <2>1 DEF Environment, AgentReportsConverged, AgentBuildFails, MirrorStatus,
                  TimeRunsOut, vars, cluster
    <3> QED BY <3>1, LifecycleStutters DEF rows
  <2> QED BY <1>2, <2>1, HandlersImplement, WorkerImplements DEF Next
<1>3. IInv /\ RenderedInv /\ [Next]_vars => [Lifecycle!Next]_Lifecycle!vars
  BY <1>2 DEF LifecycleStep
<1> QED BY <1>1, <1>3, Invariance, RenderedInvariance, PTL
        DEF Spec, ImplementsLifecycle, Lifecycle!Spec

=============================================================================
