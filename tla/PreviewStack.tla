--------------------------- MODULE PreviewStack ---------------------------
(***************************************************************************)
(* The preview environments of one configuration: the rows of              *)
(* preview_stacks, the webhook and API handlers that save them, and the    *)
(* preview worker (pkg/worker/preview, pkg/services/preview_stack_service, *)
(* pkg/services/preview_webhook_service, pkg/stores/pgstore/preview_stack).*)
(*                                                                         *)
(* Handlers and worker read a row, work on the copy for as long as calls   *)
(* to git, the cluster or GitHub take, and save the whole row back:        *)
(* nothing is locked or compared, so a save undoes whatever was saved      *)
(* since the read.  Reads and saves are steps of their own here.  The      *)
(* workqueue never hands one preview to two goroutines.                    *)
(*                                                                         *)
(* What is abstracted: a commit stands for all a deployment is made from   *)
(* (the commit, a pasted stackfile, image overrides), a release for its    *)
(* outcome (module ReleaseWorker), the two force-sync times for whether    *)
(* one is pending, and the pull-request comment for whether it must be     *)
(* posted again.                                                           *)
(***************************************************************************)
EXTENDS Naturals, FiniteSets

CONSTANTS
  PRs,          \* pull requests, by number
  Commits,      \* commits a preview may be asked for
  MaxActive,    \* max_active_previews of the configuration
  Requests,     \* slots for the requests in flight
  MaxPreviews,  \* bound on the rows of preview_stacks ever inserted
  MaxStacks,    \* bound on the stacks ever created
  MaxReleases   \* bound on the releases ever created

Previews == 1 .. MaxPreviews
Stacks   == 1 .. MaxStacks
Releases == 1 .. MaxReleases

ASSUME BoundsAssumption ==
  MaxPreviews \in Nat /\ MaxStacks \in Nat /\ MaxReleases \in Nat
ASSUME MaxActiveAssumption == MaxActive \in Nat
ASSUME CommitsAssumption == 0 \notin Commits
ASSUME PRsAssumption == 0 \notin PRs

VARIABLES
  config,   \* the configuration's row is there
  pr,       \* pr[i]: the pull request of preview i, 0 before its INSERT
  row,      \* row[i]: row i of preview_stacks, NoRow when there is none
  stack,    \* stack[s]: its row of stacks
  release,  \* release[r]: its row of stack_releases
  request,  \* request[h]: a request past its guards, with the row it will save
  exec      \* exec[i]: the execution of preview i and its copy of the row

vars == <<config, pr, row, stack, release, request, exec>>

Phases == {"Provisioning", "Deploying", "Ready", "Failed", "Deleting"}

Rows ==
  [phase : Phases \cup {"None"}, stack : Stacks \cup {0}, release : Releases \cup {0},
   commit : Commits \cup {0}, applied : Commits \cup {0}, force : BOOLEAN,
   deleting : BOOLEAN, pending : BOOLEAN]

NoRow == [phase |-> "None", stack |-> 0, release |-> 0, commit |-> 0, applied |-> 0,
          force |-> FALSE, deleting |-> FALSE, pending |-> FALSE]

StackRows == [state : {"none", "live", "deleting", "gone"},
              owner : Previews \cup {0}, content : Commits \cup {0}]

\* "none" for a release not created, or deleted with its stack.
ReleaseRows == [state : {"none", "Active", "Released", "Failed", "Superseded", "Cancelled"},
                stack : Stacks \cup {0}, content : Commits \cup {0}]

RequestStates == [pc : {"idle", "insert", "save", "drop"}, pr : PRs \cup {0},
                  id : Previews \cup {0}, copy : Rows]

NoRequest == [pc |-> "idle", pr |-> 0, id |-> 0, copy |-> NoRow]

Executions ==
  [pc : {"idle", "deprovision", "erase", "provision", "converge", "save"}, copy : Rows]

Idle == [pc |-> "idle", copy |-> NoRow]

TypeOK ==
  /\ config \in BOOLEAN
  /\ pr \in [Previews -> PRs \cup {0}]
  /\ row \in [Previews -> Rows]
  /\ stack \in [Stacks -> StackRows]
  /\ release \in [Releases -> ReleaseRows]
  /\ request \in [Requests -> RequestStates]
  /\ exec \in [Previews -> Executions]

Init ==
  /\ config = TRUE
  /\ pr = [i \in Previews |-> 0]
  /\ row = [i \in Previews |-> NoRow]
  /\ stack = [s \in Stacks |-> [state |-> "none", owner |-> 0, content |-> 0]]
  /\ release = [r \in Releases |-> [state |-> "none", stack |-> 0, content |-> 0]]
  /\ request = [h \in Requests |-> NoRequest]
  /\ exec = [i \in Previews |-> Idle]

Exists(i) == row[i].phase # "None"

\* A row of stacks that is there, its deletion stamped or not.
Present(s) == s # 0 /\ stack[s].state \in {"live", "deleting"}

\* CountActiveByConfigID: Failed previews do not count, whatever they still run.
Active == {i \in Previews : row[i].phase \notin {"None", "Failed", "Deleting"}}

PreviewOf(p) == {i \in Previews : Exists(i) /\ pr[i] = p}

\* Update: every column of row i is set, if the row is still there and the foreign
\* keys of the copy hold; else the call returns an error.
Update(i, copy) ==
  IF Exists(i) /\ (copy.stack = 0 \/ Present(copy.stack))
    THEN row' = [row EXCEPT ![i] = copy]
    ELSE UNCHANGED row

-----------------------------------------------------------------------------
(***************************************************************************)
(* The handlers.  A pull-request webhook is routed by whether its preview  *)
(* exists: to a create or to a sync when opened, reopened or synchronized, *)
(* to a delete when closed; the API calls the same functions.              *)
(***************************************************************************)
Answer(h) == request' = [request EXCEPT ![h] = NoRequest]

\* provisionPreview, its checks: no preview of that pull request, and room for one.
CreateRead(h, p, c) ==
  /\ request[h].pc = "idle"
  /\ config
  /\ PreviewOf(p) = {}
  /\ Cardinality(Active) < MaxActive
  /\ request' = [request EXCEPT ![h] = [pc |-> "insert", pr |-> p, id |-> 0,
                   copy |-> [NoRow EXCEPT !.phase = "Provisioning", !.commit = c]]]
  /\ UNCHANGED <<config, pr, row, stack, release, exec>>

\* Its INSERT, refused by the unique index on (configuration, pull request).
CreateInsert(h, i) ==
  /\ request[h].pc = "insert"
  /\ config
  /\ PreviewOf(request[h].pr) = {}
  /\ \A j \in Previews : (pr[j] = 0) <=> (j >= i)
  /\ pr' = [pr EXCEPT ![i] = request[h].pr]
  /\ row' = [row EXCEPT ![i] = request[h].copy]
  /\ Answer(h)
  /\ UNCHANGED <<config, stack, release, exec>>

\* The row of preview i as a sync to commit c saves it.
SyncedCopy(i, c, force) ==
  [row[i] EXCEPT !.commit = c, !.force = @ \/ force, !.phase = "Provisioning"]

\* Seeded fault: a preview that has no stack yet may be synced.
SyncReadUnprovisioned(h, i, c, force) ==
  /\ request[h].pc = "idle"
  /\ Exists(i)
  /\ ~row[i].deleting
  /\ force \/ row[i].phase = "Failed" \/ c # row[i].commit
  /\ request' = [request EXCEPT ![h] = [pc |-> "save", pr |-> pr[i], id |-> i,
                                        copy |-> SyncedCopy(i, c, force)]]
  /\ UNCHANGED <<config, pr, row, stack, release, exec>>

\* syncPreview up to its Update; a sync to what the row already says is a no-op.
SyncRead(h, i, c, force) ==
  /\ request[h].pc = "idle"
  /\ Exists(i)
  /\ row[i].stack # 0
  /\ ~row[i].deleting
  /\ force \/ row[i].phase = "Failed" \/ c # row[i].commit
  /\ request' = [request EXCEPT ![h] = [pc |-> "save", pr |-> pr[i], id |-> i,
                                        copy |-> SyncedCopy(i, c, force)]]
  /\ UNCHANGED <<config, pr, row, stack, release, exec>>

\* deletePreview up to its Update.
DeleteRead(h, i) ==
  /\ request[h].pc = "idle"
  /\ Exists(i)
  /\ request' = [request EXCEPT ![h] = [pc |-> "save", pr |-> pr[i], id |-> i,
                   copy |-> [row[i] EXCEPT !.phase = "Deleting", !.deleting = TRUE]]]
  /\ UNCHANGED <<config, pr, row, stack, release, exec>>

\* The Update of a sync or of a delete.
Save(h) ==
  /\ request[h].pc = "save"
  /\ Update(request[h].id, request[h].copy)
  /\ Answer(h)
  /\ UNCHANGED <<config, pr, stack, release, exec>>

\* Delete of the configuration: the count ...
DropRead(h) ==
  /\ request[h].pc = "idle"
  /\ config
  /\ Active = {}
  /\ request' = [request EXCEPT ![h] = [NoRequest EXCEPT !.pc = "drop"]]
  /\ UNCHANGED <<config, pr, row, stack, release, exec>>

\* ... and the DELETE, which takes the rows of its previews with it.
Drop(h) ==
  /\ request[h].pc = "drop"
  /\ config' = FALSE
  /\ row' = [i \in Previews |-> NoRow]
  /\ Answer(h)
  /\ UNCHANGED <<pr, stack, release, exec>>

\* A request fails on the way: git, the database, a crash of the hub.
AbortRequest(h) ==
  /\ request[h].pc # "idle"
  /\ Answer(h)
  /\ UNCHANGED <<config, pr, row, stack, release, exec>>

-----------------------------------------------------------------------------
(***************************************************************************)
(* The preview worker: deprovision, provision, converge.                   *)
(***************************************************************************)
At(i, pc) == exec[i].pc = pc

Goto(i, pc) == exec' = [exec EXCEPT ![i].pc = pc]

Return(i) == exec' = [exec EXCEPT ![i] = Idle]

\* The next call saves this copy, which ends the execution.
ThenSave(i, copy) == exec' = [exec EXCEPT ![i] = [pc |-> "save", copy |-> copy]]

Failing(copy) == [copy EXCEPT !.phase = "Failed"]

\* Seeded fault: a preview being deleted is taken for one that has ended.
LoadLeavesDeleting(i) ==
  /\ At(i, "idle")
  /\ Exists(i)
  /\ row[i].phase \notin {"Ready", "Failed", "Deleting"} \/ row[i].pending
  /\ exec' = [exec EXCEPT ![i] = [pc |-> IF row[i].deleting THEN "deprovision" ELSE "provision",
                                  copy |-> row[i]]]
  /\ UNCHANGED <<config, pr, row, stack, release, request>>

\* Execute: Ready and Failed previews are left alone unless a comment is pending.
Load(i) ==
  /\ At(i, "idle")
  /\ Exists(i)
  /\ row[i].phase \notin {"Ready", "Failed"} \/ row[i].pending
  /\ exec' = [exec EXCEPT ![i] = [pc |-> IF row[i].deleting THEN "deprovision" ELSE "provision",
                                  copy |-> row[i]]]
  /\ UNCHANGED <<config, pr, row, stack, release, request>>

\* InternalDeleteStack, once per stack: the latest active release fails, or none does
\* (one created after the look is left alone), and the deletion is stamped.
MarkDeleting(s) ==
  /\ stack[s].state = "live"
  /\ stack' = [stack EXCEPT ![s].state = "deleting"]
  /\ \/ \E r \in Releases :
          /\ release[r].state = "Active" /\ release[r].stack = s
          /\ release' = [release EXCEPT ![r].state = "Failed"]
     \/ UNCHANGED release

\* The stack, if there is one, is marked for deletion and waited for.
Deprovision(i) ==
  LET s == exec[i].copy.stack IN
  /\ At(i, "deprovision")
  /\ \/ /\ s # 0
        /\ MarkDeleting(s)
        /\ Return(i)
     \/ /\ s # 0 /\ stack[s].state = "deleting"
        /\ Return(i)
        /\ UNCHANGED <<stack, release>>
     \/ /\ ~Present(s)
        /\ Goto(i, "erase")
        /\ UNCHANGED <<stack, release>>
  /\ UNCHANGED <<config, pr, row, request>>

\* deletePreviewRecord: the comment is updated as well as it can be, the row deleted.
Erase(i) ==
  /\ At(i, "erase")
  /\ row' = [row EXCEPT ![i] = NoRow]
  /\ Return(i)
  /\ UNCHANGED <<config, pr, stack, release, request>>

NewRelease(r) == \A q \in Releases : (release[q].state = "none" /\ release[q].stack = 0) <=> (q >= r)

\* The row once its release r of stack s is created, and the release itself.
Deployed(copy, s, r) ==
  [copy EXCEPT !.stack = s, !.release = r, !.applied = copy.commit, !.force = FALSE,
               !.phase = "Deploying"]

Created(s, c) == [state |-> "Active", stack |-> s, content |-> c]

\* Seeded fault: only a forced sync releases, a new commit does not.
NeedsReleaseForced(copy) == copy.force

\* needsUpdateOrRelease
NeedsUpdate(copy) == copy.commit # copy.applied
NeedsRelease(copy) == NeedsUpdate(copy) \/ copy.force

\* The stackfile cannot be had, does not build, or is denied admission.
ProvisionFails(i) ==
  /\ At(i, "provision")
  /\ ThenSave(i, Failing(exec[i].copy))
  /\ UNCHANGED <<config, pr, row, stack, release, request>>

UpToDate(i) ==
  /\ At(i, "provision")
  /\ exec[i].copy.stack # 0
  /\ ~NeedsRelease(exec[i].copy)
  /\ Goto(i, "converge")
  /\ UNCHANGED <<config, pr, row, stack, release, request>>

\* The sync transaction: update the stack, create a release, save the row.  It is
\* refused when the stack is being deleted or is gone, or the row is gone.
Sync(i, r) ==
  LET copy == exec[i].copy
      s    == copy.stack
      c    == IF NeedsUpdate(copy) THEN copy.commit ELSE stack[s].content IN
  /\ At(i, "provision")
  /\ s # 0
  /\ NeedsRelease(copy)
  /\ stack[s].state = "live"
  /\ Exists(i)
  /\ NewRelease(r)
  /\ stack' = [stack EXCEPT ![s].content = c]
  /\ release' = [release EXCEPT ![r] = Created(s, c)]
  /\ row' = [row EXCEPT ![i] = Deployed(copy, s, r)]
  /\ Return(i)
  /\ UNCHANGED <<config, pr, request>>

\* The create transaction.  The name of the stack is that of the pull request, and
\* no two stacks of the project have the same.
Create(i, s, r) ==
  LET copy == exec[i].copy IN
  /\ At(i, "provision")
  /\ copy.stack = 0
  /\ \A t \in Stacks : Present(t) => pr[stack[t].owner] # pr[i]
  /\ Exists(i)
  /\ \A t \in Stacks : (stack[t].state = "none") <=> (t >= s)
  /\ NewRelease(r)
  /\ stack' = [stack EXCEPT ![s] = [state |-> "live", owner |-> i, content |-> copy.commit]]
  /\ release' = [release EXCEPT ![r] = Created(s, copy.commit)]
  /\ row' = [row EXCEPT ![i] = Deployed(copy, s, r)]
  /\ Return(i)
  /\ UNCHANGED <<config, pr, request>>

\* Converge: the outcome of the release becomes that of the preview.  The comment
\* of a Ready or Failed preview may fail to be posted; it is tried again later.
Converge(i) ==
  LET copy  == exec[i].copy
      state == release[copy.release].state IN
  /\ At(i, "converge")
  /\ copy.release # 0
  /\ \/ /\ state = "Released" /\ copy.phase # "Ready"
        /\ \E p \in BOOLEAN : ThenSave(i, [copy EXCEPT !.phase = "Ready", !.pending = p])
     \/ /\ state = "Released" /\ copy.phase = "Ready" /\ copy.pending
        /\ ThenSave(i, [copy EXCEPT !.pending = FALSE])
     \/ /\ state = "Failed"
        /\ \E p \in BOOLEAN : ThenSave(i, [copy EXCEPT !.phase = "Failed", !.pending = p])
     \/ /\ state = "Cancelled"
        /\ ThenSave(i, Failing(copy))
  /\ UNCHANGED <<config, pr, row, stack, release, request>>

SaveCopy(i) ==
  /\ At(i, "save")
  /\ Update(i, exec[i].copy)
  /\ Return(i)
  /\ UNCHANGED <<config, pr, stack, release, request>>

\* Nothing to do yet, or any error: the preview is executed again later.
GiveUp(i) ==
  /\ ~At(i, "idle")
  /\ Return(i)
  /\ UNCHANGED <<config, pr, row, stack, release, request>>

-----------------------------------------------------------------------------
(***************************************************************************)
(* The stacks and their releases, driven by the workers of their own.      *)
(***************************************************************************)
\* Any end; only a release that is not the last of its stack is superseded.
ReleaseEnds(r, end) ==
  /\ release[r].state = "Active"
  /\ end = "Superseded" => \E q \in Releases : q > r /\ release[q].stack = release[r].stack
  /\ release' = [release EXCEPT ![r].state = end]
  /\ UNCHANGED <<config, pr, row, stack, request, exec>>

\* A user may delete the stack itself.
DeleteStack(s) ==
  /\ MarkDeleting(s)
  /\ UNCHANGED <<config, pr, row, request, exec>>

\* The stack worker deletes the row: its releases go with it, and the foreign keys
\* of preview_stacks are set to NULL.
StackGone(s) ==
  /\ stack[s].state = "deleting"
  /\ stack' = [stack EXCEPT ![s].state = "gone"]
  /\ release' = [r \in Releases |->
       IF release[r].stack = s THEN [release[r] EXCEPT !.state = "none"] ELSE release[r]]
  /\ row' = [i \in Previews |->
       IF row[i].stack = s THEN [row[i] EXCEPT !.stack = 0, !.release = 0] ELSE row[i]]
  /\ UNCHANGED <<config, pr, request, exec>>

-----------------------------------------------------------------------------
Handler(h) ==
  \/ \E p \in PRs, c \in Commits : CreateRead(h, p, c)
  \/ \E i \in Previews : CreateInsert(h, i)
  \/ \E i \in Previews, c \in Commits, force \in BOOLEAN : SyncRead(h, i, c, force)
  \/ \E i \in Previews : DeleteRead(h, i)
  \/ Save(h) \/ DropRead(h) \/ Drop(h) \/ AbortRequest(h)

Worker(i) ==
  \/ Load(i) \/ Deprovision(i) \/ Erase(i)
  \/ ProvisionFails(i) \/ UpToDate(i)
  \/ \E r \in Releases : Sync(i, r)
  \/ \E s \in Stacks, r \in Releases : Create(i, s, r)
  \/ Converge(i) \/ SaveCopy(i) \/ GiveUp(i)

Elsewhere ==
  \/ \E r \in Releases, end \in {"Released", "Failed", "Superseded", "Cancelled"} : ReleaseEnds(r, end)
  \/ \E s \in Stacks : DeleteStack(s) \/ StackGone(s)

Next == (\E h \in Requests : Handler(h)) \/ (\E i \in Previews : Worker(i)) \/ Elsewhere

Spec == Init /\ [][Next]_vars

\* The periodic scan executes every preview that has not ended, no call fails for
\* ever, and stacks being deleted go.  Nothing is assumed of users.
Fairness ==
  /\ \A i \in Previews : /\ WF_vars(Worker(i))
                         /\ SF_vars(Load(i))
                         /\ SF_vars(Deprovision(i))
                         /\ SF_vars(Erase(i))
  /\ \A s \in Stacks : WF_vars(StackGone(s))

FairSpec == Spec /\ Fairness

-----------------------------------------------------------------------------
(***************************************************************************)
(* Properties.                                                             *)
(***************************************************************************)

\* A preview that says Ready has applied the commit it names, with no forced sync
\* left to do, through a release of its own that was Released (converge runs behind
\* provision), whatever is saved over it.
ReadyIsReleased ==
  \A i \in Previews : row[i].phase = "Ready" =>
    /\ row[i].commit = row[i].applied /\ ~row[i].force /\ ~row[i].deleting
    /\ row[i].release # 0 => release[row[i].release].state = "Released"

\* As long as a preview is not being deleted, a stack made for it is the one its
\* row points to: saves of old copies lose commits, never the stack.
StackKept ==
  \A s \in Stacks : LET i == stack[s].owner IN
    Present(s) /\ Exists(i) /\ ~row[i].deleting => row[i].stack = s

-----------------------------------------------------------------------------
(***************************************************************************)
(* The inductive invariant behind the two invariants above.                *)
(***************************************************************************)
\* What every copy of row i keeps, however old: its stack was made for i, its
\* release is one of that stack, and Ready has been earned.
CopyOK(i, copy) ==
  /\ copy.stack # 0 => stack[copy.stack].owner = i
  /\ copy.release # 0 => copy.stack # 0 /\ release[copy.release].stack = copy.stack
  /\ copy.phase = "Ready" =>
       /\ copy.commit = copy.applied /\ ~copy.force /\ ~copy.deleting
       /\ copy.release # 0 /\ Present(copy.stack) => release[copy.release].state = "Released"

\* A row also has its foreign key and its pull request.
RowOK(i) ==
  /\ CopyOK(i, row[i])
  /\ row[i].stack # 0 => Present(row[i].stack)
  /\ Exists(i) => pr[i] # 0

\* An execution that may save its copy knows of every stack made for its preview,
\* since nobody else makes any.
ExecOK(i, e) ==
  e.pc \in {"provision", "converge", "save"} =>
    /\ CopyOK(i, e.copy) /\ ~e.copy.deleting
    /\ \A s \in Stacks : Present(s) /\ stack[s].owner = i => e.copy.stack = s
    /\ e.pc = "converge" => ~NeedsRelease(e.copy)

\* A request that is not a deletion saves a copy with a stack.
RequestOK(q) ==
  /\ q.pc = "insert" =>
       /\ q.pr # 0
       /\ q.copy.phase = "Provisioning" /\ q.copy.stack = 0 /\ q.copy.release = 0
  /\ q.pc = "save" =>
       /\ q.id # 0 /\ CopyOK(q.id, q.copy)
       /\ q.copy.deleting \/ q.copy.stack # 0
       /\ q.copy.phase \in {"Provisioning", "Deleting"}

StackOK(s) ==
  /\ stack[s].state = "none" => stack[s].owner = 0
  /\ Present(s) => stack[s].owner # 0 /\ pr[stack[s].owner] # 0

NamesUnique ==
  \A s, t \in Stacks :
    Present(s) /\ Present(t) /\ pr[stack[s].owner] = pr[stack[t].owner] => s = t

IInv ==
  /\ TypeOK
  /\ \A i \in Previews : RowOK(i) /\ ExecOK(i, exec[i])
  /\ \A h \in Requests : RequestOK(request[h])
  /\ \A s \in Stacks : StackOK(s)
  /\ NamesUnique
  /\ ReadyIsReleased
  /\ StackKept

-----------------------------------------------------------------------------
\* No preview is being deleted for ever (deprovision waits for the stack to go).
DeletionEnds ==
  \A i \in Previews : row[i].deleting ~> ~row[i].deleting

\* docs/guides/preview-environments.mdx: "The `closed` event starts the teardown."
\* Once a deletion is saved, the row is being deleted until it is gone.
DeletionSticks ==
  [][\A i \in Previews : row[i].deleting /\ Exists(i)' => row'[i].deleting]_row

\* The same guide, of synchronize: "Syncs the existing environment to the new head
\* commit."  A Ready preview names the commit its stack was last updated to.
ReadyRunsCommit ==
  \A i \in Previews : row[i].phase = "Ready" /\ row[i].stack # 0 =>
    stack[row[i].stack].content = row[i].commit

\* The same guide: "Teardown deletes the environment's stack and everything under it,
\* waits for the deployment destination to finish removing it, then removes the
\* environment record".  While its configuration is there, a preview goes after every
\* stack made for it.
StackGoesFirst ==
  [][\A i \in Previews : Exists(i) /\ ~Exists(i)' /\ config' =>
       \A s \in Stacks : stack[s].owner = i => ~Present(s)]_<<config, row, stack>>

=============================================================================
