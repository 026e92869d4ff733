-------------------------- MODULE ReleaseWorker --------------------------
(***************************************************************************)
(* The releases of one stack, the release worker that drives them, and the *)
(* objects it writes in the stack's cluster (pkg/worker/release,           *)
(* pkg/services/stack_release_service.go, pkg/stores/pgstore/              *)
(* stack_release.go).                                                      *)
(*                                                                         *)
(* The workqueue never hands one release to two goroutines at once, but    *)
(* different releases of the same stack are executed concurrently.  Each   *)
(* execution loads its row once and then works on that copy, taking one    *)
(* step here for every call to the database or to the cluster, so every    *)
(* interleaving of two executions, of an execution with the API handlers   *)
(* (deploy, rollback, cancel, delete stack), and of an execution with the  *)
(* cluster agent is a behaviour of this module.  A crash of the hub is     *)
(* every execution and every request aborting: see Abort, AbortRequest and *)
(* AbortDelete.                                                            *)
(*                                                                         *)
(* What is abstracted: event rows (module ReleaseEvents), the two deadline *)
(* clocks (overdue stands for either having run out), the content of       *)
(* manifests (named by the release that was first rendered with it), the   *)
(* secrets and the registry the worker syncs before the objects below, and *)
(* the cr_revision of a stack, which is only displayed.                    *)
(***************************************************************************)
EXTENDS Naturals, FiniteSets

CONSTANTS
  MaxReleases,  \* bound on the sequence numbers handed out
  Resources,    \* names of the stack's resources
  Snapshot,     \* Snapshot[r]: the resources of the stack when r was deployed
  Stack         \* the Stack object itself, beside the StackResource objects

Releases == 1 .. MaxReleases
Objects  == Resources \cup {Stack}

ASSUME MaxReleasesAssumption == MaxReleases \in Nat \ {0}
ASSUME SnapshotAssumption == Snapshot \in [Releases -> SUBSET Resources]
ASSUME StackAssumption == Stack \notin Resources

VARIABLES
  \* rows of stack_releases
  state,        \* state[r], "None" before the INSERT
  rendered,     \* rendered[r]: the manifest column is set
  content,      \* content[r]: the release whose deploy first had r's snapshot, 0 before
  \* row of stacks
  deletion,     \* "live"; "deleting": stamped, by its status too; "mirrored": only stamped
  converged,    \* status.LastConverged mirrored from the cluster, a release or 0
  \* the API
  requests,     \* create requests past their guards: 0 a deploy, s a rollback to s
  deleter,      \* a request to delete the stack, and what it has read
  \* the cluster
  cr,           \* cr[o]: the release-id annotation of object o, 0 if o is absent
  reported,     \* LastConverged in the status of the Stack object
  buildFailed,  \* buildFailed[r]: an ImageBuild of r is Failed or Cancelled
  \* time
  overdue,      \* overdue[r]: a deadline clock of r has run out
  \* the executions
  exec          \* exec[r]: the execution of r and its local copy of the row

rows    == <<state, rendered, content>>
cluster == <<cr, reported, buildFailed>>
hub     == <<deletion, converged, requests, deleter>>
vars    == <<rows, hub, cluster, overdue, exec>>

Active   == {"Pending", "InProgress"}
Terminal == {"Released", "Failed", "Superseded", "Cancelled"}

\* Where an execution is: the next call it makes.
Steps == {"idle", "gate", "start", "deadline", "validate", "render", "apply",
          "get", "put", "resources", "prune", "converge",
          "markSuperseded", "markFailed", "markReleased"}

\* What the Get before a Create or an Update has seen: no object, an object that
\* is unchanged since (its resourceVersion is current), or one changed since.
Views == {"none", "absent", "current", "stale"}

Executions ==
  [pc : Steps, state : Active \cup {"None"}, rendered : BOOLEAN,
   target : Objects, view : Views, todo : SUBSET Resources]

\* A request to delete the stack, between the calls of InternalDeleteStack.
Deleters == [pc : {"idle", "find", "fail", "stamp"},
             converged : Releases \cup {0}, active : Releases \cup {0}]

NoDeleter == [pc |-> "idle", converged |-> 0, active |-> 0]

Idle == [pc |-> "idle", state |-> "None", rendered |-> FALSE,
         target |-> Stack, view |-> "none", todo |-> {}]

TypeOK ==
  /\ state \in [Releases -> Active \cup Terminal \cup {"None"}]
  /\ rendered \in [Releases -> BOOLEAN]
  /\ content \in [Releases -> Releases \cup {0}]
  /\ deletion \in {"live", "deleting", "mirrored"}
  /\ converged \in Releases \cup {0}
  /\ requests \in SUBSET (Releases \cup {0})
  /\ deleter \in Deleters
  /\ cr \in [Objects -> Releases \cup {0}]
  /\ reported \in Releases \cup {0}
  /\ buildFailed \in [Releases -> BOOLEAN]
  /\ overdue \in [Releases -> BOOLEAN]
  /\ exec \in [Releases -> Executions]

Init ==
  /\ state = [r \in Releases |-> "None"]
  /\ rendered = [r \in Releases |-> FALSE]
  /\ content = [r \in Releases |-> 0]
  /\ deletion = "live"
  /\ converged = 0
  /\ requests = {}
  /\ deleter = NoDeleter
  /\ cr = [o \in Objects |-> 0]
  /\ reported = 0
  /\ buildFailed = [r \in Releases |-> FALSE]
  /\ overdue = [r \in Releases |-> FALSE]
  /\ exec = [r \in Releases |-> Idle]

ActiveReleases == {r \in Releases : state[r] \in Active}

\* GetActiveByStackID: the active release of highest sequence.
IsLatestActive(r) == r \in ActiveReleases /\ \A q \in ActiveReleases : q <= r

\* The resources in the manifest of r.
ResourcesOf(r) == IF content[r] = 0 THEN {} ELSE Snapshot[content[r]]

-----------------------------------------------------------------------------
(***************************************************************************)
(* The API handlers.  A create request reads the stack, and a rollback its *)
(* source, long before the INSERT (it resolves git and image references in *)
(* between), so its guards and its INSERT are two steps.  One request is   *)
(* in flight at a time: INSERTs of the same sequence exclude each other by *)
(* the unique index, the loser being told to retry.                        *)
(***************************************************************************)
\* The sequence number is MAX(sequence) + 1.
NextSequence(r) == \A q \in Releases : (state[q] = "None") <=> (q >= r)

\* A request is taken on; MaxReleases bounds how many ever are.
TakeRequest(src) ==
  /\ requests = {}
  /\ \E r \in Releases : NextSequence(r)
  /\ deletion = "live"
  /\ requests' = {src}
  /\ UNCHANGED <<rows, deletion, converged, deleter, cluster, overdue, exec>>

RequestDeploy == TakeRequest(0)

RequestRollback(src) == state[src] = "Released" /\ TakeRequest(src)

CreateRelease(r, src) ==
  /\ src \in requests
  /\ NextSequence(r)
  /\ requests' = requests \ {src}
  /\ state' = [state EXCEPT ![r] = "Pending"]
  /\ content' = [content EXCEPT ![r] = IF src = 0 THEN r ELSE content[src]]
  /\ rendered' = [rendered EXCEPT ![r] = src # 0 /\ rendered[src]]
  /\ UNCHANGED <<deletion, converged, deleter, cluster, overdue, exec>>

\* The request fails: quota, validation, a lost race for the sequence, a crash.
AbortRequest ==
  /\ requests # {}
  /\ requests' = {}
  /\ UNCHANGED <<rows, deletion, converged, deleter, cluster, overdue, exec>>

\* Seeded fault: the UPDATE of a cancel forgets that the worker may have started.
CancelReleaseUnguarded(r) ==
  /\ state[r] \in Active
  /\ state' = [state EXCEPT ![r] = "Cancelled"]
  /\ UNCHANGED <<rendered, content, hub, cluster, overdue, exec>>

\* The handler's reads are advisory: what decides is the conditional UPDATE.
CancelRelease(r) ==
  /\ state[r] = "Pending"
  /\ state' = [state EXCEPT ![r] = "Cancelled"]
  /\ UNCHANGED <<rendered, content, hub, cluster, overdue, exec>>

\* InternalDeleteStack.  The caller has read the stack; a status that says it is
\* being deleted already stops the request, the stamp does not.
DeleteStackRead ==
  /\ deleter.pc = "idle"
  /\ deletion # "deleting"
  /\ deleter' = [pc |-> "find", converged |-> converged, active |-> 0]
  /\ UNCHANGED <<rows, deletion, converged, requests, cluster, overdue, exec>>

\* It looks for the latest active release ...
DeleteStackFindActive ==
  /\ deleter.pc = "find"
  /\ \/ /\ ActiveReleases = {}
        /\ deleter' = [deleter EXCEPT !.pc = "stamp"]
     \/ \E r \in Releases :
          /\ IsLatestActive(r)
          /\ deleter' = [deleter EXCEPT !.pc = "fail", !.active = r]
  /\ UNCHANGED <<rows, deletion, converged, requests, cluster, overdue, exec>>

\* ... which it fails if it is InProgress, going on if that UPDATE is refused ...
DeleteStackFailActive ==
  /\ deleter.pc = "fail"
  /\ deleter' = [deleter EXCEPT !.pc = "stamp", !.active = 0]
  /\ \/ state[deleter.active] = "InProgress" /\ state' = [state EXCEPT ![deleter.active] = "Failed"]
     \/ UNCHANGED state
  /\ UNCHANGED <<rendered, content, deletion, converged, requests, cluster, overdue, exec>>

\* ... and writes the row back as it had read it, stamped.
DeleteStackStamp ==
  /\ deleter.pc = "stamp"
  /\ deletion' = "deleting"
  /\ converged' = deleter.converged
  /\ deleter' = NoDeleter
  /\ UNCHANGED <<rows, requests, cluster, overdue, exec>>

AbortDelete ==
  /\ deleter.pc # "idle"
  /\ deleter' = NoDeleter
  /\ UNCHANGED <<rows, deletion, converged, requests, cluster, overdue, exec>>

-----------------------------------------------------------------------------
(***************************************************************************)
(* The release worker.                                                     *)
(***************************************************************************)
At(r, pc) == exec[r].pc = pc

Goto(r, pc) == exec' = [exec EXCEPT ![r].pc = pc]

\* The execution ends; whether the result says stop, requeue or requeue later
\* makes no difference to what may happen next, the periodic scan of active
\* releases (GetInput) finding the release again.
Return(r) == exec' = [exec EXCEPT ![r] = Idle]

\* Execute: load the row; a terminal release is left alone.
Load(r) ==
  /\ At(r, "idle")
  /\ state[r] \in Active
  /\ exec' = [exec EXCEPT ![r].pc = "gate", ![r].state = state[r],
                          ![r].rendered = rendered[r]]
  /\ UNCHANGED <<rows, hub, cluster, overdue>>

\* Seeded fault: any other active release supersedes, the sequences not compared.
GateAnyOther(r) ==
  /\ At(r, "gate")
  /\ Goto(r, IF \E q \in ActiveReleases : q # r THEN "markSuperseded"
             ELSE IF exec[r].state = "Pending" THEN "start"
             ELSE "deadline")
  /\ UNCHANGED <<rows, hub, cluster, overdue>>

\* Gatekeeper, its read of the latest active release.
Gate(r) ==
  /\ At(r, "gate")
  /\ Goto(r, IF \E q \in ActiveReleases : q > r THEN "markSuperseded"
             ELSE IF exec[r].state = "Pending" THEN "start"
             ELSE "deadline")
  /\ UNCHANGED <<rows, hub, cluster, overdue>>

\* Seeded fault: the result of MarkInProgress is not looked at.
StartIgnoresLostRace(r) ==
  /\ At(r, "start")
  /\ state' = IF state[r] = "Pending" THEN [state EXCEPT ![r] = "InProgress"] ELSE state
  /\ exec' = [exec EXCEPT ![r].pc = "deadline", ![r].state = "InProgress"]
  /\ UNCHANGED <<rendered, content, hub, cluster, overdue>>

\* Gatekeeper, MarkInProgress: a conditional UPDATE from Pending.
Start(r) ==
  /\ At(r, "start")
  /\ IF state[r] = "Pending"
       THEN /\ state' = [state EXCEPT ![r] = "InProgress"]
            /\ exec' = [exec EXCEPT ![r].pc = "deadline", ![r].state = "InProgress"]
       ELSE /\ Return(r)
            /\ UNCHANGED state
  /\ UNCHANGED <<rendered, content, hub, cluster, overdue>>

\* Seeded fault: the deadline is applied to rendered releases only.
DeadlineOnceRendered(r) ==
  /\ At(r, "deadline")
  /\ Goto(r, IF exec[r].rendered /\ overdue[r] THEN "markFailed"
             ELSE IF exec[r].rendered THEN "apply"
             ELSE "validate")
  /\ UNCHANGED <<rows, hub, cluster, overdue>>

\* Deadline reconciler: only an InProgress copy is held to the clocks.
Deadline(r) ==
  /\ At(r, "deadline")
  /\ Goto(r, IF exec[r].state = "InProgress" /\ overdue[r] THEN "markFailed"
             ELSE IF exec[r].rendered THEN "apply"
             ELSE "validate")
  /\ UNCHANGED <<rows, hub, cluster, overdue>>

\* Validation: image and registry checks; a rollback never comes here.
Validate(r) ==
  /\ At(r, "validate")
  /\ \E next \in {"render", "markFailed"} : Goto(r, next)
  /\ UNCHANGED <<rows, hub, cluster, overdue>>

\* Render: SaveManifest is conditional on InProgress and no manifest yet.  A
\* rendered release is requeued, to be applied by its next execution.
Render(r) ==
  /\ At(r, "render")
  /\ rendered' = IF state[r] = "InProgress" THEN [rendered EXCEPT ![r] = TRUE] ELSE rendered
  /\ Return(r)
  /\ UNCHANGED <<state, content, hub, cluster, overdue>>

\* A resource that cannot be resolved or built into a CR fails the release.
RenderFails(r) ==
  /\ At(r, "render")
  /\ Goto(r, "markFailed")
  /\ UNCHANGED <<rows, hub, cluster, overdue>>

\* Apply, up to the first write: a stack being deleted or a missing volume
\* fails the release.
Apply(r) ==
  /\ At(r, "apply")
  /\ \/ /\ deletion = "live"
        /\ Goto(r, "get")
     \/ Goto(r, "markFailed")
  /\ UNCHANGED <<rows, hub, cluster, overdue>>

\* applyStackCR, the Get: an object annotated with a newer release supersedes
\* this one, and one that already carries this release is left as it is.
GetStack(r) ==
  /\ At(r, "get")
  /\ \/ /\ cr[Stack] = 0
        /\ exec' = [exec EXCEPT ![r].pc = "put", ![r].view = "absent"]
     \/ /\ cr[Stack] > r
        /\ Goto(r, "markSuperseded")
     \/ /\ cr[Stack] = r
        /\ exec' = [exec EXCEPT ![r].pc = "resources", ![r].todo = ResourcesOf(r)]
     \/ /\ cr[Stack] \in 1 .. r - 1
        /\ exec' = [exec EXCEPT ![r].pc = "put", ![r].view = "current"]
  /\ UNCHANGED <<rows, hub, cluster, overdue>>

\* applyStackResourceCRs, the Get of one resource.  There is no such test here.
GetResource(r, x) ==
  /\ At(r, "resources")
  /\ x \in exec[r].todo
  /\ \/ /\ cr[x] = r
        /\ exec' = [exec EXCEPT ![r].todo = @ \ {x}]
     \/ /\ cr[x] # r
        /\ exec' = [exec EXCEPT ![r].pc = "put", ![r].target = x,
                                ![r].view = IF cr[x] = 0 THEN "absent" ELSE "current"]
  /\ UNCHANGED <<rows, hub, cluster, overdue>>

\* The executions once r has written object o: r moves on to "next", and for any
\* other execution about to update o the resourceVersion it holds is stale.
AfterWrite(r, o, next) ==
  [q \in Releases |->
     IF q = r THEN next
     ELSE IF exec[q].target = o /\ exec[q].view = "current"
       THEN [exec[q] EXCEPT !.view = "stale"]
       ELSE exec[q]]

\* The execution of r when the object it was at is written.
Written(r) ==
  [exec[r] EXCEPT !.pc = "resources", !.target = Stack, !.view = "none",
     !.todo = IF exec[r].target = Stack THEN ResourcesOf(r)
              ELSE exec[r].todo \ {exec[r].target}]

\* Seeded fault: the Update does not carry the resourceVersion of the Get.
PutUnconditional(r) ==
  LET o == exec[r].target IN
  /\ At(r, "put")
  /\ \/ exec[r].view = "absent" /\ cr[o] = 0
     \/ exec[r].view \in {"current", "stale"}
  /\ cr' = [cr EXCEPT ![o] = r]
  /\ exec' = AfterWrite(r, o, Written(r))
  /\ UNCHANGED <<rows, hub, reported, buildFailed, overdue>>

\* The Create or the Update that follows a Get.
PutOK(r) ==
  LET o == exec[r].target IN
  /\ At(r, "put")
  /\ \/ exec[r].view = "absent" /\ cr[o] = 0
     \/ exec[r].view = "current"
  /\ cr' = [cr EXCEPT ![o] = r]
  /\ exec' = AfterWrite(r, o, Written(r))
  /\ UNCHANGED <<rows, hub, reported, buildFailed, overdue>>

\* The object has changed since the Get: a conflict, after which r is requeued.
PutConflict(r) ==
  /\ At(r, "put")
  /\ exec[r].view = "stale"
  /\ Return(r)
  /\ UNCHANGED <<rows, hub, cluster, overdue>>

\* Any error of applyStackCR or applyStackResourceCRs that is not transient fails
\* the release: AlreadyExists on a Create that came second, an object the
\* cluster refuses, a row of another release that cannot be read.
ApplyFails(r) ==
  /\ exec[r].pc \in {"get", "put", "resources"}
  /\ Goto(r, "markFailed")
  /\ UNCHANGED <<rows, hub, cluster, overdue>>

\* pruneStackResources: list the stack's resources, keep this manifest's.
ListOrphans(r) ==
  /\ At(r, "resources")
  /\ exec[r].todo = {}
  /\ exec' = [exec EXCEPT ![r].pc = "prune",
                          ![r].todo = {x \in Resources \ ResourcesOf(r) : cr[x] # 0}]
  /\ UNCHANGED <<rows, hub, cluster, overdue>>

\* Deletes are by name and unconditional.
Prune(r, x) ==
  /\ At(r, "prune")
  /\ x \in exec[r].todo
  /\ cr' = [cr EXCEPT ![x] = 0]
  /\ exec' = AfterWrite(r, x, [exec[r] EXCEPT !.todo = @ \ {x}])
  /\ UNCHANGED <<rows, hub, reported, buildFailed, overdue>>

\* All orphans deleted, or a delete has failed, which is not fatal.
PruneEnds(r) ==
  /\ At(r, "prune")
  /\ exec' = [exec EXCEPT ![r].pc = "converge", ![r].todo = {}]
  /\ UNCHANGED <<rows, hub, cluster, overdue>>

\* Seeded fault: the revision is compared and the release id is not.
HasConvergedRevision(r) == converged # 0 /\ content[converged] = content[r]

\* Both the id and the revision of the release must be the ones reported.
HasConverged(r) == converged = r /\ content[converged] = content[r]

\* Converge: released, failed by a build of its own, or polled again later.
Converge(r) ==
  /\ At(r, "converge")
  /\ \/ HasConverged(r) /\ Goto(r, "markReleased")
     \/ ~HasConverged(r) /\ buildFailed[r] /\ Goto(r, "markFailed")
     \/ ~HasConverged(r) /\ ~buildFailed[r] /\ Return(r)
  /\ UNCHANGED <<rows, hub, cluster, overdue>>

\* The conditional UPDATEs that end a release: from which states, to which.
Mark == [markSuperseded |-> [from |-> Active, to |-> "Superseded"],
         markFailed     |-> [from |-> {"InProgress"}, to |-> "Failed"],
         markReleased   |-> [from |-> {"InProgress"}, to |-> "Released"]]

MarkTerminal(r) ==
  LET pc == exec[r].pc IN
  /\ pc \in DOMAIN Mark
  /\ state' = IF state[r] \in Mark[pc].from
                THEN [state EXCEPT ![r] = Mark[pc].to]
                ELSE state
  /\ Return(r)
  /\ UNCHANGED <<rendered, content, hub, cluster, overdue>>

\* A database or cluster error at any call ends the execution: the local copy is
\* lost and the release is retried.  So does a crash of the hub.
Abort(r) ==
  /\ ~At(r, "idle")
  /\ Return(r)
  /\ UNCHANGED <<rows, hub, cluster, overdue>>

-----------------------------------------------------------------------------
(***************************************************************************)
(* The cluster agent, which is outside this repository, the controllers    *)
(* that mirror what it reports, and time.                                  *)
(***************************************************************************)
AgentReportsConverged ==
  /\ cr[Stack] # 0
  /\ reported' = cr[Stack]
  /\ UNCHANGED <<rows, hub, cr, buildFailed, overdue, exec>>

\* Only the builds of an active release are ever looked at.
AgentBuildFails(r) ==
  /\ cr[Stack] = r
  /\ state[r] \in Active
  /\ buildFailed' = [buildFailed EXCEPT ![r] = TRUE]
  /\ UNCHANGED <<rows, hub, cr, reported, overdue, exec>>

\* The stack controller copies the whole status into the stack row, over the one
\* that says the stack is being deleted.
MirrorStatus ==
  /\ converged' = reported
  /\ deletion' = IF deletion = "live" THEN "live" ELSE "mirrored"
  /\ UNCHANGED <<rows, requests, deleter, cluster, overdue, exec>>

TimeRunsOut(r) ==
  /\ state[r] \in Active
  /\ overdue' = [overdue EXCEPT ![r] = TRUE]
  /\ UNCHANGED <<rows, hub, cluster, exec>>

-----------------------------------------------------------------------------
Handlers ==
  \/ RequestDeploy
  \/ \E src \in Releases : RequestRollback(src)
  \/ \E r \in Releases, src \in Releases \cup {0} : CreateRelease(r, src)
  \/ AbortRequest
  \/ \E r \in Releases : CancelRelease(r)
  \/ DeleteStackRead
  \/ DeleteStackFindActive
  \/ DeleteStackFailActive
  \/ DeleteStackStamp
  \/ AbortDelete

Worker(r) ==
  \/ Load(r) \/ Gate(r) \/ Start(r) \/ Deadline(r) \/ Validate(r)
  \/ Render(r) \/ RenderFails(r)
  \/ Apply(r) \/ GetStack(r) \/ PutOK(r) \/ PutConflict(r) \/ ApplyFails(r)
  \/ \E x \in Resources : GetResource(r, x) \/ Prune(r, x)
  \/ ListOrphans(r) \/ PruneEnds(r)
  \/ Converge(r) \/ MarkTerminal(r) \/ Abort(r)

Environment ==
  \/ AgentReportsConverged
  \/ \E r \in Releases : AgentBuildFails(r) \/ TimeRunsOut(r)
  \/ MirrorStatus

Next == Handlers \/ (\E r \in Releases : Worker(r)) \/ Environment

Spec == Init /\ [][Next]_vars

\* The periodic scan and the queue keep executing an active release, no call
\* fails for ever, and time passes.  Nothing is assumed of users or of the agent.
Fairness ==
  \A r \in Releases :
    /\ WF_vars(Worker(r))
    /\ SF_vars(Gate(r))
    /\ SF_vars(Start(r))
    /\ SF_vars(Deadline(r))
    /\ SF_vars(MarkTerminal(r))
    /\ WF_vars(TimeRunsOut(r))

FairSpec == Spec /\ Fairness

-----------------------------------------------------------------------------
(***************************************************************************)
(* Properties.                                                             *)
(***************************************************************************)

\* A release is declared Released only when the agent has reported convergence on
\* that release or a later one, although the report comes through a mirror that is
\* late, a deletion that writes an older one back, and rollbacks that have the
\* revision of an earlier release.
ReleasedIsConverged ==
  \A r \in Releases : state[r] = "Released" => reported >= r

\* Nothing of a release reaches the cluster before it is InProgress, and nothing
\* of a cancelled one ever does, however the cancel races with the gatekeeper.
AppliedWasStarted ==
  \A o \in Objects : cr[o] # 0 => state[cr[o]] \notin {"None", "Pending", "Cancelled"}

\* A release is superseded only by a newer one, never by an older one.
SupersededByNewer ==
  \A r \in Releases :
    state[r] = "Superseded" => \E q \in Releases : q > r /\ state[q] # "None"

-----------------------------------------------------------------------------
(***************************************************************************)
(* The inductive invariant behind the three invariants above.              *)
(***************************************************************************)
Started(r) == state[r] \notin {"None", "Pending", "Cancelled"}

MayWrite(r) == state[r] \in {"InProgress", "Failed"}

HasNewer(r) == \E q \in Releases : q > r /\ state[q] # "None"

\* What the hub and the agent have heard of the Stack object is never ahead of it.
StatusTrails ==
  /\ reported <= cr[Stack]
  /\ converged <= reported
  /\ deleter.converged <= reported

\* An Update of the Stack object that can still succeed moves it forward.
PutForward ==
  \A r \in Releases :
    At(r, "put") /\ exec[r].target = Stack /\ exec[r].view = "current" => cr[Stack] < r

\* An execution past the gatekeeper belongs to a release that was started, and
\* that nobody but that execution itself can have ended, except as Failed.
ExecStarted ==
  \A r \in Releases :
    /\ ~At(r, "idle") => exec[r].state \in Active
    /\ exec[r].state = "InProgress" => MayWrite(r)
    /\ ~At(r, "idle") /\ exec[r].state = "Pending"
         => exec[r].pc \in {"gate", "start", "markSuperseded"}

\* An execution about to end its release has the reason for it at hand.
MarkJustified ==
  \A r \in Releases :
    /\ At(r, "markReleased") => reported >= r
    /\ At(r, "markSuperseded") => HasNewer(r)

\* The inductive invariant: each part needs the others to be preserved.
IInv ==
  /\ TypeOK
  /\ StatusTrails
  /\ PutForward
  /\ ExecStarted
  /\ MarkJustified
  /\ ReleasedIsConverged
  /\ AppliedWasStarted
  /\ SupersededByNewer

\* The Stack object never goes back to an older release: the annotation check
\* and the resourceVersion of the Update together order concurrent executions.
StackMovesForward == [][cr'[Stack] >= cr[Stack]]_cr

\* Whoever writes an object is still InProgress, or was failed by a request to
\* delete its stack: a superseded, cancelled or released release writes nothing.
WriterInProgress ==
  [][\A o \in Objects : cr'[o] \notin {0, cr[o]} =>
       state[cr'[o]] \in {"InProgress", "Failed"}]_cr

\* The releases of the stack go through their lifecycle as promised.
Lifecycle == INSTANCE ReleaseLifecycle WITH applied <- cr[Stack]
ImplementsLifecycle == Lifecycle!Spec

\* Every release that is created ends, even if the agent never answers.
EventuallyTerminal ==
  \A r \in Releases : state[r] \in Active ~> state[r] \in Terminal

\* docs/concepts/releases.mdx, of a Superseded release: "The newer release won
\* and this one stopped."  Once the newest release is Released and every
\* execution has ended, nothing in the cluster is left by a superseded one, and no
\* resource of the newest was pruned by one.
AllDone == \A r \in Releases : state[r] \notin Active /\ At(r, "idle")

NewerReleaseWon ==
  \A n \in Releases :
    AllDone /\ state[n] = "Released" /\ (\A q \in Releases : q > n => state[q] = "None")
      => /\ \A o \in Objects : cr[o] # 0 => state[cr[o]] # "Superseded"
         /\ \A x \in ResourcesOf(n) : cr[x] # 0

=============================================================================
