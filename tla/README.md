# Stackdome: verification models

TLA+ models of the Stackdome hub, the Go service under `pkg/`, with TLC
configurations that check them on small instances and TLAPS proofs of what
matters most for every instance. The modules follow the code; paths below are
relative to the repository.

1. [Inventory](#1-inventory)
2. [Modules](#2-modules)
3. [What TLC checks](#3-what-tlc-checks)
4. [What is proved](#4-what-is-proved)
5. [Not modelled](#5-not-modelled)
6. [Plan](#6-plan)

## 1. Inventory

The hub turns *stacks* (a graph of resources kept in Postgres) into objects of a
Kubernetes cluster. A deploy is a *release*: a row of `stack_releases` with a
snapshot of the stack. A worker renders the snapshot into a manifest, writes
the manifest's objects into the cluster, and waits for the cluster agent (another
program) to report that they have converged. Controllers mirror what the agent
reports into the database, from where the workers read it.

| Component | State it keeps | Operations | Talks to | Module |
|---|---|---|---|---|
| release worker `pkg/worker/release` | nothing but the row it has loaded | one execution: gatekeeper, deadline, validation, render, apply, converge | store, cluster API, queue | `ReleaseWorker`, `ReleaseDeadline` |
| release store and service `pgstore/stack_release.go`, `stack_release_service.go` | `stack_releases` | create, roll back, cancel, conditional updates of the state | handlers, worker, events | `ReleaseWorker` |
| release events `release_event*.go` | `release_events` | record (row lock, MAX, insert), stream over SSE | worker, controllers, clients | `ReleaseTimeline`, `ReleaseEvents` |
| release GC `pkg/worker/releasegc` | nothing | list terminal releases, choose, delete | store, stack settings | `ReleaseGC` |
| previews `pkg/worker/preview`, `preview_stack_service.go` | `preview_stacks` | create, sync, delete by webhook and API; worker: deprovision, provision, converge | stack and release services | `PreviewStack` |
| worker manager `pkg/worker/workermanager` | one work queue per worker | enqueue, scans at start and periodic, requeue, stop and restart | all workers | `WorkQueue` |
| transactions `pkg/db/session.go`, `atomic_executor_impl.go` | hooks in the context | nested and outermost transactions, commit, roll back, run hooks | all services | `WorkQueue` |
| stack service and store `stack_service.go`, `stack_resource_service.go`, `volume_service.go` | `stacks` and their resources, connections, volumes | replace a draft, edit one part of it, delete | validators, quota, references | `StackEdits`, `StackDraft`, `StackTeardown` |
| validation `pkg/validator`, resolution `pkg/stackdeploy` | nothing | validate resources, connections, stackfiles; resolve a snapshot | stack service, release worker | `StackDraft` |
| references and delete protection `reference_service.go` | `resource_references` | project drafts and releases, guard deletes | stack, secret, addon services | `StackEdits`, `PostgresAddon` |
| compute quota `pkg/computequota` | nothing | count what an organisation uses, under a lock | stack service | `StackEdits` |
| compute access `pkg/computeaccess` | leases, entitlements | activate with the first use | every call that uses compute | `ComputeAccess` |
| stack worker, stack and volume controllers | nothing | namespace, deprovision; mirror status | cluster, store | `StackTeardown` |
| clusters, registries `cluster_service.go`, `image_registry_service.go`, `pkg/worker/clusterimageregistry` | `clusters`, `image_registries` | add, delete, provision; mirror | cluster, cluster manager, releases | `ClusterRegistry` |
| cluster manager `pkg/clustermanager` | clients, in memory | register, unregister, start | everything that calls a cluster | `ClusterRegistry` |
| PostgreSQL addons `postgres_addon_service.go`, `pkg/worker/postgresaddon` | `postgres_addons` | create, update, hibernate, delete; provision; mirror | cluster, stacks | `PostgresAddon` |
| invitations, signup `org_invite_service.go`, `signup_service.go`, `pkg/worker/invite` | `org_invites`, `users`, memberships, Casbin roles | invite, resend, revoke, mail, expire, accept | mail, Casbin | `OrgInvites` |
| build and resource controllers `pkg/controllers/imagebuild`, `stackresource` | status columns | mirror, propagate failures | cluster | `BuildMirror` |
| auth, git, backups, CRUD services, presenters, generated API, frontend | their rows, or none | CRUD, conversions | handlers | none (section 5) |

What makes it hard:

* **Concurrency.** The queue executes one operand of a worker at a time, and
  several operands (releases of one stack, say) at once. Handlers, controllers and
  the GC run beside them. Little holds a lock across two calls: the synchronisation
  is conditional `UPDATE ... WHERE state = ...`, unique indexes, a few row locks
  and one advisory lock, and the `resourceVersion` of cluster objects.
* **Stale copies.** An execution works on a row it read once; GC deletes what it
  listed before; services read and validate before their transaction and write
  inside it; several stores save whole rows or whole JSON columns.
* **Failure.** Every call may fail, every process may stop between two calls, the
  answer to a COMMIT may be lost, and enqueues and event inserts are best effort.
  Periodic scans repair what is lost, for the operands they list.
* **Side effects in and beside transactions.** Casbin roles and cluster clients
  change outside the database and are taken back by hand.
* **Ordering.** The state of a release changes before its event exists; the agent's
  reports arrive late; a cascade deletes what someone is about to write.

What makes each component correct: a release follows its lifecycle and always ends; the
Stack object in the cluster only moves to newer releases; an event once recorded is seen by
every client, once and in order; a preview keeps its stack and earns its Ready; garbage
collection never takes a rollback target; a committed change reaches an execution; limits
and capacities are not exceeded together; what is used is not deleted; what is deleted goes
in order and to the end; what was validated in a draft resolves, each part by itself; a
failure is shown. `PROJECT.json` lists each hazard at its line with the properties that
watch it.

## 2. Modules

Eight modules are abstract: each says what the hub promises of one thing, without the calls,
copies, queues, workers and failures with which the detailed module does it, and the detailed
module is shown to implement it.

| Abstract | Detailed | Promise | Property |
|---|---|---|---|
| `ReleaseLifecycle` | `ReleaseWorker` | how the releases of a stack begin, follow each other and end | `ImplementsLifecycle` |
| `ReleaseTimeline` | `ReleaseEvents` | the events of a release, and who follows them | `ImplementsTimeline` |
| `WakeupQueue` | `WorkQueue` | wakeups are a set, each taken by one goroutine | `ImplementsWakeups` |
| `LeasePool` | `ComputeAccess` | one lease of an organisation, all of them within the capacity | `ImplementsPool` |
| `AddonLifecycle` | `PostgresAddon` | an addon and its cluster, from creation until its row is gone | `ImplementsAddonLifecycle` |
| `StackEnding` | `StackTeardown` | a stack goes from the outside in, and its namespace row last | `ImplementsStackEnding` |
| `Admission` | `OrgInvites` | an organisation has one open invitation to an address, each admits one user, the address gets one | `ImplementsAdmission` |
| `ClusterInventory` | `ClusterRegistry` | clusters, registries and objects stand on what there is | `ImplementsInventory` |

The others are components of their own, which meet
where one models the promise of another: `ReleaseWorker`, `PreviewStack`,
`StackTeardown`, `PostgresAddon` and `ClusterRegistry` assume of their queue what
`WorkQueue` shows of it (one execution per operand, a change that is listed is
executed); `PreviewStack` assumes of stacks and releases what `StackTeardown` and
`ReleaseWorker` show. `MC...` modules are instances for TLC, `...Proofs` hold theorems.

Components that do not meet share a wrapper, which instantiates each under a name of its
own, states what is assumed of its constants and names its properties: `Editing`
(`StackEdits`), `Services` (which extends it by `ComputeAccess`, `StackTeardown`,
`PostgresAddon`, `OrgInvites` and `StackDraft`) and `Building` (`BuildMirror` and
`ReleaseDeadline`). The TLC instances `MCEdits`, `MCServices` and `MCFair` and the proofs
`StackProofs` and `ServicesProofs` extend the same wrappers, so that what is checked and what
is proved are the same formulas under the same assumptions.

A property is named like the hazard it is about, and each has a seeded fault in its
module (the definitions commented "Seeded fault"): a plausible mistake in that code,
which the property catches.

### ReleaseWorker

A release is its sequence number (unique per stack). `state`, `rendered` and
`content` are columns of its row: `content[r]` names the deploy whose snapshot
`r` has, which is all a rollback copies. `exec[r]` is the execution of `r`: its
`pc` names the next database or cluster call, beside the copy of the row, the
object it is writing, and what its last Get saw of it (`view`). `cr[o]` is the
release-id annotation of cluster object `o`.

| Action | Code |
|---|---|
| `RequestDeploy`, `RequestRollback`, `CreateRelease`, `AbortRequest` | `CreateRelease`, `RollbackRelease`, `createReleaseForStack`, store `Create`; guard and INSERT are two steps because pins are resolved in between |
| `CancelRelease` | store `Cancel`, UPDATE from Pending |
| `DeleteStackRead`, `...FindActive`, `...FailActive`, `...Stamp`, `AbortDelete` | the calls of `InternalDeleteStack`; the last writes the status back as it had been read |
| `Load`, `Gate`, `Start` | `Execute`, gatekeeper; `MarkInProgress` is conditional |
| `Deadline`, `Validate`, `Render`, `RenderFails` | their reconcilers; `SaveManifest` is conditional |
| `Apply`, `GetStack`, `GetResource`, `PutOK`, `PutConflict`, `ApplyFails` | `apply.go`: Get, compare, Create or Update with the resourceVersion |
| `ListOrphans`, `Prune`, `PruneEnds` | `pruneStackResources` |
| `Converge`, `MarkTerminal` | `converge.go`; `Mark` is the table of the conditional UPDATEs |
| `Abort` | any error that requeues, or a crash, at any call |
| `MirrorStatus` | the stack controller |
| `AgentReportsConverged`, `AgentBuildFails`, `TimeRunsOut` | the world outside |

Abstracted: manifests to the name of their snapshot; the two clocks of the
deadline reconciler to `overdue[r]` (`ReleaseDeadline` has them); validation and
rendering to a choice of outcome; the outcome of a return (stop, requeue, requeue
later) to a return, since the scan of active releases may start the next execution
at any time. Left out: the secrets the worker syncs (before the objects modelled,
and idempotent), the simulator (test environment only), and `stacks.cr_revision`,
which is only displayed. The registry prerequisite is in `ClusterRegistry`. A row is
never deleted here: that is `ReleaseGC`. Only one create request and one delete
request are in flight at a time.

### ReleaseDeadline

The two clocks of `deadline_reconciler.go` in time units since the creation of one
release: the lifetime cap, and the convergence timeout, whose start is stored in the
row (`clock`) when the builds are done and cleared when one runs again. An execution
is `Load`, `Decide` (the reads of build rows and of the time), and then `Stamp`,
`Clear` or `Fail`; `Aborts` is any error. `BuildBegins` and `BuildEnds` are the rows of
builds as the controller writes them, `Ends` everything else that ends a release, and
`Tick` passes time.

### ReleaseEvents

An event is its dedupe key; the log is the committed rows by sequence. `tx[w]`
is the transaction of writer `w`: `Lock` (SELECT ... FOR UPDATE of the
release), `ReadMax`, `Insert` (ON CONFLICT DO NOTHING, and the commit), and `Lose`
for an error or a crash. `StartRelease` and `EndRelease` change the state first
and only then have an event to record. The stream is `Poll`, `Send`, `Check`,
with `Disconnect` and `Connect` for its client.

### ReleaseGC

`rows` of (id, sequence, state), `Create`, `End`, `UpdateSettings`, and the worker's
three calls `GCLoad`, `GCList`, `GCDelete`. `Keep` says in set notation what
the loops of `releaseIDsToGC` keep. The loops are in the module too (`bySeqDesc`, `Fill`,
`LoopKeep`, as functions of the index they have reached), and `KeepIsTheLoop` says that both
keep the same, whatever the settings.

### PreviewStack

`row[i]` is row `i` of `preview_stacks`; `request[h]` is a handler past its
guards with the copy of the row it will save, `exec[i]` the execution of preview `i`
with the copy it has read.

| Action | Code |
|---|---|
| `CreateRead`, `CreateInsert` | `provisionPreview`: lookup and count; the INSERT with its unique index |
| `SyncRead`, `DeleteRead`, `Save` | `syncPreview`, `deletePreview`; the whole-row `Update` at their end |
| `DropRead`, `Drop` | deletion of the configuration: the count; the DELETE, which cascades |
| `Load` | `Execute` of the preview worker |
| `Deprovision`, `Erase` | the deprovision reconciler, with `MarkDeleting` for `InternalDeleteStack` |
| `ProvisionFails`, `UpToDate`, `Sync`, `Create` | the provision reconciler; the last two are its transactions |
| `Converge`, `SaveCopy` | the converge reconciler and its `Update` |
| `GiveUp`, `AbortRequest` | any error, or a crash, at any call |
| `ReleaseEnds`, `DeleteStack`, `StackGone` | the release worker, a user, the stack worker |

Abstracted: a commit stands for all a deployment is made from, the pasted
stackfile and image overrides included; the two force-sync times for whether a
forced sync is pending; a release for its outcome (`ReleaseWorker` has the
rest); the pull-request comment for whether it must be posted again. Left out: edits
of a configuration, edits a user makes to the stack of a preview (the code
refuses its deploys and rollbacks), and the caches of stackfiles.

### WorkQueue

How a committed change reaches an execution. `request[r]` is a goroutine with its
transaction, the rows it has written and the hooks it has registered. `queue`, `dirty`
and `processing` are the three collections of client-go's work queue, `later` what
waits in `AddAfter`. `behind` are the operands with a committed change that no finished
execution has seen.

| Action | Code |
|---|---|
| `WithTransaction`, `ReturnNested`, `Rollback` | `WithTransaction`: a nested call joins the outer one and its hooks; an error drops them |
| `Write` | a store call and `RegisterPostCommitHook` for its enqueue |
| `Commit`, `CommitUnknown` | `COMMIT`, and one that took place although its answer is an error |
| `RunHook`, `HooksEnd` | the hooks, in order, after the commit; a crash loses those left |
| `List`, `Enlist`, `ListFails`, `Tick` | `GetInput` at start, once, and periodically; an error is logged |
| `Get`, `Load`, `Succeed`, `ComeBack`, `Done` | `processItem`: the operand, the row it loads, success, or error and requeue |
| `Stop`, `Restart`, `Crash`, `StartGoroutines` | shutdown, restart of the hub, the goroutines |

Delays are not modelled: an operand that waits is added at any time.
`MaxOperandRequeue` is `math.MaxInt32`, so that retries have no bound. In `WakeupQueue` what
is dirty is `pending`, and `executing` says who executes what.

### ClusterRegistry

The clusters of one organisation, the image registries on them, the object of each
registry in its cluster, and the clients the cluster manager holds.

| Action | Code |
|---|---|
| `AddBegin`, `AddInsert`, `AddRefused`, `AddCommit`, `AddRollback`, `AddCommitUnknown`, `Compensate` | `AddCluster`: lock of the organisation, INSERT, registration of the client inside the transaction, and its removal when that fails |
| `DeleteCluster`, `CreateRegistry`, `DeleteRegistry` | the calls of the API |
| `Execute`, `Running`, `Provision`, `Ensured`, `Remove`, `EachEnds`, `UnregisterCluster`, `DeleteRow`, `Fails` | the registry worker, for every registry as it was listed, and the end of a cluster |
| `MirrorRead`, `MirrorWrite` | the registry controller; the write is a blind UPDATE of the state |
| `PrereqRead`, `PrereqEnsure`, `PrereqFails` | a release that makes sure of its registry |
| `Use`, `Leave` | stacks and addons with a foreign key to the cluster |
| `ObjectGone`, `Crash` | Kubernetes finishes a deletion; the hub stops and registers clients again |

In `ClusterInventory` a registry only is or is not there (`Presence`), and has a `Place` while
it is: the state a row says it is in, which controllers and workers overwrite, is no part of
the promise. Its `Make` lets a release that looked a registry up make an object after the row
has gone, which is what the code does.

### StackEdits

Concurrent edits of one draft, each in a READ COMMITTED transaction, with the row locks
they take. `request[r]` has what was read before the transaction and what the
transaction holds. `Begin` reads and validates, `Admit` takes the quota lock and counts,
`Replace`, `Edit` and `AddVolume` write, `Project`, `Clear` and `Insert` are the
projection of the references, `Commit` and `Fail` end the call. `CreateRelease` and
`EndReleases` are the references of releases; `DeleteCheck` and `DeleteSecret` the two
steps of deleting a secret. The same module with the cloud policy is the instance for
the quota.

### StackDraft

Which drafts may be saved, and what a release makes of them. A resource is the names
of its ports, those of its public ports and, once it is saved, of the ports that have a
hostname; its dependencies, its environment variables, and the outputs of its own that
these use. A connection is its kind, its ends, the variables it sets, the outputs it uses
and whether a template does. `ValidResource`, `ValidConnection(s)` and `ValidStack`
translate the validators; `DraftResolved` translates `Resolve` of `pkg/stackdeploy`, with
`Resolves` for one connection, `SelfResolves` for the variables a resource has of its own
and `MappedTwice` for variables that are set twice, which fail a release
(`appendWithoutDuplicates`). `DeclaredOutputs` and `OutputMap` are the two functions that
name the outputs of a resource: the validators ask the one, the resolvers the other, and the
other has no public name for a port without a hostname. `Hosted` is what a save makes of the
resource it was sent: each public port gets a hostname in the same transaction
(`finalizeExposedPortsForResourceWithTx`). `Check` validates a call against what it reads;
`SaveCreated` ... `SaveReplaced` are the transactions of the seven calls, with the
cascades of foreign keys; `GiveUp` is any error.

### ComputeAccess

The leases of managed compute, one per organisation, and calls that activate one:
`Begin`, `Find` (SELECT ... FOR UPDATE of the lease), `AdvisoryLock`, `Activate`, `Issue`,
`Commit`, `Rollback`. `CleanUp` is the platform, outside the repository, that ends leases.
In `LeasePool` a call relies on a lease from the moment it is granted to its end: a lease
somebody relies on is not cleaned up.

### StackTeardown

The end of a stack: `DeleteStack` stamps the row and `Enqueue` is its hook. The worker is
`ListInput` or `ListFails`, `Execute`, then `EnsureNamespace` for a live stack or, one call
after the other, `DeleteStackCR`, `DeleteVolumeCRs`, `DeleteNamespace`, `DeleteStackRow`,
`ListVolumes`, `DeleteVolumeRow`, `DeleteNamespaceRow`. `StepFails` and `Crash` cut it off
anywhere. Meanwhile `AddVolume` calls come in, the volume worker (`LoadVolume`,
`CreateVolumeCR`) and a release loaded earlier (`LoadRelease`, `Apply`) put objects into the
namespace, and controllers write status (`MirrorStack`, `MirrorVolume`). The stack worker
has no interval: what it lists when the hub starts is all it lists, and an error of that is
only logged (`worker_manager.go:179`). The calls on a single volume of a stack that lives on
are left out; one that deletes an unused volume (`volume_service.go:313`) would empty a
namespace, which `StackEnding` does only at the end of a stack. `StackEnding` sees the rows,
the namespace and whether anything is in it.

### PostgresAddon

One addon with its PostgresCluster. A call is `Read` (before the transaction), `Write` or
`MarkDeleted` and `SetDeleting`, and `Enqueue` (after it). The worker is `ListInput`,
`Execute`, `Surround` and `Apply`, or `CheckUse`, `DeleteCluster`, `DeleteRow`; the
controller `Observe` and `UpdateStatus`; a stack that uses the addon `Bind`, `CommitUse`,
`Unbind`. A specification is a size, which updates change, and one switch that stands for
hibernation and fencing. `Surround` makes all that comes before the cluster: its namespace,
the catalog of images, the store of its backups and the secrets; `surroundings` says that
there is something of it, also when it was cut off (`PartlySurround`). The deprovision
reconciler deletes the PostgresCluster and nothing else, so that they are left behind when
the row is gone. In `AddonLifecycle` the worker's question whether the addon is used
(`CheckUse`) approves its end, and nothing else does.

### OrgInvites

Invitations to one address, by any organisation (`InvitedTo` names the one each is of), and
signups with it. Administrators: `CreateCheck`/`Create`, `RevokeCheck`/`Revoke`,
`ResendCheck`/`Resend`, `Enqueue`. The mailing worker: `Execute`, `MarkSent` (which holds
the row), `SendMail`, `CommitSent`, `MailFails`. The cleanup worker: `ListExpired`,
`DeleteExpired`. A signup: `Validate`, `Accept` (a conditional UPDATE), `CreateInvited`,
`AddMember`, `GrantInvited`, or `InsertUser` and a `Grant` for each role of an organisation
of its own; then `Commit` or `CommitFails`, and `Undo` for the roles in Casbin.

An organisation has one pending invitation to the address, which `CreateCheck` looks for and
the partial unique index keeps; those of different organisations go side by side. `Admission`
sees of a row whether it is pending, has been or is not yet (`Open`, `Closed`),
and whether it is marked (`Sent`); of the signups who has accepted which invitation
(`Admitted`), and whose row the address belongs to (`Owner`). Looking, waiting and holding a
row are invisible there, and so is whether a closed invitation was accepted, revoked or
deleted: the rows of accepted invitations do change (`AcceptedStays`, below).

### BuildMirror

One resource and its image build. The controller of StackResource objects is
`LoadResource` and `WriteResource`, that of ImageBuild objects `LoadBuild`, `CreateRow`,
`Propagate`, `Record`; both write the status column of the resource from copies.
`AgentResource` and `AgentBuild` change the objects, `Resync` delivers them again.

## 3. What TLC checks

| Run | Bounds | Shows |
|---|---|---|
| `contention` | 2 releases, 1 resource both have | `ReleasedIsConverged`, `WriterInProgress`, and that `IInv`, the invariant of the proofs, holds |
| `three` | 3 releases, 1 resource, which the last one no longer has; no deletion, failed build or deadline | two updates of the Stack object race, a conflict results, and the object never goes back; `ReleaseWorker` implements `ReleaseLifecycle`, also when the newest release prunes |
| `live` | 2 releases, no resources, no deletion, no failed build | every release ends |
| `newer_won` | 2 releases, 1 resource | a disagreement with the docs, below |
| `events` | 2 writers, 1 report key, pages of 2 rows | nothing lost, exact prefix, the stream ends |
| `preview` | 1 preview, 2 commits, 1 request at a time, 2 stacks and 2 releases ever | Ready is earned, the stack never lost, a deletion ends |
| `preview_deletion` | the same with 1 stack ever | a disagreement with the docs, below |
| `queue` | 2 operands, one of them listed, 2 goroutines, 1 request, 1 crash | no wakeup is lost, and the queue implements `WakeupQueue` |
| `edits` | 2 clusters, 2 registries, 2 calls; 1 resource, 1 connection, 1 name of volumes, 2 calls | clusters with their registries and clients; edits of a stack with its references |
| `services` | see `MCServices`: 4 releases ever; 2 organisations, 2 calls, a lease; 2 resources, a limit of 1, 2 calls; 1 volume, 2 failures; 1 call, 1 failure; 1 invitation, 2 signups, 1 administrator, 1 failure; 3 invitations of 2 organisations, with 2 administrators or with 2 signups; 2 resources, 2 shapes, 2 stackfiles, 2 calls | seven components |
| `fair` | 1 operand, 1 crash; 1 cluster with 1 registry; 1 build, 1 failure; 2 builds, 7 units of time | liveness of the queue, of clusters and of the deadline, and what is exhaustive beside them |
| `build_failure` | 1 build, 1 failure | a disagreement with a comment, below |

`edits`, `services` and `fair` each check several components that share nothing: the
variable `component` is chosen at the start and only that component moves, so that the
state space is the sum of theirs and a property of one says nothing of the others.

Why the bounds are enough: every hazard of the release worker but one is between *two*
releases of a stack (an older and a newer one), the deletion and a request. That one takes
three: two releases can only race to update the Stack object when a third has created it.
`three` has them, without the deletion and the clocks, which together with a third release
are beyond five minutes of TLC; the proofs cover every number of releases with everything.
One resource suffices for contention, because writes of different resources do not interact
except through the Stack object. A lost update of a preview takes one request beside the
worker; two stacks and two releases let the stack be deleted and made again, and a release
be superseded; several pull requests and requests at a time are in the proofs. Four distinct
keys and pages of two rows force a stream over several pages. Four rows let the GC delete
and be followed by new releases. In the queue, one goroutine executes an operand while
another may want it, and two operands let one be listed and the other depend on its hook
alone. The races of services are between two calls, or a call and a worker, about one row;
two calls, one row and one failure contain them, and two failures (of the teardown) a
failure within the recovery from another. Invitations have three instances: one invitation with
mails, expiry, a failure and liveness (`component` is "invites"); two administrators and the
invitations of two organisations, of which one may invite twice ("rivals"); and the same
invitations with two signups ("guests"). The last two leave out failures and mails; the
proofs have all of it together. The settings of the GC are the four pairs of `RoomyAndTight`,
with limits above, at and below the number of successful releases to keep. In `StackDraft` two
names are enough for a circle of dependencies, two shapes for a resource that gains a second
port (and thereby renames its outputs), and two calls for one that saves an outdated copy;
the proofs have any of each. Two builds let one start after the other has ended, and time
runs past both clocks.

### The properties

Releases. `ReleasedIsConverged`: Released means the agent has reported convergence on that
release or a later one, not on an earlier one with the same manifest, not on a report that
was never made. `StackMovesForward`: the Stack object never goes back. `WriterInProgress`:
only a release that is InProgress, or was failed from outside by a deletion, writes an
object. `ImplementsLifecycle` is the refinement; `EventuallyTerminal`. `RecordedOnce`,
`ImplementsTimeline`, `StreamEnds` are about events: no insert is swallowed, and the log and
what a client has of it change as `ReleaseTimeline` says, from which it follows that the
client always has a prefix of the log; `KeepIsTheLoop`, `RollbackTargetsKept`,
`HistoryMovesForward` about garbage collection: the last says that a release that is deleted
leaves a newer one behind, so that its sequence is not given again, where the limit is above
the number of successful releases to keep, and a Released one does so at any limit.
`DeployWindowKept`: a release fails to converge only after the whole timeout since its last
build ended, unless that build began and ended between two executions; `DeadlineEnforced`:
it ends also when a build never appears.

Previews. `ReadyIsReleased`, `StackKept`, `DeletionEnds`.

Queue. `WakeupKept`: while a committed change is unseen, something that leads to an
execution which will load it is there (on the queue, waiting, in a hook, in a scan, or an
execution that has still to load), unless a crash, a shutdown, a lost answer to COMMIT or a
failed scan took it. `ImplementsWakeups`: with its order and its marks the queue is a set of
wakeups, and no operand is executed by two goroutines. `EveryChangeHandled`: where
`GetInput` lists the change and the worker is periodic, it is handled whatever was lost.

Clusters. `OneCluster`, `ClientsMatchRows` (a client belongs to a cluster, and a live
cluster has its client, through rollbacks and compensations), `ImplementsInventory` (the row of
a registry stays until its object is gone, that of a cluster until nothing is on it, nothing
comes back, and whatever is made is made of what is there), `ClusterDeletionEnds`.

Drafts. `QuotaKept` and `VolumeNamesUnique`: calls at the same time do not exceed a limit
or double a name together. `ReferencesMatchDraft`; `UsedSecretsKept`. `ValidatedResolves`: no
sequence of calls makes a draft with a circle of dependencies, with a variable that uses an
output of its own resource which has no value, or with a connection that was validated,
whose ends have not changed since, and that does not resolve by itself. It does not say that
such a draft can be released (`DraftResolves`, below).

Other services. `CapacityKept` and `ImplementsPool`: leases never exceed the capacity, an
organisation has one, and a lease in use is not cleaned up. `ImplementsStackEnding`,
`NoRowLeft`, `StackDeletionEnds`: the row of a stack goes after what it has in the cluster,
and takes the rest with it, and a stack that was marked goes unless a crash took it off the
queue and the listing at the next start failed (`Forgotten`). `ImplementsAddonLifecycle`: an
addon is deleted once, its cluster is taken down only after it was found unused, made only
while it has a row and in surroundings made before, and does not run on without a row;
`ChangeNotForgotten`. `ImplementsAdmission`: an organisation has one invitation open at a
time, each is closed once, by the one user it admits or by nobody, and marked as sent after
its mail; `GrantsMatchRows`, `InvitationMailed` (`InvitationMailedHere` in the run, which
asks for it where mails are sent). `FailureShown`: a recorded failure of a build is shown.

Several exclude by a history variable the race the code does have: an edit on an outdated
copy (`stale`, `crossed`, `raced`), a use that slips past a check (`raced`), a crash at the
one place nothing repairs (`lost`, `interrupted`, `doubt`). Each such variable is set where
the race happens, and its module says what remains true without it. A property with such an
exception does not watch the exception itself: `ChangeNotForgotten` leaves out what a crash
took; `FailureShown` the failures no controller saw, those that crossed a write of another
controller and those another state hides, of which the run `build_failure` has one;
`NoRowLeft` the end that was interrupted. And `live` deletes no stack, so that a release
which a deletion has failed is watched by `WriterInProgress` and the proofs alone.
`PROJECT.json` says so at each hazard.

### Fairness

* `ReleaseWorker`: weak fairness of an execution (the queue and the
  30-second scan of active releases, `GetInput`), strong fairness of `Gate`, `Start`,
  `Deadline` and `MarkTerminal` (a database call that is tried again and again
  does not fail for ever, although any one may abort), and weak fairness of time.
  Nothing is assumed of users, of the agent or of the cluster API, so an apply
  that errors for ever still ends by its deadline.
* `ReleaseEvents`: the streaming goroutine runs.
* `PreviewStack`: weak fairness of the worker (the 30-second scan of previews that have
  not ended), strong fairness of `Load`, `Deprovision` and `Erase` as above, and weak
  fairness of `StackGone`, the promise of the stack worker.
* `WorkQueue`: goroutines, the manager and the queue go on (weak); a query and an
  execution that are repeated for ever succeed at last (strong: `LoadOf`, `Handle`, `List`).
  Nothing of requests, whose hooks may never run.
* `ClusterRegistry`: the worker runs (weak); its calls succeed at last (strong: `Remove`,
  `EachEnds`, `UnregisterCluster`, `DeleteRow`); Kubernetes finishes a deletion.
* `StackTeardown`, `OrgInvites`, `ReleaseDeadline`: the worker and the hook or time go on
  (weak); failures are bounded by `MaxFailures`, which is what makes weak fairness enough.
* `BuildMirror`: states fairness of its controllers, used by the run of the disagreement.

### Where the code and the docs disagree

1. `newer_won`: `docs/concepts/releases.mdx:121` says of a
   Superseded release "The newer release won and this one stopped". The check
   against the Stack object is made once; an older release past it still
   overwrites (`apply.go:292`) or prunes (`apply.go:312`) resources of the newer
   one, which may be Released by then. Nothing repairs them until the next deploy.
2. `preview_deletion`: `docs/guides/preview-environments.mdx:162` says "The `closed`
   event starts the teardown"; a save of the worker may undo the deletion, and a
   closed pull request keeps its environment.
3. `build_failure`: "a build failure must not be silently dropped"
   (`image_build_controller.go:395`, and 181-183 on the order of the writes); a build first
   observed as failed has its row created with the hash of that status, and is never
   propagated (line 225). Besides, the controller of resources overwrites a failure from
   an older copy.

Stated in the modules, false of the code, and without a run:

* `TerminalEventSent` (`ReleaseEvents`): `release_event_streamer.go:73` says the terminal
  event "always gets emitted before close"; the stream closes 300 ms after its first
  empty poll whether or not the insert has come.
* `ReadyRunsCommit` (`PreviewStack`): the guide, line 119, says that a push "Syncs the
  existing environment to the new head commit"; a sync that saves an old copy brings back
  the last applied commit with it, and the preview is Ready at a commit its stack
  does not have.
* `StackGoesFirst` (`PreviewStack`): the guide, line 166, says that a teardown deletes the stack
  and "then removes the environment record". A deletion that read the row before the worker
  created the stack saves its copy over it (`preview_stack.go:52`): the row no longer names the
  stack, the deprovision reconciler finds none to delete and the row goes, while the stack
  stays, owned by nobody, and its unique name refuses every new preview of that pull request.
* `RegistryDeletionSticks` (`ClusterRegistry`): the blind UPDATE of the controller puts a
  registry that is being deleted back to another state.
* `UsedSecretsStay` (`StackEdits`): `docs/guides/environment-variables.mdx:80` says that a
  referenced secret cannot be deleted; a draft or release committed between the check and
  the DELETE can.
* `VolumesGoWithStack` (`StackTeardown`): `docs/deploy-first-app.mdx:158` says that deleting a
  stack removes its volumes; a failure after the row of the stack is gone leaves the rows
  of volumes, for good.
* `AcceptedStays` (`OrgInvites`): an accepted invitation may be marked as revoked or deleted.
* `HistoryNeverMovesBack` (`ReleaseGC`): with `release_retention_limit` at or below
  `min_successful_releases`, which the validator accepts (`stack_validator.go:228`), a newest
  release that is not Released can be deleted and its number given again, against
  `docs/concepts/releases.mdx:207`. `HistoryMovesForward` is what is true of all settings.
* `DeletionAlwaysEnds` (`StackTeardown`): after a crash and a start at which the input of the
  stack worker could not be listed, a stack stays Deleting until the next start.
* `NothingLeft` (`AddonLifecycle`): what surrounds the database of an addon stays in the
  cluster when the addon is deleted (`deprovision_reconciler.go:55`).
* `DraftResolves` (`StackDraft`): two connections into a resource, or a connection and the
  resource, may set one environment variable; that is validated and saved, and the release
  fails (`env.go:240`), as `docs/guides/environment-variables.mdx:231` says.
* The cases `Fits` of `StackDraft` leaves out are accepted and fail every release: a
  template over values of a secret or an addon (`env.go:158` and 181, although
  `docs/reference/stackfile.mdx:178` says "Templates are fine and may mix any outputs"), a
  mount from a resource or onto a volume, an artifact from a secret. The connections `unchecked`
  leaves out may dangle: a second port renames the outputs of the first, and existing
  connections are not validated again; with two dangling connections, neither can be
  changed, because each call validates all others. And of two concurrent updates each
  validates against siblings read before its transaction (`stack_resource_service.go:160`),
  so that together they can close a circle (`raced`).

Noticed, and not stated: the docs give the deploy timeout as 15 minutes and a
setting (`releases.mdx:154`), the code has a constant `convergenceTimeout` of
45; a sync that saves an old copy of a preview may put back a superseded
release, which is then polled until the next sync (`converge_reconciler.go:65`);
deleting a preview configuration counts no Failed preview and leaves the stacks
of those it takes; two webhooks at once exceed the limit of active previews; the
comment of `converge.go` on polling precedes the lifetime cap of the deadline
reconciler; the GC's scan uses the default limit whatever a stack's own is; a call that
waited while another activated compute may be refused as inactive, having read the time
before; an update of an addon resets its hibernation.

## 4. What is proved

All for every value of the constants that satisfies the assumptions, and from nothing
else. TLAPS checks every leaf.

**`ReleaseWorkerProofs`**: for every number of releases, set of resources and choice of
snapshots (from the assumptions that `MaxReleases` is positive, that snapshots are sets of
resources and that the Stack object is not one of them), `Invariance`, `TypeCorrect`,
`ReleasedStaysConverged`, `OnlyStartedApplied`, `OnlyNewerSupersedes`, `StackOnlyForward`,
`OnlyWritersWrite` and `LifecycleImplemented`. None of the invariants is inductive alone.
`IInv` adds four facts:

* `StatusTrails`: what the agent has reported, what the stack row has mirrored and
  what a deletion will write back never run ahead of the Stack object;
* `PutForward`: an Update of the Stack object that can still succeed moves it
  forward: the view of an execution becomes stale with any write in between;
* `ExecStarted`: an execution past the gatekeeper belongs to a release that is
  InProgress or was failed by a deletion;
* `MarkJustified`: an execution about to end its release has the reason at hand.

A release is Released because of `MarkJustified`, which rests on `StatusTrails`, which rests
on the Stack object moving forward, which rests on `PutForward`. `LocalStep` proves once
that a step that only changes the copy of one execution preserves `IInv` if the new copy
satisfies `ExecOK`; each action that writes a row or an object has a lemma of its own. For
the refinement, `RenderedInv` adds that an execution that applies has a rendered row, that
no row that was not created is rendered, and that the source of a rollback is Released; each
action then maps to the one of `ReleaseLifecycle` it is named for, or to none, `cr[Stack]`
being what is applied.

**`ReleaseEventsProofs`**: for every set of writers and reports and every page size (from the
assumptions that pages are not empty and that reports have keys of their own),
`NothingDropped` and `StreamIsPrefix`. The strengthening says that a writer between
its lock and its insert is the only holder of the lock and has the current
MAX (`TxHoldsLock`), and that the cursor is the number of rows the client has
(`CursorIsReceived`). `TimelineImplemented` is the refinement: with `WritersReport`, that a
writer has an event to record only once it has happened, an INSERT that adds a row is the
`Record` of `ReleaseTimeline`, a frame is its `Receive` whatever page it came with, the
conditional UPDATEs are `Start` and `End`, and every other step is not seen.

**`PreviewStackProofs`**: for every number of pull requests, requests in flight, previews,
stacks and releases, `PreviewInvariant`, `ReadyCorrect` and `StackNotLost`. The
difficulty is that any copy of a row may be saved at any later time. `CopyOK` says
what every copy, however old, keeps for ever: its stack was made for its preview, its
release is of that stack, and a Ready in it was earned. `Stable` is the condition on
a step under which copies stay so, and each step that changes stacks or releases
is shown `Stable`. `ExecOK` adds that an execution knows of every stack of its
preview, since nobody else makes any, and `RequestOK` that a sync only saves copies
with a stack; with `NamesUnique` there is then never a second stack.

**`WorkQueueProofs`**: for every set of operands, goroutines and requests, any nesting of
transactions and any number of crashes, `Invariance`, `NotTwiceAtATime`, `NoWakeupLost` and
`WakeupsImplemented`. `WakeupKept` needs that no two goroutines execute one operand and that
the queue is exactly what is dirty and not being processed (`OneAtATime`, of which
`NotTwiceAtATime` is the part to read), that an open transaction has a hook for every row it
wrote (`HooksOfWrites`), and that a scan has a list only while it enqueues it
(`ScansInOrder`). The heart is the case of a change committed while an execution that loaded
the old row runs: the operand is dirty again when its hook has run, and `Done` puts it back
on the queue. `WakeupsImplemented` is the refinement: what `Get` takes from the head of the
queue is a wakeup that nobody has, since it is dirty and not processed, and `Done` gives the
operand back whether or not it is dirty again.

**`ReleaseGCProofs`**: for every number of releases and any settings, those with a limit at
or below the number of successful releases included, `RollbackTargets` and `HistoryForward`.
At most `minSuccessful` releases are kept for being Released (`FewSuccessful`: the number of
newer ones maps them one to one into `0 .. minSuccessful - 1`), so that with a higher limit
the newest release is kept (`NewestKept`); and the newest Released one is kept for being
Released, at any limit (`NewestReleasedKept`). `DoomedOK` says that what the query found
still holds at the delete: a release that ends in between only adds to the newer ones.
`NextSequenceIsNew`, that MAX + 1 is above every sequence there is, keeps sequences apart.

`KeepTheLoop` proves `KeepIsTheLoop`, that all this is about the loops the code has. The
loops are functions with values on the integers, and a fact of every index would need
induction; instead the least index at which it fails is looked at (`LeastBreak`), before
which it holds. The sorted releases are what is newest first (`bySeqDesc`), so that after
`n` steps a loop has kept the newest of the first `n`, up to its bound; at its end it either
has reached its bound or has kept all there are.

**`ClusterRegistryProofs`**: for any clusters, registries and calls, finite or not, from the
assumption that what a cluster reports of a registry is a state, `AtMostOneCluster`,
`ClientsCorrect`, `ObjectsHaveRows`, `InventoryImplemented` and `DanglesNowhere`. The row of
the organisation has one holder (`LockedOnce`) and while a call has inserted a cluster there
is no other (`AddOK`), hence `UniqueCluster`. `ExecOK` says that the copies of the worker
only name registries with rows on their own cluster, so that no object is made without a
row, and that a client and a row go only when their cluster is being deleted.

The refinement needs more than that invariant. `Given` says where ids are: a registry that
was inserted has a home that never changes (`HomesStayGiven`), and what the copies of the
worker, the controller and a release name was there once (`LookedUp`, `KnownStays`), so that
a stale write never makes a registry that was not. A call of `AddCluster` that inserts is
not seen until its COMMIT, which is `AddCluster`, and its rollback wastes the ids it had; a
lost answer leaves the cluster there. `DanglesNowhere` is then proved of the few actions of
`ClusterInventory` and carried over: what stacks, registries and objects of the worker stand
on has a row.

**`StackProofs`** has what happens to one stack in three parts, from `Editing` and `Services`.

*Drafts*: for every set of names, shapes, connections, volumes, external outputs and calls,
finite or not, and stackfiles whose resources have such names, `DraftInvariance`,
`DraftTypes` and `DraftsResolve`, which is `ValidatedResolves`. `Sound` says what a draft
that was never saved from an outdated copy is: no circle, every output used of one's own
declared, every validated connection valid. It is not inductive, since a call saves what it
validated earlier. `FreshAccepted` closes the gap: a call since whose validation nothing was
saved (`current`) would still be accepted by the draft there is now. `ValidResolves`, that
what the validators accept and resolution has a case for does resolve, relates the two
functions that name outputs, which agree on a resource that was saved, since a save gives
its public ports their hostnames. Variables that are set twice are beyond it: nothing
prevents them.

*Teardown*: for any volumes and any bound on failures, `TeardownInvariance`,
`ClusterGoesBeforeTheRow`, `NoRowStays`, `StackEndingImplemented` and `NothingLeftBehind`.
The row of the stack tells nobody whether its namespace is gone; the step of the worker does
(`GoneByStep`: a worker that takes down has a stack that was deleted, and no namespace lives
once it is at the DELETE of the row or the row is gone), and once it is gone, the list it
read of the volumes still covers those there are (`RowsGoByStep`), since a call can add a
volume only to a stack that has a row. `InNamespace` says that without a namespace no object
is left. With these facts each step of the worker is the step of `StackEnding` it is named
for, a failed one or a repeated one is not seen, and the late writers can only fill a
namespace that lives. That nothing is left behind once the row of the namespace is gone
follows from the order `StackEnding` keeps (`EndingOrder`), without another look at workers.

*Edits*: for any calls at once, with the policy of the cloud or without, and finite sets of
resources and connections, `EditsInvariance`, `QuotaHolds`, `VolumeNamesStayUnique`,
`ProjectionFollowsDraft` and `UsedSecretsAreKept`. The locks carry the first two: at most one
transaction holds the row of the stack, and in the cloud at most one has passed the policy
(`OneHoldsStack`, `OnePassedPolicy`), so that what it counted or looked up still holds when it
writes (`Room`, `NewVolumes`). Edits of single parts lock no stack; for them
`ProjectionCurrent` says that what a projection read is still so, unless another edit was
committed since, which is what the property excepts.

**`ServicesProofs`** has the other services and controllers, from `Services` and `Building`,
each part with an invariant of its own, for any calls, users, addresses, builds and
timeouts and any bounds on time and failures:

* `ComputeAccess`: `AccessInvariance`, `CapacityNeverExceeded`, `AccessStaysHeld`,
  `PoolImplemented`. The advisory lock has one holder until its transaction ends
  (`AccessFirstOnce`), so what was counted is still so at the commit (`AccessRoomLeft`),
  which is where the refinement has its `Issue`; a call that validates a lease holds its
  row, and begins to rely on it.
* `PostgresAddon`: `AddonInvariance`, `UsedAddonStays`, `ChangeIsOnItsWay`,
  `AddonLifecycleImplemented`, `NothingRunsOn`. `WorkerFits` is what the refinement adds:
  what the worker is about to do was right of the addon when it looked and has stayed so,
  since a deletion is not undone. That no cluster of an addon runs once its row is gone, or
  ever without its surroundings (`NothingRunsOn`), is proved of `AddonLifecycle`. `UseSeen`:
  after the worker's check has passed, no use of the addon is committed that it has not
  seen, but for the recorded race. `UpToDate`: when neither the queue nor a hook will bring
  the addon back to the worker and no crash lost it, the worker has loaded the specification
  of the row or applied it already.
* `OrgInvites`: `InvitesInvariance`, `InvitationUsedOnce`, `MarkedAfterMail`,
  `GrantsFollowRows`, `AdmissionImplemented`. The refinement adds `MadeOnly`: what a
  revocation, the cleanup or the mailer has in hand is an invitation that was made, so that
  each of their late writes closes what is open or changes nothing. `Consumers` (who has
  used an invitation keeps to it, and it can never be pending again), `OneInserts` (the
  unique address), and `RolesAt`, which gives for each step of a signup the roles it has in
  Casbin and whether its row is there: roles and rows agree at the end because they are
  known at each step before it.
* `BuildMirror`: `FailureIsShown`. `Shown`: a failure that is recorded is on the resource, or
  the build went on and its controller will come back to it; `Propagated` is its state
  between the two writes.
* `ReleaseDeadline`: `DeployWindow`. The worker alone writes the clock (`LoadedClock`), it
  stands still while builds that were seen run (`StoppedByBuilds`), hence it was
  started after the last of them ended (`StartedAfterBuilds`).

No theorem of these two modules has a hypothesis beside the specification: all they take
for granted are the named assumptions of the wrappers, which TLC evaluates in the runs
`edits`, `services` and `fair`. Bounds on time and failures are bounds of the model, and the
theorems hold for each of them.

The proofs have corrected the models. `GrantsMatchRows` had a CASE whose arms overlapped, of
which TLC takes the first and TLA+ an arbitrary one; it is a nested IF now. That a stackfile
only has resources with names that resources may have had been assumed by nobody
(`StackfilesAssumption`), although saving one as the draft relies on it.

Every safety invariant, safety action property and refinement of a passing run is stated by
a theorem. Only model-checked is liveness (`EventuallyTerminal`, `StreamEnds`,
`DeletionEnds`, `EveryChangeHandled`, `ClusterDeletionEnds`, `StackDeletionEnds`,
`InvitationMailed`, `DeadlineEnforced`), which rests on fairness and ENABLED, beyond TLAPS.

The inductive invariants of the modules other than `ReleaseWorker` are proved and have no
run of their own.

## 5. Not modelled

Of some 144,000 lines of Go that are not tests, 74,000 are generated (`pkg/api/openapi`,
`pkg/mocks`), and more convert data between layers (presenters, models, handlers, rendering
to Kubernetes objects) or wire the program together (`cmd`, `magefile.go`). They have no
states to explore: a model would restate them, and what there is to say of them is better
said by a unit test. Services, stores, workers, controllers and validators, where the
decisions are, have some 34,000 lines, and most of those that are not modelled are CRUD of
one row with a permission check before it (organisations, projects, users, API tokens,
domains, git credentials, backups), or streams of another system (logs, metrics). So the
models cover a small share of the code: the part whose decisions depend on each other.

In particular: permission checks precede the modelled operations and change no state;
memberships, apart from signup, write a row and then a Casbin role with neither transaction
nor repair, so that there is nothing they keep; webhooks reach the models as the handlers of
`PreviewStack`; object stores and backups have the form of `PostgresAddon`; shared compute,
where organisations share a cluster, updates of clusters, image digests and the displayed
fields of a release are left out. The form of names, images, ports and schedules is not
modelled in `StackDraft`, nor are object stores as ends of connections.

## 6. Plan

Done: the release worker with its abstract lifecycle, events, garbage collection and
deadline; previews; the worker manager with transactions; clusters and registries; edits
and drafts of stacks, their teardown; addons; compute access; invitations; builds.

All safety properties of the runs have a theorem, and eight components are shown to implement
an abstract specification.

Left, in this order:

1. An abstract specification of a preview environment, for `PreviewStack`.
2. Memberships with their roles; backups and object stores; the pins of images; the
   throttle of signups.
