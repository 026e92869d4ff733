--------------------------- MODULE StackTeardown ---------------------------
(***************************************************************************)
(* The end of a stack: the call that marks its row, the stack worker that  *)
(* takes down what is in the cluster and then the rows, step by step and   *)
(* without a transaction (pkg/worker/stack), and who works on the same     *)
(* objects meanwhile: the volume worker (pkg/worker/volume), the worker of *)
(* a release that was loaded earlier, the controllers that mirror status,  *)
(* and calls that add volumes (pkg/services/stack_service.go,              *)
(* volume_service.go, namespace_service.go).  The call that deletes one    *)
(* unused volume of a stack that lives on is left out.                     *)
(*                                                                         *)
(* The queue of the worker is the one of WorkQueue, with one operand.      *)
(***************************************************************************)
EXTENDS Naturals, FiniteSets

CONSTANTS
  Volumes,      \* volumes of the stack
  MaxFailures   \* bound on failed steps and crashes of the hub

VARIABLES
  stack,        \* the row of the stack: "live", "deleting" (it has a deletion timestamp), "none"
  status,       \* its status
  rows,         \* rows of volumes, each associated with the stack
  ready,        \* those whose status is Ready
  namespaceRow, \* the row of the namespace is there
  namespace,    \* the namespace of the stack in the cluster
  stackCR,      \* the stack is in the cluster
  volumeCRs,    \* volumes in the cluster
  marked,       \* a call has marked the stack and not yet put it on the queue
  queued,       \* the stack is on the queue of the worker
  listing,      \* that of the worker's input since the hub started: "due", "done", "failed"
  worker,       \* the stack worker: the step it is at, and volumes it has listed
  creating,     \* volumes that the volume worker is about to create in the cluster
  applying,     \* the release worker is about to apply a release
  failures,     \* failed steps and crashes so far
  interrupted   \* history: one of them came after the row of the stack was gone

cluster == <<namespace, stackCR, volumeCRs>>
tables == <<stack, status, rows, ready, namespaceRow>>
hub == <<marked, queued, listing, worker, creating, applying>>
vars == <<tables, cluster, hub, failures, interrupted>>

Steps == {"idle", "ensure", "stackCR", "volumeCRs", "namespace", "row", "list", "volumes", "namespaceRow"}
Idle == [at |-> "idle", volumes |-> {}]

TypeOK ==
  /\ stack \in {"live", "deleting", "none"} /\ status \in {"Pending", "Ready", "Deleting"}
  /\ rows \subseteq Volumes /\ ready \subseteq rows
  /\ volumeCRs \subseteq Volumes /\ creating \subseteq Volumes
  /\ namespace \in {"none", "live", "terminating"}
  /\ worker \in [at : Steps, volumes : SUBSET Volumes]
  /\ listing \in {"due", "done", "failed"}
  /\ \A b \in {namespaceRow, stackCR, marked, queued, applying, interrupted} : b \in BOOLEAN
  /\ failures \in 0..MaxFailures

\* The stack has just been created and put on the queue.
Init ==
  /\ stack = "live" /\ status = "Pending" /\ rows = {} /\ ready = {} /\ namespaceRow = TRUE
  /\ namespace = "none" /\ stackCR = FALSE /\ volumeCRs = {}
  /\ marked = FALSE /\ queued = TRUE /\ listing = "done" /\ worker = Idle
  /\ creating = {} /\ applying = FALSE
  /\ failures = 0 /\ interrupted = FALSE

-----------------------------------------------------------------------------
(***************************************************************************)
(* Calls of the API.                                                       *)
(***************************************************************************)
\* CreateStackVolume, or a replacement of the stack, which lock its row; neither
\* looks at the deletion timestamp.
AddVolume(v) ==
  /\ stack # "none"
  /\ v \notin rows
  /\ rows' = rows \cup {v}
  /\ UNCHANGED <<stack, status, ready, namespaceRow, cluster, hub, failures, interrupted>>

\* InternalDeleteStack: nothing to do for a stack that is already Deleting.
DeleteStack ==
  /\ stack # "none"
  /\ status # "Deleting"
  /\ ~marked
  /\ stack' = "deleting"
  /\ status' = "Deleting"
  /\ marked' = TRUE
  /\ UNCHANGED <<rows, ready, namespaceRow, cluster, queued, listing, worker, creating,
                 applying, failures, interrupted>>

Enqueue ==
  /\ marked
  /\ marked' = FALSE
  /\ queued' = TRUE
  /\ UNCHANGED <<tables, cluster, listing, worker, creating, applying, failures, interrupted>>

-----------------------------------------------------------------------------
(***************************************************************************)
(* The stack worker.                                                       *)
(***************************************************************************)
\* Seeded fault: only the status says which stacks need work.
ListedByStatus == stack # "none" /\ status \in {"Pending", "Deleting"}

Listed == stack # "none" /\ (status \in {"Pending", "Deleting"} \/ stack = "deleting")

\* The worker is not periodic: its input is listed once, when the hub starts, ...
ListInput ==
  /\ listing = "due"
  /\ listing' = "done"
  /\ queued' = (queued \/ Listed)
  /\ UNCHANGED <<tables, cluster, marked, worker, creating, applying, failures, interrupted>>

\* ... and an error is only logged.
ListFails ==
  /\ listing = "due"
  /\ failures < MaxFailures
  /\ failures' = failures + 1
  /\ listing' = "failed"
  /\ UNCHANGED <<tables, cluster, marked, queued, worker, creating, applying, interrupted>>

\* Seeded fault: the rows go before what is in the cluster.
ExecuteRowsFirst ==
  /\ queued /\ listing # "due"
  /\ worker.at = "idle"
  /\ queued' = FALSE
  /\ worker' = [at |-> CASE stack = "live" -> "ensure" [] stack = "deleting" -> "row" [] OTHER -> "idle",
                volumes |-> IF stack = "deleting" THEN rows ELSE {}]
  /\ UNCHANGED <<tables, cluster, marked, listing, creating, applying, failures, interrupted>>

\* The goroutines start when the input has been listed, or has not.  Execute loads the
\* stack, and skips one that is gone.
Execute ==
  /\ queued /\ listing # "due"
  /\ worker.at = "idle"
  /\ queued' = FALSE
  /\ worker' = [at |-> CASE stack = "live" -> "ensure" [] stack = "deleting" -> "stackCR" [] OTHER -> "idle",
                volumes |-> IF stack = "deleting" THEN rows ELSE {}]
  /\ UNCHANGED <<tables, cluster, marked, listing, creating, applying, failures, interrupted>>

At(step, next) == worker.at = step /\ worker' = [worker EXCEPT !.at = next]
queues == <<marked, queued, listing, creating, applying>>

\* The namespace is created where it is missing, and its labels repaired otherwise.
EnsureNamespace ==
  /\ At("ensure", "idle")
  /\ namespace' = IF namespace = "none" THEN "live" ELSE namespace
  /\ UNCHANGED <<tables, stackCR, volumeCRs, queues, failures, interrupted>>

DeleteStackCR ==
  /\ At("stackCR", "volumeCRs")
  /\ stackCR' = FALSE
  /\ UNCHANGED <<tables, namespace, volumeCRs, queues, failures, interrupted>>

DeleteVolumeCRs ==
  /\ At("volumeCRs", "namespace")
  /\ volumeCRs' = volumeCRs \ worker.volumes
  /\ UNCHANGED <<tables, namespace, stackCR, queues, failures, interrupted>>

DeleteNamespace ==
  /\ At("namespace", "row")
  /\ namespace' = IF namespace = "live" THEN "terminating" ELSE namespace
  /\ UNCHANGED <<tables, stackCR, volumeCRs, queues, failures, interrupted>>

\* With the stack go its resources, connections, releases and reference rows.
DeleteStackRow ==
  /\ At("row", "list")
  /\ stack' = "none"
  /\ UNCHANGED <<status, rows, ready, namespaceRow, cluster, queues, failures, interrupted>>

\* Seeded fault: the volumes are those that were loaded with the stack.
ListVolumesLoaded ==
  /\ At("list", "volumes")
  /\ UNCHANGED <<tables, cluster, queues, failures, interrupted>>

ListVolumes ==
  /\ worker.at = "list"
  /\ worker' = [at |-> "volumes", volumes |-> rows]
  /\ UNCHANGED <<tables, cluster, queues, failures, interrupted>>

\* The association goes with the volume.
DeleteVolumeRow ==
  /\ worker.at = "volumes"
  /\ IF worker.volumes = {}
       THEN At("volumes", "namespaceRow") /\ UNCHANGED <<rows, ready>>
       ELSE \E v \in worker.volumes :
              /\ worker' = [worker EXCEPT !.volumes = @ \ {v}]
              /\ rows' = rows \ {v}
              /\ ready' = ready \ {v}
  /\ UNCHANGED <<stack, status, namespaceRow, cluster, queues, failures, interrupted>>

DeleteNamespaceRow ==
  /\ At("namespaceRow", "idle")
  /\ namespaceRow' = FALSE
  /\ UNCHANGED <<stack, status, rows, ready, cluster, queues, failures, interrupted>>

Cleaning == worker.at \in {"list", "volumes", "namespaceRow"}

\* An error: the queue comes back to the stack later.
StepFails ==
  /\ worker.at # "idle"
  /\ failures < MaxFailures
  /\ failures' = failures + 1
  /\ worker' = Idle
  /\ queued' = TRUE
  /\ interrupted' = (interrupted \/ Cleaning)
  /\ UNCHANGED <<tables, cluster, marked, listing, creating, applying>>

Crash ==
  /\ failures < MaxFailures
  /\ failures' = failures + 1
  /\ marked' = FALSE /\ queued' = FALSE /\ listing' = "due"
  /\ worker' = Idle /\ creating' = {} /\ applying' = FALSE
  /\ interrupted' = (interrupted \/ Cleaning)
  /\ UNCHANGED <<tables, cluster>>

-----------------------------------------------------------------------------
(***************************************************************************)
(* The volume worker, the release worker, the controllers, the cluster.    *)
(***************************************************************************)
\* The periodic scan finds a volume that is not ready, and the volume leads to
\* its stack, whose deletion timestamp does not matter.
LoadVolume(v) ==
  /\ v \in rows \ ready
  /\ stack # "none"
  /\ creating' = creating \cup {v}
  /\ UNCHANGED <<tables, cluster, marked, queued, listing, worker, applying, failures, interrupted>>

CreateVolumeCR(v) ==
  /\ v \in creating
  /\ creating' = creating \ {v}
  /\ volumeCRs' = IF namespace = "live" THEN volumeCRs \cup {v} ELSE volumeCRs
  /\ UNCHANGED <<tables, namespace, stackCR, marked, queued, listing, worker, applying, failures, interrupted>>

\* The release worker applies a release of a stack that was not being deleted
\* when it was loaded.
LoadRelease ==
  /\ stack = "live"
  /\ ~applying
  /\ applying' = TRUE
  /\ UNCHANGED <<tables, cluster, marked, queued, listing, worker, creating, failures, interrupted>>

Apply ==
  /\ applying
  /\ applying' = FALSE
  /\ stackCR' = (stackCR \/ namespace = "live")
  /\ UNCHANGED <<tables, namespace, volumeCRs, marked, queued, listing, worker, creating, failures, interrupted>>

\* The status of what is in the cluster overwrites the status of the row.
MirrorStack ==
  /\ stackCR
  /\ stack # "none"
  /\ status' \in {"Pending", "Ready"}
  /\ UNCHANGED <<stack, rows, ready, namespaceRow, cluster, hub, failures, interrupted>>

MirrorVolume(v) ==
  /\ v \in volumeCRs \cap rows
  /\ ready' \in {ready \cup {v}, ready \ {v}}
  /\ UNCHANGED <<stack, status, rows, namespaceRow, cluster, hub, failures, interrupted>>

NamespaceGone ==
  /\ namespace = "terminating"
  /\ namespace' = "none"
  /\ stackCR' = FALSE
  /\ volumeCRs' = {}
  /\ UNCHANGED <<tables, hub, failures, interrupted>>

-----------------------------------------------------------------------------
StackWorker ==
  \/ ListInput \/ Execute \/ EnsureNamespace
  \/ DeleteStackCR \/ DeleteVolumeCRs \/ DeleteNamespace
  \/ DeleteStackRow \/ ListVolumes \/ DeleteVolumeRow \/ DeleteNamespaceRow

Next ==
  \/ DeleteStack \/ Enqueue \/ StackWorker \/ ListFails \/ StepFails \/ Crash
  \/ \E v \in Volumes : AddVolume(v) \/ LoadVolume(v) \/ CreateVolumeCR(v) \/ MirrorVolume(v)
  \/ LoadRelease \/ Apply \/ MirrorStack \/ NamespaceGone

Spec == Init /\ [][Next]_vars

\* The goroutines of the worker and of the call run; failures end with MaxFailures.
Fairness == WF_vars(StackWorker) /\ WF_vars(Enqueue)
FairSpec == Spec /\ Fairness

-----------------------------------------------------------------------------
(***************************************************************************)
(* Properties.                                                             *)
(***************************************************************************)
\* A stack is forgotten only when its namespace is gone or going, whoever put
\* something into it meanwhile: nothing of a stack that has no row stays to run.
ClusterGoesFirst ==
  stack = "none" =>
    /\ namespace # "live"
    /\ namespace = "none" => ~stackCR /\ volumeCRs = {}

Ending == INSTANCE StackEnding WITH occupied <- stackCR \/ volumeCRs # {}

\* Wherever the worker was and whatever failed, each step takes what is next in the order
\* of StackEnding, from a stack that was deleted, and nothing that is gone is made again.
ImplementsEnding == Ending!Spec

\* When the worker is through, no row of a volume or a namespace is left, also
\* when volumes were added meanwhile, unless it was interrupted after the row of
\* the stack was gone: the next time there is no stack to start from.
NoRowLeft ==
  stack = "none" /\ ~Cleaning /\ ~interrupted => rows = {} /\ ~namespaceRow

\* Deleting a stack permanently removes its volumes.
VolumesGoWithStack == stack = "none" /\ ~Cleaning => rows = {}

\* After a start at which the input could not be listed, nobody comes back to a stack
\* that a crash took off the queue, until the next start.
Forgotten == listing = "failed" /\ ~marked /\ ~queued /\ worker = Idle

\* A stack that was marked goes away, whichever steps failed and whatever the controller
\* makes of its status, unless it is forgotten; one that is marked again, or listed at
\* another start, is remembered and goes after all.
DeletionEnds == stack = "deleting" ~> stack = "none" \/ Forgotten

\* Not so: a crash and a failing listing leave it for good.
DeletionAlwaysEnds == stack = "deleting" ~> stack = "none"
=============================================================================
