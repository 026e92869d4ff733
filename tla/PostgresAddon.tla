--------------------------- MODULE PostgresAddon ---------------------------
(***************************************************************************)
(* One PostgreSQL addon: the calls that change it                          *)
(* (pkg/services/postgres_addon_service.go, pkg/stores/pgstore/            *)
(* postgres_addon.go), which read its row before their transaction and put *)
(* it on the queue of its worker after it; the worker that brings the      *)
(* cluster in line with the copy it has loaded, or takes it down           *)
(* (pkg/worker/postgresaddon); the controller that mirrors its status      *)
(* (pkg/controllers/postgres_addon); and the stacks that use it.           *)
(*                                                                         *)
(* Of the specification of an addon, the size stands for what an update    *)
(* changes, and one switch for hibernation and fencing, which have calls   *)
(* of their own.                                                           *)
(***************************************************************************)
EXTENDS Naturals, FiniteSets

CONSTANTS
  Requests,     \* calls of the API
  Sizes,        \* what an update chooses from
  MaxFailures   \* bound on failed steps and crashes of the hub

VARIABLES
  row,          \* the row: "live", "deleting" (it has a deletion timestamp), "none"
  spec,         \* its specification
  state,        \* the state in its status
  readyOnce,    \* its condition ReadyOnce
  cluster,      \* the PostgresCluster: "none", "live", "terminating"
  clusterSpec,  \* its specification
  surroundings, \* there is something of what the worker puts around it: a namespace, an image
                \* catalog, the store of its backups and the secrets that it needs
  request,      \* request[r]: a call
  queued,       \* the addon is on the queue of the worker, or will come back to it
  worker,       \* the worker: its step, and the specification it has loaded
  controller,   \* the controller: the status it is about to write
  binding,      \* an edit of a stack that uses the addon is validated
  used,         \* there is a reference row
  failures,     \* failed steps and crashes so far
  raced,        \* history: the addon came into use once its last check had passed
  lost          \* history: a crash lost what was on the queue, or about to be

addon == <<row, spec, state, readyOnce>>
use == <<binding, used, raced>>
vars == <<addon, cluster, clusterSpec, surroundings, request, queued, worker, controller, use,
          failures, lost>>

Specs == [size : Sizes, on : BOOLEAN]
States == {"Pending", "Ready", "Deleting"}
Ops == {"update", "switch", "delete"}

\* "spec" and "once" are what the call has read, or wants.
Calls == [pc : {"idle", "write", "status", "enqueue"}, op : Ops, spec : Specs, once : BOOLEAN]
NoCall == [pc |-> "idle", op |-> "update", spec |-> CHOOSE s \in Specs : TRUE, once |-> FALSE]
Idle == [at |-> "idle", spec |-> CHOOSE s \in Specs : TRUE]
Quiet == [at |-> "idle", state |-> "Pending", once |-> FALSE]

TypeOK ==
  /\ row \in {"live", "deleting", "none"}
  /\ spec \in Specs /\ state \in States
  /\ cluster \in {"none", "live", "terminating"} /\ clusterSpec \in Specs
  /\ request \in [Requests -> Calls]
  /\ worker \in [at : {"idle", "check", "cluster", "row", "surround", "apply"}, spec : Specs]
  /\ controller \in [at : {"idle", "write"}, state : States, once : BOOLEAN]
  /\ \A b \in {surroundings, readyOnce, queued, binding, used, raced, lost} : b \in BOOLEAN
  /\ failures \in 0..MaxFailures

\* The addon has been created, with the switch off, and put on the queue.
Init ==
  /\ row = "live" /\ state = "Pending" /\ readyOnce = FALSE
  /\ spec \in {s \in Specs : ~s.on}
  /\ cluster = "none" /\ clusterSpec = spec /\ surroundings = FALSE
  /\ request = [r \in Requests |-> NoCall]
  /\ queued = TRUE /\ worker = Idle /\ controller = Quiet
  /\ binding = FALSE /\ used = FALSE /\ raced = FALSE
  /\ failures = 0 /\ lost = FALSE

-----------------------------------------------------------------------------
(***************************************************************************)
(* Calls of the API.                                                       *)
(***************************************************************************)
Goto(r, from, to) == request[r].pc = from /\ request' = [request EXCEPT ![r] = to]
Enqueuing == [NoCall EXCEPT !.pc = "enqueue"]

\* A call reads the row, and decides what it will write: a request for an update
\* carries no lifecycle configuration, so that the switch is off.
Read(r) ==
  /\ request[r].pc = "idle"
  /\ row # "none"
  /\ \E op \in Ops, wanted \in Specs :
       /\ CASE op = "update" -> ~wanted.on
            [] op = "switch" -> wanted.size = spec.size
            [] op = "delete" -> ~used /\ wanted = spec
       /\ request' = [request EXCEPT ![r] =
            [pc |-> "write", op |-> op, spec |-> wanted, once |-> op = "delete" /\ readyOnce]]
  /\ UNCHANGED <<addon, cluster, clusterSpec, surroundings, queued, worker, controller, use,
                 failures, lost>>

\* Seeded fault: the worker is not told of the change.
WriteQuietly(r) ==
  /\ row # "none"
  /\ request[r].op # "delete"
  /\ Goto(r, "write", NoCall)
  /\ spec' = request[r].spec
  /\ UNCHANGED <<row, state, readyOnce, cluster, clusterSpec, surroundings, queued, worker,
                 controller, use, failures, lost>>

\* UpdateWithTx: every mutable field is written, from the copy.
Write(r) ==
  /\ row # "none"
  /\ request[r].op # "delete"
  /\ Goto(r, "write", Enqueuing)
  /\ spec' = request[r].spec
  /\ UNCHANGED <<row, state, readyOnce, cluster, clusterSpec, surroundings, queued, worker,
                 controller, use, failures, lost>>

\* DeletePostgresAddon: the timestamp first ...
MarkDeleted(r) ==
  /\ row # "none"
  /\ request[r].op = "delete"
  /\ Goto(r, "write", [request[r] EXCEPT !.pc = "status"])
  /\ row' = "deleting"
  /\ UNCHANGED <<spec, state, readyOnce, cluster, clusterSpec, surroundings, queued, worker,
                 controller, use, failures, lost>>

\* ... then the status, as it was read but for its state.
SetDeleting(r) ==
  /\ row # "none"
  /\ Goto(r, "status", Enqueuing)
  /\ state' = "Deleting"
  /\ readyOnce' = request[r].once
  /\ UNCHANGED <<row, spec, cluster, clusterSpec, surroundings, queued, worker, controller,
                 use, failures, lost>>

Enqueue(r) ==
  /\ Goto(r, "enqueue", NoCall)
  /\ queued' = TRUE
  /\ UNCHANGED <<addon, cluster, clusterSpec, surroundings, worker, controller, use,
                 failures, lost>>

\* The row is gone, or the transaction or the database fails.
CallFails(r) ==
  /\ request[r].pc \in {"write", "status"}
  /\ request' = [request EXCEPT ![r] = NoCall]
  /\ UNCHANGED <<addon, cluster, clusterSpec, surroundings, queued, worker, controller, use,
                 failures, lost>>

-----------------------------------------------------------------------------
(***************************************************************************)
(* The worker.                                                             *)
(***************************************************************************)
Listed == row # "none" /\ (state \in {"Pending", "Deleting"} \/ row = "deleting")

\* The periodic scan.
ListInput ==
  /\ Listed
  /\ ~queued
  /\ queued' = TRUE
  /\ UNCHANGED <<addon, cluster, clusterSpec, surroundings, request, worker, controller,
                 use, failures, lost>>

Execute ==
  /\ queued
  /\ worker.at = "idle"
  /\ queued' = FALSE
  /\ worker' = CASE row = "live" -> [at |-> "surround", spec |-> spec]
                 [] row = "deleting" -> [Idle EXCEPT !.at = "check"]
                 [] OTHER -> Idle
  /\ UNCHANGED <<addon, cluster, clusterSpec, surroundings, request, controller, use,
                 failures, lost>>

\* Seeded fault: what uses the addon is not asked again.
NoCheckUse ==
  /\ worker.at = "check"
  /\ worker' = [worker EXCEPT !.at = "cluster"]
  /\ UNCHANGED <<addon, cluster, clusterSpec, surroundings, request, queued, controller,
                 use, failures, lost>>

\* An addon that is in use is looked at again in a while.
CheckUse ==
  /\ worker.at = "check"
  /\ worker' = IF used THEN Idle ELSE [worker EXCEPT !.at = "cluster"]
  /\ queued' = (queued \/ used)
  /\ UNCHANGED <<addon, cluster, clusterSpec, surroundings, request, controller, use,
                 failures, lost>>

\* Nothing else is deleted in the cluster.
DeleteCluster ==
  /\ worker.at = "cluster"
  /\ worker' = [worker EXCEPT !.at = "row"]
  /\ cluster' = IF cluster = "live" THEN "terminating" ELSE cluster
  /\ UNCHANGED <<addon, clusterSpec, surroundings, request, queued, controller, use,
                 failures, lost>>

DeleteRow ==
  /\ worker.at = "row"
  /\ worker' = Idle
  /\ row' = "none"
  /\ UNCHANGED <<spec, state, readyOnce, cluster, clusterSpec, surroundings, request,
                 queued, controller, use, failures, lost>>

\* The namespace, the catalog, the store and the secrets, each where it is missing.
Surround ==
  /\ worker.at = "surround"
  /\ worker' = [worker EXCEPT !.at = "apply"]
  /\ surroundings' = TRUE
  /\ UNCHANGED <<addon, cluster, clusterSpec, request, queued, controller, use, failures,
                 lost>>

\* The cluster itself, which is created or, where it differs, updated.
Apply ==
  /\ worker.at = "apply"
  /\ worker' = Idle
  /\ cluster' = IF cluster = "none" THEN "live" ELSE cluster
  /\ clusterSpec' = worker.spec
  /\ UNCHANGED <<addon, surroundings, request, queued, controller, use, failures, lost>>

\* Some of the surroundings may have been made by a worker that is stopped there.
PartlySurround == surroundings' \in {surroundings, surroundings \/ worker.at = "surround"}

\* An error, or a conflict with an update of the cluster: the queue comes back.
StepFails ==
  /\ worker.at # "idle"
  /\ failures < MaxFailures
  /\ failures' = failures + 1
  /\ worker' = Idle
  /\ queued' = TRUE
  /\ PartlySurround
  /\ UNCHANGED <<addon, cluster, clusterSpec, request, controller, use, lost>>

Crash ==
  /\ failures < MaxFailures
  /\ failures' = failures + 1
  /\ request' = [r \in Requests |-> NoCall]
  /\ queued' = FALSE
  /\ worker' = Idle
  /\ controller' = Quiet
  /\ lost' = (lost \/ queued \/ worker # Idle \/ \E r \in Requests : request[r].pc = "enqueue")
  /\ PartlySurround
  /\ UNCHANGED <<addon, cluster, clusterSpec, use>>

-----------------------------------------------------------------------------
(***************************************************************************)
(* The controller, the cluster, and stacks that use the addon.             *)
(***************************************************************************)
\* ReadyOnce is carried over from the row, or set when the cluster is ready.
Observe ==
  /\ controller.at = "idle"
  /\ cluster # "none"
  /\ row # "none"
  /\ \E s \in States : controller' = [at |-> "write", state |-> s, once |-> readyOnce \/ s = "Ready"]
  /\ UNCHANGED <<addon, cluster, clusterSpec, surroundings, request, queued, worker, use,
                 failures, lost>>

UpdateStatus ==
  /\ controller.at = "write"
  /\ controller' = Quiet
  /\ IF row = "none"
       THEN UNCHANGED addon
       ELSE /\ state' = controller.state
            /\ readyOnce' = controller.once
            /\ UNCHANGED <<row, spec>>
  /\ UNCHANGED <<cluster, clusterSpec, surroundings, request, queued, worker, use, failures,
                 lost>>

ClusterGone ==
  /\ cluster = "terminating"
  /\ cluster' = "none"
  /\ UNCHANGED <<addon, clusterSpec, surroundings, request, queued, worker, controller, use,
                 failures, lost>>

\* A stack binds the addon if it is there, being deleted or not, ...
Bind ==
  /\ row # "none"
  /\ ~binding
  /\ binding' = TRUE
  /\ UNCHANGED <<addon, cluster, clusterSpec, surroundings, request, queued, worker,
                 controller, used, raced, failures, lost>>

\* ... and its reference row is committed later.
CommitUse ==
  /\ binding
  /\ binding' = FALSE
  /\ used' = TRUE
  /\ raced' = (raced \/ row = "none" \/ worker.at \in {"cluster", "row"})
  /\ UNCHANGED <<addon, cluster, clusterSpec, surroundings, request, queued, worker,
                 controller, failures, lost>>

Unbind ==
  /\ used
  /\ used' = FALSE
  /\ UNCHANGED <<addon, cluster, clusterSpec, surroundings, request, queued, worker,
                 controller, binding, raced, failures, lost>>

-----------------------------------------------------------------------------
Call(r) ==
  Read(r) \/ Write(r) \/ MarkDeleted(r) \/ SetDeleting(r) \/ Enqueue(r) \/ CallFails(r)

Worker == Execute \/ CheckUse \/ DeleteCluster \/ DeleteRow \/ Surround \/ Apply

Next ==
  \/ \E r \in Requests : Call(r)
  \/ ListInput \/ Worker \/ StepFails \/ Crash
  \/ Observe \/ UpdateStatus \/ ClusterGone
  \/ Bind \/ CommitUse \/ Unbind

Spec == Init /\ [][Next]_vars

-----------------------------------------------------------------------------
(***************************************************************************)
(* Properties.                                                             *)
(***************************************************************************)
\* An addon that a stack uses is there, though the stack was bound to it after
\* its deletion was accepted, unless that came after the worker's own check.
UsedAddonKept == TypeOK /\ (used /\ ~raced => row # "none")

Lifecycle == INSTANCE AddonLifecycle WITH approved <- worker.at \in {"cluster", "row"}

\* The row goes from live to deleted once and does not come back; the PostgresCluster is
\* made only while there is a row, by no copy that outlived it and after what surrounds it,
\* is taken down only by a worker that has found the addon unused, and does not outlive the
\* row. What surrounds it does.
ImplementsLifecycle == Lifecycle!Spec

\* While the cluster differs from the row, someone is about to bring it in line
\* with this very row: the worker, which may be at work on an older copy, a call
\* that will put it on the queue, the scan.  A crash can lose the first two.
ChangeNotForgotten ==
  row = "live" /\ (cluster = "none" \/ clusterSpec # spec) =>
    \/ queued
    \/ worker.at \in {"surround", "apply"} /\ worker.spec = spec
    \/ \E r \in Requests : request[r].pc = "enqueue"
    \/ Listed
    \/ lost

=============================================================================
