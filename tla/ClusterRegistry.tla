------------------------- MODULE ClusterRegistry -------------------------
(***************************************************************************)
(* The clusters of one organisation and the image registries on them:      *)
(* pkg/services/cluster_service.go and image_registry_service.go change    *)
(* the rows, pkg/worker/clusterimageregistry brings each cluster in line   *)
(* with them through pkg/services/clusterresource, the controller of       *)
(* pkg/controllers/clusterimageregistry mirrors what the cluster reports,  *)
(* a release makes sure of its registry, and pkg/clustermanager holds the  *)
(* clients without which none of this reaches a cluster.                   *)
(*                                                                         *)
(* Identifiers are never used again.  The queue executes one operand, a    *)
(* cluster, at a time (WorkQueue).  Every call to a cluster or to the      *)
(* database may fail.  Shared compute, where organisations have registries *)
(* on one cluster, is left out.                                            *)
(***************************************************************************)
EXTENDS Naturals, FiniteSets

CONSTANTS
  Clusters,    \* ids of clusters
  Registries,  \* ids of image registries
  Requests,    \* calls of AddCluster
  Phases       \* what a cluster reports of a registry

VARIABLES
  cluster,     \* cluster[c]: its row
  registry,    \* registry[x]: its row
  home,        \* home[x]: {the cluster it is on}, given with the row
  object,      \* object[x]: the ClusterRegistry object in that cluster
  registered,  \* the clusters the cluster manager has a client for
  used,        \* clusters that stacks or addons have a foreign key to
  add,         \* add[r]: a call of AddCluster
  exec,        \* exec[c]: the execution of the registry worker for c
  mirror,      \* mirror[c]: the reconciliation the controller of c is at
  prereq,      \* a release that has looked up its registry
  doubt        \* history: clusters added by a COMMIT whose answer was lost

vars == <<cluster, registry, home, object, registered, used, add, exec, mirror, prereq, doubt>>
rows == <<cluster, registry, home>>

States == {"Pending", "Running", "Error", "Deleting"}
ASSUME PhasesAssumption == Phases \subseteq States

\* "copy" holds the states of the registries still to be looked at, as they were
\* listed; "left" says that an object is still being deleted.
Executions == [pc : {"idle", "each", "ensured", "unregister", "delete"},
               deleting : BOOLEAN, copy : [Registries -> States \cup {"none", "ensured"}],
               left : BOOLEAN]
NoExecution == [pc |-> "idle", deleting |-> FALSE, copy |-> [x \in Registries |-> "none"],
                left |-> FALSE]

TypeOK ==
  /\ cluster \in [Clusters -> {"unused", "live", "deleting", "gone"}]
  /\ registry \in [Registries -> States \cup {"unused", "gone"}]
  /\ home \in [Registries -> SUBSET Clusters]
  /\ object \in [Registries -> [is : {"absent", "present", "terminating"}, by : {"worker", "release"}]]
  /\ registered \subseteq Clusters /\ used \subseteq Clusters
  /\ add \in [Requests -> [pc : {"idle", "check", "open", "compensate"}, id : SUBSET Clusters,
                           of : SUBSET Registries]]
  /\ exec \in [Clusters -> Executions]
  /\ mirror \in [Clusters -> SUBSET (Registries \X Phases)]
  /\ prereq \subseteq Registries
  /\ doubt \subseteq Clusters

NoAdd == [pc |-> "idle", id |-> {}, of |-> {}]

Init ==
  /\ cluster = [c \in Clusters |-> "unused"]
  /\ registry = [x \in Registries |-> "unused"]
  /\ home = [x \in Registries |-> {}]
  /\ object = [x \in Registries |-> [is |-> "absent", by |-> "worker"]]
  /\ registered = {} /\ used = {} /\ prereq = {} /\ doubt = {}
  /\ add = [r \in Requests |-> NoAdd]
  /\ exec = [c \in Clusters |-> NoExecution]
  /\ mirror = [c \in Clusters |-> {}]

Exists(c) == cluster[c] \in {"live", "deleting"}
Row(x) == registry[x] \in States
On(c) == {x \in Registries : Row(x) /\ home[x] = {c}}

-----------------------------------------------------------------------------
(***************************************************************************)
(* The cluster service.  AddCluster and Delete lock the row of the         *)
(* organisation.  A cluster is registered inside the transaction and       *)
(* unregistered by a compensation if that is rolled back.                  *)
(***************************************************************************)
Locked == \E r \in Requests : add[r].pc \in {"check", "open"}

\* Seeded fault: the row of the organisation is not locked.
AddBeginUnlocked(r) ==
  /\ add[r].pc = "idle"
  /\ add' = [add EXCEPT ![r].pc = "check"]
  /\ UNCHANGED <<rows, object, registered, used, exec, mirror, prereq, doubt>>

AddBegin(r) ==
  /\ add[r].pc = "idle"
  /\ ~Locked
  /\ add' = [add EXCEPT ![r].pc = "check"]
  /\ UNCHANGED <<rows, object, registered, used, exec, mirror, prereq, doubt>>

\* No cluster of the organisation is found: its row and that of its registry are
\* inserted, and it is registered.  None of this shows before the commit but the
\* registration.
AddInsert(r) ==
  /\ add[r].pc = "check"
  /\ \A c \in Clusters : ~Exists(c)
  /\ \E c \in Clusters, x \in Registries :
       /\ cluster[c] = "unused" /\ registry[x] = "unused"
       /\ \A q \in Requests : c \notin add[q].id /\ x \notin add[q].of
       /\ add' = [add EXCEPT ![r] = [pc |-> "open", id |-> {c}, of |-> {x}]]
       /\ home' = [home EXCEPT ![x] = {c}]
       /\ registered' = registered \cup {c}
  /\ UNCHANGED <<cluster, registry, object, used, exec, mirror, prereq, doubt>>

\* The call fails before anything has been registered.
AddRefused(r) ==
  /\ add[r].pc = "check"
  /\ add' = [add EXCEPT ![r] = NoAdd]
  /\ UNCHANGED <<rows, object, registered, used, exec, mirror, prereq, doubt>>

Inserted(r) ==
  /\ cluster' = [c \in Clusters |-> IF c \in add[r].id THEN "live" ELSE cluster[c]]
  /\ registry' = [x \in Registries |->
                    IF x \in add[r].of THEN "Pending" ELSE registry[x]]

AddCommit(r) ==
  /\ add[r].pc = "open"
  /\ Inserted(r)
  /\ add' = [add EXCEPT ![r] = NoAdd]
  /\ UNCHANGED <<home, object, registered, used, exec, mirror, prereq, doubt>>

\* The transaction is rolled back, which ends the lock; an id is not used again.
AddRollback(r) ==
  /\ add[r].pc = "open"
  /\ add' = [add EXCEPT ![r].pc = "compensate"]
  /\ cluster' = [c \in Clusters |-> IF c \in add[r].id THEN "gone" ELSE cluster[c]]
  /\ registry' = [x \in Registries |->
                    IF x \in add[r].of THEN "gone" ELSE registry[x]]
  /\ UNCHANGED <<home, object, registered, used, exec, mirror, prereq, doubt>>

\* COMMIT took effect but returned an error: the compensation runs all the same.
AddCommitUnknown(r) ==
  /\ add[r].pc = "open"
  /\ Inserted(r)
  /\ add' = [add EXCEPT ![r].pc = "compensate"]
  /\ doubt' = doubt \cup add[r].id
  /\ UNCHANGED <<home, object, registered, used, exec, mirror, prereq>>

\* Seeded fault: the rollback has no compensation.
CompensateNothing(r) ==
  /\ add[r].pc = "compensate"
  /\ add' = [add EXCEPT ![r] = NoAdd]
  /\ UNCHANGED <<rows, object, registered, used, exec, mirror, prereq, doubt>>

Compensate(r) ==
  /\ add[r].pc = "compensate"
  /\ registered' = registered \ add[r].id
  /\ add' = [add EXCEPT ![r] = NoAdd]
  /\ UNCHANGED <<rows, object, used, exec, mirror, prereq, doubt>>

\* Delete marks the cluster and all its registries in one transaction.
DeleteCluster(c) ==
  /\ ~Locked
  /\ cluster[c] = "live"
  /\ cluster' = [cluster EXCEPT ![c] = "deleting"]
  /\ registry' = [x \in Registries |->
                    IF x \in On(c) THEN "Deleting" ELSE registry[x]]
  /\ UNCHANGED <<home, object, registered, used, add, exec, mirror, prereq, doubt>>

-----------------------------------------------------------------------------
(***************************************************************************)
(* The image registry service.                                             *)
(***************************************************************************)
\* validateOwnedCluster does not look at the deletion of the cluster.
CreateRegistry(x, c) ==
  /\ registry[x] = "unused"
  /\ \A q \in Requests : x \notin add[q].of
  /\ Exists(c)
  /\ home' = [home EXCEPT ![x] = {c}]
  /\ registry' = [registry EXCEPT ![x] = "Pending"]
  /\ UNCHANGED <<cluster, object, registered, used, add, exec, mirror, prereq, doubt>>

DeleteRegistry(x) ==
  /\ Row(x)
  /\ registry' = [registry EXCEPT ![x] = "Deleting"]
  /\ UNCHANGED <<cluster, home, object, registered, used, add, exec, mirror, prereq, doubt>>

\* UpdateStatus sets the column whatever it holds; a row that is gone stays gone.
UpdateStatus(x, state) ==
  registry' = IF Row(x) THEN [registry EXCEPT ![x] = state] ELSE registry

-----------------------------------------------------------------------------
(***************************************************************************)
(* The objects in the cluster.                                             *)
(***************************************************************************)
Ensure(x, who) ==
  object' = IF object[x].is = "absent" THEN [object EXCEPT ![x] = [is |-> "present", by |-> who]]
                                       ELSE object

\* The finalizers of an object that is being deleted are done.
ObjectGone(x) ==
  /\ object[x].is = "terminating"
  /\ object' = [object EXCEPT ![x].is = "absent"]
  /\ UNCHANGED <<rows, registered, used, add, exec, mirror, prereq, doubt>>

-----------------------------------------------------------------------------
(***************************************************************************)
(* The registry worker, executed for cluster c.                            *)
(***************************************************************************)
Unchanged == <<registered, used, add, mirror, prereq, doubt>>

\* Seeded fault: a cluster that is being deleted is not looked for any more.
ExecuteLive(c) ==
  /\ exec[c].pc = "idle"
  /\ cluster[c] = "live"
  /\ exec' = [exec EXCEPT ![c] =
       [pc |-> "each", deleting |-> FALSE,
        copy |-> [x \in Registries |-> IF x \in On(c) THEN registry[x] ELSE "none"],
        left |-> FALSE]]
  /\ UNCHANGED <<rows, object, Unchanged>>

\* The row of the cluster comes with the execution, the registries right after:
\* a deletion in between shows in their states.
Execute(c) ==
  /\ exec[c].pc = "idle"
  /\ Exists(c)
  /\ exec' = [exec EXCEPT ![c] =
       [pc |-> "each", deleting |-> cluster[c] = "deleting",
        copy |-> [x \in Registries |-> IF x \in On(c) THEN registry[x] ELSE "none"],
        left |-> FALSE]]
  /\ UNCHANGED <<rows, object, Unchanged>>

Stop(c) == exec' = [exec EXCEPT ![c] = NoExecution]

\* Any error ends the execution; the queue comes back to it.
Fails(c) ==
  /\ exec[c].pc # "idle"
  /\ Stop(c)
  /\ UNCHANGED <<rows, object, Unchanged>>

Todo(c) == {x \in Registries : exec[c].copy[x] # "none"}
ToDelete(c, x) == exec[c].deleting \/ exec[c].copy[x] = "Deleting"

\* Seeded fault: the row goes as soon as the deletion has been accepted.
RemoveAccepted(c, x) ==
  /\ exec[c].pc = "each"
  /\ x \in Todo(c)
  /\ ToDelete(c, x)
  /\ c \in registered
  /\ exec' = [exec EXCEPT ![c].copy[x] = "none"]
  /\ object' = IF object[x].is = "present" THEN [object EXCEPT ![x].is = "terminating"] ELSE object
  /\ registry' = [registry EXCEPT ![x] = "gone"]
  /\ UNCHANGED <<cluster, home, Unchanged>>

\* DeleteImageRegistryInCluster; the row goes once the object is absent.
Remove(c, x) ==
  /\ exec[c].pc = "each"
  /\ x \in Todo(c)
  /\ ToDelete(c, x)
  /\ c \in registered
  /\ exec' = [exec EXCEPT ![c].copy[x] = "none", ![c].left = @ \/ object[x].is # "absent"]
  /\ object' = IF object[x].is = "present" THEN [object EXCEPT ![x].is = "terminating"] ELSE object
  /\ registry' = IF object[x].is = "absent" /\ Row(x)
                   THEN [registry EXCEPT ![x] = "gone"] ELSE registry
  /\ UNCHANGED <<cluster, home, Unchanged>>

Running(c, x) ==
  /\ exec[c].pc = "each"
  /\ x \in Todo(c)
  /\ ~ToDelete(c, x)
  /\ exec[c].copy[x] = "Running"
  /\ exec' = [exec EXCEPT ![c].copy[x] = "none"]
  /\ UNCHANGED <<rows, object, Unchanged>>

\* EnsureImageRegistryInCluster, and the status that follows in another call.
Provision(c, x) ==
  /\ exec[c].pc = "each"
  /\ x \in Todo(c)
  /\ ~ToDelete(c, x)
  /\ exec[c].copy[x] # "Running"
  /\ c \in registered
  /\ Ensure(x, "worker")
  /\ exec' = IF exec[c].copy[x] = "Error" THEN [exec EXCEPT ![c].pc = "ensured", ![c].copy[x] = "ensured"]
                                         ELSE [exec EXCEPT ![c].copy[x] = "none"]
  /\ UNCHANGED <<rows, Unchanged>>

Ensured(c, x) ==
  /\ exec[c].pc = "ensured"
  /\ exec[c].copy[x] = "ensured"
  /\ UpdateStatus(x, "Pending")
  /\ exec' = [exec EXCEPT ![c].pc = "each", ![c].copy[x] = "none"]
  /\ UNCHANGED <<cluster, home, object, Unchanged>>

\* The object cannot be ensured: Error is saved and the execution ends.
ProvisionFails(c, x) ==
  /\ exec[c].pc = "each"
  /\ x \in Todo(c)
  /\ ~ToDelete(c, x)
  /\ exec[c].copy[x] # "Running"
  /\ UpdateStatus(x, "Error")
  /\ Stop(c)
  /\ UNCHANGED <<cluster, home, object, Unchanged>>

\* An execution for a cluster that stays, or with an object still there, ends.
EachEnds(c) ==
  /\ exec[c].pc = "each"
  /\ Todo(c) = {}
  /\ IF exec[c].deleting /\ ~exec[c].left
       THEN exec' = [exec EXCEPT ![c].pc = "unregister"]
       ELSE Stop(c)
  /\ UNCHANGED <<rows, object, Unchanged>>

UnregisterCluster(c) ==
  /\ exec[c].pc = "unregister"
  /\ registered' = registered \ {c}
  /\ exec' = [exec EXCEPT ![c].pc = "delete"]
  /\ UNCHANGED <<rows, object, used, add, mirror, prereq, doubt>>

\* Foreign keys refuse the deletion of a cluster that is used or has registries.
DeleteRow(c) ==
  /\ exec[c].pc = "delete"
  /\ cluster' = IF c \in used \/ On(c) # {} THEN cluster ELSE [cluster EXCEPT ![c] = "gone"]
  /\ Stop(c)
  /\ UNCHANGED <<registry, home, object, Unchanged>>

-----------------------------------------------------------------------------
(***************************************************************************)
(* The controller that mirrors the status of an object, and the release    *)
(* worker's registry prerequisite.  Both read the row before they act.     *)
(***************************************************************************)
MirrorRead(c, x, phase) ==
  /\ mirror[c] = {}
  /\ c \in registered
  /\ object[x].is # "absent"
  /\ x \in On(c) /\ registry[x] \notin {"Deleting", phase}
  /\ mirror' = [mirror EXCEPT ![c] = {<<x, phase>>}]
  /\ UNCHANGED <<rows, object, registered, used, add, exec, prereq, doubt>>

MirrorWrite(c) ==
  /\ \E m \in mirror[c] : UpdateStatus(m[1], m[2])
  /\ mirror' = [mirror EXCEPT ![c] = {}]
  /\ UNCHANGED <<cluster, home, object, registered, used, add, exec, prereq, doubt>>

\* A stack that builds into the in-cluster registry is being released.
PrereqRead(x) ==
  /\ prereq = {}
  /\ Row(x) /\ home[x] \subseteq used
  /\ prereq' = {x}
  /\ UNCHANGED <<rows, object, registered, used, add, exec, mirror, doubt>>

PrereqEnsure ==
  /\ \E x \in prereq : home[x] \subseteq registered /\ Ensure(x, "release")
  /\ prereq' = {}
  /\ UNCHANGED <<rows, registered, used, add, exec, mirror, doubt>>

PrereqFails ==
  /\ prereq # {}
  /\ prereq' = {}
  /\ UNCHANGED <<rows, object, registered, used, add, exec, mirror, doubt>>

\* Stacks and addons come and go; they leave a cluster through its client.
Use(c) ==
  /\ Exists(c)
  /\ used' = used \cup {c}
  /\ UNCHANGED <<rows, object, registered, add, exec, mirror, prereq, doubt>>

Leave(c) ==
  /\ c \in used \cap registered
  /\ used' = used \ {c}
  /\ UNCHANGED <<rows, object, registered, add, exec, mirror, prereq, doubt>>

\* The process starts again and registers every cluster it finds.
Crash ==
  /\ registered' = {c \in Clusters : Exists(c)}
  /\ add' = [r \in Requests |-> NoAdd]
  /\ exec' = [c \in Clusters |-> NoExecution]
  /\ mirror' = [c \in Clusters |-> {}]
  /\ prereq' = {}
  /\ doubt' = {}
  /\ UNCHANGED <<rows, object, used>>

-----------------------------------------------------------------------------
AddCluster(r) ==
  \/ AddBegin(r) \/ AddInsert(r) \/ AddRefused(r) \/ AddCommit(r) \/ AddRollback(r)
  \/ AddCommitUnknown(r) \/ Compensate(r)

Step(c) ==
  \/ \E x \in Registries : Remove(c, x) \/ Running(c, x) \/ Provision(c, x) \/ Ensured(c, x) \/ ProvisionFails(c, x)
  \/ EachEnds(c) \/ UnregisterCluster(c) \/ DeleteRow(c)

Worker(c) == Execute(c) \/ Step(c) \/ Fails(c)

Controller(c) ==
  (\E x \in Registries, phase \in Phases : MirrorRead(c, x, phase)) \/ MirrorWrite(c)

Release == (\E x \in Registries : PrereqRead(x)) \/ PrereqEnsure \/ PrereqFails

Next ==
  \/ \E r \in Requests : AddCluster(r)
  \/ \E c \in Clusters : DeleteCluster(c) \/ Worker(c) \/ Controller(c) \/ Use(c) \/ Leave(c)
  \/ \E x \in Registries :
       (\E c \in Clusters : CreateRegistry(x, c)) \/ DeleteRegistry(x) \/ ObjectGone(x)
  \/ Release
  \/ Crash

Spec == Init /\ [][Next]_vars
Fairness ==
  \A c \in Clusters :
    /\ WF_vars(Execute(c))
    /\ WF_vars(exec[c].pc # "idle" /\ Worker(c))
    /\ \A x \in Registries : SF_vars(Remove(c, x)) /\ WF_vars(home[x] = {c} /\ ObjectGone(x))
    /\ SF_vars(EachEnds(c)) /\ SF_vars(UnregisterCluster(c)) /\ SF_vars(DeleteRow(c))

FairSpec == Spec /\ Fairness

-----------------------------------------------------------------------------
(***************************************************************************)
(* Properties.                                                             *)
(***************************************************************************)
\* The states are well formed, and concurrent calls of AddCluster leave an
\* organisation at most one cluster.
OneCluster == TypeOK /\ Cardinality({c \in Clusters : Exists(c)}) <= 1

\* Every client belongs to a cluster that is there or being added, and a cluster
\* that is not being deleted has one, unless nobody knows if it was added.
ClientsMatchRows ==
  /\ \A c \in registered : Exists(c) \/ \E r \in Requests : c \in add[r].id
  /\ \A c \in Clusters : cluster[c] = "live" => c \in registered \cup doubt

\* The row of a registry outlives its object, which would be nobody's otherwise;
\* only what a release put there on an old copy of the row can be left behind.
RowOutlivesObject ==
  \A x \in Registries : object[x].is # "absent" /\ object[x].by = "worker" => Row(x)

\* Whether a registry has a row, whatever its state, and on which cluster it then is.
Presence == [x \in Registries |-> IF Row(x) THEN "there" ELSE registry[x]]
Place == [x \in Registries |-> IF Row(x) THEN home[x] ELSE {}]

Inventory == INSTANCE ClusterInventory WITH registry <- Presence, place <- Place

\* What calls, workers, releases and crashes do to rows and objects through the copies they
\* hold comes to single steps of ClusterInventory, each allowed by what is there.
ImplementsInventory == Inventory!Spec

\* A registry that is to be deleted is deleted, as DeleteWithTx says of the state
\* it saves.
RegistryDeletionSticks ==
  [][\A x \in Registries : registry[x] = "Deleting" => registry'[x] \in {"Deleting", "gone"}]_vars

\* The client of a cluster is gone and a registry on it still needs it.
Stranded(c) == c \notin registered /\ On(c) # {}

\* A cluster that is to be deleted is, whatever fails on the way, unless a stack
\* or an addon uses it or a registry was put on it after its client had gone.
ClusterDeletionEnds ==
  \A c \in Clusters :
    cluster[c] = "deleting" ~> cluster[c] = "gone" \/ c \in used \/ Stranded(c)
=============================================================================
