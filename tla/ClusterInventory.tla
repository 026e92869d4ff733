-------------------------- MODULE ClusterInventory --------------------------
(***************************************************************************)
(* What the platform promises of the clusters of an organisation and of    *)
(* the image registries on them, with no calls, workers, clients or copies *)
(* in sight.                                                               *)
(*                                                                         *)
(* An organisation has one cluster at a time.  A registry is put on a      *)
(* cluster there is; its object is made and taken down while it has a row; *)
(* the row goes once there is no object, and that of the cluster once no   *)
(* registry is on it and nobody uses it.  Nothing comes back.  Only a      *)
(* release, which may have seen a registry that has gone since, makes an   *)
(* object beside this.                                                     *)
(*                                                                         *)
(* ClusterRegistry is shown to implement this module.                      *)
(***************************************************************************)
EXTENDS FiniteSets

CONSTANTS
  Clusters,
  Registries

VARIABLES
  cluster,   \* cluster[c]: "unused", "live", "deleting", "gone"
  registry,  \* registry[x]: "unused", "there", "gone"
  place,     \* place[x]: {the cluster a registry that is there is on}
  object,    \* object[x]: what is in the cluster of x, and who made it
  used       \* the clusters of stacks and addons

vars == <<cluster, registry, place, object, used>>

Init ==
  /\ cluster = [c \in Clusters |-> "unused"]
  /\ registry = [x \in Registries |-> "unused"]
  /\ place = [x \in Registries |-> {}]
  /\ object = [x \in Registries |-> [is |-> "absent", by |-> "worker"]]
  /\ used = {}

Exists(c) == cluster[c] \in {"live", "deleting"}

-----------------------------------------------------------------------------
(***************************************************************************)
(* The rows.                                                               *)
(***************************************************************************)
\* The registries of a set get the rows that a cluster comes with.
Put(new, c) ==
  /\ \A x \in new : registry[x] = "unused"
  /\ registry' = [x \in Registries |-> IF x \in new THEN "there" ELSE registry[x]]
  /\ place' = [x \in Registries |-> IF x \in new THEN {c} ELSE place[x]]

AddCluster(c, new) ==
  /\ cluster[c] = "unused"
  /\ cluster' = [cluster EXCEPT ![c] = "live"]
  /\ \A d \in Clusters : ~Exists(d)
  /\ Put(new, c)
  /\ UNCHANGED <<object, used>>

\* Ids that were given in vain are not given again.
Waste(c, new) ==
  /\ cluster[c] = "unused"
  /\ cluster' = [cluster EXCEPT ![c] = "gone"]
  /\ \A x \in new : registry[x] = "unused"
  /\ registry' = [x \in Registries |-> IF x \in new THEN "gone" ELSE registry[x]]
  /\ UNCHANGED <<place, object, used>>

\* Also to a cluster that is being deleted.
AddRegistry(x, c) ==
  /\ Exists(c)
  /\ Put({x}, c)
  /\ UNCHANGED <<cluster, object, used>>

DeleteCluster(c) ==
  /\ cluster[c] = "live"
  /\ cluster' = [cluster EXCEPT ![c] = "deleting"]
  /\ UNCHANGED <<object, used, registry, place>>

DropRegistry(x) ==
  /\ object[x].is = "absent"
  /\ registry[x] = "there"
  /\ registry' = [registry EXCEPT ![x] = "gone"]
  /\ place' = [place EXCEPT ![x] = {}]
  /\ UNCHANGED <<cluster, object, used>>

DropCluster(c) ==
  /\ cluster[c] = "deleting"
  /\ cluster' = [cluster EXCEPT ![c] = "gone"]
  /\ c \notin used
  /\ \A x \in Registries : place[x] # {c}
  /\ UNCHANGED <<object, used, registry, place>>

Use(c) ==
  /\ Exists(c)
  /\ used' = used \cup {c}
  /\ UNCHANGED <<cluster, object, registry, place>>

Leave(c) ==
  /\ used' = used \ {c}
  /\ UNCHANGED <<cluster, object, registry, place>>

-----------------------------------------------------------------------------
(***************************************************************************)
(* The objects.                                                            *)
(***************************************************************************)
Make(x, who) ==
  /\ object[x].is = "absent"
  /\ object' = [object EXCEPT ![x] = [is |-> "present", by |-> who]]
  /\ registry[x] = "there" \/ (who = "release" /\ registry[x] = "gone")
  /\ UNCHANGED <<cluster, used, registry, place>>

TakeDown(x) ==
  /\ object[x].is = "present"
  /\ registry[x] = "there"
  /\ object' = [object EXCEPT ![x].is = "terminating"]
  /\ UNCHANGED <<cluster, used, registry, place>>

Gone(x) ==
  /\ object[x].is = "terminating"
  /\ object' = [object EXCEPT ![x].is = "absent"]
  /\ UNCHANGED <<cluster, used, registry, place>>

Next ==
  \/ \E c \in Clusters :
       \/ \E new \in SUBSET Registries : AddCluster(c, new) \/ Waste(c, new)
       \/ \E x \in Registries : AddRegistry(x, c)
       \/ DeleteCluster(c) \/ DropCluster(c) \/ Use(c) \/ Leave(c)
  \/ \E x \in Registries :
       \/ DropRegistry(x) \/ TakeDown(x) \/ Gone(x)
       \/ \E who \in {"worker", "release"} : Make(x, who)

Spec == Init /\ [][Next]_vars

-----------------------------------------------------------------------------
\* What is used is there: the clusters of stacks and addons, and those of registries,
\* and the registries of the objects the worker made.
NothingDangles ==
  /\ \A c \in used : Exists(c)
  /\ \A x \in Registries : registry[x] = "there" => \E c \in Clusters : place[x] = {c} /\ Exists(c)
  /\ \A x \in Registries :
       object[x].is # "absent" /\ object[x].by = "worker" => registry[x] = "there"

=============================================================================
