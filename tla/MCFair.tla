------------------------------ MODULE MCFair ------------------------------
(* Instances, for TLC, small enough for their liveness: each behaviour is one of *)
(* the component that "component" names, and the others stand still.             *)
EXTENDS Building

VARIABLES
  component,
  \* WorkQueue
  behind, queue, dirty, processing, later, closing, worker, request, scan, crashes, lost,
  \* ClusterRegistry
  cluster, registry, home, object, registered, used, add, exec, mirror, prereq, doubt

Queue == INSTANCE WorkQueue WITH
  Operands <- {"a"}, Goroutines <- {"g1", "g2"}, Requests <- {"r1"}, Listed <- {"a"},
  Periodic <- TRUE, MaxCrashes <- 1

Registry == INSTANCE ClusterRegistry WITH
  Clusters <- {"c"}, Registries <- {"x"}, Requests <- {"r1"}, Phases <- {"Running"}

queueVars == <<behind, queue, dirty, processing, later, closing, worker, request, scan,
               crashes, lost>>
registryVars == <<cluster, registry, home, object, registered, used, add, exec, mirror, prereq,
                  doubt>>

-----------------------------------------------------------------------------
Init ==
  /\ component \in {"queue", "registry", "mirror", "deadline"}
  /\ Queue!Init /\ Registry!Init /\ Mirror!Init /\ Deadline!Init
  /\ component # "queue" => behind = {}

Next ==
  /\ UNCHANGED component
  /\ IF component = "queue" THEN Queue!Next ELSE UNCHANGED queueVars
  /\ IF component = "registry" THEN Registry!Next ELSE UNCHANGED registryVars
  /\ IF component = "mirror" THEN Mirror!Next ELSE UNCHANGED mirrorVars
  /\ IF component = "deadline" THEN Deadline!Next ELSE UNCHANGED deadlineVars

Fairness ==
  \/ component = "queue" /\ Queue!Fairness
  \/ component = "registry" /\ Registry!Fairness
  \/ component = "mirror" /\ Mirror!Fairness
  \/ component = "deadline" /\ Deadline!Fairness

Spec ==
  /\ Init
  /\ [][Next]_<<component, queueVars, registryVars, mirrorVars, deadlineVars>>
  /\ Fairness

-----------------------------------------------------------------------------
\* EveryChangeHandled of WorkQueue: a periodic worker handles every change that
\* GetInput lists, however many hooks, enqueues and processes were lost.
EveryChangeHandled == Queue!EveryChangeHandled

\* ClusterDeletionEnds of ClusterRegistry: a cluster that is to be deleted is.
ClusterDeletionEnds == Registry!ClusterDeletionEnds

\* ReleaseDeadline: a release ends, also when no build ever appears or none ends.
DeadlineEnforced == component = "deadline" => Deadline!DeadlineEnforced
=============================================================================
