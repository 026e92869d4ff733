---------------------------- MODULE BuildMirror ----------------------------
(***************************************************************************)
(* The status of one resource of a stack and of its image build, mirrored  *)
(* from the cluster by two controllers that write the same column from     *)
(* copies of their own: the one of StackResource objects                   *)
(* (pkg/controllers/stackresource) and the one of ImageBuild objects       *)
(* (pkg/controllers/imagebuild), with their stores                         *)
(* (pkg/stores/pgstore/stack_resource.go, image_build.go).                 *)
(*                                                                         *)
(* A status stands for its hash. Each controller has one worker.           *)
(***************************************************************************)
EXTENDS Naturals

CONSTANT
  MaxFailures   \* bound on failed writes and crashes of the hub

VARIABLES
  cr,             \* status of the StackResource object
  build,          \* status of the ImageBuild object
  status,         \* status column of the row of the resource
  buildRow,       \* status the row of the build was last written with
  resourceQueued, \* the StackResource object is on the queue of its controller
  buildQueued,    \* the ImageBuild object is
  resourceCtl,    \* what the controller of StackResource objects has read
  buildCtl,       \* what that of ImageBuild objects has, and the step it is at
  failures,       \* failed writes and crashes so far
  crossed,        \* history: a status was written over one its writer had not read
  unseen,         \* history: the row of the build was created with a failure in it
  hidden          \* history: a failure at run time was written over one of the build

objects == <<cr, build>>
rows == <<status, buildRow>>
queues == <<resourceQueued, buildQueued>>
history == <<crossed, unseen, hidden>>
vars == <<objects, rows, queues, resourceCtl, buildCtl, failures, history>>

ResourceStates == {"healthy", "crashing"}
BuildStates == {"none", "new", "pending", "retrying", "Failed", "Success", "Cancelled"}
\* A status that was never observed is null.
Null == [seen |-> "null", failure |-> "none"]
Statuses == {Null} \cup [seen : ResourceStates, failure : {"none", "runtime", "build"}]
IdleResource == [at |-> "idle", saw |-> "healthy", copy |-> Null]
IdleBuild == [at |-> "idle", saw |-> "none", copy |-> Null]

TypeOK ==
  /\ cr \in ResourceStates /\ build \in BuildStates
  /\ status \in Statuses /\ buildRow \in BuildStates
  /\ resourceCtl \in [at : {"idle", "write"}, saw : ResourceStates, copy : Statuses]
  /\ buildCtl \in [at : {"idle", "create", "propagate", "record"}, saw : BuildStates,
                   copy : Statuses]
  /\ \A b \in {resourceQueued, buildQueued, crossed, unseen, hidden} : b \in BOOLEAN
  /\ failures \in 0..MaxFailures

Init ==
  /\ cr = "healthy" /\ build = "none" /\ status = Null /\ buildRow = "none"
  /\ resourceQueued = TRUE /\ buildQueued = FALSE
  /\ resourceCtl = IdleResource /\ buildCtl = IdleBuild
  /\ failures = 0 /\ crossed = FALSE /\ unseen = FALSE /\ hidden = FALSE

\* LastBuildFailureDetail is set.
Failing(s) == s \in {"retrying", "Failed"}

-----------------------------------------------------------------------------
(***************************************************************************)
(* The agent changes the status of the objects.                            *)
(***************************************************************************)
AgentResource ==
  /\ \E s \in ResourceStates \ {cr} : cr' = s
  /\ resourceQueued' = TRUE
  /\ UNCHANGED <<build, rows, buildQueued, resourceCtl, buildCtl, failures, history>>

AgentBuild ==
  /\ \/ build = "none" /\ build' = "new"
     \/ build = "new" /\ build' = "pending"
     \/ build = "pending" /\ build' = "retrying"
     \/ build = "retrying" /\ build' = "Failed"
     \/ build \in {"pending", "retrying"} /\ build' \in {"Success", "Cancelled"}
  /\ buildQueued' = TRUE
  /\ UNCHANGED <<cr, rows, resourceQueued, resourceCtl, buildCtl, failures, history>>

-----------------------------------------------------------------------------
(***************************************************************************)
(* The controller of StackResource objects.                                *)
(***************************************************************************)
\* Reconcile reads the object and the row; a hash that is already there ends it.
LoadResource ==
  /\ resourceQueued
  /\ resourceCtl.at = "idle"
  /\ resourceQueued' = FALSE
  /\ resourceCtl' = IF status.seen = cr THEN resourceCtl
                    ELSE [at |-> "write", saw |-> cr, copy |-> status]
  /\ UNCHANGED <<objects, rows, buildQueued, buildCtl, failures, history>>

\* computeStatusRewrite: a failure at run time wins, and a failure of the build, of
\* which the object knows nothing, is kept.
Rewrite(copy, saw) ==
  [seen |-> saw,
   failure |-> IF saw = "crashing" THEN "runtime"
               ELSE IF copy.failure = "build" THEN "build" ELSE "none"]

\* UpdateStatus writes the column whatever it has become.
WriteResource ==
  /\ resourceCtl.at = "write"
  /\ status' = Rewrite(resourceCtl.copy, resourceCtl.saw)
  /\ crossed' = (crossed \/ status # resourceCtl.copy)
  /\ hidden' = (hidden \/ (status.failure = "build" /\ resourceCtl.saw = "crashing"))
  /\ resourceCtl' = IdleResource
  /\ UNCHANGED <<objects, buildRow, queues, buildCtl, failures, unseen>>

\* An error puts the object back on the queue.
ResourceFails ==
  /\ resourceCtl.at = "write"
  /\ failures < MaxFailures
  /\ failures' = failures + 1
  /\ resourceCtl' = IdleResource
  /\ resourceQueued' = TRUE
  /\ UNCHANGED <<objects, rows, buildQueued, buildCtl, history>>

ResourceController == LoadResource \/ WriteResource \/ ResourceFails

-----------------------------------------------------------------------------
(***************************************************************************)
(* The controller of ImageBuild objects.                                   *)
(***************************************************************************)
\* Seeded fault: the hash is recorded first.
LoadBuildRecordFirst ==
  /\ buildQueued /\ build # "none"
  /\ buildCtl.at = "idle"
  /\ buildQueued' = FALSE
  /\ buildCtl' = CASE buildRow = "none" -> [at |-> "create", saw |-> build, copy |-> status]
                   [] buildRow = build -> buildCtl
                   [] OTHER -> [at |-> "propagate", saw |-> build, copy |-> status]
  /\ buildRow' = IF buildRow \in {"none", build} THEN buildRow ELSE build
  /\ UNCHANGED <<objects, status, resourceQueued, resourceCtl, failures, history>>

\* Reconcile reads the object, the row of the resource and then that of the build.
LoadBuild ==
  /\ buildQueued /\ build # "none"
  /\ buildCtl.at = "idle"
  /\ buildQueued' = FALSE
  /\ buildCtl' = CASE buildRow = "none" -> [at |-> "create", saw |-> build, copy |-> status]
                   [] buildRow = build -> buildCtl
                   [] OTHER -> [at |-> "propagate", saw |-> build, copy |-> status]
  /\ UNCHANGED <<objects, rows, resourceQueued, resourceCtl, failures, history>>

\* createImageBuildInDB writes the row with the status it has read, hash included,
\* and the object comes back to a row that is up to date.
CreateRow ==
  /\ buildCtl.at = "create"
  /\ buildRow' = buildCtl.saw
  /\ unseen' = (unseen \/ Failing(buildCtl.saw))
  /\ buildCtl' = IdleBuild
  /\ buildQueued' = TRUE
  /\ UNCHANGED <<objects, status, resourceQueued, resourceCtl, failures, crossed, hidden>>

\* propagateBuildFailureToStackResource, with computeStackResourceStatusAfterBuild.
Changed ==
  \/ Failing(buildCtl.saw)
  \/ buildCtl.saw = "Success" /\ buildCtl.copy.failure = "build"

Propagate ==
  /\ buildCtl.at = "propagate"
  /\ buildCtl.copy = Null => ~Failing(buildCtl.saw)
  /\ buildCtl' = [buildCtl EXCEPT !.at = "record"]
  /\ IF buildCtl.copy # Null /\ Changed
     THEN /\ status' = [buildCtl.copy EXCEPT !.failure = IF Failing(buildCtl.saw) THEN "build"
                                                         ELSE "none"]
          /\ crossed' = (crossed \/ status # buildCtl.copy)
     ELSE UNCHANGED <<status, crossed>>
  /\ UNCHANGED <<objects, buildRow, queues, resourceCtl, failures, unseen, hidden>>

\* A failure that has no status to go to is an error, and comes back.
PropagateLater ==
  /\ buildCtl.at = "propagate"
  /\ buildCtl.copy = Null /\ Failing(buildCtl.saw)
  /\ buildCtl' = IdleBuild
  /\ buildQueued' = TRUE
  /\ UNCHANGED <<objects, rows, resourceQueued, resourceCtl, failures, history>>

\* InternalUpdateStatus.
Record ==
  /\ buildCtl.at = "record"
  /\ buildRow' = buildCtl.saw
  /\ buildCtl' = IdleBuild
  /\ UNCHANGED <<objects, status, queues, resourceCtl, failures, history>>

BuildFails ==
  /\ buildCtl.at # "idle"
  /\ failures < MaxFailures
  /\ failures' = failures + 1
  /\ buildCtl' = IdleBuild
  /\ buildQueued' = TRUE
  /\ UNCHANGED <<objects, rows, resourceQueued, resourceCtl, history>>

BuildController ==
  LoadBuild \/ CreateRow \/ Propagate \/ PropagateLater \/ Record \/ BuildFails

-----------------------------------------------------------------------------
\* The cache of the controllers delivers every object again now and then.
Resync ==
  /\ resourceQueued' = TRUE
  /\ buildQueued' = TRUE
  /\ UNCHANGED <<objects, rows, resourceCtl, buildCtl, failures, history>>

\* The hub stops; when it is back the controllers start with every object.
Crash ==
  /\ failures < MaxFailures
  /\ failures' = failures + 1
  /\ resourceCtl' = IdleResource /\ buildCtl' = IdleBuild
  /\ resourceQueued' = TRUE /\ buildQueued' = TRUE
  /\ UNCHANGED <<objects, rows, history>>

Next ==
  \/ AgentResource \/ AgentBuild
  \/ ResourceController \/ BuildController
  \/ Resync \/ Crash

Fairness == WF_vars(ResourceController) /\ WF_vars(Resync)

Spec == Init /\ [][Next]_vars /\ Fairness

-----------------------------------------------------------------------------
\* What its controller has recorded as a failed build is shown on the resource, whatever
\* fails between the propagation and the record, unless the row of the build was created
\* with the failure, the other controller has overwritten it from an older copy, or a
\* failure at run time took its place.
FailureShown ==
  /\ TypeOK
  /\ Failing(buildRow) /\ ~unseen /\ ~crossed /\ ~hidden =>
       status.failure = "build" \/ buildQueued \/ buildCtl.at # "idle"

\* "A build failure must not be silently dropped" (image_build_controller.go): what its
\* controller has recorded as a failed build is shown on the resource once both are
\* through with their objects, unless a failure at run time took its place.
BuildFailureNotDropped ==
  /\ Failing(buildRow) /\ ~hidden
  /\ ~resourceQueued /\ ~buildQueued /\ resourceCtl.at = "idle" /\ buildCtl.at = "idle"
  => status.failure = "build"
=============================================================================
