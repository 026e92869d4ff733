------------------------------ MODULE Services ------------------------------
(* The components around the release pipeline, each under a name of its own: they *)
(* do not meet, and stand side by side in the instances that TLC checks and in    *)
(* the proofs. What each promises is stated here, under a name of its own too.    *)
EXTENDS Editing

CONSTANTS
  \* ComputeAccess
  Organisations, AccessRequests, MaxActiveSharedComputeLeases, Duration, MaxTime,
  \* StackTeardown
  Volumes, MaxTeardownFailures,
  \* PostgresAddon
  AddonRequests, Sizes, MaxAddonFailures,
  \* OrgInvites
  Invites, InvitedTo, Users, InviteRequests, MaxInviteFailures,
  \* StackDraft, with Resources and Volumes
  Shapes, DraftConnections, Stackfiles, ExternalOutputs, DraftRequests

VARIABLES
  \* ComputeAccess
  clock, startsAt, lease, accessRequest,
  \* StackTeardown
  stack, status, volumeRows, ready, namespaceRow, namespace, stackCR, volumeCRs, marked,
  stackQueued, listing, stackWorker, creating, applying, stackFailures, interrupted,
  \* PostgresAddon
  row, spec, state, readyOnce, cluster, clusterSpec, surroundings, request, queued, worker,
  controller, binding, used, failures, raced, lost,
  \* OrgInvites
  invites, userRow, members, grants, signup, inviteRequest, inviteQueue, sending, expired,
  inviteFailures, mailed, consumed, doubt,
  \* StackDraft
  draftResources, draftConnections, draftRequest, current, unchecked, draftRaced

Access == INSTANCE ComputeAccess WITH
  request <- accessRequest, Requests <- AccessRequests

Teardown == INSTANCE StackTeardown WITH
  rows <- volumeRows, queued <- stackQueued, worker <- stackWorker, failures <- stackFailures,
  MaxFailures <- MaxTeardownFailures

Addon == INSTANCE PostgresAddon WITH
  Requests <- AddonRequests, MaxFailures <- MaxAddonFailures

Invitations == INSTANCE OrgInvites WITH
  row <- userRow, request <- inviteRequest, queued <- inviteQueue, failures <- inviteFailures,
  Requests <- InviteRequests, MaxFailures <- MaxInviteFailures

Draft == INSTANCE StackDraft WITH
  resources <- draftResources, connections <- draftConnections, request <- draftRequest,
  raced <- draftRaced,
  Connections <- DraftConnections, Requests <- DraftRequests

ASSUME BoundsAssumption ==
  /\ MaxActiveSharedComputeLeases \in Nat /\ MaxTime \in Nat
  /\ MaxTeardownFailures \in Nat /\ MaxAddonFailures \in Nat /\ MaxInviteFailures \in Nat
\* The resources of a file go by the names that resources may have.
ASSUME StackfilesAssumption == \A s \in Stackfiles : DOMAIN s.resources \subseteq Resources
ASSUME UsersAssumption == Invitations!NoUser \notin Users

accessVars == <<clock, startsAt, lease, accessRequest>>
teardownVars == <<stack, status, volumeRows, ready, namespaceRow, namespace, stackCR, volumeCRs,
                  marked, stackQueued, listing, stackWorker, creating, applying, stackFailures,
                  interrupted>>
addonVars == <<row, spec, state, readyOnce, cluster, clusterSpec, surroundings, request, queued,
               worker, controller, binding, used, failures, raced, lost>>
inviteVars == <<invites, userRow, members, grants, signup, inviteRequest, inviteQueue, sending,
                expired, inviteFailures, mailed, consumed, doubt>>
draftVars == <<draftResources, draftConnections, draftRequest, current, unchecked, draftRaced>>

-----------------------------------------------------------------------------
\* ComputeAccess: the leases in force never exceed the capacity, however many
\* activations run at once.
CapacityKept == Access!CapacityKept

\* ComputeAccess: each transaction issues a lease, relies on one or gives it back in a
\* single step of LeasePool, and none is cleaned up while a call relies on it.
ImplementsPool == Access!ImplementsPool

\* StackTeardown: a stack goes in order, what it has in the cluster first, then its row,
\* those of its volumes and that of its namespace.
ImplementsStackEnding == Teardown!ImplementsEnding

\* StackTeardown: a deletion that was not interrupted leaves no row behind.
NoRowLeft == Teardown!TypeOK /\ Teardown!NoRowLeft

\* StackTeardown: a stack that is to be deleted is, through failures and restarts, unless
\* the hub could not list its input when it started.
StackDeletionEnds == Teardown!DeletionEnds

\* PostgresAddon: an addon is deleted once, not while a stack uses it, and its database
\* does not outlive its row; what surrounded the database in the cluster does.
ImplementsAddonLifecycle == Addon!ImplementsLifecycle

\* PostgresAddon: a saved change is applied, queued or listed, unless the hub stopped
\* before it was put on the queue.
ChangeNotForgotten == Addon!TypeOK /\ Addon!ChangeNotForgotten

\* OrgInvites: the calls, signups and workers open one invitation of an organisation at a
\* time, close each once, admit one user by it, and mark as mailed what was.
ImplementsAdmission == Invitations!ImplementsAdmission

\* OrgInvites: a signup that fails leaves no roles behind, and one that succeeds has
\* all of them, although Casbin is outside the transaction.
GrantsMatchRows == Invitations!GrantsMatchRows

\* OrgInvites: every invitation that may be used is mailed, although its enqueue was
\* lost or its mail failed.
InvitationMailed == Invitations!InvitationMailed

\* StackDraft: a draft that was never saved from an outdated copy has no circle of
\* dependencies, and what it says of itself resolves, and so does every connection, taken
\* alone, that was validated since its ends changed.
ValidatedResolves == Draft!TypeOK /\ Draft!ValidatedResolves
=============================================================================
