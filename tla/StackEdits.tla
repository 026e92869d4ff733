---------------------------- MODULE StackEdits ----------------------------
(***************************************************************************)
(* Concurrent edits of the draft of one stack, the only one of its         *)
(* organisation: replacing the stack, adding and removing one resource or  *)
(* one connection, adding a volume (pkg/services/stack_service.go,         *)
(* stack_resource_service.go, volume_service.go), each in a READ COMMITTED *)
(* transaction, with the limits of pkg/computequota; and the reference     *)
(* rows that edits and releases leave behind (reference_service.go,        *)
(* pkg/stores/pgstore/resource_reference.go), which protect a secret from  *)
(* its deletion (secret_service.go).                                       *)
(*                                                                         *)
(* A connection gives a secret to a resource; each connection here has a   *)
(* secret of its own, and both go by one name.  Updates in place change    *)
(* nothing the properties see and are left out, like the other columns.    *)
(***************************************************************************)
EXTENDS Naturals, FiniteSets

CONSTANTS
  Resources,     \* names of stack resources
  Connections,   \* connections, and the secrets they expose
  VolumeNames,   \* names of volumes
  Requests,      \* calls of the API
  Cloud,         \* the cloud policy is in force, not the self-hosted one
  MaxResources,  \* the limit of the cloud policy
  MaxVolumes     \* bound on the volume rows of one name

Items == Resources \cup Connections

VARIABLES
  draft,     \* the rows of the stack's resources and connections
  volumes,   \* volumes[v]: how many volumes of the stack have the name v
  refs,      \* reference rows of the draft
  gripped,   \* secrets with a reference row of a release in a gripping state
  secrets,   \* rows of secrets
  deleting,  \* secrets whose deletion has passed its check
  request,   \* request[r]: a call of the API
  stale,     \* history: a whole stack was replaced on a copy that was outdated
  crossed,   \* history: the rows of refs were last written on outdated rows
  raced      \* history: a use of a secret slipped past the check of its deletion

vars == <<draft, volumes, refs, gripped, secrets, deleting, request, stale, crossed, raced>>

\* "copy" and "copyVolumes" are what was read before the transaction; "insert",
\* "delete" and "touch" the rows it inserts, deletes and locks; "seen" and "clear"
\* what the projection has read of the draft and of refs.
Calls == [pc : {"idle", "admit", "write", "project", "clear", "insert", "commit"},
          op : {"replace", "add", "remove", "volume"},
          want : SUBSET Items, volumes : SUBSET VolumeNames,
          copy : SUBSET Resources, copyVolumes : SUBSET VolumeNames,
          insert : SUBSET Items, delete : SUBSET Items, touch : SUBSET Items,
          seen : SUBSET Connections, clear : SUBSET Connections, overtaken : BOOLEAN]
NoCall == [pc |-> "idle", op |-> "add", want |-> {}, volumes |-> {}, copy |-> {},
           copyVolumes |-> {}, insert |-> {}, delete |-> {}, touch |-> {},
           seen |-> {}, clear |-> {}, overtaken |-> FALSE]

TypeOK ==
  /\ draft \subseteq Items
  /\ volumes \in [VolumeNames -> 0..MaxVolumes]
  /\ refs \subseteq Connections /\ gripped \subseteq Connections
  /\ secrets \subseteq Connections /\ deleting \subseteq Connections
  /\ request \in [Requests -> Calls]
  /\ stale \in BOOLEAN /\ crossed \in BOOLEAN /\ raced \in BOOLEAN

Init ==
  /\ draft = {} /\ refs = {} /\ gripped = {} /\ deleting = {}
  /\ volumes = [v \in VolumeNames |-> 0]
  /\ secrets = Connections
  /\ request = [r \in Requests |-> NoCall]
  /\ stale = FALSE /\ crossed = FALSE /\ raced = FALSE

rows == <<draft, volumes, refs, gripped, secrets, deleting>>
Named == {v \in VolumeNames : volumes[v] > 0}
At(pcs) == {r \in Requests : request[r].pc \in pcs}

-----------------------------------------------------------------------------
(***************************************************************************)
(* A call reads the stack and validates what is to become of it, before    *)
(* its transaction begins.                                                 *)
(***************************************************************************)
Valid(op, want, names) ==
  \/ op = "replace" /\ want \cap Connections \subseteq secrets
  \/ op = "add" /\ Cardinality(want) = 1 /\ want \cap draft = {} /\ names = {}
                /\ want \cap Connections \subseteq secrets
  \/ op = "remove" /\ Cardinality(want) = 1 /\ want \subseteq draft /\ names = {}
  \/ op = "volume" /\ want = {} /\ Cardinality(names) = 1

\* What consumes compute passes the policy: replace, volumes, and new resources.
Limited(op, items) == op \in {"replace", "volume"} \/ (op = "add" /\ items \subseteq Resources)

Begin(r) ==
  /\ request[r].pc = "idle"
  /\ \E op \in {"replace", "add", "remove", "volume"},
        want \in SUBSET Items, names \in SUBSET VolumeNames :
       /\ Valid(op, want, names)
       /\ request' = [request EXCEPT ![r] = [NoCall EXCEPT
            !.pc = IF Cloud /\ Limited(op, want) THEN "admit" ELSE "write",
            !.op = op, !.want = want, !.volumes = names,
            !.copy = IF op = "replace" THEN draft \cap Resources ELSE {},
            !.copyVolumes = IF op = "replace" THEN Named ELSE {}]]
  /\ UNCHANGED <<rows, stale, crossed, raced>>

Fail(r) ==
  /\ request[r].pc # "idle"
  /\ request' = [request EXCEPT ![r] = NoCall]
  /\ UNCHANGED <<rows, stale, crossed, raced>>

-----------------------------------------------------------------------------
(***************************************************************************)
(* The transaction.                                                        *)
(***************************************************************************)
\* stackUsageAfterChange: the draft is not counted when it is being replaced.
UsageAfter(r) ==
  CASE request[r].op = "replace" -> Cardinality(request[r].want \cap Resources)
    [] request[r].op = "add" -> Cardinality(draft \cap Resources) + 1
    [] OTHER -> Cardinality(draft \cap Resources)

\* A volume has a limit of its own, which is left out.
WithinLimits(r) == request[r].op = "volume" \/ UsageAfter(r) <= MaxResources

\* EnsureAccess locks the lease, and ValidateStackLimits the organisation, until
\* the transaction ends.
Admitted == {r \in At({"write", "project", "clear", "insert", "commit"}) :
               Limited(request[r].op, request[r].want \cup request[r].insert)}

\* Seeded fault: the usage is counted without a lock.
AdmitUnlocked(r) ==
  /\ request[r].pc = "admit"
  /\ WithinLimits(r)
  /\ request' = [request EXCEPT ![r].pc = "write"]
  /\ UNCHANGED <<rows, stale, crossed, raced>>

Admit(r) ==
  /\ request[r].pc = "admit"
  /\ Admitted = {}
  /\ WithinLimits(r)
  /\ request' = [request EXCEPT ![r].pc = "write"]
  /\ UNCHANGED <<rows, stale, crossed, raced>>

\* Replacing a stack updates its row, adding a volume locks it.
StackRowFree(r) ==
  \A q \in At({"project", "clear", "insert", "commit"}) \ {r} :
    request[q].op \notin {"replace", "volume"}

RowsFree(r, touch) == \A q \in Requests \ {r} : request[q].touch \cap touch = {}

Written(r, insert, delete, update) ==
  /\ RowsFree(r, insert \cup delete \cup update)
  /\ insert \cap draft = {} /\ update \subseteq draft
  /\ request' = [request EXCEPT ![r] = [NoCall EXCEPT
       !.pc = "project", !.op = request[r].op,
       !.volumes = request[r].volumes \ request[r].copyVolumes,
       !.insert = insert, !.delete = delete, !.touch = insert \cup delete \cup update]]
  /\ UNCHANGED <<rows, crossed, raced>>

\* InternalUpdateWithTx: the connections are compared with what is there now,
\* the resources and the volumes with the copy.
Replace(r) ==
  LET want == request[r].want
      base == request[r].copy \cup (draft \cap Connections)
  IN /\ request[r].pc = "write"
     /\ request[r].op = "replace"
     /\ StackRowFree(r)
     /\ Written(r, want \ base, base \ want, want \cap base)
     /\ stale' = (stale \/ request[r].copy # draft \cap Resources
                        \/ request[r].copyVolumes # Named)

\* A connection that is gone is not found, a resource is deleted by its id.
Edit(r) ==
  /\ request[r].pc = "write"
  /\ \/ request[r].op = "add" /\ Written(r, request[r].want, {}, {})
     \/ /\ request[r].op = "remove"
        /\ request[r].want \subseteq draft \cup Resources
        /\ Written(r, {}, request[r].want, {})
  /\ UNCHANGED stale

\* Seeded fault: the row of the stack is not locked.
AddVolumeUnlocked(r) ==
  /\ request[r].pc = "write"
  /\ request[r].op = "volume"
  /\ request[r].volumes \cap Named = {}
  /\ request' = [request EXCEPT ![r].pc = "commit"]
  /\ UNCHANGED <<rows, stale, crossed, raced>>

\* CreateStackVolume: the names are read once the row of the stack is locked.
AddVolume(r) ==
  /\ request[r].pc = "write"
  /\ request[r].op = "volume"
  /\ StackRowFree(r)
  /\ request[r].volumes \cap Named = {}
  /\ request' = [request EXCEPT ![r].pc = "commit"]
  /\ UNCHANGED <<rows, stale, crossed, raced>>

\* Seeded fault: the stack is read outside of the transaction.
ProjectOutside(r) ==
  /\ request[r].pc = "project"
  /\ request' = [request EXCEPT ![r].pc = "clear", ![r].seen = draft \cap Connections]
  /\ UNCHANGED <<rows, stale, crossed, raced>>

\* ReprojectSpec, one statement after the other: the stack is read, with the
\* transaction's own changes ...
Project(r) ==
  /\ request[r].pc = "project"
  /\ request' = [request EXCEPT ![r].pc = "clear",
       ![r].seen = ((draft \ request[r].delete) \cup request[r].insert) \cap Connections]
  /\ UNCHANGED <<rows, stale, crossed, raced>>

\* ... the rows there are now are deleted ...
Clear(r) ==
  /\ request[r].pc = "clear"
  /\ request' = [request EXCEPT ![r].pc = "insert", ![r].clear = refs]
  /\ UNCHANGED <<rows, stale, crossed, raced>>

\* ... and new ones inserted.  This waits for whoever has deleted one of those
\* rows or inserted the same, and fails if its row is still there then.
Insert(r) ==
  /\ request[r].pc = "insert"
  /\ \A q \in At({"commit"}) \ {r} :
       /\ request[q].clear \cap request[r].clear = {}
       /\ request[q].seen \cap request[r].seen = {}
  /\ (refs \ request[r].clear) \cap request[r].seen = {}
  /\ request' = [request EXCEPT ![r].pc = "commit"]
  /\ UNCHANGED <<rows, stale, crossed, raced>>

Commit(r) ==
  /\ request[r].pc = "commit"
  /\ \A v \in request[r].volumes : volumes[v] < MaxVolumes
  /\ draft' = (draft \ request[r].delete) \cup request[r].insert
  /\ volumes' = [v \in VolumeNames |-> IF v \in request[r].volumes THEN volumes[v] + 1 ELSE volumes[v]]
  /\ refs' = (refs \ request[r].clear) \cup request[r].seen
  /\ request' = [q \in Requests |->
       IF q = r THEN NoCall
       ELSE IF request[q].pc \in {"clear", "insert", "commit"} /\ request[r].op # "volume"
              THEN [request[q] EXCEPT !.overtaken = TRUE] ELSE request[q]]
  /\ crossed' = IF request[r].op = "volume" THEN crossed ELSE request[r].overtaken
  /\ raced' = (raced \/ request[r].overtaken
                     \/ \E c \in request[r].seen : c \in deleting \/ c \notin secrets)
  /\ UNCHANGED <<gripped, secrets, deleting, stale>>

-----------------------------------------------------------------------------
(***************************************************************************)
(* Releases and the deletion of secrets.                                   *)
(***************************************************************************)
\* ProjectRelease: the rows of a release are those of its snapshot, which was taken
\* before the transaction, and by now may be one of any earlier draft.
CreateRelease ==
  /\ \E snapshot \in SUBSET Connections :
       /\ gripped' = gripped \cup snapshot
       /\ raced' = (raced \/ snapshot \cap (deleting \cup (Connections \ secrets)) # {})
  /\ UNCHANGED <<draft, volumes, refs, secrets, deleting, request, stale, crossed>>

\* Releases fail, are superseded or cancelled, or are collected.
EndReleases ==
  /\ gripped' \in SUBSET gripped
  /\ UNCHANGED <<draft, volumes, refs, secrets, deleting, request, stale, crossed, raced>>

\* Seeded fault: only the rows of the draft count.
DeleteCheckDraft(c) ==
  /\ c \in secrets \ deleting
  /\ c \notin refs
  /\ deleting' = deleting \cup {c}
  /\ UNCHANGED <<draft, volumes, refs, gripped, secrets, request, stale, crossed, raced>>

\* Delete asks IsReferentInUse, and then deletes the row.
DeleteCheck(c) ==
  /\ c \in secrets \ deleting
  /\ c \notin refs \cup gripped
  /\ deleting' = deleting \cup {c}
  /\ UNCHANGED <<draft, volumes, refs, gripped, secrets, request, stale, crossed, raced>>

DeleteSecret(c) ==
  /\ c \in deleting
  /\ deleting' = deleting \ {c}
  /\ secrets' = secrets \ {c}
  /\ UNCHANGED <<draft, volumes, refs, gripped, request, stale, crossed, raced>>

-----------------------------------------------------------------------------
Call(r) ==
  \/ Begin(r) \/ Admit(r) \/ Replace(r) \/ Edit(r) \/ AddVolume(r)
  \/ Project(r) \/ Clear(r) \/ Insert(r) \/ Commit(r) \/ Fail(r)

Next ==
  \/ \E r \in Requests : Call(r)
  \/ \E c \in Connections : DeleteCheck(c) \/ DeleteSecret(c)
  \/ CreateRelease
  \/ EndReleases

Spec == Init /\ [][Next]_vars

-----------------------------------------------------------------------------
(***************************************************************************)
(* Properties.                                                             *)
(***************************************************************************)
\* The draft keeps to the limit of the cloud policy whatever calls run at the same
\* time, but for a stack that was replaced on an outdated copy: what another call
\* had added meanwhile stays and was not counted.
QuotaKept == Cloud /\ ~stale => Cardinality(draft \cap Resources) <= MaxResources

\* No two volumes of a stack have one name: the lock of CreateStackVolume keeps
\* concurrent calls apart, though not the replacement of an outdated copy.
VolumeNamesUnique == ~stale => \A v \in VolumeNames : volumes[v] <= 1

\* The reference rows are those of the draft, also after projections that crossed
\* each other, as soon as one has run that no other edit overtook.
ReferencesMatchDraft == TypeOK /\ (~crossed => refs = draft \cap Connections)

\* A secret that the draft or a release in its history uses is there, unless two
\* edits crossed or its deletion was checked before the use was committed.
UsedSecretsKept == ~raced => (draft \cap Connections) \cup gripped \subseteq secrets

\* The same without exceptions, as the guide to environment variables says.
UsedSecretsStay == (draft \cap Connections) \cup gripped \subseteq secrets
=============================================================================
