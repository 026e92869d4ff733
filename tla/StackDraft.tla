----------------------------- MODULE StackDraft -----------------------------
(***************************************************************************)
(* What may be saved as the draft of a stack, and what a release makes of  *)
(* it.  A whole stack is validated before it replaces the draft            *)
(* (pkg/validator/stack), a single resource by the rules of resources only *)
(* (pkg/validator/stackresource), a single connection together with all    *)
(* others; a resource is deleted without looking at anything.  Each call   *)
(* validates what it has read and saves in a transaction of its own        *)
(* afterwards.  A release then resolves the draft (pkg/stackdeploy): what  *)
(* it cannot resolve fails the release.                                    *)
(*                                                                         *)
(* A resource is a record of the names of its ports, of those which are    *)
(* public, of the resources it depends on, of its environment variables    *)
(* and of the outputs of its own that they use; once it is saved also of   *)
(* the ports that have a hostname.  Of the outputs of a port its number    *)
(* and its public name are modelled, the urls go with them.  The mappings  *)
(* of a connection are abstracted to the variables they set, one for each  *)
(* mapping, to the outputs they use and to whether one of them is a        *)
(* template.  The database of an addon is part of the name of the addon.   *)
(***************************************************************************)
EXTENDS Functions

CONSTANTS
  Resources,        \* names
  Shapes,           \* what a resource may look like
  Connections,      \* the connections that may be asked for
  Stackfiles,       \* the whole stacks that may be applied: their resources and connections
  Volumes,          \* the volumes of the stack, which an edit of the draft never removes
  ExternalOutputs,  \* the keys of its secrets and the outputs of its addons
  Requests

VARIABLES
  resources,    \* the resources of the draft: a function from their names
  connections,  \* its connections
  request,      \* request[r]: what a call that has been validated wants to save
  \* History:
  current,      \* the calls since whose validation nothing was saved
  unchecked,    \* connections with an end that was changed or deleted since they were validated
  raced         \* a call saved what it had validated against another draft

draft == <<resources, connections>>
history == <<unchecked, raced>>
vars == <<resources, connections, request, current, unchecked, raced>>

-----------------------------------------------------------------------------
(***************************************************************************)
(* Outputs: what a resource offers to others, by the names of its ports.   *)
(***************************************************************************)
MultiPort(s) == \E p, q \in s.ports : p # q

\* The key of a port has the name of the port only if there are several.
OutputKey(base, s, p) == IF MultiPort(s) THEN <<base, p>> ELSE <<base>>

PublicPorts(s) == s.ports \cap s.public

\* EnsureDeclaredOutputs, against which values are validated.
DeclaredOutputs(s) ==
  {<<"host">>} \cup {OutputKey("port", s, p) : p \in s.ports}
               \cup {OutputKey("public", s, p) : p \in PublicPorts(s)}

\* ToOutputMap, from which values are taken: a public port without a hostname has no
\* public name.
OutputMap(s) ==
  {<<"host">>} \cup {OutputKey("port", s, p) : p \in s.ports}
               \cup {OutputKey("public", s, p) : p \in PublicPorts(s) \cap s.hosts}

\* Seeded fault: the hostname that the request comes with, none, is saved.
Unhosted(s) ==
  [ports |-> s.ports, public |-> s.public, deps |-> s.deps, self |-> s.self, env |-> s.env,
   hosts |-> {}]

\* A resource of that shape as it is saved: each public port gets a hostname in the same
\* transaction, or keeps the one it had, and the others lose theirs.
Hosted(s) ==
  [ports |-> s.ports, public |-> s.public, deps |-> s.deps, self |-> s.self, env |-> s.env,
   hosts |-> PublicPorts(s)]

-----------------------------------------------------------------------------
(***************************************************************************)
(* Validation, of resources res and connections conns.                     *)
(***************************************************************************)
\* Some resources all wait for one another: hasDependencyCycle, for which a
\* dependency on itself or on what is not there is no edge.
HasDependencyCycle(res) ==
  \E S \in SUBSET DOMAIN res :
    S # {} /\ \A n \in S : \E m \in S \ {n} : m \in res[n].deps

\* Seeded fault: the dependencies are only looked up.
ValidResourceAlone(res, n) ==
  /\ res[n].self \subseteq DeclaredOutputs(res[n])
  /\ res[n].deps \subseteq DOMAIN res \ {n}

\* The rules of a single resource, the candidate included in res.
ValidResource(res, n) ==
  /\ res[n].self \subseteq DeclaredOutputs(res[n])
  /\ res[n].deps \subseteq DOMAIN res \ {n}
  /\ ~HasDependencyCycle(res)

\* What the source of c offers, if there is such a source and it suits c.
ValidSource(res, c) ==
  CASE c.from.type = "resource" ->
         /\ c.from.name \in DOMAIN res
         /\ c.kind = "artifact" => c.to.type = "volume" /\ c.to.name \in Volumes
    [] c.from.type = "volume" -> c.kind = "mount" /\ c.from.name \in Volumes
    [] c.from.type = "addon" -> c.kind = "env"
    [] OTHER -> TRUE

AllowedOutputs(res, c) ==
  CASE c.from.type = "resource" -> DeclaredOutputs(res[c.from.name])
    [] c.from.type = "volume" -> {}
    [] OTHER -> ExternalOutputs

\* validateSingleConnection.
ValidConnection(res, c) ==
  /\ c.to.type = "resource" => c.to.name \in DOMAIN res
  /\ ValidSource(res, c)
  /\ c.kind = "env" => c.outputs \subseteq AllowedOutputs(res, c)

ValidConnections(res, conns) == \A c \in conns : ValidConnection(res, c)

ValidStack(res, conns) ==
  /\ \A n \in DOMAIN res : ValidResource(res, n)
  /\ ValidConnections(res, conns)

-----------------------------------------------------------------------------
(***************************************************************************)
(* Resolution, of one connection and then of the draft.                    *)
(***************************************************************************)
\* Environment variables of a resource that is not there are not looked at.
ResolvesEnv(res, c) ==
  c.to.type = "resource" /\ c.to.name \in DOMAIN res =>
    CASE c.from.type = "resource" ->
           c.from.name \in DOMAIN res /\ c.outputs \subseteq OutputMap(res[c.from.name])
      [] c.from.type = "volume" -> TRUE
      [] OTHER -> ~c.template /\ c.outputs \subseteq ExternalOutputs

ResolvesMount(res, c) ==
  /\ c.from.type = "volume" /\ c.from.name \in Volumes
  /\ c.to.type = "resource" /\ c.to.name \in DOMAIN res

ResolvesArtifact(res, c) ==
  /\ c.from.type = "resource" /\ c.from.name \in DOMAIN res
  /\ c.to.type = "volume" /\ c.to.name \in Volumes

Resolves(res, c) ==
  CASE c.kind = "env" -> ResolvesEnv(res, c)
    [] c.kind = "mount" -> ResolvesMount(res, c)
    [] OTHER -> ResolvesArtifact(res, c)

\* The connections whose variables are added to those of n itself.
EnvInto(conns, n) ==
  {c \in conns : /\ c.kind = "env" /\ c.from.type # "volume"
                 /\ c.to.type = "resource" /\ c.to.name = n}

\* appendWithoutDuplicates fails: no two mappings into a resource may set one variable,
\* nor may one set a variable that the resource has.
MappedTwice(res, conns, n) ==
  \E c, d \in EnvInto(conns, n) :
    \/ ~IsInjective(c.variables)
    \/ Range(c.variables) \cap res[n].env # {}
    \/ c # d /\ Range(c.variables) \cap Range(d.variables) # {}

SelfResolves(res, n) == res[n].self \subseteq OutputMap(res[n])

\* Resolve, of the whole draft.
DraftResolved(res, conns) ==
  /\ \A c \in conns : Resolves(res, c)
  /\ \A n \in DOMAIN res : SelfResolves(res, n) /\ ~MappedTwice(res, conns, n)

-----------------------------------------------------------------------------
(***************************************************************************)
(* Calls: what they want, when it is accepted, what they save.             *)
(***************************************************************************)
Touches(c, n) ==
  \/ c.from.type = "resource" /\ c.from.name = n
  \/ c.to.type = "resource" /\ c.to.name = n

\* The resources with n added or changed to s, and without n.
With(res, n, s) == [m \in DOMAIN res \cup {n} |-> IF m = n THEN s ELSE res[m]]
Without(res, n) == [m \in DOMAIN res \ {n} |-> res[m]]

\* One connection of a kind between two ends: the unique index, and the check before.
Free(c, conns) == \A d \in conns : <<d.kind, d.from, d.to>> # <<c.kind, c.from, c.to>>

Idle == [op |-> "none"]

Wishes ==
  [op : {"create", "update"}, name : Resources, shape : Shapes]
    \cup [op : {"delete"}, name : Resources]
    \cup [op : {"connect"}, connection : Connections]
    \cup [op : {"reconnect"}, old : connections, connection : Connections]
    \cup [op : {"disconnect"}, old : connections]
    \cup [op : {"replace"}, stack : Stackfiles, seen : {DOMAIN resources}]

\* What a call that wants w is answered after it has read res and conns.
Accepted(w, res, conns) ==
  CASE w.op = "create" ->
         w.name \notin DOMAIN res /\ ValidResource(With(res, w.name, w.shape), w.name)
    [] w.op = "update" ->
         w.name \in DOMAIN res /\ ValidResource(With(res, w.name, w.shape), w.name)
    [] w.op = "delete" -> w.name \in DOMAIN res
    [] w.op = "connect" ->
         Free(w.connection, conns) /\ ValidConnections(res, conns \cup {w.connection})
    [] w.op = "reconnect" ->
         /\ Free(w.connection, conns \ {w.old})
         /\ ValidConnections(res, (conns \ {w.old}) \cup {w.connection})
    [] w.op = "disconnect" -> ValidConnections(res, conns \ {w.old})
    [] OTHER -> ValidStack(w.stack.resources, w.stack.connections)

-----------------------------------------------------------------------------
Init ==
  /\ \E s \in Stackfiles :
       /\ ValidStack(s.resources, s.connections)
       /\ resources = [n \in DOMAIN s.resources |-> Hosted(s.resources[n])]
       /\ connections = s.connections
  /\ request = [r \in Requests |-> Idle]
  /\ current = {}
  /\ unchecked = {}
  /\ raced = FALSE

\* A call reads the draft and validates what it wants against it.
Check(r) ==
  /\ request[r] = Idle
  /\ \E w \in Wishes :
       /\ Accepted(w, resources, connections)
       /\ request' = [request EXCEPT ![r] = w]
  /\ current' = current \cup {r}
  /\ UNCHANGED <<draft, history>>

\* What another call still wants when the rows of these resources and connections are
\* gone.  Rows are changed and deleted by their ids: a call that holds the id of a row
\* that is gone fails or finds nothing to delete, and one that replaces the stack has
\* nothing to delete there.
Left(w, names, conns) ==
  CASE w.op \in {"update", "delete"} /\ w.name \in names -> Idle
    [] w.op \in {"reconnect", "disconnect"} /\ w.old \in conns -> Idle
    [] w.op = "replace" /\ w.seen \cap names \cap DOMAIN w.stack.resources # {} -> Idle
    [] w.op = "replace" -> [w EXCEPT !.seen = @ \ names]
    [] OTHER -> w

Answered(r, names, conns) ==
  /\ request' = [q \in Requests |-> IF q = r THEN Idle ELSE Left(request[q], names, conns)]
  /\ current' = {}

\* The connections of the draft that were not validated after n was changed.
ChangedEnd(n) == unchecked' = unchecked \cup {c \in connections : Touches(c, n)}

\* The transactions.  The unique index refuses a second resource of a name.
SaveCreated(r) ==
  /\ request[r].op = "create" /\ request[r].name \notin DOMAIN resources
  /\ resources' = With(resources, request[r].name, Hosted(request[r].shape))
  /\ raced' = (raced \/ r \notin current)
  /\ UNCHANGED <<connections, unchecked>>
  /\ Answered(r, {}, {})

SaveUpdated(r) ==
  /\ request[r].op = "update"
  /\ resources' = With(resources, request[r].name, Hosted(request[r].shape))
  /\ raced' = (raced \/ r \notin current)
  /\ ChangedEnd(request[r].name)
  /\ UNCHANGED connections
  /\ Answered(r, {}, {})

\* Nothing is validated, and connections of the resource stay.
SaveDeleted(r) ==
  /\ request[r].op = "delete"
  /\ resources' = Without(resources, request[r].name)
  /\ ChangedEnd(request[r].name)
  /\ UNCHANGED <<connections, raced>>
  /\ Answered(r, {request[r].name}, {})

\* All the connections were validated, with the resources there are.
Revalidated(r) ==
  /\ raced' = (raced \/ r \notin current)
  /\ unchecked' = IF r \in current THEN {} ELSE unchecked

SaveConnected(r) ==
  /\ request[r].op = "connect" /\ Free(request[r].connection, connections)
  /\ connections' = connections \cup {request[r].connection}
  /\ Revalidated(r)
  /\ UNCHANGED resources
  /\ Answered(r, {}, {})

\* The row keeps its id: other calls that hold it now mean what it has become.
SaveReconnected(r) ==
  LET old == request[r].old  new == request[r].connection
  IN  /\ request[r].op = "reconnect" /\ Free(new, connections \ {old})
      /\ connections' = (connections \ {old}) \cup {new}
      /\ Revalidated(r)
      /\ UNCHANGED resources
      /\ request' = [q \in Requests |->
                       IF q = r THEN Idle
                       ELSE IF request[q].op \in {"reconnect", "disconnect"} /\ request[q].old = old
                       THEN [request[q] EXCEPT !.old = new]
                       ELSE request[q]]
      /\ current' = {}

SaveDisconnected(r) ==
  /\ request[r].op = "disconnect"
  /\ connections' = connections \ {request[r].old}
  /\ Revalidated(r)
  /\ UNCHANGED resources
  /\ Answered(r, {}, {request[r].old})

\* The copy read before decides which resources are created, updated and deleted; one
\* that it did not have stays.  Connections get new rows.
SaveReplaced(r) ==
  LET wanted == request[r].stack.resources
      seen   == request[r].seen
  IN  /\ request[r].op = "replace"
      /\ DOMAIN wanted \cap DOMAIN resources \subseteq seen
      /\ resources' = [n \in DOMAIN wanted \cup (DOMAIN resources \ seen) |->
                         IF n \in DOMAIN wanted THEN Hosted(wanted[n]) ELSE resources[n]]
      /\ connections' = request[r].stack.connections
      /\ raced' = (r \notin current)
      /\ unchecked' = {}
      /\ Answered(r, seen \ DOMAIN wanted, connections)

Save(r) ==
  \/ SaveCreated(r) \/ SaveUpdated(r) \/ SaveDeleted(r)
  \/ SaveConnected(r) \/ SaveReconnected(r) \/ SaveDisconnected(r)
  \/ SaveReplaced(r)

\* A call fails, whatever it was to save: what it would change is not there any more,
\* access or a limit is refused, or the database is.
GiveUp(r) ==
  /\ request[r] # Idle
  /\ request' = [request EXCEPT ![r] = Idle]
  /\ UNCHANGED <<draft, current, history>>

Next == \E r \in Requests : Check(r) \/ Save(r) \/ GiveUp(r)

Spec == Init /\ [][Next]_vars

-----------------------------------------------------------------------------
SomeShapes == Shapes \cup UNION {{s.resources[n] : n \in DOMAIN s.resources} : s \in Stackfiles}

SomeConnections == Connections \cup UNION {s.connections : s \in Stackfiles}

TypeOK ==
  /\ DOMAIN resources \subseteq Resources
  /\ \A n \in DOMAIN resources : resources[n] \in {Hosted(s) : s \in SomeShapes}
  /\ connections \subseteq SomeConnections
  /\ DOMAIN request = Requests /\ current \subseteq Requests
  /\ unchecked \subseteq SomeConnections
  /\ raced \in BOOLEAN

\* What resolution has a case for: a connection of a kind that does not fit its ends,
\* or a template over values of a secret or an addon, is saved and fails every release.
Fits(c) ==
  CASE c.kind = "env" -> c.from.type = "resource" \/ ~c.template
    [] c.kind = "mount" -> c.from.type = "volume" /\ c.to.type = "resource"
    [] c.kind = "artifact" -> c.from.type = "resource"
    [] OTHER -> FALSE

\* In a draft that was never saved from an outdated copy no resources wait for one
\* another in a circle, every variable that uses an output of its own resource resolves,
\* and so does every connection that was validated since its ends last changed, by itself
\* and if resolution has a case for it.  That holds although resources come, change and
\* go one at a time, each validated without the connections, names are declared by one
\* function and valued by another, and a public name has no value before it is saved.
ValidatedResolves ==
  ~raced =>
    /\ ~HasDependencyCycle(resources)
    /\ \A n \in DOMAIN resources : SelfResolves(resources, n)
    /\ \A c \in connections \ unchecked : Fits(c) => Resolves(resources, c)

\* Not so: that such a draft, all of it validated, can be released.  No validation looks
\* for a variable that is set twice, by two connections or by a connection and by the
\* resource, and that fails the release.
DraftResolves ==
  ~raced /\ unchecked = {} /\ (\A c \in connections : Fits(c)) =>
    DraftResolved(resources, connections)
=============================================================================
