---------------------------- MODULE StackProofs ----------------------------
(***************************************************************************)
(* What StackDraft, StackTeardown and StackEdits promise of a stack, for   *)
(* any resources, connections, volumes, calls and bounds: of each its      *)
(* inductive invariant, one lemma per action, and the theorems. StackDraft *)
(* comes first: a call whose view is current would be accepted again, and  *)
(* what was accepted stays valid until an end of it changes.               *)
(*                                                                         *)
(* StackTeardown implements StackEnding, from which it follows that        *)
(* nothing is left behind.                                                 *)
(***************************************************************************)
EXTENDS Services, FiniteSetTheorems, TLAPS

\* A call of which nothing was saved since it read the draft is still acceptable.
FreshAccepted ==
  \A r \in DraftRequests :
    r \in current /\ draftRequest[r] # Draft!Idle =>
      /\ Draft!Accepted(draftRequest[r], draftResources, draftConnections)
      /\ draftRequest[r].op = "replace" => draftRequest[r].seen = DOMAIN draftResources

\* Resources res with connections conns, of which those in skip need not be valid.
Sound(res, conns, skip) ==
  /\ ~Draft!HasDependencyCycle(res)
  /\ \A n \in DOMAIN res : res[n].self \subseteq Draft!DeclaredOutputs(res[n])
  /\ \A c \in conns \ skip : Draft!ValidConnection(res, c)

\* FreshAccepted is what makes Sound inductive: a call is judged by what it found when
\* it read.
DraftInv ==
  /\ DOMAIN draftRequest = DraftRequests
  /\ FreshAccepted
  /\ ~draftRaced => Sound(draftResources, draftConnections, unchecked)

-----------------------------------------------------------------------------
\* Resources that look the same to validation.
Alike(s, t) ==
  /\ s.deps = t.deps /\ s.self = t.self
  /\ Draft!DeclaredOutputs(s) = Draft!DeclaredOutputs(t)

SameResources(A, B) == DOMAIN A = DOMAIN B /\ \A n \in DOMAIN A : Alike(A[n], B[n])

\* The hostnames that a resource is saved with are none of the things that are validated.
LEMMA HostedAlike ==
  ASSUME NEW s
  PROVE  Alike(s, Draft!Hosted(s))
<1>1. Draft!MultiPort(Draft!Hosted(s)) = Draft!MultiPort(s)
  BY DEF Draft!MultiPort, Draft!Hosted
<1>2. \A base, p : Draft!OutputKey(base, Draft!Hosted(s), p) = Draft!OutputKey(base, s, p)
  BY <1>1 DEF Draft!OutputKey
<1>3. Draft!PublicPorts(Draft!Hosted(s)) = Draft!PublicPorts(s) /\ Draft!Hosted(s).ports = s.ports
  BY DEF Draft!PublicPorts, Draft!Hosted
<1>4. Draft!DeclaredOutputs(Draft!Hosted(s)) = Draft!DeclaredOutputs(s)
  BY <1>2, <1>3 DEF Draft!DeclaredOutputs
<1> QED BY <1>4 DEF Alike, Draft!Hosted

\* Each public port of a resource that is saved has a hostname, and so a value.
LEMMA HostedHasValues ==
  ASSUME NEW s
  PROVE  Draft!OutputMap(Draft!Hosted(s)) = Draft!DeclaredOutputs(Draft!Hosted(s))
<1>1. Draft!PublicPorts(Draft!Hosted(s)) \cap Draft!Hosted(s).hosts
        = Draft!PublicPorts(Draft!Hosted(s))
  BY DEF Draft!PublicPorts, Draft!Hosted
<1> QED BY <1>1 DEF Draft!OutputMap, Draft!DeclaredOutputs

\* Saved like that, a resource is as valid as it was.
LEMMA HostedAsValid ==
  ASSUME NEW res, NEW n, NEW s, Draft!ValidResource(Draft!With(res, n, s), n)
  PROVE  Draft!ValidResource(Draft!With(res, n, Draft!Hosted(s)), n)
<1> DEFINE A == Draft!With(res, n, s)
           B == Draft!With(res, n, Draft!Hosted(s))
<1>1. SameResources(A, B) /\ n \in DOMAIN A
  BY HostedAlike DEF Draft!With, SameResources, Alike
<1> HIDE DEF A, B
<1>2. ~Draft!HasDependencyCycle(B)
  BY <1>1 DEF A, B, SameResources, Alike, Draft!ValidResource, Draft!HasDependencyCycle
<1>3. /\ B[n].self \subseteq Draft!DeclaredOutputs(B[n])
      /\ B[n].deps \subseteq DOMAIN B \ {n}
  BY <1>1 DEF A, SameResources, Alike, Draft!ValidResource
<1> QED BY <1>2, <1>3 DEF B, Draft!ValidResource

\* Validation does not tell them apart.
LEMMA SameIsAsValid ==
  ASSUME NEW A, NEW B, SameResources(A, B), NEW conns, NEW skip, Sound(A, conns, skip)
  PROVE  Sound(B, conns, skip)
<1>1. ~Draft!HasDependencyCycle(B)
  BY DEF SameResources, Alike, Sound, Draft!HasDependencyCycle
<1>2. \A n \in DOMAIN B : B[n].self \subseteq Draft!DeclaredOutputs(B[n])
  BY DEF SameResources, Alike, Sound
<1>3. ASSUME NEW c \in conns \ skip PROVE Draft!ValidConnection(B, c)
  BY <1>3 DEF SameResources, Alike, Sound, Draft!ValidConnection, Draft!ValidSource,
              Draft!AllowedOutputs
<1> QED BY <1>1, <1>2, <1>3 DEF Sound

\* Removing a resource closes no circle.
LEMMA WithoutAddsNoCycle ==
  ASSUME NEW res, NEW n, ~Draft!HasDependencyCycle(res)
  PROVE  ~Draft!HasDependencyCycle(Draft!Without(res, n))
  BY DEF Draft!HasDependencyCycle, Draft!Without

\* A connection that does not touch n is not affected by a change of n.
LEMMA UntouchedStaysValid ==
  ASSUME NEW A, NEW B, NEW n, NEW c, Draft!ValidConnection(A, c), ~Draft!Touches(c, n),
         \A m : m # n /\ m \in DOMAIN A => m \in DOMAIN B /\ B[m] = A[m]
  PROVE  Draft!ValidConnection(B, c)
  BY DEF Draft!ValidConnection, Draft!ValidSource, Draft!AllowedOutputs, Draft!Touches

\* A new resource leaves the connections that were valid without it valid.
LEMMA NewcomerHarmless ==
  ASSUME NEW A, NEW B, NEW n, NEW c, Draft!ValidConnection(A, c), n \notin DOMAIN A,
         \A m : m # n /\ m \in DOMAIN A => m \in DOMAIN B /\ B[m] = A[m]
  PROVE  Draft!ValidConnection(B, c)
  BY DEF Draft!ValidConnection, Draft!ValidSource, Draft!AllowedOutputs

\* What is valid resolves, if resolution has a case for it and the outputs that are
\* declared have values.
LEMMA ValidResolves ==
  ASSUME NEW res, NEW c, Draft!ValidConnection(res, c), Draft!Fits(c),
         \A n \in DOMAIN res : Draft!OutputMap(res[n]) = Draft!DeclaredOutputs(res[n])
  PROVE  Draft!Resolves(res, c)
<1>2. CASE c.kind = "env"
  BY <1>2 DEF Draft!Resolves, Draft!ResolvesEnv, Draft!Fits, Draft!ValidConnection,
                    Draft!ValidSource, Draft!AllowedOutputs
<1>3. CASE c.kind = "mount"
  BY <1>3 DEF Draft!Resolves, Draft!ResolvesMount, Draft!Fits, Draft!ValidConnection,
              Draft!ValidSource
<1>4. CASE c.kind = "artifact"
  BY <1>4 DEF Draft!Resolves, Draft!ResolvesArtifact, Draft!Fits, Draft!ValidConnection,
              Draft!ValidSource
<1> QED BY <1>2, <1>3, <1>4 DEF Draft!Fits

-----------------------------------------------------------------------------
LEMMA DraftInit == Draft!Init => DraftInv
<1> SUFFICES ASSUME Draft!Init PROVE DraftInv
  OBVIOUS
<1>1. DOMAIN draftRequest = DraftRequests /\ FreshAccepted
  BY DEF Draft!Init, FreshAccepted
<1>2. PICK s \in Stackfiles :
        /\ Draft!ValidStack(s.resources, s.connections)
        /\ draftResources = [n \in DOMAIN s.resources |-> Draft!Hosted(s.resources[n])]
        /\ draftConnections = s.connections
  BY DEF Draft!Init
<1>3. SameResources(s.resources, draftResources)
  BY <1>2, HostedAlike DEF SameResources
<1>4. Sound(s.resources, s.connections, unchecked)
  BY <1>2 DEF Sound, Draft!ValidStack, Draft!ValidResource, Draft!ValidConnections,
              Draft!HasDependencyCycle
<1>5. Sound(draftResources, draftConnections, unchecked)
  BY <1>2, <1>3, <1>4, SameIsAsValid
<1> QED BY <1>1, <1>5 DEF DraftInv

\* Nobody is current after a call was answered.
LEMMA AnsweredKeepsFresh ==
  ASSUME NEW r \in DraftRequests, Draft!Save(r)
  PROVE  DOMAIN draftRequest' = DraftRequests /\ FreshAccepted'
<1>1. DOMAIN draftRequest' = DraftRequests /\ current' = {}
  BY DEF Draft!Save, Draft!SaveCreated, Draft!SaveUpdated, Draft!SaveDeleted,
         Draft!SaveConnected, Draft!SaveReconnected,
         Draft!SaveDisconnected, Draft!SaveReplaced, Draft!Answered
<1> QED BY <1>1 DEF FreshAccepted

\* What a current call saves was acceptable a moment ago.
LEMMA CurrentIsAccepted ==
  ASSUME NEW r \in DraftRequests, DraftInv, r \in current, draftRequest[r] # Draft!Idle
  PROVE  /\ Draft!Accepted(draftRequest[r], draftResources, draftConnections)
         /\ draftRequest[r].op = "replace" => draftRequest[r].seen = DOMAIN draftResources
  BY DEF DraftInv, FreshAccepted

LEMMA CreatedSound ==
  ASSUME NEW r \in DraftRequests, DraftInv, Draft!SaveCreated(r), ~draftRaced'
  PROVE  Sound(draftResources, draftConnections, unchecked)'
<1> DEFINE n == draftRequest[r].name
           hosted == Draft!Hosted(draftRequest[r].shape)
<1>1. ~draftRaced /\ r \in current /\ draftRequest[r] # Draft!Idle
  <2>1. draftRequest[r] # Draft!Idle
    BY DEF Draft!SaveCreated, Draft!Idle
  <2> QED BY <2>1 DEF Draft!SaveCreated
<1>2. /\ n \notin DOMAIN draftResources
      /\ Draft!ValidResource(Draft!With(draftResources, n, hosted), n)
  BY <1>1, CurrentIsAccepted, HostedAsValid DEF Draft!Accepted, Draft!SaveCreated
<1>3. /\ draftResources' = Draft!With(draftResources, n, hosted)
      /\ draftConnections' = draftConnections /\ unchecked' = unchecked
  BY DEF Draft!SaveCreated
<1>4. Sound(draftResources, draftConnections, unchecked)
  BY <1>1 DEF DraftInv
<1>5. \A m : m # n /\ m \in DOMAIN draftResources =>
             m \in DOMAIN draftResources' /\ draftResources'[m] = draftResources[m]
  BY <1>3 DEF Draft!With
<1>6. ~Draft!HasDependencyCycle(draftResources')
  BY <1>2, <1>3 DEF Draft!ValidResource
<1>7. \A m \in DOMAIN draftResources' :
         draftResources'[m].self \subseteq Draft!DeclaredOutputs(draftResources'[m])
  <2>1. DOMAIN draftResources' = DOMAIN draftResources \cup {n}
    BY <1>3 DEF Draft!With
  <2> QED BY <1>2, <1>3, <1>4, <1>5, <2>1 DEF Draft!ValidResource, Sound
<1>8. \A c \in draftConnections' \ unchecked' : Draft!ValidConnection(draftResources', c)
  BY <1>2, <1>3, <1>4, <1>5, NewcomerHarmless DEF Sound
<1> QED BY <1>6, <1>7, <1>8 DEF Sound

LEMMA UpdatedSound ==
  ASSUME NEW r \in DraftRequests, DraftInv, Draft!SaveUpdated(r), ~draftRaced'
  PROVE  Sound(draftResources, draftConnections, unchecked)'
<1> DEFINE n == draftRequest[r].name
           hosted == Draft!Hosted(draftRequest[r].shape)
<1>1. ~draftRaced /\ r \in current /\ draftRequest[r] # Draft!Idle
  <2>1. draftRequest[r] # Draft!Idle
    BY DEF Draft!SaveUpdated, Draft!Idle
  <2> QED BY <2>1 DEF Draft!SaveUpdated
<1>2. Draft!ValidResource(Draft!With(draftResources, n, hosted), n)
  BY <1>1, CurrentIsAccepted, HostedAsValid DEF Draft!Accepted, Draft!SaveUpdated
<1>3. /\ draftResources' = Draft!With(draftResources, n, hosted)
      /\ draftConnections' = draftConnections
      /\ unchecked' = unchecked \cup {c \in draftConnections : Draft!Touches(c, n)}
  BY DEF Draft!SaveUpdated, Draft!ChangedEnd
<1>4. Sound(draftResources, draftConnections, unchecked)
  BY <1>1 DEF DraftInv
<1>5. \A m : m # n /\ m \in DOMAIN draftResources =>
             m \in DOMAIN draftResources' /\ draftResources'[m] = draftResources[m]
  BY <1>3 DEF Draft!With
<1>6. ~Draft!HasDependencyCycle(draftResources')
  BY <1>2, <1>3 DEF Draft!ValidResource
<1>7. \A m \in DOMAIN draftResources' :
         draftResources'[m].self \subseteq Draft!DeclaredOutputs(draftResources'[m])
  <2>1. DOMAIN draftResources' = DOMAIN draftResources \cup {n}
    BY <1>3 DEF Draft!With
  <2> QED BY <1>2, <1>3, <1>4, <1>5, <2>1 DEF Draft!ValidResource, Sound
<1>8. \A c \in draftConnections' \ unchecked' : Draft!ValidConnection(draftResources', c)
  BY <1>3, <1>4, <1>5, UntouchedStaysValid DEF Sound
<1> QED BY <1>6, <1>7, <1>8 DEF Sound

LEMMA DeletedSound ==
  ASSUME NEW r \in DraftRequests, DraftInv, Draft!SaveDeleted(r), ~draftRaced'
  PROVE  Sound(draftResources, draftConnections, unchecked)'
<1> DEFINE n == draftRequest[r].name
<1>1. /\ draftResources' = Draft!Without(draftResources, n)
      /\ draftConnections' = draftConnections
      /\ unchecked' = unchecked \cup {c \in draftConnections : Draft!Touches(c, n)}
  BY DEF Draft!SaveDeleted, Draft!ChangedEnd
<1>2. Sound(draftResources, draftConnections, unchecked)
  BY DEF DraftInv, Draft!SaveDeleted
<1>3. \A m : m # n /\ m \in DOMAIN draftResources =>
             m \in DOMAIN draftResources' /\ draftResources'[m] = draftResources[m]
  BY <1>1 DEF Draft!Without
<1>4. ~Draft!HasDependencyCycle(draftResources')
  BY <1>1, <1>2, WithoutAddsNoCycle DEF Sound
<1>5. \A m \in DOMAIN draftResources' :
         draftResources'[m].self \subseteq Draft!DeclaredOutputs(draftResources'[m])
  <2>1. \A m \in DOMAIN draftResources' : m \in DOMAIN draftResources
        /\ draftResources'[m] = draftResources[m]
    BY <1>1 DEF Draft!Without
  <2> QED BY <1>2, <2>1 DEF Sound
<1>6. \A c \in draftConnections' \ unchecked' : Draft!ValidConnection(draftResources', c)
  BY <1>1, <1>2, <1>3, UntouchedStaysValid DEF Sound
<1> QED BY <1>4, <1>5, <1>6 DEF Sound

\* The three edits of a connection validate all of them.
LEMMA ConnectionEditSound ==
  ASSUME NEW r \in DraftRequests, DraftInv, ~draftRaced',
         Draft!SaveConnected(r) \/ Draft!SaveReconnected(r) \/ Draft!SaveDisconnected(r)
  PROVE  Sound(draftResources, draftConnections, unchecked)'
<1>1. ~draftRaced /\ r \in current /\ draftRequest[r] # Draft!Idle
  <2>1. draftRequest[r] # Draft!Idle
    BY DEF Draft!SaveConnected, Draft!SaveReconnected, Draft!SaveDisconnected, Draft!Idle
  <2> QED BY <2>1 DEF Draft!SaveConnected, Draft!SaveReconnected, Draft!SaveDisconnected,
                      Draft!Revalidated
<1>2. draftResources' = draftResources
  BY DEF Draft!SaveConnected, Draft!SaveReconnected, Draft!SaveDisconnected
<1>3. Draft!ValidConnections(draftResources, draftConnections')
  <2>1. Draft!Accepted(draftRequest[r], draftResources, draftConnections)
    BY <1>1, CurrentIsAccepted
  <2>2. CASE Draft!SaveConnected(r)
    BY <2>1, <2>2 DEF Draft!SaveConnected, Draft!Accepted
  <2>3. CASE Draft!SaveReconnected(r)
    BY <2>1, <2>3 DEF Draft!SaveReconnected, Draft!Accepted
  <2>4. CASE Draft!SaveDisconnected(r)
    BY <2>1, <2>4 DEF Draft!SaveDisconnected, Draft!Accepted
  <2> QED BY <2>2, <2>3, <2>4
<1>4. /\ ~Draft!HasDependencyCycle(draftResources)
      /\ \A n \in DOMAIN draftResources :
               draftResources[n].self \subseteq Draft!DeclaredOutputs(draftResources[n])
  BY <1>1 DEF DraftInv, Sound
<1> QED BY <1>2, <1>3, <1>4 DEF Sound, Draft!ValidConnections

LEMMA ReplacedSound ==
  ASSUME NEW r \in DraftRequests, DraftInv, Draft!SaveReplaced(r), ~draftRaced'
  PROVE  Sound(draftResources, draftConnections, unchecked)'
<1> DEFINE wanted == draftRequest[r].stack.resources
<1>1. r \in current /\ draftRequest[r] # Draft!Idle
  <2>1. draftRequest[r] # Draft!Idle
    BY DEF Draft!SaveReplaced, Draft!Idle
  <2> QED BY <2>1 DEF Draft!SaveReplaced
<1>2. /\ Draft!ValidStack(wanted, draftRequest[r].stack.connections)
      /\ draftRequest[r].seen = DOMAIN draftResources
  BY <1>1, CurrentIsAccepted DEF Draft!Accepted, Draft!SaveReplaced
<1>3. SameResources(wanted, draftResources')
  BY <1>2, HostedAlike DEF Draft!SaveReplaced, SameResources
<1>4. Sound(wanted, draftRequest[r].stack.connections, {})
  BY <1>2 DEF Draft!ValidStack, Draft!ValidResource, Draft!ValidConnections,
              Draft!HasDependencyCycle, Sound
<1>5. Sound(draftResources', draftRequest[r].stack.connections, {})
  BY <1>3, <1>4, SameIsAsValid
<1>6. draftConnections' = draftRequest[r].stack.connections /\ unchecked' = {}
  BY DEF Draft!SaveReplaced
<1> QED BY <1>5, <1>6

LEMMA DraftNext == DraftInv /\ [Draft!Next]_(Draft!vars) => DraftInv'
<1> SUFFICES ASSUME DraftInv, [Draft!Next]_(Draft!vars) PROVE DraftInv'
  OBVIOUS
<1>1. ASSUME NEW r \in DraftRequests, Draft!Check(r) PROVE DraftInv'
  <2>1. DOMAIN draftRequest' = DraftRequests
    BY <1>1 DEF Draft!Check, DraftInv
  <2>2. PICK w \in Draft!Wishes :
          Draft!Accepted(w, draftResources, draftConnections)
          /\ draftRequest' = [draftRequest EXCEPT ![r] = w]
    BY <1>1 DEF Draft!Check
  <2>3. w.op = "replace" => w.seen = DOMAIN draftResources
    BY <2>2 DEF Draft!Wishes
  <2>4. /\ draftResources' = draftResources /\ draftConnections' = draftConnections
        /\ unchecked' = unchecked /\ draftRaced' = draftRaced
    BY <1>1 DEF Draft!Check, Draft!draft, Draft!history
  <2>5. \A q \in DraftRequests \ {r} : (q \in current' <=> q \in current)
        /\ draftRequest'[q] = draftRequest[q]
    BY <1>1 DEF Draft!Check, DraftInv
  <2>6. draftRequest'[r] = w
    BY <2>2 DEF DraftInv
  <2>7. FreshAccepted'
    BY <2>2, <2>3, <2>4, <2>5, <2>6 DEF DraftInv, FreshAccepted, Draft!Accepted
  <2> QED BY <2>1, <2>4, <2>7 DEF DraftInv
<1>2. ASSUME NEW r \in DraftRequests, Draft!Save(r) PROVE DraftInv'
  <2>1. ~draftRaced' => Sound(draftResources, draftConnections, unchecked)'
    BY <1>2, CreatedSound, UpdatedSound, DeletedSound, ConnectionEditSound, ReplacedSound
     DEF Draft!Save
  <2> QED BY <1>2, <2>1, AnsweredKeepsFresh DEF DraftInv
<1>3. ASSUME NEW r \in DraftRequests, Draft!GiveUp(r) PROVE DraftInv'
  <2>1. /\ draftResources' = draftResources /\ draftConnections' = draftConnections
           /\ current' = current
        /\ unchecked' = unchecked /\ draftRaced' = draftRaced
        /\ draftRequest' = [draftRequest EXCEPT ![r] = Draft!Idle]
    BY <1>3 DEF Draft!GiveUp, Draft!draft, Draft!history
  <2>2. \A q \in DraftRequests : draftRequest'[q] # Draft!Idle =>
          draftRequest'[q] = draftRequest[q]
    BY <2>1 DEF DraftInv
  <2>3. FreshAccepted'
    BY <2>1, <2>2 DEF DraftInv, FreshAccepted, Draft!Accepted
  <2> QED BY <2>1, <2>3 DEF DraftInv
<1>4. CASE UNCHANGED Draft!vars
  BY <1>4 DEF Draft!vars, DraftInv, FreshAccepted, Sound, Draft!Accepted
<1> QED BY <1>1, <1>2, <1>3, <1>4 DEF Draft!Next

-----------------------------------------------------------------------------
\* For any calls on a draft at once, DraftInv holds throughout: what is saved was accepted
\* by the draft it is saved to, unless the copy was outdated.
THEOREM DraftInvariance == Draft!Spec => []DraftInv
BY DraftInit, DraftNext, PTL DEF Draft!Spec

\* What a call may want, whatever has been saved since it was accepted.
DraftWishes ==
  {Draft!Idle}
    \cup [op : {"create", "update"}, name : Resources, shape : Shapes]
    \cup [op : {"delete"}, name : Resources]
    \cup [op : {"connect"}, connection : DraftConnections]
    \cup [op : {"reconnect"}, old : Draft!SomeConnections, connection : DraftConnections]
    \cup [op : {"disconnect"}, old : Draft!SomeConnections]
    \cup [op : {"replace"}, stack : Stackfiles, seen : SUBSET Resources]

SavedShapes == {Draft!Hosted(s) : s \in Draft!SomeShapes}

DraftTyped == Draft!TypeOK /\ \A r \in DraftRequests : draftRequest[r] \in DraftWishes

LEMMA StackfileTyped ==
  ASSUME NEW s \in Stackfiles
  PROVE  /\ DOMAIN s.resources \subseteq Resources
         /\ s.connections \subseteq Draft!SomeConnections
         /\ \A n \in DOMAIN s.resources : Draft!Hosted(s.resources[n]) \in SavedShapes
<1>1. s.connections \subseteq Draft!SomeConnections
  BY DEF Draft!SomeConnections
<1>2. \A n \in DOMAIN s.resources : s.resources[n] \in Draft!SomeShapes
  BY DEF Draft!SomeShapes
<1> QED BY <1>1, <1>2, StackfilesAssumption DEF SavedShapes

LEMMA DraftTypedInit ==
  ASSUME Draft!Init
  PROVE  DraftTyped
<1>1. PICK s \in Stackfiles :
        /\ draftResources = [n \in DOMAIN s.resources |-> Draft!Hosted(s.resources[n])]
        /\ draftConnections = s.connections
  BY DEF Draft!Init
<1>2. \A r \in DraftRequests : draftRequest[r] = Draft!Idle
  BY DEF Draft!Init
<1>3. /\ DOMAIN draftResources \subseteq Resources
      /\ \A n \in DOMAIN draftResources : draftResources[n] \in SavedShapes
  BY <1>1, StackfileTyped
<1> QED BY <1>1, <1>2, <1>3, StackfileTyped
    DEF Draft!Init, DraftTyped, Draft!TypeOK, DraftWishes, SavedShapes

\* What is left of a wish is one.
LEMMA LeftTyped ==
  ASSUME NEW w \in DraftWishes, NEW names, NEW conns
  PROVE  Draft!Left(w, names, conns) \in DraftWishes
<1>1. CASE w.op = "replace"
  <2>1. w \in [op : {"replace"}, stack : Stackfiles, seen : SUBSET Resources]
    BY <1>1 DEF DraftWishes, Draft!Idle
  <2>2. [w EXCEPT !.seen = @ \ names] \in
          [op : {"replace"}, stack : Stackfiles, seen : SUBSET Resources]
    BY <2>1
  <2> QED BY <1>1, <2>2 DEF Draft!Left, DraftWishes
<1>2. CASE w.op # "replace"
  BY <1>2 DEF Draft!Left, DraftWishes
<1> QED BY <1>1, <1>2

LEMMA AnsweredTyped ==
  ASSUME DraftTyped, NEW r \in DraftRequests, NEW names, NEW conns,
         Draft!Answered(r, names, conns)
  PROVE  /\ DOMAIN draftRequest' = DraftRequests /\ current' = {}
         /\ \A q \in DraftRequests : draftRequest'[q] \in DraftWishes
<1>1. Draft!Idle \in DraftWishes
  BY DEF DraftWishes
<1>2. \A q \in DraftRequests : Draft!Left(draftRequest[q], names, conns) \in DraftWishes
  BY LeftTyped DEF DraftTyped
<1> QED BY <1>1, <1>2 DEF Draft!Answered

LEMMA WithTyped ==
  ASSUME DraftTyped, NEW n \in Resources, NEW shape \in Shapes,
         draftResources' = Draft!With(draftResources, n, Draft!Hosted(shape))
  PROVE  /\ DOMAIN draftResources' \subseteq Resources
         /\ \A m \in DOMAIN draftResources' : draftResources'[m] \in SavedShapes
<1>1. Draft!Hosted(shape) \in SavedShapes
  BY DEF Draft!SomeShapes, SavedShapes
<1>2. \A m \in DOMAIN draftResources : draftResources[m] \in SavedShapes
  BY DEF DraftTyped, Draft!TypeOK, SavedShapes
<1> QED BY <1>1, <1>2 DEF DraftTyped, Draft!TypeOK, Draft!With

LEMMA WithoutTyped ==
  ASSUME DraftTyped, NEW n, draftResources' = Draft!Without(draftResources, n)
  PROVE  /\ DOMAIN draftResources' \subseteq Resources
         /\ \A m \in DOMAIN draftResources' : draftResources'[m] \in SavedShapes
BY DEF DraftTyped, Draft!TypeOK, Draft!Without, SavedShapes

LEMMA ResourceSaveTyped ==
  ASSUME DraftTyped, NEW r \in DraftRequests,
         Draft!SaveCreated(r) \/ Draft!SaveUpdated(r) \/ Draft!SaveDeleted(r)
  PROVE  DraftTyped'
<1>1. PICK w \in DraftWishes : w = draftRequest[r]
  BY DEF DraftTyped
<1>2. /\ w.op \in {"create", "update"} => w.name \in Resources /\ w.shape \in Shapes
      /\ w.op = "delete" => w.name \in Resources
  BY DEF DraftWishes, Draft!Idle
<1>3. /\ DOMAIN draftResources' \subseteq Resources
      /\ \A m \in DOMAIN draftResources' : draftResources'[m] \in SavedShapes
  BY <1>1, <1>2, WithTyped, WithoutTyped
  DEF Draft!SaveCreated, Draft!SaveUpdated, Draft!SaveDeleted
<1>4. PICK names, conns : Draft!Answered(r, names, conns)
  BY DEF Draft!SaveCreated, Draft!SaveUpdated, Draft!SaveDeleted
<1>5. draftConnections' = draftConnections /\ unchecked' \subseteq Draft!SomeConnections
  BY DEF Draft!SaveCreated, Draft!SaveUpdated, Draft!SaveDeleted, Draft!ChangedEnd,
         DraftTyped, Draft!TypeOK
<1>6. draftRaced' \in BOOLEAN
  BY DEF Draft!SaveCreated, Draft!SaveUpdated, Draft!SaveDeleted, DraftTyped, Draft!TypeOK
<1> QED BY <1>3, <1>4, <1>5, <1>6, AnsweredTyped DEF DraftTyped, Draft!TypeOK, SavedShapes

LEMMA ConnectionSaveTyped ==
  ASSUME DraftTyped, NEW r \in DraftRequests,
         Draft!SaveConnected(r) \/ Draft!SaveReconnected(r) \/ Draft!SaveDisconnected(r)
  PROVE  DraftTyped'
<1>1. PICK w \in DraftWishes : w = draftRequest[r]
  BY DEF DraftTyped
<1>2. w.op \in {"connect", "reconnect"} => w.connection \in Draft!SomeConnections
  BY DEF DraftWishes, Draft!Idle, Draft!SomeConnections
<1>3. /\ DOMAIN draftRequest' = DraftRequests /\ current' = {}
      /\ \A q \in DraftRequests : draftRequest'[q] \in DraftWishes
  <2>1. CASE Draft!SaveConnected(r) \/ Draft!SaveDisconnected(r)
    <3>1. PICK names, conns : Draft!Answered(r, names, conns)
      BY <2>1 DEF Draft!SaveConnected, Draft!SaveDisconnected
    <3> QED BY <3>1, AnsweredTyped
  <2>2. CASE Draft!SaveReconnected(r)
    <3>1. PICK new \in Draft!SomeConnections : new = draftRequest[r].connection
      BY <1>1, <1>2, <2>2 DEF Draft!SaveReconnected
    <3>2. ASSUME NEW e \in DraftWishes, e.op \in {"reconnect", "disconnect"}
          PROVE  [e EXCEPT !.old = new] \in DraftWishes
      BY <3>2 DEF DraftWishes, Draft!Idle
    <3>3. ASSUME NEW q \in DraftRequests PROVE draftRequest'[q] \in DraftWishes
      <4>1. PICK e \in DraftWishes : e = draftRequest[q]
        BY DEF DraftTyped
      <4>2. \/ draftRequest'[q] \in {Draft!Idle, e}
            \/ /\ e.op \in {"reconnect", "disconnect"}
               /\ draftRequest'[q] = [e EXCEPT !.old = new]
        BY <2>2, <3>1, <4>1 DEF Draft!SaveReconnected
      <4> QED BY <3>2, <4>2 DEF DraftWishes
    <3> QED BY <2>2, <3>3 DEF Draft!SaveReconnected
  <2> QED BY <2>1, <2>2
<1>4. draftConnections' \subseteq Draft!SomeConnections
  BY <1>1, <1>2 DEF Draft!SaveConnected, Draft!SaveReconnected, Draft!SaveDisconnected,
         DraftTyped, Draft!TypeOK
<1>5. unchecked' \subseteq Draft!SomeConnections /\ draftResources' = draftResources
  BY DEF Draft!SaveConnected, Draft!SaveReconnected, Draft!SaveDisconnected, Draft!Revalidated,
         DraftTyped, Draft!TypeOK
<1>6. draftRaced' \in BOOLEAN
  BY DEF Draft!SaveConnected, Draft!SaveReconnected, Draft!SaveDisconnected, Draft!Revalidated
<1> QED BY <1>3, <1>4, <1>5, <1>6 DEF DraftTyped, Draft!TypeOK

LEMMA ReplaceSaveTyped ==
  ASSUME DraftTyped, NEW r \in DraftRequests, Draft!SaveReplaced(r)
  PROVE  DraftTyped'
<1>1. PICK w \in DraftWishes : w = draftRequest[r]
  BY DEF DraftTyped
<1>2. w.stack \in Stackfiles
  BY <1>1 DEF Draft!SaveReplaced, DraftWishes, Draft!Idle
<1>3. PICK names, conns : Draft!Answered(r, names, conns)
  BY DEF Draft!SaveReplaced
<1>4. draftConnections' \subseteq Draft!SomeConnections /\ unchecked' = {}
      /\ draftRaced' \in BOOLEAN
  BY <1>1, <1>2, StackfileTyped DEF Draft!SaveReplaced
<1>5. /\ DOMAIN draftResources' \subseteq Resources
      /\ \A m \in DOMAIN draftResources' : draftResources'[m] \in SavedShapes
  BY <1>1, <1>2, StackfileTyped DEF Draft!SaveReplaced, DraftTyped, Draft!TypeOK, SavedShapes
<1> QED BY <1>3, <1>4, <1>5, AnsweredTyped DEF DraftTyped, Draft!TypeOK, SavedShapes

LEMMA DraftCallTyped ==
  ASSUME DraftTyped, NEW r \in DraftRequests, Draft!Check(r) \/ Draft!GiveUp(r)
  PROVE  DraftTyped'
<1>1. PICK w \in DraftWishes : draftRequest' = [draftRequest EXCEPT ![r] = w]
  <2>1. CASE Draft!Check(r)
    <3>1. PICK w \in Draft!Wishes : draftRequest' = [draftRequest EXCEPT ![r] = w]
      BY <2>1 DEF Draft!Check
    <3>2. draftConnections \subseteq Draft!SomeConnections
          /\ DOMAIN draftResources \in SUBSET Resources
      BY DEF DraftTyped, Draft!TypeOK
    <3>3. w \in DraftWishes
      BY <3>2 DEF Draft!Wishes, DraftWishes
    <3> QED BY <3>1, <3>3
  <2>2. CASE Draft!GiveUp(r)
    BY <2>2 DEF Draft!GiveUp, DraftWishes
  <2> QED BY <2>1, <2>2
<1>2. /\ UNCHANGED <<draftResources, draftConnections, unchecked, draftRaced>>
      /\ current' \subseteq DraftRequests
  BY DEF Draft!Check, Draft!GiveUp, Draft!draft, Draft!history, DraftTyped, Draft!TypeOK
<1> QED BY <1>1, <1>2 DEF DraftTyped, Draft!TypeOK

\* A draft is made of what calls may ask for.
THEOREM DraftTypes == Draft!Spec => []DraftTyped
<1>1. DraftTyped /\ [Draft!Next]_(Draft!vars) => DraftTyped'
  <2>1. ASSUME DraftTyped, UNCHANGED Draft!vars PROVE DraftTyped'
    BY <2>1 DEF Draft!vars, DraftTyped, Draft!TypeOK
  <2> QED BY <2>1, ResourceSaveTyped, ConnectionSaveTyped, ReplaceSaveTyped, DraftCallTyped
    DEF Draft!Next, Draft!Save
<1> QED BY <1>1, DraftTypedInit, PTL DEF Draft!Spec

\* Whatever resources, connections and files there are and however many calls edit
\* the draft at once: in one that was never saved from an outdated copy there is no circle
\* of dependencies, and each connection that was validated since its ends changed resolves
\* by itself, public names included.
THEOREM DraftsResolve == Draft!Spec => []ValidatedResolves
<1>1. DraftInv /\ DraftTyped => Draft!ValidatedResolves
  <2> SUFFICES ASSUME DraftInv, DraftTyped, ~draftRaced
               PROVE  /\ ~Draft!HasDependencyCycle(draftResources)
                      /\ \A n \in DOMAIN draftResources : Draft!SelfResolves(draftResources, n)
                      /\ \A c \in draftConnections \ unchecked : Draft!Fits(c) =>
                           Draft!Resolves(draftResources, c)
    BY DEF Draft!ValidatedResolves
  <2>1. Sound(draftResources, draftConnections, unchecked)
    BY DEF DraftInv
  <2>2. \A n \in DOMAIN draftResources :
           Draft!OutputMap(draftResources[n]) = Draft!DeclaredOutputs(draftResources[n])
    BY HostedHasValues DEF DraftTyped, Draft!TypeOK
  <2>3. \A n \in DOMAIN draftResources : Draft!SelfResolves(draftResources, n)
    BY <2>1, <2>2 DEF Sound, Draft!SelfResolves
  <2>4. \A c \in draftConnections \ unchecked : Draft!Fits(c) =>
          Draft!Resolves(draftResources, c)
    BY <2>1, <2>2, ValidResolves DEF Sound
  <2> QED BY <2>1, <2>3, <2>4 DEF Sound
<1>2. DraftTyped => Draft!TypeOK
  BY DEF DraftTyped
<1> QED BY <1>1, <1>2, DraftInvariance, DraftTypes, PTL DEF ValidatedResolves

-----------------------------------------------------------------------------
(***************************************************************************)
(* StackTeardown: how far the worker is says what is gone, and nobody can  *)
(* put it back.                                                            *)
(***************************************************************************)

\* What is in the cluster is in the namespace.
InNamespace == namespace = "none" => ~stackCR /\ volumeCRs = {}

\* How far the worker is says what is gone.
GoneByStep ==
  /\ stackWorker.at = "ensure" => stack # "none"
  /\ stackWorker.at \in {"stackCR", "volumeCRs", "namespace", "row"} => stack = "deleting"
  /\ stackWorker.at = "row" \/ stack = "none" => namespace # "live"
  /\ stackWorker.at \in {"list", "volumes", "namespaceRow"} => stack = "none"

RowsGoByStep ==
  /\ stackWorker.at = "volumes" => volumeRows \subseteq stackWorker.volumes
  /\ stackWorker.at = "namespaceRow" => volumeRows = {}
  /\ Teardown!NoRowLeft

TeardownInv == Teardown!TypeOK /\ InNamespace /\ GoneByStep /\ RowsGoByStep

-----------------------------------------------------------------------------
LEMMA TeardownInit ==
  ASSUME MaxTeardownFailures \in Nat, Teardown!Init
  PROVE  TeardownInv
<1>1. 0 \in 0..MaxTeardownFailures
  OBVIOUS
<1>2. Teardown!TypeOK
  BY <1>1 DEF Teardown!Init, Teardown!TypeOK, Teardown!Idle, Teardown!Steps
<1> QED BY <1>2 DEF Teardown!Init, TeardownInv, InNamespace, GoneByStep, RowsGoByStep,
                    Teardown!NoRowLeft, Teardown!Idle

\* A step of somebody else, for whom the row of the stack must be there to add a volume
\* and the namespace to put something into the cluster.
LEMMA TeardownOthersKeep ==
  ASSUME TeardownInv, Teardown!TypeOK',
         UNCHANGED <<stackWorker, interrupted, namespace, namespaceRow>>,
         stack' # stack => stack # "none" /\ stack' = "deleting",
         volumeRows' # volumeRows => stack # "none",
         stackCR' => stackCR \/ namespace = "live",
         volumeCRs' \subseteq volumeCRs \/ namespace = "live"
  PROVE  TeardownInv'
<1>1. InNamespace'
  BY DEF TeardownInv, InNamespace
<1>2. GoneByStep'
  BY DEF TeardownInv, GoneByStep
<1>3. RowsGoByStep'
  BY DEF TeardownInv, GoneByStep, RowsGoByStep, Teardown!NoRowLeft, Teardown!Cleaning
<1> QED BY <1>1, <1>2, <1>3 DEF TeardownInv

LEMMA TeardownCallsKeep ==
  ASSUME TeardownInv,
         Teardown!DeleteStack \/ Teardown!Enqueue \/ (\E v \in Volumes : Teardown!AddVolume(v))
  PROVE  TeardownInv'
<1>1. Teardown!TypeOK'
  BY DEF TeardownInv, Teardown!TypeOK, Teardown!DeleteStack, Teardown!Enqueue,
         Teardown!AddVolume, Teardown!hub, Teardown!cluster, Teardown!tables
<1>2. UNCHANGED <<stackWorker, interrupted, namespace, namespaceRow, stackCR, volumeCRs>>
  BY DEF Teardown!DeleteStack, Teardown!Enqueue, Teardown!AddVolume, Teardown!hub,
         Teardown!cluster, Teardown!tables
<1>3. stack' # stack => stack # "none" /\ stack' = "deleting"
  BY DEF Teardown!DeleteStack, Teardown!Enqueue, Teardown!AddVolume, Teardown!hub,
         Teardown!cluster, Teardown!tables
<1>4. volumeRows' # volumeRows => stack # "none"
  BY DEF Teardown!DeleteStack, Teardown!Enqueue, Teardown!AddVolume, Teardown!hub,
         Teardown!cluster, Teardown!tables
<1> QED BY <1>1, <1>2, <1>3, <1>4, TeardownOthersKeep

\* A step of the volume worker, the release worker or a controller.
TeardownOtherWorker ==
  \/ \E v \in Volumes : Teardown!LoadVolume(v) \/ Teardown!CreateVolumeCR(v)
     \/ Teardown!MirrorVolume(v)
  \/ Teardown!LoadRelease \/ Teardown!Apply \/ Teardown!MirrorStack

LEMMA TeardownClusterKeeps ==
  ASSUME TeardownInv, TeardownOtherWorker
  PROVE  TeardownInv'
<1>1. Teardown!TypeOK'
  <2>1. CASE Teardown!LoadRelease \/ (\E v \in Volumes : Teardown!LoadVolume(v))
    BY <2>1 DEF TeardownInv, Teardown!TypeOK, Teardown!LoadVolume, Teardown!LoadRelease,
                Teardown!tables, Teardown!cluster
  <2>2. CASE \E v \in Volumes : Teardown!CreateVolumeCR(v)
    BY <2>2 DEF TeardownInv, Teardown!TypeOK, Teardown!CreateVolumeCR, Teardown!tables
  <2>3. CASE Teardown!Apply \/ Teardown!MirrorStack
    BY <2>3 DEF TeardownInv, Teardown!TypeOK, Teardown!Apply, Teardown!MirrorStack,
                Teardown!tables, Teardown!cluster, Teardown!hub
  <2>4. CASE \E v \in Volumes : Teardown!MirrorVolume(v)
    BY <2>4 DEF TeardownInv, Teardown!TypeOK, Teardown!MirrorVolume, Teardown!cluster,
                Teardown!hub
  <2> QED BY <2>1, <2>2, <2>3, <2>4 DEF TeardownOtherWorker
<1> USE DEF TeardownOtherWorker, Teardown!LoadVolume, Teardown!CreateVolumeCR,
    Teardown!MirrorVolume, Teardown!LoadRelease, Teardown!Apply,
            Teardown!MirrorStack, Teardown!tables, Teardown!cluster, Teardown!hub
<1>2. UNCHANGED <<stackWorker, interrupted, namespace, namespaceRow>>
  OBVIOUS
<1>3. UNCHANGED <<stack, volumeRows>>
  OBVIOUS
<1>4. stackCR' => stackCR \/ namespace = "live"
  OBVIOUS
<1>5. volumeCRs' \subseteq volumeCRs \/ namespace = "live"
  OBVIOUS
<1> HIDE DEF TeardownOtherWorker
<1> QED BY <1>1, <1>2, <1>3, <1>4, <1>5, TeardownOthersKeep

LEMMA TeardownNamespaceGoneKeeps ==
  ASSUME TeardownInv, Teardown!NamespaceGone
  PROVE  TeardownInv'
<1>1. Teardown!TypeOK'
  BY DEF TeardownInv, Teardown!TypeOK, Teardown!NamespaceGone, Teardown!tables, Teardown!hub
<1> QED BY <1>1 DEF TeardownInv, InNamespace, GoneByStep, RowsGoByStep, Teardown!NoRowLeft,
                    Teardown!Cleaning,
             Teardown!NamespaceGone, Teardown!tables, Teardown!hub

-----------------------------------------------------------------------------
\* The queue of the worker.
LEMMA TeardownQueueKeeps ==
  ASSUME TeardownInv, Teardown!ListInput \/ Teardown!Execute
  PROVE  TeardownInv'
<1>1. Teardown!TypeOK'
  <2>1. CASE Teardown!ListInput
    BY <2>1 DEF TeardownInv, Teardown!TypeOK, Teardown!ListInput, Teardown!tables,
                Teardown!cluster
  <2>2. CASE Teardown!Execute
    <3>1. stackWorker' \in [at : Teardown!Steps, volumes : SUBSET Volumes]
      BY <2>2 DEF TeardownInv, Teardown!TypeOK, Teardown!Execute, Teardown!Steps
    <3> QED BY <2>2, <3>1 DEF TeardownInv, Teardown!TypeOK, Teardown!Execute, Teardown!tables,
                              Teardown!cluster
  <2> QED BY <2>1, <2>2
<1>2. CASE Teardown!ListInput
  BY <1>1, <1>2 DEF TeardownInv, InNamespace, GoneByStep, RowsGoByStep, Teardown!NoRowLeft,
                    Teardown!Cleaning,
     Teardown!ListInput, Teardown!tables, Teardown!cluster
<1>3. CASE Teardown!Execute
  <2>1. /\ stackWorker.at = "idle"
           /\ UNCHANGED <<Teardown!tables, Teardown!cluster, interrupted>>
        /\ stack = "live" => stackWorker'.at = "ensure"
        /\ stack = "deleting" => stackWorker'.at = "stackCR"
        /\ stack = "none" => stackWorker'.at = "idle"
    BY <1>3 DEF Teardown!Execute
  <2>2. stack \in {"live", "deleting", "none"}
    BY DEF TeardownInv, Teardown!TypeOK
  <2> QED BY <1>1, <2>1, <2>2 DEF TeardownInv, InNamespace, GoneByStep, RowsGoByStep,
                                  Teardown!NoRowLeft, Teardown!Cleaning,
             Teardown!tables, Teardown!cluster
<1> QED BY <1>2, <1>3

LEMMA TeardownEnsureNamespaceKeeps ==
  ASSUME TeardownInv, Teardown!EnsureNamespace
  PROVE  TeardownInv'
<1>1. stackWorker.at = "ensure" /\ stackWorker'.at = "idle" /\ stack # "none"
  BY DEF Teardown!EnsureNamespace, Teardown!At, TeardownInv, Teardown!TypeOK, GoneByStep
<1>2. Teardown!TypeOK'
  BY DEF TeardownInv, Teardown!TypeOK, Teardown!EnsureNamespace, Teardown!At, Teardown!Steps,
         Teardown!tables, Teardown!queues
<1> QED BY <1>1, <1>2 DEF TeardownInv, InNamespace, GoneByStep, RowsGoByStep,
                          Teardown!NoRowLeft, Teardown!Cleaning,
             Teardown!EnsureNamespace, Teardown!tables

LEMMA TeardownDeleteFromClusterKeeps ==
  ASSUME TeardownInv,
         Teardown!DeleteStackCR \/ Teardown!DeleteVolumeCRs \/ Teardown!DeleteNamespace
  PROVE  TeardownInv'
<1>1. /\ stackWorker.at \in {"stackCR", "volumeCRs", "namespace"}
      /\ stackWorker'.at \in {"volumeCRs", "namespace", "row"}
      /\ stack = "deleting"
  BY DEF Teardown!DeleteStackCR, Teardown!DeleteVolumeCRs, Teardown!DeleteNamespace,
         Teardown!At, TeardownInv, Teardown!TypeOK, GoneByStep
<1>2. stackWorker'.at = "row" => namespace' # "live"
  BY DEF Teardown!DeleteStackCR, Teardown!DeleteVolumeCRs, Teardown!DeleteNamespace,
         Teardown!At, TeardownInv, Teardown!TypeOK
<1>3. Teardown!TypeOK'
  BY DEF TeardownInv, Teardown!TypeOK, Teardown!DeleteStackCR, Teardown!DeleteVolumeCRs,
         Teardown!DeleteNamespace, Teardown!At, Teardown!Steps, Teardown!tables, Teardown!queues
<1>4. namespace' = "none" => namespace = "none"
  BY DEF Teardown!DeleteStackCR, Teardown!DeleteVolumeCRs, Teardown!DeleteNamespace
<1>5. (stackCR' => stackCR) /\ volumeCRs' \subseteq volumeCRs
  BY DEF Teardown!DeleteStackCR, Teardown!DeleteVolumeCRs, Teardown!DeleteNamespace
<1>6. UNCHANGED <<Teardown!tables, interrupted>>
  BY DEF Teardown!DeleteStackCR, Teardown!DeleteVolumeCRs, Teardown!DeleteNamespace
<1> QED BY <1>1, <1>2, <1>3, <1>4, <1>5, <1>6
    DEF TeardownInv, InNamespace, GoneByStep, RowsGoByStep, Teardown!NoRowLeft,
        Teardown!Cleaning, Teardown!tables

LEMMA TeardownDeleteStackRowKeeps ==
  ASSUME TeardownInv, Teardown!DeleteStackRow
  PROVE  TeardownInv'
<1>1. stackWorker.at = "row" /\ stackWorker'.at = "list"
  BY DEF Teardown!DeleteStackRow, Teardown!At, TeardownInv, Teardown!TypeOK
<1>2. Teardown!TypeOK'
  BY DEF TeardownInv, Teardown!TypeOK, Teardown!DeleteStackRow, Teardown!At, Teardown!Steps,
         Teardown!cluster, Teardown!queues
<1> QED BY <1>1, <1>2 DEF TeardownInv, InNamespace, GoneByStep, RowsGoByStep,
                          Teardown!NoRowLeft, Teardown!Cleaning,
             Teardown!DeleteStackRow, Teardown!cluster

LEMMA TeardownDeleteRowsKeep ==
  ASSUME TeardownInv,
         Teardown!ListVolumes \/ Teardown!DeleteVolumeRow \/ Teardown!DeleteNamespaceRow
  PROVE  TeardownInv'
<1>1. Teardown!TypeOK'
  <2>1. CASE Teardown!ListVolumes
    BY <2>1 DEF TeardownInv, Teardown!TypeOK, Teardown!ListVolumes, Teardown!Steps,
                Teardown!tables, Teardown!cluster, Teardown!queues
  <2>2. CASE Teardown!DeleteVolumeRow
    <3>1. volumeRows' \subseteq Volumes /\ ready' \subseteq volumeRows'
      BY <2>2 DEF TeardownInv, Teardown!TypeOK, Teardown!DeleteVolumeRow
    <3>2. stackWorker' \in [at : Teardown!Steps, volumes : SUBSET Volumes]
      BY <2>2 DEF TeardownInv, Teardown!TypeOK, Teardown!DeleteVolumeRow, Teardown!At,
                  Teardown!Steps
    <3> QED BY <2>2, <3>1, <3>2 DEF TeardownInv, Teardown!TypeOK, Teardown!DeleteVolumeRow,
               Teardown!cluster, Teardown!queues
  <2>3. CASE Teardown!DeleteNamespaceRow
    BY <2>3 DEF TeardownInv, Teardown!TypeOK, Teardown!DeleteNamespaceRow, Teardown!At,
                Teardown!Steps, Teardown!cluster, Teardown!queues
  <2> QED BY <2>1, <2>2, <2>3
<1>2. stack = "none" /\ UNCHANGED <<stack, Teardown!cluster, interrupted>>
  BY DEF Teardown!ListVolumes, Teardown!DeleteVolumeRow, Teardown!DeleteNamespaceRow,
         Teardown!At, TeardownInv, GoneByStep, Teardown!tables
<1>3. RowsGoByStep' /\ stackWorker'.at \in {"volumes", "namespaceRow", "idle"}
  <2>1. CASE Teardown!ListVolumes
    BY <2>1 DEF Teardown!ListVolumes, RowsGoByStep, Teardown!NoRowLeft, Teardown!Cleaning,
                Teardown!tables
  <2>2. CASE Teardown!DeleteVolumeRow
    <3>1. CASE stackWorker.volumes = {}
      BY <2>2, <3>1 DEF Teardown!DeleteVolumeRow, Teardown!At, TeardownInv, Teardown!TypeOK,
                        RowsGoByStep, Teardown!NoRowLeft, Teardown!Cleaning
    <3>2. CASE stackWorker.volumes # {}
      BY <2>2, <3>2 DEF Teardown!DeleteVolumeRow, TeardownInv, Teardown!TypeOK, RowsGoByStep,
                        Teardown!NoRowLeft, Teardown!Cleaning
    <3> QED BY <3>1, <3>2
  <2>3. CASE Teardown!DeleteNamespaceRow
    BY <2>3 DEF Teardown!DeleteNamespaceRow, Teardown!At, TeardownInv, Teardown!TypeOK,
                RowsGoByStep, Teardown!NoRowLeft, Teardown!Cleaning
  <2> QED BY <2>1, <2>2, <2>3
<1> QED BY <1>1, <1>2, <1>3 DEF TeardownInv, InNamespace, GoneByStep, Teardown!cluster

\* A listing that fails.
LEMMA TeardownListFailsKeeps ==
  ASSUME TeardownInv, MaxTeardownFailures \in Nat, Teardown!ListFails
  PROVE  TeardownInv'
<1>1. /\ UNCHANGED <<Teardown!tables, Teardown!cluster, marked, stackQueued, stackWorker, creating,
                     applying, interrupted>>
      /\ listing' = "failed" /\ stackFailures' \in 0..MaxTeardownFailures
  BY DEF Teardown!ListFails, TeardownInv, Teardown!TypeOK
<1>2. Teardown!TypeOK'
  BY <1>1 DEF TeardownInv, Teardown!TypeOK, Teardown!tables, Teardown!cluster
<1> QED BY <1>1, <1>2 DEF TeardownInv, InNamespace, GoneByStep, RowsGoByStep,
                          Teardown!NoRowLeft, Teardown!Cleaning, Teardown!tables,
                          Teardown!cluster

\* A failed step or a crash: what it interrupts after the row of the stack is gone
\* is remembered.
LEMMA TeardownFailureKeeps ==
  ASSUME TeardownInv, MaxTeardownFailures \in Nat, Teardown!StepFails \/ Teardown!Crash
  PROVE  TeardownInv'
<1>1. stackWorker' = Teardown!Idle /\ UNCHANGED <<Teardown!tables, Teardown!cluster>>
      /\ interrupted' = (interrupted \/ Teardown!Cleaning)
  BY DEF Teardown!StepFails, Teardown!Crash
<1>2. Teardown!TypeOK'
  <2>1. stackWorker' \in [at : Teardown!Steps, volumes : SUBSET Volumes]
        /\ stackFailures' \in 0..MaxTeardownFailures
    BY <1>1 DEF Teardown!StepFails, Teardown!Crash, TeardownInv, Teardown!TypeOK,
                Teardown!Idle, Teardown!Steps
  <2>2. interrupted' \in BOOLEAN
    BY <1>1
  <2> QED BY <1>1, <2>1, <2>2 DEF Teardown!StepFails, Teardown!Crash, TeardownInv,
                                  Teardown!TypeOK, Teardown!tables, Teardown!cluster
<1> QED BY <1>1, <1>2 DEF TeardownInv, InNamespace, GoneByStep, RowsGoByStep,
                          Teardown!NoRowLeft, Teardown!Cleaning, Teardown!Idle,
             Teardown!tables, Teardown!cluster

LEMMA TeardownNextKeeps ==
  ASSUME TeardownInv, MaxTeardownFailures \in Nat, [Teardown!Next]_(Teardown!vars)
  PROVE  TeardownInv'
<1>1. CASE UNCHANGED Teardown!vars
  BY <1>1 DEF Teardown!vars, Teardown!tables, Teardown!cluster, Teardown!hub, TeardownInv,
              Teardown!TypeOK, InNamespace, GoneByStep, RowsGoByStep,
              Teardown!NoRowLeft, Teardown!Cleaning
<1> QED BY <1>1, TeardownCallsKeep, TeardownClusterKeeps, TeardownNamespaceGoneKeeps,
           TeardownQueueKeeps, TeardownEnsureNamespaceKeeps,
           TeardownDeleteFromClusterKeeps, TeardownDeleteStackRowKeeps, TeardownDeleteRowsKeep,
           TeardownListFailsKeeps, TeardownFailureKeeps
    DEF Teardown!Next, Teardown!StackWorker, TeardownOtherWorker

\* For any volumes and any number of failures and restarts, TeardownInv holds while a
\* stack lives and while it is taken down.
THEOREM TeardownInvariance ==
  Teardown!Spec => []TeardownInv
<1>1. Teardown!Init => TeardownInv
  BY TeardownInit, BoundsAssumption
<1>2. TeardownInv /\ [Teardown!Next]_(Teardown!vars) => TeardownInv'
  BY TeardownNextKeeps, BoundsAssumption
<1> QED BY <1>1, <1>2, PTL DEF Teardown!Spec

\* Whatever volumes, releases and calls put into the cluster or into the tables while a
\* stack is taken down, and wherever the hub fails: when the row of the stack is gone, its
\* namespace is gone or going.
THEOREM ClusterGoesBeforeTheRow ==
  Teardown!Spec => []Teardown!ClusterGoesFirst
<1>1. TeardownInv => Teardown!ClusterGoesFirst
  BY DEF TeardownInv, InNamespace, GoneByStep, Teardown!ClusterGoesFirst
<1> QED BY <1>1, TeardownInvariance, PTL

\* The rows of its volumes and its namespace go too, unless the worker was interrupted
\* after the row of the stack was gone.
THEOREM NoRowStays ==
  Teardown!Spec => []NoRowLeft
<1>1. TeardownInv => Teardown!TypeOK /\ Teardown!NoRowLeft
  BY DEF TeardownInv, RowsGoByStep
<1> QED BY <1>1, TeardownInvariance, PTL DEF NoRowLeft

-----------------------------------------------------------------------------
(***************************************************************************)
(* StackTeardown implements StackEnding.                                   *)
(***************************************************************************)
Occupied == stackCR \/ volumeCRs # {}

\* The rows of the stack and of its namespace, and the namespace, as they stand.
StackStands == UNCHANGED <<stack, namespace, namespaceRow>>

LEMMA EndingQuietly ==
  ASSUME StackStands, UNCHANGED <<stackCR, volumeCRs, volumeRows>>
  PROVE  UNCHANGED Teardown!Ending!vars
  BY DEF StackStands, Teardown!Ending!vars

\* Who marks the stack or adds a volume does what StackEnding allows.
LEMMA EndingCalls ==
  ASSUME TeardownInv,
         Teardown!DeleteStack \/ Teardown!Enqueue \/ (\E v \in Volumes : Teardown!AddVolume(v))
  PROVE  [Teardown!Ending!Next]_(Teardown!Ending!vars)
<1>1. CASE Teardown!DeleteStack
  <2>1. /\ stack \in {"live", "deleting"} /\ stack' = "deleting"
        /\ UNCHANGED <<namespace, namespaceRow, stackCR, volumeCRs, volumeRows>>
    BY <1>1 DEF Teardown!DeleteStack, TeardownInv, Teardown!TypeOK, Teardown!cluster
  <2>2. Teardown!Ending!Delete \/ UNCHANGED Teardown!Ending!vars
    BY <2>1 DEF Teardown!Ending!Delete, Teardown!Ending!vars
  <2> QED BY <2>2 DEF Teardown!Ending!Next
<1>2. CASE Teardown!Enqueue
  BY <1>2, EndingQuietly DEF Teardown!Enqueue, Teardown!tables, Teardown!cluster, StackStands
<1>3. ASSUME NEW v \in Volumes, Teardown!AddVolume(v)
      PROVE  Teardown!Ending!Next
  <2>1. Teardown!Ending!AddVolume(v)
    BY <1>3 DEF Teardown!AddVolume, Teardown!Ending!AddVolume, Teardown!cluster
  <2> QED BY <2>1 DEF Teardown!Ending!Next
<1> QED BY <1>1, <1>2, <1>3

\* What somebody puts into the cluster, and the status that is mirrored.
LEMMA EndingCluster ==
  ASSUME TeardownInv, TeardownOtherWorker
  PROVE  [Teardown!Ending!Next]_(Teardown!Ending!vars)
<1>1. StackStands /\ UNCHANGED volumeRows
  BY DEF TeardownOtherWorker, StackStands, Teardown!LoadVolume, Teardown!CreateVolumeCR,
         Teardown!MirrorVolume, Teardown!LoadRelease, Teardown!Apply, Teardown!MirrorStack,
         Teardown!tables, Teardown!cluster
<1>2. \/ UNCHANGED <<stackCR, volumeCRs>>
      \/ namespace = "live" /\ Occupied'
  <2>1. CASE \E v \in Volumes : Teardown!CreateVolumeCR(v)
    BY <2>1 DEF Teardown!CreateVolumeCR, Occupied
  <2>2. CASE Teardown!Apply
    <3>1. stackCR \in BOOLEAN /\ UNCHANGED volumeCRs
      BY <2>2 DEF Teardown!Apply, TeardownInv, Teardown!TypeOK
    <3>2. (stackCR' = stackCR) \/ (namespace = "live" /\ stackCR')
      BY <2>2, <3>1 DEF Teardown!Apply
    <3> QED BY <3>1, <3>2 DEF Occupied
  <2>3. CASE Teardown!LoadRelease \/ Teardown!MirrorStack
    BY <2>3 DEF Teardown!LoadRelease, Teardown!MirrorStack, Teardown!cluster
  <2>4. CASE \E v \in Volumes : Teardown!LoadVolume(v) \/ Teardown!MirrorVolume(v)
    BY <2>4 DEF Teardown!LoadVolume, Teardown!MirrorVolume, Teardown!cluster
  <2> QED BY <2>1, <2>2, <2>3, <2>4 DEF TeardownOtherWorker
<1>3. CASE UNCHANGED <<stackCR, volumeCRs>>
  BY <1>1, <1>3, EndingQuietly
<1>4. CASE namespace = "live" /\ Occupied'
  BY <1>1, <1>4 DEF StackStands, Occupied, Teardown!Ending!Fill, Teardown!Ending!Next
<1> QED BY <1>2, <1>3, <1>4

\* The queue, failures and crashes change nothing of the stack.
LEMMA EndingQueue ==
  ASSUME Teardown!ListInput \/ Teardown!Execute \/ Teardown!ListVolumes
           \/ Teardown!ListFails \/ Teardown!StepFails \/ Teardown!Crash
  PROVE  UNCHANGED Teardown!Ending!vars
<1>1. UNCHANGED <<Teardown!tables, Teardown!cluster>>
  BY DEF Teardown!ListInput, Teardown!Execute, Teardown!ListVolumes, Teardown!ListFails,
         Teardown!StepFails, Teardown!Crash
<1> QED BY <1>1, EndingQuietly DEF Teardown!tables, Teardown!cluster, StackStands

\* The namespace is opened for a stack that has a row and closed for one that was
\* deleted: the step of the worker says so of a row it read earlier.
LEMMA EndingNamespace ==
  ASSUME TeardownInv,
         Teardown!EnsureNamespace \/ Teardown!DeleteNamespace \/ Teardown!NamespaceGone
  PROVE  [Teardown!Ending!Next]_(Teardown!Ending!vars)
<1>1. CASE Teardown!EnsureNamespace
  <2>1. stack # "none" /\ UNCHANGED <<stack, namespaceRow, stackCR, volumeCRs, volumeRows>>
    BY <1>1 DEF Teardown!EnsureNamespace, Teardown!At, TeardownInv, GoneByStep, Teardown!tables
  <2>2. \/ namespace = "none" /\ namespace' = "live"
        \/ UNCHANGED namespace
    BY <1>1 DEF Teardown!EnsureNamespace
  <2> QED BY <2>1, <2>2 DEF Teardown!Ending!Open, Teardown!Ending!Next, Teardown!Ending!vars
<1>2. CASE Teardown!DeleteNamespace
  <2>1. stack = "deleting" /\ UNCHANGED <<stack, namespaceRow, stackCR, volumeCRs, volumeRows>>
    BY <1>2 DEF Teardown!DeleteNamespace, Teardown!At, TeardownInv, GoneByStep, Teardown!tables
  <2>2. \/ namespace = "live" /\ namespace' = "terminating"
        \/ UNCHANGED namespace
    BY <1>2 DEF Teardown!DeleteNamespace
  <2> QED BY <2>1, <2>2 DEF Teardown!Ending!Close, Teardown!Ending!Next, Teardown!Ending!vars
<1>3. CASE Teardown!NamespaceGone
  <2>1. Teardown!Ending!Gone
    BY <1>3 DEF Teardown!NamespaceGone, Teardown!Ending!Gone, Teardown!tables
  <2> QED BY <2>1 DEF Teardown!Ending!Next
<1> QED BY <1>1, <1>2, <1>3

\* Objects are taken from a stack that was deleted.
LEMMA EndingObjects ==
  ASSUME TeardownInv, Teardown!DeleteStackCR \/ Teardown!DeleteVolumeCRs
  PROVE  [Teardown!Ending!Next]_(Teardown!Ending!vars)
<1>1. /\ stack = "deleting"
      /\ UNCHANGED <<stack, namespace, namespaceRow, volumeRows>>
      /\ Occupied' => Occupied
  BY DEF Teardown!DeleteStackCR, Teardown!DeleteVolumeCRs, Teardown!At, TeardownInv, GoneByStep,
         Teardown!tables, Occupied
<1>2. CASE Occupied' = Occupied
  BY <1>1, <1>2 DEF Occupied, Teardown!Ending!vars
<1>3. CASE ~Occupied'
  BY <1>1, <1>3 DEF Occupied, Teardown!Ending!Clear, Teardown!Ending!Next
<1>4. Occupied \in BOOLEAN /\ Occupied' \in BOOLEAN
  BY DEF Occupied, TeardownInv, Teardown!TypeOK, Teardown!DeleteStackCR, Teardown!DeleteVolumeCRs
<1> QED BY <1>1, <1>2, <1>3, <1>4

\* The rows go once the namespace does: that of the stack, those of its volumes, and that
\* of the namespace when there is none of a volume.
LEMMA EndingRows ==
  ASSUME TeardownInv,
         Teardown!DeleteStackRow \/ Teardown!DeleteVolumeRow \/ Teardown!DeleteNamespaceRow
  PROVE  [Teardown!Ending!Next]_(Teardown!Ending!vars)
<1>1. CASE Teardown!DeleteStackRow
  <2>1. Teardown!Ending!Forget
    BY <1>1 DEF Teardown!DeleteStackRow, Teardown!At, TeardownInv, GoneByStep, Teardown!cluster,
                Teardown!Ending!Forget
  <2> QED BY <2>1 DEF Teardown!Ending!Next
<1>2. CASE Teardown!DeleteVolumeRow
  <2>1. stack = "none" /\ StackStands /\ UNCHANGED <<stackCR, volumeCRs>>
    BY <1>2 DEF Teardown!DeleteVolumeRow, TeardownInv, GoneByStep, Teardown!cluster, StackStands
  <2>2. \/ UNCHANGED volumeRows
        \/ \E v \in Volumes : volumeRows' = volumeRows \ {v}
    BY <1>2 DEF Teardown!DeleteVolumeRow, TeardownInv, Teardown!TypeOK
  <2>3. CASE UNCHANGED volumeRows
    BY <2>1, <2>3, EndingQuietly
  <2>4. ASSUME NEW v \in Volumes, volumeRows' = volumeRows \ {v}
        PROVE  Teardown!Ending!DropVolume(v)
    BY <2>1, <2>4 DEF StackStands, Teardown!Ending!DropVolume
  <2> QED BY <2>2, <2>3, <2>4 DEF Teardown!Ending!Next
<1>3. CASE Teardown!DeleteNamespaceRow
  <2>1. Teardown!Ending!DropNamespace
    BY <1>3 DEF Teardown!DeleteNamespaceRow, Teardown!At, TeardownInv, GoneByStep, RowsGoByStep,
                Teardown!cluster, Teardown!Ending!DropNamespace
  <2> QED BY <2>1 DEF Teardown!Ending!Next
<1> QED BY <1>1, <1>2, <1>3

LEMMA StepOfEnding ==
  ASSUME TeardownInv, [Teardown!Next]_(Teardown!vars)
  PROVE  [Teardown!Ending!Next]_(Teardown!Ending!vars)
<1>1. CASE UNCHANGED Teardown!vars
  BY <1>1, EndingQuietly DEF Teardown!vars, Teardown!tables, Teardown!cluster, StackStands
<1> QED BY <1>1, EndingCalls, EndingCluster, EndingQueue, EndingNamespace, EndingObjects,
           EndingRows
    DEF Teardown!Next, Teardown!StackWorker, TeardownOtherWorker

\* For any volumes, failures and restarts, a stack ends in the order of StackEnding: what
\* it has in the cluster goes only after it was deleted and before its row, no volume is
\* added without that row, no row of a volume goes before it, and that of the namespace last.
THEOREM StackEndingImplemented == Teardown!Spec => ImplementsStackEnding
<1>1. Teardown!Init => Teardown!Ending!Init
  BY DEF Teardown!Init, Teardown!Ending!Init
<1>2. TeardownInv /\ [Teardown!Next]_(Teardown!vars) =>
        [Teardown!Ending!Next]_(Teardown!Ending!vars)
  BY StepOfEnding
<1>3. Teardown!Spec => Teardown!Ending!Spec
  BY <1>1, <1>2, TeardownInvariance, PTL DEF Teardown!Spec, Teardown!Ending!Spec
<1> QED BY <1>3 DEF ImplementsStackEnding, Teardown!ImplementsEnding

\* Of StackEnding alone: what is left when, which makes NothingBehind inductive.
EndingOrder ==
  /\ stack \in {"live", "deleting", "none"}
  /\ stack = "none" => namespace # "live"
  /\ namespace = "none" => ~Occupied
  /\ ~namespaceRow => stack = "none" /\ volumeRows = {}

\* When the row of its namespace is gone, nothing of a stack is left to run or to clean up.
\* This holds of StackEnding, and so of what implements it.
THEOREM NothingLeftBehind == Teardown!Spec => []Teardown!Ending!NothingBehind
<1> USE DEF EndingOrder, Occupied
<1>1. Teardown!Ending!Init => EndingOrder
  BY DEF Teardown!Ending!Init
<1>2. EndingOrder /\ [Teardown!Ending!Next]_(Teardown!Ending!vars) => EndingOrder'
  <2> SUFFICES ASSUME EndingOrder, [Teardown!Ending!Next]_(Teardown!Ending!vars)
               PROVE  EndingOrder'
    OBVIOUS
  <2>1. CASE UNCHANGED Teardown!Ending!vars
    BY <2>1 DEF Teardown!Ending!vars
  <2>2. CASE Teardown!Ending!Delete \/ Teardown!Ending!Forget \/ Teardown!Ending!DropNamespace
    BY <2>2 DEF Teardown!Ending!Delete, Teardown!Ending!Forget, Teardown!Ending!DropNamespace
  <2>3. CASE \E v \in Volumes : Teardown!Ending!AddVolume(v) \/ Teardown!Ending!DropVolume(v)
    BY <2>3 DEF Teardown!Ending!AddVolume, Teardown!Ending!DropVolume
  <2>4. CASE Teardown!Ending!Open \/ Teardown!Ending!Fill \/ Teardown!Ending!Clear
    BY <2>4 DEF Teardown!Ending!Open, Teardown!Ending!Fill, Teardown!Ending!Clear
  <2>5. CASE Teardown!Ending!Close \/ Teardown!Ending!Gone
    BY <2>5 DEF Teardown!Ending!Close, Teardown!Ending!Gone
  <2> QED BY <2>1, <2>2, <2>3, <2>4, <2>5 DEF Teardown!Ending!Next
<1>3. EndingOrder => Teardown!Ending!NothingBehind
  BY DEF Teardown!Ending!NothingBehind
<1>4. Teardown!Spec => Teardown!Ending!Spec
  BY StackEndingImplemented DEF ImplementsStackEnding, Teardown!ImplementsEnding
<1> QED BY <1>1, <1>2, <1>3, <1>4, PTL DEF Teardown!Ending!Spec


-----------------------------------------------------------------------------
(***************************************************************************)
(* StackEdits: one call at a time holds the row of the stack, one the row  *)
(* of the organisation, and what it has read under a row is still so.      *)
(***************************************************************************)

InTransaction == {"project", "clear", "insert", "commit"}

\* What a call holds, by its operation and the step it is at.
EditShape(c) ==
  /\ c.pc \in {"admit", "write"} => c.insert = {} /\ c.delete = {}
  /\ c.pc \in InTransaction => c.want = {}
  /\ c.op = "volume" =>
       c.want = {} /\ c.insert = {} /\ c.delete = {} /\ c.seen = {} /\ c.clear = {}
  /\ c.op = "volume" => c.pc \in {"idle", "admit", "write", "commit"}
  /\ c.op \in {"add", "remove"} => c.volumes = {}
  /\ c.op = "remove" => c.insert = {}
  /\ c.op = "add" /\ c.pc # "idle" => \E x \in Edits!Items : c.want \cup c.insert = {x}

\* It holds the row of the stack.
HoldsStack(c) == c.pc \in InTransaction /\ c.op \in {"replace", "volume"}

\* It has passed the policy.
PassedPolicy(c) ==
  c.pc \in InTransaction \cup {"write"} /\ Edits!Limited(c.op, c.want \cup c.insert)

\* The resources that there will be.
AfterEdit(c) ==
  IF c.op = "replace" /\ c.pc = "write" THEN c.want \cap Resources
  ELSE ((draft \ c.delete) \cup (c.want \cup c.insert)) \cap Resources

OneHoldsStack == \A r, q \in EditRequests : HoldsStack(edit[r]) /\ HoldsStack(edit[q]) => r = q
OnePassedPolicy ==
  Cloud => \A r, q \in EditRequests : PassedPolicy(edit[r]) /\ PassedPolicy(edit[q]) => r = q

NewVolumes(c) == HoldsStack(c) => \A v \in c.volumes : volumes[v] = 0
Room(c) == Cloud /\ PassedPolicy(c) => Cardinality(AfterEdit(c)) <= MaxResources

\* What the projection has read is still so, unless another edit was committed since.
ProjectionCurrent(c) ==
  c.op # "volume" /\ ~c.overtaken =>
    /\ c.pc \in {"clear", "insert", "commit"} =>
         c.seen = ((draft \ c.delete) \cup c.insert) \cap Connections
    /\ c.pc \in {"insert", "commit"} => c.clear = refs

\* A secret in use is not being deleted either.
UsedSecretsSafe ==
  /\ crossed => editRaced
  /\ ~editRaced => (draft \cap Connections) \cup gripped \subseteq secrets \ deleting

EditsInv ==
  /\ Edits!TypeOK
  /\ OneHoldsStack /\ OnePassedPolicy
  /\ Edits!QuotaKept /\ Edits!VolumeNamesUnique /\ Edits!ReferencesMatchDraft /\ UsedSecretsSafe
  /\ \A r \in EditRequests : EditShape(edit[r]) /\ ProjectionCurrent(edit[r])
  /\ ~stale => \A r \in EditRequests : NewVolumes(edit[r]) /\ Room(edit[r])

EditsSizes ==
  /\ MaxResources \in Nat /\ MaxVolumes \in Nat
  /\ IsFiniteSet(Resources) /\ IsFiniteSet(Connections) /\ Resources \cap Connections = {}

-----------------------------------------------------------------------------
LEMMA EditsSizesHold == EditsSizes
BY LimitsAssumption, ItemsAssumption DEF EditsSizes

\* The instance has its own name for Cardinality.
LEMMA EditsCardinality ==
  ASSUME NEW S
  PROVE  Edits!Cardinality(S) = Cardinality(S)
BY DEF Edits!Cardinality, Edits!IsFiniteSet, Cardinality, IsFiniteSet

LEMMA EditsNoCallShape ==
  /\ Edits!NoCall \in Edits!Calls /\ Edits!NoCall.pc = "idle" /\ Edits!NoCall.op = "add"
     /\ Edits!NoCall.overtaken = FALSE
  /\ Edits!NoCall.want = {} /\ Edits!NoCall.volumes = {} /\ Edits!NoCall.insert = {}
     /\ Edits!NoCall.delete = {}
  /\ Edits!NoCall.seen = {} /\ Edits!NoCall.clear = {} /\ Edits!NoCall.touch = {}
BY DEF Edits!NoCall, Edits!Calls

LEMMA EditsIdle ==
  /\ EditShape(Edits!NoCall) /\ ProjectionCurrent(Edits!NoCall) /\ ~HoldsStack(Edits!NoCall)
     /\ ~PassedPolicy(Edits!NoCall)
BY EditsNoCallShape DEF EditShape, ProjectionCurrent, HoldsStack, PassedPolicy, InTransaction

LEMMA EditsInit ==
  ASSUME EditsSizes, Edits!Init
  PROVE  EditsInv
<1>1. edit \in [EditRequests -> Edits!Calls] /\ \A r \in EditRequests : edit[r] = Edits!NoCall
  BY EditsNoCallShape DEF Edits!Init
<1>2. 0 \in 0..MaxVolumes /\ Cardinality({}) = 0
  BY FS_EmptySet DEF EditsSizes
<1>3. Edits!TypeOK
  BY <1>1, <1>2 DEF Edits!Init, Edits!TypeOK
<1>4. OneHoldsStack /\ OnePassedPolicy /\ \A r \in EditRequests : EditShape(edit[r])
      /\ ProjectionCurrent(edit[r])
  BY <1>1, EditsIdle DEF OneHoldsStack, OnePassedPolicy
<1>5. \A r \in EditRequests : NewVolumes(edit[r]) /\ Room(edit[r])
  BY <1>1, EditsIdle DEF NewVolumes, Room
<1>6. Edits!QuotaKept
  <2>1. draft \cap Resources = {}
    BY DEF Edits!Init
  <2> QED BY <1>2, <2>1, EditsCardinality DEF Edits!QuotaKept, EditsSizes
<1>7. Edits!VolumeNamesUnique /\ Edits!ReferencesMatchDraft /\ UsedSecretsSafe
  BY <1>3 DEF Edits!Init, Edits!VolumeNamesUnique, Edits!ReferencesMatchDraft, UsedSecretsSafe
<1> QED BY <1>3, <1>4, <1>5, <1>6, <1>7 DEF EditsInv

-----------------------------------------------------------------------------
\* A call that goes on to c, and commits nothing.
LEMMA EditsCallStep ==
  ASSUME EditsInv, NEW r \in EditRequests, NEW c \in Edits!Calls,
         edit' = [edit EXCEPT ![r] = c],
         UNCHANGED <<Edits!rows, crossed, editRaced>>, stale' \in BOOLEAN, stale => stale',
         EditShape(c), ProjectionCurrent(c),
         HoldsStack(c) => \A q \in EditRequests \ {r} : ~HoldsStack(edit[q]),
         Cloud /\ PassedPolicy(c) => \A q \in EditRequests \ {r} : ~PassedPolicy(edit[q]),
         ~stale' => NewVolumes(c) /\ Room(c)
  PROVE  EditsInv'
<1>1. /\ edit' \in [EditRequests -> Edits!Calls] /\ edit'[r] = c
      /\ \A q \in EditRequests \ {r} : edit'[q] = edit[q]
  BY DEF EditsInv, Edits!TypeOK
<1>2. Edits!TypeOK'
  BY <1>1 DEF EditsInv, Edits!TypeOK, Edits!rows
<1>3. OneHoldsStack' /\ OnePassedPolicy'
  <2>1. ASSUME NEW p \in EditRequests, NEW q \in EditRequests, HoldsStack(edit'[p]),
               HoldsStack(edit'[q])
        PROVE  p = q
    BY <1>1, <2>1 DEF EditsInv, OneHoldsStack
  <2>2. ASSUME NEW p \in EditRequests, NEW q \in EditRequests, Cloud, PassedPolicy(edit'[p]),
               PassedPolicy(edit'[q])
        PROVE  p = q
    BY <1>1, <2>2 DEF EditsInv, OnePassedPolicy
  <2> QED BY <2>1, <2>2 DEF OneHoldsStack, OnePassedPolicy, HoldsStack, PassedPolicy,
                            Edits!Limited
<1>4. (Edits!QuotaKept /\ Edits!VolumeNamesUnique /\ Edits!ReferencesMatchDraft /\ UsedSecretsSafe)'
  BY <1>2, EditsCardinality DEF EditsInv, Edits!QuotaKept, Edits!VolumeNamesUnique,
                                Edits!ReferencesMatchDraft, UsedSecretsSafe, Edits!rows
<1>5. ASSUME NEW q \in EditRequests PROVE EditShape(edit[q])' /\ ProjectionCurrent(edit[q])'
  <2>1. EditShape(edit'[q]) /\ ProjectionCurrent(edit'[q])
    BY <1>1 DEF EditsInv
  <2> QED BY <2>1 DEF EditShape, ProjectionCurrent, Edits!rows
<1>6. ASSUME NEW q \in EditRequests, ~stale' PROVE NewVolumes(edit[q])' /\ Room(edit[q])'
  <2>1. NewVolumes(edit'[q]) /\ Room(edit'[q])
    BY <1>1, <1>6 DEF EditsInv
  <2> QED BY <2>1 DEF NewVolumes, HoldsStack, Room, PassedPolicy, Edits!Limited, AfterEdit,
                      Edits!rows
<1> QED BY <1>2, <1>3, <1>4, <1>5, <1>6 DEF EditsInv

LEMMA EditsFailKeeps ==
  ASSUME EditsInv, NEW r \in EditRequests, Edits!Fail(r)
  PROVE  EditsInv'
<1>1. stale \in BOOLEAN
  BY DEF EditsInv, Edits!TypeOK
<1> QED BY <1>1, EditsNoCallShape, EditsIdle, EditsCallStep DEF Edits!Fail, NewVolumes, Room

\* What is added is one item.
LEMMA OneItem ==
  ASSUME EditsSizes, NEW want \in SUBSET Edits!Items, Cardinality(want) = 1
  PROVE  \E x \in Edits!Items : want = {x}
<1>1. IsFiniteSet(Edits!Items)
  BY FS_Union DEF EditsSizes, Edits!Items
<1>2. IsFiniteSet(want)
  BY <1>1, FS_Subset
<1> QED BY <1>2, FS_Singleton

LEMMA EditsBeginKeeps ==
  ASSUME EditsSizes, EditsInv, NEW r \in EditRequests, Edits!Begin(r)
  PROVE  EditsInv'
<1>1. PICK op \in {"replace", "add", "remove", "volume"},
           want \in SUBSET Edits!Items, names \in SUBSET VolumeNames :
        /\ Edits!Valid(op, want, names)
        /\ edit' = [edit EXCEPT ![r] = [Edits!NoCall EXCEPT
             !.pc = IF Cloud /\ Edits!Limited(op, want) THEN "admit" ELSE "write",
             !.op = op, !.want = want, !.volumes = names,
             !.copy = IF op = "replace" THEN draft \cap Resources ELSE {},
             !.copyVolumes = IF op = "replace" THEN Edits!Named ELSE {}]]
  BY DEF Edits!Begin
<1>2. PICK pc \in {"admit", "write"}, copy \in SUBSET Resources, named \in SUBSET VolumeNames :
        /\ pc = IF Cloud /\ Edits!Limited(op, want) THEN "admit" ELSE "write"
        /\ copy = IF op = "replace" THEN draft \cap Resources ELSE {}
        /\ named = IF op = "replace" THEN Edits!Named ELSE {}
  BY DEF Edits!Named
<1> DEFINE c == [Edits!NoCall EXCEPT !.pc = pc, !.op = op, !.want = want, !.volumes = names,
                               !.copy = copy, !.copyVolumes = named]
<1>3. /\ c \in Edits!Calls /\ c.pc = pc /\ c.op = op /\ c.want = want /\ c.volumes = names
      /\ c.insert = {} /\ c.delete = {} /\ c.seen = {} /\ c.clear = {}
  BY DEF Edits!NoCall, Edits!Calls
<1>4. edit' = [edit EXCEPT ![r] = c]
  BY <1>1, <1>2
<1> HIDE DEF c
<1>5. EditShape(c)
  <2>1. op = "add" => \E x \in Edits!Items : want = {x}
    BY <1>1, OneItem, EditsCardinality DEF Edits!Valid
  <2>2. /\ op = "volume" => want = {}
        /\ op \in {"add", "remove"} => names = {}
    BY <1>1, EditsCardinality DEF Edits!Valid
  <2> QED BY <1>2, <1>3, <2>1, <2>2 DEF EditShape, InTransaction
<1>6. ProjectionCurrent(c) /\ ~HoldsStack(c)
  BY <1>2, <1>3 DEF ProjectionCurrent, HoldsStack, InTransaction
<1>7. ~(Cloud /\ PassedPolicy(c))
  BY <1>2, <1>3 DEF PassedPolicy, InTransaction, Edits!Limited
<1>8. UNCHANGED <<Edits!rows, crossed, editRaced>> /\ stale' = stale /\ stale \in BOOLEAN
  BY DEF Edits!Begin, EditsInv, Edits!TypeOK
<1> QED BY <1>3, <1>4, <1>5, <1>6, <1>7, <1>8, EditsCallStep DEF NewVolumes, Room

\* The policy lets one call through at a time, and only within the limit.
LEMMA EditsAdmitKeeps ==
  ASSUME EditsSizes, EditsInv, NEW r \in EditRequests, Edits!Admit(r)
  PROVE  EditsInv'
<1> DEFINE c == [edit[r] EXCEPT !.pc = "write"]
<1>1. /\ c \in Edits!Calls /\ c.pc = "write" /\ c.op = edit[r].op /\ c.want = edit[r].want
      /\ c.volumes = edit[r].volumes /\ c.insert = edit[r].insert
      /\ c.delete = edit[r].delete /\ c.seen = edit[r].seen /\ c.clear = edit[r].clear
  BY DEF EditsInv, Edits!TypeOK, Edits!Calls
<1>2. edit' = [edit EXCEPT ![r] = c]
  BY DEF Edits!Admit
<1> HIDE DEF c
<1>3. edit[r].pc = "admit" /\ EditShape(edit[r]) /\ edit[r] \in Edits!Calls
  BY DEF Edits!Admit, EditsInv, Edits!TypeOK
<1>4. EditShape(c) /\ ProjectionCurrent(c) /\ ~HoldsStack(c) /\ c.insert = {} /\ c.delete = {}
  BY <1>1, <1>3 DEF EditShape, ProjectionCurrent, HoldsStack, InTransaction
<1>5. \A q \in EditRequests : ~PassedPolicy(edit[q])
  BY DEF Edits!Admit, Edits!Admitted, Edits!At, PassedPolicy, InTransaction
<1>6. ~stale => Room(c)
  <2> SUFFICES ASSUME ~stale, Cloud, PassedPolicy(c)
               PROVE  Cardinality(AfterEdit(c)) <= MaxResources
    BY DEF Room
  <2>1. Edits!WithinLimits(r) /\ c.op \in {"replace", "add", "volume"}
    BY <1>1, <1>3 DEF Edits!Admit, PassedPolicy, Edits!Limited, Edits!Calls
  <2>2. CASE c.op = "replace"
    BY <1>1, <2>1, <2>2, EditsCardinality DEF AfterEdit, Edits!WithinLimits, Edits!UsageAfter
  <2>3. CASE c.op = "volume"
    <3>1. AfterEdit(c) = draft \cap Resources
      BY <1>4, <2>3 DEF AfterEdit, EditShape
    <3> QED BY <3>1, EditsCardinality DEF EditsInv, Edits!QuotaKept
  <2>4. CASE c.op = "add"
    <3>1. PICK x \in Edits!Items : c.want = {x}
      BY <1>1, <1>4, <2>4 DEF EditShape
    <3>2. Cardinality(draft \cap Resources) + 1 <= MaxResources
      BY <1>1, <2>1, <2>4, EditsCardinality DEF Edits!WithinLimits, Edits!UsageAfter
    <3>3. IsFiniteSet(draft \cap Resources)
      BY FS_Subset DEF EditsSizes
    <3>4. /\ IsFiniteSet((draft \cap Resources) \cup {x})
          /\ Cardinality((draft \cap Resources) \cup {x}) <= Cardinality(draft \cap Resources) + 1
      <4>1. Cardinality(draft \cap Resources) \in Nat
        BY <3>3, FS_CardinalityType
      <4>2. Cardinality((draft \cap Resources) \cup {x})
              = IF x \in draft \cap Resources THEN Cardinality(draft \cap Resources)
                ELSE Cardinality(draft \cap Resources) + 1
        BY <3>3, FS_AddElement
      <4>3. IsFiniteSet((draft \cap Resources) \cup {x})
        BY <3>3, FS_AddElement
      <4> QED BY <4>1, <4>2, <4>3
    <3>5. AfterEdit(c) \in SUBSET ((draft \cap Resources) \cup {x})
      BY <1>4, <2>4, <3>1 DEF AfterEdit
    <3>6. Cardinality(AfterEdit(c)) <= Cardinality((draft \cap Resources) \cup {x})
      BY <3>4, <3>5, FS_Subset
    <3>7. Cardinality(AfterEdit(c)) \in Nat
      BY <3>4, <3>5, FS_Subset, FS_CardinalityType
    <3>8. Cardinality(draft \cap Resources) \in Nat
      BY <3>3, FS_CardinalityType
    <3>9. Cardinality((draft \cap Resources) \cup {x}) \in Nat
      BY <3>4, FS_CardinalityType
    <3> QED BY <3>2, <3>4, <3>6, <3>7, <3>8, <3>9 DEF EditsSizes
  <2> QED BY <2>1, <2>2, <2>3, <2>4
<1>7. UNCHANGED <<Edits!rows, crossed, editRaced>> /\ stale' = stale /\ stale \in BOOLEAN
  BY DEF Edits!Admit, EditsInv, Edits!TypeOK
<1> QED BY <1>1, <1>2, <1>4, <1>5, <1>6, <1>7, EditsCallStep DEF NewVolumes

\* Only one call at a time holds the row of the stack.
LEMMA StackRowHeld ==
  ASSUME NEW r \in EditRequests, Edits!StackRowFree(r)
  PROVE  \A q \in EditRequests \ {r} : ~HoldsStack(edit[q])
BY DEF Edits!StackRowFree, HoldsStack, Edits!At, InTransaction

LEMMA EditsAddVolumeKeeps ==
  ASSUME EditsInv, NEW r \in EditRequests, Edits!AddVolume(r)
  PROVE  EditsInv'
<1> DEFINE c == [edit[r] EXCEPT !.pc = "commit"]
<1>1. /\ c \in Edits!Calls /\ c.pc = "commit" /\ c.op = edit[r].op /\ c.want = edit[r].want
      /\ c.volumes = edit[r].volumes /\ c.insert = edit[r].insert
      /\ c.delete = edit[r].delete /\ c.seen = edit[r].seen /\ c.clear = edit[r].clear
  BY DEF EditsInv, Edits!TypeOK, Edits!Calls
<1>2. edit' = [edit EXCEPT ![r] = c]
  BY DEF Edits!AddVolume
<1> HIDE DEF c
<1>3. edit[r].pc = "write" /\ c.op = "volume" /\ EditShape(edit[r])
  BY <1>1 DEF Edits!AddVolume, EditsInv
<1>4. EditShape(c) /\ ProjectionCurrent(c)
  BY <1>1, <1>3 DEF EditShape, ProjectionCurrent, InTransaction
<1>5. \A q \in EditRequests \ {r} : ~HoldsStack(edit[q])
  BY StackRowHeld DEF Edits!AddVolume
<1>6. PassedPolicy(edit[r])
  BY <1>1, <1>3 DEF PassedPolicy, Edits!Limited
<1>7. Cloud => \A q \in EditRequests \ {r} : ~PassedPolicy(edit[q])
  BY <1>6 DEF EditsInv, OnePassedPolicy
<1>8. \A v \in c.volumes : volumes[v] = 0
  <2> SUFFICES ASSUME NEW v \in c.volumes PROVE volumes[v] = 0
    OBVIOUS
  <2>1. v \in VolumeNames /\ v \notin Edits!Named /\ volumes[v] \in 0..MaxVolumes
    BY <1>1 DEF Edits!AddVolume, EditsInv, Edits!TypeOK, Edits!Calls
  <2> QED BY <2>1 DEF Edits!Named
<1>9. ~stale => Room(c)
  <2>1. AfterEdit(c) = draft \cap Resources
    BY <1>3, <1>4 DEF AfterEdit, EditShape
  <2> QED BY <2>1, EditsCardinality DEF EditsInv, Edits!QuotaKept, Room
<1>10. UNCHANGED <<Edits!rows, crossed, editRaced>> /\ stale' = stale /\ stale \in BOOLEAN
  BY DEF Edits!AddVolume, EditsInv, Edits!TypeOK
<1> QED BY <1>1, <1>2, <1>4, <1>5, <1>7, <1>8, <1>9, <1>10, EditsCallStep DEF NewVolumes

\* A statement that writes rows of the draft.
WrittenCall(r, insert, delete, update) ==
  [Edits!NoCall EXCEPT
     !.pc = "project", !.op = edit[r].op,
     !.volumes = edit[r].volumes \ edit[r].copyVolumes,
     !.insert = insert, !.delete = delete, !.touch = insert \cup delete \cup update]

LEMMA WrittenShape ==
  ASSUME EditsInv, NEW r \in EditRequests, NEW insert \in SUBSET Edits!Items,
         NEW delete \in SUBSET Edits!Items,
         NEW update \in SUBSET Edits!Items
  PROVE  LET c == WrittenCall(r, insert, delete, update)
         IN  /\ c \in Edits!Calls
             /\ c.pc = "project" /\ c.op = edit[r].op /\ c.want = {}
             /\ c.volumes = edit[r].volumes \ edit[r].copyVolumes
             /\ c.insert = insert /\ c.delete = delete /\ c.seen = {} /\ c.clear = {}
<1> DEFINE named == edit[r].volumes \ edit[r].copyVolumes
           touch == insert \cup delete \cup update
           op == edit[r].op
           c == [Edits!NoCall EXCEPT !.pc = "project", !.op = op, !.volumes = named,
                               !.insert = insert, !.delete = delete, !.touch = touch]
<1>1. named \in SUBSET VolumeNames /\ touch \in SUBSET Edits!Items
      /\ op \in {"replace", "add", "remove", "volume"}
  BY DEF EditsInv, Edits!TypeOK, Edits!Calls
<1>2. c = WrittenCall(r, insert, delete, update)
  BY DEF WrittenCall
<1> HIDE DEF named, touch, op
<1>3. /\ c \in Edits!Calls /\ c.pc = "project" /\ c.op = op /\ c.want = {} /\ c.volumes = named
      /\ c.insert = insert /\ c.delete = delete /\ c.seen = {} /\ c.clear = {}
  BY <1>1 DEF Edits!NoCall, Edits!Calls
<1> QED BY <1>2, <1>3 DEF named, op

\* The draft will be what is wanted: the copy of the resources is not outdated, or the
\* stack counts as stale.
LEMMA EditsReplaceKeeps ==
  ASSUME EditsSizes, EditsInv, NEW r \in EditRequests, Edits!Replace(r)
  PROVE  EditsInv'
<1> DEFINE want == edit[r].want
           base == edit[r].copy \cup (draft \cap Connections)
<1>1. /\ edit[r] \in Edits!Calls /\ edit[r].pc = "write" /\ edit[r].op = "replace"
      /\ Edits!Written(r, want \ base, base \ want, want \cap base)
      /\ stale' = (stale \/ edit[r].copy # draft \cap Resources
                         \/ edit[r].copyVolumes # Edits!Named)
  BY DEF Edits!Replace, EditsInv, Edits!TypeOK
<1>2. /\ want \in SUBSET Edits!Items /\ base \in SUBSET Edits!Items
      /\ want \ base \in SUBSET Edits!Items /\ base \ want \in SUBSET Edits!Items
         /\ want \cap base \in SUBSET Edits!Items
  BY <1>1 DEF EditsInv, Edits!TypeOK, Edits!Calls, Edits!Items
<1> HIDE DEF want, base
<1>3. PICK c \in Edits!Calls :
           /\ edit' = [edit EXCEPT ![r] = c]
           /\ c.pc = "project" /\ c.op = "replace" /\ c.want = {}
           /\ c.volumes = edit[r].volumes \ edit[r].copyVolumes
           /\ c.insert = want \ base /\ c.delete = base \ want /\ c.seen = {} /\ c.clear = {}
  <2>1. PICK insert \in SUBSET Edits!Items, delete \in SUBSET Edits!Items,
             update \in SUBSET Edits!Items :
          insert = want \ base /\ delete = base \ want /\ update = want \cap base
    BY <1>2
  <2>2. edit' = [edit EXCEPT ![r] = WrittenCall(r, insert, delete, update)]
    BY <1>1, <2>1 DEF Edits!Written, WrittenCall
  <2> DEFINE d == WrittenCall(r, insert, delete, update)
  <2>3. /\ d \in Edits!Calls
        /\ d.pc = "project" /\ d.op = edit[r].op /\ d.want = {}
        /\ d.volumes = edit[r].volumes \ edit[r].copyVolumes
        /\ d.insert = insert /\ d.delete = delete /\ d.seen = {} /\ d.clear = {}
    BY WrittenShape
  <2>4. edit' = [edit EXCEPT ![r] = d]
    BY <2>2
  <2> HIDE DEF d
  <2> QED BY <1>1, <2>1, <2>3, <2>4
<1>4. EditShape(c) /\ ProjectionCurrent(c)
  BY <1>3 DEF EditShape, ProjectionCurrent, InTransaction
<1>5. \A q \in EditRequests \ {r} : ~HoldsStack(edit[q])
  BY StackRowHeld DEF Edits!Replace
<1>6. PassedPolicy(edit[r])
  BY <1>1 DEF PassedPolicy, Edits!Limited
<1>7. Cloud => \A q \in EditRequests \ {r} : ~PassedPolicy(edit[q])
  BY <1>6 DEF EditsInv, OnePassedPolicy
<1>8. PICK b \in BOOLEAN : b = (stale \/ edit[r].copy # draft \cap Resources
                                      \/ edit[r].copyVolumes # Edits!Named)
  OBVIOUS
<1>9. stale' = b /\ (stale => b)
  BY <1>1, <1>8
<1>10. ~b => NewVolumes(c)
  <2> SUFFICES ASSUME ~b, NEW v \in c.volumes PROVE volumes[v] = 0
    BY DEF NewVolumes
  <2>1. v \in VolumeNames /\ v \notin Edits!Named /\ volumes[v] \in 0..MaxVolumes
    BY <1>1, <1>3, <1>8 DEF EditsInv, Edits!TypeOK, Edits!Calls
  <2> QED BY <2>1 DEF Edits!Named
<1>11. ~b => Room(c)
  <2> SUFFICES ASSUME ~b, Cloud PROVE Cardinality(AfterEdit(c)) <= MaxResources
    BY DEF Room
  <2>1. AfterEdit(edit[r]) = want \cap Resources
    BY <1>1 DEF AfterEdit, want
  <2>2. base \cap Resources = draft \cap Resources
    BY <1>8 DEF base, EditsSizes
  <2>3. AfterEdit(c) = ((draft \ (base \ want)) \cup (want \ base)) \cap Resources
    BY <1>3 DEF AfterEdit
  <2>4. AfterEdit(c) = want \cap Resources
    <3>1. ASSUME NEW x \in Resources
          PROVE  x \in (draft \ (base \ want)) \cup (want \ base) <=> x \in want
      BY <2>2
    <3> QED BY <2>3, <3>1
  <2>5. Room(edit[r])
    BY <1>8 DEF EditsInv
  <2> QED BY <1>6, <2>1, <2>4, <2>5 DEF Room
<1>12. UNCHANGED <<Edits!rows, crossed, editRaced>>
  BY <1>1 DEF Edits!Written
<1> QED BY <1>3, <1>4, <1>5, <1>7, <1>9, <1>10, <1>11, <1>12, EditsCallStep

LEMMA EditsEditKeeps ==
  ASSUME EditsSizes, EditsInv, NEW r \in EditRequests, Edits!Edit(r)
  PROVE  EditsInv'
<1>1. /\ edit[r] \in Edits!Calls /\ edit[r].pc = "write" /\ edit[r].op \in {"add", "remove"}
      /\ EditShape(edit[r]) /\ stale' = stale /\ stale \in BOOLEAN
  BY DEF Edits!Edit, EditsInv, Edits!TypeOK
<1>2. PICK insert \in SUBSET Edits!Items, delete \in SUBSET Edits!Items,
           update \in SUBSET Edits!Items :
        /\ Edits!Written(r, insert, delete, update)
        /\ edit[r].op = "add" => insert = edit[r].want /\ delete = {}
        /\ edit[r].op = "remove" => insert = {}
  BY <1>1 DEF Edits!Edit, Edits!Calls
<1>3. PICK c \in Edits!Calls :
           /\ edit' = [edit EXCEPT ![r] = c]
           /\ c.pc = "project" /\ c.op = edit[r].op /\ c.want = {}
           /\ c.volumes = edit[r].volumes \ edit[r].copyVolumes
           /\ c.insert = insert /\ c.delete = delete /\ c.seen = {} /\ c.clear = {}
  <2>1. edit' = [edit EXCEPT ![r] = WrittenCall(r, insert, delete, update)]
    BY <1>2 DEF Edits!Written, WrittenCall
  <2> DEFINE d == WrittenCall(r, insert, delete, update)
  <2>2. /\ d \in Edits!Calls
        /\ d.pc = "project" /\ d.op = edit[r].op /\ d.want = {}
        /\ d.volumes = edit[r].volumes \ edit[r].copyVolumes
        /\ d.insert = insert /\ d.delete = delete /\ d.seen = {} /\ d.clear = {}
    BY WrittenShape
  <2>3. edit' = [edit EXCEPT ![r] = d]
    BY <2>1
  <2> HIDE DEF d
  <2> QED BY <2>2, <2>3
<1>4. EditShape(c) /\ ProjectionCurrent(c) /\ ~HoldsStack(c)
  BY <1>1, <1>2, <1>3 DEF EditShape, ProjectionCurrent, HoldsStack, InTransaction
<1>5. PassedPolicy(c) => edit[r].op = "add" /\ PassedPolicy(edit[r])
  BY <1>1, <1>2, <1>3 DEF EditShape, PassedPolicy, Edits!Limited, InTransaction
<1>6. Cloud /\ PassedPolicy(c) => \A q \in EditRequests \ {r} : ~PassedPolicy(edit[q])
  BY <1>5 DEF EditsInv, OnePassedPolicy
<1>7. ~stale => Room(c)
  <2>1. edit[r].op = "add" => AfterEdit(c) = AfterEdit(edit[r])
    BY <1>1, <1>2, <1>3 DEF EditShape, AfterEdit
  <2> QED BY <1>5, <2>1 DEF EditsInv, Room
<1>8. UNCHANGED <<Edits!rows, crossed, editRaced>>
  BY <1>2 DEF Edits!Written
<1> QED BY <1>1, <1>3, <1>4, <1>6, <1>7, <1>8, EditsCallStep DEF NewVolumes

\* The statements of the projection change what the call has read, and nothing else of it.
LEMMA ProjectionStep ==
  ASSUME EditsInv, NEW r \in EditRequests, NEW c \in Edits!Calls,
         edit' = [edit EXCEPT ![r] = c],
         edit[r].pc \in InTransaction, c.pc \in InTransaction, c.op = edit[r].op,
         c.want = edit[r].want, c.volumes = edit[r].volumes, c.insert = edit[r].insert,
         c.delete = edit[r].delete, EditShape(c), ProjectionCurrent(c),
         UNCHANGED <<Edits!rows, stale, crossed, editRaced>>
  PROVE  EditsInv'
<1>1. /\ HoldsStack(c) <=> HoldsStack(edit[r])
      /\ PassedPolicy(c) <=> PassedPolicy(edit[r])
      /\ AfterEdit(c) = AfterEdit(edit[r])
  BY DEF HoldsStack, PassedPolicy, AfterEdit, InTransaction
<1>2. ~stale => NewVolumes(c) /\ Room(c)
  BY <1>1 DEF EditsInv, NewVolumes, Room
<1>3. HoldsStack(c) => \A q \in EditRequests \ {r} : ~HoldsStack(edit[q])
  BY <1>1 DEF EditsInv, OneHoldsStack
<1>4. Cloud /\ PassedPolicy(c) => \A q \in EditRequests \ {r} : ~PassedPolicy(edit[q])
  BY <1>1 DEF EditsInv, OnePassedPolicy
<1>5. stale \in BOOLEAN
  BY DEF EditsInv, Edits!TypeOK
<1> QED BY <1>2, <1>3, <1>4, <1>5, EditsCallStep

LEMMA EditsProjectKeeps ==
  ASSUME EditsInv, NEW r \in EditRequests, Edits!Project(r)
  PROVE  EditsInv'
<1> DEFINE seen == ((draft \ edit[r].delete) \cup edit[r].insert) \cap Connections
           c == [edit[r] EXCEPT !.pc = "clear", !.seen = seen]
<1>1. /\ edit[r] \in Edits!Calls /\ edit[r].pc = "project" /\ EditShape(edit[r])
      /\ seen \in SUBSET Connections
  BY DEF Edits!Project, EditsInv, Edits!TypeOK
<1>2. edit' = [edit EXCEPT ![r] = c]
  BY DEF Edits!Project
<1> HIDE DEF seen
<1>3. /\ c \in Edits!Calls /\ c.pc = "clear" /\ c.op = edit[r].op /\ c.want = edit[r].want
      /\ c.volumes = edit[r].volumes /\ c.insert = edit[r].insert
      /\ c.delete = edit[r].delete /\ c.seen = seen /\ c.clear = edit[r].clear
  BY <1>1 DEF Edits!Calls
<1> HIDE DEF c
<1>4. ProjectionCurrent(c)
  BY <1>3 DEF ProjectionCurrent, seen
<1>5. EditShape(c)
  BY <1>1, <1>3 DEF EditShape, InTransaction
<1>6. UNCHANGED <<Edits!rows, stale, crossed, editRaced>>
  BY DEF Edits!Project
<1> QED BY <1>1, <1>2, <1>3, <1>4, <1>5, <1>6, ProjectionStep DEF InTransaction

LEMMA EditsClearKeeps ==
  ASSUME EditsInv, NEW r \in EditRequests, Edits!Clear(r)
  PROVE  EditsInv'
<1> PICK old \in SUBSET Connections : old = refs
  BY DEF EditsInv, Edits!TypeOK
<1> DEFINE c == [edit[r] EXCEPT !.pc = "insert", !.clear = old]
<1>1. /\ edit[r] \in Edits!Calls /\ edit[r].pc = "clear" /\ EditShape(edit[r])
         /\ ProjectionCurrent(edit[r])
  BY DEF Edits!Clear, EditsInv, Edits!TypeOK
<1>2. edit' = [edit EXCEPT ![r] = c]
  BY DEF Edits!Clear
<1>3. /\ c \in Edits!Calls /\ c.pc = "insert" /\ c.op = edit[r].op /\ c.want = edit[r].want
      /\ c.volumes = edit[r].volumes /\ c.insert = edit[r].insert
      /\ c.delete = edit[r].delete /\ c.seen = edit[r].seen /\ c.clear = old
      /\ c.overtaken = edit[r].overtaken
  BY <1>1 DEF Edits!Calls
<1> HIDE DEF c
<1>4. EditShape(c) /\ ProjectionCurrent(c)
  BY <1>1, <1>3 DEF EditShape, ProjectionCurrent, InTransaction
<1>5. UNCHANGED <<Edits!rows, stale, crossed, editRaced>>
  BY DEF Edits!Clear
<1> QED BY <1>1, <1>2, <1>3, <1>4, <1>5, ProjectionStep DEF InTransaction

LEMMA EditsInsertKeeps ==
  ASSUME EditsInv, NEW r \in EditRequests, Edits!Insert(r)
  PROVE  EditsInv'
<1> DEFINE c == [edit[r] EXCEPT !.pc = "commit"]
<1>1. /\ edit[r] \in Edits!Calls /\ edit[r].pc = "insert" /\ EditShape(edit[r])
         /\ ProjectionCurrent(edit[r])
  BY DEF Edits!Insert, EditsInv, Edits!TypeOK
<1>2. edit' = [edit EXCEPT ![r] = c]
  BY DEF Edits!Insert
<1>3. /\ c \in Edits!Calls /\ c.pc = "commit" /\ c.op = edit[r].op /\ c.want = edit[r].want
      /\ c.volumes = edit[r].volumes /\ c.insert = edit[r].insert
      /\ c.delete = edit[r].delete /\ c.seen = edit[r].seen /\ c.clear = edit[r].clear
      /\ c.overtaken = edit[r].overtaken
  BY <1>1 DEF Edits!Calls
<1> HIDE DEF c
<1>4. EditShape(c) /\ ProjectionCurrent(c)
  BY <1>1, <1>3 DEF EditShape, ProjectionCurrent, InTransaction
<1>5. UNCHANGED <<Edits!rows, stale, crossed, editRaced>>
  BY DEF Edits!Insert
<1> QED BY <1>1, <1>2, <1>3, <1>4, <1>5, ProjectionStep DEF InTransaction

-----------------------------------------------------------------------------
\* The rows a transaction has written become visible. Every other call keeps what it
\* holds, but one that has read the draft counts as overtaken.
LEMMA EditsCommitOthers ==
  ASSUME EditsInv, NEW r \in EditRequests, Edits!Commit(r)
  PROVE  /\ edit' \in [EditRequests -> Edits!Calls] /\ edit'[r] = Edits!NoCall
         /\ \A q \in EditRequests \ {r} :
              LET c == edit'[q] d == edit[q]
              IN  /\ c.pc = d.pc /\ c.op = d.op /\ c.want = d.want /\ c.volumes = d.volumes
                  /\ c.insert = d.insert /\ c.delete = d.delete /\ c.seen = d.seen
                     /\ c.clear = d.clear
                  /\ ~c.overtaken /\ edit[r].op # "volume" =>
                       c.pc \notin {"clear", "insert", "commit"}
                  /\ ~c.overtaken => ~d.overtaken
<1>1. \A q \in EditRequests : edit[q] \in Edits!Calls
  BY DEF EditsInv, Edits!TypeOK
<1>2. /\ edit'[r] = Edits!NoCall
      /\ \A q \in EditRequests \ {r} :
           edit'[q] = IF edit[q].pc \in {"clear", "insert", "commit"} /\ edit[r].op # "volume"
                         THEN [edit[q] EXCEPT !.overtaken = TRUE] ELSE edit[q]
      /\ DOMAIN edit' = EditRequests
      /\ edit' = [q \in EditRequests |-> edit'[q]]
  BY DEF Edits!Commit
<1>3. ASSUME NEW d \in Edits!Calls
      PROVE  LET c == [d EXCEPT !.overtaken = TRUE]
             IN  /\ c \in Edits!Calls /\ c.overtaken
                 /\ c.pc = d.pc /\ c.op = d.op /\ c.want = d.want /\ c.volumes = d.volumes
                 /\ c.insert = d.insert /\ c.delete = d.delete /\ c.seen = d.seen
                    /\ c.clear = d.clear
  BY DEF Edits!Calls
<1>4. ASSUME NEW q \in EditRequests \ {r}
      PROVE  LET c == edit'[q] d == edit[q]
             IN  /\ c \in Edits!Calls
                 /\ c.pc = d.pc /\ c.op = d.op /\ c.want = d.want /\ c.volumes = d.volumes
                 /\ c.insert = d.insert /\ c.delete = d.delete /\ c.seen = d.seen
                    /\ c.clear = d.clear
                 /\ ~c.overtaken /\ edit[r].op # "volume" =>
                      c.pc \notin {"clear", "insert", "commit"}
                 /\ ~c.overtaken => ~d.overtaken
    <2>1. CASE edit[q].pc \in {"clear", "insert", "commit"} /\ edit[r].op # "volume"
      <3>1. edit'[q] = [edit[q] EXCEPT !.overtaken = TRUE]
        BY <1>2, <2>1
      <3>2. PICK d \in Edits!Calls : d = edit[q]
        BY <1>1
      <3> QED BY <1>3, <3>1, <3>2
    <2>2. CASE ~(edit[q].pc \in {"clear", "insert", "commit"} /\ edit[r].op # "volume")
      BY <1>1, <1>2, <2>2
    <2> QED BY <2>1, <2>2
<1>5. edit' \in [EditRequests -> Edits!Calls]
  BY <1>2, <1>4, EditsNoCallShape
<1> QED BY <1>2, <1>4, <1>5

\* An edit that has not passed the policy adds no resource.
LEMMA UncountedAddsNone ==
  ASSUME EditsSizes, NEW d \in Edits!Calls, EditShape(d), d.pc = "commit", ~PassedPolicy(d)
  PROVE  d.op \in {"add", "remove"} /\ d.insert \cap Resources = {}
<1>1. d.op \in {"add", "remove"} /\ d.want = {}
  BY DEF EditShape, PassedPolicy, Edits!Limited, InTransaction, Edits!Calls
<1>2. CASE d.op = "remove"
  BY <1>2 DEF EditShape
<1>3. CASE d.op = "add"
  <2>1. PICK x \in Edits!Items : d.want \cup d.insert = {x}
    BY <1>3 DEF EditShape
  <2>2. ~(d.insert \subseteq Resources) /\ d.insert = {x}
    BY <1>1, <1>3, <2>1 DEF PassedPolicy, Edits!Limited, InTransaction
  <2> QED BY <1>1, <2>2
<1> QED BY <1>1, <1>2, <1>3

LEMMA EditsCommitKeeps ==
  ASSUME EditsSizes, EditsInv, NEW r \in EditRequests, Edits!Commit(r)
  PROVE  EditsInv'
<1>1. PICK d \in Edits!Calls : d = edit[r]
  BY DEF EditsInv, Edits!TypeOK
<1>2. /\ d.pc = "commit" /\ EditShape(d) /\ ProjectionCurrent(d) /\ d.want = {}
      /\ ~stale => NewVolumes(d) /\ Room(d)
  BY <1>1 DEF Edits!Commit, EditsInv, EditShape, InTransaction
<1>3. /\ \A v \in d.volumes : volumes[v] < MaxVolumes
      /\ draft' = (draft \ d.delete) \cup d.insert
      /\ volumes' = [v \in VolumeNames |-> IF v \in d.volumes THEN volumes[v] + 1 ELSE volumes[v]]
      /\ refs' = (refs \ d.clear) \cup d.seen
      /\ crossed' = IF d.op = "volume" THEN crossed ELSE d.overtaken
      /\ UNCHANGED <<gripped, secrets, deleting, stale>>
  BY <1>1 DEF Edits!Commit
<1>4. PICK b \in BOOLEAN : b = (editRaced \/ d.overtaken \/ \E c \in d.seen :
         c \in deleting \/ c \notin secrets)
  OBVIOUS
<1>5. editRaced' = b
  BY <1>1, <1>4 DEF Edits!Commit
<1>6. /\ edit' \in [EditRequests -> Edits!Calls] /\ edit'[r] = Edits!NoCall
      /\ \A q \in EditRequests \ {r} :
           LET c == edit'[q] e == edit[q]
           IN  /\ c.pc = e.pc /\ c.op = e.op /\ c.want = e.want /\ c.volumes = e.volumes
               /\ c.insert = e.insert /\ c.delete = e.delete /\ c.seen = e.seen
                  /\ c.clear = e.clear
               /\ ~c.overtaken /\ d.op # "volume" => c.pc \notin {"clear", "insert", "commit"}
               /\ ~c.overtaken => ~e.overtaken
  BY <1>1, EditsCommitOthers
<1>7. d.op = "volume" => draft' = draft /\ refs' = refs
  BY <1>2, <1>3 DEF EditShape
<1>8. Edits!TypeOK'
  <2>1. draft' \subseteq Edits!Items /\ refs' \subseteq Connections
    BY <1>3 DEF EditsInv, Edits!TypeOK, Edits!Calls
  <2>2. volumes' \in [VolumeNames -> 0..MaxVolumes]
    <3>1. ASSUME NEW v \in VolumeNames
          PROVE  (IF v \in d.volumes THEN volumes[v] + 1 ELSE volumes[v]) \in 0..MaxVolumes
      <4>1. volumes[v] \in 0..MaxVolumes
        BY DEF EditsInv, Edits!TypeOK
      <4> QED BY <1>3, <4>1 DEF EditsSizes
    <3> QED BY <1>3, <3>1
  <2>3. crossed' \in BOOLEAN
    <3>1. d.overtaken \in BOOLEAN /\ crossed \in BOOLEAN
      BY DEF Edits!Calls, EditsInv, Edits!TypeOK
    <3> QED BY <1>3, <3>1
  <2> QED BY <1>3, <1>5, <1>6, <2>1, <2>2, <2>3 DEF EditsInv, Edits!TypeOK
<1>9. /\ \A q \in EditRequests \ {r} : HoldsStack(edit'[q]) <=> HoldsStack(edit[q])
      /\ \A q \in EditRequests \ {r} : PassedPolicy(edit'[q]) <=> PassedPolicy(edit[q])
      /\ ~HoldsStack(edit'[r]) /\ ~PassedPolicy(edit'[r])
  BY <1>6, EditsIdle DEF HoldsStack, PassedPolicy
<1>10. OneHoldsStack' /\ OnePassedPolicy'
  <2>1. ASSUME NEW p \in EditRequests, NEW q \in EditRequests, HoldsStack(edit'[p]),
               HoldsStack(edit'[q])
        PROVE  p = q
    BY <1>9, <2>1 DEF EditsInv, OneHoldsStack
  <2>2. ASSUME NEW p \in EditRequests, NEW q \in EditRequests, Cloud, PassedPolicy(edit'[p]),
               PassedPolicy(edit'[q])
        PROVE  p = q
    BY <1>9, <2>2 DEF EditsInv, OnePassedPolicy
  <2> QED BY <2>1, <2>2 DEF OneHoldsStack, OnePassedPolicy, HoldsStack, PassedPolicy,
                            Edits!Limited
<1>11. Edits!QuotaKept'
  <2> SUFFICES ASSUME Cloud, ~stale PROVE Cardinality(draft' \cap Resources) <= MaxResources
    BY <1>3, EditsCardinality DEF Edits!QuotaKept
  <2>1. CASE PassedPolicy(d)
    <3>1. draft' \cap Resources = AfterEdit(d)
      BY <1>2, <1>3 DEF AfterEdit
    <3> QED BY <1>2, <2>1, <3>1 DEF Room
  <2>2. CASE ~PassedPolicy(d)
    <3>1. PICK old \in SUBSET Resources, new \in SUBSET Resources :
            old = draft \cap Resources /\ new = draft' \cap Resources
      OBVIOUS
    <3>2. new \in SUBSET old
      BY <1>2, <1>3, <2>2, <3>1, UncountedAddsNone
    <3>3. Cardinality(old) <= MaxResources
      BY <3>1, EditsCardinality DEF EditsInv, Edits!QuotaKept
    <3>4. IsFiniteSet(old) /\ IsFiniteSet(new) /\ Cardinality(new) <= Cardinality(old)
      BY <3>2, FS_Subset DEF EditsSizes
    <3>5. Cardinality(old) \in Nat /\ Cardinality(new) \in Nat
      BY <3>4, FS_CardinalityType
    <3>6. Cardinality(new) <= MaxResources
      BY <3>3, <3>4, <3>5 DEF EditsSizes
    <3> QED BY <3>1, <3>6
  <2> QED BY <2>1, <2>2
<1>12. ~HoldsStack(d) => d.volumes = {} /\ volumes' = volumes
  <2>1. ~HoldsStack(d) => d.volumes = {}
    BY <1>2 DEF EditShape, HoldsStack, InTransaction, Edits!Calls
  <2> QED BY <1>3, <2>1 DEF EditsInv, Edits!TypeOK
<1>13. Edits!VolumeNamesUnique'
  <2> SUFFICES ASSUME ~stale, NEW v \in VolumeNames PROVE volumes'[v] <= 1
    BY <1>3 DEF Edits!VolumeNamesUnique
  <2>1. volumes[v] \in Nat /\ volumes[v] <= 1
    BY DEF EditsInv, Edits!VolumeNamesUnique, Edits!TypeOK
  <2>2. v \in d.volumes => volumes[v] = 0
    BY <1>2, <1>12 DEF NewVolumes
  <2> QED BY <1>3, <2>1, <2>2
<1>14. d.op # "volume" /\ ~d.overtaken => refs' = draft' \cap Connections /\ refs' = d.seen
  BY <1>2, <1>3 DEF ProjectionCurrent
<1>15. Edits!ReferencesMatchDraft'
  BY <1>3, <1>7, <1>8, <1>14 DEF EditsInv, Edits!ReferencesMatchDraft
<1>16. UsedSecretsSafe'
  <2>1. crossed' => b
    BY <1>3, <1>4 DEF EditsInv, UsedSecretsSafe
  <2>2. ASSUME ~b PROVE (draft' \cap Connections) \cup gripped \subseteq secrets \ deleting
    <3>1. (draft \cap Connections) \cup gripped \subseteq secrets \ deleting
      BY <1>4, <2>2 DEF EditsInv, UsedSecretsSafe
    <3>2. d.seen \subseteq secrets \ deleting
      BY <1>4, <2>2
    <3> QED BY <1>4, <1>7, <1>14, <2>2, <3>1, <3>2
  <2> QED BY <1>3, <1>5, <2>1, <2>2 DEF UsedSecretsSafe
<1>17. ASSUME NEW q \in EditRequests PROVE EditShape(edit[q])' /\ ProjectionCurrent(edit[q])'
  <2>1. CASE q = r
    BY <1>6, <2>1, EditsNoCallShape DEF EditShape, ProjectionCurrent, InTransaction
  <2>2. CASE q # r
    <3>1. EditShape(edit[q]) /\ ProjectionCurrent(edit[q])
      BY DEF EditsInv
    <3>2. EditShape(edit[q])'
      BY <1>6, <2>2, <3>1 DEF EditShape
    <3>3. ProjectionCurrent(edit[q])'
      BY <1>6, <1>7, <2>2, <3>1 DEF ProjectionCurrent
    <3> QED BY <3>2, <3>3
  <2> QED BY <2>1, <2>2
<1>18. ASSUME NEW q \in EditRequests, ~stale PROVE NewVolumes(edit[q])' /\ Room(edit[q])'
  <2>1. CASE q = r
    BY <1>9, <2>1 DEF NewVolumes, Room, HoldsStack, PassedPolicy, Edits!Limited
  <2>2. CASE q # r
    <3>1. NewVolumes(edit[q]) /\ Room(edit[q])
      BY <1>18 DEF EditsInv
    <3>2. NewVolumes(edit[q])'
      <4> SUFFICES ASSUME HoldsStack(edit'[q]), NEW v \in edit'[q].volumes
                   PROVE  volumes'[v] = 0
        BY DEF NewVolumes, HoldsStack
      <4>1. HoldsStack(edit[q]) /\ ~HoldsStack(d)
        BY <1>1, <1>9, <2>2 DEF EditsInv, OneHoldsStack
      <4> QED BY <1>6, <1>12, <2>2, <3>1, <4>1 DEF NewVolumes
    <3>3. Room(edit[q])'
      <4> SUFFICES ASSUME Cloud, PassedPolicy(edit'[q])
                   PROVE  Cardinality(AfterEdit(edit[q])') <= MaxResources
        BY DEF Room, PassedPolicy, Edits!Limited
      <4>1. PassedPolicy(edit[q]) /\ ~PassedPolicy(d)
        BY <1>1, <1>9, <2>2 DEF EditsInv, OnePassedPolicy
      <4>2. PICK old \in SUBSET Resources, new \in SUBSET Resources :
              old = AfterEdit(edit[q]) /\ new = AfterEdit(edit[q])'
        BY DEF AfterEdit
      <4>3. new \in SUBSET old
        BY <1>2, <1>3, <1>6, <2>2, <4>1, <4>2, UncountedAddsNone DEF AfterEdit
      <4>4. Cardinality(old) <= MaxResources
        BY <3>1, <4>1, <4>2 DEF Room
      <4>5. IsFiniteSet(old) /\ IsFiniteSet(new) /\ Cardinality(new) <= Cardinality(old)
        BY <4>3, FS_Subset DEF EditsSizes
      <4>6. Cardinality(old) \in Nat /\ Cardinality(new) \in Nat
        BY <4>5, FS_CardinalityType
      <4>7. Cardinality(new) <= MaxResources
        BY <4>4, <4>5, <4>6 DEF EditsSizes
      <4> QED BY <4>2, <4>7
    <3> QED BY <3>2, <3>3
  <2> QED BY <2>1, <2>2
<1> QED BY <1>3, <1>8, <1>10, <1>11, <1>13, <1>15, <1>16, <1>17, <1>18 DEF EditsInv

-----------------------------------------------------------------------------
\* Releases, and the deletion of secrets.
LEMMA SecretsStep ==
  ASSUME EditsInv, UNCHANGED <<draft, volumes, refs, edit, stale, crossed>>,
         gripped' \subseteq Connections, secrets' \subseteq Connections,
         deleting' \subseteq Connections, editRaced' \in BOOLEAN, UsedSecretsSafe'
  PROVE  EditsInv'
<1>1. Edits!TypeOK'
  BY DEF EditsInv, Edits!TypeOK
<1>2. OneHoldsStack' /\ OnePassedPolicy' /\ Edits!QuotaKept' /\ Edits!VolumeNamesUnique'
      /\ Edits!ReferencesMatchDraft'
  BY <1>1, EditsCardinality DEF EditsInv, OneHoldsStack, HoldsStack, OnePassedPolicy,
                                PassedPolicy, Edits!Limited, Edits!QuotaKept,
                                Edits!VolumeNamesUnique,
              Edits!ReferencesMatchDraft
<1>3. \A r \in EditRequests : EditShape(edit[r])' /\ ProjectionCurrent(edit[r])'
  BY DEF EditsInv, EditShape, ProjectionCurrent
<1>4. ~stale => \A r \in EditRequests : NewVolumes(edit[r])' /\ Room(edit[r])'
  BY DEF EditsInv, NewVolumes, HoldsStack, Room, PassedPolicy, Edits!Limited, AfterEdit
<1> QED BY <1>1, <1>2, <1>3, <1>4 DEF EditsInv

LEMMA EditsReleasesKeep ==
  ASSUME EditsInv, Edits!CreateRelease \/ Edits!EndReleases
  PROVE  EditsInv'
<1>1. UNCHANGED <<draft, volumes, refs, secrets, deleting, edit, stale, crossed>>
  BY DEF Edits!CreateRelease, Edits!EndReleases
<1>2. CASE Edits!CreateRelease
  <2>1. PICK snapshot \in SUBSET Connections :
          /\ gripped' = gripped \cup snapshot
          /\ editRaced' = (editRaced \/ snapshot \cap (deleting \cup (Connections \ secrets)) # {})
    BY <1>2 DEF Edits!CreateRelease
  <2>2. PICK b \in BOOLEAN :
           b = (editRaced \/ snapshot \cap (deleting \cup (Connections \ secrets)) # {})
    OBVIOUS
  <2>3. editRaced' = b /\ gripped' \subseteq Connections
    BY <2>1, <2>2 DEF EditsInv, Edits!TypeOK
  <2>4. /\ crossed => b
        /\ ~b =>
             (draft \cap Connections) \cup gripped \cup snapshot \subseteq secrets \ deleting
    BY <2>2 DEF EditsInv, UsedSecretsSafe
  <2>5. UsedSecretsSafe'
    BY <1>1, <2>1, <2>3, <2>4 DEF UsedSecretsSafe
  <2> QED BY <1>1, <2>3, <2>5, SecretsStep DEF EditsInv, Edits!TypeOK
<1>3. CASE Edits!EndReleases
  <2>1. gripped' \subseteq gripped /\ editRaced' = editRaced
    BY <1>3 DEF Edits!EndReleases
  <2>2. UsedSecretsSafe'
    BY <1>1, <2>1 DEF EditsInv, UsedSecretsSafe
  <2> QED BY <1>1, <2>1, <2>2, SecretsStep DEF EditsInv, Edits!TypeOK
<1> QED BY <1>2, <1>3

\* The check finds a use in the draft by its reference row.
LEMMA EditsDeleteKeeps ==
  ASSUME EditsInv, NEW c \in Connections, Edits!DeleteCheck(c) \/ Edits!DeleteSecret(c)
  PROVE  EditsInv'
<1>1. UNCHANGED <<draft, volumes, refs, gripped, edit, stale, crossed, editRaced>>
  BY DEF Edits!DeleteCheck, Edits!DeleteSecret
<1>2. secrets' \subseteq Connections /\ deleting' \subseteq Connections
  BY DEF Edits!DeleteCheck, Edits!DeleteSecret, EditsInv, Edits!TypeOK
<1>3. UsedSecretsSafe'
  <2>1. ~editRaced => refs = draft \cap Connections
    BY DEF EditsInv, UsedSecretsSafe, Edits!ReferencesMatchDraft
  <2>2. CASE Edits!DeleteCheck(c)
    BY <1>1, <2>1, <2>2 DEF Edits!DeleteCheck, EditsInv, UsedSecretsSafe
  <2>3. CASE Edits!DeleteSecret(c)
    BY <1>1, <2>3 DEF Edits!DeleteSecret, EditsInv, UsedSecretsSafe
  <2> QED BY <2>2, <2>3
<1> QED BY <1>1, <1>2, <1>3, SecretsStep DEF EditsInv, Edits!TypeOK

LEMMA EditsStandStill ==
  ASSUME EditsInv, UNCHANGED Edits!vars
  PROVE  EditsInv'
<1>1. UNCHANGED <<draft, volumes, refs, edit, stale, crossed>>
      /\ UNCHANGED <<gripped, secrets, deleting, editRaced>>
  BY DEF Edits!vars
<1>2. UsedSecretsSafe'
  BY <1>1 DEF EditsInv, UsedSecretsSafe
<1> QED BY <1>1, <1>2, SecretsStep DEF EditsInv, Edits!TypeOK

LEMMA EditsNextKeeps ==
  ASSUME EditsSizes, EditsInv, [Edits!Next]_(Edits!vars)
  PROVE  EditsInv'
<1>1. ASSUME NEW r \in EditRequests, Edits!Call(r) PROVE EditsInv'
  BY <1>1, EditsBeginKeeps, EditsAdmitKeeps, EditsReplaceKeeps, EditsEditKeeps,
     EditsAddVolumeKeeps, EditsProjectKeeps,
     EditsClearKeeps, EditsInsertKeeps, EditsCommitKeeps, EditsFailKeeps DEF Edits!Call
<1> QED BY <1>1, EditsDeleteKeeps, EditsReleasesKeep, EditsStandStill DEF Edits!Next

\* For any calls that edit a stack at once, with or without the policy of the cloud,
\* EditsInv holds between all of their statements.
THEOREM EditsInvariance ==
  Edits!Spec => []EditsInv
<1>1. Edits!Init => EditsInv
  BY EditsInit, EditsSizesHold
<1>2. EditsInv /\ [Edits!Next]_(Edits!vars) => EditsInv'
  BY EditsNextKeeps, EditsSizesHold
<1> QED BY <1>1, <1>2, PTL DEF Edits!Spec

\* Calls that edit the stack at once do not take it over the limit together: between its
\* check and its commit each of them holds the row of the organisation.
THEOREM QuotaHolds ==
  Edits!Spec => []QuotaKept
<1>1. EditsInv => Edits!QuotaKept
  BY DEF EditsInv
<1> QED BY <1>1, EditsInvariance, PTL DEF QuotaKept

\* No call adds a volume of a name that another has added since it looked, unless a whole
\* stack was replaced on an outdated copy.
THEOREM VolumeNamesStayUnique ==
  Edits!Spec => []VolumeNamesUnique
<1>1. EditsInv => Edits!VolumeNamesUnique
  BY DEF EditsInv
<1> QED BY <1>1, EditsInvariance, PTL DEF VolumeNamesUnique

\* Whatever other edits are committed between its reads and its writes, a projection leaves
\* the reference rows of the draft that its commit leaves, or it is recorded as crossed.
THEOREM ProjectionFollowsDraft ==
  Edits!Spec => []ReferencesMatchDraft
<1>1. EditsInv => Edits!ReferencesMatchDraft
  BY DEF EditsInv, Edits!ReferencesMatchDraft
<1> QED BY <1>1, EditsInvariance, PTL DEF ReferencesMatchDraft

\* A secret whose deletion has passed its check is not taken into use before it is gone,
\* and one in use does not pass it, but for the races that are recorded.
THEOREM UsedSecretsAreKept ==
  Edits!Spec => []UsedSecretsKept
<1>1. EditsInv => Edits!UsedSecretsKept
  BY DEF EditsInv, UsedSecretsSafe, Edits!UsedSecretsKept
<1> QED BY <1>1, EditsInvariance, PTL DEF UsedSecretsKept
=============================================================================
