----------------------- MODULE ClusterRegistryProofs -----------------------
(***************************************************************************)
(* The invariant behind OneCluster, ClientsMatchRows and RowOutlivesObject *)
(* of ClusterRegistry, its proof, and that ClusterRegistry implements      *)
(* ClusterInventory.                                                       *)
(***************************************************************************)
EXTENDS ClusterRegistry, FiniteSetTheorems, TLAPS

\* The row of the organisation has one holder, and a second cluster has no way in.
LockedOnce ==
  \A q, r \in Requests :
    add[q].pc \in {"check", "open"} /\ add[r].pc \in {"check", "open"} => q = r

\* What a call of AddCluster has inserted shows to no one until it commits; after a
\* rollback it is not there, unless the answer to the COMMIT was lost.
AddOK(r) ==
  /\ add[r].pc \in {"idle", "check"} => add[r].id = {}
  /\ add[r].pc = "open" =>
       /\ \E c \in Clusters : add[r].id = {c}
       /\ add[r].id \subseteq registered
       /\ \A c \in add[r].id : cluster[c] = "unused"
       /\ \A x \in add[r].of : registry[x] = "unused"
       /\ \A c \in Clusters : ~Exists(c)
  /\ add[r].pc = "compensate" => \A c \in add[r].id : cluster[c] = "live" => c \in doubt

\* No two calls insert one cluster.
AddsApart == \A q, r \in Requests : q # r => add[q].id \cap add[r].id = {}

UniqueCluster == \A c, d \in Clusters : Exists(c) /\ Exists(d) => c = d

\* An execution knows only of registries that have rows, on its cluster, and comes to
\* the client and the row of a cluster only when that is being deleted.
ExecOK(c) ==
  /\ exec[c].pc # "idle" => cluster[c] # "unused"
  /\ exec[c].pc # "idle" /\ exec[c].deleting => cluster[c] \in {"deleting", "gone"}
  /\ exec[c].pc \in {"unregister", "delete"} => exec[c].deleting
  /\ exec[c].pc = "delete" => c \notin registered
  /\ \A x \in Todo(c) : Row(x) /\ home[x] = {c}

IInv ==
  /\ TypeOK
  /\ LockedOnce /\ AddsApart /\ UniqueCluster
  /\ \A r \in Requests : AddOK(r)
  /\ \A c \in Clusters : ExecOK(c)
  /\ ClientsMatchRows
  /\ RowOutlivesObject

-----------------------------------------------------------------------------
LEMMA InitIInv == Init => IInv
<1> SUFFICES ASSUME Init PROVE IInv
  OBVIOUS
<1>1. TypeOK
  BY DEF Init, TypeOK, NoAdd, NoExecution, Executions
<1>2. LockedOnce /\ AddsApart /\ UniqueCluster
  BY DEF Init, LockedOnce, AddsApart, UniqueCluster, Exists, NoAdd
<1>3. \A r \in Requests : AddOK(r)
  BY DEF Init, AddOK, NoAdd
<1>4. \A c \in Clusters : ExecOK(c)
  BY DEF Init, ExecOK, Todo, NoExecution
<1>5. ClientsMatchRows /\ RowOutlivesObject
  BY DEF Init, ClientsMatchRows, RowOutlivesObject
<1> QED BY <1>1, <1>2, <1>3, <1>4, <1>5 DEF IInv

-----------------------------------------------------------------------------
(***************************************************************************)
(* Adding a cluster.                                                       *)
(***************************************************************************)
LEMMA AddBeginKeeps ==
  ASSUME IInv, NEW r \in Requests, AddBegin(r)
  PROVE  IInv'
<1> USE DEF IInv
<1>1. TypeOK'
  BY DEF AddBegin, rows, TypeOK
<1>2. (LockedOnce /\ AddsApart)'
  BY DEF AddBegin, rows, Locked, LockedOnce, AddsApart, TypeOK
<1>3. UniqueCluster'
  BY DEF AddBegin, rows, UniqueCluster, Exists
<1>4. (\A q \in Requests : AddOK(q))'
  BY DEF AddBegin, rows, AddOK, Exists
<1>5. (\A d \in Clusters : ExecOK(d))'
  BY DEF AddBegin, rows, ExecOK, Todo, Row
<1>6. ClientsMatchRows'
  BY DEF AddBegin, rows, ClientsMatchRows, Exists
<1>7. RowOutlivesObject'
  BY DEF AddBegin, rows, RowOutlivesObject, Row
<1> QED BY <1>1, <1>2, <1>3, <1>4, <1>5, <1>6, <1>7

LEMMA AddInsertKeeps ==
  ASSUME IInv, NEW r \in Requests, AddInsert(r)
  PROVE  IInv'
<1> USE DEF IInv
<1>1. TypeOK'
  BY DEF AddInsert, TypeOK
<1>2. (LockedOnce /\ AddsApart)'
  BY DEF AddInsert, LockedOnce, AddsApart
<1>3. UniqueCluster'
  BY DEF AddInsert, Exists, UniqueCluster
<1>4. (\A q \in Requests : AddOK(q))'
  BY DEF AddInsert, Exists, AddOK
<1>5. (\A d \in Clusters : ExecOK(d))'
  BY DEF AddInsert, ExecOK, Todo, Row, TypeOK, States
<1>6. ClientsMatchRows'
  BY DEF AddInsert, Exists, AddsApart, AddOK, ClientsMatchRows, TypeOK
<1>7. RowOutlivesObject'
  BY DEF AddInsert, RowOutlivesObject, Row
<1> QED BY <1>1, <1>2, <1>3, <1>4, <1>5, <1>6, <1>7

LEMMA AddRefusedKeeps ==
  ASSUME IInv, NEW r \in Requests, AddRefused(r)
  PROVE  IInv'
<1> USE DEF IInv
<1>1. TypeOK'
  BY DEF AddRefused, rows, NoAdd, TypeOK
<1>2. (LockedOnce /\ AddsApart)'
  BY DEF AddRefused, rows, NoAdd, LockedOnce, AddsApart, TypeOK
<1>3. UniqueCluster'
  BY DEF AddRefused, rows, UniqueCluster, Exists
<1>4. (\A q \in Requests : AddOK(q))'
  BY DEF AddRefused, rows, NoAdd, LockedOnce, AddsApart, AddOK, Exists, TypeOK
<1>5. (\A d \in Clusters : ExecOK(d))'
  BY DEF AddRefused, rows, ExecOK, Todo, Row
<1>6. ClientsMatchRows'
  BY DEF AddRefused, rows, AddOK, ClientsMatchRows, Exists
<1>7. RowOutlivesObject'
  BY DEF AddRefused, rows, RowOutlivesObject, Row
<1> QED BY <1>1, <1>2, <1>3, <1>4, <1>5, <1>6, <1>7

LEMMA AddCommitKeeps ==
  ASSUME IInv, NEW r \in Requests, AddCommit(r)
  PROVE  IInv'
<1> USE DEF IInv
<1>1. TypeOK'
  BY DEF AddCommit, NoAdd, Inserted, TypeOK, States
<1>2. (LockedOnce /\ AddsApart)'
  BY DEF AddCommit, NoAdd, Inserted, LockedOnce, AddsApart, TypeOK
<1>3. UniqueCluster'
  BY DEF AddCommit, NoAdd, Inserted, UniqueCluster, AddOK, Exists, TypeOK
<1>4. (\A q \in Requests : AddOK(q))'
  BY DEF AddCommit, NoAdd, Inserted, LockedOnce, AddsApart, AddOK, Exists, TypeOK
<1>5. (\A d \in Clusters : ExecOK(d))'
  BY DEF AddCommit, NoAdd, Inserted, AddOK, ExecOK, Todo, Row, TypeOK, States
<1>6. ClientsMatchRows'
  BY DEF AddCommit, NoAdd, Inserted, AddsApart, AddOK, ClientsMatchRows, Exists, TypeOK
<1>7. RowOutlivesObject'
  BY DEF AddCommit, NoAdd, Inserted, RowOutlivesObject, Row, TypeOK, States
<1> QED BY <1>1, <1>2, <1>3, <1>4, <1>5, <1>6, <1>7

LEMMA AddRollbackKeeps ==
  ASSUME IInv, NEW r \in Requests, AddRollback(r)
  PROVE  IInv'
<1> USE DEF IInv
<1>1. TypeOK'
  BY DEF AddRollback, TypeOK
<1>2. (LockedOnce /\ AddsApart)'
  BY DEF AddRollback, LockedOnce, AddsApart
<1>3. UniqueCluster'
  BY DEF AddRollback, UniqueCluster, Exists
<1>4. (\A q \in Requests : AddOK(q))'
  BY DEF AddRollback, LockedOnce, AddsApart, AddOK, Exists, TypeOK
<1>5. (\A d \in Clusters : ExecOK(d))'
  BY DEF AddRollback, AddOK, ExecOK, Todo, Row, TypeOK, States
<1>6. ClientsMatchRows'
  BY DEF AddRollback, ClientsMatchRows, Exists, TypeOK
<1>7. RowOutlivesObject'
  BY DEF AddRollback, AddOK, RowOutlivesObject, Row, TypeOK, States
<1> QED BY <1>1, <1>2, <1>3, <1>4, <1>5, <1>6, <1>7

LEMMA AddCommitUnknownKeeps ==
  ASSUME IInv, NEW r \in Requests, AddCommitUnknown(r)
  PROVE  IInv'
<1> USE DEF IInv
<1>1. TypeOK'
  BY DEF AddCommitUnknown, Inserted, TypeOK, States
<1>2. (LockedOnce /\ AddsApart)'
  BY DEF AddCommitUnknown, LockedOnce, AddsApart
<1>3. UniqueCluster'
  BY DEF AddCommitUnknown, Inserted, UniqueCluster, AddOK, Exists, TypeOK
<1>4. (\A q \in Requests : AddOK(q))'
  BY DEF AddCommitUnknown, Inserted, LockedOnce, AddsApart, AddOK, Exists, TypeOK
<1>5. (\A d \in Clusters : ExecOK(d))'
  BY DEF AddCommitUnknown, Inserted, AddOK, ExecOK, Todo, Row, TypeOK, States
<1>6. ClientsMatchRows'
  BY DEF AddCommitUnknown, Inserted, AddsApart, ClientsMatchRows, Exists, TypeOK
<1>7. RowOutlivesObject'
  BY DEF AddCommitUnknown, Inserted, RowOutlivesObject, Row, TypeOK, States
<1> QED BY <1>1, <1>2, <1>3, <1>4, <1>5, <1>6, <1>7

LEMMA CompensateKeeps ==
  ASSUME IInv, NEW r \in Requests, Compensate(r)
  PROVE  IInv'
<1> USE DEF IInv
<1>1. TypeOK'
  BY DEF Compensate, rows, NoAdd, TypeOK
<1>2. (LockedOnce /\ AddsApart)'
  BY DEF Compensate, rows, NoAdd, LockedOnce, AddsApart, TypeOK
<1>3. UniqueCluster'
  BY DEF Compensate, rows, UniqueCluster, Exists
<1>4. (\A q \in Requests : AddOK(q))'
  BY DEF Compensate, rows, NoAdd, LockedOnce, AddsApart, AddOK, Exists, TypeOK
<1>5. (\A d \in Clusters : ExecOK(d))'
  BY DEF Compensate, rows, ExecOK, Todo, Row
<1>6. ClientsMatchRows'
  BY DEF Compensate, rows, AddOK, ClientsMatchRows, Exists
<1>7. RowOutlivesObject'
  BY DEF Compensate, rows, RowOutlivesObject, Row
<1> QED BY <1>1, <1>2, <1>3, <1>4, <1>5, <1>6, <1>7

LEMMA DeleteClusterKeeps ==
  ASSUME IInv, NEW c \in Clusters, DeleteCluster(c)
  PROVE  IInv'
<1> USE DEF IInv
<1>1. TypeOK'
  BY DEF DeleteCluster, TypeOK, States
<1>2. (LockedOnce /\ AddsApart)'
  BY DEF DeleteCluster, LockedOnce, AddsApart
<1>3. UniqueCluster'
  BY DEF DeleteCluster, UniqueCluster, Exists
<1>4. (\A q \in Requests : AddOK(q))'
  BY DEF DeleteCluster, AddOK, Exists
<1>5. (\A d \in Clusters : ExecOK(d))'
  BY DEF DeleteCluster, Row, ExecOK, Todo, TypeOK, States
<1>6. ClientsMatchRows'
  BY DEF DeleteCluster, ClientsMatchRows, Exists
<1>7. RowOutlivesObject'
  BY DEF DeleteCluster, Row, RowOutlivesObject, TypeOK, States
<1> QED BY <1>1, <1>2, <1>3, <1>4, <1>5, <1>6, <1>7

LEMMA CreateRegistryKeeps ==
  ASSUME IInv, NEW x \in Registries, NEW c \in Clusters, CreateRegistry(x, c)
  PROVE  IInv'
<1> USE DEF IInv
<1>1. TypeOK'
  BY DEF CreateRegistry, TypeOK, States
<1>2. (LockedOnce /\ AddsApart)'
  BY DEF CreateRegistry, LockedOnce, AddsApart
<1>3. UniqueCluster'
  BY DEF CreateRegistry, Exists, UniqueCluster
<1>4. (\A q \in Requests : AddOK(q))'
  BY DEF CreateRegistry, Exists, AddOK
<1>5. (\A d \in Clusters : ExecOK(d))'
  BY DEF CreateRegistry, ExecOK, Todo, Row, TypeOK, States
<1>6. ClientsMatchRows'
  BY DEF CreateRegistry, Exists, ClientsMatchRows
<1>7. RowOutlivesObject'
  BY DEF CreateRegistry, RowOutlivesObject, Row, TypeOK, States
<1> QED BY <1>1, <1>2, <1>3, <1>4, <1>5, <1>6, <1>7

-----------------------------------------------------------------------------
(***************************************************************************)
(* Steps that leave the clusters, their clients and the calls alone.       *)
(***************************************************************************)

LEMMA Frame ==
  ASSUME IInv, UNCHANGED <<cluster, add, registered, doubt>>,
         \A x \in Registries : registry[x] = "unused" => registry'[x] = "unused",
         TypeOK', (\A c \in Clusters : ExecOK(c))', RowOutlivesObject'
  PROVE  IInv'
<1> USE DEF IInv
<1>1. (LockedOnce /\ AddsApart /\ UniqueCluster)'
  BY DEF LockedOnce, AddsApart, UniqueCluster, Exists
<1>2. (\A r \in Requests : AddOK(r))'
  BY DEF AddOK, Exists, TypeOK
<1>3. ClientsMatchRows'
  BY DEF ClientsMatchRows, Exists
<1> QED BY <1>1, <1>2, <1>3

LEMMA ExecFrame ==
  ASSUME IInv, UNCHANGED <<cluster, home, registered, exec>>,
         \A x \in Registries : Row(x) => Row(x)'
  PROVE  (\A c \in Clusters : ExecOK(c))'
  BY DEF IInv, ExecOK, Todo

\* The state of a row is not whether there is one.
LEMMA StatusKeepsRow ==
  ASSUME TypeOK, NEW x \in Registries, NEW s \in States, UpdateStatus(x, s)
  PROVE  /\ registry' \in [Registries -> States \cup {"unused", "gone"}]
         /\ \A y \in Registries : Row(y)' <=> Row(y)
         /\ \A y \in Registries : registry[y] = "unused" => registry'[y] = "unused"
  BY DEF TypeOK, UpdateStatus, Row, States

LEMMA DeleteRegistryKeeps ==
  ASSUME IInv, NEW x \in Registries, DeleteRegistry(x)
  PROVE  IInv'
<1> USE DEF IInv
<1>1. TypeOK'
  BY DEF DeleteRegistry, TypeOK, States
<1>2. (\A d \in Clusters : ExecOK(d))'
  BY ExecFrame DEF DeleteRegistry, Row, TypeOK, States
<1>3. RowOutlivesObject'
  BY DEF DeleteRegistry, Row, RowOutlivesObject, TypeOK, States
<1> QED BY <1>1, <1>2, <1>3, Frame DEF DeleteRegistry, Row, TypeOK, States

LEMMA ObjectGoneKeeps ==
  ASSUME IInv, NEW x \in Registries, ObjectGone(x)
  PROVE  IInv'
<1> USE DEF IInv
<1>1. TypeOK'
  BY DEF ObjectGone, rows, TypeOK
<1>2. (\A d \in Clusters : ExecOK(d))'
  BY ExecFrame DEF ObjectGone, rows, Row, TypeOK, States
<1>3. RowOutlivesObject'
  BY DEF ObjectGone, rows, RowOutlivesObject, Row
<1> QED BY <1>1, <1>2, <1>3, Frame DEF ObjectGone, rows, TypeOK

LEMMA MirrorReadKeeps ==
  ASSUME IInv, NEW c \in Clusters, NEW x \in Registries, NEW phase \in Phases,
         MirrorRead(c, x, phase)
  PROVE  IInv'
<1> USE DEF IInv
<1>1. TypeOK'
  BY DEF MirrorRead, rows, TypeOK
<1>2. (\A d \in Clusters : ExecOK(d))'
  BY ExecFrame DEF MirrorRead, rows, On, Row, TypeOK, States
<1>3. RowOutlivesObject'
  BY DEF MirrorRead, rows, Row, RowOutlivesObject
<1> QED BY <1>1, <1>2, <1>3, Frame DEF MirrorRead, rows, On, Row, TypeOK, States

LEMMA PrereqReadKeeps ==
  ASSUME IInv, NEW x \in Registries, PrereqRead(x)
  PROVE  IInv'
<1> USE DEF IInv
<1>1. TypeOK'
  BY DEF PrereqRead, rows, TypeOK
<1>2. (\A d \in Clusters : ExecOK(d))'
  BY ExecFrame DEF PrereqRead, rows, Row, TypeOK, States
<1>3. RowOutlivesObject'
  BY DEF PrereqRead, rows, Row, RowOutlivesObject
<1> QED BY <1>1, <1>2, <1>3, Frame DEF PrereqRead, rows, Row, TypeOK, States

LEMMA PrereqEnsureKeeps ==
  ASSUME IInv, PrereqEnsure
  PROVE  IInv'
<1> USE DEF IInv
<1>1. TypeOK'
  BY DEF PrereqEnsure, rows, Ensure, TypeOK
<1>2. (\A d \in Clusters : ExecOK(d))'
  BY ExecFrame DEF PrereqEnsure, rows, Ensure, Row, TypeOK, States
<1>3. RowOutlivesObject'
  BY DEF PrereqEnsure, rows, Ensure, RowOutlivesObject, Row, TypeOK, States
<1> QED BY <1>1, <1>2, <1>3, Frame DEF PrereqEnsure, rows, Ensure, TypeOK

LEMMA PrereqFailsKeeps ==
  ASSUME IInv, PrereqFails
  PROVE  IInv'
<1> USE DEF IInv
<1>1. TypeOK'
  BY DEF PrereqFails, rows, TypeOK
<1>2. (\A d \in Clusters : ExecOK(d))'
  BY ExecFrame DEF PrereqFails, rows, Row, TypeOK, States
<1>3. RowOutlivesObject'
  BY DEF PrereqFails, rows, RowOutlivesObject, Row
<1> QED BY <1>1, <1>2, <1>3, Frame DEF PrereqFails, rows, TypeOK

LEMMA UseKeeps ==
  ASSUME IInv, NEW c \in Clusters, Use(c)
  PROVE  IInv'
<1> USE DEF IInv
<1>1. TypeOK'
  BY DEF Use, rows, TypeOK
<1>2. (\A d \in Clusters : ExecOK(d))'
  BY ExecFrame DEF Use, rows, Exists, Row, TypeOK, States
<1>3. RowOutlivesObject'
  BY DEF Use, rows, RowOutlivesObject, Row
<1> QED BY <1>1, <1>2, <1>3, Frame DEF Use, rows, Exists, TypeOK

LEMMA LeaveKeeps ==
  ASSUME IInv, NEW c \in Clusters, Leave(c)
  PROVE  IInv'
<1> USE DEF IInv
<1>1. TypeOK'
  BY DEF Leave, rows, TypeOK
<1>2. (\A d \in Clusters : ExecOK(d))'
  BY ExecFrame DEF Leave, rows, Row, TypeOK, States
<1>3. RowOutlivesObject'
  BY DEF Leave, rows, RowOutlivesObject, Row
<1> QED BY <1>1, <1>2, <1>3, Frame DEF Leave, rows, TypeOK

LEMMA MirrorWriteKeeps ==
  ASSUME IInv, NEW c \in Clusters, MirrorWrite(c)
  PROVE  IInv'
<1> USE DEF IInv
<1>1. PICK m \in mirror[c] : UpdateStatus(m[1], m[2])
  BY DEF MirrorWrite
<1>2. m[1] \in Registries /\ m[2] \in States
  BY PhasesAssumption DEF TypeOK
<1>3. /\ registry' \in [Registries -> States \cup {"unused", "gone"}]
      /\ \A y \in Registries : Row(y)' <=> Row(y)
      /\ \A y \in Registries : registry[y] = "unused" => registry'[y] = "unused"
  BY <1>1, <1>2, StatusKeepsRow
<1>4. TypeOK'
  BY <1>3 DEF MirrorWrite, TypeOK
<1>5. (\A d \in Clusters : ExecOK(d))'
  BY <1>3, ExecFrame DEF MirrorWrite
<1>6. RowOutlivesObject'
  BY <1>3 DEF MirrorWrite, RowOutlivesObject
<1> QED BY <1>3, <1>4, <1>5, <1>6, Frame DEF MirrorWrite

-----------------------------------------------------------------------------
(***************************************************************************)
(* The registry worker.                                                    *)
(***************************************************************************)
Copies == [Registries -> States \cup {"none", "ensured"}]

\* One registry of the copy is done, and the others are still to be looked at.
Passed(c, x) == [exec[c].copy EXCEPT ![x] = "none"]

LEMMA ExecutionWithPc ==
  ASSUME NEW e \in Executions, NEW pc \in {"idle", "each", "ensured", "unregister", "delete"}
  PROVE  /\ [e EXCEPT !.pc = pc] \in Executions
         /\ [e EXCEPT !.pc = pc].pc = pc
         /\ [e EXCEPT !.pc = pc].deleting = e.deleting
  BY DEF Executions

LEMMA ExecutionWithCopy ==
  ASSUME NEW e \in Executions, NEW f \in Copies
  PROVE  /\ [e EXCEPT !.copy = f] \in Executions
         /\ [e EXCEPT !.copy = f].pc = e.pc
         /\ [e EXCEPT !.copy = f].deleting = e.deleting
         /\ [e EXCEPT !.copy = f].copy = f
  BY DEF Executions, Copies

LEMMA ExecutionWithLeft ==
  ASSUME NEW e \in Executions, NEW b \in BOOLEAN
  PROVE  /\ [e EXCEPT !.left = b] \in Executions
         /\ [e EXCEPT !.left = b].pc = e.pc
         /\ [e EXCEPT !.left = b].deleting = e.deleting
         /\ [e EXCEPT !.left = b].copy = e.copy
  BY DEF Executions

LEMMA PassedCopy ==
  ASSUME TypeOK, NEW c \in Clusters, NEW x \in Registries
  PROVE  /\ exec[c] \in Executions /\ exec[c].copy \in Copies
         /\ Passed(c, x) \in Copies
         /\ Passed(c, x)[x] = "none"
         /\ \A y \in Registries : Passed(c, x)[y] # "none" => exec[c].copy[y] # "none"
<1>1. exec[c] \in Executions
  BY DEF TypeOK
<1>2. exec[c].copy \in Copies
  BY <1>1 DEF Executions, Copies
<1> QED BY <1>1, <1>2 DEF Passed, Copies

\* An execution moves on: what is left to do was there before, and its steps are the
\* ones its cluster allows.
LEMMA ExecMoves ==
  ASSUME IInv, UNCHANGED <<cluster, home, registered>>, NEW c \in Clusters,
         NEW e \in Executions,
         exec' = [exec EXCEPT ![c] = e],
         exec[c].pc # "idle", e.deleting = exec[c].deleting,
         e.pc \in {"unregister", "delete"} => e.deleting,
         e.pc # "delete",
         \A x \in Registries : e.copy[x] # "none" => exec[c].copy[x] # "none",
         \A x \in Registries : Row(x) => Row(x)' \/ (home[x] = {c} /\ e.copy[x] = "none")
  PROVE  (\A d \in Clusters : ExecOK(d))'
<1> SUFFICES ASSUME NEW d \in Clusters PROVE ExecOK(d)'
  OBVIOUS
<1>1. CASE d = c
  BY <1>1 DEF IInv, TypeOK, ExecOK, Todo
<1>2. CASE d # c
  <2>1. exec'[d] = exec[d]
    BY <1>2 DEF IInv, TypeOK
  <2>2. \A x \in Registries : exec[d].copy[x] # "none" => home[x] = {d} /\ Row(x)
    BY DEF IInv, ExecOK, Todo
  <2>3. \A x \in Registries : exec[d].copy[x] # "none" => Row(x)'
    BY <1>2, <2>2
  <2> QED BY <2>1, <2>2, <2>3 DEF IInv, ExecOK, Todo
<1> QED BY <1>1, <1>2

LEMMA ExecuteKeeps ==
  ASSUME IInv, NEW c \in Clusters, Execute(c)
  PROVE  IInv'
<1> USE DEF IInv
<1>1. TypeOK'
  BY DEF Execute, rows, Unchanged, On, Row, Exists, TypeOK, States, Executions
<1>2. (\A d \in Clusters : ExecOK(d))'
  <2> SUFFICES ASSUME NEW d \in Clusters PROVE ExecOK(d)'
    OBVIOUS
  <2>1. CASE d = c
    BY <2>1 DEF Execute, rows, Unchanged, On, Row, Exists, ExecOK, Todo, TypeOK
  <2>2. CASE d # c
    BY <2>2 DEF Execute, rows, Unchanged, ExecOK, Todo, Row, TypeOK
  <2> QED BY <2>1, <2>2
<1>3. RowOutlivesObject'
  BY DEF Execute, rows, Unchanged, Row, RowOutlivesObject
<1> QED BY <1>1, <1>2, <1>3, Frame DEF Execute, rows, Unchanged, On, Row, Exists,
           TypeOK, States

LEMMA FailsKeeps ==
  ASSUME IInv, NEW c \in Clusters, Fails(c)
  PROVE  IInv'
<1> USE DEF IInv
<1>1. TypeOK'
  BY DEF Fails, rows, Stop, NoExecution, Unchanged, TypeOK, Executions, States
<1>2. (\A d \in Clusters : ExecOK(d))'
  BY DEF Fails, rows, Stop, NoExecution, Unchanged, ExecOK, Todo, Row, TypeOK, States
<1>3. RowOutlivesObject'
  BY DEF Fails, rows, Unchanged, RowOutlivesObject, Row
<1> QED BY <1>1, <1>2, <1>3, Frame DEF Fails, rows, Stop, NoExecution, Unchanged, TypeOK

LEMMA RemoveKeeps ==
  ASSUME IInv, NEW c \in Clusters, NEW x \in Registries, Remove(c, x)
  PROVE  IInv'
<1> USE DEF IInv
<1> DEFINE d == [exec[c] EXCEPT !.copy = Passed(c, x)]
           left == exec[c].left \/ object[x].is # "absent"
           e == [d EXCEPT !.left = left]
<1>1. /\ d \in Executions
      /\ d.pc = exec[c].pc /\ d.deleting = exec[c].deleting /\ d.copy = Passed(c, x)
  BY PassedCopy, ExecutionWithCopy
<1>2. /\ e \in Executions
      /\ e.pc = exec[c].pc /\ e.deleting = exec[c].deleting /\ e.copy = Passed(c, x)
  <2>1. left \in BOOLEAN
    BY PassedCopy DEF Executions
  <2> HIDE DEF d, left
  <2> QED BY <1>1, <2>1, ExecutionWithLeft
<1>3. exec' = [exec EXCEPT ![c] = e]
  BY DEF Remove, Passed
<1> HIDE DEF d, left, e
<1>4. TypeOK'
  <2>1. exec' \in [Clusters -> Executions]
    BY <1>2, <1>3 DEF TypeOK
  <2>2. /\ registry' \in [Registries -> States \cup {"unused", "gone"}]
        /\ object' \in [Registries -> [is : {"absent", "present", "terminating"},
                                      by : {"worker", "release"}]]
    BY DEF Remove, TypeOK
  <2> QED BY <2>1, <2>2 DEF Remove, Unchanged, TypeOK
<1>5. home[x] = {c} /\ Row(x)
  BY DEF Remove, ExecOK
<1>6. \A y \in Registries : Row(y) => Row(y)' \/ y = x
  BY DEF Remove, Row, TypeOK
<1>7. (\A b \in Clusters : ExecOK(b))'
  <2>1. UNCHANGED <<cluster, home, registered>> /\ exec[c].pc = "each"
    BY DEF Remove, Unchanged
  <2>2. /\ e.copy[x] = "none"
        /\ \A y \in Registries : e.copy[y] # "none" => exec[c].copy[y] # "none"
    BY <1>2, PassedCopy
  <2>3. \A y \in Registries : Row(y) => Row(y)' \/ (home[y] = {c} /\ e.copy[y] = "none")
    BY <1>5, <1>6, <2>2
  <2> HIDE DEF IInv
  <2> QED BY <1>2, <1>3, <2>1, <2>2, <2>3, ExecMoves
<1>8. RowOutlivesObject'
  BY DEF Remove, RowOutlivesObject, Row
<1> QED BY <1>4, <1>7, <1>8, Frame DEF Remove, Unchanged, Row, TypeOK, States

LEMMA RunningKeeps ==
  ASSUME IInv, NEW c \in Clusters, NEW x \in Registries, Running(c, x)
  PROVE  IInv'
<1> USE DEF IInv
<1> DEFINE e == [exec[c] EXCEPT !.copy = Passed(c, x)]
<1>1. /\ e \in Executions
      /\ e.pc = exec[c].pc /\ e.deleting = exec[c].deleting /\ e.copy = Passed(c, x)
  BY PassedCopy, ExecutionWithCopy
<1>2. exec' = [exec EXCEPT ![c] = e]
  BY DEF Running, Passed
<1> HIDE DEF e
<1>3. TypeOK'
  BY <1>1, <1>2 DEF Running, rows, Unchanged, TypeOK
<1>4. (\A d \in Clusters : ExecOK(d))'
  <2>1. UNCHANGED <<cluster, registry, home, registered>> /\ exec[c].pc = "each"
    BY DEF Running, rows, Unchanged
  <2>2. \A y \in Registries : e.copy[y] # "none" => exec[c].copy[y] # "none"
    BY <1>1, PassedCopy
  <2>3. \A y \in Registries : Row(y) => Row(y)'
    BY <2>1 DEF Row
  <2> HIDE DEF IInv
  <2> QED BY <1>1, <1>2, <2>1, <2>2, <2>3, ExecMoves
<1>5. RowOutlivesObject'
  BY DEF Running, rows, RowOutlivesObject, Row
<1> QED BY <1>3, <1>4, <1>5, Frame DEF Running, rows, Unchanged

LEMMA ProvisionKeeps ==
  ASSUME IInv, NEW c \in Clusters, NEW x \in Registries, Provision(c, x)
  PROVE  IInv'
<1> USE DEF IInv
<1>1. PICK e \in Executions :
        /\ e.pc \in {"each", "ensured"} /\ e.deleting = exec[c].deleting
        /\ \A y \in Registries : e.copy[y] # "none" => exec[c].copy[y] # "none"
        /\ exec' = [exec EXCEPT ![c] = e]
  <2>1. CASE exec[c].copy[x] = "Error"
    <3> DEFINE d == [exec[c] EXCEPT !.pc = "ensured"]
               f == [exec[c].copy EXCEPT ![x] = "ensured"]
               e == [d EXCEPT !.copy = f]
    <3>1. f \in Copies /\ \A y \in Registries : f[y] # "none" => exec[c].copy[y] # "none"
      BY <2>1, PassedCopy DEF Copies
    <3>2. d \in Executions /\ d.pc = "ensured" /\ d.deleting = exec[c].deleting
      BY PassedCopy, ExecutionWithPc
    <3>3. exec' = [exec EXCEPT ![c] = e]
      BY <2>1 DEF Provision
    <3> HIDE DEF d, f
    <3>4. e \in Executions /\ e.pc = "ensured" /\ e.deleting = exec[c].deleting /\ e.copy = f
      BY <3>1, <3>2, ExecutionWithCopy
    <3> HIDE DEF e
    <3> QED BY <3>1, <3>3, <3>4
  <2>2. CASE exec[c].copy[x] # "Error"
    <3> DEFINE e == [exec[c] EXCEPT !.copy = Passed(c, x)]
    <3>1. /\ e \in Executions
          /\ e.pc = exec[c].pc /\ e.deleting = exec[c].deleting /\ e.copy = Passed(c, x)
      BY PassedCopy, ExecutionWithCopy
    <3>2. exec' = [exec EXCEPT ![c] = e] /\ exec[c].pc = "each"
      BY <2>2 DEF Provision, Passed
    <3> HIDE DEF e
    <3> QED BY <3>1, <3>2, PassedCopy
  <2> QED BY <2>1, <2>2
<1>2. TypeOK'
  <2>1. exec' \in [Clusters -> Executions]
    BY <1>1 DEF TypeOK
  <2>2. object' \in [Registries -> [is : {"absent", "present", "terminating"},
                                   by : {"worker", "release"}]]
    BY DEF Provision, Ensure, TypeOK
  <2> QED BY <2>1, <2>2 DEF Provision, rows, Unchanged, TypeOK
<1>3. (\A d \in Clusters : ExecOK(d))'
  BY <1>1, ExecMoves DEF Provision, rows, Unchanged, Row
<1>4. RowOutlivesObject'
  BY DEF Provision, rows, Ensure, Todo, ExecOK, RowOutlivesObject, Row, TypeOK
<1> QED BY <1>2, <1>3, <1>4, Frame DEF Provision, rows, Unchanged

LEMMA EnsuredKeeps ==
  ASSUME IInv, NEW c \in Clusters, NEW x \in Registries, Ensured(c, x)
  PROVE  IInv'
<1> USE DEF IInv
<1>1. TypeOK'
  BY DEF Ensured, Unchanged, TypeOK, States, Executions
<1>2. (\A d \in Clusters : ExecOK(d))'
  BY DEF Ensured, UpdateStatus, Row, Unchanged, ExecOK, Todo, TypeOK, States
<1>3. RowOutlivesObject'
  BY DEF Ensured, UpdateStatus, Row, Unchanged, ExecOK, RowOutlivesObject, Todo, TypeOK,
         States
<1> QED BY <1>1, <1>2, <1>3, Frame DEF Ensured, UpdateStatus, Row, Unchanged, TypeOK,
           States

LEMMA ProvisionFailsKeeps ==
  ASSUME IInv, NEW c \in Clusters, NEW x \in Registries, ProvisionFails(c, x)
  PROVE  IInv'
<1> USE DEF IInv
<1>1. TypeOK'
  BY DEF ProvisionFails, Stop, NoExecution, Todo, ToDelete, UpdateStatus, Row,
         Unchanged, TypeOK, States, Executions
<1>2. (\A d \in Clusters : ExecOK(d))'
  BY DEF ProvisionFails, Stop, NoExecution, Todo, ToDelete, UpdateStatus, Row,
         Unchanged, ExecOK, TypeOK, States
<1>3. RowOutlivesObject'
  BY DEF ProvisionFails, Stop, NoExecution, Todo, ToDelete, UpdateStatus, Row,
         Unchanged, ExecOK, RowOutlivesObject, TypeOK, States
<1> QED BY <1>1, <1>2, <1>3, Frame DEF ProvisionFails, Stop, NoExecution, Todo,
           ToDelete, UpdateStatus, Row, Unchanged, TypeOK, States

LEMMA EachEndsKeeps ==
  ASSUME IInv, NEW c \in Clusters, EachEnds(c)
  PROVE  IInv'
<1> USE DEF IInv
<1> DEFINE e == IF exec[c].deleting /\ ~exec[c].left
                  THEN [exec[c] EXCEPT !.pc = "unregister"] ELSE NoExecution
<1>1. e \in Executions
  BY DEF TypeOK, Executions, NoExecution
<1>2. exec' = [exec EXCEPT ![c] = e]
  BY DEF EachEnds, Stop, TypeOK, Executions
<1>3. TypeOK'
  BY <1>1, <1>2 DEF EachEnds, rows, Unchanged, TypeOK
<1>4. (\A d \in Clusters : ExecOK(d))'
  <2> SUFFICES ASSUME NEW d \in Clusters PROVE ExecOK(d)'
    OBVIOUS
  <2>1. CASE d = c
    BY <1>1, <1>2, <2>1
    DEF EachEnds, rows, Unchanged, ExecOK, Todo, NoExecution, TypeOK, Executions
  <2>2. CASE d # c
    BY <1>2, <2>2 DEF EachEnds, rows, Unchanged, ExecOK, Todo, Row, TypeOK
  <2> QED BY <2>1, <2>2
<1>5. RowOutlivesObject'
  BY DEF EachEnds, rows, RowOutlivesObject, Row
<1> QED BY <1>3, <1>4, <1>5, Frame DEF EachEnds, rows, Unchanged

LEMMA UnregisterClusterKeeps ==
  ASSUME IInv, NEW c \in Clusters, UnregisterCluster(c)
  PROVE  IInv'
<1> USE DEF IInv
<1>1. TypeOK'
  <2>1. [exec[c] EXCEPT !.pc = "delete"] \in Executions
    BY ExecutionWithPc DEF TypeOK
  <2>2. exec' = [exec EXCEPT ![c] = [exec[c] EXCEPT !.pc = "delete"]]
    BY DEF UnregisterCluster
  <2> QED BY <2>1, <2>2 DEF UnregisterCluster, rows, TypeOK
<1>2. (LockedOnce /\ AddsApart)'
  BY DEF UnregisterCluster, rows, LockedOnce, AddsApart
<1>3. UniqueCluster'
  BY DEF UnregisterCluster, rows, UniqueCluster, Exists
<1>4. (\A q \in Requests : AddOK(q))'
  BY DEF UnregisterCluster, rows, LockedOnce, AddsApart, AddOK, Exists, ExecOK, TypeOK
<1>5. (\A d \in Clusters : ExecOK(d))'
  BY DEF UnregisterCluster, rows, ExecOK, Todo, Row
<1>6. ClientsMatchRows'
  BY DEF UnregisterCluster, rows, AddsApart, ClientsMatchRows, Exists, ExecOK, TypeOK
<1>7. RowOutlivesObject'
  BY DEF UnregisterCluster, rows, RowOutlivesObject, Row
<1> QED BY <1>1, <1>2, <1>3, <1>4, <1>5, <1>6, <1>7

LEMMA DeleteRowKeeps ==
  ASSUME IInv, NEW c \in Clusters, DeleteRow(c)
  PROVE  IInv'
<1> USE DEF IInv
<1>1. TypeOK'
  BY DEF DeleteRow, Stop, NoExecution, Unchanged, TypeOK, States, Executions
<1>2. (LockedOnce /\ AddsApart)'
  BY DEF DeleteRow, Unchanged, LockedOnce, AddsApart
<1>3. UniqueCluster'
  BY DEF DeleteRow, Unchanged, UniqueCluster, Exists
<1>4. (\A q \in Requests : AddOK(q))'
  BY DEF DeleteRow, Stop, NoExecution, Unchanged, On, Row, LockedOnce, AddsApart, AddOK,
         Exists, ExecOK, TypeOK, States
<1>5. (\A d \in Clusters : ExecOK(d))'
  BY DEF DeleteRow, Stop, NoExecution, Unchanged, Row, ExecOK, Todo, TypeOK, States
<1>6. ClientsMatchRows'
  BY DEF DeleteRow, Stop, NoExecution, Unchanged, On, Row, AddsApart, ClientsMatchRows,
         Exists, ExecOK, TypeOK, States
<1>7. RowOutlivesObject'
  BY DEF DeleteRow, Unchanged, Row, RowOutlivesObject
<1> QED BY <1>1, <1>2, <1>3, <1>4, <1>5, <1>6, <1>7

LEMMA CrashKeeps ==
  ASSUME IInv, Crash
  PROVE  IInv'
<1> USE DEF IInv
<1>1. TypeOK'
  BY DEF Crash, rows, NoAdd, NoExecution, TypeOK, Executions, States
<1>2. (LockedOnce /\ AddsApart)'
  BY DEF Crash, rows, NoAdd, Exists, NoExecution, LockedOnce, AddsApart, TypeOK
<1>3. UniqueCluster'
  BY DEF Crash, rows, Exists, UniqueCluster
<1>4. (\A q \in Requests : AddOK(q))'
  BY DEF Crash, rows, NoAdd, Exists, NoExecution, LockedOnce, AddsApart, AddOK, TypeOK
<1>5. (\A d \in Clusters : ExecOK(d))'
  BY DEF Crash, rows, NoAdd, NoExecution, ExecOK, Todo, Row, TypeOK, States
<1>6. ClientsMatchRows'
  BY DEF Crash, rows, Exists, ClientsMatchRows
<1>7. RowOutlivesObject'
  BY DEF Crash, rows, RowOutlivesObject, Row
<1> QED BY <1>1, <1>2, <1>3, <1>4, <1>5, <1>6, <1>7

-----------------------------------------------------------------------------
LEMMA NextIInv == IInv /\ [Next]_vars => IInv'
<1> SUFFICES ASSUME IInv, [Next]_vars PROVE IInv'
  OBVIOUS
<1>1. ASSUME NEW r \in Requests, AddCluster(r) PROVE IInv'
  BY <1>1, AddBeginKeeps, AddInsertKeeps, AddRefusedKeeps, AddCommitKeeps,
     AddRollbackKeeps,
     AddCommitUnknownKeeps, CompensateKeeps DEF AddCluster
<1>2. ASSUME NEW c \in Clusters, Step(c) PROVE IInv'
  BY <1>2, RemoveKeeps, RunningKeeps, ProvisionKeeps, EnsuredKeeps, ProvisionFailsKeeps,
     EachEndsKeeps, UnregisterClusterKeeps, DeleteRowKeeps DEF Step
<1>3. ASSUME NEW c \in Clusters, Worker(c) PROVE IInv'
  BY <1>2, <1>3, ExecuteKeeps, FailsKeeps DEF Worker
<1>4. ASSUME NEW c \in Clusters, Controller(c) PROVE IInv'
  BY <1>4, MirrorReadKeeps, MirrorWriteKeeps DEF Controller
<1>5. ASSUME NEW c \in Clusters, DeleteCluster(c) \/ Use(c) \/ Leave(c) PROVE IInv'
  BY <1>5, DeleteClusterKeeps, UseKeeps, LeaveKeeps
<1>6. ASSUME NEW x \in Registries,
             (\E c \in Clusters : CreateRegistry(x, c)) \/ DeleteRegistry(x) \/ ObjectGone(x)
      PROVE  IInv'
  BY <1>6, CreateRegistryKeeps, DeleteRegistryKeeps, ObjectGoneKeeps
<1>7. CASE Release
  BY <1>7, PrereqReadKeeps, PrereqEnsureKeeps, PrereqFailsKeeps DEF Release
<1>8. CASE Crash
  BY <1>8, CrashKeeps
<1>9. CASE UNCHANGED vars
  BY <1>9 DEF vars, rows, IInv, TypeOK, LockedOnce, AddsApart, UniqueCluster, AddOK,
     ExecOK, Todo,
     Row, Exists, ClientsMatchRows, RowOutlivesObject
<1> QED BY <1>1, <1>3, <1>4, <1>5, <1>6, <1>7, <1>8, <1>9 DEF Next

-----------------------------------------------------------------------------
\* The invariant holds for every set of clusters, registries and calls.
THEOREM Invariance == Spec => []IInv
BY InitIInv, NextIInv, PTL DEF Spec

\* However many calls of AddCluster run at once, and whatever becomes of their
\* transactions, an organisation has at most one cluster.
THEOREM AtMostOneCluster == Spec => []OneCluster
<1>1. IInv => OneCluster
  <2> SUFFICES ASSUME IInv
               PROVE  Cardinality({c \in Clusters : Exists(c)}) <= 1
    BY DEF IInv, OneCluster
  <2>1. CASE {c \in Clusters : Exists(c)} = {}
    BY <2>1, FS_EmptySet
  <2>2. CASE \E c \in Clusters : Exists(c)
    <3>1. PICK c \in Clusters : {d \in Clusters : Exists(d)} = {c}
      BY <2>2 DEF IInv, UniqueCluster
    <3> QED BY <3>1, FS_Singleton
  <2> QED BY <2>1, <2>2
<1> QED BY <1>1, Invariance, PTL

\* The cluster manager has the clients of the clusters there are, through rollbacks,
\* compensations, deletions and crashes.
THEOREM ClientsCorrect == Spec => []ClientsMatchRows
<1>1. IInv => ClientsMatchRows
  BY DEF IInv
<1> QED BY <1>1, Invariance, PTL

\* What the worker has put into a cluster keeps its row until it is gone.
THEOREM ObjectsHaveRows == Spec => []RowOutlivesObject
<1>1. IInv => RowOutlivesObject
  BY DEF IInv
<1> QED BY <1>1, Invariance, PTL

-----------------------------------------------------------------------------
(***************************************************************************)
(* ClusterRegistry implements ClusterInventory.                            *)
(***************************************************************************)
\* A call that has inserted a registry gave it its cluster, and a release looks up
\* registries that there were.
Given ==
  /\ \A r \in Requests : add[r].pc = "open" => \A x \in add[r].of : home[x] = add[r].id
  /\ \A x \in prereq : registry[x] # "unused"

LEMMA StatusStaysKnown ==
  ASSUME NEW x, NEW s \in States, UpdateStatus(x, s), NEW y \in Registries,
         TypeOK, registry[y] # "unused"
  PROVE  registry'[y] # "unused"
  BY DEF UpdateStatus, TypeOK, States

LEMMA KnownStays ==
  ASSUME IInv, [Next]_vars, NEW y \in Registries, registry[y] # "unused"
  PROVE  registry'[y] # "unused"
<1> TypeOK
  BY DEF IInv
<1>1. ASSUME NEW r \in Requests, AddCluster(r) PROVE registry'[y] # "unused"
  BY <1>1 DEF AddCluster, AddBegin, AddInsert, AddRefused, AddCommit, AddRollback,
              AddCommitUnknown, Compensate, Inserted, rows, TypeOK
<1>2. ASSUME NEW c \in Clusters, Worker(c) PROVE registry'[y] # "unused"
  <2>1. CASE Execute(c) \/ Fails(c) \/ EachEnds(c) \/ UnregisterCluster(c) \/ DeleteRow(c)
    BY <2>1 DEF Execute, Fails, EachEnds, UnregisterCluster, DeleteRow, rows
  <2>2. ASSUME NEW x \in Registries, Remove(c, x) \/ Running(c, x) \/ Provision(c, x)
        PROVE  registry'[y] # "unused"
    BY <2>2 DEF Remove, Running, Provision, rows, TypeOK
  <2>3. ASSUME NEW x \in Registries, Ensured(c, x) \/ ProvisionFails(c, x)
        PROVE  registry'[y] # "unused"
    BY <2>3, StatusStaysKnown DEF Ensured, ProvisionFails, States
  <2> QED BY <1>2, <2>1, <2>2, <2>3 DEF Worker, Step
<1>3. ASSUME NEW c \in Clusters, Controller(c) PROVE registry'[y] # "unused"
  <2>1. CASE MirrorWrite(c)
    <3>1. PICK m \in mirror[c] : UpdateStatus(m[1], m[2])
      BY <2>1 DEF MirrorWrite
    <3>2. m[2] \in States
      BY PhasesAssumption DEF TypeOK
    <3> QED BY <3>1, <3>2, StatusStaysKnown
  <2>2. CASE \E x \in Registries, phase \in Phases : MirrorRead(c, x, phase)
    BY <2>2 DEF MirrorRead, rows
  <2> QED BY <1>3, <2>1, <2>2 DEF Controller
<1>4. ASSUME NEW c \in Clusters, DeleteCluster(c) \/ Use(c) \/ Leave(c)
      PROVE  registry'[y] # "unused"
  BY <1>4 DEF DeleteCluster, Use, Leave, rows, TypeOK
<1>5. ASSUME NEW x \in Registries,
             (\E c \in Clusters : CreateRegistry(x, c)) \/ DeleteRegistry(x) \/ ObjectGone(x)
      PROVE  registry'[y] # "unused"
  BY <1>5 DEF CreateRegistry, DeleteRegistry, ObjectGone, rows, TypeOK
<1>6. CASE Release
  BY <1>6 DEF Release, PrereqRead, PrereqEnsure, PrereqFails, rows
<1>7. CASE Crash \/ UNCHANGED vars
  BY <1>7 DEF Crash, vars, rows
<1> QED BY <1>1, <1>2, <1>3, <1>4, <1>5, <1>6, <1>7 DEF Next

\* The homes of what a call has inserted are its own: nobody else is inserting a cluster,
\* and a registry that is created beside it has another id.
LEMMA HomesStayGiven ==
  ASSUME IInv, Given, [Next]_vars, NEW r \in Requests, add'[r].pc = "open",
         NEW x \in add'[r].of
  PROVE  home'[x] = add'[r].id
<1> TypeOK /\ LockedOnce
  BY DEF IInv
<1>1. CASE UNCHANGED <<add, home>>
  BY <1>1 DEF Given
<1>2. ASSUME NEW q \in Requests, AddCluster(q) PROVE home'[x] = add'[r].id
  <2>1. CASE AddInsert(q)
    BY <2>1 DEF AddInsert, LockedOnce, TypeOK
  <2>2. CASE ~AddInsert(q)
    <3>1. UNCHANGED home /\ (add'[r].pc = "open" => add'[r] = add[r])
      BY <1>2, <2>2 DEF AddCluster, AddBegin, AddRefused, AddCommit, AddRollback,
                        AddCommitUnknown, Compensate, NoAdd, rows, TypeOK
    <3> QED BY <3>1 DEF Given
  <2> QED BY <2>1, <2>2
<1>3. ASSUME NEW y \in Registries, NEW c \in Clusters, CreateRegistry(y, c)
      PROVE  home'[x] = add'[r].id
  BY <1>3 DEF CreateRegistry, Given, TypeOK
<1>4. CASE Crash
  BY <1>4 DEF Crash, NoAdd
<1>5. ASSUME NEW c \in Clusters,
             DeleteCluster(c) \/ Worker(c) \/ Controller(c) \/ Use(c) \/ Leave(c)
      PROVE  UNCHANGED <<add, home>>
  BY <1>5 DEF DeleteCluster, Worker, Step, Controller, Use, Leave, Execute, Fails, Remove,
  Running,
              Provision, Ensured, ProvisionFails, EachEnds, UnregisterCluster, DeleteRow,
              MirrorRead, MirrorWrite, Unchanged, rows
<1>6. ASSUME NEW y \in Registries, DeleteRegistry(y) \/ ObjectGone(y)
      PROVE  UNCHANGED <<add, home>>
  BY <1>6 DEF DeleteRegistry, ObjectGone, rows
<1>7. CASE Release \/ UNCHANGED vars
  BY <1>1, <1>7 DEF Release, PrereqRead, PrereqEnsure, PrereqFails, vars, rows
<1> QED BY <1>1, <1>2, <1>3, <1>4, <1>5, <1>6, <1>7 DEF Next

LEMMA LookedUp ==
  ASSUME IInv, [Next]_vars, NEW x \in prereq', x \notin prereq
  PROVE  registry[x] # "unused"
<1>1. ASSUME NEW c \in Clusters,
             DeleteCluster(c) \/ Worker(c) \/ Controller(c) \/ Use(c) \/ Leave(c)
      PROVE  UNCHANGED prereq
  BY <1>1 DEF DeleteCluster, Worker, Step, Controller, Use, Leave, Execute, Fails, Remove,
  Running,
              Provision, Ensured, ProvisionFails, EachEnds, UnregisterCluster, DeleteRow,
              MirrorRead, MirrorWrite, Unchanged
<1>2. ASSUME NEW r \in Requests, AddCluster(r) PROVE UNCHANGED prereq
  BY <1>2 DEF AddCluster, AddBegin, AddInsert, AddRefused, AddCommit, AddRollback,
              AddCommitUnknown, Compensate
<1>3. ASSUME NEW y \in Registries,
             (\E c \in Clusters : CreateRegistry(y, c)) \/ DeleteRegistry(y) \/ ObjectGone(y)
      PROVE  UNCHANGED prereq
  BY <1>3 DEF CreateRegistry, DeleteRegistry, ObjectGone
<1>4. CASE Release
  BY <1>4 DEF Release, PrereqRead, PrereqEnsure, PrereqFails, Row, States
<1>5. CASE Crash \/ UNCHANGED vars
  BY <1>5 DEF Crash, vars
<1> QED BY <1>1, <1>2, <1>3, <1>4, <1>5 DEF Next

LEMMA GivenInvariance == Spec => []Given
<1>1. Init => Given
  BY DEF Init, Given, NoAdd
<1>2. IInv /\ IInv' /\ Given /\ [Next]_vars => Given'
  <2> SUFFICES ASSUME IInv, IInv', Given, [Next]_vars PROVE Given'
    OBVIOUS
  <2>1. \A x \in prereq' : registry'[x] # "unused"
    BY KnownStays, LookedUp DEF Given, IInv, TypeOK
  <2> QED BY <2>1, HomesStayGiven DEF Given
<1> QED BY <1>1, <1>2, Invariance, PTL DEF Spec


-----------------------------------------------------------------------------
\* Where no row comes or goes, the inventory of registries is the same.
LEMMA SameRows ==
  ASSUME UNCHANGED home,
         \A x \in Registries : Row(x)' <=> Row(x),
         \A x \in Registries : ~Row(x) => registry'[x] = registry[x]
  PROVE  UNCHANGED <<Presence, Place>>
  BY DEF Presence, Place

LEMMA SameRegistries ==
  ASSUME UNCHANGED <<registry, home>>
  PROVE  UNCHANGED <<Presence, Place>>
  BY SameRows DEF Row

LEMMA SameStatus ==
  ASSUME NEW x, NEW s \in States, UpdateStatus(x, s), UNCHANGED home, TypeOK
  PROVE  UNCHANGED <<Presence, Place>>
  BY SameRows DEF UpdateStatus, Row, TypeOK, States

\* A step that only concerns copies, clients and states is not seen.
LEMMA InventoryQuiet ==
  ASSUME UNCHANGED <<cluster, object, used, Presence, Place>>
  PROVE  UNCHANGED Inventory!vars
  BY DEF Inventory!vars

\* What is there, in the words of either module.
LEMMA ThereIsRow ==
  ASSUME TypeOK, NEW x \in Registries
  PROVE  /\ Presence[x] = "there" <=> Row(x)
         /\ Presence[x] = "unused" <=> registry[x] = "unused"
         /\ Presence[x] = "gone" <=> registry[x] = "gone"
         /\ Presence[x] \in {"there", "unused", "gone"}
  BY DEF Presence, TypeOK, Row, States

LEMMA InventoryAdd ==
  ASSUME IInv, Given, NEW r \in Requests, AddCommit(r) \/ AddCommitUnknown(r)
  PROVE  Inventory!Next
<1> TypeOK /\ AddOK(r)
  BY DEF IInv
<1>1. PICK c \in Clusters : add[r].id = {c}
  BY DEF AddCommit, AddCommitUnknown, AddOK
<1>2. /\ add[r].of \in SUBSET Registries
      /\ \A x \in add[r].of : registry[x] = "unused" /\ home[x] = {c}
      /\ cluster[c] = "unused" /\ \A d \in Clusters : ~Exists(d)
  BY <1>1 DEF AddCommit, AddCommitUnknown, AddOK, Given, TypeOK
<1>3. /\ cluster' = [cluster EXCEPT ![c] = "live"]
      /\ registry' = [x \in Registries |-> IF x \in add[r].of THEN "Pending" ELSE registry[x]]
      /\ UNCHANGED <<home, object, used>>
  BY <1>1 DEF AddCommit, AddCommitUnknown, Inserted, TypeOK
<1>4. Inventory!Put(add[r].of, c)
  <2>1. \A x \in add[r].of : Presence[x] = "unused"
    BY <1>2, ThereIsRow
  <2>2. Presence' = [x \in Registries |-> IF x \in add[r].of THEN "there" ELSE Presence[x]]
    BY <1>3 DEF Presence, Row, States
  <2>3. Place' = [x \in Registries |-> IF x \in add[r].of THEN {c} ELSE Place[x]]
    BY <1>2, <1>3 DEF Place, Row, States
  <2> QED BY <2>1, <2>2, <2>3 DEF Inventory!Put
<1>5. Inventory!AddCluster(c, add[r].of)
  BY <1>2, <1>3, <1>4 DEF Inventory!AddCluster, Inventory!Exists, Exists
<1> QED BY <1>2, <1>5 DEF Inventory!Next

LEMMA InventoryWaste ==
  ASSUME IInv, NEW r \in Requests, AddRollback(r)
  PROVE  Inventory!Next
<1> TypeOK /\ AddOK(r)
  BY DEF IInv
<1>1. PICK c \in Clusters : add[r].id = {c}
  BY DEF AddRollback, AddOK
<1>2. /\ add[r].of \in SUBSET Registries
      /\ \A x \in add[r].of : registry[x] = "unused"
      /\ cluster[c] = "unused"
  BY <1>1 DEF AddRollback, AddOK, TypeOK
<1>3. /\ cluster' = [cluster EXCEPT ![c] = "gone"]
      /\ registry' = [x \in Registries |-> IF x \in add[r].of THEN "gone" ELSE registry[x]]
      /\ UNCHANGED <<home, object, used>>
  BY <1>1 DEF AddRollback, TypeOK
<1>4. /\ \A x \in add[r].of : Presence[x] = "unused"
      /\ Presence' = [x \in Registries |-> IF x \in add[r].of THEN "gone" ELSE Presence[x]]
      /\ Place' = Place
  <2>1. \A x \in add[r].of : Presence[x] = "unused"
    BY <1>2, ThereIsRow
  <2>2. Presence' = [x \in Registries |-> IF x \in add[r].of THEN "gone" ELSE Presence[x]]
    BY <1>3 DEF Presence, Row, States
  <2>3. Place' = Place
    BY <1>2, <1>3 DEF Place, Row, States
  <2> QED BY <2>1, <2>2, <2>3
<1>5. Inventory!Waste(c, add[r].of)
  BY <1>2, <1>3, <1>4 DEF Inventory!Waste
<1> QED BY <1>2, <1>5 DEF Inventory!Next

LEMMA InventoryOfAdding ==
  ASSUME IInv, Given, NEW r \in Requests, AddCluster(r)
  PROVE  [Inventory!Next]_(Inventory!vars)
<1> TypeOK
  BY DEF IInv
<1>1. CASE AddCommit(r) \/ AddCommitUnknown(r)
  BY <1>1, InventoryAdd
<1>2. CASE AddRollback(r)
  BY <1>2, InventoryWaste
<1>3. CASE AddBegin(r) \/ AddRefused(r) \/ Compensate(r)
  BY <1>3, SameRegistries, InventoryQuiet DEF AddBegin, AddRefused, Compensate, rows
<1>4. CASE AddInsert(r)
  <2>1. PICK x \in Registries : /\ registry[x] = "unused"
             /\ \E c : home' = [home EXCEPT ![x] = {c}]
                                /\ UNCHANGED <<cluster, registry, object, used>>
    BY <1>4 DEF AddInsert
  <2>2. UNCHANGED Presence
    BY <2>1 DEF Presence, Row
  <2>3. UNCHANGED Place
    BY <2>1 DEF Place, Row, States, TypeOK
  <2> QED BY <2>1, <2>2, <2>3, InventoryQuiet
<1> QED BY <1>1, <1>2, <1>3, <1>4 DEF AddCluster

-----------------------------------------------------------------------------
LEMMA InventoryOfCalls ==
  ASSUME IInv, NEW c \in Clusters, DeleteCluster(c) \/ Use(c) \/ Leave(c)
  PROVE  [Inventory!Next]_(Inventory!vars)
<1> TypeOK
  BY DEF IInv
<1>1. CASE DeleteCluster(c)
  <2>1. UNCHANGED <<Presence, Place>>
    BY <1>1, SameRows DEF DeleteCluster, On, Row, States, TypeOK
  <2>2. Inventory!DeleteCluster(c)
    BY <1>1, <2>1 DEF DeleteCluster, Inventory!DeleteCluster
  <2> QED BY <2>2 DEF Inventory!Next
<1>2. CASE Use(c)
  <2>1. Inventory!Use(c)
    BY <1>2, SameRegistries DEF Use, Inventory!Use, Exists, Inventory!Exists, rows
  <2> QED BY <2>1 DEF Inventory!Next
<1>3. CASE Leave(c)
  <2>1. Inventory!Leave(c)
    BY <1>3, SameRegistries DEF Leave, Inventory!Leave, rows
  <2> QED BY <2>1 DEF Inventory!Next
<1> QED BY <1>1, <1>2, <1>3

LEMMA InventoryOfRegistryCalls ==
  ASSUME IInv, NEW x \in Registries,
         (\E c \in Clusters : CreateRegistry(x, c)) \/ DeleteRegistry(x) \/ ObjectGone(x)
  PROVE  [Inventory!Next]_(Inventory!vars)
<1> TypeOK
  BY DEF IInv
<1>1. ASSUME NEW c \in Clusters, CreateRegistry(x, c) PROVE Inventory!Next
  <2>1. Presence[x] = "unused"
    BY <1>1, ThereIsRow DEF CreateRegistry
  <2>2. Presence' = [y \in Registries |-> IF y \in {x} THEN "there" ELSE Presence[y]]
    BY <1>1 DEF CreateRegistry, Presence, Row, States, TypeOK
  <2>3. Place' = [y \in Registries |-> IF y \in {x} THEN {c} ELSE Place[y]]
    BY <1>1 DEF CreateRegistry, Place, Row, States, TypeOK
  <2>4. Inventory!Put({x}, c)
    BY <2>1, <2>2, <2>3 DEF Inventory!Put
  <2>5. Inventory!AddRegistry(x, c)
    BY <1>1, <2>4 DEF CreateRegistry, Inventory!AddRegistry, Exists, Inventory!Exists
  <2> QED BY <2>5 DEF Inventory!Next
<1>2. CASE DeleteRegistry(x)
  <2>1. UNCHANGED <<Presence, Place>>
    BY <1>2, SameRows DEF DeleteRegistry, Row, States, TypeOK
  <2> QED BY <1>2, <2>1, InventoryQuiet DEF DeleteRegistry
<1>3. CASE ObjectGone(x)
  <2>1. Inventory!Gone(x)
    BY <1>3, SameRegistries DEF ObjectGone, Inventory!Gone, rows
  <2> QED BY <2>1 DEF Inventory!Next
<1> QED BY <1>1, <1>2, <1>3

\* Ensure makes an object where there is none, for a registry that is, or for a release.
LEMMA InventoryOfEnsure ==
  ASSUME TypeOK, NEW x \in Registries, NEW who \in {"worker", "release"}, Ensure(x, who),
         Row(x) \/ (who = "release" /\ registry[x] # "unused"),
         UNCHANGED <<registry, home, cluster, used>>
  PROVE  [Inventory!Next]_(Inventory!vars)
<1>1. UNCHANGED <<Presence, Place>>
  BY SameRegistries
<1>2. CASE object[x].is = "absent"
  <2>1. Presence[x] = "there" \/ (who = "release" /\ Presence[x] = "gone")
    BY ThereIsRow
  <2>2. Inventory!Make(x, who)
    BY <1>1, <1>2, <2>1 DEF Ensure, Inventory!Make
  <2> QED BY <2>2 DEF Inventory!Next
<1>3. CASE object[x].is # "absent"
  BY <1>1, <1>3, InventoryQuiet DEF Ensure
<1> QED BY <1>2, <1>3

LEMMA InventoryOfRemove ==
  ASSUME IInv, NEW c \in Clusters, NEW x \in Registries, Remove(c, x)
  PROVE  [Inventory!Next]_(Inventory!vars)
<1> TypeOK
  BY DEF IInv
<1>1. Row(x)
  BY DEF Remove, IInv, ExecOK
<1>2. UNCHANGED <<cluster, home, used>>
  BY DEF Remove, Unchanged
<1>3. CASE object[x].is = "absent"
  <2>1. UNCHANGED object /\ registry' = [registry EXCEPT ![x] = "gone"]
    BY <1>1, <1>3 DEF Remove
  <2>2. Presence' = [Presence EXCEPT ![x] = "gone"]
    BY <2>1 DEF Presence, Row, States, TypeOK
  <2>3. Place' = [Place EXCEPT ![x] = {}]
    BY <1>2, <2>1 DEF Place, Row, States, TypeOK
  <2>4. Inventory!DropRegistry(x)
    BY <1>1, <1>2, <1>3, <2>1, <2>2, <2>3, ThereIsRow DEF Inventory!DropRegistry
  <2> QED BY <2>4 DEF Inventory!Next
<1>4. CASE object[x].is = "present"
  <2>1. object' = [object EXCEPT ![x].is = "terminating"] /\ UNCHANGED registry
    BY <1>4 DEF Remove
  <2>2. Inventory!TakeDown(x)
    BY <1>1, <1>2, <1>4, <2>1, SameRegistries, ThereIsRow DEF Inventory!TakeDown
  <2> QED BY <2>2 DEF Inventory!Next
<1>5. CASE object[x].is = "terminating"
  <2>1. UNCHANGED <<object, registry>>
    BY <1>5 DEF Remove
  <2> QED BY <1>2, <2>1, SameRegistries, InventoryQuiet
<1>6. object[x].is \in {"absent", "present", "terminating"}
  BY DEF TypeOK
<1> QED BY <1>3, <1>4, <1>5, <1>6

LEMMA InventoryOfDeleteRow ==
  ASSUME IInv, NEW c \in Clusters, DeleteRow(c)
  PROVE  [Inventory!Next]_(Inventory!vars)
<1> TypeOK
  BY DEF IInv
<1>1. cluster[c] \in {"deleting", "gone"}
  BY DEF DeleteRow, IInv, ExecOK
<1>2. UNCHANGED <<registry, home, object, used>>
  BY DEF DeleteRow, Unchanged
<1>3. CASE UNCHANGED cluster
  BY <1>2, <1>3, SameRegistries, InventoryQuiet
<1>4. CASE cluster' # cluster
  <2>1. c \notin used /\ On(c) = {} /\ cluster' = [cluster EXCEPT ![c] = "gone"]
    BY <1>4 DEF DeleteRow
  <2>2. cluster[c] = "deleting"
    BY <1>1, <1>4, <2>1 DEF TypeOK
  <2>3. \A x \in Registries : Place[x] # {c}
    BY <2>1 DEF On, Place
  <2>4. Inventory!DropCluster(c)
    BY <1>2, <2>1, <2>2, <2>3, SameRegistries DEF Inventory!DropCluster
  <2> QED BY <2>4 DEF Inventory!Next
<1> QED BY <1>3, <1>4

LEMMA InventoryOfWorker ==
  ASSUME IInv, NEW c \in Clusters, Worker(c)
  PROVE  [Inventory!Next]_(Inventory!vars)
<1> TypeOK
  BY DEF IInv
<1>1. CASE Execute(c) \/ Fails(c) \/ EachEnds(c) \/ UnregisterCluster(c)
  BY <1>1, SameRegistries, InventoryQuiet
  DEF Execute, Fails, EachEnds, UnregisterCluster, Unchanged, rows
<1>2. CASE DeleteRow(c)
  BY <1>2, InventoryOfDeleteRow
<1>3. ASSUME NEW x \in Registries, Remove(c, x) PROVE [Inventory!Next]_(Inventory!vars)
  BY <1>3, InventoryOfRemove
<1>4. ASSUME NEW x \in Registries, Running(c, x) PROVE [Inventory!Next]_(Inventory!vars)
  BY <1>4, SameRegistries, InventoryQuiet DEF Running, Unchanged, rows
<1>5. ASSUME NEW x \in Registries, Provision(c, x) PROVE [Inventory!Next]_(Inventory!vars)
  <2>1. Row(x)
    BY <1>5 DEF Provision, IInv, ExecOK
  <2> QED BY <1>5, <2>1, InventoryOfEnsure DEF Provision, Unchanged, rows
<1>6. ASSUME NEW x \in Registries, Ensured(c, x) \/ ProvisionFails(c, x)
      PROVE  [Inventory!Next]_(Inventory!vars)
  <2>1. UNCHANGED <<Presence, Place>>
    BY <1>6, SameStatus DEF Ensured, ProvisionFails, States
  <2> QED BY <1>6, <2>1, InventoryQuiet DEF Ensured, ProvisionFails, Unchanged
<1> QED BY <1>1, <1>2, <1>3, <1>4, <1>5, <1>6 DEF Worker, Step

LEMMA InventoryOfController ==
  ASSUME IInv, NEW c \in Clusters, Controller(c)
  PROVE  [Inventory!Next]_(Inventory!vars)
<1> TypeOK
  BY DEF IInv
<1>1. CASE MirrorWrite(c)
  <2>1. PICK m \in mirror[c] : UpdateStatus(m[1], m[2])
    BY <1>1 DEF MirrorWrite
  <2>2. m[2] \in States
    BY PhasesAssumption DEF TypeOK
  <2>3. UNCHANGED <<Presence, Place>>
    BY <1>1, <2>1, <2>2, SameStatus DEF MirrorWrite
  <2> QED BY <1>1, <2>3, InventoryQuiet DEF MirrorWrite
<1>2. CASE \E x \in Registries, phase \in Phases : MirrorRead(c, x, phase)
  BY <1>2, SameRegistries, InventoryQuiet DEF MirrorRead, rows
<1> QED BY <1>1, <1>2 DEF Controller

LEMMA InventoryOfRelease ==
  ASSUME IInv, Given, Release
  PROVE  [Inventory!Next]_(Inventory!vars)
<1> TypeOK
  BY DEF IInv
<1>1. CASE PrereqEnsure
  <2>1. PICK x \in prereq : Ensure(x, "release")
    BY <1>1 DEF PrereqEnsure
  <2>2. x \in Registries /\ registry[x] # "unused"
    BY DEF Given, TypeOK
  <2> QED BY <1>1, <2>1, <2>2, InventoryOfEnsure DEF PrereqEnsure, rows
<1>2. CASE (\E x \in Registries : PrereqRead(x)) \/ PrereqFails
  BY <1>2, SameRegistries, InventoryQuiet DEF PrereqRead, PrereqFails, rows
<1> QED BY <1>1, <1>2 DEF Release

LEMMA StepOfInventory ==
  ASSUME IInv, Given, [Next]_vars
  PROVE  [Inventory!Next]_(Inventory!vars)
<1>1. CASE Crash \/ UNCHANGED vars
  BY <1>1, SameRegistries, InventoryQuiet DEF Crash, vars, rows
<1> QED BY <1>1, InventoryOfAdding, InventoryOfCalls, InventoryOfRegistryCalls,
           InventoryOfWorker, InventoryOfController, InventoryOfRelease
    DEF Next

\* For any clusters, registries and calls, what the calls, the worker, the controller and
\* releases do on copies that may be old, and wherever the hub stops, comes to steps of
\* ClusterInventory: one cluster at a time, rows that outlive their objects, nothing that
\* comes back.
THEOREM InventoryImplemented == Spec => ImplementsInventory
<1>1. Init => Inventory!Init
  BY DEF Init, Inventory!Init, Presence, Place, Row, States
<1>2. IInv /\ Given /\ [Next]_vars => [Inventory!Next]_(Inventory!vars)
  BY StepOfInventory
<1>3. Spec => Inventory!Spec
  BY <1>1, <1>2, Invariance, GivenInvariance, PTL DEF Spec, Inventory!Spec
<1> QED BY <1>3 DEF ImplementsInventory


-----------------------------------------------------------------------------
\* Of ClusterInventory alone: NothingDangles with what it needs of types.
InventoryInv ==
  /\ cluster \in [Clusters -> {"unused", "live", "deleting", "gone"}]
  /\ Presence \in [Registries -> {"unused", "there", "gone"}]
  /\ Place \in [Registries -> SUBSET Clusters]
  /\ object \in [Registries -> [is : {"absent", "present", "terminating"},
                              by : {"worker", "release"}]]
  /\ used \subseteq Clusters
  /\ Inventory!NothingDangles

LEMMA InventoryRowsKeep ==
  ASSUME InventoryInv, NEW c \in Clusters,
         \/ \E new \in SUBSET Registries : Inventory!AddCluster(c, new)
            \/ Inventory!Waste(c, new)
         \/ \E x \in Registries : Inventory!AddRegistry(x, c)
         \/ Inventory!DeleteCluster(c) \/ Inventory!DropCluster(c)
         \/ Inventory!Use(c) \/ Inventory!Leave(c)
  PROVE  InventoryInv'
<1> USE DEF InventoryInv, Inventory!NothingDangles, Inventory!Exists
<1>1. ASSUME NEW new \in SUBSET Registries, Inventory!AddCluster(c, new) PROVE InventoryInv'
  BY <1>1 DEF Inventory!AddCluster, Inventory!Put
<1>2. ASSUME NEW new \in SUBSET Registries, Inventory!Waste(c, new) PROVE InventoryInv'
  BY <1>2 DEF Inventory!Waste
<1>3. ASSUME NEW x \in Registries, Inventory!AddRegistry(x, c) PROVE InventoryInv'
  BY <1>3 DEF Inventory!AddRegistry, Inventory!Put
<1>4. CASE Inventory!DeleteCluster(c)
  BY <1>4 DEF Inventory!DeleteCluster
<1>5. CASE Inventory!DropCluster(c)
  BY <1>5 DEF Inventory!DropCluster
<1>6. CASE Inventory!Use(c) \/ Inventory!Leave(c)
  BY <1>6 DEF Inventory!Use, Inventory!Leave
<1> QED BY <1>1, <1>2, <1>3, <1>4, <1>5, <1>6

LEMMA InventoryObjectsKeep ==
  ASSUME InventoryInv, NEW x \in Registries,
         \/ Inventory!DropRegistry(x) \/ Inventory!TakeDown(x) \/ Inventory!Gone(x)
         \/ \E who \in {"worker", "release"} : Inventory!Make(x, who)
  PROVE  InventoryInv'
<1> USE DEF InventoryInv, Inventory!NothingDangles, Inventory!Exists
<1>1. CASE Inventory!DropRegistry(x)
  BY <1>1 DEF Inventory!DropRegistry
<1>2. CASE Inventory!TakeDown(x) \/ Inventory!Gone(x)
  <2>1. PICK is \in {"absent", "terminating"} :
          /\ object' = [object EXCEPT ![x].is = is]
          /\ object[x].is # "absent"
          /\ UNCHANGED <<cluster, used, Presence, Place>>
    BY <1>2 DEF Inventory!TakeDown, Inventory!Gone
  <2>2. \A y \in Registries : object'[y].is # "absent" =>
            object[y].is # "absent" /\ object'[y].by = object[y].by
    BY <2>1
  <2>3. object' \in [Registries -> [is : {"absent", "present", "terminating"},
                                   by : {"worker", "release"}]]
    BY <2>1
  <2> QED BY <2>1, <2>2, <2>3
<1>3. CASE \E who \in {"worker", "release"} : Inventory!Make(x, who)
  BY <1>3 DEF Inventory!Make
<1> QED BY <1>1, <1>2, <1>3

\* No cluster goes while a stack, an addon or a registry is on it, and no registry while
\* what the worker made of it is still there. This holds of ClusterInventory, and so of
\* what implements it.
THEOREM DanglesNowhere == Spec => []Inventory!NothingDangles
<1>1. Inventory!Init => InventoryInv
  BY DEF Inventory!Init, InventoryInv, Inventory!NothingDangles
<1>2. InventoryInv /\ [Inventory!Next]_(Inventory!vars) => InventoryInv'
  <2>1. CASE UNCHANGED Inventory!vars
    BY <2>1 DEF Inventory!vars, InventoryInv, Inventory!NothingDangles, Inventory!Exists
  <2> QED BY <2>1, InventoryRowsKeep, InventoryObjectsKeep DEF Inventory!Next
<1>3. InventoryInv => Inventory!NothingDangles
  BY DEF InventoryInv
<1>4. Spec => Inventory!Spec
  BY InventoryImplemented DEF ImplementsInventory
<1> QED BY <1>1, <1>2, <1>3, <1>4, PTL DEF Inventory!Spec

=============================================================================
