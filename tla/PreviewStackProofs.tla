------------------------ MODULE PreviewStackProofs ------------------------
(***************************************************************************)
(* Proof that IInv is an invariant of PreviewStack, for every number of    *)
(* pull requests, requests, previews, stacks and releases.                 *)
(***************************************************************************)
EXTENDS PreviewStack, TLAPS

db == <<config, pr, row, stack, release>>

\* The part of IInv that speaks of the database alone.
DbOK ==
  /\ config \in BOOLEAN
  /\ pr \in [Previews -> PRs \cup {0}]
  /\ row \in [Previews -> Rows]
  /\ stack \in [Stacks -> StackRows]
  /\ release \in [Releases -> ReleaseRows]
  /\ \A i \in Previews : RowOK(i)
  /\ \A s \in Stacks : StackOK(s)
  /\ NamesUnique
  /\ ReadyIsReleased
  /\ StackKept

ExecsOK ==
  /\ exec \in [Previews -> Executions]
  /\ \A i \in Previews : ExecOK(i, exec[i])

RequestsOK ==
  /\ request \in [Requests -> RequestStates]
  /\ \A h \in Requests : RequestOK(request[h])

LEMMA IInvParts == IInv <=> DbOK /\ ExecsOK /\ RequestsOK
  BY DEF IInv, TypeOK, DbOK, ExecsOK, RequestsOK

LEMMA IInvNext == IInv' <=> DbOK' /\ ExecsOK' /\ RequestsOK'
  BY DEF IInv, TypeOK, DbOK, ExecsOK, RequestsOK

LEMMA ZeroIsNoId == 0 \notin Previews /\ 0 \notin Stacks /\ 0 \notin Releases
  BY BoundsAssumption DEF Previews, Stacks, Releases

-----------------------------------------------------------------------------
(***************************************************************************)
(* Steps that leave the database alone.                                    *)
(***************************************************************************)
LEMMA DbStays == ASSUME DbOK, UNCHANGED db PROVE DbOK'
  BY DEF DbOK, db, RowOK, CopyOK, StackOK, NamesUnique, ReadyIsReleased, StackKept,
         Present, Exists

\* A step of the execution of i that only changes its copy and where it is.
LEMMA ExecStep ==
  ASSUME IInv, UNCHANGED <<db, request>>, NEW i \in Previews,
         NEW e \in Executions, ExecOK(i, e), exec' = [exec EXCEPT ![i] = e]
  PROVE  IInv'
<1>1. DbOK' /\ UNCHANGED <<pr, stack, release>>
  BY IInvParts, DbStays DEF db
<1>2. exec' \in [Previews -> Executions]
  BY IInvParts DEF ExecsOK
<1>3. ASSUME NEW j \in Previews PROVE ExecOK(j, exec[j])'
  <2>1. exec'[j] = IF j = i THEN e ELSE exec[j]
    BY IInvParts DEF ExecsOK
  <2>2. ExecOK(j, exec'[j])
    BY <2>1, IInvParts DEF ExecsOK
  <2> QED
    BY <1>1, <2>2 DEF ExecOK, CopyOK, Present
<1>4. RequestsOK'
  BY <1>1, IInvParts DEF RequestsOK, RequestOK, CopyOK, Present
<1> QED
  BY <1>1, <1>2, <1>3, <1>4, IInvNext DEF ExecsOK

\* A step of the request h that only changes what it is about to do.
LEMMA RequestStep ==
  ASSUME IInv, UNCHANGED <<db, exec>>, NEW h \in Requests,
         NEW q \in RequestStates, RequestOK(q), request' = [request EXCEPT ![h] = q]
  PROVE  IInv'
<1>1. DbOK' /\ UNCHANGED <<pr, stack, release>>
  BY IInvParts, DbStays DEF db
<1>2. ExecsOK'
  BY <1>1, IInvParts DEF ExecsOK, ExecOK, CopyOK, Present
<1>3. request' \in [Requests -> RequestStates]
  BY IInvParts DEF RequestsOK
<1>4. ASSUME NEW g \in Requests PROVE RequestOK(request[g])'
  <2>1. request'[g] = IF g = h THEN q ELSE request[g]
    BY IInvParts DEF RequestsOK
  <2>2. RequestOK(request'[g])
    BY <2>1, IInvParts DEF RequestsOK
  <2> QED
    BY <1>1, <2>2 DEF RequestOK, CopyOK, Present
<1> QED
  BY <1>1, <1>2, <1>3, <1>4, IInvNext DEF RequestsOK

-----------------------------------------------------------------------------
(***************************************************************************)
(* Steps on the database.  What a copy says stays true as long as stacks   *)
(* keep their owner and do not come back, and releases keep their stack    *)
(* and, while it is there, the outcome Released.                           *)
(***************************************************************************)
Stable ==
  /\ \A s \in Stacks : stack[s].owner # 0 =>
       stack'[s].owner = stack[s].owner /\ (Present(s)' => Present(s))
  /\ \A r \in Releases : release[r].stack # 0 =>
       /\ release'[r].stack = release[r].stack
       /\ release[r].state = "Released" /\ Present(release[r].stack)'
            => release'[r].state = "Released"

LEMMA CopyStays ==
  ASSUME Stable, NEW i \in Previews, NEW copy \in Rows, CopyOK(i, copy)
  PROVE  CopyOK(i, copy)'
<1>1. /\ copy.stack \in Stacks \cup {0} /\ copy.release \in Releases \cup {0}
      /\ 0 \notin Previews
  BY ZeroIsNoId DEF Rows
<1> QED
  BY <1>1 DEF CopyOK, Stable, Present

\* No stack of i appears.
NoneFor(i) ==
  \A s \in Stacks : Present(s)' /\ stack'[s].owner = i => Present(s) /\ stack[s].owner = i

LEMMA ExecStays ==
  ASSUME Stable, NEW i \in Previews, NoneFor(i), NEW e \in Executions, ExecOK(i, e)
  PROVE  ExecOK(i, e)'
<1>1. e.copy \in Rows
  BY DEF Executions
<1> QED
  BY <1>1, CopyStays DEF ExecOK, NoneFor

LEMMA RequestStays ==
  ASSUME Stable, NEW q \in RequestStates, RequestOK(q) PROVE RequestOK(q)'
<1>1. q.copy \in Rows /\ q.id \in Previews \cup {0}
  BY DEF RequestStates
<1> QED
  BY <1>1, CopyStays DEF RequestOK

LEMMA IdleOK == \A i \in Previews : Idle \in Executions /\ ExecOK(i, Idle)
  BY DEF Idle, Executions, Rows, NoRow, ExecOK

LEMMA NoRequestOK == NoRequest \in RequestStates /\ RequestOK(NoRequest)
  BY DEF NoRequest, RequestStates, Rows, NoRow, RequestOK

LEMMA AllRequestsStay ==
  ASSUME IInv, Stable, NEW h \in Requests, request'[h] = request[h]
  PROVE  RequestOK(request[h])'
<1>1. PICK q \in RequestStates : q = request[h] /\ q = request'[h] /\ RequestOK(q)
  BY IInvParts DEF RequestsOK
<1>2. RequestOK(q)'
  BY <1>1, RequestStays
<1> QED
  BY <1>1, <1>2 DEF RequestOK, CopyOK, Present

LEMMA AllExecsStay ==
  ASSUME IInv, Stable, NEW i \in Previews, NoneFor(i), exec'[i] = exec[i]
  PROVE  ExecOK(i, exec[i])'
<1>1. PICK e \in Executions : e = exec[i] /\ e = exec'[i] /\ ExecOK(i, e)
  BY IInvParts DEF ExecsOK
<1>2. ExecOK(i, e)'
  BY <1>1, ExecStays
<1> QED
  BY <1>1, <1>2 DEF ExecOK, CopyOK, Present

\* A step of the worker on the database that ends the execution of i.
LEMMA WorkerDbStep ==
  ASSUME IInv, DbOK', Stable, UNCHANGED request,
         NEW i \in Previews, exec' = [exec EXCEPT ![i] = Idle],
         \A j \in Previews \ {i} : NoneFor(j)
  PROVE  IInv'
<1>1. exec' \in [Previews -> Executions]
  BY IdleOK, IInvParts DEF ExecsOK
<1>2. ASSUME NEW j \in Previews PROVE ExecOK(j, exec[j])'
  <2>1. exec'[j] = IF j = i THEN Idle ELSE exec[j]
    BY IInvParts DEF ExecsOK
  <2> QED
    BY <2>1, AllExecsStay DEF ExecOK, Idle
<1>3. RequestsOK'
  BY AllRequestsStay, IInvParts DEF RequestsOK
<1> QED
  BY <1>1, <1>2, <1>3, IInvNext DEF ExecsOK

\* A step of the request h on the database, which ends it.
LEMMA HandlerDbStep ==
  ASSUME IInv, DbOK', Stable, UNCHANGED exec, NEW h \in Requests, Answer(h),
         \A j \in Previews : NoneFor(j)
  PROVE  IInv'
<1>1. request' = [request EXCEPT ![h] = NoRequest]
  BY DEF Answer
<1>2. request' \in [Requests -> RequestStates]
  BY <1>1, NoRequestOK, IInvParts DEF RequestsOK
<1>3. ASSUME NEW g \in Requests PROVE RequestOK(request[g])'
  <2>1. request'[g] = IF g = h THEN NoRequest ELSE request[g]
    BY <1>1, IInvParts DEF RequestsOK
  <2> QED
    BY <2>1, AllRequestsStay DEF RequestOK, NoRequest
<1>4. ExecsOK'
  BY AllExecsStay, IInvParts DEF ExecsOK
<1> QED
  BY <1>2, <1>3, <1>4, IInvNext DEF RequestsOK

\* A step of another part of the program on the database.
LEMMA OtherDbStep ==
  ASSUME IInv, DbOK', Stable, UNCHANGED <<exec, request>>, \A j \in Previews : NoneFor(j)
  PROVE  IInv'
<1>1. ExecsOK'
  BY AllExecsStay, IInvParts DEF ExecsOK
<1>2. RequestsOK'
  BY AllRequestsStay, IInvParts DEF RequestsOK
<1> QED
  BY <1>1, <1>2, IInvNext

-----------------------------------------------------------------------------
(***************************************************************************)
(* The actions that leave the database alone.                              *)
(***************************************************************************)
LEMMA CreateReadStep ==
  ASSUME IInv, NEW h \in Requests, NEW p \in PRs, NEW c \in Commits, CreateRead(h, p, c)
  PROVE  IInv'
<1> DEFINE copy == [NoRow EXCEPT !.phase = "Provisioning", !.commit = c]
           q    == [pc |-> "insert", pr |-> p, id |-> 0, copy |-> copy]
<1>1. copy \in Rows
  BY DEF Rows, NoRow, Phases
<1>2. q \in RequestStates
  BY <1>1 DEF RequestStates
<1>3. RequestOK(q)
  BY PRsAssumption DEF RequestOK, NoRow
<1>4. UNCHANGED <<db, exec>> /\ request' = [request EXCEPT ![h] = q]
  BY DEF CreateRead, db
<1> QED
  BY <1>2, <1>3, <1>4, RequestStep

LEMMA SaveLaterStep ==
  ASSUME IInv, UNCHANGED <<db, exec>>, NEW h \in Requests, NEW i \in Previews, NEW copy \in Rows,
         copy.deleting \/ copy.stack # 0, copy.phase \in {"Provisioning", "Deleting"},
         copy.stack = row[i].stack, copy.release = row[i].release,
         request' = [request EXCEPT ![h] = [pc |-> "save", pr |-> pr[i], id |-> i, copy |-> copy]]
  PROVE  IInv'
<1> DEFINE q == [pc |-> "save", pr |-> pr[i], id |-> i, copy |-> copy]
<1>1. q \in RequestStates
  BY IInvParts DEF DbOK, RequestStates
<1>2. CopyOK(i, row[i])
  BY IInvParts DEF DbOK, RowOK
<1>3. RequestOK(q)
  BY <1>2, ZeroIsNoId DEF RequestOK, CopyOK
<1> QED
  BY <1>1, <1>3, RequestStep

LEMMA SyncReadStep ==
  ASSUME IInv, NEW h \in Requests, NEW i \in Previews, NEW c \in Commits,
         NEW force \in BOOLEAN, SyncRead(h, i, c, force)
  PROVE  IInv'
<1>1. row[i] \in Rows
  BY IInvParts DEF DbOK
<1>2. /\ SyncedCopy(i, c, force) \in Rows
      /\ SyncedCopy(i, c, force).phase = "Provisioning"
      /\ SyncedCopy(i, c, force).stack = row[i].stack
      /\ SyncedCopy(i, c, force).release = row[i].release
  BY <1>1 DEF SyncedCopy, Rows, Phases
<1> QED
  BY <1>2, SaveLaterStep DEF SyncRead, db

LEMMA DeleteReadStep ==
  ASSUME IInv, NEW h \in Requests, NEW i \in Previews, DeleteRead(h, i)
  PROVE  IInv'
<1> DEFINE copy == [row[i] EXCEPT !.phase = "Deleting", !.deleting = TRUE]
<1>1. row[i] \in Rows
  BY IInvParts DEF DbOK
<1>2. /\ copy \in Rows /\ copy.deleting /\ copy.phase = "Deleting"
      /\ copy.stack = row[i].stack /\ copy.release = row[i].release
  BY <1>1 DEF Rows, Phases
<1> QED
  BY <1>2, SaveLaterStep DEF DeleteRead, db

LEMMA DropReadStep == ASSUME IInv, NEW h \in Requests, DropRead(h) PROVE IInv'
<1> DEFINE q == [NoRequest EXCEPT !.pc = "drop"]
<1>1. q \in RequestStates /\ RequestOK(q)
  BY NoRequestOK DEF NoRequest, RequestStates, RequestOK
<1> QED
  BY <1>1, RequestStep DEF DropRead, db

LEMMA AbortRequestStep == ASSUME IInv, NEW h \in Requests, AbortRequest(h) PROVE IInv'
  BY NoRequestOK, RequestStep DEF AbortRequest, Answer, db

LEMMA LoadStep == ASSUME IInv, NEW i \in Previews, Load(i) PROVE IInv'
<1> DEFINE e == [pc |-> IF row[i].deleting THEN "deprovision" ELSE "provision", copy |-> row[i]]
<1>1. row[i] \in Rows /\ CopyOK(i, row[i]) /\ Exists(i)
  BY IInvParts DEF DbOK, RowOK, Load
<1>2. e \in Executions
  BY <1>1 DEF Executions
<1>3. ~row[i].deleting => \A s \in Stacks : Present(s) /\ stack[s].owner = i => row[i].stack = s
  BY <1>1, IInvParts DEF DbOK, StackKept
<1>4. ExecOK(i, e)
  BY <1>1, <1>3 DEF ExecOK
<1> QED
  BY <1>2, <1>4, ExecStep DEF Load, db

\* Saving a copy that has ended the preview, one way or the other.
LEMMA ThenSaveStep ==
  ASSUME IInv, UNCHANGED <<db, request>>, NEW i \in Previews,
         exec[i].pc \in {"provision", "converge"}, NEW copy \in Rows, ThenSave(i, copy),
         copy.stack = exec[i].copy.stack, copy.release = exec[i].copy.release,
         copy.deleting = exec[i].copy.deleting, CopyOK(i, copy)
  PROVE  IInv'
<1> DEFINE e == [pc |-> "save", copy |-> copy]
<1>1. e \in Executions /\ ExecOK(i, exec[i])
  BY IInvParts DEF Executions, ExecsOK
<1>2. ExecOK(i, e)
  BY <1>1 DEF ExecOK
<1> QED
  BY <1>1, <1>2, ExecStep DEF ThenSave

LEMMA WorkingCopy ==
  ASSUME IInv, NEW i \in Previews
  PROVE  exec[i] \in Executions /\ exec[i].copy \in Rows /\ ExecOK(i, exec[i])
  BY IInvParts DEF ExecsOK, Executions

LEMMA FailingStep ==
  ASSUME IInv, UNCHANGED <<db, request>>, NEW i \in Previews,
         exec[i].pc \in {"provision", "converge"}, ThenSave(i, Failing(exec[i].copy))
  PROVE  IInv'
<1> DEFINE copy == Failing(exec[i].copy)
<1>1. /\ copy \in Rows /\ copy.phase = "Failed" /\ copy.stack = exec[i].copy.stack
      /\ copy.release = exec[i].copy.release /\ copy.deleting = exec[i].copy.deleting
  BY WorkingCopy DEF Failing, Rows, Phases
<1>2. CopyOK(i, exec[i].copy)
  BY WorkingCopy DEF ExecOK
<1>3. CopyOK(i, copy)
  BY <1>1, <1>2 DEF CopyOK
<1> QED
  BY <1>1, <1>3, ThenSaveStep

LEMMA ProvisionFailsStep ==
  ASSUME IInv, NEW i \in Previews, ProvisionFails(i) PROVE IInv'
  BY FailingStep DEF ProvisionFails, At, db

LEMMA UpToDateStep == ASSUME IInv, NEW i \in Previews, UpToDate(i) PROVE IInv'
<1> DEFINE e == [exec[i] EXCEPT !.pc = "converge"]
<1>1. e \in Executions
  BY WorkingCopy DEF Executions
<1>2. ExecOK(i, e)
  BY WorkingCopy DEF ExecOK, UpToDate, At, Executions
<1>3. exec' = [exec EXCEPT ![i] = e]
  BY DEF UpToDate, Goto
<1> QED
  BY <1>1, <1>2, <1>3, ExecStep DEF UpToDate, db

\* Ready is saved only behind a look at a release that is Released.
LEMMA ConvergeStep == ASSUME IInv, NEW i \in Previews, Converge(i) PROVE IInv'
<1> DEFINE copy == exec[i].copy
<1>1. /\ copy \in Rows /\ CopyOK(i, copy) /\ ~copy.deleting /\ ~NeedsRelease(copy)
      /\ exec[i].pc = "converge" /\ copy.release # 0
  BY WorkingCopy DEF ExecOK, Converge, At
<1>2. UNCHANGED <<db, request>>
  BY DEF Converge, db
<1>3. ASSUME release[copy.release].state = "Released", NEW p \in BOOLEAN,
             ThenSave(i, [copy EXCEPT !.phase = "Ready", !.pending = p])
      PROVE  IInv'
  <2> DEFINE next == [copy EXCEPT !.phase = "Ready", !.pending = p]
  <2>1. /\ next \in Rows /\ next.stack = copy.stack /\ next.release = copy.release
        /\ next.deleting = copy.deleting /\ next.commit = copy.commit
        /\ next.applied = copy.applied /\ next.force = copy.force
    BY <1>1 DEF Rows, Phases
  <2>2. CopyOK(i, next)
    BY <1>1, <1>3, <2>1 DEF CopyOK, NeedsRelease, NeedsUpdate
  <2> QED
    BY <1>1, <1>2, <1>3, <2>1, <2>2, ThenSaveStep
<1>4. ASSUME ThenSave(i, [copy EXCEPT !.pending = FALSE]) PROVE IInv'
  <2> DEFINE next == [copy EXCEPT !.pending = FALSE]
  <2>1. /\ next \in Rows /\ next.stack = copy.stack /\ next.release = copy.release
        /\ next.deleting = copy.deleting /\ next.commit = copy.commit
        /\ next.applied = copy.applied /\ next.force = copy.force /\ next.phase = copy.phase
    BY <1>1 DEF Rows
  <2>2. CopyOK(i, next)
    BY <1>1, <2>1 DEF CopyOK
  <2> QED
    BY <1>1, <1>2, <1>4, <2>1, <2>2, ThenSaveStep
<1>5. ASSUME NEW p \in BOOLEAN, ThenSave(i, [copy EXCEPT !.phase = "Failed", !.pending = p])
      PROVE  IInv'
  <2> DEFINE next == [copy EXCEPT !.phase = "Failed", !.pending = p]
  <2>1. /\ next \in Rows /\ next.stack = copy.stack /\ next.release = copy.release
        /\ next.deleting = copy.deleting /\ next.phase = "Failed"
    BY <1>1 DEF Rows, Phases
  <2>2. CopyOK(i, next)
    BY <1>1, <2>1 DEF CopyOK
  <2> QED
    BY <1>1, <1>2, <1>5, <2>1, <2>2, ThenSaveStep
<1>6. ASSUME ThenSave(i, Failing(copy)) PROVE IInv'
  BY <1>1, <1>2, <1>6, FailingStep
<1> QED
  BY <1>3, <1>4, <1>5, <1>6 DEF Converge

LEMMA GiveUpStep == ASSUME IInv, NEW i \in Previews, GiveUp(i) PROVE IInv'
  BY IdleOK, ExecStep DEF GiveUp, Return, db

-----------------------------------------------------------------------------
(***************************************************************************)
(* The actions that save a row.                                            *)
(***************************************************************************)
\* Any copy with a stack of its own may be saved over a row: no other stack was
\* made for that preview.
LEMMA UpdateStep ==
  ASSUME DbOK, UNCHANGED <<config, pr, stack, release>>, NEW i \in Previews, NEW copy \in Rows,
         Update(i, copy), CopyOK(i, copy),
         copy.deleting \/ copy.stack # 0
           \/ (\A s \in Stacks : Present(s) /\ stack[s].owner = i => copy.stack = s)
  PROVE  DbOK'
<1>1. CASE UNCHANGED row
  BY <1>1, DbStays DEF db
<1>2. CASE /\ copy.stack = 0 \/ Present(copy.stack)
           /\ row' = [row EXCEPT ![i] = copy]
  <2>1. row' \in [Previews -> Rows] /\ \A j \in Previews : row'[j] = IF j = i THEN copy ELSE row[j]
    BY <1>2 DEF DbOK
  <2>2. ASSUME NEW j \in Previews PROVE RowOK(j)'
    BY <1>2, <2>1 DEF DbOK, RowOK, CopyOK, Present, Exists, Update
  <2>3. ReadyIsReleased'
    BY <1>2, <2>1 DEF DbOK, ReadyIsReleased, CopyOK
  <2>4. ASSUME NEW s \in Stacks, Present(s), stack[s].owner = i, ~copy.deleting
        PROVE  copy.stack = s
    <3>1. CASE copy.stack # 0
      <4>1. copy.stack \in Stacks /\ stack[copy.stack].owner = i
        BY <3>1 DEF CopyOK, Rows
      <4> QED
        BY <1>2, <2>4, <3>1, <4>1 DEF DbOK, NamesUnique
    <3> QED
      BY <2>4, <3>1
  <2>5. StackKept'
    <3> SUFFICES ASSUME NEW s \in Stacks, Present(s)', Exists(stack[s].owner)',
                        ~row'[stack[s].owner].deleting
                 PROVE  row'[stack[s].owner].stack = s
      BY DEF StackKept
    <3>1. stack[s].owner \in Previews /\ Present(s)
      BY ZeroIsNoId DEF DbOK, StackOK, StackRows, Present
    <3>2. CASE stack[s].owner = i
      BY <2>1, <2>4, <3>1, <3>2
    <3>3. CASE stack[s].owner # i
      BY <2>1, <3>1, <3>3 DEF DbOK, StackKept, Exists
    <3> QED
      BY <3>2, <3>3
  <2> QED
    BY <2>1, <2>2, <2>3, <2>5 DEF DbOK, StackOK, NamesUnique, Present
<1> QED
  BY <1>1, <1>2 DEF Update

LEMMA RowsStable ==
  ASSUME UNCHANGED <<pr, stack, release>> PROVE Stable /\ \A j \in Previews : NoneFor(j)
  BY DEF Stable, NoneFor, Present

LEMMA SaveStep == ASSUME IInv, NEW h \in Requests, Save(h) PROVE IInv'
<1> DEFINE q == request[h]
<1>1. q \in RequestStates /\ RequestOK(q) /\ q.pc = "save"
  BY IInvParts DEF RequestsOK, Save
<1>2. q.id \in Previews /\ q.copy \in Rows /\ CopyOK(q.id, q.copy) /\ (q.copy.deleting \/ q.copy.stack # 0)
  BY <1>1 DEF RequestOK, RequestStates
<1>3. DbOK'
  BY <1>2, UpdateStep, IInvParts DEF Save
<1> QED
  BY <1>3, RowsStable, HandlerDbStep DEF Save

LEMMA SaveCopyStep == ASSUME IInv, NEW i \in Previews, SaveCopy(i) PROVE IInv'
<1> DEFINE copy == exec[i].copy
<1>1. /\ copy \in Rows /\ CopyOK(i, copy)
      /\ \A s \in Stacks : Present(s) /\ stack[s].owner = i => copy.stack = s
  BY WorkingCopy DEF ExecOK, SaveCopy, At
<1>2. DbOK'
  BY <1>1, UpdateStep, IInvParts DEF SaveCopy
<1> QED
  BY <1>2, RowsStable, WorkerDbStep DEF SaveCopy, Return

\* The pull request of a new row had no stack: stacks are made for rows.
LEMMA CreateInsertStep ==
  ASSUME IInv, NEW h \in Requests, NEW i \in Previews, CreateInsert(h, i) PROVE IInv'
<1> DEFINE q == request[h]
<1>1. /\ q.copy \in Rows /\ q.pr \in PRs \cup {0} /\ q.pr # 0
      /\ q.copy.phase = "Provisioning" /\ q.copy.stack = 0 /\ q.copy.release = 0
  BY IInvParts DEF RequestsOK, RequestOK, RequestStates, CreateInsert
<1>2. /\ pr[i] = 0
      /\ pr' \in [Previews -> PRs \cup {0}] /\ row' \in [Previews -> Rows]
      /\ \A j \in Previews : pr'[j] = (IF j = i THEN q.pr ELSE pr[j])
                             /\ row'[j] = (IF j = i THEN q.copy ELSE row[j])
  BY <1>1, IInvParts DEF DbOK, CreateInsert, Previews
<1>3. UNCHANGED <<config, stack, release>>
  BY DEF CreateInsert
<1>4. \A s \in Stacks : Present(s) => stack[s].owner \in Previews /\ stack[s].owner # i
  BY <1>2, IInvParts DEF DbOK, StackOK, StackRows, Present
<1>5. ASSUME NEW j \in Previews PROVE RowOK(j)'
  BY <1>1, <1>2, <1>3, IInvParts DEF DbOK, RowOK, CopyOK, Present, Exists
<1>6. (\A s \in Stacks : StackOK(s)')
  BY <1>2, <1>3, <1>4, IInvParts DEF DbOK, StackOK, Present
<1>7. NamesUnique'
  BY <1>2, <1>3, <1>4, IInvParts DEF DbOK, NamesUnique, Present
<1>8. ReadyIsReleased'
  BY <1>1, <1>2, <1>3, IInvParts DEF DbOK, ReadyIsReleased
<1>9. StackKept'
  BY <1>2, <1>3, <1>4, IInvParts DEF DbOK, StackKept, Present, Exists
<1>10. DbOK'
  BY <1>2, <1>3, <1>5, <1>6, <1>7, <1>8, <1>9, IInvParts DEF DbOK
<1>11. Stable /\ \A j \in Previews : NoneFor(j)
  BY <1>3 DEF Stable, NoneFor, Present
<1> QED
  BY <1>10, <1>11, HandlerDbStep DEF CreateInsert

\* Rows may go, whatever else is there.
LEMMA RowsGo ==
  ASSUME DbOK, config' \in BOOLEAN, UNCHANGED <<pr, stack, release>>, row' \in [Previews -> Rows],
         \A j \in Previews : row'[j] = row[j] \/ row'[j] = NoRow
  PROVE  DbOK'
<1>1. ASSUME NEW j \in Previews PROVE RowOK(j)'
  BY DEF DbOK, RowOK, CopyOK, Present, Exists, NoRow
<1>2. ReadyIsReleased'
  BY DEF DbOK, ReadyIsReleased, NoRow
<1>3. StackKept'
  <2> SUFFICES ASSUME NEW s \in Stacks, Present(s)', Exists(stack[s].owner)',
                      ~row'[stack[s].owner].deleting
               PROVE  row'[stack[s].owner].stack = s
    BY DEF StackKept
  <2>1. stack[s].owner \in Previews /\ Present(s)
    BY ZeroIsNoId DEF DbOK, StackOK, StackRows, Present
  <2>2. row'[stack[s].owner] = row[stack[s].owner]
    BY <2>1 DEF Exists, NoRow
  <2> QED
    BY <2>1, <2>2 DEF DbOK, StackKept, Exists
<1> QED
  BY <1>1, <1>2, <1>3 DEF DbOK, StackOK, NamesUnique, Present

LEMMA DropStep == ASSUME IInv, NEW h \in Requests, Drop(h) PROVE IInv'
<1>1. DbOK'
  BY RowsGo, IInvParts DEF Drop, Rows, NoRow
<1> QED
  BY <1>1, RowsStable, HandlerDbStep DEF Drop

LEMMA EraseStep == ASSUME IInv, NEW i \in Previews, Erase(i) PROVE IInv'
<1>1. NoRow \in Rows
  BY DEF NoRow, Rows
<1>2. /\ row' \in [Previews -> Rows]
      /\ \A j \in Previews : row'[j] = IF j = i THEN NoRow ELSE row[j]
  BY <1>1, IInvParts DEF Erase, DbOK
<1>3. DbOK'
  BY <1>2, RowsGo, IInvParts DEF Erase, DbOK
<1> QED
  BY <1>3, RowsStable, WorkerDbStep DEF Erase, Return

-----------------------------------------------------------------------------
(***************************************************************************)
(* The actions on stacks and releases.                                     *)
(***************************************************************************)
\* A stack whose deletion is stamped keeps its row.
LEMMA MarkStep ==
  ASSUME DbOK, NEW s \in Stacks, MarkDeleting(s), UNCHANGED <<config, pr, row>>
  PROVE  DbOK' /\ Stable /\ \A j \in Previews : NoneFor(j)
<1>1. /\ stack' \in [Stacks -> StackRows]
      /\ \A t \in Stacks : stack'[t].owner = stack[t].owner
                           /\ stack'[t].state = IF t = s THEN "deleting" ELSE stack[t].state
  BY DEF DbOK, StackRows, MarkDeleting
<1>2. (\A t \in Stacks : Present(t)' <=> Present(t)) /\ (Present(0)' <=> Present(0))
  BY <1>1 DEF Present, MarkDeleting
<1>3. /\ release' \in [Releases -> ReleaseRows]
      /\ \A r \in Releases :
           /\ release'[r].stack = release[r].stack
           /\ release[r].state # "Active" => release'[r].state = release[r].state
  BY DEF DbOK, ReleaseRows, MarkDeleting
<1>4. ASSUME NEW j \in Previews PROVE RowOK(j)'
  <2>1. row[j].stack \in Stacks \cup {0} /\ row[j].release \in Releases \cup {0}
    BY DEF DbOK, Rows
  <2> QED
    BY <1>1, <1>2, <1>3, <2>1 DEF DbOK, RowOK, CopyOK, Exists
<1>5. ReadyIsReleased'
  <2>1. \A j \in Previews : row[j].release \in Releases \cup {0}
    BY DEF DbOK, Rows
  <2> QED
    BY <1>3, <2>1 DEF DbOK, ReadyIsReleased
<1>6. (\A t \in Stacks : StackOK(t)') /\ NamesUnique' /\ StackKept'
  BY <1>1, <1>2 DEF DbOK, StackOK, NamesUnique, StackKept, Exists, Present
<1>7. Stable /\ \A j \in Previews : NoneFor(j)
  BY <1>1, <1>2, <1>3 DEF Stable, NoneFor
<1> QED
  BY <1>1, <1>3, <1>4, <1>5, <1>6, <1>7 DEF DbOK

LEMMA DeprovisionStep == ASSUME IInv, NEW i \in Previews, Deprovision(i) PROVE IInv'
<1> DEFINE s == exec[i].copy.stack
<1>1. CASE s # 0 /\ MarkDeleting(s) /\ Return(i)
  <2>1. s \in Stacks
    BY <1>1, WorkingCopy DEF Rows
  <2>2. DbOK' /\ Stable /\ \A j \in Previews : NoneFor(j)
    BY <1>1, <2>1, MarkStep, IInvParts DEF Deprovision
  <2> QED
    BY <1>1, <2>2, WorkerDbStep DEF Deprovision, Return
<1>2. CASE Return(i) /\ UNCHANGED <<stack, release>>
  BY <1>2, IdleOK, ExecStep DEF Deprovision, Return, db
<1>3. CASE Goto(i, "erase") /\ UNCHANGED <<stack, release>>
  <2> DEFINE e == [exec[i] EXCEPT !.pc = "erase"]
  <2>1. e \in Executions /\ ExecOK(i, e)
    BY WorkingCopy DEF Executions, ExecOK
  <2>2. UNCHANGED <<db, request>> /\ exec' = [exec EXCEPT ![i] = e]
    BY <1>3 DEF Deprovision, db, Goto
  <2> QED
    BY <2>1, <2>2, ExecStep
<1> QED
  BY <1>1, <1>2, <1>3 DEF Deprovision

LEMMA DeleteStackStep == ASSUME IInv, NEW s \in Stacks, DeleteStack(s) PROVE IInv'
<1>1. DbOK' /\ Stable /\ \A j \in Previews : NoneFor(j)
  BY MarkStep, IInvParts DEF DeleteStack
<1> QED
  BY <1>1, OtherDbStep DEF DeleteStack

\* Only an active release ends.
LEMMA ReleaseEndsStep ==
  ASSUME IInv, NEW r \in Releases, NEW end \in {"Released", "Failed", "Superseded", "Cancelled"},
         ReleaseEnds(r, end)
  PROVE  IInv'
<1>1. /\ release' \in [Releases -> ReleaseRows]
      /\ \A q \in Releases : release'[q].stack = release[q].stack
                             /\ release'[q].state = IF q = r THEN end ELSE release[q].state
  BY IInvParts DEF ReleaseEnds, DbOK, ReleaseRows
<1>2. UNCHANGED <<config, pr, row, stack, request, exec>> /\ release[r].state = "Active"
  BY DEF ReleaseEnds
<1>3. ASSUME NEW j \in Previews PROVE RowOK(j)'
  <2>1. row[j].release \in Releases \cup {0}
    BY IInvParts DEF DbOK, Rows
  <2> QED
    BY <1>1, <1>2, <2>1, IInvParts DEF DbOK, RowOK, CopyOK, Present, Exists
<1>4. ReadyIsReleased'
  <2>1. \A j \in Previews : row[j].release \in Releases \cup {0}
    BY IInvParts DEF DbOK, Rows
  <2> QED
    BY <1>1, <1>2, <2>1, IInvParts DEF DbOK, ReadyIsReleased
<1>5. DbOK'
  BY <1>1, <1>2, <1>3, <1>4, IInvParts
     DEF DbOK, StackOK, NamesUnique, StackKept, Present, Exists
<1>6. Stable /\ \A j \in Previews : NoneFor(j)
  BY <1>1, <1>2 DEF Stable, NoneFor, Present
<1> QED
  BY <1>2, <1>5, <1>6, OtherDbStep

\* A stack that goes takes with it the foreign keys that pointed to it.
LEMMA StackGoneStep == ASSUME IInv, NEW s \in Stacks, StackGone(s) PROVE IInv'
<1>1. /\ stack' \in [Stacks -> StackRows]
      /\ \A t \in Stacks : stack'[t].owner = stack[t].owner
                           /\ stack'[t].state = IF t = s THEN "gone" ELSE stack[t].state
  BY IInvParts DEF StackGone, DbOK, StackRows
<1>2. /\ release' \in [Releases -> ReleaseRows]
      /\ \A q \in Releases :
           /\ release[q].stack \in Stacks \cup {0} /\ release'[q].stack = release[q].stack
           /\ release[q].stack # s => release'[q].state = release[q].state
  BY IInvParts DEF StackGone, DbOK, ReleaseRows
<1>3. /\ row' \in [Previews -> Rows]
      /\ \A j \in Previews :
           row'[j] = IF row[j].stack = s THEN [row[j] EXCEPT !.stack = 0, !.release = 0] ELSE row[j]
  BY IInvParts DEF StackGone, DbOK, Rows
<1>4. UNCHANGED <<config, pr, request, exec>>
  BY DEF StackGone
<1>5. \A t \in Stacks \cup {0} : Present(t)' <=> (Present(t) /\ t # s)
  BY <1>1, ZeroIsNoId DEF Present
<1>6. Stable /\ \A j \in Previews : NoneFor(j)
  BY <1>1, <1>2, <1>5 DEF Stable, NoneFor
<1>7. ASSUME NEW j \in Previews
      PROVE  /\ row'[j].phase = row[j].phase /\ row'[j].commit = row[j].commit
             /\ row'[j].applied = row[j].applied /\ row'[j].force = row[j].force
             /\ row'[j].deleting = row[j].deleting
             /\ IF row[j].stack = s THEN row'[j].stack = 0 /\ row'[j].release = 0 ELSE row'[j] = row[j]
  BY <1>3, IInvParts DEF DbOK, Rows
<1>8. ASSUME NEW j \in Previews PROVE RowOK(j)'
  <2>1. row[j].release \in Releases \cup {0} /\ row[j].stack \in Stacks \cup {0} /\ RowOK(j)
        /\ row[j] \in Rows
    BY IInvParts DEF DbOK, Rows
  <2>2. CASE row[j].stack = s
    BY <1>4, <1>7, <2>1, <2>2 DEF RowOK, CopyOK, Exists
  <2>3. CASE row[j].stack # s
    <3>1. CopyOK(j, row[j])'
      BY <1>6, <1>7, <2>1, <2>3, CopyStays DEF RowOK, CopyOK, Present
    <3> QED
      BY <1>4, <1>5, <1>7, <2>1, <2>3, <3>1 DEF RowOK, CopyOK, Exists
  <2> QED
    BY <2>2, <2>3
<1>9. ReadyIsReleased'
  <2> SUFFICES ASSUME NEW j \in Previews, row'[j].phase = "Ready"
               PROVE  /\ row'[j].commit = row'[j].applied /\ ~row'[j].force /\ ~row'[j].deleting
                      /\ row'[j].release # 0 => release'[row'[j].release].state = "Released"
    BY DEF ReadyIsReleased
  <2>1. /\ row[j].release \in Releases \cup {0} /\ CopyOK(j, row[j])
        /\ row[j].commit = row[j].applied /\ ~row[j].force /\ ~row[j].deleting
        /\ row[j].release # 0 => release[row[j].release].state = "Released"
    BY <1>7, IInvParts DEF DbOK, Rows, RowOK, ReadyIsReleased
  <2> QED
    BY <1>2, <1>7, <2>1 DEF CopyOK
<1>10. StackKept'
  <2> SUFFICES ASSUME NEW t \in Stacks, Present(t)', Exists(stack[t].owner)',
                      ~row'[stack'[t].owner].deleting
               PROVE  row'[stack'[t].owner].stack = t
    BY DEF StackKept
  <2>1. Present(t) /\ t # s /\ stack[t].owner \in Previews /\ stack'[t].owner = stack[t].owner
    BY <1>1, <1>5, IInvParts, ZeroIsNoId DEF DbOK, StackOK, StackRows
  <2>2. row[stack[t].owner].stack = t
    BY <1>7, <2>1, IInvParts DEF DbOK, StackKept, Exists
  <2> QED
    BY <1>7, <2>1, <2>2
<1>11. (\A t \in Stacks : StackOK(t)') /\ NamesUnique'
  BY <1>1, <1>4, <1>5, IInvParts, ZeroIsNoId DEF DbOK, StackOK, NamesUnique
<1>12. DbOK'
  BY <1>1, <1>2, <1>3, <1>4, <1>8, <1>9, <1>10, <1>11, IInvParts DEF DbOK
<1> QED
  BY <1>4, <1>6, <1>12, OtherDbStep

\* A deployment: stack s of preview i, new or kept, gets a release r that is new, and
\* row i points to both.
LEMMA DeployedStep ==
  ASSUME IInv, NEW i \in Previews, NEW s \in Stacks, NEW r \in Releases, NewRelease(r),
         exec[i].pc = "provision", Exists(i), UNCHANGED <<config, pr, request>>,
         NEW c \in Commits \cup {0}, release' = [release EXCEPT ![r] = Created(s, c)],
         row' = [row EXCEPT ![i] = Deployed(exec[i].copy, s, r)], Return(i),
         stack' \in [Stacks -> StackRows], Present(s)', stack'[s].owner = i,
         \A t \in Stacks \ {s} : stack'[t] = stack[t],
         stack[s].owner \in {0, i},
         \A t \in Stacks \ {s} : Present(t) => stack[t].owner # i,
         \A t \in Stacks \ {s} : Present(t) => pr[stack[t].owner] # pr[i],
         stack[s].owner # 0 => Present(s)
  PROVE  IInv'
<1>1. PICK copy \in Rows : /\ copy = Deployed(exec[i].copy, s, r)
                          /\ copy.phase = "Deploying" /\ copy.stack = s /\ copy.release = r
  <2>1. PICK old \in Rows : old = exec[i].copy
    BY WorkingCopy
  <2>2. Deployed(old, s, r) \in Rows /\ Deployed(old, s, r).phase = "Deploying"
        /\ Deployed(old, s, r).stack = s /\ Deployed(old, s, r).release = r
    BY DEF Deployed, Rows, Phases
  <2> QED
    BY <2>1, <2>2
<1>2. /\ row' \in [Previews -> Rows]
      /\ \A j \in Previews : row'[j] = IF j = i THEN copy ELSE row[j]
  BY <1>1, IInvParts DEF DbOK
<1>3. /\ release' \in [Releases -> ReleaseRows] /\ release[r].stack = 0
      /\ \A q \in Releases : release'[q] = IF q = r THEN Created(s, c) ELSE release[q]
  BY IInvParts DEF DbOK, NewRelease, Created, ReleaseRows, Releases
<1>4. release'[r].stack = s
  BY <1>3 DEF Created
<1>5. \A t \in Stacks \ {s} : Present(t)' <=> Present(t)
  BY DEF Present
<1>6. Stable
  BY <1>3, <1>5, IInvParts DEF Stable, DbOK, ReleaseRows
<1>7. \A j \in Previews \ {i} : NoneFor(j)
  BY <1>5 DEF NoneFor
<1>8. ASSUME NEW j \in Previews PROVE RowOK(j)'
  <2>1. CASE j = i
    <3>1. CopyOK(i, copy)'
      BY <1>1, <1>4, ZeroIsNoId DEF CopyOK
    <3>2. CopyOK(j, row[j])'
      BY <1>2, <2>1, <3>1 DEF CopyOK, Present
    <3>3. pr'[i] # 0
      BY IInvParts DEF DbOK, RowOK
    <3>4. row'[j].stack = s
      BY <1>1, <1>2, <2>1
    <3>5. Present(row[j].stack)'
      BY <3>4 DEF Present
    <3> QED
      BY <2>1, <3>2, <3>3, <3>5 DEF RowOK
  <2>2. CASE j # i
    <3>1. row[j] \in Rows /\ RowOK(j) /\ row[j].stack \in Stacks \cup {0}
      BY IInvParts DEF DbOK, Rows
    <3>2. CopyOK(j, row[j])'
      BY <1>2, <1>6, <2>2, <3>1, CopyStays DEF RowOK, CopyOK, Present
    <3>3. row'[j].stack # 0 => Present(row[j].stack)'
      BY <1>2, <1>5, <2>2, <3>1 DEF RowOK, Present
    <3> QED
      BY <1>2, <2>2, <3>1, <3>2, <3>3 DEF RowOK, Exists, Present
  <2> QED
    BY <2>1, <2>2
<1>9. ReadyIsReleased'
  <2> SUFFICES ASSUME NEW j \in Previews, row'[j].phase = "Ready"
               PROVE  /\ row'[j].commit = row'[j].applied /\ ~row'[j].force /\ ~row'[j].deleting
                      /\ row'[j].release # 0 => release'[row'[j].release].state = "Released"
    BY DEF ReadyIsReleased
  <2>1. j # i /\ row'[j] = row[j]
    BY <1>1, <1>2
  <2>2. row[j].release \in Releases \cup {0} /\ CopyOK(j, row[j])
    BY IInvParts DEF DbOK, Rows, RowOK
  <2>3. row[j].release # r
    BY <1>3, <2>2, ZeroIsNoId DEF CopyOK
  <2> QED
    BY <1>3, <2>1, <2>2, <2>3, IInvParts DEF DbOK, ReadyIsReleased
<1>10. StackKept'
  <2> SUFFICES ASSUME NEW t \in Stacks, Present(t)', Exists(stack[t].owner)',
                      ~row'[stack'[t].owner].deleting, t # s
               PROVE  row'[stack'[t].owner].stack = t
    BY <1>1, <1>2, <1>5 DEF StackKept
  <2>1. Present(t) /\ stack[t].owner \in Previews \ {i} /\ stack'[t] = stack[t]
    BY <1>5, IInvParts, ZeroIsNoId DEF DbOK, StackOK, StackRows
  <2> QED
    BY <1>2, <2>1, IInvParts DEF DbOK, StackKept, Exists
<1>11. \A t \in Stacks : StackOK(t)'
  <2>1. pr[i] # 0
    BY IInvParts DEF DbOK, RowOK
  <2> QED
    BY <1>5, <2>1, IInvParts, ZeroIsNoId DEF DbOK, StackOK, Present
<1>12. NamesUnique'
  BY <1>5, IInvParts DEF DbOK, NamesUnique
<1>13. DbOK'
  BY <1>2, <1>3, <1>8, <1>9, <1>10, <1>11, <1>12, IInvParts DEF DbOK
<1> QED
  BY <1>6, <1>7, <1>13, WorkerDbStep DEF Return

LEMMA SyncStep == ASSUME IInv, NEW i \in Previews, NEW r \in Releases, Sync(i, r) PROVE IInv'
<1>1. PICK copy \in Rows :
        /\ copy = exec[i].copy /\ CopyOK(i, copy) /\ exec[i].pc = "provision"
        /\ \A t \in Stacks : Present(t) /\ stack[t].owner = i => copy.stack = t
  BY WorkingCopy DEF ExecOK, Sync, At
<1>2. PICK s \in Stacks :
        s = copy.stack /\ stack[s].state = "live" /\ Present(s) /\ stack[s].owner = i
  BY <1>1 DEF Sync, Rows, CopyOK, Present
<1>3. PICK c \in Commits \cup {0} :
        /\ c = IF NeedsUpdate(copy) THEN copy.commit ELSE stack[s].content
        /\ stack[s] \in StackRows
  BY <1>1, <1>2, IInvParts DEF DbOK, StackRows, Rows
<1>4. /\ stack' \in [Stacks -> StackRows] /\ \A t \in Stacks \ {s} : stack'[t] = stack[t]
      /\ stack'[s] = [stack[s] EXCEPT !.content = c]
  BY <1>1, <1>2, <1>3, IInvParts DEF DbOK, Sync, StackRows
<1>5. stack'[s].state = "live" /\ stack'[s].owner = i /\ Present(s)'
  BY <1>2, <1>3, <1>4, ZeroIsNoId DEF StackRows, Present
<1>6. /\ \A t \in Stacks \ {s} : Present(t) => stack[t].owner # i
      /\ \A t \in Stacks \ {s} : Present(t) => pr[stack[t].owner] # pr[i]
      /\ stack[s].owner \in {0, i} /\ (stack[s].owner # 0 => Present(s))
  BY <1>1, <1>2, IInvParts DEF DbOK, NamesUnique
<1>7. /\ Exists(i) /\ NewRelease(r) /\ UNCHANGED <<config, pr, request>> /\ Return(i)
      /\ release' = [release EXCEPT ![r] = Created(s, c)]
      /\ row' = [row EXCEPT ![i] = Deployed(exec[i].copy, s, r)]
  BY <1>1, <1>2, <1>3 DEF Sync
<1> QED
  BY <1>1, <1>4, <1>5, <1>6, <1>7, DeployedStep

\* The stack is made only if the copy knows of none, and then there is none.
LEMMA CreateStep ==
  ASSUME IInv, NEW i \in Previews, NEW s \in Stacks, NEW r \in Releases, Create(i, s, r)
  PROVE  IInv'
<1> DEFINE copy == exec[i].copy
           c    == copy.commit
<1>1. /\ copy \in Rows /\ exec[i].pc = "provision" /\ copy.stack = 0
      /\ \A t \in Stacks : ~(Present(t) /\ stack[t].owner = i)
  BY WorkingCopy, ZeroIsNoId DEF ExecOK, Create, At
<1>2. stack[s].state = "none" /\ stack[s].owner = 0 /\ c \in Commits \cup {0}
  BY <1>1, IInvParts DEF Create, DbOK, StackOK, Stacks, Rows
<1>3. /\ stack' \in [Stacks -> StackRows] /\ \A t \in Stacks \ {s} : stack'[t] = stack[t]
      /\ stack'[s] = [state |-> "live", owner |-> i, content |-> c]
  BY <1>2, IInvParts DEF DbOK, Create, StackRows
<1>4. stack'[s].owner = i /\ Present(s)'
  BY <1>3, ZeroIsNoId DEF Present
<1>5. /\ Exists(i) /\ NewRelease(r) /\ UNCHANGED <<config, pr, request>> /\ Return(i)
      /\ release' = [release EXCEPT ![r] = Created(s, c)]
      /\ row' = [row EXCEPT ![i] = Deployed(copy, s, r)]
      /\ \A t \in Stacks : Present(t) => pr[stack[t].owner] # pr[i]
  BY DEF Create
<1> HIDE DEF c
<1> QED
  BY <1>1, <1>2, <1>3, <1>4, <1>5, DeployedStep

-----------------------------------------------------------------------------
(***************************************************************************)
(* The invariant and what follows from it.                                 *)
(***************************************************************************)
LEMMA InitHolds == Init => IInv
<1> SUFFICES ASSUME Init PROVE IInv
  OBVIOUS
<1>1. TypeOK
  BY DEF Init, TypeOK, Rows, NoRow, StackRows, ReleaseRows, RequestStates, NoRequest,
         Executions, Idle
<1>2. \A s \in Stacks : ~Present(s) /\ stack[s].owner = 0
  BY DEF Init, Present
<1>3. (\A s \in Stacks : StackOK(s)) /\ NamesUnique /\ ReadyIsReleased /\ StackKept
  BY <1>2 DEF StackOK, NamesUnique, ReadyIsReleased, StackKept, Init, NoRow
<1>4. \A i \in Previews : RowOK(i) /\ ExecOK(i, exec[i])
  BY DEF Init, RowOK, CopyOK, ExecOK, NoRow, Idle, Exists
<1>5. \A h \in Requests : RequestOK(request[h])
  BY NoRequestOK DEF Init
<1> QED
  BY <1>1, <1>3, <1>4, <1>5 DEF IInv

LEMMA NextKeeps == IInv /\ [Next]_vars => IInv'
<1> SUFFICES ASSUME IInv, [Next]_vars PROVE IInv'
  OBVIOUS
<1>1. ASSUME NEW h \in Requests, Handler(h) PROVE IInv'
  BY <1>1, CreateReadStep, CreateInsertStep, SyncReadStep, DeleteReadStep, SaveStep,
     DropReadStep, DropStep, AbortRequestStep DEF Handler
<1>2. ASSUME NEW i \in Previews, Worker(i) PROVE IInv'
  BY <1>2, LoadStep, DeprovisionStep, EraseStep, ProvisionFailsStep, UpToDateStep, SyncStep,
     CreateStep, ConvergeStep, SaveCopyStep, GiveUpStep DEF Worker
<1>3. CASE Elsewhere
  BY <1>3, ReleaseEndsStep, DeleteStackStep, StackGoneStep DEF Elsewhere
<1>4. CASE UNCHANGED vars
  BY <1>4, IInvParts, DbStays, RowsStable, OtherDbStep DEF vars, db
<1> QED
  BY <1>1, <1>2, <1>3, <1>4 DEF Next

\* Whatever the order in which webhooks, users and the worker save their copies of
\* the rows of preview_stacks, IInv holds.
THEOREM PreviewInvariant == Spec => []IInv
  BY InitHolds, NextKeeps, PTL DEF Spec

\* A preview that says Ready has applied the commit it names through a release that
\* was Released: no save of an old copy brings back a Ready that was not earned.
THEOREM ReadyCorrect == Spec => []ReadyIsReleased
<1>1. IInv => ReadyIsReleased
  BY DEF IInv
<1> QED
  BY <1>1, PreviewInvariant, PTL

\* The stack made for a preview is the one its row points to until the preview is
\* being deleted, however many copies of the row are saved over each other.
THEOREM StackNotLost == Spec => []StackKept
<1>1. IInv => StackKept
  BY DEF IInv
<1> QED
  BY <1>1, PreviewInvariant, PTL

=============================================================================
