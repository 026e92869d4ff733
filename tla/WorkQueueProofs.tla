-------------------------- MODULE WorkQueueProofs --------------------------
(***************************************************************************)
(* What is proved of WorkQueue for any number of operands, goroutines,     *)
(* transactions and crashes: no operand is executed twice at a time, no    *)
(* wakeup is lost but to a fault the specification names, and the queue    *)
(* implements the set of wakeups of WakeupQueue.                           *)
(***************************************************************************)
EXTENDS WorkQueue, TLAPS

\* What appending to a sequence does to its members.
LEMMA Appended ==
  ASSUME NEW S, NEW s \in Seq(S), NEW x \in S
  PROVE  /\ Append(s, x) \in Seq(S)
         /\ ToSet(Append(s, x)) = ToSet(s) \cup {x}
         /\ IsInjective(s) /\ x \notin ToSet(s) => IsInjective(Append(s, x))
<1> DEFINE t == Append(s, x)
<1>1. t \in Seq(S) /\ Len(t) = Len(s) + 1
  OBVIOUS
<1>2. t[Len(s) + 1] = x /\ \A i \in 1 .. Len(s) : t[i] = s[i]
  OBVIOUS
<1>3. DOMAIN t = DOMAIN s \cup {Len(s) + 1} /\ DOMAIN s = 1 .. Len(s)
  BY <1>1
<1> HIDE DEF t
<1>4. ToSet(t) = ToSet(s) \cup {x}
  BY <1>2, <1>3 DEF ToSet
<1>5. IsInjective(s) /\ x \notin ToSet(s) => IsInjective(t)
  BY <1>2, <1>3 DEF ToSet, IsInjective
<1> QED
  BY <1>1, <1>4, <1>5 DEF t

\* What taking the head of a sequence does to its members.
LEMMA Taken ==
  ASSUME NEW S, NEW s \in Seq(S), s # <<>>
  PROVE  /\ Head(s) \in S /\ Tail(s) \in Seq(S)
         /\ ToSet(s) = ToSet(Tail(s)) \cup {Head(s)}
         /\ IsInjective(s) => IsInjective(Tail(s)) /\ Head(s) \notin ToSet(Tail(s))
<1> DEFINE t == Tail(s)
<1>1. Len(s) \in Nat \ {0} /\ t \in Seq(S) /\ Len(t) = Len(s) - 1 /\ Head(s) = s[1]
      /\ s[1] \in S
  OBVIOUS
<1>2. \A i \in 1 .. Len(t) : t[i] = s[i + 1]
  OBVIOUS
<1>3. DOMAIN t = 1 .. Len(t) /\ DOMAIN s = 1 .. Len(s)
  BY <1>1
<1> HIDE DEF t
<1>4. \A i \in DOMAIN s : i = 1 \/ (i - 1 \in DOMAIN t /\ s[i] = t[i - 1])
  BY <1>1, <1>2, <1>3
<1>5. 1 \in DOMAIN s /\ \A i \in DOMAIN t : i + 1 \in DOMAIN s /\ t[i] = s[i + 1]
  BY <1>1, <1>2, <1>3
<1>6. ToSet(s) = ToSet(t) \cup {s[1]}
  BY <1>4, <1>5 DEF ToSet
<1>7. ASSUME IsInjective(s) PROVE IsInjective(t) /\ s[1] \notin ToSet(t)
  <2>1. ASSUME NEW i \in DOMAIN t, NEW j \in DOMAIN t, t[i] = t[j] PROVE i = j
    BY <1>3, <1>5, <1>7, <1>1, <2>1 DEF IsInjective
  <2>2. ASSUME NEW i \in DOMAIN t, t[i] = s[1] PROVE FALSE
    BY <1>3, <1>5, <1>7, <1>1, <2>2 DEF IsInjective
  <2> QED
    BY <2>1, <2>2 DEF IsInjective, ToSet
<1> QED
  BY <1>1, <1>6, <1>7 DEF t

\* The part of the invariant that is about the workqueue alone.
QueueOK ==
  /\ queue \in Seq(Operands) /\ dirty \subseteq Operands
  /\ processing \subseteq Operands /\ later \subseteq Operands
  /\ IsInjective(queue) /\ ToSet(queue) = dirty \ processing

LEMMA QueueIsOK == IInv => QueueOK
  BY DEF IInv, TypeOK, OneAtATime, QueueOK

\* Queueing an operand that is dirty and not in processing.
LEMMA Queueing ==
  ASSUME QueueOK, NEW o \in Operands,
         queue' = IF o \in dirty \cup processing THEN queue ELSE Append(queue, o),
         dirty' = dirty \cup {o}, processing' = processing, later' \subseteq Operands
  PROVE  QueueOK'
<1>1. CASE o \in dirty \cup processing
  BY <1>1 DEF QueueOK
<1>2. CASE o \notin dirty \cup processing
  <2>1. /\ queue' \in Seq(Operands) /\ ToSet(queue') = ToSet(queue) \cup {o}
        /\ IsInjective(queue')
    BY <1>2, Appended DEF QueueOK
  <2> QED
    BY <1>2, <2>1 DEF QueueOK
<1> QED
  BY <1>1, <1>2

LEMMA Adding ==
  ASSUME QueueOK, closing \in BOOLEAN, NEW o \in Operands, Add(o)
  PROVE  /\ QueueOK'
         /\ processing' = processing /\ later' = later /\ closing' = closing
         /\ dirty \subseteq dirty' /\ (closing \/ o \in dirty') /\ lost' = lost \ {o}
<1>1. CASE closing
  BY <1>1 DEF Add, QueueOK
<1>2. CASE ~closing
  BY <1>2, Queueing DEF Add, QueueOK
<1> QED
  BY <1>1, <1>2

-----------------------------------------------------------------------------
LEMMA InitHolds == Init => IInv
<1> SUFFICES ASSUME Init PROVE IInv
  OBVIOUS
<1>1. Off \in Executions /\ Off.pc = "off"
  BY OperandsAssumption DEF Off, Executions
<1>2. NoTransaction \in Transactions /\ NoTransaction.pc = "idle"
  BY DEF NoTransaction, Transactions
<1>3. TypeOK
  <2>1. /\ behind \subseteq Operands /\ lost \subseteq Operands /\ queue \in Seq(Operands)
        /\ dirty \subseteq Operands /\ processing \subseteq Operands /\ later \subseteq Operands
        /\ closing \in BOOLEAN /\ crashes \in Nat
    <3>1. behind \subseteq Operands /\ lost = behind \ Listed
      BY DEF Init
    <3>2. queue = <<>> /\ <<>> \in Seq(Operands)
      BY DEF Init
    <3> QED
      BY <3>1, <3>2 DEF Init
  <2>2. worker \in [Goroutines -> Executions] /\ request \in [Requests -> Transactions]
    BY <1>1, <1>2 DEF Init
  <2>3. scan \in [Scans -> [pc : {"wait", "due", "enlist", "ended"}, list : SUBSET Operands]]
    BY DEF Init, ScansAtStart, Scans
  <2> QED
    BY <2>1, <2>2, <2>3 DEF TypeOK
<1>4. OneAtATime
  <2>1. \A g \in Goroutines : ~Busy(g)
    BY <1>1 DEF Init, Busy
  <2>2. ToSet(queue) = {} /\ IsInjective(queue) /\ dirty = {} /\ processing = {}
    BY DEF Init, ToSet, IsInjective
  <2> QED
    BY <2>1, <2>2 DEF OneAtATime, Executing
<1>5. HooksOfWrites /\ ScansInOrder
  BY <1>2 DEF Init, HooksOfWrites, ScansInOrder, ScansAtStart
<1>6. WakeupKept
  BY DEF Init, WakeupKept, Woken, ScansAtStart, Scans
<1> QED
  BY <1>3, <1>4, <1>5, <1>6 DEF IInv

-----------------------------------------------------------------------------
(***************************************************************************)
(* Transactions.                                                           *)
(***************************************************************************)
\* A step of a transaction that only changes its own record, and keeps its hooks
\* once it has committed.
LEMMA RequestStep ==
  ASSUME IInv, NEW r \in Requests, NEW t \in Transactions, UNCHANGED Others,
         request' = [request EXCEPT ![r] = t],
         t.pc = "open" => t.written = ToSet(t.hooks),
         t.pc = "idle" => t = NoTransaction,
         request[r].pc = "hooks" => request[r].hooks = <<>>
  PROVE  IInv'
<1>1. \A q \in Requests : request'[q] = IF q = r THEN t ELSE request[q]
  BY DEF IInv, TypeOK
<1>2. TypeOK'
  BY DEF IInv, TypeOK, Others, workqueue
<1>3. OneAtATime' /\ ScansInOrder'
  BY DEF IInv, OneAtATime, ScansInOrder, Others, workqueue, Executing, Busy
<1>4. HooksOfWrites'
  BY <1>1 DEF IInv, HooksOfWrites
<1>5. ASSUME NEW o, Woken(o) PROVE Woken(o)'
  <2>1. \A q \in Requests : Hooked(q, o) => Hooked(q, o)'
    BY <1>1 DEF Hooked, ToSet
  <2> QED
    BY <1>5, <2>1 DEF Woken, Others, workqueue, Executing, Busy, WillSee
<1>6. WakeupKept'
  BY <1>5 DEF IInv, WakeupKept, Others, workqueue
<1> QED
  BY <1>2, <1>3, <1>4, <1>6 DEF IInv

LEMMA RequestSteps ==
  ASSUME IInv, NEW r \in Requests,
         WithTransaction(r) \/ (\E o \in Operands : Write(r, o)) \/ Rollback(r)
         \/ ReturnNested(r) \/ HooksEnd(r)
  PROVE  IInv'
<1>0. NoTransaction \in Transactions /\ NoTransaction.pc = "idle" /\ NoTransaction.depth = 0
      /\ NoTransaction.written = {} /\ NoTransaction.hooks = <<>> /\ ToSet(<<>>) = {}
  BY DEF NoTransaction, Transactions, ToSet
<1>1. /\ request[r] \in Transactions /\ request \in [Requests -> Transactions]
      /\ request[r].pc = "open" => request[r].written = ToSet(request[r].hooks)
      /\ request[r].pc = "idle" => request[r] = NoTransaction
  BY DEF IInv, TypeOK, HooksOfWrites
<1>2. CASE WithTransaction(r)
  <2> DEFINE t == [request[r] EXCEPT !.pc = "open", !.depth = @ + 1]
  <2>1. request[r].depth \in 0..1 /\ request[r].depth + 1 \in 0..2
    BY <1>0, <1>1, <1>2 DEF WithTransaction, Transactions
  <2>2. t \in Transactions /\ t.pc = "open" /\ t.written = request[r].written
        /\ t.hooks = request[r].hooks
    BY <1>1, <2>1 DEF Transactions
  <2>3. t.written = ToSet(t.hooks)
    BY <1>0, <1>1, <1>2, <2>2 DEF WithTransaction
  <2>4. request' = [request EXCEPT ![r] = t]
    BY <1>1, <1>2 DEF WithTransaction
  <2>5. UNCHANGED Others /\ request[r].pc # "hooks"
    BY <1>2 DEF WithTransaction
  <2>6. PICK u : u = t
    OBVIOUS
  <2> HIDE DEF t
  <2> QED
    BY <2>2, <2>3, <2>4, <2>5, <2>6, RequestStep
<1>3. ASSUME NEW o \in Operands, Write(r, o) PROVE IInv'
  <2> DEFINE t == [request[r] EXCEPT !.written = @ \cup {o}, !.hooks = Append(@, o)]
  <2>1. request[r].hooks \in Seq(Operands) /\ request[r].pc = "open"
    BY <1>1, <1>3 DEF Write, Transactions
  <2>2. Append(request[r].hooks, o) \in Seq(Operands)
        /\ ToSet(Append(request[r].hooks, o)) = ToSet(request[r].hooks) \cup {o}
    BY <2>1, Appended
  <2>3. t \in Transactions /\ t.pc = "open" /\ t.written = request[r].written \cup {o}
        /\ t.hooks = Append(request[r].hooks, o)
    BY <1>1, <2>1, <2>2 DEF Transactions
  <2>4. request' = [request EXCEPT ![r] = t]
    BY <1>1, <1>3 DEF Write
  <2>5. UNCHANGED Others /\ t.written = ToSet(t.hooks)
    BY <1>1, <1>3, <2>1, <2>2, <2>3 DEF Write
  <2>6. PICK u : u = t
    OBVIOUS
  <2> HIDE DEF t
  <2> QED
    BY <2>1, <2>3, <2>4, <2>5, <2>6, RequestStep
<1>4. CASE Rollback(r)
  BY <1>0, <1>4, RequestStep DEF Rollback
<1>5. CASE ReturnNested(r)
  <2> DEFINE t == [request[r] EXCEPT !.depth = 1]
  <2>1. t \in Transactions /\ t.pc = "open" /\ t.written = request[r].written
        /\ t.hooks = request[r].hooks
    BY <1>1, <1>5 DEF ReturnNested, Transactions
  <2>2. request' = [request EXCEPT ![r] = t]
    BY <1>1, <1>5 DEF ReturnNested
  <2> QED
    BY <1>1, <1>5, <2>1, <2>2, RequestStep DEF ReturnNested
<1>6. CASE HooksEnd(r)
  BY <1>0, <1>6, RequestStep DEF HooksEnd
<1> QED
  BY <1>2, <1>3, <1>4, <1>5, <1>6
\* What a commit does to the goroutines: those that execute a changed operand have
\* an outdated row, and nothing else changes.
LEMMA Committing ==
  ASSUME IInv, NEW written \in SUBSET Operands, Committed(written), UNCHANGED workqueue
  PROVE  /\ worker' \in [Goroutines -> Executions]
         /\ behind' = behind \cup written
         /\ OneAtATime'
         /\ \A o : Executing(o)' = Executing(o)
         /\ \A g \in Goroutines : WillSee(g) /\ worker[g].operand \notin written => WillSee(g)'
<1>1. \A g \in Goroutines :
        /\ worker[g] \in Executions /\ worker'[g] \in Executions
        /\ worker'[g].pc = worker[g].pc /\ worker'[g].operand = worker[g].operand
        /\ worker[g].operand \notin written => worker'[g] = worker[g]
  BY DEF IInv, TypeOK, Committed, Executions
<1>2. worker' \in [Goroutines -> Executions] /\ behind' = behind \cup written
  BY <1>1 DEF Committed
<1>3. (\A g \in Goroutines : Busy(g)' = Busy(g)) /\ \A o : Executing(o)' = Executing(o)
  BY <1>1 DEF Busy, Executing
<1>4. OneAtATime'
  <2>1. {worker'[g].operand : g \in {h \in Goroutines : Busy(h)'}}
          = {worker[g].operand : g \in {h \in Goroutines : Busy(h)}}
    BY <1>1, <1>3
  <2> QED
    BY <1>3, <2>1 DEF IInv, OneAtATime, workqueue
<1>5. \A g \in Goroutines : WillSee(g) /\ worker[g].operand \notin written => WillSee(g)'
  BY <1>1 DEF WillSee
<1> QED
  BY <1>2, <1>3, <1>4, <1>5

\* Whoever would see the change of an operand that was not written still will.
LEMMA StillWoken ==
  ASSUME IInv, NEW r \in Requests, NEW o, o \notin request[r].written, Woken(o),
         Committed(request[r].written), UNCHANGED <<workqueue, scan>>,
         \A q \in Requests : Hooked(q, o) => Hooked(q, o)'
  PROVE  Woken(o)'
<1>1. request[r].written \in SUBSET Operands
  BY DEF IInv, TypeOK, Transactions
<1>2. ASSUME NEW g \in Executing(o), WillSee(g) PROVE g \in Executing(o)' /\ WillSee(g)'
  BY <1>1, <1>2, Committing DEF Executing
<1> QED
  BY <1>2 DEF Woken, workqueue

LEMMA CommitStep == ASSUME IInv, NEW r \in Requests, Commit(r) PROVE IInv'
<1> DEFINE t == [request[r] EXCEPT !.pc = "hooks", !.depth = 0, !.written = {}]
<1>1. /\ request[r] \in Transactions /\ request[r].written = ToSet(request[r].hooks)
      /\ request[r].written \in SUBSET Operands
  BY DEF IInv, TypeOK, HooksOfWrites, Commit, Transactions
<1>2. t \in Transactions /\ t.pc = "hooks" /\ t.hooks = request[r].hooks
  <2>1. 0 \in 0..2 /\ {} \in SUBSET Operands
    OBVIOUS
  <2> QED
    BY <1>1, <2>1 DEF Transactions
<1>3. \A q \in Requests : request'[q] = IF q = r THEN t ELSE request[q]
  BY DEF IInv, TypeOK, Commit
<1>4. request' \in [Requests -> Transactions]
  BY <1>2 DEF IInv, TypeOK, Commit
<1>5. Committed(request[r].written) /\ UNCHANGED <<workqueue, scan, crashes, lost>>
  BY DEF Commit
<1> HIDE DEF t
<1>6. TypeOK'
  BY <1>1, <1>4, <1>5, Committing DEF IInv, TypeOK, workqueue
<1>7. OneAtATime' /\ ScansInOrder'
  BY <1>1, <1>5, Committing DEF IInv, ScansInOrder
<1>8. HooksOfWrites'
  BY <1>2, <1>3 DEF IInv, HooksOfWrites
<1>9. ASSUME NEW o \in behind' \ lost', ~closing' PROVE Woken(o)'
  <2>1. CASE o \in request[r].written
    BY <1>1, <1>2, <1>3, <2>1 DEF Woken, Hooked
  <2>2. CASE o \notin request[r].written
    <3>1. \A q \in Requests : Hooked(q, o) => Hooked(q, o)'
      BY <1>2, <1>3 DEF Hooked, Commit
    <3>2. Woken(o)
      BY <1>5, <1>9, <2>2 DEF IInv, WakeupKept, Committed, workqueue
    <3> QED
      BY <1>5, <2>2, <3>1, <3>2, StillWoken
  <2> QED
    BY <2>1, <2>2
<1> QED
  BY <1>6, <1>7, <1>8, <1>9 DEF IInv, WakeupKept

\* The hooks are skipped: the wakeups count as lost.
LEMMA CommitUnknownStep == ASSUME IInv, NEW r \in Requests, CommitUnknown(r) PROVE IInv'
<1>1. request[r] \in Transactions /\ request[r].written \in SUBSET Operands
  BY DEF IInv, TypeOK, Transactions
<1>2. NoTransaction \in Transactions /\ NoTransaction.pc = "idle"
  BY DEF NoTransaction, Transactions
<1>3. \A q \in Requests : request'[q] = IF q = r THEN NoTransaction ELSE request[q]
  BY DEF IInv, TypeOK, CommitUnknown
<1>4. request' \in [Requests -> Transactions]
  BY <1>2 DEF IInv, TypeOK, CommitUnknown
<1>5. /\ Committed(request[r].written) /\ UNCHANGED <<workqueue, scan, crashes>>
      /\ lost' = lost \cup request[r].written
  BY DEF CommitUnknown
<1>6. TypeOK'
  BY <1>1, <1>4, <1>5, Committing DEF IInv, TypeOK, workqueue
<1>7. OneAtATime' /\ ScansInOrder'
  BY <1>1, <1>5, Committing DEF IInv, ScansInOrder
<1>8. HooksOfWrites'
  BY <1>2, <1>3 DEF IInv, HooksOfWrites
<1>9. ASSUME NEW o \in behind' \ lost', ~closing' PROVE Woken(o)'
  <2>1. \A q \in Requests : Hooked(q, o) => Hooked(q, o)'
    BY <1>2, <1>3 DEF Hooked, CommitUnknown
  <2>2. Woken(o) /\ o \notin request[r].written
    BY <1>5, <1>9 DEF IInv, WakeupKept, Committed, workqueue
  <2> QED
    BY <1>5, <2>1, <2>2, StillWoken
<1> QED
  BY <1>6, <1>7, <1>8, <1>9 DEF IInv, WakeupKept

LEMMA RunHookStep == ASSUME IInv, NEW r \in Requests, RunHook(r) PROVE IInv'
<1> DEFINE h == Head(request[r].hooks)
           t == [request[r] EXCEPT !.hooks = Tail(@)]
<1>1. request[r] \in Transactions /\ request[r].hooks \in Seq(Operands)
      /\ request[r].hooks # <<>>
  BY DEF IInv, TypeOK, Transactions, RunHook
<1>2. /\ h \in Operands /\ Tail(request[r].hooks) \in Seq(Operands)
      /\ ToSet(request[r].hooks) = ToSet(Tail(request[r].hooks)) \cup {h}
  BY <1>1, Taken
<1>3. t \in Transactions /\ t.pc = "hooks" /\ t.hooks = Tail(request[r].hooks)
  BY <1>1, <1>2 DEF Transactions, RunHook
<1>4. \A q \in Requests : request'[q] = IF q = r THEN t ELSE request[q]
  BY <1>1 DEF IInv, TypeOK, RunHook
<1>5. request' = [request EXCEPT ![r] = t] /\ request' \in [Requests -> Transactions]
  BY <1>1, <1>3 DEF IInv, TypeOK, RunHook
<1>6. Add(h) /\ UNCHANGED <<behind, worker, scan, crashes>>
  BY DEF RunHook
<1>7. /\ QueueOK' /\ processing' = processing /\ later' = later /\ closing' = closing
      /\ dirty \subseteq dirty' /\ (closing \/ h \in dirty') /\ lost' = lost \ {h}
  BY <1>2, <1>6, QueueIsOK, Adding DEF IInv, TypeOK
<1> HIDE DEF h, t
<1>8. TypeOK'
  BY <1>5, <1>6, <1>7 DEF IInv, TypeOK, QueueOK
<1>9. OneAtATime' /\ ScansInOrder'
  BY <1>6, <1>7 DEF IInv, OneAtATime, ScansInOrder, QueueOK, Executing, Busy
<1>10. HooksOfWrites'
  BY <1>3, <1>4 DEF IInv, HooksOfWrites
<1>11. ASSUME NEW o \in behind' \ lost', ~closing' PROVE Woken(o)'
  <2>1. CASE o = h
    BY <1>7, <1>11, <2>1 DEF Woken
  <2>2. CASE o # h
    <3>1. Woken(o)
      BY <1>6, <1>7, <1>11, <2>2 DEF IInv, WakeupKept
    <3>2. \A q \in Requests : Hooked(q, o) => Hooked(q, o)'
      BY <1>2, <1>3, <1>4, <2>2 DEF Hooked
    <3> QED
      BY <1>6, <1>7, <3>1, <3>2 DEF Woken, Executing, Busy, WillSee
  <2> QED
    BY <2>1, <2>2
<1> QED
  BY <1>8, <1>9, <1>10, <1>11 DEF IInv, WakeupKept
-----------------------------------------------------------------------------
(***************************************************************************)
(* Scans.                                                                  *)
(***************************************************************************)
\* A scan that goes on with another list, whatever it drops being woken otherwise.
LEMMA ScanningTypes ==
  ASSUME IInv, NEW s \in Scans, NEW list \in SUBSET Operands, Scanning(s, list)
  PROVE  /\ scan' \in [Scans -> [pc : {"wait", "due", "enlist", "ended"}, list : SUBSET Operands]]
         /\ scan'[s].list = list
         /\ \A t \in Scans \ {s} : scan'[t] = scan[t]
         /\ ScansInOrder'
<1> DEFINE v == [pc |-> IF list # {} THEN "enlist" ELSE IF s = "startup" THEN "ended" ELSE "wait",
                 list |-> list]
<1>1. \A t \in Scans : scan'[t] = IF t = s THEN v ELSE scan[t]
  BY DEF IInv, TypeOK, Scanning
<1>2. v \in [pc : {"wait", "due", "enlist", "ended"}, list : SUBSET Operands]
      /\ v.list = list /\ (v.pc # "enlist" => list = {})
  OBVIOUS
<1>3. scan' = [scan EXCEPT ![s] = v]
  BY DEF Scanning
<1> HIDE DEF v
<1>4. scan' \in [Scans -> [pc : {"wait", "due", "enlist", "ended"}, list : SUBSET Operands]]
  BY <1>2, <1>3 DEF IInv, TypeOK
<1> QED
  BY <1>1, <1>2, <1>4 DEF IInv, ScansInOrder

LEMMA ListStep == ASSUME IInv, NEW s \in Scans, List(s) PROVE IInv'
<1>1. behind \cap Listed \in SUBSET Operands
  BY DEF IInv, TypeOK
<1>2. Scanning(s, behind \cap Listed)
      /\ UNCHANGED <<behind, workqueue, worker, request, crashes, lost>>
  BY DEF List
<1>3. TypeOK' /\ ScansInOrder'
  BY <1>1, <1>2, ScanningTypes DEF IInv, TypeOK, workqueue
<1>4. OneAtATime' /\ HooksOfWrites'
  BY <1>2 DEF IInv, OneAtATime, HooksOfWrites, Executing, Busy, workqueue
<1>5. ASSUME NEW o \in behind' \ lost', ~closing' PROVE Woken(o)'
  <2>1. Woken(o) /\ scan[s].list = {}
    BY <1>2, <1>5 DEF IInv, WakeupKept, ScansInOrder, List, workqueue
  <2>2. CASE o \in Listed
    BY <1>1, <1>2, <1>5, <2>2, ScanningTypes DEF Woken
  <2>3. CASE o \notin Listed
    BY <1>1, <1>2, <2>1, <2>3, ScanningTypes
       DEF Woken, Executing, Busy, WillSee, Hooked, workqueue
  <2> QED
    BY <2>2, <2>3
<1> QED
  BY <1>3, <1>4, <1>5 DEF IInv, WakeupKept

LEMMA EnlistStep == ASSUME IInv, NEW s \in Scans, Enlist(s) PROVE IInv'
<1>1. PICK h \in scan[s].list : Add(h) /\ Scanning(s, scan[s].list \ {h})
  BY DEF Enlist
<1>2. h \in Operands /\ scan[s].list \ {h} \in SUBSET Operands
      /\ UNCHANGED <<behind, worker, request, crashes>>
  BY DEF IInv, TypeOK, Enlist
<1>3. /\ QueueOK' /\ processing' = processing /\ later' = later /\ closing' = closing
      /\ dirty \subseteq dirty' /\ (closing \/ h \in dirty') /\ lost' = lost \ {h}
  BY <1>1, <1>2, QueueIsOK, Adding DEF IInv, TypeOK
<1>4. TypeOK' /\ ScansInOrder'
  BY <1>1, <1>2, <1>3, ScanningTypes DEF IInv, TypeOK, QueueOK
<1>5. OneAtATime' /\ HooksOfWrites'
  BY <1>2, <1>3 DEF IInv, OneAtATime, HooksOfWrites, QueueOK, Executing, Busy
<1>6. ASSUME NEW o \in behind' \ lost', ~closing' PROVE Woken(o)'
  <2>1. CASE o = h
    BY <1>3, <1>6, <2>1 DEF Woken
  <2>2. CASE o # h
    <3>1. Woken(o) /\ scan[s].pc = "enlist"
      BY <1>1, <1>2, <1>3, <1>6, <2>2 DEF IInv, WakeupKept, ScansInOrder
    <3>2. \A t \in Scans : (o \in scan[t].list => o \in scan'[t].list)
                           /\ (scan[t].pc = "due" => scan'[t] = scan[t])
      BY <1>1, <1>2, <2>2, <3>1, ScanningTypes
    <3> QED
      BY <1>2, <1>3, <3>1, <3>2 DEF Woken, Executing, Busy, WillSee, Hooked, Scans
  <2> QED
    BY <2>1, <2>2
<1> QED
  BY <1>4, <1>5, <1>6 DEF IInv, WakeupKept

\* What the startup scan does not list is lost, unless it is on the queue already.
LEMMA ListFailsStep == ASSUME IInv, NEW s \in Scans, ListFails(s) PROVE IInv'
<1>1. Scanning(s, {}) /\ UNCHANGED <<behind, workqueue, worker, request, crashes>>
      /\ lost \subseteq lost' /\ lost' \subseteq Operands
      /\ (s = "startup" => (behind \cap Listed) \ dirty \subseteq lost')
  BY DEF IInv, TypeOK, ListFails
<1>2. {} \in SUBSET Operands
  OBVIOUS
<1>3. TypeOK' /\ ScansInOrder'
  BY <1>1, <1>2, ScanningTypes DEF IInv, TypeOK, workqueue
<1>4. OneAtATime' /\ HooksOfWrites'
  BY <1>1 DEF IInv, OneAtATime, HooksOfWrites, Executing, Busy, workqueue
<1>5. ASSUME NEW o \in behind' \ lost', ~closing' PROVE Woken(o)'
  <2>1. Woken(o) /\ scan[s].list = {} /\ (s = "startup" /\ o \in Listed => o \in dirty)
    BY <1>1, <1>5 DEF IInv, WakeupKept, ScansInOrder, ListFails, workqueue
  <2>2. CASE o \in dirty
    BY <1>1, <2>2 DEF Woken, workqueue
  <2>3. CASE o \notin dirty
    <3>1. \A t \in Scans : o \in scan[t].list => o \in scan'[t].list
      BY <1>1, <1>2, <2>1, ScanningTypes
    <3>2. scan["startup"].pc = "due" /\ o \in Listed => scan'["startup"].pc = "due"
      BY <1>1, <1>2, <2>1, <2>3, ScanningTypes DEF Scans
    <3> QED
      BY <1>1, <2>1, <3>1, <3>2 DEF Woken, Executing, Busy, WillSee, Hooked, workqueue
  <2> QED
    BY <2>2, <2>3
<1> QED
  BY <1>3, <1>4, <1>5 DEF IInv, WakeupKept

LEMMA TickStep == ASSUME IInv, Tick PROVE IInv'
<1>1. /\ scan["periodic"].list = {} /\ scan["periodic"].pc = "wait"
      /\ scan' = [scan EXCEPT !["periodic"].pc = "due"]
      /\ UNCHANGED <<behind, workqueue, worker, request, crashes, lost>>
  BY DEF IInv, ScansInOrder, Tick, Scans
<1>2. /\ scan' \in [Scans -> [pc : {"wait", "due", "enlist", "ended"}, list : SUBSET Operands]]
      /\ \A t \in Scans : scan'[t].list = scan[t].list
      /\ scan'["startup"] = scan["startup"] /\ scan'["periodic"].list = {}
  BY <1>1 DEF IInv, TypeOK, Scans
<1>3. TypeOK' /\ ScansInOrder'
  BY <1>1, <1>2 DEF IInv, TypeOK, ScansInOrder, Scans, workqueue
<1>4. OneAtATime' /\ HooksOfWrites'
  BY <1>1 DEF IInv, OneAtATime, HooksOfWrites, Executing, Busy, workqueue
<1>5. WakeupKept'
  BY <1>1, <1>2 DEF IInv, WakeupKept, Woken, Executing, Busy, WillSee, Hooked, workqueue
<1> QED
  BY <1>3, <1>4, <1>5 DEF IInv
-----------------------------------------------------------------------------
(***************************************************************************)
(* Goroutines of the worker.                                               *)
(***************************************************************************)
\* What a step of goroutine g to execution e leaves to show.
LEMMA GoroutineStep ==
  ASSUME IInv, NEW g \in Goroutines, NEW e \in Executions, worker' = [worker EXCEPT ![g] = e],
         UNCHANGED <<request, scan, crashes>>,
         behind' \subseteq Operands, lost' \subseteq Operands, closing' \in BOOLEAN,
         QueueOK', OneAtATime',
         \A o \in behind' \ lost' : Woken(o) /\ ~closing' => Woken(o)',
         behind' \subseteq behind, closing' = closing,
         \A o \in behind' : o \notin lost' => o \notin lost
  PROVE  IInv'
<1>1. TypeOK'
  BY DEF IInv, TypeOK, QueueOK
<1>2. HooksOfWrites' /\ ScansInOrder'
  BY DEF IInv, HooksOfWrites, ScansInOrder
<1>3. WakeupKept'
  BY DEF IInv, WakeupKept
<1> QED
  BY <1>1, <1>2, <1>3 DEF IInv

\* What changes of the goroutines in such a step.
LEMMA OtherGoroutines ==
  ASSUME IInv, NEW g \in Goroutines, NEW e \in Executions, worker' = [worker EXCEPT ![g] = e]
  PROVE  \A h \in Goroutines :
           /\ worker'[h] = IF h = g THEN e ELSE worker[h]
           /\ h # g => (Busy(h)' = Busy(h) /\ WillSee(h)' = WillSee(h))
<1>1. \A h \in Goroutines : worker'[h] = IF h = g THEN e ELSE worker[h]
  BY DEF IInv, TypeOK
<1> QED
  BY <1>1 DEF Busy, WillSee

\* A goroutine that goes on with the operand it has, busy before and after.
LEMMA BusyStep ==
  ASSUME IInv, NEW g \in Goroutines, NEW e \in Executions, worker' = [worker EXCEPT ![g] = e],
         Busy(g), e.pc \in {"load", "run", "done"}, e.operand = worker[g].operand,
         UNCHANGED <<queue, dirty, processing>>
  PROVE  OneAtATime' /\ \A o : Executing(o)' = Executing(o)
<1>1. \A h \in Goroutines : worker'[h].operand = worker[h].operand /\ Busy(h)' = Busy(h)
  BY OtherGoroutines DEF Busy
<1>2. \A o : Executing(o)' = Executing(o)
  BY <1>1 DEF Executing
<1>3. {worker'[h].operand : h \in {k \in Goroutines : Busy(k)'}}
        = {worker[h].operand : h \in {k \in Goroutines : Busy(k)}}
  BY <1>1
<1> QED
  BY <1>2, <1>3 DEF IInv, OneAtATime

\* The operand taken is not in processing, so that nobody executes it.
LEMMA GetStep == ASSUME IInv, NEW g \in Goroutines, Get(g) PROVE IInv'
<1> DEFINE o == Head(queue)
           e == [pc |-> "load", operand |-> Head(queue), current |-> FALSE]
<1>1. /\ queue \in Seq(Operands) /\ queue # <<>> /\ IsInjective(queue)
      /\ ToSet(queue) = dirty \ processing
  BY QueueIsOK DEF QueueOK, Get
<1>2. /\ o \in Operands /\ Tail(queue) \in Seq(Operands)
      /\ ToSet(queue) = ToSet(Tail(queue)) \cup {o}
      /\ IsInjective(Tail(queue)) /\ o \notin ToSet(Tail(queue))
  BY <1>1, Taken
<1>3. e \in Executions /\ e.pc = "load" /\ e.operand = o
  BY <1>2 DEF Executions
<1>4. /\ worker' = [worker EXCEPT ![g] = e] /\ queue' = Tail(queue) /\ dirty' = dirty \ {o}
      /\ processing' = processing \cup {o} /\ worker[g].pc = "get"
      /\ UNCHANGED <<behind, later, closing, request, scan, crashes, lost>>
  BY DEF Get
<1> HIDE DEF o, e
<1>5. QueueOK'
  BY <1>1, <1>2, <1>4, QueueIsOK DEF QueueOK
<1>6. \A h \in Goroutines :
        /\ worker'[h] = IF h = g THEN e ELSE worker[h]
        /\ h # g => (Busy(h)' = Busy(h) /\ WillSee(h)' = WillSee(h))
  <2>1. PICK u \in Executions : u = e
    BY <1>3
  <2> QED
    BY <1>4, <2>1, OtherGoroutines
<1>7. ~Busy(g) /\ Busy(g)' /\ WillSee(g)'
  BY <1>3, <1>4, <1>6 DEF Busy, WillSee
<1>8. \A h \in Goroutines : Busy(h) => worker[h].operand # o
  BY <1>1, <1>2 DEF IInv, OneAtATime
<1>9. OneAtATime'
  <2>1. \A p \in Operands : \A h, k \in Executing(p)' : h = k
    BY <1>3, <1>6, <1>7, <1>8 DEF IInv, OneAtATime, Executing
  <2>2. processing' = {worker'[h].operand : h \in {k \in Goroutines : Busy(k)'}}
    BY <1>3, <1>4, <1>6, <1>7 DEF IInv, OneAtATime
  <2> QED
    BY <1>5, <2>1, <2>2 DEF OneAtATime, QueueOK
<1>10. ASSUME NEW p, Woken(p) PROVE Woken(p)'
  <2>1. CASE p = o
    BY <1>3, <1>6, <1>7, <2>1 DEF Woken, Executing
  <2>2. CASE p # o
    BY <1>4, <1>6, <1>7, <1>10, <2>2 DEF Woken, Executing, Hooked
  <2> QED
    BY <2>1, <2>2
<1>11. PICK u \in Executions : u = e
  BY <1>3
<1> QED
  BY <1>4, <1>5, <1>9, <1>10, <1>11, GoroutineStep DEF IInv, TypeOK

LEMMA LoadStep == ASSUME IInv, NEW g \in Goroutines, Load(g) PROVE IInv'
<1>1. worker[g] \in Executions /\ worker[g].pc = "load"
  BY DEF IInv, TypeOK, Load
<1>2. PICK e \in Executions : e = [worker[g] EXCEPT !.pc = "run", !.current = TRUE]
  BY <1>1 DEF Executions
<1>3. e.pc = "run" /\ e.current = TRUE /\ e.operand = worker[g].operand
  BY <1>1, <1>2 DEF Executions
<1>4. worker' = [worker EXCEPT ![g] = e]
      /\ UNCHANGED <<behind, workqueue, request, scan, crashes, lost>>
  BY <1>1, <1>2 DEF IInv, TypeOK, Load
<1>5. OneAtATime' /\ \A o : Executing(o)' = Executing(o)
  BY <1>1, <1>3, <1>4, BusyStep DEF workqueue, Busy
<1>6. \A h \in Goroutines : WillSee(h) => WillSee(h)'
  BY <1>3, <1>4, OtherGoroutines DEF WillSee
<1>7. \A o : Woken(o) => Woken(o)'
  <2> SUFFICES ASSUME NEW o, Woken(o) PROVE Woken(o)'
    OBVIOUS
  <2>1. (\E h \in Executing(o) : WillSee(h)) => (\E h \in Executing(o) : WillSee(h))'
    BY <1>5, <1>6 DEF Executing
  <2> QED
    BY <1>4, <2>1 DEF Woken, Hooked, workqueue
<1>8. QueueOK'
  BY <1>4, QueueIsOK DEF QueueOK, workqueue
<1> QED
  BY <1>4, <1>5, <1>7, <1>8, GoroutineStep DEF IInv, TypeOK, workqueue

LEMMA SucceedStep == ASSUME IInv, NEW g \in Goroutines, Succeed(g) PROVE IInv'
<1>1. worker[g] \in Executions /\ worker[g].pc = "run" /\ worker[g].operand \in Operands
  BY DEF IInv, TypeOK, Succeed, Executions
<1>2. PICK e \in Executions : e = [worker[g] EXCEPT !.pc = "done"]
  BY <1>1 DEF Executions
<1>3. e.pc = "done" /\ e.operand = worker[g].operand
  BY <1>1, <1>2 DEF Executions
<1>4. worker' = [worker EXCEPT ![g] = e] /\ UNCHANGED <<workqueue, request, scan, crashes>>
  BY <1>1, <1>2 DEF IInv, TypeOK, Succeed
<1>5. OneAtATime' /\ \A o : Executing(o)' = Executing(o)
  BY <1>1, <1>3, <1>4, BusyStep DEF workqueue, Busy
<1>6. \A h \in Goroutines : h # g => WillSee(h)' = WillSee(h)
  BY <1>4, OtherGoroutines
<1>7. /\ behind' \subseteq behind /\ lost' \subseteq lost
      /\ \A o \in behind' : o \notin lost' => o \notin lost
      /\ WillSee(g) => worker[g].operand \notin behind'
  BY <1>1 DEF Succeed, WillSee
<1>8. ASSUME NEW o \in behind' \ lost', Woken(o) PROVE Woken(o)'
  <2>1. (\E h \in Executing(o) : WillSee(h)) => (\E h \in Executing(o) : WillSee(h))'
    BY <1>5, <1>6, <1>7, <1>8 DEF Executing
  <2> QED
    BY <1>4, <1>8, <2>1 DEF Woken, Hooked, workqueue
<1>9. QueueOK'
  BY <1>4, QueueIsOK DEF QueueOK, workqueue
<1> QED
  BY <1>4, <1>5, <1>7, <1>8, <1>9, GoroutineStep DEF IInv, TypeOK, workqueue

LEMMA ComeBackStep == ASSUME IInv, NEW g \in Goroutines, ComeBack(g) PROVE IInv'
<1>1. worker[g] \in Executions /\ worker[g].pc \in {"load", "run"}
      /\ worker[g].operand \in Operands
  BY DEF IInv, TypeOK, ComeBack, Executions
<1>2. PICK e \in Executions : e = [worker[g] EXCEPT !.pc = "done"]
  BY <1>1 DEF Executions
<1>3. e.pc = "done" /\ e.operand = worker[g].operand
  BY <1>1, <1>2 DEF Executions
<1>4. /\ worker' = [worker EXCEPT ![g] = e]
      /\ UNCHANGED <<behind, queue, dirty, processing, closing, request, scan, crashes, lost>>
      /\ later \subseteq later' /\ later' \subseteq Operands
      /\ closing \/ worker[g].operand \in later'
  BY <1>1, <1>2 DEF IInv, TypeOK, ComeBack, AddAfter
<1>5. OneAtATime' /\ \A o : Executing(o)' = Executing(o)
  BY <1>1, <1>3, <1>4, BusyStep DEF Busy
<1>6. \A h \in Goroutines : h # g => WillSee(h)' = WillSee(h)
  BY <1>4, OtherGoroutines
<1>7. ASSUME NEW o \in behind' \ lost', Woken(o), ~closing' PROVE Woken(o)'
  <2>1. CASE o = worker[g].operand
    BY <1>4, <1>7, <2>1 DEF Woken
  <2>2. CASE o # worker[g].operand
    <3>1. (\E h \in Executing(o) : WillSee(h)) => (\E h \in Executing(o) : WillSee(h))'
      BY <1>5, <1>6, <2>2 DEF Executing
    <3> QED
      BY <1>4, <1>7, <3>1 DEF Woken, Hooked
  <2> QED
    BY <2>1, <2>2
<1>8. QueueOK'
  BY <1>4, QueueIsOK DEF QueueOK
<1> QED
  BY <1>4, <1>5, <1>7, <1>8, GoroutineStep DEF IInv, TypeOK
\* Nobody else executes the operand that is given back.
LEMMA DoneStep == ASSUME IInv, NEW g \in Goroutines, Done(g) PROVE IInv'
<1> DEFINE o == worker[g].operand
<1>1. worker[g] \in Executions /\ worker[g].pc = "done" /\ o \in Operands /\ o \in processing
  BY DEF IInv, TypeOK, OneAtATime, Done, Executions, Busy
<1>2. Idle \in Executions /\ Idle.pc = "get"
  BY OperandsAssumption DEF Idle, Off, Executions
<1>3. /\ worker' = [worker EXCEPT ![g] = Idle] /\ processing' = processing \ {o}
      /\ queue' = (IF o \in dirty THEN Append(queue, o) ELSE queue)
      /\ UNCHANGED <<behind, dirty, later, closing, request, scan, crashes, lost>>
  BY DEF Done
<1>4. \A h \in Goroutines :
        /\ worker'[h] = IF h = g THEN Idle ELSE worker[h]
        /\ h # g => (Busy(h)' = Busy(h) /\ WillSee(h)' = WillSee(h))
  BY <1>2, <1>3, OtherGoroutines
<1>5. Busy(g) /\ ~Busy(g)' /\ ~WillSee(g)
  BY <1>1, <1>2, <1>4 DEF Busy, WillSee
<1>6. \A h \in Goroutines : Busy(h) /\ worker[h].operand = o => h = g
  BY <1>1, <1>5 DEF IInv, OneAtATime, Executing
<1> HIDE DEF o
<1>7. QueueOK'
  <2>1. CASE o \in dirty
    <3>1. o \notin ToSet(queue)
      BY <1>1, QueueIsOK DEF QueueOK
    <3>2. /\ queue' \in Seq(Operands) /\ ToSet(queue') = ToSet(queue) \cup {o}
          /\ IsInjective(queue')
      BY <1>1, <1>3, <2>1, <3>1, QueueIsOK, Appended DEF QueueOK
    <3> QED
      BY <1>1, <1>3, <2>1, <3>2, QueueIsOK DEF QueueOK
  <2>2. CASE o \notin dirty
    BY <1>1, <1>3, <2>2, QueueIsOK DEF QueueOK
  <2> QED
    BY <2>1, <2>2
<1>8. OneAtATime'
  <2>1. \A p \in Operands : \A h, k \in Executing(p)' : h = k
    BY <1>4, <1>5 DEF IInv, OneAtATime, Executing
  <2>2. \A h \in Goroutines : Busy(h)' =>
          (Busy(h) /\ h # g /\ worker'[h].operand = worker[h].operand)
    BY <1>4, <1>5
  <2>3. \A h \in Goroutines : Busy(h) /\ h # g =>
          (Busy(h)' /\ worker'[h].operand = worker[h].operand)
    BY <1>4
  <2>4. processing' = {worker'[h].operand : h \in {k \in Goroutines : Busy(k)'}}
    <3>1. processing = {worker[h].operand : h \in {k \in Goroutines : Busy(k)}}
      BY DEF IInv, OneAtATime
    <3>2. ASSUME NEW p \in processing'
          PROVE \E h \in Goroutines : Busy(h)' /\ worker'[h].operand = p
      BY <1>3, <2>3, <3>1, <3>2 DEF o
    <3>3. ASSUME NEW h \in Goroutines, Busy(h)' PROVE worker'[h].operand \in processing'
      BY <1>3, <1>6, <2>2, <3>1, <3>3
    <3> QED
      BY <3>2, <3>3
  <2> QED
    BY <1>7, <2>1, <2>4 DEF OneAtATime, QueueOK
<1>9. ASSUME NEW p, Woken(p) PROVE Woken(p)'
  BY <1>3, <1>4, <1>5, <1>9 DEF Woken, Executing, Hooked
<1> QED
  BY <1>2, <1>3, <1>7, <1>8, <1>9, GoroutineStep DEF IInv, TypeOK

LEMMA StartStep == ASSUME IInv, StartGoroutines PROVE IInv'
<1>1. Idle \in Executions /\ Idle.pc = "get"
  BY OperandsAssumption DEF Idle, Off, Executions
<1>2. /\ worker' = [g \in Goroutines |-> Idle] /\ \A g \in Goroutines : worker[g].pc = "off"
      /\ UNCHANGED <<behind, workqueue, request, scan, crashes, lost>>
  BY DEF StartGoroutines
<1>3. \A g \in Goroutines : ~Busy(g) /\ ~Busy(g)' /\ ~WillSee(g)
  BY <1>1, <1>2 DEF Busy, WillSee
<1>4. TypeOK'
  BY <1>1, <1>2 DEF IInv, TypeOK, workqueue
<1>5. OneAtATime'
  BY <1>2, <1>3 DEF IInv, OneAtATime, Executing, workqueue
<1>6. HooksOfWrites' /\ ScansInOrder'
  BY <1>2 DEF IInv, HooksOfWrites, ScansInOrder
<1>7. WakeupKept'
  BY <1>2, <1>3 DEF IInv, WakeupKept, Woken, Executing, Hooked, workqueue
<1> QED
  BY <1>4, <1>5, <1>6, <1>7 DEF IInv

-----------------------------------------------------------------------------
(***************************************************************************)
(* The queue and the process.                                              *)
(***************************************************************************)
LEMMA DueStep == ASSUME IInv, NEW o \in Operands, Due(o) PROVE IInv'
<1>1. /\ QueueOK' /\ dirty' = dirty \cup {o} /\ later' = later \ {o}
      /\ UNCHANGED <<behind, processing, closing, worker, request, scan, crashes, lost>>
  BY QueueIsOK, Queueing DEF Due, QueueOK
<1>2. TypeOK'
  BY <1>1 DEF IInv, TypeOK, QueueOK
<1>3. OneAtATime'
  BY <1>1 DEF IInv, OneAtATime, QueueOK, Executing, Busy
<1>4. HooksOfWrites' /\ ScansInOrder'
  BY <1>1 DEF IInv, HooksOfWrites, ScansInOrder
<1>5. WakeupKept'
  BY <1>1 DEF IInv, WakeupKept, Woken, Executing, Busy, WillSee, Hooked
<1> QED
  BY <1>2, <1>3, <1>4, <1>5 DEF IInv

LEMMA StopStep == ASSUME IInv, Stop PROVE IInv'
<1>1. TypeOK'
  BY DEF IInv, TypeOK, Stop
<1>2. OneAtATime' /\ HooksOfWrites' /\ ScansInOrder' /\ WakeupKept'
  BY DEF IInv, OneAtATime, HooksOfWrites, ScansInOrder, WakeupKept, Stop, Executing, Busy
<1> QED
  BY <1>1, <1>2 DEF IInv

\* A new process finds what its startup scan will list; the rest is lost.
LEMMA RestartStep == ASSUME IInv, Restart, crashes' \in Nat PROVE IInv'
<1>1. Off \in Executions /\ Off.pc = "off"
  BY OperandsAssumption DEF Off, Executions
<1>2. NoTransaction \in Transactions /\ NoTransaction.pc = "idle"
  BY DEF NoTransaction, Transactions
<1>3. /\ queue' = <<>> /\ dirty' = {} /\ processing' = {} /\ later' = {} /\ closing' = FALSE
      /\ worker' = [g \in Goroutines |-> Off] /\ request' = [r \in Requests |-> NoTransaction]
      /\ scan' = ScansAtStart /\ behind' = behind /\ lost' = behind \ Listed
  BY DEF Restart, Fresh
<1>4. TypeOK'
  <2>1. <<>> \in Seq(Operands) /\ behind \subseteq Operands
    BY DEF IInv, TypeOK
  <2>2. worker' \in [Goroutines -> Executions] /\ request' \in [Requests -> Transactions]
    BY <1>1, <1>2, <1>3
  <2>3. scan' \in [Scans -> [pc : {"wait", "due", "enlist", "ended"}, list : SUBSET Operands]]
    BY <1>3 DEF ScansAtStart, Scans
  <2>4. /\ queue' \in Seq(Operands) /\ behind' \subseteq Operands /\ lost' \subseteq Operands
        /\ dirty' \subseteq Operands /\ processing' \subseteq Operands
           /\ later' \subseteq Operands
        /\ closing' \in BOOLEAN
    BY <1>3, <2>1
  <2> QED
    BY <2>2, <2>3, <2>4 DEF TypeOK
<1>5. OneAtATime'
  <2>1. \A g \in Goroutines : ~Busy(g)'
    BY <1>1, <1>3 DEF Busy
  <2>2. ToSet(queue') = {} /\ IsInjective(queue')
    BY <1>3 DEF ToSet, IsInjective
  <2> QED
    BY <1>3, <2>1, <2>2 DEF OneAtATime, Executing
<1>6. HooksOfWrites' /\ ScansInOrder'
  BY <1>2, <1>3 DEF HooksOfWrites, ScansInOrder, ScansAtStart
<1>7. WakeupKept'
  BY <1>3 DEF WakeupKept, Woken, ScansAtStart, Scans
<1> QED
  BY <1>4, <1>5, <1>6, <1>7 DEF IInv

-----------------------------------------------------------------------------
LEMMA NextHolds == ASSUME IInv, [Next]_vars PROVE IInv'
<1>1. ASSUME NEW r \in Requests, Transaction(r) PROVE IInv'
  BY <1>1, RequestSteps, CommitStep, CommitUnknownStep, RunHookStep DEF Transaction
<1>2. ASSUME NEW s \in Scans, Scan(s) PROVE IInv'
  BY <1>2, ListStep, EnlistStep, ListFailsStep DEF Scan
<1>3. ASSUME NEW g \in Goroutines, Goroutine(g) PROVE IInv'
  BY <1>3, GetStep, LoadStep, SucceedStep, ComeBackStep, DoneStep DEF Goroutine
<1>4. CASE Tick
  BY <1>4, TickStep
<1>5. CASE StartGoroutines
  BY <1>5, StartStep
<1>6. ASSUME NEW o \in Operands, Due(o) PROVE IInv'
  BY <1>6, DueStep
<1>7. CASE Stop
  BY <1>7, StopStep
<1>8. CASE RestartStopped
  BY <1>8, RestartStep DEF RestartStopped, IInv, TypeOK
<1>9. CASE Crash
  BY <1>9, RestartStep DEF Crash, IInv, TypeOK
<1>10. CASE UNCHANGED vars
  BY <1>10 DEF vars, IInv, TypeOK, OneAtATime, HooksOfWrites, ScansInOrder, WakeupKept, Woken,
     Executing, Busy, WillSee, Hooked
<1> QED
  BY <1>1, <1>2, <1>3, <1>4, <1>5, <1>6, <1>7, <1>8, <1>9, <1>10 DEF Next

\* The worker manager keeps its invariant: in particular no operand is executed
\* twice at a time, and every change of an open transaction has its hook.
THEOREM Invariance == Spec => []IInv
<1>1. Init => IInv
  BY InitHolds
<1>2. IInv /\ [Next]_vars => IInv'
  BY NextHolds
<1> QED
  BY <1>1, <1>2, PTL DEF Spec

\* No committed change is forgotten while the process runs, but for the faults
\* that "lost" records: somebody will load the changed row, however changes,
\* hooks, scans, retries and executions interleave.
THEOREM NoWakeupLost == Spec => []WakeupKept
<1>1. IInv => WakeupKept
  BY DEF IInv
<1> QED
  BY <1>1, Invariance, PTL
-----------------------------------------------------------------------------
(***************************************************************************)
(* The queue implements WakeupQueue.  Every step wakes up an operand,      *)
(* hands one out, takes one back, starts again or changes nothing of this. *)
(***************************************************************************)
\* A step that wakes up nobody and after which every goroutine has what it had.
LEMMA SameHandedOut ==
  ASSUME \A g \in Goroutines : /\ Busy(g)' <=> Busy(g)
                               /\ worker'[g].operand = worker[g].operand
  PROVE  HandedOut' = HandedOut
BY DEF HandedOut

\* Steps of transactions, scans and goroutines that leave the queue as it is.
LEMMA SameWorkers ==
  ASSUME dirty' = dirty, worker' = worker
  PROVE  UNCHANGED Wakeups!vars
BY SameHandedOut DEF Busy, Wakeups!vars

LEMMA QuietTransaction ==
  ASSUME IInv, NEW r \in Requests, Transaction(r), ~RunHook(r)
  PROVE  UNCHANGED Wakeups!vars
<1>1. CASE UNCHANGED Others
  BY <1>1, SameWorkers DEF Others, workqueue
<1>2. CASE Commit(r) \/ CommitUnknown(r)
  <2>1. worker \in [Goroutines -> Executions] /\ dirty' = dirty
    BY <1>2 DEF IInv, TypeOK, Commit, CommitUnknown, workqueue
  <2>2. PICK written : Committed(written)
    BY <1>2 DEF Commit, CommitUnknown
  <2>3. \A g \in Goroutines : worker'[g].pc = worker[g].pc
                              /\ worker'[g].operand = worker[g].operand
    BY <2>1, <2>2 DEF Committed, Executions
  <2> QED BY <2>1, <2>3, SameHandedOut DEF Busy, Wakeups!vars
<1> QED
  BY <1>1, <1>2 DEF Transaction, WithTransaction, Write, Rollback, ReturnNested, HooksEnd

LEMMA QuietScan ==
  ASSUME NEW s \in Scans, Scan(s), ~Enlist(s)
  PROVE  UNCHANGED Wakeups!vars
BY SameWorkers DEF Scan, List, ListFails, workqueue

LEMMA QuietGoroutine ==
  ASSUME IInv, NEW g \in Goroutines, Load(g) \/ Succeed(g) \/ ComeBack(g)
  PROVE  UNCHANGED Wakeups!vars
<1>1. worker \in [Goroutines -> Executions] /\ dirty' = dirty
  BY DEF IInv, TypeOK, Load, Succeed, ComeBack, workqueue
<1>2. /\ Busy(g) /\ worker'[g].operand = worker[g].operand
      /\ worker'[g].pc \in {"load", "run", "done"}
      /\ \A h \in Goroutines \ {g} : worker'[h] = worker[h]
  BY <1>1 DEF Load, Succeed, ComeBack, Busy, Executions
<1> QED BY <1>1, <1>2, SameHandedOut DEF Busy, Wakeups!vars

LEMMA QuietProcess ==
  ASSUME Tick \/ StartGoroutines \/ Stop \/ UNCHANGED vars
  PROVE  UNCHANGED Wakeups!vars
<1>1. CASE StartGoroutines
  <2>1. \A g \in Goroutines : worker[g].pc = "off" /\ worker'[g].pc = "get"
    BY <1>1 DEF StartGoroutines, Idle, Off
  <2> QED BY <1>1, <2>1 DEF StartGoroutines, workqueue, HandedOut, Busy, Wakeups!vars
<1> QED BY <1>1, SameWorkers DEF Tick, Stop, vars, workqueue

\* A step that puts o on the queue, unless it is shut down.
LEMMA WakingUp ==
  ASSUME NEW o \in Operands, dirty' \in {dirty, dirty \cup {o}}, worker' = worker
  PROVE  [Wakeups!Next]_Wakeups!vars
<1>1. HandedOut' = HandedOut
  BY SameHandedOut DEF Busy
<1>2. CASE dirty' = dirty
  BY <1>1, <1>2 DEF Wakeups!vars
<1>3. CASE dirty' = dirty \cup {o}
  BY <1>1, <1>3 DEF Wakeups!Next, Wakeups!Wake
<1> QED BY <1>2, <1>3

LEMMA AddWakesUp ==
  ASSUME NEW o \in Operands, Add(o), worker' = worker
  PROVE  [Wakeups!Next]_Wakeups!vars
BY WakingUp DEF Add

\* The head of the queue is dirty and handed out to nobody.
LEMMA GetTakes ==
  ASSUME IInv, NEW g \in Goroutines, Get(g)
  PROVE  Wakeups!Next
<1> DEFINE o == Head(queue)
<1>1. worker \in [Goroutines -> Executions] /\ QueueOK /\ queue # <<>>
  BY QueueIsOK DEF IInv, TypeOK, Get
<1>2. o \in Operands /\ o \in ToSet(queue)
  BY <1>1, Taken DEF QueueOK
<1>3. o \in dirty /\ o \notin processing
  BY <1>1, <1>2 DEF QueueOK
<1> HIDE DEF o
<1>4. /\ dirty' = dirty \ {o} /\ ~Busy(g)
      /\ worker'[g].pc = "load" /\ worker'[g].operand = o
      /\ \A h \in Goroutines \ {g} : worker'[h] = worker[h]
  BY <1>1 DEF Get, Busy, o
<1>5. \A h \in Goroutines : o \notin HandedOut[h]
  BY <1>3 DEF IInv, OneAtATime, HandedOut
<1>6. HandedOut' = [HandedOut EXCEPT ![g] = {o}] /\ HandedOut[g] = {}
  BY <1>4 DEF HandedOut, Busy
<1>7. Wakeups!Take(g, o)
  BY <1>3, <1>4, <1>5, <1>6 DEF Wakeups!Take
<1> QED BY <1>2, <1>7 DEF Wakeups!Next

LEMMA DoneFinishes ==
  ASSUME IInv, NEW g \in Goroutines, Done(g)
  PROVE  Wakeups!Next
<1>1. worker \in [Goroutines -> Executions]
  BY DEF IInv, TypeOK
<1>2. /\ dirty' = dirty /\ Busy(g) /\ worker'[g].pc = "get"
      /\ \A h \in Goroutines \ {g} : worker'[h] = worker[h]
  BY <1>1 DEF Done, Busy, Idle, Off
<1>3. HandedOut' = [HandedOut EXCEPT ![g] = {}] /\ HandedOut[g] # {}
  BY <1>2 DEF HandedOut, Busy
<1> QED BY <1>2, <1>3 DEF Wakeups!Next, Wakeups!Finish

LEMMA RestartForgets == ASSUME Restart PROVE Wakeups!Next
<1>1. dirty' = {} /\ \A g \in Goroutines : worker'[g].pc = "off"
  BY DEF Restart, Fresh, Off
<1>2. HandedOut' = [g \in Goroutines |-> {}]
  BY <1>1 DEF HandedOut, Busy
<1> QED BY <1>1, <1>2 DEF Wakeups!Next, Wakeups!Restart

LEMMA StepOfWakeups == ASSUME IInv, [Next]_vars PROVE [Wakeups!Next]_Wakeups!vars
<1>1. ASSUME NEW r \in Requests, Transaction(r) PROVE [Wakeups!Next]_Wakeups!vars
  <2>1. CASE RunHook(r)
    <3>1. request[r].hooks \in Seq(Operands) /\ request[r].hooks # <<>>
      BY <2>1 DEF IInv, TypeOK, Transactions, RunHook
    <3>2. Head(request[r].hooks) \in Operands
      BY <3>1, Taken
    <3> QED BY <2>1, <3>2, AddWakesUp DEF RunHook
  <2>2. CASE ~RunHook(r)
    BY <1>1, <2>2, QuietTransaction
  <2> QED BY <2>1, <2>2
<1>2. ASSUME NEW s \in Scans, Scan(s) PROVE [Wakeups!Next]_Wakeups!vars
  <2>1. CASE Enlist(s)
    <3>1. scan[s].list \subseteq Operands
      BY DEF IInv, TypeOK
    <3> QED BY <2>1, <3>1, AddWakesUp DEF Enlist
  <2>2. CASE ~Enlist(s)
    BY <1>2, <2>2, QuietScan
  <2> QED BY <2>1, <2>2
<1>3. ASSUME NEW g \in Goroutines, Goroutine(g) PROVE [Wakeups!Next]_Wakeups!vars
  BY <1>3, GetTakes, DoneFinishes, QuietGoroutine DEF Goroutine
<1>4. ASSUME NEW o \in Operands, Due(o) PROVE [Wakeups!Next]_Wakeups!vars
  BY <1>4, WakingUp DEF Due
<1>5. CASE RestartStopped \/ Crash
  BY <1>5, RestartForgets DEF RestartStopped, Crash
<1>6. CASE Tick \/ StartGoroutines \/ Stop \/ UNCHANGED vars
  BY <1>6, QuietProcess
<1> QED BY <1>1, <1>2, <1>3, <1>4, <1>5, <1>6 DEF Next

\* No operand is executed by two goroutines at a time (what maxConcurrentReconciles
\* relies on), and the marks of the workqueue say what it holds and has handed out.
THEOREM NotTwiceAtATime == Spec => []OneAtATime
<1>1. IInv => OneAtATime
  BY DEF IInv
<1> QED
  BY <1>1, Invariance, PTL

\* The queue of a worker is a set of wakeups: each is executed by one goroutine, not
\* while another one executes the operand, and none leaves the set otherwise.
THEOREM WakeupsImplemented == Spec => ImplementsWakeups
<1>1. Init => Wakeups!Init
  <2> SUFFICES ASSUME Init PROVE Wakeups!Init
    OBVIOUS
  <2>1. \A g \in Goroutines : worker[g].pc = "off"
    BY DEF Init, Off
  <2>2. HandedOut = [g \in Goroutines |-> {}]
    BY <2>1 DEF HandedOut, Busy
  <2> QED BY <2>2 DEF Init, Wakeups!Init
<1>2. IInv /\ [Next]_vars => [Wakeups!Next]_Wakeups!vars
  BY StepOfWakeups
<1>3. Spec => Wakeups!Spec
  BY <1>1, <1>2, Invariance, PTL DEF Spec, Wakeups!Spec
<1> QED BY <1>3 DEF ImplementsWakeups
=============================================================================
