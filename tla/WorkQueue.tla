---------------------------- MODULE WorkQueue ----------------------------
(***************************************************************************)
(* How a committed change reaches an execution of a worker: transactions   *)
(* with post-commit hooks, the worker manager and the queue of one worker  *)
(* (pkg/db/session.go, pkg/stores/pgstore/atomic_executor_impl.go,         *)
(* pkg/worker/worker_base.go, pkg/worker/workermanager/worker_manager.go). *)
(*                                                                         *)
(* An operand names a row that the worker brings the world in line with.   *)
(* "behind" are the operands with a committed change that no finished      *)
(* execution has seen; the executions themselves are the subject of the    *)
(* other modules.  The queue is client-go's: Add, Get, Done and AddAfter   *)
(* are modelled as that library documents them.  Delays are not: an        *)
(* operand that waits, after an error or by request, is added at any time. *)
(***************************************************************************)
EXTENDS Naturals, Sequences, SequencesExt

CONSTANTS
  Operands,    \* keys of one worker's queue
  Goroutines,  \* drain the queue (maxConcurrentReconciles)
  Requests,    \* goroutines of handlers, controllers and other workers
  Listed,      \* the operands whose changes GetInput finds
  Periodic,    \* whether the worker has an Interval
  MaxCrashes   \* bound on the crashes of the process

ASSUME OperandsAssumption == Operands # {}
ASSUME ListedAssumption == Listed \subseteq Operands
ASSUME PeriodicAssumption == Periodic \in BOOLEAN
ASSUME MaxCrashesAssumption == MaxCrashes \in Nat

VARIABLES
  behind,      \* operands with a change no finished execution has seen
  queue,       \* of the workqueue: operands ready to be handed out
  dirty,       \* of the workqueue: operands that need to be processed
  processing,  \* of the workqueue: operands handed out
  later,       \* of the workqueue: operands that wait for their time
  closing,     \* the queue has been shut down
  worker,      \* worker[g]: what goroutine g does
  request,     \* request[r]: the transaction of r and the hooks it registered
  scan,        \* scan[s]: the startup scan and the periodic one
  crashes,     \* crashes so far
  lost         \* history: operands whose wakeup was lost to a fault

vars == <<behind, queue, dirty, processing, later, closing, worker, request, scan,
          crashes, lost>>
workqueue == <<queue, dirty, processing, later, closing>>

\* "current": the row was loaded after its last change.
Executions == [pc : {"off", "get", "load", "run", "done"},
               operand : Operands, current : BOOLEAN]
Off == [pc |-> "off", operand |-> CHOOSE o \in Operands : TRUE, current |-> FALSE]
Idle == [Off EXCEPT !.pc = "get"]

\* "depth" counts the calls of WithTransaction that have not returned.
Transactions == [pc : {"idle", "open", "hooks"}, depth : 0..2,
                 written : SUBSET Operands, hooks : Seq(Operands)]
NoTransaction == [pc |-> "idle", depth |-> 0, written |-> {}, hooks |-> <<>>]

Scans == {"startup", "periodic"}
ScansAtStart == [s \in Scans |-> [pc |-> IF s = "startup" THEN "due" ELSE "wait", list |-> {}]]

TypeOK ==
  /\ behind \subseteq Operands /\ lost \subseteq Operands
  /\ queue \in Seq(Operands)
  /\ dirty \subseteq Operands /\ processing \subseteq Operands /\ later \subseteq Operands
  /\ closing \in BOOLEAN
  /\ worker \in [Goroutines -> Executions]
  /\ request \in [Requests -> Transactions]
  /\ scan \in [Scans -> [pc : {"wait", "due", "enlist", "ended"}, list : SUBSET Operands]]
  /\ crashes \in Nat

Fresh ==
  /\ queue' = <<>> /\ dirty' = {} /\ processing' = {} /\ later' = {} /\ closing' = FALSE
  /\ worker' = [g \in Goroutines |-> Off]
  /\ request' = [r \in Requests |-> NoTransaction]
  /\ scan' = ScansAtStart

Init ==
  /\ behind \in SUBSET Operands
  /\ queue = <<>> /\ dirty = {} /\ processing = {} /\ later = {} /\ closing = FALSE
  /\ worker = [g \in Goroutines |-> Off]
  /\ request = [r \in Requests |-> NoTransaction]
  /\ scan = ScansAtStart
  /\ crashes = 0
  /\ lost = behind \ Listed

-----------------------------------------------------------------------------
(***************************************************************************)
(* The queue.  Add does nothing once the queue is shut down or the operand *)
(* is already dirty; an operand in processing is queued again by Done.     *)
(***************************************************************************)
Add(o) ==
  /\ dirty' = IF closing THEN dirty ELSE dirty \cup {o}
  /\ queue' = IF closing \/ o \in dirty \cup processing THEN queue ELSE Append(queue, o)
  /\ lost' = lost \ {o}
  /\ UNCHANGED <<processing, later, closing>>

AddAfter(o) == later' = IF closing THEN later ELSE later \cup {o}

\* An operand's time has come.  The goroutine that does this ends with the queue.
Due(o) ==
  /\ ~closing
  /\ o \in later
  /\ later' = later \ {o}
  /\ dirty' = dirty \cup {o}
  /\ queue' = IF o \in dirty \cup processing THEN queue ELSE Append(queue, o)
  /\ UNCHANGED <<behind, processing, closing, worker, request, scan, crashes, lost>>

-----------------------------------------------------------------------------
(***************************************************************************)
(* Transactions.  Only the outermost WithTransaction begins and commits;   *)
(* an error or a panic below it rolls the whole of it back.                *)
(***************************************************************************)
Others == <<behind, workqueue, worker, scan, crashes, lost>>

WithTransaction(r) ==
  /\ \/ request[r].pc = "idle"
     \/ request[r].pc = "open" /\ request[r].depth < 2
  /\ request' = [request EXCEPT ![r].pc = "open", ![r].depth = @ + 1]
  /\ UNCHANGED Others

\* A service changes the row of o and calls EnqueueAfterCommit.
Write(r, o) ==
  /\ request[r].pc = "open"
  /\ o \notin request[r].written
  /\ request' = [request EXCEPT ![r].written = @ \cup {o}, ![r].hooks = Append(@, o)]
  /\ UNCHANGED Others

Rollback(r) ==
  /\ request[r].pc = "open"
  /\ request' = [request EXCEPT ![r] = NoTransaction]
  /\ UNCHANGED Others

ReturnNested(r) ==
  /\ request[r].pc = "open"
  /\ request[r].depth = 2
  /\ request' = [request EXCEPT ![r].depth = 1]
  /\ UNCHANGED Others

\* The rows change under the executions that have loaded them.
Committed(written) ==
  /\ behind' = behind \cup written
  /\ worker' = [g \in Goroutines |->
                  IF worker[g].operand \in written
                    THEN [worker[g] EXCEPT !.current = FALSE] ELSE worker[g]]

Commit(r) ==
  /\ request[r].pc = "open"
  /\ request[r].depth = 1
  /\ Committed(request[r].written)
  /\ request' = [request EXCEPT ![r].pc = "hooks", ![r].depth = 0, ![r].written = {}]
  /\ UNCHANGED <<workqueue, scan, crashes, lost>>

\* COMMIT is executed but its answer is lost: the error skips the hooks.
CommitUnknown(r) ==
  /\ request[r].pc = "open"
  /\ request[r].depth = 1
  /\ Committed(request[r].written)
  /\ request' = [request EXCEPT ![r] = NoTransaction]
  /\ lost' = lost \cup request[r].written
  /\ UNCHANGED <<workqueue, scan, crashes>>

\* PostCommitHooks.Run calls the hooks one after the other.
RunHook(r) ==
  /\ request[r].pc = "hooks"
  /\ request[r].hooks # <<>>
  /\ Add(Head(request[r].hooks))
  /\ request' = [request EXCEPT ![r].hooks = Tail(@)]
  /\ UNCHANGED <<behind, worker, scan, crashes>>

HooksEnd(r) ==
  /\ request[r].pc = "hooks"
  /\ request[r].hooks = <<>>
  /\ request' = [request EXCEPT ![r] = NoTransaction]
  /\ UNCHANGED Others

-----------------------------------------------------------------------------
(***************************************************************************)
(* The worker manager.                                                     *)
(***************************************************************************)
\* What a scan goes on with once it has enqueued "list".
Scanning(s, list) ==
  scan' = [scan EXCEPT ![s] =
             [pc |-> IF list # {} THEN "enlist" ELSE IF s = "startup" THEN "ended" ELSE "wait",
              list |-> list]]

\* GetInput lists the operands, which are enqueued one by one.
List(s) ==
  /\ scan[s].pc = "due"
  /\ Scanning(s, behind \cap Listed)
  /\ UNCHANGED <<behind, workqueue, worker, request, crashes, lost>>

Enlist(s) ==
  /\ \E o \in scan[s].list : Add(o) /\ Scanning(s, scan[s].list \ {o})
  /\ UNCHANGED <<behind, worker, request, crashes>>

\* Seeded fault: an error ends the goroutine of the periodic scan.
ListFailsForGood(s) ==
  /\ scan[s].pc = "due"
  /\ scan' = [scan EXCEPT ![s].pc = "ended"]
  /\ lost' = IF s = "startup" THEN lost \cup ((behind \cap Listed) \ dirty) ELSE lost
  /\ UNCHANGED <<behind, workqueue, worker, request, crashes>>

\* An error is logged.  The startup scan is not repeated.
ListFails(s) ==
  /\ scan[s].pc = "due"
  /\ Scanning(s, {})
  /\ lost' = IF s = "startup" THEN lost \cup ((behind \cap Listed) \ dirty) ELSE lost
  /\ UNCHANGED <<behind, workqueue, worker, request, crashes>>

Tick ==
  /\ Periodic
  /\ ~closing
  /\ scan["periodic"].pc = "wait"
  /\ scan' = [scan EXCEPT !["periodic"].pc = "due"]
  /\ UNCHANGED <<behind, workqueue, worker, request, crashes, lost>>

\* The goroutines start when the startup scan has been enqueued.
StartGoroutines ==
  /\ \A g \in Goroutines : worker[g].pc = "off"
  /\ ~closing
  /\ scan["startup"].pc = "ended"
  /\ worker' = [g \in Goroutines |-> Idle]
  /\ UNCHANGED <<behind, workqueue, request, scan, crashes, lost>>

\* Seeded fault: an operand is done as soon as it is handed out.
GetAndDone(g) ==
  /\ worker[g].pc = "get"
  /\ queue # <<>>
  /\ queue' = Tail(queue)
  /\ dirty' = dirty \ {Head(queue)}
  /\ worker' = [worker EXCEPT ![g] = [pc |-> "load", operand |-> Head(queue), current |-> FALSE]]
  /\ UNCHANGED <<behind, processing, later, closing, request, scan, crashes, lost>>

Get(g) ==
  /\ worker[g].pc = "get"
  /\ queue # <<>>
  /\ queue' = Tail(queue)
  /\ dirty' = dirty \ {Head(queue)}
  /\ processing' = processing \cup {Head(queue)}
  /\ worker' = [worker EXCEPT ![g] = [pc |-> "load", operand |-> Head(queue), current |-> FALSE]]
  /\ UNCHANGED <<behind, later, closing, request, scan, crashes, lost>>

Load(g) ==
  /\ worker[g].pc = "load"
  /\ worker' = [worker EXCEPT ![g].pc = "run", ![g].current = TRUE]
  /\ UNCHANGED <<behind, workqueue, request, scan, crashes, lost>>

\* Execute returns with nothing left to do for the row it loaded: Forget.
Succeed(g) ==
  /\ worker[g].pc = "run"
  /\ worker' = [worker EXCEPT ![g].pc = "done"]
  /\ behind' = IF worker[g].current THEN behind \ {worker[g].operand} ELSE behind
  /\ lost' = IF worker[g].current THEN lost \ {worker[g].operand} ELSE lost
  /\ UNCHANGED <<workqueue, request, scan, crashes>>

\* Seeded fault: an execution that fails is forgotten.
ComeBackForgets(g) ==
  /\ worker[g].pc \in {"load", "run"}
  /\ worker' = [worker EXCEPT ![g].pc = "done"]
  /\ UNCHANGED <<behind, workqueue, request, scan, crashes, lost>>

\* Execute returns an error, panics or asks to be called again, before or after
\* it has loaded the row: AddRateLimited or EnqueueAfter, and then Done.
ComeBack(g) ==
  /\ worker[g].pc \in {"load", "run"}
  /\ AddAfter(worker[g].operand)
  /\ worker' = [worker EXCEPT ![g].pc = "done"]
  /\ UNCHANGED <<behind, queue, dirty, processing, closing, request, scan, crashes, lost>>

Done(g) ==
  /\ worker[g].pc = "done"
  /\ processing' = processing \ {worker[g].operand}
  /\ queue' = IF worker[g].operand \in dirty THEN Append(queue, worker[g].operand) ELSE queue
  /\ worker' = [worker EXCEPT ![g] = Idle]
  /\ UNCHANGED <<behind, dirty, later, closing, request, scan, crashes, lost>>

\* Stop: the queue hands out what it has and takes nothing new.
Stop ==
  /\ ~closing
  /\ crashes < MaxCrashes
  /\ crashes' = crashes + 1
  /\ closing' = TRUE
  /\ UNCHANGED <<behind, queue, dirty, processing, later, worker, request, scan, lost>>

\* A new process.  The database rolls back what was open; hooks are gone.
Restart ==
  /\ Fresh
  /\ lost' = behind \ Listed
  /\ UNCHANGED behind

RestartStopped == closing /\ Restart /\ UNCHANGED crashes

Crash == crashes < MaxCrashes /\ Restart /\ crashes' = crashes + 1

-----------------------------------------------------------------------------
Transaction(r) ==
  \/ WithTransaction(r) \/ (\E o \in Operands : Write(r, o)) \/ Rollback(r)
  \/ ReturnNested(r) \/ Commit(r) \/ CommitUnknown(r) \/ RunHook(r) \/ HooksEnd(r)

Scan(s) == List(s) \/ Enlist(s) \/ ListFails(s)

Goroutine(g) ==
  Get(g) \/ Load(g) \/ Succeed(g) \/ ComeBack(g) \/ Done(g)

Next ==
  \/ \E r \in Requests : Transaction(r)
  \/ \E s \in Scans : Scan(s)
  \/ Tick
  \/ StartGoroutines
  \/ \E g \in Goroutines : Goroutine(g)
  \/ \E o \in Operands : Due(o)
  \/ Stop
  \/ RestartStopped
  \/ Crash

Spec == Init /\ [][Next]_vars

LoadOf(o) == \E g \in Goroutines : worker[g].operand = o /\ Load(g)
Handle(o) == \E g \in Goroutines :
  worker[g].operand = o /\ worker[g].current /\ Succeed(g)

\* Goroutines, the manager and the queue go on; a query and an execution that
\* are repeated for ever succeed at last, also when the row changes meanwhile.
\* Nothing is assumed of requests: their hooks may never run.
Fairness ==
  /\ WF_vars(StartGoroutines)
  /\ \A g \in Goroutines : WF_vars(Goroutine(g))
  /\ \A o \in Operands : WF_vars(Due(o)) /\ SF_vars(LoadOf(o)) /\ SF_vars(Handle(o))
  /\ WF_vars(Scan("startup")) /\ WF_vars(Enlist("periodic"))
  /\ SF_vars(List("periodic")) /\ WF_vars(Tick)
  /\ WF_vars(RestartStopped)

FairSpec == Spec /\ Fairness

-----------------------------------------------------------------------------
(***************************************************************************)
(* Properties.                                                             *)
(***************************************************************************)
Busy(g) == worker[g].pc \in {"load", "run", "done"}
Executing(o) == {g \in Goroutines : Busy(g) /\ worker[g].operand = o}

\* The execution of g has still to load its row or has loaded what it is now.
WillSee(g) ==
  \/ worker[g].pc = "load"
  \/ worker[g].pc = "run" /\ worker[g].current

Hooked(r, o) == request[r].pc = "hooks" /\ o \in ToSet(request[r].hooks)

\* Somebody will see the change of o.
Woken(o) ==
  \/ o \in dirty \cup later
  \/ \E g \in Executing(o) : WillSee(g)
  \/ \E r \in Requests : Hooked(r, o)
  \/ scan["startup"].pc = "due" /\ o \in Listed
  \/ \E s \in Scans : o \in scan[s].list

\* No wakeup is lost but to a crash, a shutdown, a failed startup query or an
\* unknown outcome of COMMIT: whatever the interleaving of a change with the
\* executions of its operand, one that loads the changed row is still to come.
WakeupKept == closing \/ \A o \in behind \ lost : Woken(o)

\* What the workqueue promises the workers, as the comment on
\* maxConcurrentReconciles says: no operand is executed twice at a time.
OneAtATime ==
  /\ \A o \in Operands : \A g, h \in Executing(o) : g = h
  /\ processing = {worker[g].operand : g \in {h \in Goroutines : Busy(h)}}
  /\ IsInjective(queue)
  /\ ToSet(queue) = dirty \ processing

\* What each goroutine has been handed out.
HandedOut == [g \in Goroutines |-> IF Busy(g) THEN {worker[g].operand} ELSE {}]

Wakeups == INSTANCE WakeupQueue WITH pending <- dirty, executing <- HandedOut

\* The queue, its marks and the goroutines that drain it behave as a set of wakeups
\* does: no operand is executed twice at a time, one that is woken up meanwhile is
\* executed again, and no wakeup leaves the set but for an execution.
ImplementsWakeups == Wakeups!Spec

\* Every change of an open transaction has its hook.
HooksOfWrites ==
  \A r \in Requests :
    /\ request[r].pc = "open" => request[r].written = ToSet(request[r].hooks)
    /\ request[r].pc = "idle" => request[r] = NoTransaction

\* A scan has a list only while it enqueues it.
ScansInOrder == \A s \in Scans : scan[s].pc # "enlist" => scan[s].list = {}

\* The inductive invariant of the proofs.
IInv == TypeOK /\ OneAtATime /\ HooksOfWrites /\ ScansInOrder /\ WakeupKept

\* A periodic worker handles every change that GetInput lists, however many
\* hooks, enqueues and processes were lost.
EveryChangeHandled ==
  Periodic => \A o \in Listed : o \in behind ~> o \notin behind
=============================================================================
