-------------------------- MODULE ReleaseDeadline --------------------------
(***************************************************************************)
(* The two clocks that end a release which makes no progress               *)
(* (pkg/worker/release/deadline_reconciler.go): one from its creation, one *)
(* from the moment its builds are done, kept in the row of the release     *)
(* (SetConvergeClockStartedAt, pkg/stores/pgstore/stack_release.go). Time  *)
(* is counted from the creation. ReleaseWorker has a flag in place of both.*)
(***************************************************************************)
EXTENDS Naturals

CONSTANTS
  Builds,              \* builds the snapshot expects
  convergenceTimeout,  \* how long a release may take to converge after its builds
  releaseLifetimeCap,  \* how long it may take in all
  MaxTime,             \* bound on time
  MaxFailures          \* bound on executions that fail

VARIABLES
  now,         \* time since the creation of the release
  state,       \* state of the release
  builds,      \* each build as its row has it: not there, running or terminal
  clock,       \* ConvergeClockStartedAt, or NoClock
  worker,      \* the step the execution is at, with the clock it has loaded
  failures,    \* executions that failed so far
  doneAt,      \* history: when the last build ended
  noticed,     \* history: an execution has seen the builds run since one of them began
  overlooked,  \* history: a build began and ended beside a clock that was running
  lasted       \* history: time since doneAt when the second clock failed the release

row == <<state, clock>>
history == <<doneAt, noticed, overlooked, lasted>>
vars == <<now, builds, row, worker, failures, history>>

\* nil
NoClock == MaxTime + 1
Times == 0..MaxTime
Clocks == Times \cup {NoClock}
Idle == [at |-> "idle", clock |-> NoClock]

TypeOK ==
  /\ now \in Times /\ doneAt \in Times /\ lasted \in Clocks
  /\ state \in {"InProgress", "Failed", "Released"}
  /\ builds \in [Builds -> {"none", "running", "done"}]
  /\ clock \in Clocks
  /\ worker \in [at : {"idle", "loaded", "stamp", "clear", "expired", "capped"}, clock : Clocks]
  /\ failures \in 0..MaxFailures
  /\ noticed \in BOOLEAN /\ overlooked \in BOOLEAN

Init ==
  /\ now = 0 /\ state = "InProgress" /\ clock = NoClock
  /\ builds = [b \in Builds |-> "none"]
  /\ worker = Idle /\ failures = 0
  /\ doneAt = 0 /\ noticed = FALSE /\ overlooked = FALSE /\ lasted = NoClock

\* buildPhase: a build that has not appeared counts only while none has.
Running == \E b \in Builds : builds[b] = "running"
NotAppearedYet == Builds # {} /\ \A b \in Builds : builds[b] = "none"
BuildsDone == ~Running /\ ~NotAppearedYet

-----------------------------------------------------------------------------
\* Execute loads the release; one that is not in progress is left alone.
Load ==
  /\ worker.at = "idle"
  /\ state = "InProgress"
  /\ worker' = [at |-> "loaded", clock |-> clock]
  /\ UNCHANGED <<now, builds, row, failures, history>>

\* Seeded fault: the cap is looked at after a build that has not appeared.
DecidedBuildsFirst ==
  CASE now > releaseLifetimeCap /\ ~NotAppearedYet -> "capped"
    [] now <= releaseLifetimeCap /\ Running /\ worker.clock # NoClock -> "clear"
    [] now <= releaseLifetimeCap /\ BuildsDone /\ worker.clock = NoClock -> "stamp"
    [] now <= releaseLifetimeCap /\ BuildsDone /\ worker.clock # NoClock
         /\ now > worker.clock + convergenceTimeout -> "expired"
    [] OTHER -> "idle"

\* Reconcile: the cap, and then what the phase of the builds asks for.
Decided ==
  CASE now > releaseLifetimeCap -> "capped"
    [] now <= releaseLifetimeCap /\ Running /\ worker.clock # NoClock -> "clear"
    [] now <= releaseLifetimeCap /\ BuildsDone /\ worker.clock = NoClock -> "stamp"
    [] now <= releaseLifetimeCap /\ BuildsDone /\ worker.clock # NoClock
         /\ now > worker.clock + convergenceTimeout -> "expired"
    [] OTHER -> "idle"

Decide ==
  /\ worker.at = "loaded"
  /\ worker' = [worker EXCEPT !.at = Decided]
  /\ noticed' = (noticed \/ (Running /\ worker.clock = NoClock))
  /\ UNCHANGED <<now, builds, row, failures, doneAt, overlooked, lasted>>

Stamp ==
  /\ worker.at = "stamp"
  /\ clock' = IF state = "InProgress" THEN now ELSE clock
  /\ worker' = Idle
  /\ UNCHANGED <<now, builds, state, failures, history>>

\* Seeded fault: the clock goes on while the builds run.
ClearNothing ==
  /\ worker.at = "clear"
  /\ noticed' = TRUE
  /\ worker' = Idle
  /\ UNCHANGED <<now, builds, row, failures, doneAt, overlooked, lasted>>

Clear ==
  /\ worker.at = "clear"
  /\ clock' = IF state = "InProgress" THEN NoClock ELSE clock
  /\ noticed' = TRUE
  /\ worker' = Idle
  /\ UNCHANGED <<now, builds, state, failures, doneAt, overlooked, lasted>>

\* MarkFailed.
Fail ==
  /\ worker.at \in {"expired", "capped"}
  /\ state' = IF state = "InProgress" THEN "Failed" ELSE state
  /\ lasted' = IF state = "InProgress" /\ worker.at = "expired" /\ ~Running
               THEN now - doneAt ELSE lasted
  /\ worker' = Idle
  /\ UNCHANGED <<now, builds, clock, failures, doneAt, noticed, overlooked>>

Aborts ==
  /\ worker.at # "idle"
  /\ failures < MaxFailures
  /\ failures' = failures + 1
  /\ worker' = Idle
  /\ UNCHANGED <<now, builds, row, history>>

Worker == Load \/ Decide \/ Stamp \/ Clear \/ Fail \/ Aborts

-----------------------------------------------------------------------------
\* The agent creates the builds and reports on them, one after the other or at once.
BuildBegins(b) ==
  /\ state = "InProgress"
  /\ builds[b] = "none"
  /\ builds' = [builds EXCEPT ![b] = "running"]
  /\ noticed' = (noticed /\ Running)
  /\ UNCHANGED <<now, row, worker, failures, doneAt, overlooked, lasted>>

BuildEnds(b) ==
  /\ builds[b] = "running"
  /\ builds' = [builds EXCEPT ![b] = "done"]
  /\ doneAt' = now
  /\ overlooked' = (overlooked \/ (clock # NoClock /\ ~noticed))
  /\ UNCHANGED <<now, row, worker, failures, noticed, lasted>>

\* The release converges, or another reconciler ends it.
Ends ==
  /\ state = "InProgress"
  /\ state' = "Released"
  /\ UNCHANGED <<now, builds, clock, worker, failures, history>>

Tick ==
  /\ now < MaxTime
  /\ now' = now + 1
  /\ UNCHANGED <<builds, row, worker, failures, history>>

Next == Worker \/ Tick \/ Ends \/ \E b \in Builds : BuildBegins(b) \/ BuildEnds(b)

Fairness == WF_vars(Worker) /\ WF_vars(Tick)

Spec == Init /\ [][Next]_vars /\ Fairness

-----------------------------------------------------------------------------
\* "A slow build never eats the deploy phase's window" (deadline_reconciler.go): a
\* release that failed to converge had the whole timeout since its last build ended,
\* unless that build ran and ended between two executions.
DeployWindowKept ==
  TypeOK /\ (lasted # NoClock /\ ~overlooked => lasted > convergenceTimeout)

\* A release in progress ends, also when no build ever appears or none ends.
DeadlineEnforced == ~<>[](state = "InProgress")
=============================================================================
