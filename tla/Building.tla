------------------------------ MODULE Building ------------------------------
(* BuildMirror and ReleaseDeadline, which do not meet, each under a name of its *)
(* own, so that they can stand beside other components.                         *)
EXTENDS Naturals

CONSTANTS
  MaxMirrorFailures,
  \* ReleaseDeadline
  Builds, convergenceTimeout, releaseLifetimeCap, MaxTicks, MaxDeadlineFailures

ASSUME TimesAssumption == convergenceTimeout \in Nat
ASSUME TicksAssumption ==
  MaxMirrorFailures \in Nat /\ MaxTicks \in Nat /\ MaxDeadlineFailures \in Nat

VARIABLES
  \* BuildMirror
  cr, build, rowStatus, buildRow, resourceQueued, buildQueued, resourceCtl, buildCtl,
  mirrorFailures, mirrorCrossed, unseen, hidden,
  \* ReleaseDeadline
  now, releaseState, builds, releaseClock, deadlineWorker, deadlineFailures, doneAt, noticed,
  overlooked, lasted

Mirror == INSTANCE BuildMirror WITH
  status <- rowStatus, failures <- mirrorFailures, crossed <- mirrorCrossed,
  MaxFailures <- MaxMirrorFailures

Deadline == INSTANCE ReleaseDeadline WITH
  state <- releaseState, clock <- releaseClock, worker <- deadlineWorker,
  failures <- deadlineFailures, MaxTime <- MaxTicks, MaxFailures <- MaxDeadlineFailures

mirrorVars == <<cr, build, rowStatus, buildRow, resourceQueued, buildQueued, resourceCtl,
                buildCtl, mirrorFailures, mirrorCrossed, unseen, hidden>>
deadlineVars == <<now, releaseState, builds, releaseClock, deadlineWorker, deadlineFailures,
                  doneAt, noticed, overlooked, lasted>>

-----------------------------------------------------------------------------
\* BuildMirror: a failed build that was recorded is shown on its resource.
FailureShown == Mirror!FailureShown

\* ReleaseDeadline: a release fails to converge only after the whole timeout since its
\* last build ended.
DeployWindowKept == Deadline!DeployWindowKept
=============================================================================
