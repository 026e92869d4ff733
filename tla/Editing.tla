------------------------------ MODULE Editing ------------------------------
(* StackEdits under a name of its own, so that other components can stand      *)
(* beside it: in the instances that TLC checks and in the proofs.              *)

EXTENDS Naturals, FiniteSets

CONSTANTS
  Resources, Connections, VolumeNames, EditRequests, Cloud, MaxResources, MaxVolumes

\* The policies have numbers for limits, and what a stack holds can be counted.
ASSUME LimitsAssumption == MaxResources \in Nat /\ MaxVolumes \in Nat
ASSUME ItemsAssumption ==
  IsFiniteSet(Resources) /\ IsFiniteSet(Connections) /\ Resources \cap Connections = {}

VARIABLES
  draft, volumes, refs, gripped, secrets, deleting, edit, stale, crossed, editRaced

Edits == INSTANCE StackEdits WITH
  request <- edit, raced <- editRaced, Requests <- EditRequests

editVars == <<draft, volumes, refs, gripped, secrets, deleting, edit, stale, crossed, editRaced>>

-----------------------------------------------------------------------------
\* Edits of a stack at the same time do not exceed the limit together, but for a
\* replacement on an outdated copy.
QuotaKept == Edits!QuotaKept

\* Two volumes have one name only after a whole stack was replaced on an outdated copy.
VolumeNamesUnique == Edits!VolumeNamesUnique

\* The reference rows of the draft are those of its connections.
ReferencesMatchDraft == Edits!ReferencesMatchDraft

\* A secret in use is kept, unless its use slipped past the check.
UsedSecretsKept == Edits!UsedSecretsKept
=============================================================================
