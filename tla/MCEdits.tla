------------------------------ MODULE MCEdits ------------------------------
(* Small instances, for TLC, of two components whose calls take turns on the row *)
(* of an organisation or of a stack: ClusterRegistry, and StackEdits with the    *)
(* self-hosted policy. Each behaviour is one of the component that "component"   *)
(* names, and the other stands still.                                            *)
EXTENDS ClusterRegistry, Editing, TLC

VARIABLE component

EditsInit == component \in {"registry", "edits"} /\ Init /\ Edits!Init

EditsNext ==
  /\ UNCHANGED component
  /\ IF component = "registry" THEN Next ELSE UNCHANGED vars
  /\ IF component = "edits" THEN Edits!Next ELSE UNCHANGED editVars

EditsSpec == EditsInit /\ [][EditsNext]_<<component, vars, editVars>>

\* No identifier or name is special in either specification.
Symmetry ==
  UNION {Permutations(S) : S \in {Requests, Clusters, Registries, Resources, Connections}}
=============================================================================
