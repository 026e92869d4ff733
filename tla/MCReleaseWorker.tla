------------------------- MODULE MCReleaseWorker -------------------------
(* Small instances of ReleaseWorker for TLC. *)
EXTENDS ReleaseWorker

\* Every deploy has every resource: two releases contend for each object.
SameResources == [r \in Releases |-> Resources]

\* The last deploy has no resources: it prunes what those before it apply.
LastPrunes == [r \in Releases |-> IF r < MaxReleases THEN Resources ELSE {}]

\* Liveness is checked on the behaviours without a deletion or a failed build:
\* neither is needed for a release to end.
QuietCluster == deleter.pc = "idle" /\ buildFailed = [r \in Releases |-> FALSE]

\* Three releases: what it takes three for is two of them updating the same Stack
\* object, for which no deadline has to pass either.
QuietTime == QuietCluster /\ overdue = [r \in Releases |-> FALSE]
=============================================================================
