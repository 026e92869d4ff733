--------------------------- MODULE MCReleaseGC ---------------------------
(* Small instances of ReleaseGC for TLC. *)
EXTENDS ReleaseGC

Pair(limit, min) == [limit |-> limit, minSuccessful |-> min]

\* More releases are kept than successful ones, as the defaults do, or no more.
RoomyAndTight == {Pair(2, 1), Pair(3, 2), Pair(2, 2), Pair(1, 2)}
=============================================================================
