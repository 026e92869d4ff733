------------------------- MODULE MCReleaseEvents -------------------------
(* Small instances of ReleaseEvents for TLC. *)
EXTENDS ReleaseEvents

CONSTANTS w1, w2

MCWriters == {w1, w2}
MCReports == {"ready"}
=============================================================================
