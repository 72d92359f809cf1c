---------------------------- MODULE MCRebuildLock ----------------------------
(* Instances of RebuildLock for TLC. *)
EXTENDS RebuildLock

CONSTANTS p1, p2, r1, r2

MCTwoRuns == {p1, p2}
MCRoots == {r1, r2}
MCWaits == {WaitForever, 0, 1}
=============================================================================
