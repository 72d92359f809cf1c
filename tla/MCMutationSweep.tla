---------------------------- MODULE MCMutationSweep ----------------------------
(* Instances of MutationSweep for TLC. *)
EXTENDS MutationSweep

CONSTANTS f1, f2, w1, w2

MCFiles == {f1, f2}
MCWorkers == {w1, w2}
=============================================================================
