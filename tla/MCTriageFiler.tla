----------------------------- MODULE MCTriageFiler -----------------------------
(* Instances of TriageFiler for TLC. *)
EXTENDS TriageFiler, TLC

CONSTANTS p1, p2, f1, f2, f3, w1, w2

MCPkgs == {p1, p2}
MCFiles == {f1, f2, f3}
MCWorkers == {w1, w2}
MCPkgOf == (f1 :> p1) @@ (f2 :> p1) @@ (f3 :> p2)

\* What decides the rest of a behaviour: not the reports and the bodies, which
\* are only written, nor the job of an idle worker and the key of no decision.
View ==
    <<version, records, pc, holder, todo, step, filer, markers, torn, beads, lost,
      unsure, missed, faults,
      [w \in Workers |-> IF pc[w] = "idle" THEN <<>> ELSE <<job[w], goal[w]>>],
      IF step = "next" THEN <<>> ELSE <<cur>> >>

Symmetry == Permutations(MCWorkers) \cup Permutations({f1, f2})
=============================================================================
