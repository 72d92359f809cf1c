---------------------------- MODULE SingleFlight ----------------------------
(***************************************************************************)
(* What the lock of `pn workspace build` and `pn workspace apply` promises *)
(* (modules/pn/README.md, "Single-flight lock"): which runs may be inside  *)
(* the locked region of Workspace.rebuild at once.  No file, flock, record *)
(* or retry appears here; module RebuildLock implements this.              *)
(***************************************************************************)
CONSTANTS Runs,   \* pn processes, each one invocation of build or apply
          Roots   \* workspace roots (the canonical one and workforest sets)

VARIABLES verb, root, phase

vars == <<verb, root, phase>>

Verbs  == {"apply", "build"}
Phases == {"waiting", "running", "over"}

Init ==
    /\ verb \in [Runs -> Verbs]
    /\ root \in [Runs -> Roots]
    /\ phase = [p \in Runs |-> "waiting"]

Running == {p \in Runs : phase[p] = "running"}

\* The asymmetry of the two keys: an apply is refused by any apply, and by a
\* build of its own root only; a build is refused by every apply of the host.
Blocks(q, p) == \/ verb[q] = "apply"
                \/ root[q] = root[p]

Enter(p) ==
    /\ phase[p] = "waiting"
    /\ \A q \in Running : ~Blocks(q, p)
    /\ phase' = [phase EXCEPT ![p] = "running"]
    /\ UNCHANGED <<verb, root>>

Leave(p) ==
    /\ phase[p] # "over"
    /\ phase' = [phase EXCEPT ![p] = "over"]
    /\ UNCHANGED <<verb, root>>

Next == \E p \in Runs : Enter(p) \/ Leave(p)

Spec == Init /\ [][Next]_vars

TypeOK ==
    /\ verb \in [Runs -> Verbs]
    /\ root \in [Runs -> Roots]
    /\ phase \in [Runs -> Phases]

\* At most one apply is running on the host, from whatever root.
OneApply == \A p, q \in Running : verb[p] = "apply" /\ verb[q] = "apply" => p = q

\* At most one run, of either verb, is running in a workspace root.
OneRunPerRoot == \A p, q \in Running : root[p] = root[q] => p = q
=============================================================================
