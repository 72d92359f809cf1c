--------------------------- MODULE DependenciesFirst ---------------------------
(***************************************************************************)
(* What pn workspace push promises of the remotes (push.go,                *)
(* propagate.go): a run publishes in the order of its walk, and what it    *)
(* publishes pins each declared sibling at a published version, as new as  *)
(* the run found it, or published it before.  No clone, tree, index,       *)
(* relock, commit or failure appears here; Publish implements it.          *)
(***************************************************************************)
EXTENDS Naturals

CONSTANTS Repos,
          Deps,   \* the siblings that a flake declares
          Orders  \* of the walk: what each puts before a repository

VARIABLES
    remote, pinned,     \* at the remote: version of main, and what it pins
    walking,            \* a run is under way:
    edges, earlier,     \* the siblings of each repository, and what comes before it
    found, floor,       \* the versions that the run found, and found or published
    passed, published,  \* the repositories it is done with, and those it pushed
    outcome             \* how the last one ended

remotes == <<remote, pinned>>
run == <<walking, edges, earlier, found, floor, passed, published>>
vars == <<remotes, run, outcome>>

Zero == [r \in Repos |-> 0]
Resting == /\ walking = FALSE /\ passed = {} /\ published = {}
           /\ edges = [r \in Repos |-> {}] /\ earlier = edges
           /\ found = Zero /\ floor = Zero

Init == remote = Zero /\ pinned = [r \in Repos |-> Zero] /\ Resting /\ outcome = "none"

\* Pins of published versions take the place of those of r.
Repins(r) ==
    /\ pinned' = [pinned EXCEPT ![r] = pinned'[r]] /\ pinned'[r] \in [Repos -> Nat]
    /\ \A d \in Repos : pinned'[r][d] <= remote[d]

Begin ==
    /\ ~walking /\ walking' = TRUE
    /\ edges' \in [Repos -> SUBSET Repos] /\ \A r \in Repos : edges'[r] \in {{}, Deps[r]}
    /\ earlier' \in Orders
    /\ found' = remote /\ floor' = remote /\ passed' = {} /\ published' = {}
    /\ UNCHANGED <<remotes, outcome>>

Pass(r) ==
    /\ walking /\ r \notin passed /\ earlier[r] \subseteq passed
    /\ passed' = passed \cup {r}
    /\ UNCHANGED <<walking, edges, earlier, found, outcome>>

\* A new version, or the one that is there already.
Push(r) ==
    /\ Pass(r) /\ published' = published \cup {r}
    /\ Repins(r) /\ \A d \in edges[r] : pinned'[r][d] >= floor[d]
    /\ \E v \in {remote[r], remote[r] + 1} :
          remote' = [remote EXCEPT ![r] = v] /\ floor' = [floor EXCEPT ![r] = v]

\* Without an upstream.
Skip(r) == Pass(r) /\ UNCHANGED <<remotes, floor, published>>

\* Success is only said when every repository was passed.
End ==
    /\ walking /\ Resting'
    /\ outcome' \in {"aborted", "killed"} \/ (passed = Repos /\ outcome' = "ok")
    /\ UNCHANGED remotes

\* Somebody else pushes, and takes no pin back.
OtherPushes(r) ==
    /\ remote' = [remote EXCEPT ![r] = @ + 1]
    /\ Repins(r) /\ \A d \in Repos : pinned'[r][d] >= pinned[r][d]
    /\ UNCHANGED <<run, outcome>>

Next == Begin \/ End \/ \E r \in Repos : Push(r) \/ Skip(r) \/ OtherPushes(r)

Spec == Init /\ [][Next]_vars

\* Nothing published pins what is not, and what a run published pins its siblings
\* at least at the versions that the run found, or published before.
PinsAreFresh ==
    /\ \A r, d \in Repos : pinned[r][d] <= remote[d]
    /\ \A r \in published : \A d \in edges[r] :
          pinned[r][d] >= IF d \in earlier[r] THEN floor[d] ELSE found[d]
=============================================================================
