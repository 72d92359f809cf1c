------------------------------- MODULE Publish -------------------------------
(***************************************************************************)
(* pn workspace push (modules/pn/internal/workspace/push.go, propagate.go):*)
(* in topological order, relock a repository against the remote tips of    *)
(* its siblings, commit the bump, push.  Beside it a user works in the     *)
(* clones, others push, and any command can fail.                          *)
(*                                                                         *)
(* The remote main of a repository is counted in versions; a flake.lock is *)
(* the version that it pins of each sibling.                               *)
(***************************************************************************)
EXTENDS Integers, FiniteSets

CONSTANTS Repos,
          Deps,                         \* the siblings that a flake declares
          Orders,                       \* of topoAlpha: what each puts before a repository
          Tracking, Ahead,              \* at first: have an upstream, have commits to push
          None,                         \* no repository
          MaxRuns, MaxMoves, MaxFaults  \* bounds

ASSUME ReposAssumption == /\ Deps \in [Repos -> SUBSET Repos] /\ Orders \subseteq [Repos -> SUBSET Repos]
                          /\ Tracking \cup Ahead \subseteq Repos /\ None \notin Repos
ASSUME BoundsAssumption == {MaxRuns, MaxMoves, MaxFaults} \subseteq Nat

VARIABLES
    remote, pinned,   \* at the remote: version of main, and its flake.lock
    base, ahead,      \* the version that a clone contains; clones with commits on top
    lock,             \* flake.lock at HEAD
    written, dirt,    \* flake.lock in the tree, and how it differs from HEAD
    edits, late,      \* the user's tracked changes; where they came after the run looked
    upstream,         \* repositories whose branch has an upstream
    pc, at,           \* Push, and the repository it is at
    edges,            \* aliases of the edge lock: none where a flake did not evaluate
    earlier,          \* the order of the walk: what comes before a repository
    setUp,            \* PushOptions.SetUpstream
    completed, outcome,
    found, floor,     \* versions of the siblings that this run found; found or published
    ready, calm,      \* the run could succeed; nobody and nothing disturbed it
    broken,           \* a command that cleans up failed, or the run was killed
    harmed,           \* edits that were discarded, or swept into the bump commit
    runs, moves, faults

remotes == <<remote, pinned>>
clone == <<base, ahead, lock, written, dirt, upstream>>
work == <<edits, late, harmed>>
locals == <<at, edges, earlier, setUp, completed, found, floor>>
walk == <<locals, pc, outcome, ready>>
counters == <<runs, moves, faults>>
vars == <<remotes, clone, work, walk, calm, broken, counters>>

Pins == [Repos -> Nat]
Relock == {"update", "restore", "add", "commit"}  \* the run has looked at the tree

NoEdges == [r \in Repos |-> {}]
NoPins == [r \in Repos |-> 0]

Fault == faults < MaxFaults /\ faults' = faults + 1 /\ calm' = FALSE /\ UNCHANGED <<runs, moves>>
NoFault == UNCHANGED <<calm, counters>>
Goes(l) == pc' = l /\ UNCHANGED <<locals, outcome, ready>>
Ends(o) == /\ pc' = "idle" /\ outcome' = o /\ UNCHANGED ready
           /\ at' = None /\ edges' = NoEdges /\ earlier' = NoEdges /\ setUp' = FALSE
           /\ completed' = {} /\ found' = NoPins /\ floor' = NoPins

Init ==
    /\ remote = NoPins /\ pinned = [r \in Repos |-> NoPins]
    /\ base = remote /\ ahead = Ahead
    /\ lock = pinned /\ written = lock /\ dirt = [r \in Repos |-> "clean"]
    /\ edits = [r \in Repos |-> "none"] /\ late = {}
    /\ upstream = Tracking
    /\ pc = "idle" /\ at = None /\ edges = NoEdges /\ earlier = NoEdges /\ setUp = FALSE
    /\ completed = {} /\ outcome = "none" /\ found = NoPins /\ floor = NoPins
    /\ ready = FALSE /\ calm = FALSE /\ broken = FALSE /\ harmed = {}
    /\ runs = 0 /\ moves = 0 /\ faults = 0

-----------------------------------------------------------------------------
(* The walk.                                                               *)

Dirty(r) == dirt[r] # "clean" \/ edits[r] # "none"

\* The edge lock, or none of it: --no-siblings, a workforest, no derivable lock.
Start ==
    /\ pc = "idle" /\ runs < MaxRuns
    /\ edges' \in {e \in [Repos -> SUBSET Repos] : \A r \in Repos : e[r] \in {{}, Deps[r]}}
    /\ earlier' \in Orders /\ setUp' \in BOOLEAN
    /\ completed' = {} /\ at' = None /\ found' = remote /\ floor' = remote
    /\ ready' = (base = remote /\ \A r \in Repos : ~Dirty(r)) /\ calm' = TRUE
    /\ runs' = runs + 1
    /\ pc' = "walk"
    /\ UNCHANGED <<remotes, clone, work, outcome, broken, moves, faults>>

\* Variant: any order.
VisitAnyOrder ==
    /\ pc = "walk"
    /\ \E r \in Repos \ completed :
          /\ at' = r
          /\ pc' = IF edges[r] = {} THEN "push" ELSE "probe"
    /\ UNCHANGED <<remotes, clone, work, edges, earlier, setUp, completed, found, floor, outcome, ready, broken>>
    /\ NoFault

\* The next repository of topoAlpha: its siblings come first, unless there is a cycle
\* or they are the ordinary siblings of a foundation repository (ADR-0033).
Visit ==
    /\ pc = "walk"
    /\ \E r \in Repos \ completed :
          /\ earlier[r] \subseteq completed
          /\ at' = r
          /\ pc' = IF edges[r] = {} THEN "push" ELSE "probe"
    /\ UNCHANGED <<remotes, clone, work, edges, earlier, setUp, completed, found, floor, outcome, ready, broken>>
    /\ NoFault

Finish ==
    /\ pc = "walk" /\ completed = Repos
    /\ Ends("ok")
    /\ UNCHANGED <<remotes, clone, work, broken>>
    /\ NoFault

Completes == /\ completed' = completed \cup {at} /\ pc' = "walk"
             /\ UNCHANGED <<at, edges, earlier, setUp, found, outcome, ready>>

-----------------------------------------------------------------------------
(* relockSiblingsBeforePush and propagateWorkspaceEdges.                   *)

\* A dirty tree is refused.
Probe ==
    /\ pc = "probe"
    /\ IF Dirty(at) THEN Ends("aborted") ELSE Goes("update")
    /\ UNCHANGED <<remotes, clone, work, broken>>
    /\ NoFault

Relocked == [d \in Repos |-> IF d \in edges[at] THEN remote[d] ELSE written[at][d]]
Writes(l) == /\ written' = [written EXCEPT ![at] = l]
             /\ dirt' = [dirt EXCEPT ![at] = "modified"]

\* Variant: siblings resolve to the clones beside this one.
UpdateFromClones ==
    /\ pc = "update"
    /\ LET tips == [d \in Repos |-> IF d \in edges[at] THEN base[d] + (IF d \in ahead THEN 1 ELSE 0)
                                                       ELSE written[at][d]]
       IN Writes(tips) /\ Goes(IF tips = written[at] THEN "restore" ELSE "add")
    /\ UNCHANGED <<remotes, base, ahead, lock, upstream, work, broken>>
    /\ NoFault

\* nix flake update --refresh.  Without a new revision it may still rewrite the file.
Update ==
    /\ pc = "update"
    /\ \/ Relocked # written[at] /\ Writes(Relocked) /\ Goes("add")
       \/ Relocked = written[at] /\ Writes(Relocked) /\ Goes("restore")
       \/ Relocked = written[at] /\ UNCHANGED <<written, dirt>> /\ Goes("push")
    /\ UNCHANGED <<remotes, base, ahead, lock, upstream, work, broken>>
    /\ NoFault

\* nix fails, or is stopped after it wrote, or the new file cannot be read.
UpdateFails ==
    /\ pc = "update"
    /\ \/ UNCHANGED <<written, dirt, broken>>
       \/ Writes(Relocked) /\ broken' = TRUE
    /\ Ends("aborted") /\ Fault
    /\ UNCHANGED <<remotes, base, ahead, lock, upstream, work>>

\* git restore of a lock that has no new revision.
Restore ==
    /\ pc = "restore"
    /\ dirt' = [dirt EXCEPT ![at] = "clean"]
    /\ Goes("push")
    /\ UNCHANGED <<remotes, base, ahead, lock, written, upstream, work, broken>>
    /\ NoFault

\* Variant: the new lock is not staged.
AddForgets ==
    /\ pc = "add"
    /\ Goes("commit")
    /\ UNCHANGED <<remotes, clone, work, broken>>
    /\ NoFault

Add ==
    /\ pc = "add"
    /\ dirt' = [dirt EXCEPT ![at] = IF @ = "clean" THEN @ ELSE "staged"]
    /\ Goes("commit")
    /\ UNCHANGED <<remotes, base, ahead, lock, written, upstream, work, broken>>
    /\ NoFault

\* git restore or git add fails: the file stays modified.
RestoreOrAddFails ==
    /\ pc \in {"restore", "add"}
    /\ broken' = TRUE
    /\ Ends("aborted") /\ Fault
    /\ UNCHANGED <<remotes, clone, work>>

Suffer(kinds) ==
    IF edits[at] \in kinds
    THEN /\ harmed' = harmed \cup {IF at \in late THEN "late" ELSE "early"}
         /\ edits' = [edits EXCEPT ![at] = "none"] /\ late' = late \ {at}
    ELSE UNCHANGED work

\* git commit takes the whole index.
CommitBump ==
    /\ pc = "commit" /\ (dirt[at] = "staged" \/ edits[at] = "staged")
    /\ ahead' = ahead \cup {at}
    /\ lock' = [lock EXCEPT ![at] = written[at]]
    /\ dirt' = [dirt EXCEPT ![at] = "clean"]
    /\ Suffer({"staged"})
    /\ Goes("push")
    /\ UNCHANGED <<remotes, base, written, upstream, broken>>
    /\ NoFault

\* Variant: a failed commit leaves the staged file.
CommitFailsLeavesStaged ==
    /\ pc = "commit"
    /\ Ends("aborted") /\ Fault
    /\ UNCHANGED <<remotes, clone, work, broken>>

\* A hook rejects the commit, or nothing is staged: git reset --hard.
CommitFails ==
    /\ pc = "commit"
    /\ \/ Fault
       \/ dirt[at] # "staged" /\ edits[at] # "staged" /\ NoFault
    /\ dirt' = [dirt EXCEPT ![at] = "clean"]
    /\ written' = [written EXCEPT ![at] = lock[at]]
    /\ Suffer({"staged", "unstaged"})
    /\ Ends("aborted")
    /\ UNCHANGED <<remotes, base, ahead, lock, upstream, broken>>

\* The reset fails too.
ResetFails ==
    /\ pc = "commit"
    /\ broken' = TRUE
    /\ Ends("aborted") /\ Fault
    /\ UNCHANGED <<remotes, clone, work>>

-----------------------------------------------------------------------------
(* The push.                                                               *)

\* git push: a clone that lacks the remote tip is rejected.
Publishes ==
    IF base[at] = remote[at]
    THEN LET tip == remote[at] + (IF at \in ahead THEN 1 ELSE 0)
         IN /\ remote' = [remote EXCEPT ![at] = tip]
            /\ base' = [base EXCEPT ![at] = tip]
            /\ floor' = [floor EXCEPT ![at] = tip]
            /\ ahead' = ahead \ {at}
            /\ pinned' = [pinned EXCEPT ![at] = lock[at]]
            /\ upstream' = upstream \cup {at}
            /\ Completes
    ELSE Ends("aborted") /\ UNCHANGED <<remotes, base, ahead, upstream>>

\* With an upstream, or with --set-upstream.
Push ==
    /\ pc = "push" /\ (at \in upstream \/ setUp)
    /\ Publishes
    /\ UNCHANGED <<lock, written, dirt, work, broken>>
    /\ NoFault

\* No upstream: skipped, also when --set-upstream finds no remote.
SkipPush ==
    /\ pc = "push" /\ at \notin upstream
    /\ Completes
    /\ UNCHANGED <<remotes, clone, work, floor, broken>>
    /\ NoFault

\* A probe or a push fails.
StepFails ==
    /\ pc \in {"probe", "push"}
    /\ Ends("aborted") /\ Fault
    /\ UNCHANGED <<remotes, clone, work, broken>>

Kill ==
    /\ pc # "idle"
    /\ broken' = TRUE
    /\ Ends("killed") /\ Fault
    /\ UNCHANGED <<remotes, clone, work>>

-----------------------------------------------------------------------------
(* The user and the others.                                                *)

Moves == /\ moves < MaxMoves /\ moves' = moves + 1 /\ calm' = FALSE
         /\ UNCHANGED <<walk, broken, runs, faults>>

UserEdits(r) ==
    /\ edits[r] = "none"
    /\ \E e \in {"staged", "unstaged"} : edits' = [edits EXCEPT ![r] = e]
    /\ late' = IF at = r /\ pc \in Relock THEN late \cup {r} ELSE late \ {r}
    /\ Moves /\ UNCHANGED <<remotes, clone, harmed>>

\* The user commits, with whatever is staged.
UserCommits(r) ==
    /\ edits[r] # "none"
    /\ edits' = [edits EXCEPT ![r] = "none"] /\ late' = late \ {r}
    /\ ahead' = ahead \cup {r}
    /\ IF dirt[r] = "staged"
       THEN dirt' = [dirt EXCEPT ![r] = "clean"] /\ lock' = [lock EXCEPT ![r] = written[r]]
       ELSE UNCHANGED <<dirt, lock>>
    /\ Moves /\ UNCHANGED <<remotes, base, written, upstream, harmed>>

\* Between runs: a leftover lock is restored, and the clone is rebased.
UserRestores(r) ==
    /\ pc = "idle" /\ dirt[r] # "clean"
    /\ dirt' = [dirt EXCEPT ![r] = "clean"] /\ written' = [written EXCEPT ![r] = lock[r]]
    /\ Moves /\ UNCHANGED <<remotes, base, ahead, lock, upstream, work>>

UserRebases(r) ==
    /\ pc = "idle" /\ base[r] # remote[r] /\ ~Dirty(r)
    /\ base' = [base EXCEPT ![r] = remote[r]]
    /\ \E l \in IF r \in ahead THEN {lock[r], pinned[r]} ELSE {pinned[r]} :
          lock' = [lock EXCEPT ![r] = l] /\ written' = [written EXCEPT ![r] = l]
    /\ Moves /\ UNCHANGED <<remotes, ahead, dirt, upstream, work>>

\* Somebody pushes, perhaps with a relock.
OtherPushes(r) ==
    /\ remote' = [remote EXCEPT ![r] = @ + 1]
    /\ \/ UNCHANGED pinned
       \/ pinned' = [pinned EXCEPT ![r] = [d \in Repos |-> IF d \in Deps[r] THEN remote[d] ELSE @[d]]]
    /\ Moves /\ UNCHANGED <<clone, work>>

Next ==
    \/ Start \/ Visit \/ Finish
    \/ Probe \/ Update \/ UpdateFails \/ Restore \/ Add \/ RestoreOrAddFails
    \/ CommitBump \/ CommitFails \/ ResetFails
    \/ Push \/ SkipPush \/ StepFails \/ Kill
    \/ \E r \in Repos : \/ UserEdits(r) \/ UserCommits(r) \/ UserRestores(r)
                        \/ UserRebases(r) \/ OtherPushes(r)

Spec == Init /\ [][Next]_vars

-----------------------------------------------------------------------------
(* Properties.                                                             *)

CloneTypes ==
    /\ remote \in Pins /\ pinned \in [Repos -> Pins] /\ base \in Pins
    /\ lock \in [Repos -> Pins] /\ written \in [Repos -> Pins]
    /\ dirt \in [Repos -> {"clean", "modified", "staged"}]
    /\ edits \in [Repos -> {"none", "unstaged", "staged"}]
    /\ upstream \cup ahead \cup late \subseteq Repos /\ harmed \subseteq {"early", "late"}

WalkTypes ==
    /\ pc \in Relock \cup {"idle", "walk", "probe", "push"}
    /\ at \in Repos \cup {None} /\ (pc \notin {"idle", "walk"} => at \in Repos)
    /\ {edges, earlier} \subseteq [Repos -> SUBSET Repos] /\ completed \subseteq Repos /\ {found, floor} \subseteq Pins
    /\ outcome \in {"none", "ok", "aborted", "killed"}

FlagTypes ==
    /\ setUp \in BOOLEAN /\ ready \in BOOLEAN /\ calm \in BOOLEAN /\ broken \in BOOLEAN

CounterTypes == runs \in 0..MaxRuns /\ moves \in 0..MaxMoves /\ faults \in 0..MaxFaults

TypeOK == CloneTypes /\ WalkTypes /\ FlagTypes /\ CounterTypes

\* A flake.lock, committed or not, only pins what its sibling has published
\* (invariant C1 of propagateWorkspaceEdges).
PinsArePublished == \A r, d \in Repos :
    /\ pinned[r][d] <= remote[d]
    /\ lock[r][d] <= remote[d]
    /\ written[r][d] <= remote[d]

\* Once a repository is completed it pins each sibling that the order puts before it
\* at least at the version that this run found or published, and a later one at that
\* which it found (the lag of ADR-0033), whatever the user and others do meanwhile;
\* and so does its remote, if it was pushed.
SiblingsCatchUp == pc # "idle" => \A r \in completed :
    /\ earlier[r] \subseteq completed
    /\ \A d \in edges[r] :
          LET due == IF d \in earlier[r] THEN floor[d] ELSE found[d]
          IN lock[r][d] >= due /\ (r \in upstream => pinned[r][d] >= due)

\* An aborted run leaves no half-made bump that makes the next run refuse,
\* unless the command that cleans up failed too.
NothingLeftBehind == (pc = "idle" /\ ~broken) => \A r \in Repos : dirt[r] = "clean"

\* Edits that were there when the run looked at the tree are neither reset nor
\* swept into the bump commit.
OnlyLateEditsSuffer == "early" \notin harmed

\* What a run leaves of the working trees: no bump of its own half made, and the
\* user's earlier edits as they were.
TreesAreLeftAlone == NothingLeftBehind /\ OnlyLateEditsSuffer

\* A run over clean clones that have the remote tips does not stop itself.
UndisturbedRunSucceeds == (ready /\ calm /\ pc = "idle") => outcome = "ok"

Walk == INSTANCE DependenciesFirst
          WITH walking <- pc # "idle", passed <- completed, published <- completed \cap upstream

\* Clones, relocks, commits and failures implement the push of one repository after
\* the other, each in one step and with fresh pins.
PublishesDependenciesFirst == Walk!Spec
=============================================================================
