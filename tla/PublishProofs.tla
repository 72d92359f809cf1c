---------------------------- MODULE PublishProofs ----------------------------
(***************************************************************************)
(* What pn workspace push publishes, for any set of repositories, any      *)
(* dependencies between them and any number of runs, moves and failures.   *)
(*                                                                         *)
(* SiblingsCatchUp is not inductive: that a completed repository pins its  *)
(* siblings goes back to the moment of its relock (Carried), which goes    *)
(* back to a tree that was clean (Trees) and to the order of the walk      *)
(* (Order); that it still does, to a tree with no half-made bump that a    *)
(* commit of the user would take up (Done).                                *)
(***************************************************************************)
EXTENDS Publish, TLAPS

USE ReposAssumption

\* The repository under way is not completed, and those before it are.
Order == pc \notin {"idle", "walk"} => at \notin completed /\ earlier[at] \subseteq completed

\* What the tree and the index of a clone hold, at each step of a relock.
Trees ==
    /\ \A r \in Repos : dirt[r] = "clean" => written[r] = lock[r]
    /\ pc = "update" => dirt[at] = "clean"
    /\ pc = "restore" => dirt[at] # "staged" /\ written[at] = lock[at]

\* A repository that was relocked is clean when it is pushed, and stays so.
Done ==
    /\ pc = "push" => edges[at] = {} \/ dirt[at] = "clean"
    /\ pc # "idle" => \A r \in completed : edges[r] = {} \/ dirt[r] = "clean"

\* The versions on their way into a flake.lock are as new as the run has found.
Carried ==
    /\ \A d \in Repos : found[d] <= floor[d] /\ floor[d] <= remote[d]
    /\ pc \in {"restore", "add", "commit"} => \A d \in edges[at] : written[at][d] >= floor[d]
    /\ pc = "push" => \A d \in edges[at] : lock[at][d] >= floor[d]

\* Edits beside a relock came after its check; dirt belongs to the relock.
Late == pc \in Relock /\ edits[at] # "none" => at \in late
Owned == ~broken => \A r \in Repos :
            dirt[r] # "clean" => r = at /\ pc \in {"restore", "add", "commit"}

-----------------------------------------------------------------------------
(* Types.                                                                  *)

USE DEF Relock, Pins

LEMMA InitType == Init => TypeOK
<1> SUFFICES ASSUME Init PROVE TypeOK
  OBVIOUS
<1>1. CloneTypes
  BY DEF Init, CloneTypes, NoPins
<1>2. WalkTypes
  BY DEF Init, WalkTypes, NoPins, NoEdges
<1>3. FlagTypes
  BY Zenon DEF Init, FlagTypes
<1>4. CounterTypes
  BY BoundsAssumption DEF Init, CounterTypes
<1> QED BY <1>1, <1>2, <1>3, <1>4 DEF TypeOK

\* Flags are Boolean-valued: first-order reasoning without arithmetic.
LEMMA FlagsStep == FlagTypes /\ [Next]_vars => FlagTypes'
<1> SUFFICES ASSUME FlagTypes, [Next]_vars PROVE FlagTypes'
  OBVIOUS
<1> USE DEF FlagTypes
<1>1. CASE Start
  BY <1>1, Zenon DEF Start
<1>2. CASE Visit \/ Finish \/ Probe
  BY <1>2, Zenon DEF Visit, Finish, Probe, NoFault, Goes, Ends, locals
<1>3. CASE Update \/ UpdateFails \/ Restore \/ Add \/ RestoreOrAddFails
  BY <1>3, Zenon DEF Update, UpdateFails, Restore, Add, RestoreOrAddFails,
                     NoFault, Fault, Goes, Ends, locals
<1>4. CASE CommitBump \/ CommitFails
  BY <1>4, Zenon DEF CommitBump, CommitFails, NoFault, Fault, Goes, Ends, locals
<1>5. CASE ResetFails \/ StepFails \/ Kill
  BY <1>5, Zenon DEF ResetFails, StepFails, Kill, Fault, Ends
<1>6. CASE Push \/ SkipPush
  BY <1>6, Zenon DEF Push, SkipPush, Publishes, Completes, Ends, NoFault
<1>7. ASSUME NEW r \in Repos, UserEdits(r) \/ UserCommits(r) \/ UserRestores(r) \/ UserRebases(r) \/ OtherPushes(r)
      PROVE FlagTypes'
  BY <1>7, Zenon DEF UserEdits, UserCommits, UserRestores, UserRebases, OtherPushes, Moves, walk, locals
<1>8. CASE UNCHANGED vars
  BY <1>8, Zenon DEF vars, walk, locals
<1> QED BY <1>1, <1>2, <1>3, <1>4, <1>5, <1>6, <1>7, <1>8, Zenon DEF Next

LEMMA CountersStep == CounterTypes /\ [Next]_vars => CounterTypes'
<1> SUFFICES ASSUME CounterTypes, [Next]_vars PROVE CounterTypes'
  OBVIOUS
<1> USE BoundsAssumption DEF CounterTypes
<1>1. CASE Start
  BY <1>1 DEF Start
<1>2. CASE NoFault
  BY <1>2 DEF NoFault, counters
<1>3. CASE Fault
  BY <1>3 DEF Fault
<1>4. CASE Moves
  BY <1>4 DEF Moves
<1>5. CASE UNCHANGED vars
  BY <1>5 DEF vars, counters
<1>6. Start \/ NoFault \/ Fault \/ Moves \/ UNCHANGED vars
  BY DEF Next, Visit, Finish, Probe, Update, UpdateFails, Restore, Add, RestoreOrAddFails, CommitBump,
         CommitFails, ResetFails, Push, SkipPush, StepFails, Kill, UserEdits, UserCommits, UserRestores,
         UserRebases, OtherPushes
<1> QED BY <1>1, <1>2, <1>3, <1>4, <1>5, <1>6

LEMMA WalkStep == TypeOK /\ [Next]_vars => WalkTypes'
<1> SUFFICES ASSUME CloneTypes, WalkTypes, [Next]_vars PROVE WalkTypes'
  BY DEF TypeOK
<1> USE DEF WalkTypes
<1>1. ASSUME NEW o \in {"ok", "aborted", "killed"}, Ends(o) PROVE WalkTypes'
  BY <1>1 DEF Ends, NoPins, NoEdges
<1>2. ASSUME NEW l \in Relock \cup {"push"}, at \in Repos, Goes(l) PROVE WalkTypes'
  BY <1>2 DEF Goes, locals
<1>3. CASE Start
  BY <1>3 DEF Start, CloneTypes
<1>4. CASE Visit
  BY <1>4 DEF Visit
<1>5. CASE Finish \/ Probe
  BY <1>5, <1>1, <1>2 DEF Finish, Probe
<1>6. CASE Update \/ UpdateFails \/ Restore \/ Add \/ RestoreOrAddFails
  BY <1>6, <1>1, <1>2 DEF Update, UpdateFails, Restore, Add, RestoreOrAddFails
<1>7. CASE CommitBump \/ CommitFails \/ ResetFails \/ StepFails \/ Kill
  BY <1>7, <1>1, <1>2 DEF CommitBump, CommitFails, ResetFails, StepFails, Kill
<1>8. CASE Push
  <2>1. CASE base[at] # remote[at]
    BY <1>8, <2>1, <1>1 DEF Push, Publishes
  <2>2. CASE base[at] = remote[at]
    <3>1. PICK tip \in Nat : floor' = [floor EXCEPT ![at] = tip]
      BY <1>8, <2>2 DEF Push, Publishes, CloneTypes
    <3>2. Completes
      BY <1>8, <2>2 DEF Push, Publishes
    <3> QED BY <1>8, <3>1, <3>2 DEF Completes, Push
  <2> QED BY <2>1, <2>2
<1>9. CASE SkipPush
  BY <1>9 DEF SkipPush, Completes
<1>10. CASE UNCHANGED walk
  BY <1>10 DEF walk, locals
<1>11. ASSUME NEW r \in Repos, UserEdits(r) \/ UserCommits(r) \/ UserRestores(r) \/ UserRebases(r) \/ OtherPushes(r)
       PROVE UNCHANGED walk
  BY <1>11 DEF UserEdits, UserCommits, UserRestores, UserRebases, OtherPushes, Moves
<1> QED BY <1>3, <1>4, <1>5, <1>6, <1>7, <1>8, <1>9, <1>10, <1>11 DEF Next, vars

LEMMA CloneStep == TypeOK /\ [Next]_vars => CloneTypes'
<1> SUFFICES ASSUME CloneTypes, WalkTypes, [Next]_vars PROVE CloneTypes'
  BY DEF TypeOK
<1> USE DEF CloneTypes
<1>1. \A f \in [Repos -> Pins], r \in Repos, p \in Pins : [f EXCEPT ![r] = p] \in [Repos -> Pins]
  OBVIOUS
<1>2. CASE UNCHANGED <<remotes, clone, work>>
  BY <1>2 DEF remotes, clone, work
<1>3. CASE Start \/ Visit \/ Finish \/ Probe \/ RestoreOrAddFails \/ ResetFails \/ SkipPush \/ StepFails \/ Kill
  BY <1>3, <1>2 DEF Start, Visit, Finish, Probe, RestoreOrAddFails, ResetFails, SkipPush, StepFails, Kill
<1>4. CASE Update \/ UpdateFails
  <2>1. at \in Repos /\ UNCHANGED <<remotes, base, ahead, lock, upstream, work>>
    BY <1>4 DEF Update, UpdateFails, work, WalkTypes
  <2>2. Relocked \in Pins
    BY <2>1 DEF Relocked
  <2>3. Writes(Relocked) => /\ written' \in [Repos -> Pins]
                            /\ dirt' \in [Repos -> {"clean", "modified", "staged"}]
    BY <2>1, <2>2 DEF Writes
  <2>4. Writes(Relocked) \/ UNCHANGED <<written, dirt>>
    BY <1>4 DEF Update, UpdateFails
  <2> QED BY <2>1, <2>3, <2>4 DEF remotes, work
<1>5. CASE Restore \/ Add
  <2>1. UNCHANGED <<remotes, base, ahead, lock, written, upstream, work>>
    BY <1>5 DEF Restore, Add
  <2>2. dirt' \in [Repos -> {"clean", "modified", "staged"}]
    BY <1>5 DEF Restore, Add
  <2> QED BY <2>1, <2>2 DEF remotes, work
<1>6. ASSUME NEW k, Suffer(k)
      PROVE /\ edits' \in [Repos -> {"none", "unstaged", "staged"}]
            /\ harmed' \subseteq {"early", "late"} /\ late' \subseteq late
  <2>1. harmed' \in {harmed, harmed \cup {"late"}, harmed \cup {"early"}}
    BY <1>6, Zenon DEF Suffer, work
  <2>2. edits' \in {edits, [edits EXCEPT ![at] = "none"]}
    BY <1>6, Zenon DEF Suffer, work
  <2>3. late' \in {late, late \ {at}}
    BY <1>6, Zenon DEF Suffer, work
  <2> QED BY <2>1, <2>2, <2>3
<1>7. CASE CommitBump
  <2>1. at \in Repos /\ UNCHANGED <<remotes, base, written, upstream>>
    BY <1>7 DEF CommitBump, WalkTypes
  <2>2. lock' \in [Repos -> Pins] /\ dirt' \in [Repos -> {"clean", "modified", "staged"}]
    BY <1>7, <2>1, <1>1 DEF CommitBump
  <2> QED BY <1>7, <2>1, <2>2, <1>6 DEF CommitBump, remotes
<1>8. CASE CommitFails
  <2>1. at \in Repos /\ UNCHANGED <<remotes, base, ahead, lock, upstream>>
    BY <1>8 DEF CommitFails, WalkTypes
  <2>2. written' \in [Repos -> Pins] /\ dirt' \in [Repos -> {"clean", "modified", "staged"}]
    BY <1>8, <2>1, <1>1 DEF CommitFails
  <2> QED BY <1>8, <2>1, <2>2, <1>6 DEF CommitFails, remotes
<1>9. CASE Push
  <2>1. at \in Repos /\ UNCHANGED <<lock, written, dirt, work>>
    BY <1>9 DEF Push, WalkTypes
  <2>2. CASE base[at] # remote[at]
    BY <1>9, <2>1, <2>2 DEF Push, Publishes, remotes, work
  <2>3. CASE base[at] = remote[at]
    <3>1. PICK tip \in Nat : /\ remote' = [remote EXCEPT ![at] = tip] /\ base' = [base EXCEPT ![at] = tip]
                             /\ pinned' = [pinned EXCEPT ![at] = lock[at]] /\ upstream' = upstream \cup {at}
                             /\ ahead' = ahead \ {at}
      <4> DEFINE tip == remote[at] + (IF at \in ahead THEN 1 ELSE 0)
      <4>1. tip \in Nat
        BY <2>1
      <4>2. /\ remote' = [remote EXCEPT ![at] = tip] /\ base' = [base EXCEPT ![at] = tip]
            /\ pinned' = [pinned EXCEPT ![at] = lock[at]] /\ upstream' = upstream \cup {at}
            /\ ahead' = ahead \ {at}
        BY <1>9, <2>3, Zenon DEF Push, Publishes
      <4> QED BY <4>1, <4>2
    <3>2. pinned' \in [Repos -> Pins]
      BY <3>1, <2>1, <1>1
    <3> QED BY <3>1, <3>2, <2>1 DEF work
  <2> QED BY <2>2, <2>3
<1>10. ASSUME NEW r \in Repos, UserEdits(r) PROVE CloneTypes'
  BY <1>10 DEF UserEdits, remotes, clone
<1>11. ASSUME NEW r \in Repos, UserCommits(r) PROVE CloneTypes'
  <2>1. UNCHANGED <<remotes, base, written, upstream, harmed>> /\ edits' = [edits EXCEPT ![r] = "none"]
       /\ late' = late \ {r} /\ ahead' = ahead \cup {r}
    BY <1>11 DEF UserCommits
  <2>2. \/ UNCHANGED <<dirt, lock>>
        \/ dirt' = [dirt EXCEPT ![r] = "clean"] /\ lock' = [lock EXCEPT ![r] = written[r]]
    BY <1>11 DEF UserCommits
  <2> QED BY <2>1, <2>2, <1>1 DEF remotes
<1>12. ASSUME NEW r \in Repos, UserRestores(r) PROVE CloneTypes'
  BY <1>12, <1>1 DEF UserRestores, remotes, work
<1>13. ASSUME NEW r \in Repos, UserRebases(r) PROVE CloneTypes'
  <2>1. PICK l \in Pins : lock' = [lock EXCEPT ![r] = l] /\ written' = [written EXCEPT ![r] = l]
    BY <1>13 DEF UserRebases
  <2>2. UNCHANGED <<remotes, ahead, dirt, upstream, work>> /\ base' = [base EXCEPT ![r] = remote[r]]
    BY <1>13 DEF UserRebases
  <2> QED BY <2>1, <2>2, <1>1 DEF remotes, work
<1>14. ASSUME NEW r \in Repos, OtherPushes(r) PROVE CloneTypes'
  <2>1. UNCHANGED <<clone, work>> /\ remote' = [remote EXCEPT ![r] = @ + 1]
    BY <1>14 DEF OtherPushes
  <2>2. PICK p \in Pins : pinned' \in {pinned, [pinned EXCEPT ![r] = p]}
    <3>1. CASE UNCHANGED pinned
      <4>1. remote \in Pins
        OBVIOUS
      <4> QED BY <4>1, <3>1
    <3>2. CASE pinned' = [pinned EXCEPT ![r] = [d \in Repos |-> IF d \in Deps[r] THEN remote[d] ELSE @[d]]]
      <4>1. [d \in Repos |-> IF d \in Deps[r] THEN remote[d] ELSE pinned[r][d]] \in Pins
        OBVIOUS
      <4> QED BY <4>1, <3>2
    <3> QED BY <1>14, <3>1, <3>2 DEF OtherPushes
  <2>3. [pinned EXCEPT ![r] = p] \in [Repos -> Pins]
    BY <2>2, <1>1
  <2>4. pinned' \in [Repos -> Pins]
    <3>1. CASE pinned' = pinned
      BY <3>1
    <3>2. CASE pinned' = [pinned EXCEPT ![r] = p]
      BY <3>2, <2>3
    <3> QED BY <2>2, <3>1, <3>2
  <2>5. remote' \in Pins
    BY <2>1
  <2> QED BY <2>1, <2>4, <2>5 DEF clone, work
<1> QED
  BY <1>2, <1>3, <1>4, <1>5, <1>7, <1>8, <1>9, <1>10, <1>11, <1>12, <1>13, <1>14 DEF Next, vars, work

LEMMA TypeStep == TypeOK /\ [Next]_vars => TypeOK'
BY FlagsStep, CountersStep, WalkStep, CloneStep DEF TypeOK

\* Every variable of the push keeps its type.
THEOREM TypeCorrect == Spec => []TypeOK
BY InitType, TypeStep, PTL DEF Spec

-----------------------------------------------------------------------------
(* Every flake.lock pins published versions: the versions at the remote    *)
(* only grow, and every new lock is one there was or comes from the remote.*)

LEMMA RemoteGrows == TypeOK /\ [Next]_vars => \A d \in Repos : remote[d] <= remote'[d]
<1> SUFFICES ASSUME CloneTypes, WalkTypes, [Next]_vars, NEW d \in Repos PROVE remote[d] <= remote'[d]
  BY DEF TypeOK
<1> remote \in [Repos -> Nat]
  BY DEF CloneTypes
<1>1. CASE UNCHANGED remote
  BY <1>1
<1>2. CASE Push
  <2>1. at \in Repos
    BY <1>2 DEF Push, WalkTypes
  <2>2. CASE base[at] # remote[at]
    BY <1>2, <2>2, <1>1 DEF Push, Publishes, remotes
  <2>3. CASE base[at] = remote[at]
    BY <1>2, <2>1, <2>3 DEF Push, Publishes
  <2> QED BY <2>2, <2>3
<1>3. ASSUME NEW r \in Repos, OtherPushes(r) PROVE remote[d] <= remote'[d]
  BY <1>3 DEF OtherPushes
<1>4. ASSUME NEW r \in Repos, UserEdits(r) \/ UserCommits(r) \/ UserRestores(r) \/ UserRebases(r)
      PROVE UNCHANGED remote
  BY <1>4 DEF UserEdits, UserCommits, UserRestores, UserRebases, remotes
<1>5. CASE Start \/ Visit \/ Finish \/ Probe \/ Update \/ UpdateFails \/ Restore \/ Add \/ RestoreOrAddFails
  BY <1>5, <1>1 DEF Start, Visit, Finish, Probe, Update, UpdateFails, Restore, Add, RestoreOrAddFails, remotes
<1>6. CASE CommitBump \/ CommitFails \/ ResetFails \/ SkipPush \/ StepFails \/ Kill
  BY <1>6, <1>1 DEF CommitBump, CommitFails, ResetFails, SkipPush, StepFails, Kill, remotes
<1>7. CASE UNCHANGED vars
  BY <1>7, <1>1 DEF vars, remotes
<1> QED BY <1>1, <1>2, <1>3, <1>4, <1>5, <1>6, <1>7 DEF Next

Published(l, v) == \A d \in Repos : l[d] <= v[d]

LEMMA PinsStep == TypeOK /\ PinsArePublished /\ [Next]_vars => PinsArePublished'
<1> SUFFICES ASSUME TypeOK, PinsArePublished, [Next]_vars PROVE PinsArePublished'
  OBVIOUS
<1> SUFFICES ASSUME NEW q \in Repos
             PROVE Published(pinned'[q], remote') /\ Published(lock'[q], remote') /\ Published(written'[q], remote')
  BY DEF PinsArePublished, Published
<1> DEFINE Old == {pinned[r] : r \in Repos} \cup {lock[r] : r \in Repos} \cup {written[r] : r \in Repos}
           Kept == pinned'[q] \in Old /\ lock'[q] \in Old /\ written'[q] \in Old
<1>1. CloneTypes /\ WalkTypes /\ CloneTypes'
  BY CloneStep DEF TypeOK
<1> USE <1>1
<1>2. \A l \in Pins : Published(l, remote) => Published(l, remote')
  BY RemoteGrows DEF Published, CloneTypes
<1>3. \A l \in Old : l \in Pins /\ Published(l, remote)
  BY DEF PinsArePublished, Published, CloneTypes
<1>4. \A l \in Old : Published(l, remote')
  BY <1>2, <1>3
<1>5. CASE UNCHANGED <<pinned, lock, written>>
  <2>1. Kept
    BY <1>5
  <2> QED BY <2>1, <1>4
<1>6. CASE Update \/ UpdateFails
  <2>1. at \in Repos /\ UNCHANGED <<pinned, lock>>
    BY <1>6 DEF Update, UpdateFails, WalkTypes, remotes
  <2>2. Relocked \in Pins /\ Published(Relocked, remote)
    <3>1. at \in Repos /\ remote \in Pins /\ written[at] \in Pins /\ Published(written[at], remote)
      BY <2>1, <1>3 DEF CloneTypes
    <3> QED BY <3>1 DEF Relocked, Published
  <2>3. Writes(Relocked) \/ UNCHANGED written
    BY <1>6 DEF Update, UpdateFails
  <2>4. CASE Writes(Relocked)
    <3>1. written'[q] \in {written[q], Relocked}
      BY <2>4 DEF Writes, CloneTypes
    <3>2. pinned'[q] \in Old /\ lock'[q] \in Old /\ written[q] \in Old
      BY <2>1
    <3>3. Published(Relocked, remote')
      BY <2>2, <1>2
    <3> QED BY <3>1, <3>2, <3>3, <1>4
  <2> QED BY <2>1, <2>3, <2>4, <1>5
<1>7. CASE CommitBump
  <2>1. Kept
    BY <1>7 DEF CommitBump, CloneTypes, WalkTypes, remotes
  <2> QED BY <2>1, <1>4
<1>8. CASE CommitFails
  <2>1. Kept
    BY <1>8 DEF CommitFails, CloneTypes, WalkTypes, remotes
  <2> QED BY <2>1, <1>4
<1>9. CASE Push
  <2>1. UNCHANGED <<lock, written>> /\ at \in Repos
    BY <1>9 DEF Push, WalkTypes
  <2>2. UNCHANGED pinned \/ pinned' = [pinned EXCEPT ![at] = lock[at]]
    BY <1>9, Zenon DEF Push, Publishes, remotes
  <2>3. Kept
    BY <2>1, <2>2 DEF CloneTypes
  <2> QED BY <2>3, <1>4
<1>10. ASSUME NEW r \in Repos, UserCommits(r) PROVE Kept
  <2>1. UNCHANGED <<pinned, written>> /\ (UNCHANGED lock \/ lock' = [lock EXCEPT ![r] = written[r]])
    BY <1>10 DEF UserCommits, remotes
  <2> QED BY <2>1 DEF CloneTypes
<1>11. ASSUME NEW r \in Repos, UserRestores(r) PROVE Kept
  BY <1>11 DEF UserRestores, CloneTypes, remotes
<1>12. ASSUME NEW r \in Repos, UserRebases(r) PROVE Kept
  <2>1. PICK l \in {lock[r], pinned[r]} : lock' = [lock EXCEPT ![r] = l] /\ written' = [written EXCEPT ![r] = l]
    BY <1>12 DEF UserRebases
  <2>2. UNCHANGED pinned
    BY <1>12 DEF UserRebases, remotes
  <2> QED BY <2>1, <2>2 DEF CloneTypes
<1>13. ASSUME NEW r \in Repos, OtherPushes(r)
       PROVE Published(pinned'[q], remote') /\ lock'[q] \in Old /\ written'[q] \in Old
  <2> DEFINE l == [d \in Repos |-> IF d \in Deps[r] THEN remote[d] ELSE pinned[r][d]]
  <2>1. l \in Pins /\ Published(l, remote)
    <3>1. remote \in Pins /\ pinned[r] \in Pins /\ Published(pinned[r], remote)
      BY <1>3 DEF CloneTypes
    <3> QED BY <3>1 DEF Published
  <2>2. UNCHANGED <<lock, written>> /\ (UNCHANGED pinned \/ pinned' = [pinned EXCEPT ![r] = l])
    BY <1>13 DEF OtherPushes, clone
  <2>3. pinned'[q] \in {pinned[q], l}
    BY <2>2 DEF CloneTypes
  <2> HIDE DEF l
  <2> QED BY <2>1, <2>2, <2>3, <1>2, <1>4
<1>14. CASE Start \/ Visit \/ Finish \/ Probe \/ Restore \/ Add \/ RestoreOrAddFails
  BY <1>14, <1>5 DEF Start, Visit, Finish, Probe, Restore, Add, RestoreOrAddFails, remotes, clone
<1>15. CASE ResetFails \/ SkipPush \/ StepFails \/ Kill
  BY <1>15, <1>5 DEF ResetFails, SkipPush, StepFails, Kill, remotes, clone
<1>16. ASSUME NEW r \in Repos, UserEdits(r) PROVE UNCHANGED <<pinned, lock, written>>
  BY <1>16 DEF UserEdits, remotes, clone
<1>17. CASE UNCHANGED vars
  BY <1>17, <1>5 DEF vars, remotes, clone
<1> QED
  BY <1>4, <1>5, <1>6, <1>7, <1>8, <1>9, <1>10, <1>11, <1>12, <1>13, <1>14, <1>15, <1>16, <1>17 DEF Next

\* A flake.lock, committed or not, at the remote or in a clone, only pins what
\* its siblings have published: whatever a run, the user and others do, and
\* wherever a run fails or is killed (invariant C1 of propagateWorkspaceEdges).
THEOREM PinsPublished == Spec => []PinsArePublished
<1>1. Init => PinsArePublished
  BY DEF Init, PinsArePublished, NoPins
<1> QED BY <1>1, PinsStep, TypeCorrect, PTL DEF Spec

-----------------------------------------------------------------------------
(* Edits: the ones beside a relock all came after its check.               *)

LEMMA LateStep == TypeOK /\ Late /\ [Next]_vars => Late'
<1> SUFFICES ASSUME CloneTypes, WalkTypes, Late, [Next]_vars PROVE Late'
  BY DEF TypeOK
<1> USE DEF Late
<1>1. CASE pc' \notin Relock
  BY <1>1
<1>2. ASSUME NEW o, Ends(o) PROVE Late'
  BY <1>2 DEF Ends
<1>3. CASE UNCHANGED <<at, pc, work>>
  BY <1>3 DEF work
<1>4. CASE Start \/ Visit \/ Push \/ SkipPush
  <2>1. pc' \in {"walk", "push", "probe", "idle"}
    BY <1>4 DEF Start, Visit, Push, SkipPush, Publishes, Completes, Ends
  <2> QED BY <2>1, <1>1
<1>5. CASE Probe
  BY <1>5, <1>2 DEF Probe, Goes, locals, work, Dirty
<1>6. CASE Update \/ Restore \/ Add
  BY <1>6 DEF Update, Restore, Add, Goes, locals, work
<1>7. CASE Finish \/ UpdateFails \/ RestoreOrAddFails \/ CommitFails \/ ResetFails \/ StepFails \/ Kill
  BY <1>7, <1>2 DEF Finish, UpdateFails, RestoreOrAddFails, CommitFails, ResetFails, StepFails, Kill
<1>8. CASE CommitBump
  BY <1>8, <1>1 DEF CommitBump, Goes
<1>9. ASSUME NEW r \in Repos, UserEdits(r) \/ UserCommits(r) PROVE Late'
  <2>1. UNCHANGED <<at, pc>>
    BY <1>9 DEF UserEdits, UserCommits, Moves, walk, locals
  <2>2. pc \in Relock => at \in Repos
    BY DEF WalkTypes
  <2>3. CASE UserEdits(r)
    BY <2>1, <2>2, <2>3 DEF UserEdits, CloneTypes
  <2>4. CASE UserCommits(r)
    BY <2>1, <2>2, <2>4 DEF UserCommits, CloneTypes
  <2> QED BY <1>9, <2>3, <2>4
<1>10. ASSUME NEW r \in Repos, UserRestores(r) \/ UserRebases(r) \/ OtherPushes(r) PROVE Late'
  BY <1>10, <1>3 DEF UserRestores, UserRebases, OtherPushes, Moves, walk, locals
<1>11. CASE UNCHANGED vars
  BY <1>11, <1>3 DEF vars, walk, locals
<1> QED BY <1>4, <1>5, <1>6, <1>7, <1>8, <1>9, <1>10, <1>11 DEF Next

LEMMA SufferStep == Late /\ OnlyLateEditsSuffer /\ [Next]_vars => OnlyLateEditsSuffer'
<1> SUFFICES ASSUME Late, OnlyLateEditsSuffer, [Next]_vars PROVE OnlyLateEditsSuffer'
  OBVIOUS
<1> USE DEF OnlyLateEditsSuffer
<1>1. ASSUME NEW k \in SUBSET {"staged", "unstaged"}, pc = "commit", Suffer(k) PROVE OnlyLateEditsSuffer'
  BY <1>1 DEF Late, Suffer, work
<1>2. CASE CommitBump \/ CommitFails
  BY <1>2, <1>1 DEF CommitBump, CommitFails
<1>3. CASE UNCHANGED harmed
  BY <1>3
<1>4. CASE Start \/ Visit \/ Finish \/ Probe \/ Update \/ UpdateFails \/ Restore \/ Add \/ RestoreOrAddFails
  BY <1>4, <1>3 DEF Start, Visit, Finish, Probe, Update, UpdateFails, Restore, Add, RestoreOrAddFails, work
<1>5. CASE ResetFails \/ Push \/ SkipPush \/ StepFails \/ Kill \/ UNCHANGED vars
  BY <1>5, <1>3 DEF ResetFails, Push, SkipPush, StepFails, Kill, work, vars
<1>6. ASSUME NEW r \in Repos, UserEdits(r) \/ UserCommits(r) \/ UserRestores(r) \/ UserRebases(r) \/ OtherPushes(r)
      PROVE UNCHANGED harmed
  BY <1>6 DEF UserEdits, UserCommits, UserRestores, UserRebases, OtherPushes, work
<1> QED BY <1>2, <1>3, <1>4, <1>5, <1>6 DEF Next

\* A user's edits are reset, or swept into the bump commit, only if they came
\* after the run had looked at the tree: the check of the tree covers the
\* commit and the git reset --hard, for as long as nobody works beside it.
THEOREM EarlierEditsSafe == Spec => []OnlyLateEditsSuffer
<1>1. Init => Late /\ OnlyLateEditsSuffer
  BY DEF Init, Late, OnlyLateEditsSuffer
<1> QED BY <1>1, LateStep, SufferStep, TypeCorrect, PTL DEF Spec

-----------------------------------------------------------------------------
(* What a run leaves: a changed flake.lock belongs to the relock under way.*)

LEMMA OwnedStep == TypeOK /\ Owned /\ [Next]_vars => Owned'
<1> SUFFICES ASSUME CloneTypes, WalkTypes, Owned, [Next]_vars PROVE Owned'
  BY DEF TypeOK
<1> USE DEF Owned
<1>1. CASE broken'
  BY <1>1, Zenon
<1>2. CASE UNCHANGED <<broken, dirt, at, pc>>
  BY <1>2
<1>3. ASSUME UNCHANGED <<broken, dirt>>, pc \notin {"restore", "add", "commit"} PROVE Owned'
  BY <1>3
<1>4. CASE Start \/ Visit \/ Finish \/ Probe \/ Push \/ SkipPush \/ StepFails
  BY <1>4, <1>3 DEF Start, Visit, Finish, Probe, Push, SkipPush, StepFails, clone
<1>5. CASE RestoreOrAddFails \/ ResetFails \/ Kill
  BY <1>5, <1>1, Zenon DEF RestoreOrAddFails, ResetFails, Kill
<1>6. CASE UpdateFails
  BY <1>6, <1>1, <1>3 DEF UpdateFails
<1>7. CASE Update
  BY <1>7, <1>3 DEF Update, Goes, locals, Writes, CloneTypes, WalkTypes
<1>8. CASE Restore \/ Add
  BY <1>8 DEF Restore, Add, Goes, locals, CloneTypes, WalkTypes
<1>9. CASE CommitBump \/ CommitFails
  <2>1. dirt' = [dirt EXCEPT ![at] = "clean"] /\ pc' \in {"push", "idle"} /\ UNCHANGED broken
    BY <1>9 DEF CommitBump, CommitFails, Goes, Ends
  <2>2. pc = "commit" /\ at \in Repos
    BY <1>9 DEF CommitBump, CommitFails, WalkTypes
  <2> QED BY <2>1, <2>2 DEF CloneTypes
<1>10. ASSUME NEW r \in Repos, UserCommits(r) \/ UserRestores(r) PROVE Owned'
  <2>1. UNCHANGED <<at, pc, broken>>
    BY <1>10 DEF UserCommits, UserRestores, Moves, walk, locals
  <2>2. dirt' \in {dirt, [dirt EXCEPT ![r] = "clean"]}
    BY <1>10 DEF UserCommits, UserRestores
  <2> QED BY <2>1, <2>2 DEF CloneTypes
<1>11. ASSUME NEW r \in Repos, UserEdits(r) \/ UserRebases(r) \/ OtherPushes(r) PROVE Owned'
  BY <1>11, <1>2 DEF UserEdits, UserRebases, OtherPushes, Moves, walk, locals, clone
<1>12. CASE UNCHANGED vars
  BY <1>12, <1>2 DEF vars, walk, locals, clone
<1> QED BY <1>4, <1>5, <1>6, <1>7, <1>8, <1>9, <1>10, <1>11, <1>12 DEF Next

\* However a run ends, it leaves no changed flake.lock that would make the next
\* run refuse the clone, unless it was killed or a clean-up command failed.
THEOREM LeavesNothing == Spec => []NothingLeftBehind
<1>1. Init => Owned
  BY DEF Init, Owned
<1>2. Owned => NothingLeftBehind
  BY DEF Owned, NothingLeftBehind
<1> QED BY <1>1, <1>2, OwnedStep, TypeCorrect, PTL DEF Spec

\* A run leaves no half-made bump, and none of the earlier edits changed.
THEOREM LeavesTreesAlone == Spec => []TreesAreLeftAlone
<1>1. NothingLeftBehind /\ OnlyLateEditsSuffer => TreesAreLeftAlone
  BY DEF TreesAreLeftAlone
<1> QED BY <1>1, LeavesNothing, EarlierEditsSafe, PTL

-----------------------------------------------------------------------------
(* What a run publishes: completed repositories pin what the run has found.*)

LEMMA OrderStep == WalkTypes /\ Order /\ [Next]_vars => Order'
<1> SUFFICES ASSUME WalkTypes, Order, [Next]_vars PROVE Order'
  OBVIOUS
<1> USE DEF Order
<1>1. CASE pc' \in {"idle", "walk"}
  BY <1>1
<1>2. ASSUME pc \notin {"idle", "walk"}, NEW l, Goes(l) PROVE Order'
  BY <1>2 DEF Goes, locals
<1>3. CASE UNCHANGED walk
  BY <1>3 DEF walk, locals
<1>4. CASE Visit
  BY <1>4 DEF Visit
<1>5. CASE Probe \/ Update \/ Restore \/ Add \/ CommitBump
  BY <1>5, <1>1, <1>2 DEF Probe, Update, Restore, Add, CommitBump, Ends
<1>6. CASE Start \/ Finish \/ UpdateFails \/ RestoreOrAddFails \/ CommitFails \/ ResetFails \/ StepFails \/ Kill
  BY <1>6, <1>1 DEF Start, Finish, UpdateFails, RestoreOrAddFails, CommitFails, ResetFails, StepFails, Kill, Ends
<1>7. CASE Push \/ SkipPush
  BY <1>7, <1>1 DEF Push, SkipPush, Publishes, Completes, Ends
<1>8. ASSUME NEW r \in Repos, UserEdits(r) \/ UserCommits(r) \/ UserRestores(r) \/ UserRebases(r) \/ OtherPushes(r)
      PROVE UNCHANGED walk
  BY <1>8 DEF UserEdits, UserCommits, UserRestores, UserRebases, OtherPushes, Moves
<1> QED BY <1>3, <1>4, <1>5, <1>6, <1>7, <1>8 DEF Next, vars

LEMMA TreesStep == TypeOK /\ Trees /\ [Next]_vars => Trees'
<1> SUFFICES ASSUME CloneTypes, WalkTypes, Trees, [Next]_vars PROVE Trees'
  BY DEF TypeOK
<1> DEFINE Same == \A r \in Repos : dirt[r] = "clean" => written[r] = lock[r]
<1> USE DEF Trees
<1>1. CASE UNCHANGED <<dirt, written, lock, at, pc>>
  BY <1>1
<1>2. ASSUME pc' \notin {"update", "restore"}, Same' PROVE Trees'
  BY <1>2
<1>3. ASSUME pc' \notin {"update", "restore"}, UNCHANGED clone PROVE Trees'
  BY <1>3 DEF clone
<1>4. CASE Start \/ Visit \/ Finish \/ SkipPush
  BY <1>4, <1>3 DEF Start, Visit, Finish, SkipPush, Completes, Ends
<1>5. CASE RestoreOrAddFails \/ ResetFails \/ StepFails \/ Kill
  BY <1>5, <1>3 DEF RestoreOrAddFails, ResetFails, StepFails, Kill, Ends
<1>6. CASE Push
  <2>1. Same'
    BY <1>6 DEF Push
  <2>2. pc' \in {"walk", "idle"}
    BY <1>6 DEF Push, Publishes, Completes, Ends
  <2> QED BY <2>1, <2>2, <1>2
<1>7. CASE Probe
  BY <1>7 DEF Probe, Ends, Goes, locals, clone, Dirty
<1>8. CASE Update
  <2>1. at \in Repos /\ UNCHANGED <<at, lock>> /\ written[at] = lock[at] /\ dirt[at] = "clean"
    BY <1>8 DEF Update, Goes, locals, WalkTypes
  <2>2. CASE Relocked # written[at] /\ Writes(Relocked) /\ Goes("add")
    BY <2>1, <2>2 DEF Writes, Goes, CloneTypes
  <2>3. CASE Relocked = written[at] /\ Writes(Relocked) /\ Goes("restore")
    BY <2>1, <2>3 DEF Writes, Goes, CloneTypes
  <2>4. CASE UNCHANGED <<written, dirt>> /\ Goes("push")
    BY <2>1, <2>4 DEF Goes
  <2> QED BY <1>8, <2>2, <2>3, <2>4 DEF Update
<1>9. CASE UpdateFails
  <2>1. Same'
    BY <1>9 DEF UpdateFails, Writes, CloneTypes, WalkTypes
  <2> QED BY <1>9, <2>1, <1>2 DEF UpdateFails, Ends
<1>10. CASE Restore \/ Add
  <2>1. Same'
    BY <1>10 DEF Restore, Add, CloneTypes, WalkTypes
  <2> QED BY <1>10, <2>1, <1>2 DEF Restore, Add, Goes
<1>11. CASE CommitBump \/ CommitFails
  <2>1. Same'
    <3>1. at \in Repos /\ dirt' = [dirt EXCEPT ![at] = "clean"]
      BY <1>11 DEF CommitBump, CommitFails, WalkTypes
    <3>2. \/ lock' = [lock EXCEPT ![at] = written[at]] /\ UNCHANGED written
          \/ written' = [written EXCEPT ![at] = lock[at]] /\ UNCHANGED lock
      BY <1>11, Zenon DEF CommitBump, CommitFails
    <3> QED BY <3>1, <3>2 DEF CloneTypes
  <2> QED BY <1>11, <2>1, <1>2 DEF CommitBump, CommitFails, Goes, Ends
<1>12. ASSUME NEW q \in Repos, UserCommits(q) PROVE Trees'
  <2>1. UNCHANGED <<at, pc, written>>
    BY <1>12 DEF UserCommits, Moves, walk, locals
  <2>2. CASE UNCHANGED <<dirt, lock>>
    BY <2>1, <2>2
  <2>3. CASE /\ dirt[q] = "staged" /\ dirt' = [dirt EXCEPT ![q] = "clean"]
             /\ lock' = [lock EXCEPT ![q] = written[q]]
    BY <2>1, <2>3 DEF CloneTypes, WalkTypes
  <2> QED BY <1>12, <2>2, <2>3 DEF UserCommits
<1>13. ASSUME NEW q \in Repos, UserRestores(q) \/ UserRebases(q) PROVE Trees'
  <2>1. pc' = "idle"
    BY <1>13 DEF UserRestores, UserRebases, Moves, walk
  <2>2. CASE UserRestores(q)
    BY <2>1, <2>2 DEF UserRestores, CloneTypes
  <2>3. CASE UserRebases(q)
    <3>1. PICK l : lock' = [lock EXCEPT ![q] = l] /\ written' = [written EXCEPT ![q] = l]
      BY <2>3 DEF UserRebases
    <3> QED BY <2>1, <2>3, <3>1 DEF UserRebases, CloneTypes
  <2> QED BY <1>13, <2>2, <2>3
<1>14. ASSUME NEW q \in Repos, UserEdits(q) \/ OtherPushes(q) PROVE Trees'
  BY <1>14, <1>1 DEF UserEdits, OtherPushes, Moves, walk, locals, clone
<1>15. CASE UNCHANGED vars
  BY <1>15, <1>1 DEF vars, walk, locals, clone
<1> QED
  BY <1>4, <1>5, <1>6, <1>7, <1>8, <1>9, <1>10, <1>11, <1>12, <1>13, <1>14, <1>15 DEF Next

LEMMA DoneStep == TypeOK /\ Order /\ Trees /\ Done /\ [Next]_vars => Done'
<1> SUFFICES ASSUME CloneTypes, WalkTypes, Order, Trees, Done, [Next]_vars PROVE Done'
  BY DEF TypeOK
<1> USE DEF Done
<1>1. CASE pc' = "idle"
  BY <1>1
<1>2. ASSUME pc # "idle" => pc' # "push" \/ pc = "push",
             pc = "idle" => pc' = "idle",
             UNCHANGED locals,
             \A r \in Repos : dirt[r] = "clean" => dirt'[r] = "clean"
      PROVE Done'
  BY <1>2 DEF locals, WalkTypes
<1>3. ASSUME pc \notin {"idle", "walk", "push"}, pc' # "idle", UNCHANGED locals,
             \A r \in completed : UNCHANGED dirt[r], pc' = "push" => dirt'[at] = "clean"
      PROVE Done'
  BY <1>3 DEF locals
<1>4. CASE Start
  BY <1>4 DEF Start
<1>5. CASE Visit
  BY <1>5 DEF Visit, clone
<1>6. CASE Push \/ SkipPush
  <2>1. CASE Completes
    BY <1>6, <2>1 DEF Push, SkipPush, Completes, clone
  <2> QED BY <1>6, <2>1, <1>1 DEF Push, SkipPush, Publishes, Ends
<1>7. CASE Finish \/ UpdateFails \/ RestoreOrAddFails \/ CommitFails \/ ResetFails \/ StepFails \/ Kill
  BY <1>7, <1>1 DEF Finish, UpdateFails, RestoreOrAddFails, CommitFails, ResetFails, StepFails, Kill, Ends
<1>8. CASE Probe
  BY <1>8, <1>1, <1>3 DEF Probe, Goes, Ends, clone
<1>9. CASE Update
  <2>1. pc' # "idle" /\ UNCHANGED locals /\ at \in Repos /\ at \notin completed
    BY <1>9 DEF Update, Goes, Order, WalkTypes
  <2>2. \A r \in completed : UNCHANGED dirt[r]
    BY <1>9, <2>1 DEF Update, Writes, CloneTypes, WalkTypes
  <2>3. pc' = "push" => dirt'[at] = "clean"
    BY <1>9 DEF Update, Goes, Trees
  <2> QED BY <1>9, <2>1, <2>2, <2>3, <1>3 DEF Update
<1>10. CASE Restore \/ Add \/ CommitBump
  <2>1. at \in Repos /\ at \notin completed
    BY <1>10 DEF Restore, Add, CommitBump, Order, WalkTypes
  <2>2. \A r \in completed : UNCHANGED dirt[r]
    BY <1>10, <2>1 DEF Restore, Add, CommitBump, CloneTypes, WalkTypes
  <2>3. pc' = "push" => dirt'[at] = "clean"
    BY <1>10, <2>1 DEF Restore, Add, CommitBump, Goes, CloneTypes
  <2> QED BY <1>10, <2>2, <2>3, <1>3 DEF Restore, Add, CommitBump, Goes
<1>11. ASSUME NEW q \in Repos, UserEdits(q) \/ UserCommits(q) \/ UserRestores(q) \/ UserRebases(q) \/ OtherPushes(q)
       PROVE Done'
  <2>1. UNCHANGED <<locals, pc>>
    BY <1>11 DEF UserEdits, UserCommits, UserRestores, UserRebases, OtherPushes, Moves, walk
  <2>2. dirt' \in {dirt, [dirt EXCEPT ![q] = "clean"]}
    BY <1>11 DEF UserEdits, UserCommits, UserRestores, UserRebases, OtherPushes, clone
  <2> QED BY <2>1, <2>2, <1>2 DEF CloneTypes
<1>12. CASE UNCHANGED vars
  BY <1>12, <1>2 DEF vars, walk, clone
<1> QED BY <1>4, <1>5, <1>6, <1>7, <1>8, <1>9, <1>10, <1>11, <1>12 DEF Next

LEMMA CarriedStep == TypeOK /\ Order /\ Trees /\ Done /\ Carried /\ [Next]_vars => Carried'
<1> SUFFICES ASSUME TypeOK, CloneTypes, WalkTypes, Order, Trees, Done, Carried, [Next]_vars PROVE Carried'
  BY DEF TypeOK
<1> DEFINE Found == \A d \in Repos : found[d] <= floor[d] /\ floor[d] <= remote[d]
           InTree == \A d \in edges[at] : written[at][d] >= floor[d]
           InHead == \A d \in edges[at] : lock[at][d] >= floor[d]
<1> USE DEF Carried
<1>1. \A d \in Repos : remote[d] <= remote'[d]
  BY RemoteGrows
<1>2. ASSUME UNCHANGED <<found, floor>> PROVE Found'
  BY <1>1, <1>2, CloneStep DEF CloneTypes, WalkTypes
<1>3. ASSUME UNCHANGED <<found, floor>>, pc' \notin {"restore", "add", "commit", "push"} PROVE Carried'
  BY <1>2, <1>3
<1>4. ASSUME NEW o, Ends(o) PROVE Carried'
  <2>1. Found'
    BY <1>4, CloneStep DEF Ends, NoPins, CloneTypes
  <2> QED BY <1>4, <2>1 DEF Ends
<1>5. at \in Repos => edges[at] \subseteq Repos
  BY DEF WalkTypes
<1>6. CASE UNCHANGED <<clone, locals, pc>>
  BY <1>6, <1>2 DEF clone, locals
<1>7. CASE Start
  <2>1. Found'
    BY <1>7 DEF Start, remotes, CloneTypes
  <2> QED BY <1>7, <2>1 DEF Start
<1>8. CASE Visit
  <2>1. UNCHANGED <<found, floor, edges>>
    BY <1>8 DEF Visit
  <2>2. pc' = "push" => edges'[at'] = {}
    BY <1>8 DEF Visit
  <2>3. pc' \in {"push", "probe"}
    BY <1>8 DEF Visit
  <2> QED BY <2>1, <2>2, <2>3, <1>2
<1>9. CASE Probe
  BY <1>9, <1>3, <1>4 DEF Probe, Goes, locals
<1>10. CASE Update
  <2>1. at \in Repos /\ UNCHANGED <<locals, lock, remote>> /\ written[at] = lock[at]
    BY <1>10 DEF Update, Goes, remotes, Trees, WalkTypes
  <2>2. \A d \in edges[at] : Relocked[d] >= floor[d]
    BY <2>1, <1>5 DEF Relocked, CloneTypes, WalkTypes
  <2>3. Writes(Relocked) => InTree'
    BY <2>1, <2>2 DEF Writes, CloneTypes, locals
  <2>4. Relocked = written[at] => InHead'
    BY <2>1, <2>2 DEF locals
  <2>5. Found'
    BY <2>1, <1>2 DEF locals
  <2> QED BY <1>10, <2>3, <2>4, <2>5 DEF Update, Goes
<1>11. CASE Restore \/ Add \/ CommitBump
  <2>1. at \in Repos /\ UNCHANGED <<locals, written>> /\ InTree
    BY <1>11 DEF Restore, Add, CommitBump, Goes, WalkTypes
  <2>2. pc' = "push" => lock'[at] = written[at]
    BY <1>11, <2>1 DEF Restore, Add, CommitBump, Goes, Trees, CloneTypes
  <2>3. pc' \in {"push", "commit"} /\ Found'
    BY <1>11, <2>1, <1>2 DEF Restore, Add, CommitBump, Goes, locals
  <2> QED BY <2>1, <2>2, <2>3 DEF locals
<1>12. CASE Finish \/ UpdateFails \/ RestoreOrAddFails \/ CommitFails \/ ResetFails \/ StepFails \/ Kill
  BY <1>12, <1>4 DEF Finish, UpdateFails, RestoreOrAddFails, CommitFails, ResetFails, StepFails, Kill
<1>13. CASE SkipPush
  BY <1>13, <1>3 DEF SkipPush, Completes
<1>14. CASE Push
  <2>1. CASE base[at] = remote[at]
    <3>1. pc' = "walk" /\ at \in Repos
      BY <1>14, <2>1 DEF Push, Publishes, Completes, WalkTypes
    <3>2. Found'
      <4> DEFINE tip == remote[at] + (IF at \in ahead THEN 1 ELSE 0)
      <4>1. remote' = [remote EXCEPT ![at] = tip] /\ floor' = [floor EXCEPT ![at] = tip] /\ found' = found
        BY <1>14, <2>1, Zenon DEF Push, Publishes, Completes
      <4>2. tip \in Nat
        BY <3>1 DEF CloneTypes
      <4>3. tip >= remote[at]
        BY <3>1 DEF CloneTypes
      <4> HIDE DEF tip
      <4> QED BY <4>1, <4>2, <4>3 DEF CloneTypes, WalkTypes
    <3> QED BY <3>1, <3>2
  <2> QED BY <1>14, <2>1, <1>4 DEF Push, Publishes
<1>15. ASSUME NEW q \in Repos, UserCommits(q) PROVE Carried'
  <2>1. UNCHANGED <<locals, pc, written>>
    BY <1>15 DEF UserCommits, Moves, walk
  <2>2. pc = "push" => edges[at] = {} \/ UNCHANGED lock[at]
    <3>1. \/ UNCHANGED lock
          \/ dirt[q] = "staged" /\ lock' = [lock EXCEPT ![q] = written[q]]
      BY <1>15 DEF UserCommits
    <3> QED BY <3>1, <2>1 DEF Done, CloneTypes, WalkTypes, locals
  <2> QED BY <2>1, <2>2, <1>2 DEF locals
<1>16. ASSUME NEW q \in Repos, UserRestores(q) \/ UserRebases(q) PROVE Carried'
  BY <1>16, <1>3 DEF UserRestores, UserRebases, Moves, walk, locals
<1>17. ASSUME NEW q \in Repos, UserEdits(q) \/ OtherPushes(q) PROVE Carried'
  BY <1>17, <1>6 DEF UserEdits, OtherPushes, Moves, walk
<1>18. CASE UNCHANGED vars
  BY <1>18, <1>6 DEF vars, walk
<1> QED
  BY <1>7, <1>8, <1>9, <1>10, <1>11, <1>12, <1>13, <1>14, <1>15, <1>16, <1>17, <1>18 DEF Next

LEMMA CatchUpStep ==
  TypeOK /\ Order /\ Trees /\ Done /\ Carried /\ SiblingsCatchUp /\ [Next]_vars => SiblingsCatchUp'
<1> SUFFICES ASSUME TypeOK, CloneTypes, WalkTypes, Order, Trees, Done, Carried, SiblingsCatchUp, [Next]_vars
             PROVE SiblingsCatchUp'
  BY DEF TypeOK
<1> USE DEF SiblingsCatchUp
<1>1. CASE pc' = "idle"
  BY <1>1
<1>2. CASE Start
  BY <1>2 DEF Start
\* What a step leaves alone.
<1>3. ASSUME pc = "idle" => pc' = "idle", UNCHANGED <<edges, earlier, completed, found, floor, upstream>>,
             pc # "idle" => \A r \in completed : edges[r] = {} \/ UNCHANGED <<lock[r], pinned[r]>>
      PROVE SiblingsCatchUp'
  BY <1>3
<1>4. CASE Visit \/ Probe
  BY <1>4, <1>1, <1>3 DEF Visit, Probe, Goes, Ends, locals, remotes, clone
<1>5. CASE Update \/ Restore \/ Add
  BY <1>5, <1>3 DEF Update, Restore, Add, Goes, locals, remotes
<1>6. CASE CommitBump
  BY <1>6, <1>3 DEF CommitBump, Goes, locals, remotes, Order, CloneTypes, WalkTypes
<1>7. CASE Finish \/ UpdateFails \/ RestoreOrAddFails \/ CommitFails \/ ResetFails \/ StepFails \/ Kill
  BY <1>7, <1>1 DEF Finish, UpdateFails, RestoreOrAddFails, CommitFails, ResetFails, StepFails, Kill, Ends
\* The repository under way is completed.
<1>8. ASSUME pc = "push", at \in Repos, Completes, UNCHANGED lock,
             \A d \in Repos \ {at} : UNCHANGED floor[d],
             \A r \in Repos \ {at} : UNCHANGED pinned[r] /\ (r \in upstream' => r \in upstream),
             at \in upstream' => pinned'[at] = lock[at]
      PROVE SiblingsCatchUp'
  <2>1. /\ at \notin completed /\ earlier[at] \subseteq completed /\ completed' = completed \cup {at}
        /\ UNCHANGED <<edges, earlier, found>>
    BY <1>8 DEF Order, Completes
  <2> DEFINE due(r, d) == IF d \in earlier[r] THEN floor[d] ELSE found[d]
             after(r, d) == IF d \in earlier[r] THEN floor'[d] ELSE found[d]
  <2>2. ASSUME NEW r \in completed, NEW d \in edges[r]
        PROVE lock'[r][d] >= after(r, d) /\ (r \in upstream' => pinned'[r][d] >= after(r, d))
    <3>1. r \in Repos /\ d \in Repos /\ r # at /\ earlier[r] \subseteq completed
      BY <1>8, <2>1, <2>2 DEF WalkTypes
    <3>2. after(r, d) = due(r, d)
      BY <1>8, <2>1, <3>1
    <3>3. lock[r][d] >= due(r, d) /\ (r \in upstream => pinned[r][d] >= due(r, d))
      BY <1>8, <2>2
    <3> HIDE DEF due, after
    <3> QED BY <1>8, <3>1, <3>2, <3>3
  <2>3. ASSUME NEW d \in edges[at]
        PROVE lock'[at][d] >= after(at, d) /\ (at \in upstream' => pinned'[at][d] >= after(at, d))
    <3>1. d \in Repos /\ lock[at] \in Pins /\ found \in Pins /\ floor \in Pins
      BY <1>8, <2>3 DEF WalkTypes, CloneTypes
    <3>2. lock[at][d] >= floor[d] /\ floor[d] >= found[d]
      BY <1>8, <2>3, <3>1 DEF Carried
    <3>3. d \in earlier[at] => floor'[d] = floor[d]
      BY <1>8, <2>1, <3>1
    <3>4. lock[at][d] >= after(at, d)
      BY <3>1, <3>2, <3>3
    <3> HIDE DEF after
    <3> QED BY <1>8, <3>4
  <2>4. \A r \in completed' : earlier'[r] \subseteq completed'
    BY <1>8, <2>1
  <2> QED BY <2>1, <2>2, <2>3, <2>4
<1>9. CASE SkipPush
  BY <1>9, <1>8 DEF SkipPush, remotes, clone, WalkTypes
<1>10. CASE Push
  <2>1. CASE base[at] = remote[at]
    <3>1. PICK tip : floor' = [floor EXCEPT ![at] = tip]
      BY <1>10, <2>1 DEF Push, Publishes
    <3>2. /\ pc = "push" /\ Completes /\ UNCHANGED lock /\ upstream' = upstream \cup {at}
          /\ pinned' = [pinned EXCEPT ![at] = lock[at]]
      BY <1>10, <2>1 DEF Push, Publishes
    <3> QED BY <3>1, <3>2, <1>8 DEF CloneTypes, WalkTypes
  <2> QED BY <1>10, <2>1, <1>1 DEF Push, Publishes, Ends
<1>11. ASSUME NEW q \in Repos, UserCommits(q) PROVE SiblingsCatchUp'
  <2>1. UNCHANGED <<pc, edges, earlier, completed, found, floor, upstream, pinned>>
    BY <1>11 DEF UserCommits, Moves, walk, locals, remotes
  <2>2. pc # "idle" => \A r \in completed : edges[r] = {} \/ UNCHANGED lock[r]
    BY <1>11 DEF UserCommits, Done, CloneTypes, WalkTypes
  <2> QED BY <2>1, <2>2, <1>3
<1>12. ASSUME NEW q \in Repos, UserRestores(q) \/ UserRebases(q) PROVE SiblingsCatchUp'
  BY <1>12, <1>1 DEF UserRestores, UserRebases, Moves, walk
<1>13. ASSUME NEW q \in Repos, UserEdits(q) PROVE SiblingsCatchUp'
  BY <1>13, <1>3 DEF UserEdits, Moves, walk, locals, remotes, clone
\* A relock that somebody else pushes pins the tips, which are no older than what was found.
<1>14. ASSUME NEW q \in Repos, OtherPushes(q) PROVE SiblingsCatchUp'
  <2>1. UNCHANGED <<pc, edges, earlier, completed, found, floor, upstream, lock>>
    BY <1>14 DEF OtherPushes, Moves, walk, locals, clone
  <2>2. \A r, d \in Repos : pinned'[r][d] \in {pinned[r][d], remote[d]}
    <3> DEFINE l == [d \in Repos |-> IF d \in Deps[q] THEN remote[d] ELSE pinned[q][d]]
    <3>1. UNCHANGED pinned \/ pinned' = [pinned EXCEPT ![q] = l]
      BY <1>14 DEF OtherPushes
    <3>2. CASE UNCHANGED pinned
      BY <3>2
    <3>3. CASE pinned' = [pinned EXCEPT ![q] = l]
      BY <3>3 DEF CloneTypes
    <3> QED BY <3>1, <3>2, <3>3
  <2> DEFINE due(r, d) == IF d \in earlier[r] THEN floor[d] ELSE found[d]
  <2>3. ASSUME pc # "idle", NEW r \in completed, NEW d \in edges[r], r \in upstream
        PROVE pinned'[r][d] >= due(r, d)
    <3>1. r \in Repos /\ d \in Repos
      BY <2>3 DEF WalkTypes
    <3>2. remote[d] \in Nat /\ floor[d] \in Nat /\ found[d] \in Nat
      BY <3>1 DEF CloneTypes, WalkTypes
    <3>3. remote[d] >= floor[d] /\ floor[d] >= found[d]
      BY <2>3, <3>1 DEF Carried
    <3>4. remote[d] >= due(r, d)
      BY <3>2, <3>3
    <3>5. pinned[r][d] >= due(r, d)
      BY <2>3
    <3> HIDE DEF due
    <3> QED BY <2>2, <3>1, <3>4, <3>5
  <2> QED BY <2>1, <2>3
<1>15. CASE UNCHANGED vars
  BY <1>15, <1>3 DEF vars, walk, locals, remotes, clone
<1> QED
  BY <1>2, <1>4, <1>5, <1>6, <1>7, <1>9, <1>10, <1>11, <1>12, <1>13, <1>14, <1>15 DEF Next

\* As long as a run goes on, a repository that it completed pins each sibling of
\* its edge lock at least at the version that the run found or published, at
\* its remote too if it was pushed, whatever the user and others do meanwhile.
THEOREM CatchUp == Spec => []SiblingsCatchUp
<1> DEFINE IInv == Order /\ Trees /\ Done /\ Carried /\ SiblingsCatchUp
<1>1. Init => IInv
  BY DEF Init, Order, Trees, Done, Carried, SiblingsCatchUp, NoPins
<1>2. TypeOK /\ IInv /\ [Next]_vars => IInv'
  BY OrderStep, TreesStep, DoneStep, CarriedStep, CatchUpStep DEF TypeOK
<1>3. IInv => SiblingsCatchUp
  OBVIOUS
<1> HIDE DEF IInv
<1> QED BY <1>1, <1>2, <1>3, TypeCorrect, PTL DEF Spec
-----------------------------------------------------------------------------
(* The push implements DependenciesFirst: one step per repository that was  *)
(* pushed or skipped, one for the end of a run, none for what a relock does *)
(* to a clone.  That the pins are published is PinsArePublished, that they  *)
(* are fresh is Carried, that the order is kept is Order.                   *)

\* What the remotes and the progress of the run are made of.
Outer == <<pc # "idle", remote, pinned, edges, earlier, found, floor, completed,
           completed \cap upstream, outcome>>

\* What does not touch them is no step of the promise.
LEMMA Inside == Outer' = Outer => UNCHANGED Walk!vars
BY DEF Outer, Walk!vars, Walk!remotes, Walk!run

\* However a run ends, it ends in one step.
LEMMA EndsWalk ==
  ASSUME pc # "idle", UNCHANGED remotes, NEW o \in {"aborted", "killed"}, Ends(o)
  PROVE  Walk!End
BY DEF Ends, NoEdges, NoPins, remotes, Walk!End, Walk!Resting, Walk!Zero, Walk!remotes

\* A step of the push is a step of the promise, or none.
LEMMA StepPromises ==
  TypeOK /\ PinsArePublished /\ Order /\ Carried /\ [Next]_vars => [Walk!Next]_(Walk!vars)
<1> SUFFICES ASSUME TypeOK, CloneTypes, WalkTypes, PinsArePublished, Order, Carried, [Next]_vars
             PROVE  Walk!Next \/ UNCHANGED Walk!vars
  BY DEF TypeOK
<1>1. CASE Outer' = Outer
  BY <1>1, Inside
<1>2. CASE Start
  <2>1. Walk!Begin
    BY <1>2 DEF Start, Walk!Begin, Walk!remotes, remotes
  <2> QED BY <2>1 DEF Walk!Next
<1>3. CASE Finish
  <2>1. Walk!End
    BY <1>3 DEF Finish, Ends, NoEdges, NoPins, remotes, Walk!End, Walk!Resting, Walk!Zero, Walk!remotes
  <2> QED BY <2>1 DEF Walk!Next
<1>4. CASE UpdateFails \/ RestoreOrAddFails \/ CommitFails \/ ResetFails \/ StepFails \/ Kill
  <2>1. pc # "idle" /\ UNCHANGED remotes
    BY <1>4 DEF UpdateFails, RestoreOrAddFails, CommitFails, ResetFails, StepFails, Kill, remotes
  <2>2. \E o \in {"aborted", "killed"} : Ends(o)
    BY <1>4 DEF UpdateFails, RestoreOrAddFails, CommitFails, ResetFails, StepFails, Kill
  <2> QED BY <2>1, <2>2, EndsWalk DEF Walk!Next
<1>5. CASE Probe
  <2>1. CASE Dirty(at)
    BY <1>5, <2>1, EndsWalk DEF Probe, Walk!Next
  <2>2. CASE ~Dirty(at)
    BY <1>5, <2>2, <1>1 DEF Probe, Goes, locals, remotes, clone, Outer
  <2> QED BY <2>1, <2>2
<1>6. CASE Visit
  BY <1>6, <1>1 DEF Visit, remotes, clone, Outer
<1>7. CASE Update \/ Restore \/ Add \/ CommitBump
  <2>1. pc # "idle" /\ UNCHANGED <<remotes, upstream>>
    BY <1>7 DEF Update, Restore, Add, CommitBump, remotes
  <2>2. \E l \in Relock \cup {"push"} : Goes(l)
    BY <1>7 DEF Update, Restore, Add, CommitBump
  <2> QED BY <2>1, <2>2, <1>1 DEF Goes, locals, remotes, Outer
<1>8. CASE SkipPush
  <2>1. pc = "push" /\ at \in Repos /\ at \notin completed /\ earlier[at] \subseteq completed
    BY <1>8 DEF SkipPush, WalkTypes, Order
  <2>2. /\ at \notin upstream /\ completed' = completed \cup {at} /\ pc' = "walk"
        /\ UNCHANGED <<remotes, upstream, edges, earlier, found, floor, outcome>>
    BY <1>8 DEF SkipPush, Completes, clone
  <2>3. Walk!Skip(at)
    BY <2>1, <2>2 DEF Walk!Skip, Walk!Pass, Walk!remotes, remotes
  <2> QED BY <2>1, <2>3 DEF Walk!Next
<1>9. CASE Push
  <2>1. pc = "push" /\ at \in Repos /\ at \notin completed /\ earlier[at] \subseteq completed
    BY <1>9 DEF Push, WalkTypes, Order
  <2>2. CASE base[at] # remote[at]
    BY <1>9, <2>1, <2>2, EndsWalk DEF Push, Publishes, Walk!Next
  <2>3. CASE base[at] = remote[at]
    <3>1. PICK v \in {remote[at], remote[at] + 1} :
            remote' = [remote EXCEPT ![at] = v] /\ floor' = [floor EXCEPT ![at] = v]
      BY <1>9, <2>1, <2>3 DEF Push, Publishes, CloneTypes
    <3>2. /\ pinned' = [pinned EXCEPT ![at] = lock[at]] /\ upstream' = upstream \cup {at}
          /\ completed' = completed \cup {at} /\ pc' = "walk"
          /\ UNCHANGED <<edges, earlier, found, outcome>>
      BY <1>9, <2>3 DEF Push, Publishes, Completes
    <3>3. pinned'[at] = lock[at] /\ lock[at] \in [Repos -> Nat]
      BY <2>1, <3>2 DEF CloneTypes
    <3>4. Walk!Repins(at)
      BY <2>1, <3>2, <3>3 DEF Walk!Repins, PinsArePublished
    <3>5. \A d \in edges[at] : pinned'[at][d] >= floor[d]
      BY <2>1, <3>3 DEF Carried
    <3>6. Walk!Pass(at)
      BY <2>1, <3>2 DEF Walk!Pass
    <3>7. Walk!Push(at)
      BY <3>1, <3>2, <3>4, <3>5, <3>6 DEF Walk!Push
    <3> QED BY <2>1, <3>7 DEF Walk!Next
  <2> QED BY <2>2, <2>3
<1>10. ASSUME NEW r \in Repos, UserEdits(r) \/ UserCommits(r) \/ UserRestores(r) \/ UserRebases(r)
       PROVE  Walk!Next \/ UNCHANGED Walk!vars
  BY <1>10, <1>1 DEF UserEdits, UserCommits, UserRestores, UserRebases, Moves, walk, locals, remotes, clone, Outer
<1>11. ASSUME NEW r \in Repos, OtherPushes(r) PROVE Walk!Next
  <2> DEFINE tips == [d \in Repos |-> IF d \in Deps[r] THEN remote[d] ELSE pinned[r][d]]
  <2>1. /\ UNCHANGED <<pc, edges, earlier, found, floor, completed, upstream, outcome>>
        /\ remote' = [remote EXCEPT ![r] = @ + 1]
    BY <1>11 DEF OtherPushes, Moves, walk, locals, clone
  <2>2. UNCHANGED pinned \/ pinned' = [pinned EXCEPT ![r] = tips]
    BY <1>11 DEF OtherPushes
  <2>3. pinned[r] \in Pins /\ tips \in Pins /\ remote \in Pins
    BY DEF CloneTypes
  <2>4. \A d \in Repos : /\ pinned[r][d] <= remote[d]
                         /\ pinned[r][d] <= tips[d] /\ tips[d] <= remote[d]
    BY <2>3 DEF PinsArePublished
  <2> HIDE DEF tips
  <2>5. pinned'[r] \in {pinned[r], tips} /\ pinned' = [pinned EXCEPT ![r] = pinned'[r]]
    BY <2>2 DEF CloneTypes
  <2>6. Walk!Repins(r)
    BY <2>3, <2>4, <2>5 DEF Walk!Repins
  <2>7. Walk!OtherPushes(r)
    BY <2>1, <2>3, <2>4, <2>5, <2>6 DEF Walk!OtherPushes, Walk!run
  <2> QED BY <2>7 DEF Walk!Next
<1>12. CASE UNCHANGED vars
  BY <1>12, <1>1 DEF vars, walk, locals, remotes, clone, Outer
<1> QED
  BY <1>2, <1>3, <1>4, <1>5, <1>6, <1>7, <1>8, <1>9, <1>10, <1>11, <1>12 DEF Next

\* Relocks in clones that a user works in, commits that hooks reject, rejected
\* pushes, kills and the pushes of others add up to publishing one repository
\* after the other, each with fresh pins (push.go, propagate.go).
THEOREM Refinement == Spec => PublishesDependenciesFirst
<1> DEFINE IInv == Order /\ Trees /\ Done /\ Carried
<1>1. Init => IInv /\ Walk!Init
  BY DEF Init, Order, Trees, Done, Carried, NoPins, NoEdges, Walk!Init, Walk!Resting, Walk!Zero
<1>2. TypeOK /\ IInv /\ [Next]_vars => IInv'
  BY OrderStep, TreesStep, DoneStep, CarriedStep DEF TypeOK
<1>3. TypeOK /\ PinsArePublished /\ IInv /\ [Next]_vars => [Walk!Next]_(Walk!vars)
  BY StepPromises
<1> HIDE DEF IInv
<1> QED
  BY <1>1, <1>2, <1>3, TypeCorrect, PinsPublished, PTL DEF Spec, PublishesDependenciesFirst, Walk!Spec

\* What the promise amounts to: nothing published pins what is not, and what a run
\* pushed pins its siblings at the versions that it found, or published before.
THEOREM PromiseMeansFreshPins == PublishesDependenciesFirst => []Walk!PinsAreFresh
<1> DEFINE pushed == completed \cap upstream
           Sound ==
             /\ {remote, found, floor} \subseteq Pins /\ pinned \in [Repos -> Pins]
             /\ {edges, earlier} \subseteq [Repos -> SUBSET Repos] /\ completed \subseteq Repos
             /\ \A d \in Repos : found[d] <= floor[d] /\ floor[d] <= remote[d]
             /\ \A r \in completed : earlier[r] \subseteq completed
             /\ Walk!PinsAreFresh
<1>1. Walk!Init => Sound
  BY DEF Walk!Init, Walk!Resting, Walk!Zero, Walk!PinsAreFresh
<1>2. Sound /\ [Walk!Next]_(Walk!vars) => Sound'
  <2> SUFFICES ASSUME Sound, [Walk!Next]_(Walk!vars) PROVE Sound'
    OBVIOUS
  <2>1. CASE UNCHANGED Walk!vars
    BY <2>1 DEF Walk!vars, Walk!remotes, Walk!run, Walk!PinsAreFresh
  <2>2. CASE Walk!Begin
    BY <2>2 DEF Walk!Begin, Walk!remotes, Walk!PinsAreFresh
  <2>3. CASE Walk!End
    BY <2>3 DEF Walk!End, Walk!Resting, Walk!Zero, Walk!remotes, Walk!PinsAreFresh
  <2>4. ASSUME NEW r \in Repos, Walk!Skip(r) PROVE Sound'
    BY <2>4 DEF Walk!Skip, Walk!Pass, Walk!remotes, Walk!PinsAreFresh
  <2>5. ASSUME NEW r \in Repos, Walk!Push(r) PROVE Sound'
    <3>1. PICK v \in {remote[r], remote[r] + 1} :
            remote' = [remote EXCEPT ![r] = v] /\ floor' = [floor EXCEPT ![r] = v]
      BY <2>5 DEF Walk!Push
    <3>2. /\ pinned' = [pinned EXCEPT ![r] = pinned'[r]] /\ pinned'[r] \in [Repos -> Nat]
          /\ \A d \in Repos : pinned'[r][d] <= remote[d]
          /\ \A d \in edges[r] : pinned'[r][d] >= floor[d]
      BY <2>5 DEF Walk!Push, Walk!Repins
    <3>3. /\ r \notin completed /\ earlier[r] \subseteq completed /\ completed' = completed \cup {r}
          /\ pushed' = pushed \cup {r} /\ UNCHANGED <<edges, earlier, found>>
      BY <2>5 DEF Walk!Push, Walk!Pass
    <3>4. \A s \in Repos : s # r => UNCHANGED <<pinned[s], floor[s], remote[s]>>
      BY <3>1, <3>2
    <3>5. \A d \in Repos : /\ remote[d] <= remote'[d] /\ floor'[d] <= remote'[d]
                           /\ found'[d] <= floor'[d]
      BY <3>1, <3>3
    <3>6. ASSUME NEW s \in Repos, NEW d \in Repos PROVE pinned'[s][d] <= remote'[d]
      <4>1. pinned[s][d] <= remote[d]
        BY DEF Walk!PinsAreFresh
      <4>2. remote[d] \in Nat /\ remote'[d] \in Nat /\ pinned[s][d] \in Nat /\ remote[d] <= remote'[d]
        BY <3>1, <3>5
      <4>3. CASE s = r
        BY <4>2, <4>3, <3>2
      <4>4. CASE s # r
        BY <4>1, <4>2, <4>4, <3>4
      <4> QED BY <4>3, <4>4
    <3>7. ASSUME NEW s \in pushed', NEW d \in edges'[s]
          PROVE  pinned'[s][d] >= IF d \in earlier'[s] THEN floor'[d] ELSE found'[d]
      <4>1. d \in Repos /\ s \in Repos
        BY <3>3, <3>7
      <4>2. CASE s = r
        <5>1. pinned'[r][d] >= floor[d] /\ floor[d] >= found[d]
          BY <4>1, <4>2, <3>2, <3>3
        <5>2. d \in earlier[r] => floor'[d] = floor[d]
          BY <4>1, <3>3, <3>4
        <5>3. {pinned'[r][d], floor[d], found[d]} \subseteq Nat
          BY <4>1, <3>2
        <5> QED BY <4>2, <5>1, <5>2, <5>3, <3>3
      <4>3. CASE s # r
        <5>1. s \in pushed /\ d \in edges[s] /\ earlier[s] \subseteq completed
          BY <4>3, <3>3, <3>7
        <5>2. pinned[s][d] >= IF d \in earlier[s] THEN floor[d] ELSE found[d]
          BY <5>1 DEF Walk!PinsAreFresh
        <5>3. d \in earlier[s] => floor'[d] = floor[d]
          BY <4>1, <5>1, <3>3, <3>4
        <5> QED BY <4>1, <4>3, <5>2, <5>3, <3>3, <3>4
      <4> QED BY <4>2, <4>3
    <3>8. Walk!PinsAreFresh'
      BY <3>6, <3>7 DEF Walk!PinsAreFresh
    <3>9. /\ {remote, found, floor}' \subseteq Pins /\ pinned' \in [Repos -> Pins]
          /\ {edges, earlier}' \subseteq [Repos -> SUBSET Repos] /\ completed' \subseteq Repos
          /\ \A s \in completed' : earlier'[s] \subseteq completed'
      BY <3>1, <3>2, <3>3
    <3> QED BY <3>5, <3>8, <3>9
  <2>6. ASSUME NEW r \in Repos, Walk!OtherPushes(r) PROVE Sound'
    <3>1. /\ pinned' = [pinned EXCEPT ![r] = pinned'[r]] /\ pinned'[r] \in [Repos -> Nat]
          /\ \A d \in Repos : pinned'[r][d] <= remote[d] /\ pinned'[r][d] >= pinned[r][d]
          /\ remote' = [remote EXCEPT ![r] = @ + 1]
          /\ UNCHANGED <<edges, earlier, found, floor, completed, pushed>>
      BY <2>6 DEF Walk!OtherPushes, Walk!Repins, Walk!run
    <3>2. /\ remote' \in Pins /\ pinned' \in [Repos -> Pins]
          /\ \A d \in Repos : remote[d] <= remote'[d]
      BY <3>1
    <3>3. ASSUME NEW s \in Repos, NEW d \in Repos
          PROVE  pinned'[s][d] <= remote'[d] /\ pinned'[s][d] >= pinned[s][d]
      <4>1. pinned[s][d] <= remote[d]
        BY DEF Walk!PinsAreFresh
      <4> QED BY <4>1, <3>1, <3>2
    <3>4. ASSUME NEW s \in pushed, NEW d \in edges[s]
          PROVE  pinned'[s][d] >= IF d \in earlier[s] THEN floor[d] ELSE found[d]
      <4>1. s \in Repos /\ d \in Repos
        BY <3>4
      <4>2. pinned[s][d] >= IF d \in earlier[s] THEN floor[d] ELSE found[d]
        BY <3>4 DEF Walk!PinsAreFresh
      <4>3. {pinned[s][d], pinned'[s][d], floor[d], found[d]} \subseteq Nat
        BY <4>1, <3>2
      <4> QED BY <4>1, <4>2, <4>3, <3>3
    <3>5. Walk!PinsAreFresh'
      BY <3>1, <3>3, <3>4 DEF Walk!PinsAreFresh
    <3>6. \A d \in Repos : floor[d] <= remote'[d]
      BY <3>2
    <3> QED BY <3>1, <3>2, <3>5, <3>6
  <2> QED
    BY <2>1, <2>2, <2>3, <2>4, <2>5, <2>6 DEF Walk!Next
<1>3. Sound => Walk!PinsAreFresh
  OBVIOUS
<1> HIDE DEF Sound
<1> QED
  BY <1>1, <1>2, <1>3, PTL DEF PublishesDependenciesFirst, Walk!Spec

-----------------------------------------------------------------------------
(* A run that started on clean clones at the remote tips, and that nobody   *)
(* and nothing disturbed: the only dirt is that of its own relock, and each *)
(* push finds the remote where its clone is.                                *)

Steady ==
    /\ pc = "idle" => outcome = "ok"
    /\ base = remote
    /\ \A r \in Repos : edits[r] = "none"
    /\ \A r \in Repos : dirt[r] # "clean" => r = at /\ pc \in {"restore", "add", "commit"}
    /\ pc = "add" => dirt[at] = "modified"
    /\ pc = "commit" => dirt[at] = "staged"

Undisturbed == ready /\ calm => Steady

LEMMA SteadyStep ==
    ASSUME TypeOK, Undisturbed, [Next]_vars, ready', calm'
    PROVE  Steady'
<1>0. CloneTypes /\ WalkTypes
  BY DEF TypeOK
<1> USE <1>0 DEF CloneTypes, WalkTypes
<1>1. CASE Start
  BY <1>1 DEF Start, Steady, Dirty, clone, work, remotes
<1>2. ASSUME ~Start PROVE ready /\ calm /\ Steady
  <2>1. UNCHANGED <<ready, calm>>
    BY <1>2 DEF Next, vars, walk, locals, Visit, Finish, Probe, Update, UpdateFails, Restore, Add,
           RestoreOrAddFails, CommitBump, CommitFails, ResetFails, Push, Publishes, Completes, SkipPush,
           StepFails, Kill, UserEdits, UserCommits, UserRestores, UserRebases, OtherPushes, Moves,
           Fault, NoFault, Goes, Ends
  <2> QED BY <2>1 DEF Undisturbed
<1>3. ~Fault /\ ~Moves
  BY DEF Fault, Moves
<1>4. CASE UNCHANGED vars \/ Visit \/ Finish \/ SkipPush
  BY <1>4, <1>2 DEF vars, Visit, Finish, SkipPush, Completes, Ends, Steady, remotes, clone, work, walk, locals, Start
<1>5. CASE Probe \/ Restore \/ Add \/ Update
  <2>1. at \in Repos /\ UNCHANGED <<base, remote, edits>> /\ ~Start
    BY <1>5 DEF Probe, Restore, Add, Update, Start, remotes, clone, work
  <2>2. Steady
    BY <2>1, <1>2
  <2>3. CASE Probe
    <3>1. ~Dirty(at)
      BY <2>1, <2>2, <2>3 DEF Steady, Dirty, Probe
    <3> QED BY <2>1, <2>2, <2>3, <3>1 DEF Probe, Goes, locals, Steady, clone
  <2>4. CASE Restore
    BY <2>1, <2>2, <2>4 DEF Restore, Goes, locals, Steady
  <2>6. CASE Add
    <3>1. dirt[at] = "modified" /\ dirt' = [dirt EXCEPT ![at] = "staged"]
      BY <2>1, <2>2, <2>6 DEF Add, Steady
    <3>2. pc' = "commit" /\ at' = at
      BY <2>6 DEF Add, Goes, locals
    <3>3. dirt'[at] = "staged" /\ \A r \in Repos : r # at => dirt'[r] = dirt[r]
      BY <2>1, <3>1
    <3> QED BY <2>1, <2>2, <3>2, <3>3 DEF Steady
  <2>5. CASE Update
    <3>1. pc = "update" /\ at' = at /\ \A r \in Repos : dirt[r] = "clean"
      BY <2>2, <2>5 DEF Update, Goes, locals, Steady
    <3>2. \/ dirt' = [dirt EXCEPT ![at] = "modified"] /\ pc' \in {"add", "restore"}
          \/ UNCHANGED dirt /\ pc' = "push"
      BY <2>5 DEF Update, Writes, Goes
    <3>3. \A r \in Repos : r # at => dirt'[r] = "clean"
      BY <2>1, <3>1, <3>2
    <3>4. pc' \in {"add", "restore"} => dirt'[at] = "modified"
      BY <2>1, <3>2
    <3> QED BY <2>1, <2>2, <3>1, <3>2, <3>3, <3>4 DEF Steady
  <2> QED BY <1>5, <2>3, <2>4, <2>5, <2>6
<1>6. CASE CommitBump
  <2>1. at \in Repos /\ ~Start
    BY <1>6 DEF CommitBump, Start
  <2>2. Steady /\ UNCHANGED <<remotes, base, work>>
    BY <1>6, <1>2, <2>1 DEF CommitBump, Suffer, Steady
  <2> QED BY <1>6, <2>1, <2>2 DEF CommitBump, Goes, locals, Steady, remotes, work
<1>7. CASE CommitFails
  BY <1>7, <1>2, <1>3 DEF CommitFails, Steady, Start
<1>8. CASE Push
  <2>1. at \in Repos /\ base = remote /\ Steady
    BY <1>8, <1>2 DEF Push, Steady, Start
  <2>2. Completes /\ base' = remote' /\ UNCHANGED <<dirt, edits>> /\ pc = "push"
    BY <1>8, <2>1 DEF Push, Publishes, work
  <2> QED BY <2>1, <2>2 DEF Steady, Completes
<1> QED
  BY <1>1, <1>3, <1>4, <1>5, <1>6, <1>7, <1>8 DEF Next, UpdateFails, RestoreOrAddFails, ResetFails,
     StepFails, Kill, UserEdits, UserCommits, UserRestores, UserRebases, OtherPushes

\* A run over clean clones that have the remote tips does not stop itself
\* (propagateWorkspaceEdges, relockSiblingsBeforePush).
THEOREM UndisturbedSucceeds == Spec => []UndisturbedRunSucceeds
<1>1. Init => Undisturbed
  BY DEF Init, Undisturbed
<1>2. TypeOK /\ Undisturbed /\ [Next]_vars => Undisturbed'
  BY SteadyStep DEF Undisturbed
<1>3. Undisturbed => UndisturbedRunSucceeds
  BY DEF Undisturbed, Steady, UndisturbedRunSucceeds
<1> QED BY <1>1, <1>2, <1>3, TypeCorrect, PTL DEF Spec
=============================================================================
