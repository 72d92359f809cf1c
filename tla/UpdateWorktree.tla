---------------------------- MODULE UpdateWorktree ----------------------------
(***************************************************************************)
(* pn workspace update of one repository in an ephemeral worktree          *)
(* (modules/pn/internal/workspace/update_worktree.go), beside a user who   *)
(* commits, edits and switches branches in the primary checkout and others *)
(* who push.                                                               *)
(*                                                                         *)
(* A branch is the sequence of its patches, so a commit is a prefix and an *)
(* ancestor of another is a prefix of it.  Uncommitted edits are one       *)
(* value: apart from the files an update touches, or clashing with them.   *)
(***************************************************************************)
EXTENDS Integers, Sequences, FiniteSets, SequencesExt

CONSTANTS Base, Local, Remote, Relock, Edits,  \* patches: where they come from
          MaxMoves,   \* bound: what the user does meanwhile
          MaxFaults   \* bound: failing commands, conflicts, kills

Patches == {Base, Local, Remote, Relock, Edits}
Gone == << >>  \* a branch that does not exist

ASSUME ConstantsAssumption ==
    MaxMoves \in Nat /\ MaxFaults \in Nat /\ IsInjective(<<Base, Local, Remote, Relock, Edits>>)

VARIABLES
    main, other, head,   \* local main, another branch, the one checked out in the primary
    tree, stash,         \* uncommitted edits of the primary; git stash, newest first
    remote, tracking,    \* main at the remote, and origin/main as last fetched
    branch, worktree,    \* pn-update/<run>, and whether its worktree exists
    pc, status,          \* updateRepoViaWorktree; repoOutcome.status, and its failedStep if deferred
    relocked,            \* update-locks.sh committed
    raced,               \* the primary is no longer what primaryMainState saw
    edits,               \* uncommitted edits the user has somewhere
    moves, faults        \* what the user did, and what went wrong, so far

primary == <<main, other, head, tree, stash>>
remotes == <<remote, tracking>>
work == <<branch, worktree, relocked>>
user == <<edits, moves>>
vars == <<primary, remotes, work, user, pc, status, raced, faults>>

EditKinds == {"apart", "clash", "mine"}
Deferred == {"ff-merge", "ff-ref", "integrate", "autostash-pop"}
Failed == Deferred \cup {"failed", "aborted", "killed"}
Steps == {"add", "fetch", "sync", "relock", "local", "refetch", "resync", "probe",
          "mergeClean", "mergeRef", "mergeDirty", "stash", "retry", "pop", "popBack",
          "cleanup", "end"}
AfterProbe == {"mergeClean", "mergeRef", "mergeDirty", "stash", "retry", "pop", "popBack"}

Fault == faults < MaxFaults /\ faults' = faults + 1
Ends(s) == pc' = "end" /\ status' = s
Goes(l) == pc' = l /\ UNCHANGED status

\* Where the patches of from are that onto lacks; the k-th element of a set of numbers.
Lacking(onto, from) == {i \in DOMAIN from : ~Contains(onto, from[i])}
Nth(S, k) == CHOOSE i \in S : Cardinality({j \in S : j <= i}) = k

\* git rebase of from onto onto.
Replay(onto, from) ==
    LET new == Lacking(onto, from)
    IN onto \o [k \in 1..Cardinality(new) |-> from[Nth(new, k)]]

Init ==
    /\ main \in {<<Base>>, <<Base, Local>>} /\ other = <<Base>>
    /\ head \in {"main", "other"}
    /\ tree \in {"clean", "apart", "clash"} /\ stash \in {<< >>, <<"mine">>}
    /\ remote \in {<<Base>>, <<Base, Remote>>} /\ tracking = <<Base>>
    /\ branch = Gone /\ worktree = FALSE /\ relocked = FALSE
    /\ pc = "add" /\ status = "none" /\ raced = FALSE
    /\ edits = ({tree} \ {"clean"}) \cup ToSet(stash)
    /\ moves = 0 /\ faults = 0

-----------------------------------------------------------------------------
(* The user and the others.                                                *)

Moves == /\ moves < MaxMoves /\ moves' = moves + 1
         /\ raced' = (raced \/ pc \in AfterProbe)
         /\ UNCHANGED <<remotes, work, pc, status, faults>>

CheckedOut == IF head = "main" THEN main ELSE other
CheckedOutBecomes(b) == /\ main' = IF head = "main" THEN b ELSE main
                        /\ other' = IF head = "main" THEN other ELSE b

UserCommits ==
    /\ ~Contains(main, Local) /\ ~Contains(other, Local)
    /\ CheckedOutBecomes(Append(CheckedOut, Local))
    /\ Moves /\ UNCHANGED <<head, tree, stash, edits>>

UserCommitsEdits ==
    /\ tree \in {"apart", "clash"} /\ ~Contains(main, Edits) /\ ~Contains(other, Edits)
    /\ CheckedOutBecomes(Append(CheckedOut, Edits))
    /\ tree' = "clean" /\ edits' = edits \ {tree}
    /\ Moves /\ UNCHANGED <<head, stash>>

UserEdits ==
    /\ tree = "clean"
    /\ \E e \in {"apart", "clash"} \ edits : tree' = e /\ edits' = edits \cup {e}
    /\ Moves /\ UNCHANGED <<main, other, head, stash>>

UserSwitches ==
    /\ tree = "clean"
    /\ head' = IF head = "main" THEN "other" ELSE "main"
    /\ Moves /\ UNCHANGED <<main, other, tree, stash, edits>>

OtherPushes ==
    /\ ~Contains(remote, Remote)
    /\ remote' = Append(remote, Remote)
    /\ moves < MaxMoves /\ moves' = moves + 1
    /\ UNCHANGED <<primary, tracking, work, edits, pc, status, raced, faults>>

-----------------------------------------------------------------------------
(* Up to the relocked branch.                                              *)

WorktreeAdd ==
    /\ pc = "add"
    /\ branch' = main /\ worktree' = TRUE
    /\ Goes("fetch")
    /\ UNCHANGED <<primary, remotes, user, relocked, raced, faults>>

Fetch ==
    /\ pc \in {"fetch", "refetch"}
    /\ tracking' = remote
    /\ Goes(IF pc = "fetch" THEN "sync" ELSE "resync")
    /\ UNCHANGED <<primary, remote, work, user, raced, faults>>

\* git rebase of the branch: step 2 and 5 onto origin/main, step 4 onto main.
Rebase ==
    /\ pc \in {"sync", "local", "resync"}
    /\ branch' = Replay(IF pc = "local" THEN main ELSE tracking, branch)
    /\ Goes(CASE pc = "sync" -> "relock" [] pc = "local" -> "refetch" [] OTHER -> "probe")
    /\ UNCHANGED <<primary, remotes, worktree, relocked, user, raced, faults>>

\* update-locks.sh, or the sibling relock; it may have nothing to commit.
UpdateLocks ==
    /\ pc = "relock"
    /\ relocked' \in BOOLEAN
    /\ branch' = IF relocked' THEN Append(branch, Relock) ELSE branch
    /\ Goes("local")
    /\ UNCHANGED <<primary, remotes, worktree, user, raced, faults>>

\* It fails, perhaps after a commit; exit 77 aborts the whole run.
UpdateLocksFails ==
    /\ pc = "relock"
    /\ relocked' \in BOOLEAN
    /\ branch' = IF relocked' THEN Append(branch, Relock) ELSE branch
    /\ \E s \in {"failed", "aborted"} : Ends(s)
    /\ Fault
    /\ UNCHANGED <<primary, remotes, worktree, user, raced>>

\* Variant: the failed step removes the worktree and its branch.
StepFailsCleansUp ==
    /\ pc \in {"add", "fetch", "sync", "local", "refetch", "resync"}
    /\ branch' = Gone /\ worktree' = FALSE
    /\ Ends("failed")
    /\ Fault
    /\ UNCHANGED <<primary, remotes, relocked, user, raced>>

\* A git command before the integration fails; a conflicting rebase is aborted.
\* The branch is left behind.
StepFails ==
    /\ pc \in {"add", "fetch", "sync", "local", "refetch", "resync"}
    /\ Ends("failed")
    /\ Fault
    /\ UNCHANGED <<primary, remotes, work, user, raced>>

-----------------------------------------------------------------------------
(* Step 6: the primary checkout.                                           *)

\* primaryMainState.
Probe ==
    /\ pc = "probe"
    /\ Goes(IF head # "main" THEN "mergeRef" ELSE IF tree = "clean" THEN "mergeClean" ELSE "mergeDirty")
    /\ UNCHANGED <<primary, remotes, work, user, raced, faults>>

\* A probe fails: taken for another branch, or for a dirty main.
ProbeFails ==
    /\ pc = "probe"
    /\ \/ Goes("mergeRef")
       \/ head = "main" /\ Goes("mergeDirty")
    /\ raced' = TRUE
    /\ Fault
    /\ UNCHANGED <<primary, remotes, work, user>>

\* git merge --ff-only branch, in the primary: on whatever is checked out.
CanForward == \/ IsPrefix(branch, CheckedOut)
              \/ IsPrefix(CheckedOut, branch) /\ tree \in {"clean", "apart", "mine"}
Forwards == CheckedOutBecomes(IF IsPrefix(branch, CheckedOut) THEN CheckedOut ELSE branch)

Merge ==
    /\ pc = "mergeClean"
    /\ IF CanForward THEN Forwards /\ Goes("cleanup")
                     ELSE Ends("ff-merge") /\ UNCHANGED <<main, other>>
    /\ UNCHANGED <<head, tree, stash, remotes, work, user, raced, faults>>

\* git fetch . branch:main; git refuses it for the checked-out branch.
ForwardRef ==
    /\ pc = "mergeRef"
    /\ IF head # "main" /\ IsPrefix(main, branch)
       THEN main' = branch /\ Goes("cleanup")
       ELSE Ends("ff-ref") /\ UNCHANGED main
    /\ UNCHANGED <<other, head, tree, stash, remotes, work, user, raced, faults>>

\* A dirty main: first without a stash.
MergeDirty ==
    /\ pc = "mergeDirty"
    /\ IF CanForward THEN Forwards /\ Goes("cleanup")
                     ELSE Goes("stash") /\ UNCHANGED <<main, other>>
    /\ UNCHANGED <<head, tree, stash, remotes, work, user, raced, faults>>

\* git stash push: nothing to save is a success.
StashPush ==
    /\ pc = "stash" /\ tree # "conflict"
    /\ IF tree = "clean" THEN UNCHANGED <<tree, stash>>
       ELSE stash' = <<tree>> \o stash /\ tree' = "clean"
    /\ Goes("retry")
    /\ UNCHANGED <<main, other, head, remotes, work, user, raced, faults>>

StashFails ==
    /\ pc = "stash"
    /\ Ends("integrate")
    /\ Fault
    /\ UNCHANGED <<primary, remotes, work, user, raced>>

Retry ==
    /\ pc = "retry"
    /\ IF CanForward THEN Forwards /\ Goes("pop")
                     ELSE Goes("popBack") /\ UNCHANGED <<main, other>>
    /\ UNCHANGED <<head, tree, stash, remotes, work, user, raced, faults>>

\* Variant: the stash is only popped after a fast-forward.
StashPopForgets ==
    /\ pc \in {"pop", "popBack"}
    /\ IF pc = "pop" THEN stash # << >> /\ tree = "clean" /\ tree' = Head(stash) /\ stash' = Tail(stash)
                     ELSE UNCHANGED <<tree, stash>>
    /\ IF pc = "pop" THEN Goes("cleanup") ELSE Ends("ff-merge")
    /\ UNCHANGED <<main, other, head, remotes, work, user, raced, faults>>

\* git stash pop takes the newest entry, whoever made it.
StashPop ==
    /\ pc \in {"pop", "popBack"} /\ stash # << >> /\ tree = "clean"
    /\ tree' = Head(stash) /\ stash' = Tail(stash)
    /\ IF pc = "pop" THEN Goes("cleanup") ELSE Ends("ff-merge")
    /\ UNCHANGED <<main, other, head, remotes, work, user, raced, faults>>

\* No entry, a conflict, or edits in the way: the entry stays.
StashPopFails ==
    /\ pc \in {"pop", "popBack"}
    /\ \/ stash # << >> /\ tree = "clean" /\ tree' = "conflict" /\ Fault
       \/ (stash = << >> \/ tree # "clean") /\ UNCHANGED <<tree, faults>>
    /\ Ends(IF pc = "pop" THEN "autostash-pop" ELSE "ff-merge")
    /\ UNCHANGED <<main, other, head, stash, remotes, work, user, raced>>

\* Step 7: worktree remove and branch -D.
CleanUp ==
    /\ pc = "cleanup"
    /\ worktree' = FALSE /\ branch' = Gone
    /\ Ends("ok")
    /\ UNCHANGED <<primary, remotes, relocked, user, raced, faults>>

CleanUpFails ==
    /\ pc = "cleanup"
    /\ Ends("ok")
    /\ Fault
    /\ UNCHANGED <<primary, remotes, work, user, raced>>

\* The run is interrupted or killed.
Kill ==
    /\ pc # "end"
    /\ Ends("killed")
    /\ Fault
    /\ UNCHANGED <<primary, remotes, work, user, raced>>

UpdateStep ==
    \/ WorktreeAdd \/ Fetch \/ Rebase \/ UpdateLocks
    \/ Probe \/ Merge \/ ForwardRef \/ MergeDirty \/ StashPush \/ Retry
    \/ StashPop \/ StashPopFails \/ CleanUp

Next ==
    \/ UpdateStep
    \/ UpdateLocksFails \/ StepFails \/ ProbeFails \/ StashFails \/ CleanUpFails \/ Kill
    \/ UserCommits \/ UserCommitsEdits \/ UserEdits \/ UserSwitches \/ OtherPushes

Spec == Init /\ [][Next]_vars

-----------------------------------------------------------------------------
(* Properties.                                                             *)

Histories == {s \in UNION {[1..n -> Patches] : n \in 0..5} :
                \A i, j \in DOMAIN s : s[i] = s[j] => i = j}

TypeOK ==
    /\ main \in Histories \ {Gone} /\ other \in Histories \ {Gone}
    /\ head \in {"main", "other"}
    /\ tree \in EditKinds \cup {"clean", "conflict"} /\ stash \in Seq(EditKinds)
    /\ remote \in Histories /\ tracking \in Histories /\ branch \in Histories
    /\ worktree \in BOOLEAN /\ relocked \in BOOLEAN /\ raced \in BOOLEAN
    /\ pc \in Steps /\ status \in Failed \cup {"none", "ok"}
    /\ edits \subseteq EditKinds
    /\ moves \in 0..MaxMoves /\ faults \in 0..MaxFaults

\* Whatever the user has not committed is in the tree or in the stash, through
\* every failure, conflict, kill and race of the autostash.
EditsKept == \A e \in edits : tree = e \/ Contains(stash, e)

\* The relock is never lost: it is on a branch of the repository, however the
\* run ends (leave-on-failure; "-D is always safe here").
RelockKept == relocked =>
    \E b \in {main, other, branch} : Contains(b, Relock)

\* "ok" means that local main has the relock, and that the user's edits are in
\* the tree and the older stash is in place, unless the primary changed after
\* it was looked at.
OkMeansIntegrated == (status = "ok" /\ ~raced) =>
    /\ relocked => Contains(main, Relock)
    /\ "mine" \in edits => stash = <<"mine">>

\* Every end leaves the tree as the user had it, unless a stash command failed
\* or the primary changed after it was looked at.
TreeRestored == (pc = "end" /\ faults = 0 /\ ~raced) =>
    /\ tree # "conflict"
    /\ "mine" \in edits => stash = <<"mine">>
    /\ edits # {} /\ edits # {"mine"} => tree \in edits

\* The user's edits come back: none is lost on the way, and every end has them
\* in place.
EditsReturn == EditsKept /\ TreeRestored

\* A run that nobody disturbs integrates, on any branch and with any edits,
\* unless local and remote main had diverged.
UndisturbedIntegrates ==
    (pc = "end" /\ moves = 0 /\ faults = 0 /\ ~(Contains(main, Local) /\ Contains(remote, Remote)))
        => status = "ok"

\* The relock arrives: at once if nobody disturbs the run; "ok" is said only
\* then; and where it is put off, a branch still has it.
RelockArrives == RelockKept /\ OkMeansIntegrated /\ UndisturbedIntegrates

\* The recovery that an ff-merge deferral prints, git reset --hard to the branch,
\* loses no commit of main ("it already contains both") and no edit of the tree.
RecoveryKeepsWork == (status = "ff-merge" /\ head = "main") =>
    /\ ToSet(main) \subseteq ToSet(branch)
    /\ tree \notin edits
=============================================================================
