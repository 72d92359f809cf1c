------------------------------ MODULE ApplyState ------------------------------
(***************************************************************************)
(* One workspace root: its checkouts, its applied-state records, and the   *)
(* system they are applied to (apply.go, apply_asuser.go, updatecache.go). *)
(* RebuildLock shows that applies do not overlap, so one run is modelled   *)
(* at a time; the user changes the checkouts between any two of its steps. *)
(*                                                                         *)
(* nix reads the checkout of the terminal and of the repos the run passes  *)
(* --override-input for; every other repo it reads at the commit that the  *)
(* flake.lock in the terminal's tree pins.  A system is, per repo, where   *)
(* nix read it and at which commit.                                        *)
(***************************************************************************)
EXTENDS Integers

CONSTANTS Repos,      \* the repos of the workspace
          Terminal,   \* the one whose flake is built
          MaxCommit,  \* bound: HEAD moves over 1..MaxCommit
          Edits,      \* uncommitted contents of a tree, other than Clean
          Clean,
          LockOf,     \* the flake.lock in a terminal tree: repo -> rev, 0: none
          Forward     \* HEAD moves only to descendants

Commits == 1..MaxCommit
Trees == Edits \cup {Clean}

ASSUME ApplyAssumption ==
    /\ Terminal \in Repos /\ MaxCommit \in Nat \ {0} /\ Clean \notin Edits
    /\ LockOf \in [0..MaxCommit -> [Trees -> [Repos -> 0..MaxCommit]]]
    /\ Forward \in BOOLEAN

\* Commit 0: what was installed before anything here.
Contents == [from : {"nothing", "tree", "lock"}, commit : 0..MaxCommit]
NoRecord == 0
NotEvaluated == [from |-> "nothing", commit |-> 0]

\* LockedRevs: the key of a repo is absent, is empty, or holds a commit.
NoKey == -1
NoRev == 0
Revs == NoKey..MaxCommit

VARIABLES
    head, edit,       \* each checkout: HEAD, uncommitted content
    record,           \* AppliedRef of each repo, or NoRecord
    wasOverridden,    \* in the same record: the repo is a key of OverriddenInputs
    profile, system,  \* the system profile link; the activated system
    stage, repo,         \* where the run stands; the repo the gate is at
    left,             \* the repos a loop has left
    edges,            \* the repos that the workspace lock has as inputs of Terminal
    overridden,       \* those the run passes --override-input for
    dirs,             \* allRepoDirs of the run
    asUser,           \* the build-as-user flow, not the apply_command flow
    heads,            \* the HEADs the run last read: by the gate, then captureHeads
    result,           \* what nix evaluated so far, then the out path
    revs,             \* terminalLockedRevs of the run, for every record it writes
    cancelled,        \* the context of the run is done
    rootSteps,        \* how many root steps of this run finished
    ending           \* how the last run ended; "none" while it runs

user == <<head, edit>>
written == <<record, wasOverridden>>
disk == <<written, profile, system>>
applyVars == <<user, disk, stage, repo, left, dirs, edges, overridden, asUser, heads, result,
          revs, cancelled, rootSteps, ending>>

Locations == {"idle", "gate", "read", "capture", "build", "probe", "switch",
              "setProfile", "activate", "readLock", "mark"}
Outcomes == {"none", "skipped", "done", "failed", "cancelledBeforeRoot", "cancelledAfterRoot"}

\* What a run holds in memory is gone when it ends, but for dirs, heads, result and
\* rootSteps, which the properties compare with what it left.
local == <<edges, overridden, asUser, revs, cancelled>>
Ends(o) ==
    /\ stage' = "idle" /\ ending' = o
    /\ edges' = {} /\ overridden' = {} /\ asUser' = FALSE /\ cancelled' = FALSE
    /\ revs' = [i \in Repos |-> NoKey]
Goto(l) == stage' = l /\ UNCHANGED <<ending, local>>

-----------------------------------------------------------------------------
ApplyInit ==
    /\ head \in [Repos -> Commits]
    /\ edit = [i \in Repos |-> Clean]
    /\ record = [i \in Repos |-> NoRecord]
    /\ wasOverridden = [i \in Repos |-> FALSE]
    /\ profile = [i \in Repos |-> NotEvaluated]
    /\ system = profile
    /\ stage = "idle" /\ repo = Terminal /\ left = {}
    /\ edges = {} /\ overridden = {} /\ dirs = {}
    /\ asUser = FALSE
    /\ heads = [i \in Repos |-> 0]
    /\ result = [i \in Repos |-> NotEvaluated]
    /\ revs = [i \in Repos |-> NoKey]
    /\ cancelled = FALSE
    /\ rootSteps = 0
    /\ ending = "none"

\* The user commits, pulls or switches branch; the edits stay or go with it.
MoveHead(i) ==
    /\ \E c \in Commits : /\ c # head[i]
                          /\ Forward => c > head[i]
                          /\ head' = [head EXCEPT ![i] = c]
    /\ \E t \in {edit[i], Clean} : edit' = [edit EXCEPT ![i] = t]
    /\ UNCHANGED <<disk, stage, repo, left, dirs, local, heads, result, rootSteps, ending>>

\* The user edits files (flake.lock is one of the terminal's), or discards it.
EditTree(i) ==
    /\ \E t \in Trees \ {edit[i]} : edit' = [edit EXCEPT ![i] = t]
    /\ UNCHANGED <<head, disk, stage, repo, left, dirs, local, heads, result, rootSteps, ending>>

\* resolveOverridesForLock: the edges of the terminal whose clone exists.
Overrides(es, clones) == es \cap clones

\* The run holds the lock, plans its flow (the preflight) and its overrides,
\* lists the checkouts, and enters applyVerb.run; --force passes the gate.  The
\* workspace lock, and which clones exist at each look, are the user's.
Start ==
    /\ stage = "idle"
    /\ edges' \in SUBSET (Repos \ {Terminal})
    /\ \E clones \in SUBSET Repos : overridden' = Overrides(edges', clones)
    /\ dirs' \in {d \in SUBSET Repos : Terminal \in d}
    /\ asUser' \in BOOLEAN
    /\ \E l \in {"gate", "capture"} : stage' = l
    /\ repo' = Terminal
    /\ left' = dirs'
    /\ result' = [i \in Repos |-> NotEvaluated]
    /\ revs' = [i \in Repos |-> NoKey]
    /\ cancelled' = FALSE
    /\ rootSteps' = 0
    /\ ending' = "none"
    /\ heads' = [i \in Repos |-> 0]
    /\ UNCHANGED <<user, disk>>

\* needsRebuild: git status of the next repo (whose order nothing reads).
GateStatus(i) ==
    /\ stage = "gate" /\ i \in left /\ ~cancelled
    /\ IF edit[i] = Clean THEN Goto("read") /\ repo' = i /\ UNCHANGED left
                           ELSE Goto("capture") /\ repo' = Terminal /\ left' = dirs
    /\ UNCHANGED <<user, disk, dirs, heads, result, rootSteps>>

\* Variant: only the presence of the record is looked at.
GateReadTrustsRecord ==
    /\ stage = "read" /\ ~cancelled
    /\ heads' = [heads EXCEPT ![repo] = head[repo]]
    /\ IF record[repo] # NoRecord
       THEN Goto("gate") /\ left' = left \ {repo}
       ELSE Goto("capture") /\ left' = dirs
    /\ repo' = Terminal
    /\ UNCHANGED <<user, disk, dirs, result, rootSteps>>

\* needsRebuild: git rev-parse, then the record of the repo.  Only this run
\* writes records, so reading them is not a step of its own.
GateRead ==
    /\ stage = "read" /\ ~cancelled
    /\ heads' = [heads EXCEPT ![repo] = head[repo]]
    /\ IF record[repo] # NoRecord /\ record[repo] = head[repo]
       THEN Goto("gate") /\ left' = left \ {repo}
       ELSE Goto("capture") /\ left' = dirs
    /\ repo' = Terminal
    /\ UNCHANGED <<user, disk, dirs, result, rootSteps>>

\* Every repo is clean and unchanged: nothing is built, nothing is recorded.
SkipBuild ==
    /\ stage = "gate" /\ left = {}
    /\ Ends("skipped")
    /\ UNCHANGED <<user, disk, repo, left, dirs, heads, result, rootSteps>>

\* captureHeads, one repo; the build follows the last.
Capture(i) ==
    /\ stage = "capture" /\ i \in left /\ ~cancelled
    /\ heads' = [heads EXCEPT ![i] = head[i]]
    /\ left' = left \ {i}
    /\ Goto(IF left' # {} THEN "capture" ELSE IF asUser THEN "build" ELSE "switch")
    /\ UNCHANGED <<user, disk, repo, dirs, result, rootSteps>>

\* nix reads the tree of an overridden repo, at any time of the build.
EvaluateOverride(i) ==
    /\ stage \in {"build", "switch"}
    /\ i \in overridden /\ result[i] = NotEvaluated
    /\ result' = [result EXCEPT ![i] = [from |-> "tree", commit |-> head[i]]]
    /\ UNCHANGED <<user, disk, stage, repo, left, dirs, local, heads, rootSteps, ending>>

\* nix reads the terminal's tree, and with it the pins of all other repos.
EvaluateTerminal ==
    /\ stage \in {"build", "switch"}
    /\ result[Terminal] = NotEvaluated
    /\ LET lock == LockOf[head[Terminal]][edit[Terminal]]
       IN  result' = [i \in Repos |->
              IF i = Terminal THEN [from |-> "tree", commit |-> head[i]]
              ELSE IF i \in overridden THEN result[i]
              ELSE [from |-> "lock", commit |-> lock[i]]]
    /\ UNCHANGED <<user, disk, stage, repo, left, dirs, local, heads, rootSteps, ending>>

Evaluated == \A i \in Repos : result[i].from # "nothing"

\* The user's build ends, and its result link is read and valid.
Built ==
    /\ stage = "build" /\ Evaluated
    /\ IF cancelled THEN Ends("cancelledBeforeRoot") ELSE Goto("probe")
    /\ UNCHANGED <<user, disk, repo, left, dirs, heads, result, rootSteps>>

\* The built darwin-rebuild can activate.
ProbeUsable ==
    /\ stage = "probe"
    /\ IF cancelled THEN Ends("cancelledBeforeRoot") ELSE Goto("setProfile")
    /\ UNCHANGED <<user, disk, repo, left, dirs, heads, result, rootSteps>>

\* It cannot: applyFallback runs apply_command, and root evaluates again.
ProbeUnusable ==
    /\ stage = "probe"
    /\ IF cancelled
       THEN Ends("cancelledBeforeRoot") /\ UNCHANGED result
       ELSE /\ stage' = "switch" /\ asUser' = FALSE
            /\ UNCHANGED <<ending, edges, overridden, revs, cancelled>>
            /\ result' = [i \in Repos |-> NotEvaluated]
    /\ UNCHANGED <<user, disk, repo, left, dirs, heads, rootSteps>>

\* apply_command has built what root evaluated.
SwitchBuilt ==
    /\ stage = "switch" /\ Evaluated
    /\ Goto("setProfile")
    /\ UNCHANGED <<user, disk, repo, left, dirs, heads, result, rootSteps>>

\* Variant: the root steps run with the context of the run.
SetProfileCancellable ==
    /\ stage = "setProfile"
    /\ profile' = result
    /\ rootSteps' = rootSteps + 1
    /\ IF asUser /\ cancelled THEN Ends("cancelledBeforeRoot") ELSE Goto("activate")
    /\ UNCHANGED <<user, written, system, repo, left, dirs, heads, result>>

\* The root step set-profile (or the same part of apply_command).  The root
\* steps run WithoutCancel.
SetProfile ==
    /\ stage = "setProfile"
    /\ profile' = result
    /\ rootSteps' = rootSteps + 1
    /\ Goto("activate")
    /\ UNCHANGED <<user, written, system, repo, left, dirs, heads, result>>

\* The root step activate; a cancel that came meanwhile is reported now.
Activate ==
    /\ stage = "activate"
    /\ system' = result
    /\ rootSteps' = rootSteps + 1
    /\ IF asUser /\ cancelled THEN Ends("cancelledAfterRoot") ELSE Goto("readLock")
    /\ UNCHANGED <<user, written, profile, repo, left, dirs, heads, result>>

\* terminalLockedRevs: the flake.lock in the terminal's directory as it is now;
\* one that cannot be read leaves every rev empty.
ReadLock ==
    /\ stage = "readLock"
    /\ \E rev \in {LockOf[head[Terminal]][edit[Terminal]], [i \in Repos |-> NoRev]} :
          revs' = [i \in Repos |-> IF i \in edges THEN rev[i] ELSE NoKey]
    /\ stage' = "mark" /\ left' = dirs
    /\ UNCHANGED <<user, disk, repo, dirs, edges, overridden, asUser, cancelled,
                   heads, result, rootSteps, ending>>

\* The record of one repo, written by rename; the run ends with the last.
Marks(i, ref, over) ==
    /\ record' = [record EXCEPT ![i] = ref]
    /\ wasOverridden' = [wasOverridden EXCEPT ![i] = over]
    /\ left' = left \ {i}
    /\ IF left' # {} THEN Goto("mark") ELSE Ends("done")

\* Variant: HEAD is read again.
MarkRereadsHead(i) ==
    /\ stage = "mark" /\ i \in left /\ ~cancelled
    /\ Marks(i, head[i], i \in overridden)
    /\ UNCHANGED <<user, profile, system, repo, dirs, heads, result, rootSteps>>

\* markApplied, one repo: git status (its flag is not modelled), then the
\* record, with the HEAD that captureHeads read and the overrides of the plan.
MarkApplied(i) ==
    /\ stage = "mark" /\ i \in left /\ ~cancelled
    /\ Marks(i, heads[i], i \in overridden)
    /\ UNCHANGED <<user, profile, system, repo, dirs, heads, result, rootSteps>>

\* Any step fails (a command of a done context always does), or pn is killed.
Stop ==
    /\ stage # "idle"
    /\ Ends("failed")
    /\ repo' = Terminal /\ left' = {} /\ dirs' = {} /\ rootSteps' = 0
    /\ heads' = [i \in Repos |-> 0]
    /\ result' = [i \in Repos |-> NotEvaluated]
    /\ UNCHANGED <<user, disk>>

\* Ctrl-C, SIGTERM or a deadline ends the context.
Cancel ==
    /\ stage # "idle" /\ ~cancelled
    /\ cancelled' = TRUE
    /\ UNCHANGED <<user, disk, stage, repo, left, dirs, edges, overridden, asUser, heads, result,
                   revs, rootSteps, ending>>

ApplyNext ==
    \/ \E i \in Repos : \/ MoveHead(i) \/ EditTree(i)
                        \/ GateStatus(i) \/ Capture(i) \/ MarkApplied(i)
                        \/ EvaluateOverride(i)
    \/ EvaluateTerminal \/ Start \/ GateRead \/ SkipBuild
    \/ Built \/ ProbeUsable \/ ProbeUnusable \/ SwitchBuilt
    \/ SetProfile \/ Activate \/ ReadLock \/ Stop \/ Cancel

ApplySpec == ApplyInit /\ [][ApplyNext]_applyVars

-----------------------------------------------------------------------------
(* Properties.                                                             *)

ApplyTypeOK ==
    /\ head \in [Repos -> Commits]
    /\ edit \in [Repos -> Trees]
    /\ record \in [Repos -> 0..MaxCommit]
    /\ wasOverridden \in [Repos -> BOOLEAN]
    /\ profile \in [Repos -> Contents]
    /\ system \in [Repos -> Contents]
    /\ stage \in Locations
    /\ repo \in Repos
    /\ left \subseteq Repos
    /\ edges \subseteq Repos \ {Terminal}
    /\ overridden \subseteq edges
    /\ dirs \subseteq Repos
    /\ asUser \in BOOLEAN
    /\ heads \in [Repos -> 0..MaxCommit]
    /\ result \in [Repos -> Contents]
    /\ revs \in [Repos -> Revs]
    /\ cancelled \in BOOLEAN
    /\ rootSteps \in 0..2
    /\ ending \in Outcomes

\* A commit that lands during the build must not be recorded as applied
\* (updatecache.go): of a repo that the running system has from its checkout, no
\* record claims a commit the system lacks, however the user commits during the
\* build, whichever repos are overridden from one apply to the next, and wherever
\* a run fails, is cancelled or is killed.  Of a repo it has from a pin the record
\* claims no such thing.
RecordIsContained == Forward =>
    \A i \in Repos : system[i].from = "tree" => record[i] <= system[i].commit

\* A consumer tests no pin for a repo that is recorded as overridden, and takes
\* its AppliedRef for built (appliedstate.go): such a repo was read from its
\* checkout, and so was the terminal; every other one was not.
OverridesAreTrue == ending = "done" =>
    \A i \in dirs : (wasOverridden[i] \/ i = Terminal) <=> system[i].from = "tree"

\* After a successful apply the gate of the next one finds nothing to do, if the
\* trees are clean and still at the heads that were captured.
NextApplySkips ==
    (ending = "done" /\ \A i \in dirs : edit[i] = Clean /\ head[i] = heads[i])
        => \A i \in dirs : record[i] = head[i]

\* The records are neither ahead of the system nor, after an apply that is done,
\* behind it, and say truly which repos were read from their checkouts.
RecordsAreExact == RecordIsContained /\ OverridesAreTrue /\ NextApplySkips

\* A skipped apply had nothing to do for any repo that the running system, or the
\* profile it boots from, has from its checkout: the HEAD the gate saw there is the
\* commit it has, even after half-activated, half-recorded and cancelled runs.  A
\* repo whose clone is gone the gate does not see, and of a repo read at a pin it
\* sees the terminal, whose tree holds the pin.
SkipIsSound == [][(Forward /\ SkipBuild) =>
    \A i \in dirs : /\ system[i].from = "tree" => heads[i] = system[i].commit
                    /\ profile[i].from = "tree" => heads[i] = profile[i].commit]_applyVars

\* What the user is told of a cancel is true: "before any root step started",
\* or both root steps ran to completion and the built system is the running one.
CancelMessageIsTrue ==
    /\ ending = "cancelledBeforeRoot" => rootSteps = 0
    /\ ending = "cancelledAfterRoot" => rootSteps = 2 /\ system = result /\ profile = result

\* appliedstate.go says of a repo that the apply did not override: "nix resolved
\* it from the terminal's flake.lock and LockedRevs[repo] is what the build carries".
LockedRevIsBuilt == stage = "mark" =>
    \A i \in edges \ overridden : revs[i] # NoRev => revs[i] = result[i].commit
=============================================================================
