# A TLA+ verification project for nix-repo-base

The repository holds the tools of a multi-repository Nix workspace: `pn` builds, applies, updates,
pushes and rebases a set of flakes as one; `pg-go-mutate-tui` runs mutation sweeps;
`pg-nix-log-wrapped` records nix builds; `pjira` is a client of Jira; `pnwf` and `pg-hooks` are shell
tools for work sets and git hooks. This directory models the parts whose correctness depends on the order
of steps (locks, multi-step updates of git and system state, work queues, files written by more than one
process, child processes, requests that get lost) and the algorithms these parts decide by (dependency
order, edges and terminals, the wrapping of commands, the selection of a hook bundle). Each definition is
translated from the source; `PROJECT.json` maps it to the lines.

## 1. Inventory

| Component | State | Operations | Interaction | Hard behaviour | Correct when |
| --- | --- | --- | --- | --- | --- |
| Rebuild lock (`pn/internal/workspace/rebuildlock.go`, `rebuild.go`) | two kinds of lock file (flock owner, JSON record), one run per process | attempt, record, drop, release, wait, cancel | every `build`/`apply` process on the host | any interleaving of system calls, SIGKILL, opposite lock orders, stale records | two runs that exclude each other never overlap; nothing stays locked; a refusal names the right holder |
| Apply (`apply.go`, `updatecache.go`, `appliedstate.go`, `apply_asuser.go`) | applied-state records per repository, system profile, active system, per-run directory | skip gate, capture heads, build, probe, set profile, activate, record | holds the rebuild lock; reads git; user edits at any time; sudo | record describes something else than what runs, cancel and failure between two root steps, crash before the record | a record never claims more than what runs; a skip has nothing to do; messages about a cancel are true |
| Update in worktrees (`update_worktree.go`, `gitclient.go`) | refs, worktree, stash, primary checkout of one repository | add worktree, rebase, relock, integrate, clean up | git remotes, the user's own commits and edits | checks that are stale when used, stash of nothing popped, failed middle step | neither an edit nor the relock is ever lost; "ok" means integrated |
| Update in place, relock (`update.go`, `edges.go`, `derive_lock.go`, `lock.go`) | pn-workspace.lock, flake.lock of each repository | derive edges, pull, relock | nix, git, the operator | interrupts between repositories, evaluation that fails for one of them | a report on a repository is true of its checkout; no plainly written dependency is lost |
| Push, propagate, sync, rebase (`push.go`, `propagate.go`, `branch_sync.go`, `rebase.go`) | refs, flake.lock of each repository, upstreams | topological push walk, sibling relock and commit, per-repository sync | remotes, other pushers | abort in the middle, dirty trees left behind, wrong order | what is published pins what is published, as new as the run found; a failure leaves nothing behind |
| Dependency order (`graph.go`, `topo_alpha.go`, `dag.go`, `plan.go`) | the input graph | ordering, levels | every workspace walk | cycles, ties | dependencies first, each repository once, cycles or not; one terminal whoever asks |
| Workforests (`workforest.go`, `workforest_subset.go`) | sets of worktrees, their config and lock | add, add-repo, remove-repo, remove, prune, list | canonical root, other sets | half-made sets, removal of unmerged work | an undisturbed set is whole, a listed one opens, edits survive what git knows of them |
| Workspace definition (`config.go`, `init.go`, `clone.go`, `canonical_url.go`, `terminal.go`, `workspace.go`) | pn-workspace.toml and lock, clones | init, clone, lock, discover | git, nix, the user's editor | unusual orders of commands, forms of URL | a lock pn writes is one it reads; edges join an input to the repository its URL names |
| Hook bundle and nix hooks (`hookbundle.go`, `nix_hooks.go`, `hooks.go`, `trust`, `pg-hooks-install`) | pointer, bundle, stubs, core.hooksPath, producer, trust records | gate, install, run hooks, doctor, allow | git, nix, editors, worktrees that share a clone | what was checked has changed, Go and sh read the same files | nothing untrusted runs; after a hooked verb the hooks are current; a silent doctor is right |
| Exec and worker pool (`pn/internal/exec`, `telemetrycfg`) | child processes, process groups, pool jobs | run, cancel, reap, submit, close; wrap, trace, resolve a command | every subprocess, the log wrapper | cancel racing exit, stubborn and orphaned descendants, double wrapping | what returned is over: no child is left, outcomes are true; a command is observed once and reaches nix untouched |
| Apply log, telemetry, event log (`applylog.go`, `telemetry*`, `eventlog`) | log files, spans | append, rotate, export | every verb | retention while open | an open log is not removed |
| Store maintenance (`pn/internal/store`) | generations, profiles, roots | discover, deep clean, post-gc | nix-collect-garbage | deletes what is in use | nothing that is in use is deleted |
| Doctor (`doctor*.go`), CLI (`pn/internal/cli`) | none of their own | diagnose, parse, exit codes | all of the above | exit status mapping | diagnosis agrees with the verbs |
| Mutation queue (`pg-go-mutate-tui/internal/queue`) | pending, outstanding, finish times | refill, pop, finish, backoff | refill loop, workers | stale snapshots, retries, double dispatch | a file is dispatched once and not again until it changes |
| Mutation workers and main (`internal/worker`, `main.go`) | worker goroutines, pause, fatal | run, pause, stop | queue, ledger, filer | workers that end while work will come | a run that nothing disturbs analyses everything and ends |
| Ledger (`internal/ledger`) | JSON lines file | append, replay | crash, next session | torn line, lost record | a record is of the content whose hash it carries |
| Bead filer (`internal/beads`) | filed markers | on recorded, reconcile | ledger, `bd` | crash between filing and marking | one bead per complete package and content, none lost |
| TUI, metrics, report, discover (`internal/tui`, ...) | views | render, count | queue, ledger | - | counts agree with the ledger |
| Nix log wrapper (`pg-nix-log-wrapped`) | log pairs (.raw, .jsonl), activity trees | observe, record, tail, finalize, evict | the wrapped nix, other wrappers on the same directory | retention while another process writes, kills, late and disordered lines | no evidence of a run is lost, a live log is left alone, each activity has one true outcome |
| Jira client (`modules/jira`) | rate limits | search, page, get, create, move, comment | HTTP server | lost answers, index that changes while it is paged, caps | what is reported of a write is what happened or "unknown"; a search is complete or says truncated |
| pnwf (`modules/pnwf`) | work sets, landing state | start, land, sync, finish | git, pn, bd | half-landed sets | landing is all or resumable |
| pg-hooks (`modules/pg-hooks`) | git config, hook chain, install markers | install, run, drift guard, pre-land | git, user | partial install, recursion | every hook of the chain runs once |
| Lock and cache updaters (`lib/scripts/*.bash`) | flake.lock, hashes, pins | update, verify, commit | nix, git | partial update | a commit contains a verified lock |
| Test runner and small tools (`pg-test-runner`, `ul`, `gogate`, ...) | none that persists | run, format | - | - | - |
| Nix libraries, modules, plugins (`lib/`, `home/`, `darwin/`, `flake-modules/`, docs) | declarative | - | - | - | - |

How they interact: `pn` verbs are short-lived processes that share the lock files, the clones and their
remotes, the applied-state records and the system profile; between any two of their steps a user edits,
commits and switches branches in the same clones, and other people push. Before and after a verb `pn` runs
the hooks of the workspace, if its definition is trusted; git runs the hooks of the installed bundle, which
Go and a shell stub read independently. Nothing locks a workforest set: two verbs on one set, and a set
inside the directory of another, meet only in the files. Every nix command may go through
`pg-nix-log-wrapped`, whose processes share one log directory and clean it up beside each other. The
mutation runner is one process of goroutines (refill, workers, filer) around one append-only ledger that
outlives it; it shares the sources with the user and the bead tracker with agents. `pjira` talks to a server
that other people change between two of its requests.

## 2. Plan

| # | Module | Models | State |
| --- | --- | --- | --- |
| 1 | `SingleFlight`, `RebuildLock` | the lock and its promise | done: checked, safety proved |
| 2 | `ApplyState` | apply inside that lock | done: checked, proved |
| 3 | `MutationSweep` | queue, workers, ledger | done: checked, safety proved |
| 4 | `OneBeadPerKey`, `TriageFiler` | bead filer on the ledger, and its promise | done: checked, proved |
| 5 | `UpdateWorktree` | update of one repository | done: checked, proved |
| 6 | `DependenciesFirst`, `Publish` | push and sibling relock, and their promise | done: checked, proved |
| 7 | `LogWrapper`, `NixLog`, `WrapperRules` | log directory, activities, command lines | done: checked; the first two proved |
| 8 | `WorkspaceLock`, `WorkspaceGraph`, `Workspace` | edges, order, terminal; init, clone, lock | done: checked, proved |
| 9 | `Workforest` | sets, partial add and remove | done: checked, proved |
| 10 | `Exec`, `ExecRules` | pool, process groups, cancel; wrapping | done: checked, safety proved |
| 11 | `Jira`, `Sync` | a command and its server; rebase and update in place | done: checked, proved |
| 12 | `HookBundle`, `Verbs`, `Hooks` | bundle, verbs and their exits, trust | done: checked, proved |
| 13 | `StoreClean` | which generations and roots a clean deletes | left |
| 14 | `Landing` | pnwf landing of a work set | left |
| 15 | edges of `WorkspaceGraph` that go stale beside `Publish` | composition | left |
| 16 | doctor's other checks, flake-check, apply log, two bundle installers at once | additions | left |

Composition: `RebuildLock` implements `SingleFlight`, which is what `ApplyState` relies on when it has one
apply at a time. `TriageFiler` implements `OneBeadPerKey` and takes from `MutationSweep` only that a file has one worker at a time
(`DispatchedOnce`). `Publish` implements `DependenciesFirst`. Publishing and updating share repositories but not branches; `Publish` sees an update as
a user who commits. `Workspace` and `Workforest` both write the lock that `WorkspaceLock` defines,
`WorkspaceGraph` computes what goes into it. `ExecRules` and `LogWrapper` share `WrapperRules`: a nix
command of `pn` and one typed by the user are recognised by the same rules. `Hooks` runs the verbs of
`Verbs` over the files of `HookBundle`.

Abstract specifications: `SingleFlight`, `OneBeadPerKey`, `DependenciesFirst`; for the pure algorithms the
reference definitions in the properties (`GraphIsReadAlike`, `EdgesAreExact`, `LogIsReported`,
`ObservedOnceUntouched`). Every safety property that the prover can reach has its theorem (section 6).

## 3. Modules and code

Each `X.tla` is one component and is written to be proved about; `MCX.tla` gives it model values;
`X_<question>.cfg` is one question; `XProofs.tla` holds its theorems, `WorkspaceProofs` those of
`Workforest` and `Workspace`, `ToolsProofs` those of `Exec`, `ExecRules`, `Sync`, `Jira` and `UpdateWorktree`,
`NixProofs` those of `LogWrapper`, `NixLog` and `Hooks`. Comments that begin with "Variant:" mark altered
copies of a definition, which break a property when they take its place; no specification uses them. Some MC
modules put several parts that share nothing under one specification and have a variable `focus` that names
the one part that runs. A property of a run is often a conjunction of named parts, each with a comment of
its own.

**`RebuildLock`** One action per system call of `rebuildlock.go`. `ex` and `sh` are the flock table of the
kernel, `record` the content of each lock file, `pc` and `step` the place of a run in
`rebuild`/`acquireLocks`/`attemptLocks`. `TryLock`, `TryBusy`, `TryFails` are the outcomes of `tryLock`;
`RecordTruncate`/`RecordWrite` are `recordHolder`; `ProbeTruncate`/`ProbeUnlock` release a build's look at
the apply key; `ReleaseTruncate`/`ReleaseUnlock`/`Released` are `drop` and the deferred release; `Refuse`,
`Sleep`, `Cancel` the wait loop; `Kill` a SIGKILL at any place. Time is the number of polls; a wait may also
be used up earlier.

**`SingleFlight`** The promise: an apply excludes every apply of the host and every run of its root, a build
excludes applies and runs of its root. Three phases per run and no files.

**`ApplyState`** nix reads the checkout of the terminal and of the repositories that the run passes
`--override-input` for: the inputs of the terminal by the workspace lock whose clone exists
(`resolveOverridesForLock`). It reads every other repository at the commit that the `flake.lock` in the
terminal's tree pins, which the constant `LockOf` gives for a commit and the edits on it. What a system contains is, per repository, where
nix read it and at which commit. The user's lock and clones are chosen anew by each run. `GateStatus`/
`GateRead`/`SkipBuild` are `needsRebuild`, one repository and one command at a time; `Capture` is
`captureHeads`; `EvaluateOverride` is nix reading the tree of an overridden repository and
`EvaluateTerminal` that of the terminal, and with it the pins of the others, each at any time of the build;
`Built`, `ProbeUsable`/`ProbeUnusable` the build-as-user flow and its fallback; `SetProfile`/`Activate` the
root steps; `ReadLock` is `terminalLockedRevs`, after the build; `MarkApplied` one record: the captured
HEAD and whether the repository was overridden. `MoveHead`/`EditTree` are the user. `Stop` is any failing
step or a kill, `Cancel` the end of the context at any instant.

**`MutationSweep`** The refill goroutine (`RefillBegin` ... `RefillExits`), workers (`Begin`, `Check`,
`Pop`, `RunEnds`, `AppendRecord`, `Finish` and their failures), and sessions (`Interrupt`, `Restart`). A
hash is the version of the content. `since` stands for `finishSeq`/`finishedAt`: the files that finished
after the snapshot of the current refill. `torn` is a ledger that ends in half a line.

**`TriageFiler`** `Filer.mu` is `holder`; its critical section is cut into `Examine`, `ReadReports`,
`FileTriageBead` and `MarkFiled`, because workers go on writing the ledger and the reports, and the process
can end, between them. A `bd create` that fails, prints no id or is killed may have created the bead
(`CreateUnheard`); a startup pass that cannot read the ledger returns (`ReconcileFails`). `pending`, `filed`, `loaded` are the fields of `Filer`; `markers`/`torn` the marker
file; `beads`/`lost` the tracker and what the marker file missed, `unsure` the beads created unheard, `missed` what
only the failed startup pass would have filed.

**`OneBeadPerKey`** The promise: one bead at a time, none for a key that is marked or counts as filed, and
the key counts as filed whether its marker is written or lost; a creation that nobody hears of (`Doubt`) is
counted and may be repeated. A session learns the markers of those before
it, and its end forgets. No worker, mutex, ledger or retry. `TriageFiler!Promise` maps `known` to `filed`, and
`open` to the key between `FileTriageBead` and its marker.

**`UpdateWorktree`** A branch is the sequence of its patches. `WorktreeAdd`, `Fetch`, `Rebase` (three
times), `UpdateLocks`, `Probe`, the four ways to integrate, the autostash (`StashPush`, `Retry`, `StashPop`)
and `CleanUp` follow `updateRepoViaWorktree`; each has its failure, and a deferral keeps the name the code
gives it in `status`. `git stash pop` takes the newest entry, whoever made it; `git merge` acts on whatever
is checked out.

**`Publish`** The remote main of a repository is counted in versions; a `flake.lock` is the version that it
pins of each sibling. `Start`/`Visit`/`Finish` are the walk of `push.go`; `Probe`, `Update`, `Restore`,
`Add`, `CommitBump` and their failures are `propagateWorkspaceEdges`, `CommitFails` with its `git reset
--hard`; `Push`/`SkipPush` the push. `dirt` says how `flake.lock` differs from HEAD, `edits` what else the
user has changed. `earlier` is the order of the walk, one of `Orders`: what `topoAlpha` puts before a
repository. That is not always its siblings: a foundation repository comes before the ordinary siblings that
its flake takes as inputs, and a cycle is cut at the first name (ADR-0033). `found` and `floor` are history:
the versions of siblings that this run found, and found or published.

**`DependenciesFirst`** The promise to the remotes: one `Push` or `Skip` per repository, in the order of the
walk, with pins that are published and as new as what the run found or published; success is said only when
every repository was passed. No clone, tree, index, relock, commit or failure. `Publish!Walk` maps `passed`
to `completed` and `published` to those of them that have an upstream; a relock is a stutter.

**`LogWrapper`** The directory is a set of log pairs (`.raw`, `.jsonl`) with the run that opened each, its
pid and its age. A wrapper goes through the stages of `app.go`: sweep (finalize the raw logs of dead or
silent runs, then evict by number and by size), open a pair, start nix, record, tail, finalize, report,
exit. Every step may fail or be the last; a pid is reused by an unrelated process; any number of wrappers
interleave. `tail` follows the raw file within caps and drops what overflows.

**`NixLog`** The machine that turns the lines of one nix log into activities: builds, substitutions, copies
and the aggregates that nest around them, with one outcome each. A substitution whose two time stamps are
closer than `MinSubstituteSpan` is counted but has no span (`brief`); `Traced` are those that have one. `log` is the history of lines that the
properties compare it with.

**`WrapperRules`**, **`ExecRules`** Decisions as operators: which command lines are observed, what is
inserted or stripped, which program on the path is the real one. `ExecRules` follows one command of `pn`
through the chain sudo, env, script, wrapper, shim, nix, link by link.

**`Exec`** Pool and `exec.Run`: `Submit`, `Wait`, `Close`, the workers, and per call the child, its
descendants and the pipes they hold, SIGTERM, the grace period, SIGKILL, and reaping. A command may end,
fail, panic in its callback, ignore SIGTERM or leave a descendant behind.

**`Jira`** One command: configuration, token, then request after request. `wire` is the request or the reply
on its way; each can be lost, refused or garbled, before or after the server acted. Others change issues
between two pages; a page may say that it is not the last and bear no token (`ServerWithholds`). `told` is what the command says and its exit. `EncodeADFText`, `WalkADF` and `Trim` are
folds written as recursive functions; the constant `Texts` is what is posted.

**`Sync`** The walk of `rebase`, `rebase --onto` and `update --in-place` over repositories in order: probes
that can fail, pull with autostash, conflict, the abort and its outcomes, update scripts, interrupts;
`Touch` is the operator. A checkout is what HEAD lacks, whose rebase is in progress and where the
uncommitted edits are.

**`WorkspaceLock`**, **`WorkspaceGraph`**, **`Workspace`** What `ParseLock` accepts and how a lock is cut
down to a set; URL forms and canonical URLs, input evaluation in tiers, edges, both topological sorts, the
foundation rule, the terminal and the tree (recursion is by recursive functions over a number of rounds that
suffices, which the proofs show); and the files that `Init`, `Clone` and `Lock` read and write
between four kinds of acts of the user. A lock is refused, recomputed or kept as `workspace.go` and
`cli/workspace.go` decide.

**`Workforest`** A set is its directory, worktrees, definition and lock. `Add`, `AddRepo`, `RemoveRepo`,
`Remove`, `Prune` and `List` go step by step with their fault and kill exits; `InDir` nests a set in the
directory of another. Users edit, commit, delete and declare repositories in between.

**`HookBundle`**, **`Verbs`**, **`Hooks`** The state of a bundle (core.hooksPath, stub, pointer, body,
stamp, pins) as pn's gate, the doctor, git and the stub each read it; the installer; a table of the verbs
with what they open, fire and return; and a verb between its hooks: load the configuration, ask for trust,
pre-hooks, verb, post-hooks, while the operator edits everything in between. `Paths` are the scopes and kinds
of core.hooksPath that the code tells apart: the common directory, the dispatcher, a foreign directory with a
pre-commit, one without, an empty value. The installer puts the bundle in place (`InstallSwaps`) and then writes the
stubs, where it may fail (`InstallEnds`). `Declared` are the versions of the hooks in the
definition, any sequence of them.

## 4. What the runs check

| Run | States | Shows | Bounds and why they are enough |
| --- | --- | --- | --- |
| `lock_runs` | 151 k | refinement of `SingleFlight`, truthful records, no leaked lock, waits end | two runs of any verb in two roots, waits of 0, 1 and unlimited: each hazard is one run between two system calls of another; more runs are covered by the theorems |
| `records_safety` | 1.9 M | what is written down as done is so: records of applies, skips and cancel messages are true; refinement of `OneBeadPerKey`, no complete package forgotten | apply: the terminal and one other repository, overridden or pinned as the lock and the clones of each run say (half-recorded, half-evaluated, a key that turns from one to the other), two commits (one lands during the build), one edit, which relocks. Filer: a package of two files and one of one, two workers that record the last files together, two contents of the first package, two faults (a kill, and then a startup pass that fails) |
| `sweep_headless` | 1.1 M | nothing done twice, true records, complete undisturbed run, termination | two files, two workers, two contents, two faults: a refill beside a finishing worker, one edit, a restart after a fault |
| `publish_safety` | 3.6 M | refinement of `DependenciesFirst`, catching up, trees left alone, success when undisturbed | an application on a library and a foundation, which takes the library as a flake input and still comes first, so that both kinds of order exist; two runs so that one meets what the other left, two moves, one failure |
| `logwrap_safety` | 2.2 M | no evidence lost, no warning with exit 0, the log and its activities reported, live logs left alone | an observed run and two that sweep at the same time (two sweeps race for one log), two lines, caps of one so that every cap is reached; streams of up to four lines with two derivations, a substitution and its copy, a wait and two nested aggregates: a message before, between or after start and stop, two messages, progress after a stop; longer ones are covered by `LogIsRight` |
| `workspace_sets` | 952 k | graph, edges, order and terminal agree with their definitions, what pn writes it can read; edits survive, an undisturbed set is whole, a listed set opens | every graph of three repositories (cycles and ties exist), every pair of URL forms, four acts of the user on two repositories; larger graphs are covered by `GraphStaysReadAlike`. Sets: two repositories (one done, one not), set `wf` and set `wf/a` inside it, one failure and two acts of the user; two verbs at once on `wf` |
| `hooks_safety` | 1.7 M | the doctor is honest, nothing untrusted runs, installed means current | two verbs (one after the other's leftovers), two changes of the operator, a clone and a worktree of it, every scope and kind of core.hooksPath |
| `tools_safety` | 1.1 M | five parts: pool and processes; wrapping of commands; jira; rebase and update in place; update in a worktree | two jobs on two workers; ten commands under every telemetry setting; three issues on pages of two and two changes of others; two repositories, one act of the operator and one failure; four moves and three failures of one update, more than the steps of each argument |

The counts are those of distinct states. Every property of a passing run fails when one definition is
replaced by its variant (`mutants` in `PROJECT.json`). All bounds are in guards: `MaxCommit`, `MaxVersion`,
`MaxHash`, `MaxRuns`, `MaxMoves`, `MaxFaults`, `MaxLines`, `MaxLog`, `MaxUser`, `MaxActs`, `MaxOthers`, `MaxTouches`,
`MaxTrouble`, `MaxVerbs`, `MaxChanges`. No run checks for deadlock, since in each of them all processes can be
done; that nobody waits for ever is asked by `WaitsEnd`, `HeadlessRunEnds` and `CancelEndsTheVerb`.
`records_safety`, `workspace_sets`, `logwrap_safety` and `tools_safety` hold parts that share nothing; the
variable `focus` names the one that a behaviour is about. `MutualExclusion`, `NoBuildJoinsAnApply`, `BeadsMatchMarkers`,
`PinsArePublished`, `WalkIsComplete` and the `TypeOK`s are only in theorems.

Where the code disagrees with what is said of it, a run shows the behaviour:

| Run | Claim | What happens |
| --- | --- | --- |
| `update_recovery` | `update_worktree.go:355-362`: the branch contains both mains, reset to it | a commit made on main after the rebase, or popped edits, are lost by the printed command |
| `apply_lock` | `appliedstate.go:72-73`: for what was not overridden, `LockedRevs` is what the build carries | the `flake.lock` is read after the build: a relock in between is recorded, and a consumer takes a commit for applied that the system lacks |
| `triage_retry` | `filer.go:94-95`: a failure is kept for retry | a startup pass that cannot read the ledger returns and keeps nothing: what a killed session left complete is not filed in this one |
| `sync_abort` | `rebase.go:146`: the operator's own work is never aborted | a failed pre-probe, or a rebase begun after it, makes pn abort the operator's rebase |

## 5. Fairness

Three parts use it. `RebuildLock!FairSpec`: weak fairness of the own steps of each process (the operating
system schedules it, and a build or apply ends); none of a cancel, a failure or a kill. Nothing is assumed
of who wins a race, which is why `WaitsEnd` excludes a crossed pair of unlimited waiters: those two can fail
each other for ever. `MutationSweep!FairSpec`: weak fairness of the refill goroutine, of the timer of the
backoff and of each worker (goroutines are scheduled, timers fire, and a run of `pg-go-mutate`, which has a
timeout of its own, ends); none of the user, of interrupts or of faults. `Exec` (used by
`CancelEndsTheVerb`): weak fairness of the goroutines of `pn`, of the grace timer and of the kernel that
delivers a kill; none of the commands, which may run for ever and ignore SIGTERM. The other modules state
safety only.

## 6. What is proved

For every value of the constants, under the `ASSUME`s of the modules (well-formed constants; TLC evaluates
them on every run). Those that say more than a type: an activity of nix has one type (`NixLogAssumption`); a
`.jsonl` has no more places than the tailer parses lines (`RetainedCap <= ParseCap`; the code's are 64 MiB and
256 MiB); the patches of `UpdateWorktree` are distinct; the order of repositories names each once. Two theorems
have hypotheses of their own: `EveryFileIsRecorded` needs a worker, `CommandsRunOnce` starts from a command that
pn issues.

No property is inductive as it stands. Each module has an inductive invariant that implies it, whose parts
say what the properties leave out; they were found and corrected with TLC on small instances.

* `RebuildLockProofs`: `TypeCorrect`, `MutualExclusionHolds`, `NoLeakedLockHolds`, `RecordsHold`,
  `Refinement` (`RebuildLock` implements `SingleFlight`), `NoBuildJoins`. Mutual exclusion
  says nothing of a run between two flocks, so it is not inductive. `Owner` ties what a run owns to where it
  stands, `FlockOK` says that a file is not shared and exclusive at once, `Content` what an owned file
  contains; each is kept by every system call, and all theorems follow from them.
* `ApplyStateProofs`: `TypeCorrect`, `RecordsContained`, `CancelReported`, `Idempotent`, `SkipSound`, and
  `RecordsExact`, which joins two of them with what a record says of overrides; for any lock and any clones
  from one apply to the next. Of a repository that the system has from a checkout a record claims no commit
  that the system lacks; of one it has from a pin it claims nothing, as `appliedstate.go:77-83` says. `Order`
  chains record, system, profile and HEAD for what was read from a tree; `Flow` says that heads are read
  before the trees are, and how far the gate has come; `RunOK` ties the progress of the run to its root steps,
  its overrides and its records. That commits go forward (`Forward`) is a premise of the properties that
  need it, not of the model.
* `MutationSweepProofs`: `TypeCorrect`, `OnceOnly`, `NothingRepeated`, `OnceAndForAll` (both),
  `RecordsAreTrue`, `EveryFileIsRecorded`. `Held` accounts for the outstanding set, `Snapshotted` says why an
  old snapshot may be trusted for files that are neither outstanding nor finished since, `Stamped` orders
  hashes, contents and records. For completeness `Completing` says that in an undisturbed headless run a file
  is recorded, outstanding, or still to be found by a refill, and that no worker leaves while one is queued.
* `TriageFilerProofs`: `TypeCorrect`, `OneBead`, `NoMarkerWithoutBead`, `MarkersAndBeads` (both),
  `Refinement` (`TriageFiler` implements `OneBeadPerKey`), `PromiseMeansOneBead`, `NothingCompleteIsForgotten`. A key has a second bead only for a lost marker
  or a creation that nobody heard of, and what is forgotten is what a startup pass missed. `Count` accounts for
  every bead by a marker, a lost marker, an unheard creation or the holder;
  `Session` says that the marker file is in memory before a decision that relies on it, and that the decision
  stays right; `Memory` says of a package that was looked at and left which file keeps it incomplete, and
  that its last worker has still to call the hook. For the refinement `Fresh` says that nothing counts as filed before
  the markers are read: the first decision of a session is then `Learn`, and all work of the sweep a stutter.
* `PublishProofs`: `TypeCorrect`, `PinsPublished`, `EarlierEditsSafe`, `LeavesNothing`, `LeavesTreesAlone`
  (both), `CatchUp`, `UndisturbedSucceeds`, `Refinement` (`Publish` implements `DependenciesFirst`),
  `PromiseMeansFreshPins`. The versions at the remote only grow and locks are copied or made from them
  (`PinsPublished`); `Late` and `Owned` tie edits and dirt to the place of the run; `CatchUp` needs
  `Order` (what comes earlier is completed first), `Trees` (a clean lock is the committed one), `Done` (a
  completed clone is clean, so no commit of the user takes up a half-made lock) and `Carried` (versions on
  their way are new enough). The refinement rests on three of these: what is pushed is in order (`Order`),
  fresh (`Carried`) and published (`PinsArePublished`). `Steady` says that the only dirt of an undisturbed
  run is that of its own relock, and that each clone is at the remote tip when it is pushed. All hold for
  any set of orders, cyclic or not.
* `WorkspaceProofs`, sets: `FilterKeepsLock` and `FilterKeepsConfig` (what is cut down to a subset of the members
  stays readable); `SetLocksAreReadable`, `TypeCorrect`, `EditsAreKept`, `ListedSetsOpen`,
  `UndisturbedSetsAreWhole`. A verb writes what it has read before, so the invariants say what a verb holds in
  memory beside what is on disk (`Shapes`), that two verbs on overlapping sets have marked both (`Raced`), and
  that nothing is left below a directory that has gone (`Contained`).
* `WorkspaceProofs`, workspace: `WorkspaceTypeCorrect`, `EdgesStayExact`, `GraphStaysReadAlike`,
  `LockStaysWhole`, `WalksAreComplete`. Here the types are the invariant (with every foundation repository
  declared, and each input named once): what a lock is made of is computed anew, so the work is in the
  algorithms. `WalksAreComplete` is about the lock that is not computed anew: whichever one a command finds,
  it visits each declared repository once, which `Sync` assumes of its `Order` and `Publish` of `Orders`. It
  needs that the recorded order was complete at the beginning (`RecordIsComplete`; it is without a lock),
  since `ParseLock` does not look at the order.
  `GrowInOrder` and `OrderFacts`: Kahn's rounds emit every key once, each after what it waits for, until none
  is ready. What is left over is on a cycle or behind one (`OrderOfKeys`): of the others the key that leads to
  fewest waits for one of them that leads to fewer. `PrintLineKeeps`: a line of the tree either repeats a
  repository or moves the dependencies of one from "still to open" to the stack, so that the number of lines
  is bounded (`TreeOfKeys`) and what is full or on the stack is closed under dependencies at the end.
  `CanonicalFacts`: canonical URLs are equal for one repository of one host only, and always for plain forms;
  `EdgesAreOne` and `DerivedOpens` give from it what `ParseLock` asks.
* `ToolsProofs`, pool: `ReturnedIsOver`. `Counted` accounts for every job, `Reaped` ties the stage of a call
  to what is left of its child and group.
* `ToolsProofs`, rebase and update in place: `ReportsHold`. A repository that is not yet reached is as it was
  found (`AsFound`), the one in work is as far as the step says (`InHand`), and what has been said of the
  others is so (`Said`); `Stages` is the place in the walk. That each repository comes up once is a fact
  about the queue (`QueueFacts`).
* `ToolsProofs`, Jira: `WritesReported`, `SearchReturnsAll`. `Posts` ties the request or reply on the wire to
  the client that waits for it; `Readings` counts announced limits; `Passed` and `Page` (in `Covers`) say
  that what stayed is among the results, on the page under way, or behind the cursor. Where a page withheld
  its token, what the server kept back may be missing, and for a loop over all pages that is the one exception.
* `ToolsProofs`, text of a comment: `TextsReadBack`, `FlattenInvertsEncode`. `Posted` says that what the
  server holds, or is asked to hold, is the encoded and trimmed body. `EncodeADFText` is inverted prefix by
  prefix: walking the paragraphs of the first n characters gives these and a newline (`WalkInvertsEncode`, by
  the first prefix where it would not). That newline and no more is then trimmed, as the body was trimmed
  before (`TrimTrims`, `TrimDropsNewline`).
* `ToolsProofs`, commands: `CommandsRunOnce`, for the commands of `IssuedCommands(Tokens)`: every wrapped
  program, the same behind sudo and env, and the update script, with arguments from any set of words; the
  commands of the run are among them. `Situated` says for each program that the chain can be at what its argv,
  guard variable and count of observations are; what sudo, env and the flags of the wrapper leave of a command
  line are facts about the least position of a word (`EnvLeaves`, `ParseExists`, `FlagsParse`).
* `ToolsProofs`, update in a worktree: `EditsSurvive`, `TreeComesBack`, `EditsComeBack` (both),
  `RelockIsNotLost`. `Tidy` says what tree and stash are between push and pop; `Kept` and `Placed` that the
  relock is on a branch and where; `Undisturbed` follows the three branches through the rebases. The facts
  about rebased sequences are those of sequences of distinct patches.
* `NixProofs`, directory of logs: `EvidenceIsKept`, `WarningsAreHeard`, `LiveLogsAreLeftAlone`. `Streams` ties
  the stage of a run to its nix, its raw log and the offset of the tailer; `Reads` says that what the tailer
  has passed was heard and counted, or the cap was reached; `Pairs` that a run has its files while it writes
  and that no sweep has chosen it; `Saved` that the retained lines are in the `.jsonl` before the `.raw` may go.
* `NixProofs`, hooks: `GatesHold`, `InstallIsCurrent`, `DoctorIsRight`. `SourcesTell` says that a readable
  `source.json` tells what the bundle was built from; `Courses` what a verb has run at each stage; `Vouched`
  that what it runs is what was trusted, as long as nobody edits beside it; `Installed` what is still to come
  of an install. `GatesHold` is for any hooks in any number of versions of the definition, with the pre-hooks
  that abort among them. `DoctorIsRight` has two exceptions, which pn takes on trust: an empty core.hooksPath, and
  a foreign global one (section 7).
* `NixProofs`, activity machine: `LogIsRight`. `Remembered` and `Folded` say that what the machine keeps is a
  function of the log so far (first message, last progress, who was started under whom); `Running` and
  `Finished` name the activities that have their span; `Spanned` that they have one, but for the substitutions that were too short; `Counts` that metrics are
  cardinalities of sets of spans. Spans and activities are then matched one to one.

Induction over data is out of the prover's reach, but much of what it is used for is not. A non-empty set of
numbers has a least one (`LeastIn`, `LeastOf`: initial segments are finite, and the proper-subset ordering of
finite sets is well-founded), and a claim about all prefixes is proved by looking at the first that fails.
Recursive functions exist by the same argument (`FlattenDefined`, `Recursion`, `ParseExists`). Definitions for
which no such argument would do are closed forms: what the tailer retains is a set of positions, the kind of a
failed run is at the least position of the precedence that is known.

Only model-checked: liveness (`WaitsEnd`, `HeadlessRunEnds`, `CancelEndsTheVerb`), like ENABLED out of the
prover's reach, and the four claims of section 4 that do not hold. Every other property of a run has a
theorem.

## 7. Noticed while modelling

Besides the four runs of section 4; none of these has a run of its own. Where the behaviour is inside a model, its properties allow it on
purpose; where it is outside, the note is from reading the code.

* Lock: `modules/pn/README.md:173` says that an apply does not wait for builds in other roots; the instant
  of a build's look at the apply key refuses it or costs it a poll (`rebuildlock.go:270`). An apply and a
  build of one root that wait without limit and poll in step can refuse each other for ever, since each
  takes its first key before it looks at the second (`rebuildlock.go:258`). A holder that is killed between
  a failed attempt and the reading of its record is still named.
* Apply: the gate's "all workspace repos clean and unchanged since last apply" (`apply.go:81`) does not hold
  after an apply of a dirty tree whose edits are then discarded: it skips, although the system contains
  them. A cancel during the root steps leaves the new system running and unrecorded
  (`apply_asuser.go:463-465` says so; `apply.go:156-157`); the next apply is not skipped. A repository whose
  clone is gone is one that the gate does not look at. If HEAD goes back
  (`Forward` false) records can claim more than the system has.
* Sweep: the design (section 6.3) says that a lost result is queued by the next refill and "the system
  self-heals"; in the TUI the workers may all have ended on an empty queue before, and nothing runs what is
  queued (`worker.go:129`). After a torn line the next record is glued to it and skipped by `Replay`
  (`ledger.go:100-106`), so that file runs once more. If a content comes back between queueing and analysis,
  a record can carry the hash of another content (ADR 0027:152 accepts it).
* Filer: `filer.go:28` says that with two hashes there is no single consistent run to hand on; a report that
  the next run overwrote is nevertheless read into the bead of the older hash (`filer.go:200`). A marker
  that was not written, or was glued to a torn line, lets a second bead be filed in a later session
  (`filer.go:41`), and so does a `bd create` that acts and then fails, prints no id or outlives the
  process (`cli.go:49-55`); `OneBeadPerMarker` counts exactly these.
* Update: `git stash push` succeeds with nothing to save, and the pop then takes an older stash of the user:
  after a failed `isDirty`, after a tree that became clean, or with only a dirty submodule. A user who
  switches branches after the probe gets the fast-forward merged into the other branch. The comment that a
  deferral leaves local main only behind (`update_worktree.go:345-348`) does not hold when local and remote
  main had diverged: the branch then replays local commits.
* Publish: `git reset --hard` after a failed commit discards edits made since the dirty check, and the
  commit takes whatever the user staged meanwhile (`propagate.go:201-232`); `OnlyLateEditsSuffer` bounds
  both. `propagate.go:113-116` promises that no partial or dirty state is left behind; a failed `git add`,
  `git restore` or second read of the lock, or a kill, leaves `flake.lock` modified, and the next push
  refuses the repository until the user restores it. The recorded edges are used whenever the set of
  repositories matches (`derive_lock.go:119-122`), so a sibling input that was added since is not relocked.
  A foundation repository is pushed before the ordinary siblings that it takes as inputs, so its lock pins
  them one run late; ADR-0033 accepts that, and `SiblingsCatchUp` asks of such a pin what the run found.

* Log wrapper: two sweeps that finalize the same raw log can delete evidence if one fails after truncating
  the target. A live run that is silent for longer than `MaxAge` is finalized and may be evicted.
  `retain.go:30` says overlong lines are discarded "the same way"; the tailer drops only their head. A build
  announced as failed but never stopped is closed as aborted. `CloseLogs` deletes the raw log even if the
  tailer ended early. `PG_NIX_LOG_DISABLE=true` disables the wrapper but not the wrapping by `pn`.
* Workspace definition: `init` adds a repository that has no remote without a url, and the definition is
  then rejected when it is next read (`init.go:27` calls it idempotent). A lock can name an edge to a
  repository that is not cloned (`derive_lock.go:62-82`), which `ParseLock` refuses; the advice to
  regenerate it with `pn workspace lock` (`workspace.go:58`) cannot help, since `lock` opens the workspace
  first (`cli/workspace.go:976`). `canonicalURL` keeps queries, tree paths and `.git` of the github form, so
  such inputs get no edge. Evaluation that yields only names of inputs gives no edges, yet is not reported
  as failed (`edges.go:35-39`). "Terminal flake last" (`lock.go:122`) is not true of an explicit terminal
  beside another sink. `LockMatchesConfig` compares keys only. A clone whose second remote could not be
  added is skipped on the next run.
* Workforests: `workforest.go:533` relies on git's refusal of dirty worktrees unless `--force`, but
  `RemoveAll` (`:575`) then deletes a set nested in the directory, or a worktree that is no longer declared,
  with its edits. A set of all members copies the canonical lock as it is, stale or not, and the copy is not
  atomic. An `add-repo` that fails after the worktree leaves one that a second `add-repo` refuses. Two
  concurrent `add-repo`/`remove-repo` lose one of the two updates. An undeclared member drops out of the
  set's definition when it is next written.
* Hooks: the gate calls a skip a no-op, but does not notice a newly added pin or member, a lost
  `source.json`, an edit between the build and the stamp, or a second edit of a producer that was dirty
  already. The comment at `hookbundle.go:299-303` says that a global core.hooksPath is a dispatcher that chains
  to the repository's hooks; the code looks for an executable `pre-commit` there and no more (`:331-335`,
  `pg-hooks.sh:179-184`), and passes over an empty value (`:310-312`): the doctor is then silent while a commit runs other
  hooks or none. These are the two exceptions of `DoctorIsHonest`. The installer puts the bundle in place before the
  stubs (`pg-hooks-install.sh:466-470`): if it fails in between, the gate skips the next install and the
  stubs stay missing, which the doctor reports. The definition is loaded before `EnsureAllowed` reads it again, and `allow` prints one read and
  hashes another. `init --yes` rewrites the definition, so that later pre-hooks abort until `allow`. A
  pre-hook that exits 75 or 10 makes `pn` exit with codes documented as "lock busy" and "findings". An
  interrupted `flake-check --no-build` counts unevaluated sets as failed and exits 10, although
  `flake_check_nobuild.go:72` reserves that for a check that ran to completion.
* Rebase and update in place: a rebase that is cancelled between two repositories exits 0, because a failed
  probe reads as "no upstream" or "ref not found" (`push.go:44-51`) and is a silent skip; for the same
  reason `update --in-place` calls a repository ok whose upstream it could not look up. An interrupted
  update does not name the repositories that had failed. An abort that is itself killed may claim a rebase
  still in progress that is over. A conflict while popping the autostash exits 0.
* Jira: `SearchAll` says that nothing was truncated when a page has no token but is not the last
  (`client.go:298-299`), against "complete, concatenated result" (`modules/jira/README.md:52-53`);
  `SearchIsComplete` excepts what such a page withheld, and `AllIsComplete` states the claim without the
  exception, in no run. A create
  can be reported as failed although the issue exists (its answer was lost or unreadable). `adf.go:34`
  "round-trips exactly" is true of trimmed text only.

## 8. Not modelled, and abstractions

* Components marked `not_modelled` in `PROJECT.json`, with the reason there: store maintenance and landing
  (left in the plan), pure output, shell around git and nix, generated and declarative code. The notes of
  those marked `partly` say which operations are missing.
* `RebuildLock`: one terminal and one host; opening a lock file is part of the attempt; an orphaned nix
  child of a killed `pn` holds no lock and is not modelled.
* `ApplyState`: one root; the preflight's choice of the flow is free, and so are the edges and clones that a
  run finds; the paths of overrides, the flag `dirty` and the times of a record are left out; a tree is read at one instant.
* `MutationSweep`: one package, read at one instant by an analysis; a failing `Replay`, pause and resume are
  left out.
* `TriageFiler`: the reports of a package are read in one step; the pool around it never stops early.
* `UpdateWorktree`: one repository and one run; a dirty tree is one value that clashes with the update or
  does not; the fork-point heuristics of `git rebase` are left out.
* `Publish`: one run at a time; the order of the walk is any of `Orders` (that `topoAlpha` computes one is in
  `WorkspaceGraph`); every clone exists and has a `flake.lock`; how a remote is chosen is abstracted to whether one is.
* `LogWrapper`, `NixLog`: times are ages that pass a threshold or do not; a line is what the code does with
  it (keep, drop, warn) or the event it announces; which substitutions are too short for a span is any
  choice; span attributes and the lag of the tailer are left out.
* `WorkspaceGraph`, `Workspace`: what nix evaluates of a flake is its inputs and how far the evaluation
  comes; TOML, names and templates are well formed; the order of keys in the file is left out.
* `Workforest`: git is its worktree list, its branches and what is dirty; set ids, and the hooks and trust a
  set inherits, are left out.
* `Exec`: a command is its leader and at most one descendant that keeps the pipes; spans and the rewriting
  of a terminal's output are left out. `ExecRules`: command lines are the words that the rules look at.
* `Jira`: HTTP is a status, a body that decodes or does not, and the headers of rate limits; a refusal or a
  5xx means that the server did not act.
* `Sync`: what HEAD lacks of the upstream is one value; commits that the update scripts make, and `upgrade`,
  which strings an update and an apply together, are left out.
* `HookBundle`, `Hooks`: contents are versions; what a foreign pre-commit does, chaining or not, is taken as
  other hooks than the bundle's; one installer at a time (the claim of a generation by
  concurrent installers is left out); flag parsing and help are left out of `Verbs`.
* Commands fail as a whole or succeed, except where their halves matter (a torn line, a lock that was
  written but not committed, a stash that cannot be popped, a request whose answer is lost).
