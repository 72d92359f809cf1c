----------------------------- MODULE Workforest -----------------------------
(***************************************************************************)
(* pn workspace workforest: sets of git worktrees, one per member repo, on *)
(* the branch the set is named after.  A set is a directory that holds the *)
(* worktrees, a pn-workspace.toml and a pn-workspace.lock.json; a slashed  *)
(* name lies inside the directory of its first segment.  Nothing locks a   *)
(* set: verbs of several processes, the user's own edits and deletions,    *)
(* and failures between any two steps interleave.                          *)
(***************************************************************************)
EXTENDS WorkspaceLock

CONSTANTS
  Repos,      \* keys of the repos that may be declared
  Sets,       \* names of sets
  InDir,      \* InDir[s]: the set name whose directory s lies in, or NoSet
  NoSet,
  Procs,
  Absent,     \* a file that does not exist
  Torn,       \* a file cut off in the middle of a write
  CanonLock,  \* the canonical lock, of all Repos
  MaxFaults,  \* bound on failures and kills
  MaxUser     \* bound on the user's own actions

ASSUME LocksAssumption ==
  /\ LockAccepted(CanonLock) /\ NoRepo \notin Repos
  /\ CanonLock.repos = Repos
  /\ CanonLock.order \in Seq(Repos) /\ Repos = {CanonLock.order[i] : i \in DOMAIN CanonLock.order}
\* What pn writes is neither a missing nor a cut-off file.
Configs == [repos : SUBSET Repos, foundation : SUBSET Repos, located : SUBSET Repos,
            terminal : Repos \cup {NoRepo}]
ASSUME FilesAssumption ==
  /\ Absent # Torn /\ {Absent, Torn} \cap Configs = {}
  /\ CanonLock \notin {Absent, Torn}
  /\ \A members \in SUBSET Repos : FilterLock(CanonLock, members) \notin {Absent, Torn}
ASSUME NestingAssumption == NoSet \notin Sets /\
  \A s \in Sets : InDir[s] = NoSet \/ (InDir[s] \in Sets \ {s} /\ InDir[InDir[s]] = NoSet)

VARIABLES
  cfg,      \* the canonical definition
  heads,    \* heads[r]: local branches of repo r that are names of sets
  worktrees,\* <<s, r>>: worktrees git knows of, by path
  dirs,     \* set directories that exist
  trees,    \* <<s, r>>: worktree directories that exist
  dirty,    \* those with uncommitted edits
  conf,     \* conf[s]: the set's pn-workspace.toml
  slock,    \* slock[s]: its pn-workspace.lock.json
  op,       \* op[p]: the verb process p is in the middle of
  causes,   \* causes[s]: what has disturbed the set since it was created
  lost,     \* how edits were deleted by a verb that was not forced
  faults, user

vars == <<cfg, heads, worktrees, dirs, trees, dirty, conf, slock, op, causes, lost, faults, user>>
git == <<heads, worktrees, trees, dirty>>
files == <<conf, slock>>
world == <<cfg, lost, user>>

Idle == [pc |-> "idle", verb |-> "none", set |-> NoSet, todo |-> {}, members |-> {},
         force |-> FALSE, full |-> FALSE,
         cfg |-> [repos |-> {}, foundation |-> {}, located |-> {}, terminal |-> NoRepo]]

----------------------------------------------------------------------------
(* Helpers.                                                                *)

\* w.topoAlpha: the repos come in the order of the canonical lock.
NextRepo(todo) ==
  CanonLock.order[CHOOSE i \in DOMAIN CanonLock.order :
                    /\ CanonLock.order[i] \in todo
                    /\ \A j \in DOMAIN CanonLock.order : CanonLock.order[j] \in todo => i <= j]

Inside(s) == {t \in Sets : t = s \/ InDir[t] = s}
TreesOf(s) == {r \in Repos : <<s, r>> \in trees}

\* A branch named like a directory of another branch cannot exist beside it.
RefFree(s, r) == \A b \in heads[r] : InDir[b] # s /\ InDir[s] # b

\* git worktree add succeeds; assertBranchNotCheckedOut is the part of it that
\* the pre-flight sees.
NotCheckedOut(s, r) == <<s, r>> \notin worktrees
CanAdd(s, r) == NotCheckedOut(s, r) /\ <<s, r>> \notin trees /\ (s \in heads[r] \/ RefFree(s, r))

\* git worktree remove succeeds.
CanRemove(s, r, force) == <<s, r>> \in worktrees /\ (force \/ <<s, r>> \notin dirty)

\* readSetMembers: the set's config can be read.
Readable(s) == conf[s] \notin {Absent, Torn} /\ ConfigAccepted(conf[s])

\* Sets at work: verbs in progress whose set overlaps with s.
Busy(s) == \E p \in Procs : op[p].pc # "idle" /\ (op[p].set \in Inside(s) \/ s \in Inside(op[p].set))
Blame(names, why) == [s \in Sets |-> IF s \in names THEN causes[s] \cup {why} ELSE causes[s]]

Begin(p, o) ==
  /\ op[p].pc = "idle"
  /\ op' = [op EXCEPT ![p] = o]
  /\ causes' = IF Busy(o.set)
               THEN Blame({t \in Sets : t \in Inside(o.set) \/ o.set \in Inside(t)}, "raced")
               ELSE IF o.verb = "add" THEN [causes EXCEPT ![o.set] = {}] ELSE causes
  /\ UNCHANGED <<cfg, heads, worktrees, dirs, trees, dirty, conf, slock, lost, faults, user>>

Goto(p, pc) == op' = [op EXCEPT ![p].pc = pc]
Done(p) == op' = [op EXCEPT ![p] = Idle]

----------------------------------------------------------------------------
(* The beginning of each verb: the workspace is opened, pre-flight passes.  *)

\* WorkforestAdd, for all declared repos or a subset of them.
AddStart(p, s, members) ==
  /\ members # {} /\ members \subseteq cfg.repos
  /\ s \notin dirs
  /\ \A r \in members : NotCheckedOut(s, r)
  /\ Begin(p, [Idle EXCEPT !.pc = "mkdir", !.verb = "add", !.set = s, !.cfg = cfg,
                           !.todo = members, !.members = members,
                           !.full = (members = cfg.repos)])

\* Variant: the set's files are rewritten for the members it had.
AddRepoUnrecorded(p, s, r) ==
  /\ s \in dirs /\ r \in cfg.repos
  /\ Readable(s) /\ r \notin conf[s].repos
  /\ NotCheckedOut(s, r)
  /\ Begin(p, [Idle EXCEPT !.pc = "worktree", !.verb = "add-repo", !.set = s, !.cfg = cfg,
                           !.todo = {r}, !.members = conf[s].repos])

\* WorkforestAddRepo.
AddRepoStart(p, s, r) ==
  /\ s \in dirs /\ r \in cfg.repos
  /\ Readable(s) /\ r \notin conf[s].repos
  /\ NotCheckedOut(s, r)
  /\ Begin(p, [Idle EXCEPT !.pc = "worktree", !.verb = "add-repo", !.set = s, !.cfg = cfg,
                           !.todo = {r}, !.members = conf[s].repos \cup {r}])

\* WorkforestRemoveRepo refuses the last member.
RemoveRepoStart(p, s, r, force) ==
  /\ s \in dirs /\ Readable(s)
  /\ r \in conf[s].repos /\ conf[s].repos # {r}
  /\ Begin(p, [Idle EXCEPT !.pc = "unlink", !.verb = "remove-repo", !.set = s, !.cfg = cfg,
                           !.todo = {r}, !.members = conf[s].repos \ {r}, !.force = force])

\* WorkforestRemove asks for the directory only.
RemoveStart(p, s, force) ==
  /\ s \in dirs
  /\ Begin(p, [Idle EXCEPT !.pc = "unlink", !.verb = "remove", !.set = s, !.cfg = cfg,
                           !.todo = cfg.repos, !.force = force])

----------------------------------------------------------------------------
(* Steps.                                                                  *)

MakeDir(p) ==
  LET s == op[p].set
  IN /\ op[p].pc = "mkdir"
     /\ dirs' = dirs \cup ({s, InDir[s]} \ {NoSet})
     /\ Goto(p, "worktree")
     /\ UNCHANGED <<cfg, git, files, causes, lost, faults, user>>

\* gitWorktreeAddOne: the branch is checked out, and created if there is none.
AddWorktree(p) ==
  LET s == op[p].set
      r == NextRepo(op[p].todo)
  IN /\ op[p].pc = "worktree" /\ op[p].todo # {}
     /\ CanAdd(s, r)
     /\ worktrees' = worktrees \cup {<<s, r>>}
     /\ trees' = trees \cup {<<s, r>>}
     /\ heads' = [heads EXCEPT ![r] = @ \cup {s}]
     /\ dirs' = dirs \cup ({s, InDir[s]} \ {NoSet})
     /\ op' = [op EXCEPT ![p].todo = @ \ {r},
                         ![p].pc = IF op[p].todo = {r} THEN "config" ELSE "worktree"]
     /\ UNCHANGED <<cfg, dirty, files, causes, lost, faults, user>>

\* Variant: a refusal of git is reported and the loop goes on.
RemoveOrSkip(p) ==
  LET s == op[p].set
      r == NextRepo(op[p].todo)
      done == <<s, r>> \in trees /\ CanRemove(s, r, op[p].force)
  IN /\ op[p].pc = "unlink" /\ op[p].todo # {}
     /\ trees' = IF done THEN trees \ {<<s, r>>} ELSE trees
     /\ dirty' = IF done THEN dirty \ {<<s, r>>} ELSE dirty
     /\ worktrees' = IF done THEN worktrees \ {<<s, r>>} ELSE worktrees
     /\ op' = [op EXCEPT ![p].todo = @ \ {r},
                         ![p].pc = IF op[p].todo # {r} THEN "unlink"
                                   ELSE IF op[p].verb = "remove" THEN "clear" ELSE "config"]
     /\ UNCHANGED <<cfg, heads, dirs, files, causes, lost, faults, user>>

\* git worktree remove for the next repo whose directory exists.
RemoveWorktree(p) ==
  LET s == op[p].set
      r == NextRepo(op[p].todo)
  IN /\ op[p].pc = "unlink" /\ op[p].todo # {}
     /\ <<s, r>> \in trees => CanRemove(s, r, op[p].force)
     /\ trees' = trees \ {<<s, r>>}
     /\ dirty' = dirty \ {<<s, r>>}
     /\ worktrees' = IF <<s, r>> \in trees THEN worktrees \ {<<s, r>>} ELSE worktrees
     /\ op' = [op EXCEPT ![p].todo = @ \ {r},
                         ![p].pc = IF op[p].todo # {r} THEN "unlink"
                                   ELSE IF op[p].verb = "remove" THEN "clear" ELSE "config"]
     /\ UNCHANGED <<cfg, heads, dirs, files, causes, lost, faults, user>>

\* writeSetMembership and rewriteSetMembership: the config, then the lock.  A
\* full new set gets copies of the canonical files as they are now, any other
\* set what is left of them as they were when the verb began.
WriteConfig(p) ==
  LET s == op[p].set
  IN /\ op[p].pc = "config" /\ s \in dirs
     /\ conf' = [conf EXCEPT ![s] = IF op[p].full THEN cfg ELSE FilterConfig(op[p].cfg, op[p].members)]
     /\ Goto(p, "lock")
     /\ UNCHANGED <<cfg, git, dirs, slock, causes, lost, faults, user>>

WriteSetLock(p) ==
  LET s == op[p].set
  IN /\ op[p].pc = "lock" /\ s \in dirs
     /\ slock' = [slock EXCEPT ![s] = IF op[p].full THEN CanonLock
                                      ELSE FilterLock(CanonLock, op[p].members)]
     /\ Done(p)
     /\ UNCHANGED <<cfg, git, dirs, conf, causes, lost, faults, user>>

\* Why the deletion of a directory loses the edits of <<t, r>>.
HowLost(p, t, r) ==
  CASE t # op[p].set -> "nested"
    [] t = op[p].set /\ r \notin op[p].cfg.repos -> "undeclared"
    [] OTHER -> IF "raced" \in causes[t] THEN "raced" ELSE "plain"

\* os.RemoveAll of the set directory: everything below it, without git.
ClearDir(p) ==
  LET gone == Inside(op[p].set)
      below == {w \in trees : w[1] \in gone}
  IN /\ op[p].pc = "clear"
     /\ dirs' = dirs \ gone
     /\ trees' = trees \ below
     /\ dirty' = dirty \ below
     /\ conf' = [t \in Sets |-> IF t \in gone THEN Absent ELSE conf[t]]
     /\ slock' = [t \in Sets |-> IF t \in gone THEN Absent ELSE slock[t]]
     /\ lost' = IF op[p].force THEN lost
                ELSE lost \cup {HowLost(p, w[1], w[2]) : w \in below \cap dirty}
     /\ Done(p)
     /\ UNCHANGED <<cfg, heads, worktrees, causes, faults, user>>

----------------------------------------------------------------------------
(* Failures.  What was done stays; nothing is rolled back.                  *)

\* A step's command fails, by itself or because git refuses; or the verb is
\* killed between two steps.
Fail(p) ==
  LET o == op[p]
      refused == \/ o.pc = "worktree" /\ ~CanAdd(o.set, NextRepo(o.todo))
                 \/ o.pc = "unlink" /\ <<o.set, NextRepo(o.todo)>> \in trees
                      /\ ~CanRemove(o.set, NextRepo(o.todo), o.force)
                 \/ o.pc \in {"config", "lock"} /\ o.set \notin dirs
  IN /\ o.pc # "idle"
     /\ Done(p)
     /\ faults' = IF refused THEN faults ELSE faults + 1
     /\ faults < MaxFaults \/ refused
     /\ causes' = Blame({o.set}, "failed")
     /\ UNCHANGED <<cfg, git, dirs, files, lost, user>>

\* A copy of a full set's file, or the deletion of a directory, is cut short.
TornCopy(p) ==
  LET s == op[p].set
  IN /\ op[p].full /\ op[p].pc \in {"config", "lock"} /\ s \in dirs
     /\ faults < MaxFaults /\ faults' = faults + 1
     /\ IF op[p].pc = "config" THEN conf' = [conf EXCEPT ![s] = Torn] /\ UNCHANGED slock
                               ELSE slock' = [slock EXCEPT ![s] = Torn] /\ UNCHANGED conf
     /\ causes' = Blame({s}, "torn")
     /\ Done(p)
     /\ UNCHANGED <<cfg, git, dirs, lost, user>>

TornClear(p) ==
  LET s == op[p].set
  IN /\ op[p].pc = "clear"
     /\ faults < MaxFaults /\ faults' = faults + 1
     /\ conf' = [conf EXCEPT ![s] = Absent]
     /\ \E gone \in SUBSET {w \in trees : w[1] = s} :
          /\ trees' = trees \ gone
          /\ dirty' = dirty \ gone
          /\ lost' = IF op[p].force THEN lost
                     ELSE lost \cup {HowLost(p, w[1], w[2]) : w \in gone \cap dirty}
     /\ causes' = Blame(Inside(s), "torn")
     /\ Done(p)
     /\ UNCHANGED <<cfg, heads, worktrees, dirs, slock, user>>

----------------------------------------------------------------------------
(* WorkforestPrune, and the user.                                           *)

\* git worktree prune in the declared repos up to the first that fails.
Prune ==
  \E k \in 1 .. Len(CanonLock.order) :
    LET pruned == {CanonLock.order[i] : i \in 1 .. k} \cap cfg.repos
        stale == {w \in worktrees : w[2] \in pruned /\ w \notin trees}
    IN /\ stale # {}
       /\ worktrees' = worktrees \ stale
       /\ UNCHANGED <<cfg, heads, dirs, trees, dirty, files, op, causes, lost, faults, user>>

UserEdits(w) ==
  /\ user < MaxUser /\ user' = user + 1
  /\ w \in trees \ dirty
  /\ dirty' = dirty \cup {w}
  /\ UNCHANGED <<cfg, heads, worktrees, dirs, trees, files, op, causes, lost, faults>>

\* The directory of a set is deleted by hand.
UserDeletes(s) ==
  /\ user < MaxUser /\ user' = user + 1
  /\ s \in dirs
  /\ dirs' = dirs \ Inside(s)
  /\ trees' = {w \in trees : w[1] \notin Inside(s)}
  /\ dirty' = {w \in dirty : w[1] \notin Inside(s)}
  /\ conf' = [t \in Sets |-> IF t \in Inside(s) THEN Absent ELSE conf[t]]
  /\ slock' = [t \in Sets |-> IF t \in Inside(s) THEN Absent ELSE slock[t]]
  /\ causes' = Blame(Inside(s), "deleted")
  /\ UNCHANGED <<cfg, heads, worktrees, op, lost, faults>>

\* A repo leaves pn-workspace.toml.
UserUndeclares(r) ==
  /\ user < MaxUser /\ user' = user + 1
  /\ r \in cfg.repos /\ r # cfg.terminal /\ cfg.repos # {r}
  /\ cfg' = FilterConfig(cfg, cfg.repos \ {r})
  /\ causes' = Blame({s \in Sets : <<s, r>> \in trees \/ Busy(s)}, "undeclared")
  /\ UNCHANGED <<heads, worktrees, dirs, trees, dirty, files, op, lost, faults>>

----------------------------------------------------------------------------
InitWith(usedFaults, usedUser) ==
  /\ cfg = [repos |-> Repos, foundation |-> {}, located |-> Repos, terminal |-> CanonLock.terminal]
  /\ heads = [r \in Repos |-> {}]
  /\ worktrees = {} /\ dirs = {} /\ trees = {} /\ dirty = {}
  /\ conf = [s \in Sets |-> Absent] /\ slock = [s \in Sets |-> Absent]
  /\ op = [p \in Procs |-> Idle]
  /\ causes = [s \in Sets |-> {}]
  /\ lost = {} /\ faults = usedFaults /\ user = usedUser

Init == InitWith(0, 0)

Step(p) == \/ MakeDir(p) \/ AddWorktree(p) \/ RemoveWorktree(p)
           \/ WriteConfig(p) \/ WriteSetLock(p) \/ ClearDir(p)
           \/ Fail(p) \/ TornCopy(p) \/ TornClear(p)

Start(p, s) ==
  \/ \E members \in SUBSET Repos : AddStart(p, s, members)
  \/ \E r \in Repos : AddRepoStart(p, s, r)
  \/ \E r \in Repos, force \in BOOLEAN : RemoveRepoStart(p, s, r, force)
  \/ \E force \in BOOLEAN : RemoveStart(p, s, force)

\* The verbs of the processes on the sets named, and everything else.
NextOn(procs, names) ==
  \/ \E p \in procs : Step(p) \/ (\E s \in names : Start(p, s))
  \/ Prune
  \/ \E w \in trees : UserEdits(w)
  \/ \E s \in names : UserDeletes(s)
  \/ \E r \in Repos : UserUndeclares(r)

Next == NextOn(Procs, Sets)

Spec == Init /\ [][Next]_vars

----------------------------------------------------------------------------
\* WorkforestList: the directories with a lock, not looking below one.
Listed == {s \in dirs : /\ slock[s] # Absent
                        /\ InDir[s] = NoSet \/ slock[InDir[s]] = Absent}

Settled(s) == \A p \in Procs : op[p].pc = "idle" \/ op[p].set # s

Ops == [pc : {"idle", "mkdir", "worktree", "unlink", "config", "lock", "clear"},
        verb : {"none", "add", "add-repo", "remove-repo", "remove"},
        set : Sets \cup {NoSet}, todo : SUBSET Repos, members : SUBSET Repos,
        force : BOOLEAN, full : BOOLEAN, cfg : Configs]

TypeOK ==
  /\ cfg \in Configs
  /\ trees \subseteq Sets \X Repos /\ worktrees \subseteq Sets \X Repos /\ dirs \subseteq Sets
  /\ op \in [Procs -> Ops]
  /\ causes \in [Sets -> SUBSET {"raced", "failed", "torn", "deleted", "undeclared"}]
  /\ conf \in [Sets -> Configs \cup {Absent, Torn}]

\* An unforced remove destroys no uncommitted edits of the set it names:
\* git's refusal stops it first.  Excepted are the edits in a set nested below
\* it, in a repo that is no longer declared, and in a worktree that another
\* verb added meanwhile; those it does delete.
EditsSurvive == "plain" \notin lost

\* A set that no fault, no other verb and no deletion by hand has touched holds
\* exactly the worktrees its config names, all of them in its lock and known to git.
UndisturbedSetIsWhole ==
  \A s \in dirs :
    causes[s] = {} /\ Settled(s) /\ (conf[s] # Absent \/ TreesOf(s) # {}) =>
      /\ conf[s] # Absent /\ conf[s].repos = TreesOf(s)
      /\ slock[s] # Absent /\ TreesOf(s) \subseteq slock[s].repos
      /\ \A r \in TreesOf(s) : <<s, r>> \in worktrees

\* Every set that pn lists can be opened, whatever failed while it was built or
\* changed: the marker is written last.  (Not after a copy or a deletion that
\* was cut off, or verbs that ran on the set at the same time.)
ListedSetOpens ==
  \A s \in Listed :
    causes[s] \cap {"raced", "torn"} = {} => Readable(s) /\ LockAccepted(slock[s])
=============================================================================
