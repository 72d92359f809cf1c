--------------------------- MODULE WorkspaceProofs ---------------------------
(***************************************************************************)
(* For any number of repos, sets, processes and faults: what pn writes     *)
(* into a set is accepted when the set is opened, a set that nothing has   *)
(* disturbed is whole, a listed set opens, and a remove that is not forced *)
(* destroys no edits.  Basics (types, the shape of a verb, the blame of    *)
(* verbs that overlap, and what is below a directory) is the part of the   *)
(* inductive invariants that all of them share.                            *)
(*                                                                         *)
(* For any number of repos, hosts and inputs: the edges, the order, the    *)
(* tree and the terminals that are made of a workspace are what they       *)
(* should be, and a lock is whole.  Its types are invariant; the rest is   *)
(* about the algorithms, whatever the graph.                               *)
(***************************************************************************)
EXTENDS Workforest, Workspace, FiniteSetTheorems, WellFoundedInduction, TLAPS

\* filterLock keeps a readable lock readable, whatever the members are: no edge,
\* and no terminal, outlives an end of it.
THEOREM FilterKeepsLock ==
  ASSUME NEW l, NEW members, LockAccepted(l)
  PROVE  LockAccepted(FilterLock(l, members))
<1>1. ASSUME FilterLock(l, members).terminal # NoRepo
      PROVE  FilterLock(l, members).terminal \in FilterLock(l, members).repos
  BY <1>1 DEF LockAccepted, FilterLock
<1>2. \A e \in FilterLock(l, members).edges :
        /\ e.consumer # e.target
        /\ {e.consumer, e.target} \subseteq FilterLock(l, members).repos
        /\ e.target \in FilterLock(l, members).flake
  BY DEF LockAccepted, FilterLock
<1>3. \A e, f \in FilterLock(l, members).edges :
        e.consumer = f.consumer /\ e.alias = f.alias => e = f
  BY DEF LockAccepted, FilterLock
<1> QED BY <1>1, <1>2, <1>3 DEF LockAccepted

\* filterConfig keeps an acceptable definition acceptable.
THEOREM FilterKeepsConfig ==
  ASSUME NEW c, NEW members, ConfigAccepted(c)
  PROVE  ConfigAccepted(FilterConfig(c, members))
BY DEF ConfigAccepted, FilterConfig

\* A set's lock on disk, unless a copy was cut off, can be opened.
SetLocksOpen ==
  \A s \in Sets : slock[s] \notin {Absent, Torn} => LockAccepted(slock[s])

SlockIsFunction == slock = [s \in Sets |-> slock[s]]

LEMMA InitLocks == Init => SetLocksOpen /\ SlockIsFunction
BY DEF Init, InitWith, SetLocksOpen, SlockIsFunction

LEMMA StepKeepsLocks ==
  SetLocksOpen /\ SlockIsFunction /\ [Next]_vars => SetLocksOpen' /\ SlockIsFunction'
<1> SUFFICES ASSUME SetLocksOpen, SlockIsFunction, [Next]_vars
             PROVE  SetLocksOpen' /\ SlockIsFunction'
  OBVIOUS
<1> USE DEF SetLocksOpen, SlockIsFunction
<1>1. CASE UNCHANGED slock
  BY <1>1
<1>2. ASSUME NEW p \in Procs, WriteSetLock(p) PROVE SetLocksOpen' /\ SlockIsFunction'
  <2>1. LockAccepted(CanonLock) /\ LockAccepted(FilterLock(CanonLock, op[p].members))
    BY LocksAssumption, FilterKeepsLock
  <2> DEFINE new == IF op[p].full THEN CanonLock ELSE FilterLock(CanonLock, op[p].members)
  <2>2. LockAccepted(new)
    BY <2>1
  <2> HIDE DEF new
  <2>3. slock' = [slock EXCEPT ![op[p].set] = new]
    BY <1>2 DEF WriteSetLock, new
  <2>4. \A s \in Sets : slock'[s] = slock[s] \/ slock'[s] = new
    BY <2>3
  <2> QED BY <2>2, <2>3, <2>4
<1>3. ASSUME NEW p \in Procs, TornCopy(p) PROVE SetLocksOpen' /\ SlockIsFunction'
  <2>1. slock' = [slock EXCEPT ![op[p].set] = Torn] \/ slock' = slock
    BY <1>3 DEF TornCopy
  <2>2. \A s \in Sets : slock'[s] = slock[s] \/ slock'[s] = Torn
    BY <2>1
  <2> QED BY <2>1, <2>2
<1>4. ASSUME NEW p \in Procs, ClearDir(p) PROVE SetLocksOpen' /\ SlockIsFunction'
  BY <1>4 DEF ClearDir
<1>5. ASSUME NEW s \in Sets, UserDeletes(s) PROVE SetLocksOpen' /\ SlockIsFunction'
  BY <1>5 DEF UserDeletes
<1>6. ASSUME NEW p \in Procs, NEW s \in Sets, Start(p, s) PROVE UNCHANGED slock
  BY <1>6 DEF Start, AddStart, AddRepoStart, RemoveRepoStart, RemoveStart, Begin
<1>7. ASSUME NEW p \in Procs,
             MakeDir(p) \/ AddWorktree(p) \/ RemoveWorktree(p) \/ WriteConfig(p) \/ Fail(p) \/ TornClear(p)
      PROVE  UNCHANGED slock
  BY <1>7 DEF MakeDir, AddWorktree, RemoveWorktree, WriteConfig, Fail, TornClear, files
<1>8. ASSUME \/ Prune \/ (\E w \in trees : UserEdits(w)) \/ (\E r \in Repos : UserUndeclares(r))
             \/ UNCHANGED vars
      PROVE  UNCHANGED slock
  BY <1>8 DEF Prune, UserEdits, UserUndeclares, vars, files
<1> QED BY <1>1, <1>2, <1>3, <1>4, <1>5, <1>6, <1>7, <1>8 DEF Next, NextOn, Step

\* Whatever runs, fails or is killed, no set is left with a lock that pn wrote in
\* full and yet refuses.
THEOREM SetLocksAreReadable == Spec => []SetLocksOpen
<1>1. Spec => [](SetLocksOpen /\ SlockIsFunction)
  BY InitLocks, StepKeepsLocks, PTL DEF Spec
<1> QED BY <1>1, PTL
-----------------------------------------------------------------------------
(* The invariants.                                                         *)

Active(p) == op[p].pc # "idle"
Overlap(s, t) == s \in Inside(t) \/ t \in Inside(s)

\* What a verb may be at.
Shapes == \A p \in Procs :
  /\ ~Active(p) => op[p] = Idle
  /\ Active(p) =>
       /\ op[p].set \in Sets
       /\ op[p].pc = "mkdir" => op[p].verb = "add"
       /\ op[p].pc = "worktree" => op[p].verb \in {"add", "add-repo"}
       /\ op[p].pc = "unlink" => op[p].verb \in {"remove", "remove-repo"}
       /\ op[p].pc = "clear" => op[p].verb = "remove"
       /\ op[p].pc \in {"config", "lock"} => op[p].verb # "remove"
       /\ op[p].full => op[p].verb = "add" /\ op[p].members = op[p].cfg.repos
       /\ op[p].verb = "remove-repo" => \E r \in Repos : op[p].todo \subseteq {r}

\* Two verbs on overlapping sets have marked both.
Raced == \A p, q \in Procs :
  p # q /\ Active(p) /\ Active(q) /\ Overlap(op[p].set, op[q].set)
    => "raced" \in causes[op[p].set] /\ "raced" \in causes[op[q].set]

\* What is below a directory goes with it; git knows every worktree.
Contained ==
  /\ \A s \in Sets \ dirs : TreesOf(s) = {} /\ conf[s] = Absent /\ slock[s] = Absent
  /\ trees \subseteq worktrees

Basics == TypeOK /\ Shapes /\ Raced /\ Contained

USE DEF Active

-----------------------------------------------------------------------------
(* Lemmas about the operators.                                             *)

\* The next repo of a walk is one of those left.
LEMMA NextIsLeft ==
  ASSUME NEW todo \in SUBSET Repos, todo # {}
  PROVE  NextRepo(todo) \in todo
<1> DEFINE D == {i \in DOMAIN CanonLock.order : CanonLock.order[i] \in todo}
<1>1. DOMAIN CanonLock.order \subseteq Nat /\ D # {} /\ D \subseteq Nat
  BY LocksAssumption
<1>2. PICK i \in D : \A j \in D : ~(<<j, i>> \in OpToRel(<, Nat))
  BY <1>1, WFMin, NatLessThanWellFounded
<1>3. \A j \in D : j \in Nat /\ i \in Nat
  BY <1>1
<1> HIDE DEF D
<1>5. \A j \in D : ~(j < i)
  BY <1>2, <1>3, Zenon DEF OpToRel
<1>6. \A j \in D : i <= j
  BY <1>3, <1>5
<1> USE DEF D
<1>4. \E k \in DOMAIN CanonLock.order :
         /\ CanonLock.order[k] \in todo
         /\ \A j \in DOMAIN CanonLock.order : CanonLock.order[j] \in todo => k <= j
  BY <1>6
<1> QED BY <1>4 DEF NextRepo

\* filterConfig and the type of a definition.
LEMMA FilterTypes ==
  ASSUME NEW c \in Configs, NEW members \in SUBSET Repos
  PROVE  FilterConfig(c, members) \in Configs /\ FilterConfig(c, members).repos = c.repos \cap members
BY DEF Configs, FilterConfig

LEMMA IdleFacts ==
  /\ Idle \in Ops /\ Idle.pc = "idle" /\ Idle.set = NoSet /\ Idle.verb = "none"
  /\ ConfigAccepted(Idle.cfg)
BY DEF Idle, Ops, Configs, ConfigAccepted

\* What a verb is after one of its steps.
LEMMA GotoFacts ==
  ASSUME op \in [Procs -> Ops], NEW p \in Procs, Goto(p, op'[p].pc),
         op'[p].pc \in {"worktree", "lock"}
  PROVE  /\ op' \in [Procs -> Ops] /\ \A q \in Procs \ {p} : op'[q] = op[q]
         /\ op'[p].verb = op[p].verb /\ op'[p].set = op[p].set /\ op'[p].todo = op[p].todo
         /\ op'[p].members = op[p].members /\ op'[p].full = op[p].full /\ op'[p].cfg = op[p].cfg
BY DEF Goto, Ops

\* The same for a step of a walk, and for the end of a verb.
LEMMA WalkFacts ==
  ASSUME op \in [Procs -> Ops], NEW p \in Procs, NEW r, NEW l \in {"worktree", "unlink", "clear", "config"},
         op' = [op EXCEPT ![p].todo = @ \ {r}, ![p].pc = l]
  PROVE  /\ op' \in [Procs -> Ops] /\ \A q \in Procs \ {p} : op'[q] = op[q]
         /\ op'[p].pc = l /\ op'[p].todo = op[p].todo \ {r}
         /\ op'[p].verb = op[p].verb /\ op'[p].set = op[p].set
         /\ op'[p].members = op[p].members /\ op'[p].full = op[p].full /\ op'[p].cfg = op[p].cfg
BY DEF Ops

LEMMA DoneFacts ==
  ASSUME op \in [Procs -> Ops], NEW p \in Procs, Done(p)
  PROVE  op' \in [Procs -> Ops] /\ op'[p] = Idle /\ \A q \in Procs \ {p} : op'[q] = op[q]
BY IdleFacts DEF Done

AllCauses == {"raced", "failed", "torn", "deleted", "undeclared"}

LEMMA BlameFacts ==
  ASSUME causes \in [Sets -> SUBSET AllCauses], NEW names, NEW why \in AllCauses
  PROVE  /\ Blame(names, why) \in [Sets -> SUBSET AllCauses]
         /\ \A t \in Sets : /\ causes[t] \subseteq Blame(names, why)[t]
                            /\ t \in names => why \in Blame(names, why)[t]
                            /\ t \notin names => Blame(names, why)[t] = causes[t]
BY DEF Blame

\* The verbs that begin.
Fresh(s, o) ==
  /\ o \in Ops /\ o.set = s /\ o.cfg = cfg
  /\ \/ /\ o.verb = "add" /\ o.pc = "mkdir" /\ s \notin dirs
        /\ o.members \subseteq cfg.repos /\ o.todo = o.members
        /\ o.full => o.members = cfg.repos
     \/ /\ o.verb = "add-repo" /\ o.pc = "worktree" /\ ~o.full /\ Readable(s)
        /\ \E r \in cfg.repos \ conf[s].repos : o.todo = {r} /\ o.members = conf[s].repos \cup {r}
     \/ /\ o.verb = "remove-repo" /\ o.pc = "unlink" /\ ~o.full /\ Readable(s)
        /\ \E r \in conf[s].repos : r \in Repos /\ o.todo = {r} /\ o.members = conf[s].repos \ {r}
     \/ o.verb = "remove" /\ o.pc = "unlink" /\ ~o.full /\ o.todo = cfg.repos

LEMMA ReadableConf ==
  ASSUME TypeOK, NEW s \in Sets, Readable(s)
  PROVE  conf[s] \in Configs /\ conf[s].repos \subseteq Repos
BY DEF TypeOK, Readable, Configs

LEMMA StartFacts ==
  ASSUME TypeOK, NEW p \in Procs, NEW s \in Sets, Start(p, s)
  PROVE  \E o : Fresh(s, o) /\ Begin(p, o)
<1>0. cfg \in Configs /\ cfg.repos \subseteq Repos /\ Idle \in Ops
  BY IdleFacts DEF TypeOK, Configs
<1>1. ASSUME NEW members \in SUBSET Repos, AddStart(p, s, members)
      PROVE  \E o : Fresh(s, o) /\ Begin(p, o)
  <2> DEFINE o == [Idle EXCEPT !.pc = "mkdir", !.verb = "add", !.set = s, !.cfg = cfg,
                               !.todo = members, !.members = members,
                               !.full = (members = cfg.repos)]
  <2>1. (members = cfg.repos) \in BOOLEAN
    OBVIOUS
  <2>2. o \in Ops
    BY <1>0, <2>1 DEF Ops, Idle
  <2>3. o.set = s /\ o.cfg = cfg /\ o.verb = "add" /\ o.pc = "mkdir" /\ o.members = members /\ o.todo = members
    BY DEF Idle
  <2>4. o.full = (members = cfg.repos)
    BY Zenon DEF Idle
  <2>5. Begin(p, o) /\ s \notin dirs /\ members \subseteq cfg.repos
    BY <1>1 DEF AddStart
  <2> HIDE DEF o
  <2>6. Fresh(s, o)
    BY <2>2, <2>3, <2>4, <2>5 DEF Fresh
  <2> QED BY <2>5, <2>6
<1>2. ASSUME NEW r \in Repos, AddRepoStart(p, s, r)
      PROVE  \E o : Fresh(s, o) /\ Begin(p, o)
  <2> DEFINE o == [Idle EXCEPT !.pc = "worktree", !.verb = "add-repo", !.set = s, !.cfg = cfg,
                               !.todo = {r}, !.members = conf[s].repos \cup {r}]
  <2>1. Readable(s) /\ r \in cfg.repos \ conf[s].repos /\ Begin(p, o)
    BY <1>2 DEF AddRepoStart
  <2>2. o \in Ops
    BY <1>0, <2>1, ReadableConf DEF Ops, Idle
  <2>3. /\ o.set = s /\ o.cfg = cfg /\ o.verb = "add-repo" /\ o.pc = "worktree" /\ ~o.full
        /\ o.todo = {r} /\ o.members = conf[s].repos \cup {r}
    BY DEF Idle
  <2> HIDE DEF o
  <2>4. Fresh(s, o)
    BY <2>1, <2>2, <2>3 DEF Fresh
  <2> QED BY <2>1, <2>4
<1>3. ASSUME NEW r \in Repos, NEW force \in BOOLEAN, RemoveRepoStart(p, s, r, force)
      PROVE  \E o : Fresh(s, o) /\ Begin(p, o)
  <2> DEFINE o == [Idle EXCEPT !.pc = "unlink", !.verb = "remove-repo", !.set = s, !.cfg = cfg,
                               !.todo = {r}, !.members = conf[s].repos \ {r}, !.force = force]
  <2>1. Readable(s) /\ r \in conf[s].repos /\ Begin(p, o)
    BY <1>3 DEF RemoveRepoStart
  <2>2. o \in Ops
    BY <1>0, <2>1, ReadableConf DEF Ops, Idle
  <2>3. /\ o.set = s /\ o.cfg = cfg /\ o.verb = "remove-repo" /\ o.pc = "unlink" /\ ~o.full
        /\ o.todo = {r} /\ o.members = conf[s].repos \ {r}
    BY DEF Idle
  <2> HIDE DEF o
  <2>4. Fresh(s, o)
    BY <2>1, <2>2, <2>3 DEF Fresh
  <2> QED BY <2>1, <2>4
<1>4. ASSUME NEW force \in BOOLEAN, RemoveStart(p, s, force)
      PROVE  \E o : Fresh(s, o) /\ Begin(p, o)
  <2> DEFINE o == [Idle EXCEPT !.pc = "unlink", !.verb = "remove", !.set = s, !.cfg = cfg,
                               !.todo = cfg.repos, !.force = force]
  <2>1. Begin(p, o)
    BY <1>4 DEF RemoveStart
  <2>2. o \in Ops
    BY <1>0 DEF Ops, Idle
  <2>3. /\ o.set = s /\ o.cfg = cfg /\ o.verb = "remove" /\ o.pc = "unlink" /\ ~o.full
        /\ o.todo = cfg.repos
    BY DEF Idle
  <2> HIDE DEF o
  <2>4. Fresh(s, o)
    BY <2>2, <2>3 DEF Fresh
  <2> QED BY <2>1, <2>4
<1> QED BY <1>1, <1>2, <1>3, <1>4 DEF Start

LEMMA BeginFacts ==
  ASSUME TypeOK, NEW p \in Procs, NEW s \in Sets, NEW o, Fresh(s, o), Begin(p, o)
  PROVE  /\ op' \in [Procs -> Ops] /\ op[p].pc = "idle" /\ op'[p] = o
         /\ \A q \in Procs \ {p} : op'[q] = op[q]
         /\ causes' \in [Sets -> SUBSET AllCauses]
         /\ Busy(s) => \A t \in Sets : /\ causes[t] \subseteq causes'[t]
                                       /\ Overlap(t, s) => "raced" \in causes'[t]
         /\ ~Busy(s) => \A t \in Sets : \/ causes'[t] = causes[t]
                                        \/ t = s /\ o.verb = "add" /\ causes'[t] = {}
         /\ UNCHANGED <<cfg, heads, worktrees, dirs, trees, dirty, conf, slock, lost>>
<1>1. o \in Ops /\ o.set = s
  BY DEF Fresh
<1>2. op' = [op EXCEPT ![p] = o] /\ op[p].pc = "idle"
  BY DEF Begin
<1>3. causes \in [Sets -> SUBSET AllCauses]
  BY DEF TypeOK, AllCauses
<1> DEFINE near == {t \in Sets : t \in Inside(s) \/ s \in Inside(t)}
<1>4. Busy(s) => causes' = Blame(near, "raced")
  BY <1>1 DEF Begin
<1>5. ~Busy(s) => causes' = IF o.verb = "add" THEN [causes EXCEPT ![s] = {}] ELSE causes
  BY <1>1 DEF Begin
<1>6. Busy(s) => /\ causes' \in [Sets -> SUBSET AllCauses]
                 /\ \A t \in Sets : /\ causes[t] \subseteq causes'[t]
                                    /\ Overlap(t, s) => "raced" \in causes'[t]
  BY <1>3, <1>4, BlameFacts DEF Overlap, AllCauses
<1>7. ~Busy(s) => /\ causes' \in [Sets -> SUBSET AllCauses]
                  /\ \A t \in Sets : \/ causes'[t] = causes[t]
                                     \/ t = s /\ o.verb = "add" /\ causes'[t] = {}
  BY <1>3, <1>5
<1>8. UNCHANGED <<cfg, heads, worktrees, dirs, trees, dirty, conf, slock, lost>>
  BY DEF Begin
<1>9. op' \in [Procs -> Ops] /\ op'[p] = o /\ \A q \in Procs \ {p} : op'[q] = op[q]
  BY <1>1, <1>2 DEF TypeOK
<1> QED BY <1>2, <1>6, <1>7, <1>8, <1>9

-----------------------------------------------------------------------------
(* Types, shapes, and verbs on overlapping sets.                           *)

\* A verb that does not begin goes on as what it is, and a set only gathers causes.
Continues ==
  /\ \A q \in Procs : Active(q)' =>
       /\ Active(q) /\ op'[q].set = op[q].set /\ op'[q].verb = op[q].verb
       /\ op'[q].members = op[q].members /\ op'[q].full = op[q].full /\ op'[q].cfg = op[q].cfg
  /\ \A t \in Sets : causes[t] \subseteq causes'[t]

Outside == \/ Prune \/ (\E w \in trees : UserEdits(w)) \/ (\E s \in Sets : UserDeletes(s))
           \/ (\E r \in Repos : UserUndeclares(r)) \/ UNCHANGED vars

LEMMA NextCases ==
  [Next]_vars => \/ \E p \in Procs : Step(p) \/ \E s \in Sets : Start(p, s)
                 \/ Outside
BY DEF Next, NextOn, Outside

LEMMA OutsideFacts ==
  ASSUME TypeOK, Outside
  PROVE  /\ UNCHANGED op /\ \A t \in Sets : causes[t] \subseteq causes'[t]
         /\ trees' \subseteq trees /\ dirs' \subseteq dirs /\ UNCHANGED lost
         /\ TypeOK'
<1> USE DEF TypeOK, AllCauses
<1>1. CASE Prune
  BY <1>1 DEF Prune, files
<1>2. ASSUME NEW w \in trees, UserEdits(w)
      PROVE  UNCHANGED <<op, causes, trees, dirs, lost, cfg, worktrees, conf>>
  BY <1>2 DEF UserEdits, files
<1>3. ASSUME NEW s \in Sets, UserDeletes(s)
      PROVE  /\ UNCHANGED <<op, lost, cfg, worktrees>> /\ causes' = Blame(Inside(s), "deleted")
             /\ dirs' \subseteq dirs /\ trees' \subseteq trees
             /\ conf' \in [Sets -> Configs \cup {Absent, Torn}]
  BY <1>3 DEF UserDeletes
<1>4. ASSUME NEW r \in Repos, UserUndeclares(r)
      PROVE  /\ UNCHANGED <<op, lost, worktrees, dirs, trees, conf>>
             /\ causes' = Blame({s \in Sets : <<s, r>> \in trees \/ Busy(s)}, "undeclared")
             /\ cfg' \in Configs
  <2>1. cfg.repos \ {r} \in SUBSET Repos
    BY DEF Configs
  <2>2. FilterConfig(cfg, cfg.repos \ {r}) \in Configs
    BY <2>1, FilterTypes
  <2> QED BY <1>4, <2>2 DEF UserUndeclares, files
<1>5. CASE UNCHANGED vars
  BY <1>5 DEF vars
<1>6. ASSUME NEW names, NEW why \in AllCauses, causes' = Blame(names, why)
      PROVE  causes' \in [Sets -> SUBSET AllCauses] /\ \A t \in Sets : causes[t] \subseteq causes'[t]
  BY <1>6, BlameFacts
<1>7. CASE \E s \in Sets : UserDeletes(s)
  BY <1>3, <1>6, <1>7
<1>8. CASE \E r \in Repos : UserUndeclares(r)
  BY <1>4, <1>6, <1>8
<1> QED BY <1>1, <1>2, <1>5, <1>7, <1>8 DEF Outside

\* A walk takes the next repo, and ends with the last one.
LEMMA WalkStep ==
  ASSUME TypeOK, Shapes, NEW p \in Procs, AddWorktree(p) \/ RemoveWorktree(p)
  PROVE  LET r == NextRepo(op[p].todo)
         IN /\ r \in op[p].todo /\ op[p].todo \subseteq Repos /\ op[p].set \in Sets /\ Active(p)
            /\ op' \in [Procs -> Ops] /\ \A q \in Procs \ {p} : op'[q] = op[q]
            /\ op'[p].todo = op[p].todo \ {r}
            /\ op'[p].verb = op[p].verb /\ op'[p].set = op[p].set
            /\ op'[p].members = op[p].members /\ op'[p].full = op[p].full /\ op'[p].cfg = op[p].cfg
            /\ op'[p].pc = IF op[p].todo # {r} THEN op[p].pc
                           ELSE IF op[p].verb = "remove" THEN "clear" ELSE "config"
<1> DEFINE r == NextRepo(op[p].todo)
<1>1. op[p].todo \in SUBSET Repos /\ op[p].todo # {} /\ op[p].pc \in {"worktree", "unlink"}
  BY DEF TypeOK, Ops, AddWorktree, RemoveWorktree
<1>2. r \in op[p].todo
  BY <1>1, NextIsLeft
<1>3. op[p].set \in Sets /\ (AddWorktree(p) => op[p].verb # "remove" /\ op[p].pc = "worktree")
  BY <1>1 DEF Shapes, AddWorktree
<1> DEFINE l == IF op[p].todo # {r} THEN op[p].pc
                ELSE IF op[p].verb = "remove" THEN "clear" ELSE "config"
<1>4. op' = [op EXCEPT ![p].todo = @ \ {r}, ![p].pc = l]
  <2>1. CASE AddWorktree(p)
    BY <1>3, <2>1 DEF AddWorktree
  <2>2. CASE RemoveWorktree(p)
    BY <2>2 DEF RemoveWorktree
  <2> QED BY <2>1, <2>2
<1>5. l \in {"worktree", "unlink", "clear", "config"} /\ op \in [Procs -> Ops]
  BY <1>1 DEF TypeOK
<1> HIDE DEF l, r
<1>6. /\ op' \in [Procs -> Ops] /\ \A q \in Procs \ {p} : op'[q] = op[q]
      /\ op'[p].pc = l /\ op'[p].todo = op[p].todo \ {r}
      /\ op'[p].verb = op[p].verb /\ op'[p].set = op[p].set
      /\ op'[p].members = op[p].members /\ op'[p].full = op[p].full /\ op'[p].cfg = op[p].cfg
  BY <1>4, <1>5, WalkFacts
<1> QED BY <1>1, <1>2, <1>3, <1>6 DEF l, r

\* The steps that end a verb.
Ending(p) == WriteSetLock(p) \/ ClearDir(p) \/ Fail(p) \/ TornCopy(p) \/ TornClear(p)

LEMMA EndFacts ==
  ASSUME TypeOK, Shapes, NEW p \in Procs, Ending(p)
  PROVE  /\ op' \in [Procs -> Ops] /\ op'[p] = Idle /\ \A q \in Procs \ {p} : op'[q] = op[q]
         /\ Active(p) /\ op[p].set \in Sets
         /\ causes' \in [Sets -> SUBSET AllCauses]
         /\ \A t \in Sets : causes[t] \subseteq causes'[t]
         /\ trees' \subseteq trees /\ dirs' \subseteq dirs /\ UNCHANGED <<cfg, worktrees>>
<1> USE DEF Ending
<1>1. Done(p) /\ Active(p)
  BY DEF WriteSetLock, ClearDir, Fail, TornCopy, TornClear
<1>2. op' \in [Procs -> Ops] /\ op'[p] = Idle /\ \A q \in Procs \ {p} : op'[q] = op[q]
  BY <1>1, DoneFacts DEF TypeOK
<1>3. causes \in [Sets -> SUBSET AllCauses]
  BY DEF TypeOK, AllCauses
<1>4. UNCHANGED causes \/ \E names : \E why \in AllCauses : causes' = Blame(names, why)
  BY DEF WriteSetLock, ClearDir, Fail, TornCopy, TornClear, AllCauses
<1>5. causes' \in [Sets -> SUBSET AllCauses] /\ \A t \in Sets : causes[t] \subseteq causes'[t]
  BY <1>3, <1>4, BlameFacts
<1>6. trees' \subseteq trees /\ dirs' \subseteq dirs /\ UNCHANGED <<cfg, worktrees>>
  BY DEF WriteSetLock, ClearDir, Fail, TornCopy, TornClear, git
<1> QED BY <1>1, <1>2, <1>5, <1>6 DEF Shapes

\* The directory is made, or the config written.
LEMMA GoesFacts ==
  ASSUME TypeOK, Shapes, NEW p \in Procs, MakeDir(p) \/ WriteConfig(p)
  PROVE  /\ op' \in [Procs -> Ops] /\ \A q \in Procs \ {p} : op'[q] = op[q]
         /\ Active(p) /\ op[p].set \in Sets
         /\ op'[p].pc = IF op[p].pc = "mkdir" THEN "worktree" ELSE "lock"
         /\ op'[p].verb = op[p].verb /\ op'[p].set = op[p].set /\ op'[p].todo = op[p].todo
         /\ op'[p].members = op[p].members /\ op'[p].full = op[p].full /\ op'[p].cfg = op[p].cfg
         /\ UNCHANGED <<causes, cfg, trees, worktrees, slock>>
<1>1. \/ Goto(p, "worktree") /\ op[p].pc = "mkdir"
      \/ Goto(p, "lock") /\ op[p].pc = "config"
  BY DEF MakeDir, WriteConfig
<1>2. op'[p].pc = IF op[p].pc = "mkdir" THEN "worktree" ELSE "lock"
  BY <1>1 DEF TypeOK, Ops, Goto
<1>3. Goto(p, op'[p].pc) /\ op'[p].pc \in {"worktree", "lock"} /\ op \in [Procs -> Ops]
  BY <1>1, <1>2 DEF TypeOK
<1>4. UNCHANGED <<causes, cfg, trees, worktrees, slock>>
  BY DEF MakeDir, WriteConfig, git, files
<1> QED BY <1>1, <1>2, <1>3, <1>4, GotoFacts DEF Shapes

\* Every step but a beginning.
Rest == (\E p \in Procs : Step(p)) \/ Outside

LEMMA RestContinues == ASSUME TypeOK, Shapes, Rest PROVE Continues
<1> USE DEF Continues
<1>1. ASSUME NEW p \in Procs, AddWorktree(p) \/ RemoveWorktree(p) PROVE Continues
  <2>1. UNCHANGED causes
    BY <1>1 DEF AddWorktree, RemoveWorktree
  <2> QED BY <1>1, <2>1, WalkStep
<1>2. ASSUME NEW p \in Procs, Ending(p) PROVE Continues
  BY <1>2, EndFacts, IdleFacts
<1>3. ASSUME NEW p \in Procs, MakeDir(p) \/ WriteConfig(p) PROVE Continues
  BY <1>3, GoesFacts
<1>4. CASE Outside
  BY <1>4, OutsideFacts
<1> QED BY <1>1, <1>2, <1>3, <1>4 DEF Rest, Step, Ending

LEMMA TypeStep == TypeOK /\ Shapes /\ [Next]_vars => TypeOK'
<1> SUFFICES ASSUME TypeOK, Shapes, [Next]_vars PROVE TypeOK'
  OBVIOUS
<1> USE DEF TypeOK
<1>1. ASSUME NEW p \in Procs, NEW s \in Sets, Start(p, s) PROVE TypeOK'
  <2>1. PICK o : Fresh(s, o) /\ Begin(p, o)
    BY <1>1, StartFacts
  <2> QED BY <2>1, BeginFacts DEF AllCauses
<1>2. ASSUME NEW p \in Procs, AddWorktree(p) \/ RemoveWorktree(p) PROVE TypeOK'
  <2> DEFINE r == NextRepo(op[p].todo)
  <2>1. op' \in [Procs -> Ops] /\ op[p].set \in Sets /\ r \in Repos
    BY <1>2, WalkStep
  <2> HIDE DEF r
  <2>2. CASE AddWorktree(p)
    <3>1. /\ trees' = trees \cup {<<op[p].set, r>>} /\ worktrees' = worktrees \cup {<<op[p].set, r>>}
          /\ UNCHANGED <<cfg, causes, conf>>
          /\ dirs' = dirs \cup ({op[p].set, InDir[op[p].set]} \ {NoSet})
      BY <2>2 DEF AddWorktree, r, files
    <3>2. dirs' \subseteq Sets
      BY <2>1, <3>1, NestingAssumption
    <3> QED BY <2>1, <3>1, <3>2
  <2>3. CASE RemoveWorktree(p)
    BY <2>1, <2>3 DEF RemoveWorktree, files
  <2> QED BY <1>2, <2>2, <2>3
<1>3. ASSUME NEW p \in Procs, Ending(p) PROVE TypeOK'
  <2>1. conf' \in [Sets -> Configs \cup {Absent, Torn}]
    BY <1>3, EndFacts DEF Ending, WriteSetLock, ClearDir, Fail, TornCopy, TornClear, files
  <2> QED BY <1>3, <2>1, EndFacts DEF AllCauses
<1>4. ASSUME NEW p \in Procs, MakeDir(p) PROVE TypeOK'
  <2>1. dirs' \subseteq Sets
    BY <1>4, GoesFacts, NestingAssumption DEF MakeDir
  <2>2. UNCHANGED conf
    BY <1>4 DEF MakeDir, files
  <2> QED BY <1>4, <2>1, <2>2, GoesFacts
<1>5. ASSUME NEW p \in Procs, WriteConfig(p) PROVE TypeOK'
  <2>1. op[p].cfg \in Configs /\ op[p].members \in SUBSET Repos
    BY DEF Ops
  <2>2. FilterConfig(op[p].cfg, op[p].members) \in Configs
    BY <2>1, FilterTypes
  <2>3. conf' \in [Sets -> Configs \cup {Absent, Torn}] /\ UNCHANGED dirs
    BY <1>5, <2>2 DEF WriteConfig
  <2> QED BY <1>5, <2>3, GoesFacts
<1>6. CASE Outside
  BY <1>6, OutsideFacts
<1> QED BY <1>1, <1>2, <1>3, <1>4, <1>5, <1>6, NextCases DEF Step, Ending

LEMMA ShapesStep == TypeOK /\ Shapes /\ [Next]_vars => Shapes'
<1> SUFFICES ASSUME TypeOK, Shapes, [Next]_vars PROVE Shapes'
  OBVIOUS
<1>1. ASSUME NEW p \in Procs, NEW s \in Sets, Start(p, s) PROVE Shapes'
  <2>1. PICK o : Fresh(s, o) /\ Begin(p, o)
    BY <1>1, StartFacts
  <2>2. /\ o.set \in Sets /\ o.pc # "idle"
        /\ o.pc = "mkdir" => o.verb = "add"
        /\ o.pc = "worktree" => o.verb \in {"add", "add-repo"}
        /\ o.pc = "unlink" => o.verb \in {"remove", "remove-repo"}
        /\ o.pc = "clear" => o.verb = "remove"
        /\ o.pc \in {"config", "lock"} => o.verb # "remove"
        /\ o.full => o.verb = "add" /\ o.members = o.cfg.repos
        /\ o.verb = "remove-repo" => \E r \in Repos : o.todo \subseteq {r}
    BY <2>1 DEF Fresh
  <2> QED BY <2>1, <2>2, BeginFacts DEF Shapes
<1>2. ASSUME NEW p \in Procs, AddWorktree(p) \/ RemoveWorktree(p) PROVE Shapes'
  <2>1. AddWorktree(p) => op[p].pc = "worktree"
    BY DEF AddWorktree
  <2>2. RemoveWorktree(p) => op[p].pc = "unlink"
    BY DEF RemoveWorktree
  <2> QED BY <1>2, <2>1, <2>2, WalkStep DEF Shapes
<1>3. ASSUME NEW p \in Procs, Ending(p) PROVE Shapes'
  BY <1>3, EndFacts, IdleFacts DEF Shapes
<1>4. ASSUME NEW p \in Procs, MakeDir(p) \/ WriteConfig(p) PROVE Shapes'
  <2>1. op[p].pc \in {"mkdir", "config"}
    BY <1>4 DEF MakeDir, WriteConfig
  <2> QED BY <1>4, <2>1, GoesFacts DEF Shapes
<1>5. CASE Outside
  BY <1>5, OutsideFacts DEF Shapes
<1> QED BY <1>1, <1>2, <1>3, <1>4, <1>5, NextCases DEF Step, Ending

LEMMA RacedStep == TypeOK /\ Shapes /\ Raced /\ [Next]_vars => Raced'
<1> SUFFICES ASSUME TypeOK, Shapes, Raced, [Next]_vars PROVE Raced'
  OBVIOUS
<1>1. ASSUME NEW p \in Procs, NEW s \in Sets, Start(p, s) PROVE Raced'
  <2>1. PICK o : Fresh(s, o) /\ Begin(p, o)
    BY <1>1, StartFacts
  <2>2. o.set = s
    BY <2>1 DEF Fresh
  <2>3. \A q \in Procs : Active(q) /\ Overlap(s, op[q].set) => Busy(s) /\ Overlap(op[q].set, s)
    BY DEF Busy, Overlap
  <2>4. \A t \in Sets : t \in Inside(t)
    BY DEF Inside
  <2> SUFFICES ASSUME NEW q1 \in Procs, NEW q2 \in Procs, q1 # q2, Active(q1)', Active(q2)',
                      Overlap(op'[q1].set, op'[q2].set)
               PROVE  "raced" \in causes'[op'[q1].set] /\ "raced" \in causes'[op'[q2].set]
    BY DEF Raced, Overlap, Inside
  <2>5. \A q \in Procs : q # p /\ Active(q) => op'[q] = op[q] /\ op[q].set \in Sets
    BY <2>1, BeginFacts DEF Shapes
  <2>6. op'[p].set = s
    BY <2>1, <2>2, BeginFacts
  <2>7. CASE q1 = p \/ q2 = p
    <3>1. PICK q \in {q1, q2} : q # p
      OBVIOUS
    <3>2. Active(q) /\ Overlap(s, op[q].set) /\ op'[q].set = op[q].set /\ op[q].set \in Sets
      <4>1. op'[q] = op[q]
        BY <2>1, <3>1, BeginFacts
      <4> QED BY <2>5, <2>6, <2>7, <3>1, <4>1 DEF Overlap
    <3>3. Busy(s) /\ Overlap(op[q].set, s) /\ Overlap(s, s)
      BY <2>3, <2>4, <3>1, <3>2 DEF Overlap
    <3>4. "raced" \in causes'[op[q].set] /\ "raced" \in causes'[s]
      BY <2>1, <3>2, <3>3, BeginFacts
    <3> QED BY <2>6, <2>7, <3>1, <3>2, <3>4
  <2>8. CASE q1 # p /\ q2 # p
    <3>1. op'[q1] = op[q1] /\ op'[q2] = op[q2]
      BY <2>1, <2>8, BeginFacts
    <3>2. /\ "raced" \in causes[op[q1].set] /\ "raced" \in causes[op[q2].set]
          /\ op[q1].set \in Sets /\ op[q2].set \in Sets
      BY <2>5, <2>8, <3>1 DEF Raced
    <3>3. Busy(s) \/ (op[q1].set # s /\ op[q2].set # s)
      BY <2>3, <2>4, <2>5, <2>8, <3>1 DEF Overlap
    <3> QED BY <2>1, <3>1, <3>2, <3>3, BeginFacts
  <2> QED BY <2>7, <2>8
<1>2. CASE Rest
  <2>1. Continues
    BY <1>2, RestContinues
  <2> QED BY <2>1 DEF Continues, Raced, Shapes, Overlap, Inside
<1> QED BY <1>1, <1>2, NextCases DEF Rest

LEMMA ContainedStep == Basics /\ [Next]_vars => Contained'
<1> SUFFICES ASSUME Basics, [Next]_vars PROVE Contained'
  OBVIOUS
<1> USE DEF Contained, TreesOf, Basics
<1>1. ASSUME NEW p \in Procs, NEW s \in Sets, Start(p, s) PROVE Contained'
  BY <1>1, StartFacts, BeginFacts
<1>2. ASSUME NEW p \in Procs, AddWorktree(p) PROVE Contained'
  <2> DEFINE r == NextRepo(op[p].todo)
  <2>1. op[p].set \in Sets
    BY <1>2, WalkStep
  <2>2. /\ trees' = trees \cup {<<op[p].set, r>>} /\ worktrees' = worktrees \cup {<<op[p].set, r>>}
        /\ dirs' = dirs \cup ({op[p].set, InDir[op[p].set]} \ {NoSet}) /\ UNCHANGED <<conf, slock>>
    BY <1>2 DEF AddWorktree, r, files
  <2> HIDE DEF r
  <2>3. dirs \subseteq dirs' /\ op[p].set \in dirs'
    BY <2>1, <2>2, NestingAssumption
  <2> QED BY <2>2, <2>3
<1>3. ASSUME NEW p \in Procs, RemoveWorktree(p) PROVE Contained'
  BY <1>3 DEF RemoveWorktree, files
<1>4. ASSUME NEW p \in Procs, MakeDir(p) PROVE Contained'
  BY <1>4 DEF MakeDir, git, files
<1>5. ASSUME NEW p \in Procs, WriteConfig(p) PROVE Contained'
  BY <1>5 DEF WriteConfig, git, TypeOK
<1>6. ASSUME NEW p \in Procs, WriteSetLock(p) PROVE Contained'
  <2>1. \A s \in Sets : s # op[p].set => slock'[s] = slock[s]
    BY <1>6 DEF WriteSetLock
  <2> QED BY <1>6, <2>1 DEF WriteSetLock, git
<1>7. ASSUME NEW p \in Procs, ClearDir(p) PROVE Contained'
  <2>1. /\ dirs' = dirs \ Inside(op[p].set) /\ trees' = trees \ {w \in trees : w[1] \in Inside(op[p].set)}
        /\ UNCHANGED worktrees
        /\ \A t \in Sets : /\ conf'[t] = IF t \in Inside(op[p].set) THEN Absent ELSE conf[t]
                           /\ slock'[t] = IF t \in Inside(op[p].set) THEN Absent ELSE slock[t]
    BY <1>7 DEF ClearDir
  <2> QED BY <2>1
<1>8. ASSUME NEW p \in Procs, Fail(p) PROVE Contained'
  BY <1>8 DEF Fail, git, files
<1>9. ASSUME NEW p \in Procs, TornCopy(p) PROVE Contained'
  <2>1. /\ op[p].set \in dirs /\ UNCHANGED <<dirs, trees, worktrees>>
        /\ \A s \in Sets : s # op[p].set => conf'[s] = conf[s] /\ slock'[s] = slock[s]
    <3>1. CASE op[p].pc = "config"
      BY <1>9, <3>1 DEF TornCopy, git, TypeOK
    <3>2. CASE op[p].pc = "lock"
      <4>1. UNCHANGED conf /\ slock' = [slock EXCEPT ![op[p].set] = Torn]
        BY <1>9, <3>2 DEF TornCopy
      <4> QED BY <1>9, <4>1 DEF TornCopy, git
    <3> QED BY <1>9, <3>1, <3>2 DEF TornCopy
  <2> QED BY <2>1
<1>10. ASSUME NEW p \in Procs, TornClear(p) PROVE Contained'
  BY <1>10 DEF TornClear, TypeOK
<1>11. CASE Outside
  <2>1. CASE Prune
    BY <2>1 DEF Prune, files
  <2>2. ASSUME NEW w \in trees, UserEdits(w) PROVE Contained'
    BY <2>2 DEF UserEdits, files
  <2>3. ASSUME NEW s \in Sets, UserDeletes(s) PROVE Contained'
    BY <2>3 DEF UserDeletes
  <2>4. ASSUME NEW r \in Repos, UserUndeclares(r) PROVE Contained'
    BY <2>4 DEF UserUndeclares, files
  <2>5. CASE UNCHANGED vars
    BY <2>5 DEF vars
  <2> QED BY <1>11, <2>1, <2>2, <2>3, <2>4, <2>5 DEF Outside
<1> QED BY <1>1, <1>2, <1>3, <1>4, <1>5, <1>6, <1>7, <1>8, <1>9, <1>10, <1>11, NextCases DEF Step

LEMMA InitBasics == Init => Basics
<1> SUFFICES ASSUME Init PROVE Basics
  OBVIOUS
<1>1. cfg \in Configs
  BY LocksAssumption DEF Init, InitWith, Configs, LockAccepted
<1> QED BY <1>1, IdleFacts DEF Init, InitWith, Basics, TypeOK, Shapes, Raced, Contained, TreesOf

LEMMA BasicsStep == Basics /\ [Next]_vars => Basics'
BY TypeStep, ShapesStep, RacedStep, ContainedStep DEF Basics

\* Every variable of the sets keeps its type.
THEOREM TypeCorrect == Spec => []TypeOK
<1>1. Spec => []Basics
  BY InitBasics, BasicsStep, PTL DEF Spec
<1>2. Basics => TypeOK
  BY DEF Basics
<1> QED BY <1>1, <1>2, PTL

-----------------------------------------------------------------------------
(* Uncommitted edits.                                                      *)

\* What a remove has left to do with git, as long as no verb runs beside it: the
\* worktrees of declared repos that still exist are all ahead of it, and none
\* is left when it deletes the directory.
Clearing == \A p \in Procs :
  op[p].verb = "remove" /\ op[p].pc \in {"unlink", "clear"} /\ "raced" \notin causes[op[p].set] =>
    \A r \in op[p].cfg.repos :
      <<op[p].set, r>> \in trees => op[p].pc = "unlink" /\ r \in op[p].todo

LEMMA ClearingStep == Basics /\ Clearing /\ [Next]_vars => Clearing'
<1> SUFFICES ASSUME Basics, Clearing, [Next]_vars,
                    NEW p \in Procs, op'[p].verb = "remove", op'[p].pc \in {"unlink", "clear"},
                    "raced" \notin causes'[op'[p].set],
                    NEW r \in op'[p].cfg.repos, <<op'[p].set, r>> \in trees'
             PROVE  op'[p].pc = "unlink" /\ r \in op'[p].todo
  BY DEF Clearing
<1> USE DEF Basics
<1>1. ASSUME NEW q \in Procs, NEW s \in Sets, Start(q, s)
      PROVE  op'[p].pc = "unlink" /\ r \in op'[p].todo
  <2>1. PICK o : Fresh(s, o) /\ Begin(q, o)
    BY <1>1, StartFacts
  <2>2. UNCHANGED trees
    BY <2>1, BeginFacts
  <2>3. CASE p = q
    BY <2>1, <2>3, BeginFacts DEF Fresh
  <2>4. CASE p # q
    <3>1. op'[p] = op[p] /\ Active(p) /\ op[p].set \in Sets
      BY <2>1, <2>4, BeginFacts DEF Shapes
    <3>2. op[p].set = s => Busy(s)
      BY <3>1 DEF Busy, Inside
    <3>3. "raced" \notin causes[op[p].set]
      BY <2>1, <3>1, <3>2, BeginFacts
    <3> QED BY <2>2, <3>1, <3>3 DEF Clearing
  <2> QED BY <2>3, <2>4
<1>2. ASSUME Rest, op'[p] = op[p], <<op[p].set, r>> \in trees
      PROVE  op'[p].pc = "unlink" /\ r \in op'[p].todo
  BY <1>2, RestContinues DEF Continues, Clearing, Shapes
<1>3. ASSUME NEW q \in Procs, AddWorktree(q)
      PROVE  op'[p].pc = "unlink" /\ r \in op'[p].todo
  <2>1. op[q].pc = "worktree" /\ op[q].verb # "remove" /\ Rest
    BY <1>3 DEF AddWorktree, Shapes, Rest, Step
  <2>2. p # q
    BY <1>3, <2>1, WalkStep
  <2>3. op'[p] = op[p] /\ Active(p) /\ op[p].set \in Sets /\ Active(q) /\ op[q].set \in Sets
    BY <1>3, <2>2, WalkStep DEF Shapes
  <2>4. op[p].set # op[q].set
    <3>1. "raced" \notin causes[op[p].set]
      BY <2>1, <2>3, RestContinues DEF Continues
    <3> QED BY <2>2, <2>3, <3>1 DEF Raced, Overlap, Inside
  <2>5. trees' = trees \cup {<<op[q].set, NextRepo(op[q].todo)>>}
    BY <1>3 DEF AddWorktree
  <2>6. <<op[p].set, r>> \in trees
    BY <2>3, <2>4, <2>5
  <2> QED BY <1>2, <2>1, <2>3, <2>6
<1>4. ASSUME NEW q \in Procs, RemoveWorktree(q)
      PROVE  op'[p].pc = "unlink" /\ r \in op'[p].todo
  <2>1. trees' = trees \ {<<op[q].set, NextRepo(op[q].todo)>>} /\ op[q].pc = "unlink" /\ Rest
    BY <1>4 DEF RemoveWorktree, Rest, Step
  <2>2. CASE p # q
    BY <1>2, <1>4, <2>1, <2>2, WalkStep
  <2>3. CASE p = q
    <3>1. /\ op'[p].set = op[p].set /\ op'[p].cfg = op[p].cfg /\ op[p].verb = "remove"
          /\ op'[p].todo = op[p].todo \ {NextRepo(op[p].todo)}
          /\ op'[p].pc = IF op[p].todo # {NextRepo(op[p].todo)} THEN "unlink" ELSE "clear"
      BY <1>4, <2>1, <2>3, WalkStep
    <3>2. "raced" \notin causes[op[p].set]
      BY <2>1, <3>1, RestContinues DEF Continues, Shapes
    <3>3. r \in op[p].todo /\ r # NextRepo(op[p].todo)
      BY <2>1, <2>3, <3>1, <3>2 DEF Clearing
    <3> QED BY <3>1, <3>3
  <2> QED BY <2>2, <2>3
<1>5. ASSUME NEW q \in Procs, Ending(q)
      PROVE  op'[p].pc = "unlink" /\ r \in op'[p].todo
  <2>1. Rest
    BY <1>5 DEF Rest, Step, Ending
  <2>2. p # q
    BY <1>5, EndFacts, IdleFacts
  <2> QED BY <1>2, <1>5, <2>1, <2>2, EndFacts
<1>6. ASSUME NEW q \in Procs, MakeDir(q) \/ WriteConfig(q)
      PROVE  op'[p].pc = "unlink" /\ r \in op'[p].todo
  <2>1. Rest
    BY <1>6 DEF Rest, Step
  <2>2. p # q
    BY <1>6, GoesFacts
  <2> QED BY <1>2, <1>6, <2>1, <2>2, GoesFacts
<1>7. CASE Outside
  BY <1>2, <1>7, OutsideFacts DEF Rest
<1> QED BY <1>1, <1>3, <1>4, <1>5, <1>6, <1>7, NextCases DEF Step, Ending

\* Only the deletion of the directory loses edits, and not those git would have
\* refused to remove.
LEMMA LostStep == Basics /\ Clearing /\ EditsSurvive /\ [Next]_vars => EditsSurvive'
<1> SUFFICES ASSUME Basics, Clearing, EditsSurvive, [Next]_vars PROVE EditsSurvive'
  OBVIOUS
<1> USE DEF EditsSurvive
<1>1. ASSUME NEW p \in Procs, op[p].pc = "clear", NEW t, NEW r, <<t, r>> \in trees
      PROVE  HowLost(p, t, r) # "plain"
  <2>1. op[p].verb = "remove"
    BY <1>1 DEF Basics, Shapes
  <2>2. t = op[p].set /\ r \in op[p].cfg.repos => "raced" \in causes[t]
    BY <1>1, <2>1 DEF Clearing
  <2> QED BY <2>2 DEF HowLost
<1>2. \A w \in trees : w = <<w[1], w[2]>>
  BY DEF Basics, TypeOK
<1>3. ASSUME NEW p \in Procs, ClearDir(p) PROVE EditsSurvive'
  <2> DEFINE below == {w \in trees : w[1] \in Inside(op[p].set)} \cap dirty
  <2>1. /\ op[p].pc = "clear"
        /\ lost' \subseteq lost \cup {HowLost(p, w[1], w[2]) : w \in below}
    BY <1>3 DEF ClearDir
  <2>2. \A w \in below : HowLost(p, w[1], w[2]) # "plain"
    BY <1>1, <1>2, <2>1
  <2> QED BY <2>1, <2>2
<1>4. ASSUME NEW p \in Procs, TornClear(p) PROVE EditsSurvive'
  <2>1. /\ op[p].pc = "clear"
        /\ lost' \subseteq lost \cup {HowLost(p, w[1], w[2]) : w \in trees}
    BY <1>4 DEF TornClear
  <2>2. \A w \in trees : HowLost(p, w[1], w[2]) # "plain"
    BY <1>1, <1>2, <2>1
  <2> QED BY <2>1, <2>2
<1>5. ASSUME NEW p \in Procs, \/ MakeDir(p) \/ AddWorktree(p) \/ RemoveWorktree(p) \/ WriteConfig(p)
                              \/ WriteSetLock(p) \/ Fail(p) \/ TornCopy(p)
      PROVE  UNCHANGED lost
  BY <1>5 DEF MakeDir, AddWorktree, RemoveWorktree, WriteConfig, WriteSetLock, Fail, TornCopy
<1>6. ASSUME NEW p \in Procs, NEW s \in Sets, Start(p, s) PROVE UNCHANGED lost
  BY <1>6 DEF Start, AddStart, AddRepoStart, RemoveRepoStart, RemoveStart, Begin
<1>7. CASE Outside
  BY <1>7, OutsideFacts DEF Basics
<1> QED BY <1>3, <1>4, <1>5, <1>6, <1>7, NextCases DEF Step

\* An unforced remove never destroys edits in a declared worktree of its own set,
\* whatever fails and whatever the user and the verbs on other sets do.
THEOREM EditsAreKept == Spec => []EditsSurvive
<1>1. Init => Clearing /\ EditsSurvive
  BY IdleFacts DEF Init, InitWith, Clearing, EditsSurvive
<1>2. Spec => [](Basics /\ Clearing /\ EditsSurvive)
  BY <1>1, InitBasics, BasicsStep, ClearingStep, LostStep, PTL DEF Spec
<1> QED BY <1>2, PTL

-----------------------------------------------------------------------------
(* Sets that can be opened.                                                *)

\* The definitions in memory were accepted when they were read.
Readably == ConfigAccepted(cfg) /\ \A p \in Procs : ConfigAccepted(op[p].cfg)

\* The marker is written over a config that can be read, and stays so.
Good(s) == conf[s] \in Configs /\ ConfigAccepted(conf[s])
Opens == \A s \in Sets : causes[s] \cap {"raced", "torn"} = {} =>
  /\ slock[s] # Absent => Good(s) /\ slock[s] # Torn
  /\ \A p \in Procs : op[p].set = s /\ op[p].pc = "lock" /\ s \in dirs => Good(s)

Locks == SetLocksOpen /\ SlockIsFunction

LEMMA ReadablyStep == Basics /\ Readably /\ [Next]_vars => Readably'
<1> SUFFICES ASSUME Basics, Readably, [Next]_vars PROVE Readably'
  OBVIOUS
<1> USE DEF Readably, Basics
<1>1. ASSUME NEW p \in Procs, NEW s \in Sets, Start(p, s) PROVE Readably'
  BY <1>1, StartFacts, BeginFacts DEF Fresh
<1>2. ASSUME NEW p \in Procs, AddWorktree(p) \/ RemoveWorktree(p) PROVE Readably'
  <2>1. UNCHANGED cfg
    BY <1>2 DEF AddWorktree, RemoveWorktree
  <2> QED BY <1>2, <2>1, WalkStep
<1>3. ASSUME NEW p \in Procs, Ending(p) PROVE Readably'
  BY <1>3, EndFacts, IdleFacts
<1>4. ASSUME NEW p \in Procs, MakeDir(p) \/ WriteConfig(p) PROVE Readably'
  BY <1>4, GoesFacts
<1>5. CASE Outside
  <2>1. ConfigAccepted(cfg')
    <3>1. ASSUME NEW r \in Repos, UserUndeclares(r) PROVE ConfigAccepted(cfg')
      BY <3>1, FilterKeepsConfig DEF UserUndeclares
    <3>2. ASSUME \/ Prune \/ (\E w \in trees : UserEdits(w)) \/ (\E s \in Sets : UserDeletes(s))
                 \/ UNCHANGED vars
          PROVE  UNCHANGED cfg
      BY <3>2 DEF Prune, UserEdits, UserDeletes, vars
    <3> QED BY <1>5, <3>1, <3>2 DEF Outside
  <2> QED BY <1>5, <2>1, OutsideFacts
<1> QED BY <1>1, <1>2, <1>3, <1>4, <1>5, NextCases DEF Step, Ending

\* A step that writes nothing into set s keeps it as it was.
LEMMA UntouchedOpens ==
  ASSUME Opens, NEW s \in Sets, conf'[s] = conf[s], slock'[s] = slock[s], causes[s] \subseteq causes'[s],
         causes'[s] \cap {"raced", "torn"} = {},
         \A p \in Procs : op'[p].set = s /\ op'[p].pc = "lock" /\ s \in dirs' =>
                            op[p].set = s /\ op[p].pc = "lock" /\ s \in dirs
  PROVE  /\ slock'[s] # Absent => Good(s)' /\ slock'[s] # Torn
         /\ \A p \in Procs : op'[p].set = s /\ op'[p].pc = "lock" /\ s \in dirs' => Good(s)'
BY DEF Opens, Good

\* A set that comes into being beside a verb that writes its files has been blamed.
LEMMA MakesDirs ==
  ASSUME Basics, NEW p \in Procs, MakeDir(p) \/ AddWorktree(p),
         NEW q \in Procs, op[q].pc = "lock", op[q].set \in dirs'
  PROVE  op[q].set \in dirs \/ "raced" \in causes[op[q].set]
<1> USE DEF Basics
<1>1. dirs' = dirs \cup ({op[p].set, InDir[op[p].set]} \ {NoSet}) /\ op[p].pc \in {"mkdir", "worktree"}
  BY DEF MakeDir, AddWorktree
<1>2. op[p].set \in Sets /\ op[q].set \in Sets
  BY <1>1 DEF Shapes
<1>3. op[q].set \notin dirs => Overlap(op[p].set, op[q].set)
  BY <1>1, <1>2 DEF Overlap, Inside
<1> QED BY <1>1, <1>3 DEF Raced

\* What is written into a set is neither missing nor cut off.
LEMMA WrittenFiles ==
  ASSUME TypeOK, Readably, NEW p \in Procs
  PROVE  LET c == IF op[p].full THEN cfg ELSE FilterConfig(op[p].cfg, op[p].members)
             l == IF op[p].full THEN CanonLock ELSE FilterLock(CanonLock, op[p].members)
         IN c \in Configs /\ ConfigAccepted(c) /\ l \notin {Absent, Torn}
<1>1. op[p].cfg \in Configs /\ op[p].members \in SUBSET Repos /\ cfg \in Configs
  BY DEF TypeOK, Ops
<1>2. FilterConfig(op[p].cfg, op[p].members) \in Configs
  BY <1>1, FilterTypes
<1>3. ConfigAccepted(FilterConfig(op[p].cfg, op[p].members)) /\ ConfigAccepted(cfg)
  BY FilterKeepsConfig DEF Readably
<1>4. FilterLock(CanonLock, op[p].members) \notin {Absent, Torn} /\ CanonLock \notin {Absent, Torn}
  BY <1>1, FilesAssumption
<1> QED BY <1>1, <1>2, <1>3, <1>4

LEMMA OpensStep == Basics /\ Readably /\ Locks /\ Opens /\ [Next]_vars => Opens'
<1> SUFFICES ASSUME Basics, Readably, Locks, Opens, [Next]_vars,
                    NEW s \in Sets, causes'[s] \cap {"raced", "torn"} = {}
             PROVE  /\ slock'[s] # Absent => Good(s)' /\ slock'[s] # Torn
                    /\ \A p \in Procs : op'[p].set = s /\ op'[p].pc = "lock" /\ s \in dirs' => Good(s)'
  BY DEF Opens, Good
<1> DEFINE Goal == /\ slock'[s] # Absent => Good(s)' /\ slock'[s] # Torn
                   /\ \A p \in Procs : op'[p].set = s /\ op'[p].pc = "lock" /\ s \in dirs' => Good(s)'
<1> USE DEF Basics
<1>0. Rest => causes[s] \subseteq causes'[s]
  BY RestContinues DEF Continues
<1> HIDE DEF Goal
<1>1. ASSUME NEW p \in Procs, NEW t \in Sets, Start(p, t) PROVE Goal
  <2>1. PICK o : Fresh(t, o) /\ Begin(p, o)
    BY <1>1, StartFacts
  <2>2. o.pc # "lock" /\ (o.verb = "add" => t \notin dirs)
    BY <2>1 DEF Fresh
  <2>3. UNCHANGED <<dirs, conf, slock>> /\ op'[p] = o /\ \A q \in Procs \ {p} : op'[q] = op[q]
    BY <2>1, BeginFacts
  <2>4. causes[s] \subseteq causes'[s] \/ s \notin dirs
    BY <2>1, <2>2, BeginFacts
  <2>5. CASE s \notin dirs
    BY <2>3, <2>5 DEF Goal, Contained
  <2>6. CASE causes[s] \subseteq causes'[s]
    BY <2>2, <2>3, <2>6, UntouchedOpens DEF Goal
  <2> QED BY <2>4, <2>5, <2>6
<1>2. ASSUME NEW p \in Procs, MakeDir(p) PROVE Goal
  <2>1. \A q \in Procs : op'[q].pc = "lock" => op'[q] = op[q]
    BY <1>2, GoesFacts DEF MakeDir
  <2>2. UNCHANGED <<conf, slock, causes>>
    BY <1>2 DEF MakeDir, files
  <2>3. \A q \in Procs : op'[q].set = s /\ op'[q].pc = "lock" /\ s \in dirs' =>
                           op[q].set = s /\ op[q].pc = "lock" /\ s \in dirs
    BY <1>2, <2>1, <2>2, MakesDirs
  <2> QED BY <2>2, <2>3, UntouchedOpens DEF Goal
<1>3. ASSUME NEW p \in Procs, AddWorktree(p) PROVE Goal
  <2>0. op'[p].pc # "lock"
    <3>1. op[p].pc = "worktree"
      BY <1>3 DEF AddWorktree
    <3> QED BY <1>3, <3>1, WalkStep
  <2>1. \A q \in Procs : op'[q].pc = "lock" => op'[q] = op[q]
    BY <1>3, <2>0, WalkStep
  <2>2. UNCHANGED <<conf, slock, causes>>
    BY <1>3 DEF AddWorktree, files
  <2>3. \A q \in Procs : op'[q].set = s /\ op'[q].pc = "lock" /\ s \in dirs' =>
                           op[q].set = s /\ op[q].pc = "lock" /\ s \in dirs
    BY <1>3, <2>1, <2>2, MakesDirs
  <2> QED BY <2>2, <2>3, UntouchedOpens DEF Goal
<1>4. ASSUME NEW p \in Procs, RemoveWorktree(p) PROVE Goal
  <2>0. op'[p].pc # "lock"
    <3>1. op[p].pc = "unlink"
      BY <1>4 DEF RemoveWorktree
    <3> QED BY <1>4, <3>1, WalkStep
  <2>1. \A q \in Procs : op'[q].pc = "lock" => op'[q] = op[q]
    BY <1>4, <2>0, WalkStep
  <2>2. UNCHANGED <<conf, slock, causes, dirs>>
    BY <1>4 DEF RemoveWorktree, files
  <2> QED BY <2>1, <2>2, UntouchedOpens DEF Goal
<1>5. ASSUME NEW p \in Procs, WriteConfig(p) PROVE Goal
  <2> DEFINE c == IF op[p].full THEN cfg ELSE FilterConfig(op[p].cfg, op[p].members)
  <2>1. conf' = [conf EXCEPT ![op[p].set] = c] /\ UNCHANGED <<slock, causes, dirs>>
    BY <1>5 DEF WriteConfig
  <2>2. c \in Configs /\ ConfigAccepted(c)
    BY WrittenFiles
  <2> HIDE DEF c
  <2>3. \A q \in Procs \ {p} : op'[q] = op[q]
    BY <1>5, GoesFacts
  <2>4. op'[p].set = op[p].set
    BY <1>5, GoesFacts
  <2>5. CASE s = op[p].set
    <3>1. Good(s)'
      BY <2>1, <2>2, <2>5 DEF TypeOK, Good
    <3>2. slock[s] # Torn
      BY <2>1, FilesAssumption DEF Opens
    <3> QED BY <2>1, <3>1, <3>2 DEF Goal
  <2>6. CASE s # op[p].set
    BY <2>1, <2>3, <2>4, <2>6, UntouchedOpens DEF Goal, TypeOK
  <2> QED BY <2>5, <2>6
<1>6. ASSUME NEW p \in Procs, WriteSetLock(p) PROVE Goal
  <2> DEFINE l == IF op[p].full THEN CanonLock ELSE FilterLock(CanonLock, op[p].members)
  <2>1. /\ slock' = [slock EXCEPT ![op[p].set] = l] /\ UNCHANGED <<conf, causes, dirs>>
        /\ op[p].pc = "lock" /\ op[p].set \in dirs
    BY <1>6 DEF WriteSetLock, files
  <2>2. l # Torn
    BY WrittenFiles
  <2> HIDE DEF l
  <2>3. op'[p].pc # "lock" /\ \A q \in Procs \ {p} : op'[q] = op[q]
    BY <1>6, EndFacts, IdleFacts DEF Ending
  <2>4. CASE s = op[p].set
    <3>1. Good(s)'
      BY <2>1, <2>4 DEF Opens, Good
    <3>2. slock'[s] = l
      BY <2>1, <2>4 DEF Locks, SlockIsFunction
    <3> QED BY <2>2, <3>1, <3>2 DEF Goal
  <2>5. CASE s # op[p].set
    <3>1. slock'[s] = slock[s]
      BY <2>1, <2>5
    <3> QED BY <2>1, <2>3, <3>1, UntouchedOpens DEF Goal
  <2> QED BY <2>4, <2>5
<1>7. ASSUME NEW p \in Procs, ClearDir(p) PROVE Goal
  <2>1. /\ UNCHANGED causes
        /\ conf'[s] = IF s \in Inside(op[p].set) THEN Absent ELSE conf[s]
        /\ slock'[s] = IF s \in Inside(op[p].set) THEN Absent ELSE slock[s]
        /\ dirs' = dirs \ Inside(op[p].set)
    BY <1>7 DEF ClearDir
  <2>2. \A q \in Procs : op'[q].pc = "lock" => op'[q] = op[q]
    BY <1>7, EndFacts, IdleFacts DEF Ending
  <2>3. CASE s \in Inside(op[p].set)
    BY <2>1, <2>3 DEF Goal
  <2>4. CASE s \notin Inside(op[p].set)
    BY <2>1, <2>2, <2>4, UntouchedOpens DEF Goal
  <2> QED BY <2>3, <2>4
<1>8. ASSUME NEW p \in Procs, Fail(p) PROVE Goal
  <2>1. UNCHANGED <<conf, slock, dirs>>
    BY <1>8 DEF Fail, files
  <2>2. causes[s] \subseteq causes'[s] /\ \A q \in Procs : op'[q].pc = "lock" => op'[q] = op[q]
    BY <1>8, EndFacts, IdleFacts DEF Ending
  <2> QED BY <2>1, <2>2, UntouchedOpens DEF Goal
<1>9. ASSUME NEW p \in Procs, TornCopy(p) \/ TornClear(p) PROVE Goal
  <2>1. causes[s] \subseteq causes'[s] /\ \A q \in Procs : op'[q].pc = "lock" => op'[q] = op[q]
    BY <1>9, EndFacts, IdleFacts DEF Ending
  <2>2. s # op[p].set /\ UNCHANGED dirs
    <3>1. \E names : causes' = Blame(names, "torn") /\ op[p].set \in names /\ UNCHANGED dirs
      <4>1. op[p].set \in Inside(op[p].set)
        BY <1>9, EndFacts DEF Inside, Ending
      <4>2. CASE TornCopy(p)
        <5>1. causes' = Blame({op[p].set}, "torn") /\ UNCHANGED dirs
          BY <4>2 DEF TornCopy
        <5> QED BY <5>1
      <4>3. CASE TornClear(p)
        BY <4>1, <4>3 DEF TornClear
      <4> QED BY <1>9, <4>2, <4>3
    <3> QED BY <3>1 DEF Blame
  <2>3. conf'[s] = conf[s]
    BY <1>9, <2>2 DEF TornCopy, TornClear, TypeOK
  <2>4. slock'[s] = slock[s]
    <3>1. slock' = [slock EXCEPT ![op[p].set] = Torn] \/ slock' = slock
      BY <1>9 DEF TornCopy, TornClear
    <3>2. CASE slock' = [slock EXCEPT ![op[p].set] = Torn]
      BY <2>2, <3>2
    <3> QED BY <3>1, <3>2
  <2> QED BY <2>1, <2>2, <2>3, <2>4, UntouchedOpens DEF Goal
<1>10. ASSUME NEW t \in Sets, UserDeletes(t) PROVE Goal
  <2>1. /\ UNCHANGED op /\ dirs' = dirs \ Inside(t)
        /\ conf'[s] = IF s \in Inside(t) THEN Absent ELSE conf[s]
        /\ slock'[s] = IF s \in Inside(t) THEN Absent ELSE slock[s]
    BY <1>10 DEF UserDeletes
  <2>2. causes[s] \subseteq causes'[s]
    BY <1>0, <1>10 DEF Rest, Outside
  <2>3. CASE s \in Inside(t)
    BY <2>1, <2>3 DEF Goal
  <2>4. CASE s \notin Inside(t)
    BY <2>1, <2>2, <2>4, UntouchedOpens DEF Goal
  <2> QED BY <2>3, <2>4
<1>11. ASSUME \/ Prune \/ (\E w \in trees : UserEdits(w)) \/ (\E r \in Repos : UserUndeclares(r))
              \/ UNCHANGED vars
       PROVE  Goal
  <2>1. UNCHANGED <<conf, slock, dirs, op>>
    BY <1>11 DEF Prune, UserEdits, UserUndeclares, vars, files
  <2>2. causes[s] \subseteq causes'[s]
    BY <1>0, <1>11 DEF Rest, Outside
  <2> QED BY <2>1, <2>2, UntouchedOpens DEF Goal
<1>12. Goal
  BY <1>1, <1>2, <1>3, <1>4, <1>5, <1>6, <1>7, <1>8, <1>9, <1>10, <1>11, NextCases DEF Step, Outside
<1> QED BY <1>12 DEF Goal

\* Every set that pn lists can be opened, whatever failed while it was built or
\* changed, unless a copy was cut off or two verbs ran on it at once.
THEOREM ListedSetsOpen == Spec => []ListedSetOpens
<1> DEFINE Inv == Basics /\ Readably /\ Locks /\ Opens
<1>1. Init => Readably /\ Opens
  <2> SUFFICES ASSUME Init PROVE Readably /\ Opens
    OBVIOUS
  <2>1. ConfigAccepted(cfg)
    BY LocksAssumption DEF Init, InitWith, ConfigAccepted, LockAccepted
  <2> QED BY <2>1, IdleFacts DEF Init, InitWith, Readably, Opens
<1>2. Inv /\ [Next]_vars => Inv'
  BY BasicsStep, ReadablyStep, OpensStep, StepKeepsLocks DEF Locks
<1>3. Inv => ListedSetOpens
  <2> SUFFICES ASSUME Inv, NEW s \in dirs, slock[s] # Absent, causes[s] \cap {"raced", "torn"} = {}
               PROVE  Readable(s) /\ LockAccepted(slock[s])
    BY DEF ListedSetOpens, Listed
  <2>1. s \in Sets /\ Good(s) /\ slock[s] # Torn
    BY DEF Basics, TypeOK, Opens
  <2> QED BY <2>1, FilesAssumption DEF Locks, SetLocksOpen, Good, Readable
<1>4. Init => Inv
  BY <1>1, InitBasics, InitLocks DEF Locks
<1>5. Spec => []Inv
  BY <1>2, <1>4, PTL DEF Spec
<1> QED BY <1>3, <1>5, PTL

-----------------------------------------------------------------------------
(* Sets that nothing has disturbed.                                        *)

Whole(s) ==
  /\ conf[s] \in Configs /\ conf[s].repos = TreesOf(s)
  /\ slock[s] # Absent /\ TreesOf(s) \subseteq slock[s].repos

\* How far verb p on the undisturbed set s is: which worktrees there are, and
\* what the config says of them when the lock is all that is missing.
Underway(p, s) ==
  /\ op[p].cfg = cfg
  /\ op[p].verb # "remove" => op[p].members \subseteq cfg.repos
  /\ op[p].pc \in {"mkdir", "worktree"} =>
       TreesOf(s) = op[p].members \ op[p].todo /\ op[p].todo \subseteq op[p].members
  /\ op[p].pc = "unlink" /\ op[p].verb = "remove-repo" =>
       TreesOf(s) = op[p].members \cup op[p].todo /\ op[p].members \cap op[p].todo = {}
  /\ op[p].pc \in {"config", "lock"} => TreesOf(s) = op[p].members
  /\ op[p].pc = "lock" => conf[s] \in Configs /\ conf[s].repos = TreesOf(s)

Calm(s) ==
  /\ TreesOf(s) \subseteq cfg.repos
  /\ Settled(s) => Whole(s) \/ (conf[s] = Absent /\ TreesOf(s) = {})
  /\ \A p \in Procs : op[p].set = s => Underway(p, s)

Undisturbed == \A s \in Sets : causes[s] = {} => Calm(s)

\* A step of a verb on another set, that writes nothing into s, keeps s calm.
LEMMA UntouchedCalm ==
  ASSUME NEW s \in Sets, Calm(s), conf'[s] = conf[s], slock'[s] = slock[s],
         TreesOf(s)' = TreesOf(s), UNCHANGED cfg,
         \A q \in Procs : op'[q] = op[q] \/ ((op[q].pc = "idle" \/ op[q].set # s) /\ op'[q].set # s)
  PROVE  Calm(s)'
<1>1. Settled(s)' => Settled(s)
  BY DEF Settled
<1>2. Whole(s) => Whole(s)'
  BY DEF Whole
<1>3. \A q \in Procs : op'[q].set = s => op'[q] = op[q]
  OBVIOUS
<1>4. ASSUME NEW q \in Procs, op'[q].set = s PROVE Underway(q, s)'
  <2>1. Underway(q, s)
    BY <1>3, <1>4 DEF Calm
  <2> QED BY <1>3, <1>4, <2>1 DEF Underway
<1> QED BY <1>1, <1>2, <1>4 DEF Calm

\* On a set that no other verb disturbed there is one verb.
LEMMA OnlyOne ==
  ASSUME Basics, NEW s \in Sets, "raced" \notin causes[s], NEW p \in Procs, Active(p), Overlap(s, op[p].set),
         NEW q \in Procs \ {p}
  PROVE  op[q].set # s
<1>1. ASSUME op[q].set = s PROVE FALSE
  <2>1. Active(q)
    BY <1>1, IdleFacts, NestingAssumption DEF Basics, Shapes
  <2> QED BY <1>1, <2>1 DEF Basics, Raced
<1> QED BY <1>1

\* The step of the only verb on s: that verb is active before, and either s is
\* calm with it after the step, or the verb has ended.
LEMMA OwnStep ==
  ASSUME NEW s \in Sets, NEW p \in Procs, \A q \in Procs \ {p} : op'[q].set # s,
         op'[p].set = s => op'[p].pc # "idle" /\ Underway(p, s)',
         op'[p].set # s => Whole(s)' \/ (conf'[s] = Absent /\ TreesOf(s)' = {}),
         TreesOf(s)' \subseteq cfg'.repos
  PROVE  Calm(s)'
<1>1. \A q \in Procs : op'[q].set = s => q = p
  OBVIOUS
<1>2. Settled(s)' => op'[p].set # s
  BY DEF Settled
<1>3. \A q \in Procs : op'[q].set = s => Underway(q, s)'
  BY <1>1
<1> QED BY <1>2, <1>3 DEF Calm

LEMMA UndisturbedStart ==
  ASSUME Basics, Undisturbed, NEW p \in Procs, NEW t \in Sets, Start(p, t),
         NEW s \in Sets, causes'[s] = {}
  PROVE  Calm(s)'
<1> USE DEF Basics
<1>1. PICK o : Fresh(t, o) /\ Begin(p, o)
  BY StartFacts
<1>2. /\ op[p].pc = "idle" /\ op'[p] = o /\ \A q \in Procs \ {p} : op'[q] = op[q]
      /\ UNCHANGED <<cfg, dirs, trees, conf, slock>>
  BY <1>1, BeginFacts
<1>3. o.set = t /\ o.cfg = cfg /\ o.pc \in {"mkdir", "worktree", "unlink"}
  BY <1>1 DEF Fresh
<1>4. TreesOf(s)' = TreesOf(s)
  BY <1>2 DEF TreesOf
<1>5. CASE s # t
  <2>1. causes[s] = {}
    BY <1>1, <1>5, BeginFacts
  <2>2. Calm(s)
    BY <2>1 DEF Undisturbed
  <2> QED BY <1>2, <1>3, <1>4, <1>5, <2>2, UntouchedCalm
<1>6. CASE s = t
  <2>1. ~Busy(s)
    <3>1. Overlap(s, s)
      BY DEF Overlap, Inside
    <3>2. Busy(t) => "raced" \in causes'[s]
      BY <1>1, <1>6, <3>1, BeginFacts
    <3> QED BY <1>6, <3>2
  <2>2. \A q \in Procs : op[q].set # s
    <3>1. \A q \in Procs : op[q].set = s => Active(q)
      BY IdleFacts, NestingAssumption DEF Shapes
    <3>2. s \in Inside(s)
      BY DEF Inside
    <3> QED BY <2>1, <3>1, <3>2 DEF Busy
  <2>3. Settled(s)
    BY <2>2 DEF Settled
  <2>4. causes[s] = {} \/ (o.verb = "add" /\ s \notin dirs)
    <3>1. causes'[s] = causes[s] \/ o.verb = "add"
      BY <1>1, <1>6, <2>1, BeginFacts
    <3>2. o.verb = "add" => s \notin dirs
      BY <1>1, <1>6 DEF Fresh
    <3> QED BY <3>1, <3>2
  <2>5. TreesOf(s) \subseteq cfg.repos
    BY <2>4 DEF Undisturbed, Calm, Contained
  <2>6. Readable(s) /\ o.verb # "add" => conf[s].repos = TreesOf(s)
    BY <2>3, <2>4 DEF Undisturbed, Calm, Whole, Readable
  <2>7. Underway(p, s)'
    <3>1. CASE o.verb = "add"
      <4>1. TreesOf(s) = {}
        BY <2>4, <2>5, <3>1, <1>1, <1>6 DEF Contained, Fresh
      <4>2. o.pc = "mkdir" /\ o.members \subseteq cfg.repos /\ o.todo = o.members
        BY <1>1, <3>1 DEF Fresh
      <4> QED BY <1>2, <1>3, <1>4, <4>1, <4>2 DEF Underway
    <3>2. CASE o.verb = "add-repo"
      <4>1. PICK r \in cfg.repos \ conf[s].repos : o.todo = {r} /\ o.members = conf[s].repos \cup {r}
        BY <1>1, <1>6, <3>2 DEF Fresh
      <4>2. o.pc = "worktree" /\ Readable(s)
        BY <1>1, <1>6, <3>2 DEF Fresh
      <4> QED BY <1>2, <1>3, <1>4, <2>5, <2>6, <3>2, <4>1, <4>2 DEF Underway
    <3>3. CASE o.verb = "remove-repo"
      <4>1. PICK r \in conf[s].repos : o.todo = {r} /\ o.members = conf[s].repos \ {r}
        BY <1>1, <1>6, <3>3 DEF Fresh
      <4>2. o.pc = "unlink" /\ Readable(s)
        BY <1>1, <1>6, <3>3 DEF Fresh
      <4> QED BY <1>2, <1>3, <1>4, <2>5, <2>6, <3>3, <4>1, <4>2 DEF Underway
    <3>4. CASE o.verb = "remove"
      <4>1. o.pc = "unlink"
        BY <1>1, <3>4 DEF Fresh
      <4> QED BY <1>2, <1>3, <3>4, <4>1 DEF Underway
    <3> QED BY <1>1, <3>1, <3>2, <3>3, <3>4 DEF Fresh
  <2> QED BY <1>2, <1>3, <1>4, <1>6, <2>2, <2>5, <2>7, OwnStep
<1> QED BY <1>5, <1>6

LEMMA UndisturbedWalk ==
  ASSUME Basics, Undisturbed, NEW p \in Procs, AddWorktree(p) \/ RemoveWorktree(p),
         NEW s \in Sets, causes[s] = {}
  PROVE  Calm(s)'
<1> USE DEF Basics
<1> DEFINE r == NextRepo(op[p].todo)
<1>1. Calm(s)
  BY DEF Undisturbed
<1>2. /\ r \in op[p].todo /\ op[p].todo \subseteq Repos /\ op[p].set \in Sets /\ Active(p)
      /\ \A q \in Procs \ {p} : op'[q] = op[q]
      /\ op'[p].todo = op[p].todo \ {r}
      /\ op'[p].verb = op[p].verb /\ op'[p].set = op[p].set
      /\ op'[p].members = op[p].members /\ op'[p].cfg = op[p].cfg
      /\ op'[p].pc = IF op[p].todo # {r} THEN op[p].pc
                     ELSE IF op[p].verb = "remove" THEN "clear" ELSE "config"
  BY WalkStep
<1>3. UNCHANGED <<cfg, conf, slock>>
  BY DEF AddWorktree, RemoveWorktree, files
<1>4. \/ /\ trees' = trees \cup {<<op[p].set, r>>} /\ op[p].pc = "worktree"
         /\ op[p].verb \in {"add", "add-repo"}
      \/ /\ trees' = trees \ {<<op[p].set, r>>} /\ op[p].pc = "unlink"
         /\ op[p].verb \in {"remove", "remove-repo"}
  BY DEF AddWorktree, RemoveWorktree, Shapes
<1>5. op[p].verb = "remove-repo" => op[p].todo = {r}
  BY <1>2 DEF Shapes
<1> HIDE DEF r
<1>6. CASE s # op[p].set
  <2>1. TreesOf(s)' = TreesOf(s)
    BY <1>4, <1>6 DEF TreesOf
  <2>2. \A q \in Procs : op'[q] = op[q] \/ (op[q].set # s /\ op'[q].set # s)
    BY <1>2, <1>6
  <2> QED BY <1>1, <1>3, <2>1, <2>2, UntouchedCalm
<1>7. CASE s = op[p].set
  <2>1. \A q \in Procs \ {p} : op'[q].set # s
    <3>1. Overlap(s, op[p].set)
      BY <1>7 DEF Overlap, Inside
    <3> QED BY <1>2, <3>1, OnlyOne
  <2>2. Underway(p, s)
    BY <1>1, <1>7 DEF Calm
  <2>3. CASE op[p].pc = "worktree"
    <3>1. TreesOf(s)' = TreesOf(s) \cup {r}
      BY <1>2, <1>4, <1>7, <2>3 DEF TreesOf
    <3>2. op[p].verb \in {"add", "add-repo"}
      BY <2>3 DEF Shapes, Active
    <3>3. /\ TreesOf(s) = op[p].members \ op[p].todo /\ op[p].todo \subseteq op[p].members
          /\ op[p].verb # "remove" /\ op[p].members \subseteq cfg.repos
      BY <2>2, <2>3, <3>2 DEF Underway
    <3>4. Underway(p, s)' /\ op'[p].pc # "idle"
      <4>1. op'[p].pc = IF op[p].todo # {r} THEN "worktree" ELSE "config"
        BY <1>2, <2>3, <3>3
      <4> QED BY <1>2, <1>3, <2>2, <3>1, <3>3, <4>1 DEF Underway
    <3>5. r \in cfg.repos
      BY <1>2, <3>3
    <3> QED BY <1>1, <1>2, <1>3, <1>7, <2>1, <3>1, <3>4, <3>5, OwnStep DEF Calm
  <2>4. CASE op[p].pc = "unlink"
    <3>1. TreesOf(s)' = TreesOf(s) \ {r}
      BY <1>4, <1>7, <2>4 DEF TreesOf
    <3>2. CASE op[p].verb = "remove"
      <4>1. op'[p].pc \in {"unlink", "clear"}
        BY <1>2, <2>4, <3>2
      <4>2. Underway(p, s)' /\ op'[p].pc # "idle"
        BY <1>2, <1>3, <2>2, <3>2, <4>1 DEF Underway
      <4> QED BY <1>1, <1>2, <1>3, <1>7, <2>1, <3>1, <4>2, OwnStep DEF Calm
    <3>3. CASE op[p].verb = "remove-repo"
      <4>1. op'[p].pc = "config"
        BY <1>2, <1>5, <3>3
      <4>2. TreesOf(s) = op[p].members \cup {r} /\ r \notin op[p].members
        BY <1>5, <2>2, <2>4, <3>3 DEF Underway
      <4>3. Underway(p, s)' /\ op'[p].pc # "idle"
        BY <1>2, <1>3, <2>2, <3>1, <4>1, <4>2 DEF Underway
      <4> QED BY <1>1, <1>2, <1>3, <1>7, <2>1, <3>1, <4>3, OwnStep DEF Calm
    <3> QED BY <1>4, <2>4, <3>2, <3>3
  <2> QED BY <1>4, <2>3, <2>4
<1> QED BY <1>6, <1>7

LEMMA UndisturbedWrite ==
  ASSUME Basics, Undisturbed, NEW p \in Procs, MakeDir(p) \/ WriteConfig(p) \/ WriteSetLock(p),
         NEW s \in Sets, causes[s] = {}, SlockIsFunction
  PROVE  Calm(s)'
<1> USE DEF Basics
<1>1. Calm(s)
  BY DEF Undisturbed
<1>2. UNCHANGED <<cfg, trees>> /\ Active(p) /\ op[p].pc \in {"mkdir", "config", "lock"}
  BY DEF MakeDir, WriteConfig, WriteSetLock, git
<1>3. TreesOf(s)' = TreesOf(s)
  BY <1>2 DEF TreesOf
<1>4. /\ \A q \in Procs \ {p} : op'[q] = op[q]
      /\ op'[p].set \in {op[p].set, NoSet} /\ op[p].set \in Sets
  BY IdleFacts, GoesFacts, EndFacts DEF Ending
<1>5. CASE s # op[p].set
  <2>1. conf'[s] = conf[s]
    BY <1>5 DEF MakeDir, WriteConfig, WriteSetLock, files, TypeOK
  <2>2. slock'[s] = slock[s]
    <3>1. slock' = slock \/ \E l : slock' = [slock EXCEPT ![op[p].set] = l]
      BY DEF MakeDir, WriteConfig, WriteSetLock, files
    <3>2. ASSUME NEW l, slock' = [slock EXCEPT ![op[p].set] = l] PROVE slock'[s] = slock[s]
      BY <1>5, <3>2
    <3> QED BY <3>1, <3>2
  <2>3. \A q \in Procs : op'[q] = op[q] \/ (op[q].set # s /\ op'[q].set # s)
    BY <1>4, <1>5, NestingAssumption
  <2> QED BY <1>1, <1>2, <1>3, <2>1, <2>2, <2>3, UntouchedCalm
<1>6. CASE s = op[p].set
  <2>1. \A q \in Procs \ {p} : op'[q].set # s
    <3>1. Overlap(s, op[p].set)
      BY <1>6 DEF Overlap, Inside
    <3> QED BY <1>2, <1>4, <3>1, OnlyOne
  <2>2. Underway(p, s) /\ TreesOf(s) \subseteq cfg.repos
    BY <1>1, <1>6 DEF Calm
  <2>3. CASE MakeDir(p)
    <3>1. op[p].pc = "mkdir"
      BY <2>3 DEF MakeDir
    <3>2. op'[p].pc = "worktree" /\ op'[p].set = s
      BY <1>6, <2>3, <3>1, GoesFacts
    <3>3. Underway(p, s)'
      BY <1>2, <1>3, <2>2, <2>3, <3>1, <3>2, GoesFacts DEF Underway
    <3> QED BY <1>2, <1>3, <2>1, <2>2, <3>2, <3>3, OwnStep
  <2>4. CASE WriteConfig(p)
    <3> DEFINE c == IF op[p].full THEN cfg ELSE FilterConfig(op[p].cfg, op[p].members)
    <3>1. op[p].pc = "config" /\ conf' = [conf EXCEPT ![s] = c]
      BY <1>6, <2>4 DEF WriteConfig
    <3>2. op'[p].pc = "lock" /\ op'[p].set = s
      BY <1>6, <2>4, <3>1, GoesFacts
    <3>3. /\ op[p].cfg = cfg /\ op[p].members \subseteq cfg.repos /\ TreesOf(s) = op[p].members
          /\ op[p].full => op[p].members = cfg.repos
      <4>1. op[p].verb # "remove" /\ (op[p].full => op[p].members = op[p].cfg.repos)
        BY <1>2, <3>1 DEF Shapes
      <4> QED BY <2>2, <3>1, <4>1 DEF Underway
    <3>4. c \in Configs /\ c.repos = TreesOf(s)
      <4>1. op[p].cfg \in Configs /\ op[p].members \in SUBSET Repos
        BY DEF TypeOK, Ops
      <4>2. /\ FilterConfig(cfg, op[p].members) \in Configs
            /\ FilterConfig(cfg, op[p].members).repos = cfg.repos \cap op[p].members
        BY <3>3, <4>1, FilterTypes
      <4> QED BY <3>3, <4>1, <4>2
    <3> HIDE DEF c
    <3>5. conf'[s] \in Configs /\ conf'[s].repos = TreesOf(s)'
      BY <1>3, <3>1, <3>4 DEF TypeOK
    <3>6. Underway(p, s)'
      BY <1>2, <1>3, <2>4, <3>2, <3>3, <3>5, GoesFacts DEF Underway
    <3> QED BY <1>2, <1>3, <2>1, <2>2, <3>2, <3>6, OwnStep
  <2>5. CASE WriteSetLock(p)
    <3> DEFINE l == IF op[p].full THEN CanonLock ELSE FilterLock(CanonLock, op[p].members)
    <3>1. op[p].pc = "lock" /\ slock' = [slock EXCEPT ![s] = l] /\ UNCHANGED conf
      BY <1>6, <2>5 DEF WriteSetLock
    <3>2. op'[p].set # s
      BY <1>6, <2>5, EndFacts, IdleFacts, NestingAssumption DEF Ending
    <3>3. TreesOf(s) = op[p].members /\ conf[s] \in Configs /\ conf[s].repos = TreesOf(s)
      BY <2>2, <3>1 DEF Underway
    <3>4. l # Absent /\ TreesOf(s) \subseteq l.repos
      <4>1. op[p].members \in SUBSET Repos
        BY DEF TypeOK, Ops
      <4>2. FilterLock(CanonLock, op[p].members).repos = Repos \cap op[p].members
        BY LocksAssumption DEF FilterLock
      <4> QED BY <3>3, <4>1, <4>2, LocksAssumption, FilesAssumption
    <3> HIDE DEF l
    <3>5. slock'[s] = l
      BY <3>1 DEF SlockIsFunction
    <3>6. Whole(s)'
      BY <1>3, <3>1, <3>3, <3>4, <3>5 DEF Whole
    <3> QED BY <1>2, <1>3, <2>1, <2>2, <3>2, <3>6, OwnStep
  <2> QED BY <2>3, <2>4, <2>5
<1> QED BY <1>5, <1>6

LEMMA UndisturbedEnd ==
  ASSUME Basics, Undisturbed, NEW p \in Procs, ClearDir(p) \/ Fail(p) \/ TornCopy(p) \/ TornClear(p),
         NEW s \in Sets, causes[s] = {}, causes'[s] = {}
  PROVE  Calm(s)'
<1> USE DEF Basics
<1>1. Calm(s)
  BY DEF Undisturbed
<1>2. op'[p] = Idle /\ (\A q \in Procs \ {p} : op'[q] = op[q]) /\ Active(p) /\ op[p].set \in Sets /\ UNCHANGED cfg
  BY EndFacts DEF Ending
<1>3. op'[p].set # s
  BY <1>2, IdleFacts, NestingAssumption
<1>4. CASE ClearDir(p) /\ s \in Inside(op[p].set)
  <2>1. conf'[s] = Absent /\ TreesOf(s)' = {}
    BY <1>4 DEF ClearDir, TreesOf
  <2>2. \A q \in Procs \ {p} : op'[q].set # s
    BY <1>2, <1>4, OnlyOne DEF Overlap
  <2> QED BY <1>3, <2>1, <2>2, OwnStep
<1>5. CASE ~(ClearDir(p) /\ s \in Inside(op[p].set))
  <2>1. s # op[p].set
    <3>1. op[p].set \in Inside(op[p].set)
      BY <1>2 DEF Inside
    <3>2. CASE ClearDir(p)
      BY <1>5, <3>1, <3>2
    <3>3. CASE Fail(p) \/ TornCopy(p) \/ TornClear(p)
      <4>1. \E names, why : causes' = Blame(names, why) /\ op[p].set \in names
        <5>1. CASE Fail(p)
          BY <5>1 DEF Fail
        <5>2. CASE TornCopy(p)
          <6>1. causes' = Blame({op[p].set}, "torn")
            BY <5>2 DEF TornCopy
          <6> QED BY <6>1
        <5>3. CASE TornClear(p)
          <6>1. causes' = Blame(Inside(op[p].set), "torn")
            BY <5>3 DEF TornClear
          <6> QED BY <3>1, <6>1
        <5> QED BY <3>3, <5>1, <5>2, <5>3
      <4> QED BY <4>1 DEF Blame
    <3> QED BY <3>2, <3>3
  <2>2. TreesOf(s)' = TreesOf(s)
    BY <1>5, <2>1 DEF ClearDir, Fail, TornCopy, TornClear, TreesOf, git
  <2>3. conf'[s] = conf[s]
    BY <1>5, <2>1 DEF ClearDir, Fail, TornCopy, TornClear, files, TypeOK
  <2>4. slock'[s] = slock[s]
    <3>1. CASE TornCopy(p)
      <4>1. slock' = slock \/ slock' = [slock EXCEPT ![op[p].set] = Torn]
        BY <3>1 DEF TornCopy
      <4>2. CASE slock' = [slock EXCEPT ![op[p].set] = Torn]
        BY <2>1, <4>2
      <4> QED BY <4>1, <4>2
    <3>2. CASE ClearDir(p) \/ Fail(p) \/ TornClear(p)
      BY <1>5, <3>2 DEF ClearDir, Fail, TornClear, files
    <3> QED BY <3>1, <3>2
  <2>5. \A q \in Procs : op'[q] = op[q] \/ (op[q].set # s /\ op'[q].set # s)
    BY <1>2, <1>3, <2>1
  <2> QED BY <1>1, <1>2, <2>2, <2>3, <2>4, <2>5, UntouchedCalm
<1> QED BY <1>4, <1>5

LEMMA UndisturbedOutside ==
  ASSUME Basics, Undisturbed, Outside, NEW s \in Sets, causes[s] = {}, causes'[s] = {}
  PROVE  Calm(s)'
<1> USE DEF Basics
<1>1. Calm(s) /\ UNCHANGED op
  BY OutsideFacts DEF Undisturbed
<1>2. ASSUME NEW t \in Sets, UserDeletes(t) PROVE Calm(s)'
  <2>1. s \notin Inside(t)
    BY <1>2 DEF UserDeletes, Blame
  <2>2. TreesOf(s)' = TreesOf(s) /\ conf'[s] = conf[s] /\ slock'[s] = slock[s] /\ UNCHANGED cfg
    BY <1>2, <2>1 DEF UserDeletes, TreesOf
  <2> QED BY <1>1, <2>2, UntouchedCalm
<1>3. ASSUME NEW r \in Repos, UserUndeclares(r) PROVE Calm(s)'
  <2>1. <<s, r>> \notin trees /\ ~Busy(s)
    BY <1>3 DEF UserUndeclares, Blame
  <2>2. /\ TreesOf(s)' = TreesOf(s) /\ conf'[s] = conf[s] /\ slock'[s] = slock[s]
        /\ cfg'.repos = cfg.repos \ {r}
    <3>1. UNCHANGED <<trees, conf, slock>> /\ cfg'.repos = cfg.repos \cap (cfg.repos \ {r})
      BY <1>3 DEF UserUndeclares, files, FilterConfig
    <3> QED BY <3>1 DEF TreesOf
  <2>3. TreesOf(s)' \subseteq cfg'.repos
    BY <1>1, <2>1, <2>2 DEF Calm, TreesOf
  <2>4. \A q \in Procs : op[q].set # s
    <3>1. \A q \in Procs : op[q].set = s => Active(q)
      BY IdleFacts, NestingAssumption DEF Shapes
    <3>2. s \in Inside(s)
      BY DEF Inside
    <3> QED BY <2>1, <3>1, <3>2 DEF Busy
  <2>5. Settled(s)
    BY <2>4 DEF Settled
  <2>6. Whole(s)' \/ (conf'[s] = Absent /\ TreesOf(s)' = {})
    BY <1>1, <2>2, <2>5 DEF Calm, Whole
  <2> QED BY <1>1, <2>3, <2>4, <2>6 DEF Calm
<1>4. ASSUME \/ Prune \/ (\E w \in trees : UserEdits(w)) \/ UNCHANGED vars
      PROVE  Calm(s)'
  <2>1. UNCHANGED <<cfg, trees, conf, slock>>
    BY <1>4 DEF Prune, UserEdits, vars, files
  <2>2. TreesOf(s)' = TreesOf(s)
    BY <2>1 DEF TreesOf
  <2> QED BY <1>1, <2>1, <2>2, UntouchedCalm
<1> QED BY <1>2, <1>3, <1>4 DEF Outside

LEMMA UndisturbedStep ==
  Basics /\ Undisturbed /\ SlockIsFunction /\ [Next]_vars => Undisturbed'
<1> SUFFICES ASSUME Basics, Undisturbed, SlockIsFunction, [Next]_vars,
                    NEW s \in Sets, causes'[s] = {}
             PROVE  Calm(s)'
  BY DEF Undisturbed
<1>1. ASSUME NEW p \in Procs, NEW t \in Sets, Start(p, t) PROVE Calm(s)'
  BY <1>1, UndisturbedStart
<1>2. CASE Rest
  <2>1. causes[s] = {}
    BY <1>2, RestContinues DEF Basics, Continues
  <2>2. ASSUME NEW p \in Procs, Step(p) PROVE Calm(s)'
    BY <2>1, <2>2, UndisturbedWalk, UndisturbedWrite, UndisturbedEnd DEF Step
  <2>3. CASE Outside
    BY <2>1, <2>3, UndisturbedOutside
  <2> QED BY <1>2, <2>2, <2>3 DEF Rest
<1> QED BY <1>1, <1>2, NextCases DEF Rest

\* A set that no fault, no other verb and no deletion by hand has touched holds
\* exactly the worktrees its config names, locked and known to git.
THEOREM UndisturbedSetsAreWhole == Spec => []UndisturbedSetIsWhole
<1> DEFINE Inv == Basics /\ Locks /\ Undisturbed
<1>1. Init => Undisturbed
  <2> SUFFICES ASSUME Init, NEW s \in Sets PROVE Calm(s)
    BY DEF Undisturbed
  <2>1. conf[s] = Absent /\ TreesOf(s) = {} /\ \A p \in Procs : op[p].set # s
    BY IdleFacts, NestingAssumption DEF Init, InitWith, TreesOf
  <2> QED BY <2>1 DEF Calm
<1>2. Init => Inv
  BY <1>1, InitBasics, InitLocks DEF Locks
<1>3. Inv /\ [Next]_vars => Inv'
  BY BasicsStep, StepKeepsLocks, UndisturbedStep DEF Locks
<1>4. Inv => UndisturbedSetIsWhole
  <2> SUFFICES ASSUME Inv, NEW s \in dirs, causes[s] = {}, Settled(s),
                      conf[s] # Absent \/ TreesOf(s) # {}
               PROVE  /\ conf[s] # Absent /\ conf[s].repos = TreesOf(s)
                      /\ slock[s] # Absent /\ TreesOf(s) \subseteq slock[s].repos
                      /\ \A r \in TreesOf(s) : <<s, r>> \in worktrees
    BY DEF UndisturbedSetIsWhole
  <2>1. s \in Sets
    BY DEF Basics, TypeOK
  <2>2. Whole(s)
    BY <2>1 DEF Undisturbed, Calm
  <2>3. \A r \in TreesOf(s) : <<s, r>> \in worktrees
    BY DEF Basics, Contained, TreesOf
  <2> QED BY <2>2, <2>3, FilesAssumption DEF Whole
<1>5. Spec => []Inv
  BY <1>2, <1>3, PTL DEF Spec
<1> QED BY <1>4, <1>5, PTL

-----------------------------------------------------------------------------
(* The workspace: lists, orders and trees first, then edges and locks.     *)

\* A set of numbers has a least one.
LEMMA LeastOf ==
  ASSUME NEW S \in SUBSET Nat, S # {}
  PROVE  \E i \in S : \A j \in S : i <= j
<1> DEFINE F == {0..m : m \in S}  R == StrictSubsetOrdering(Nat)
<1>1. F \subseteq FiniteSubsetsOf(Nat) /\ F # {}
  <2>1. \A m \in S : IsFiniteSet(0..m) /\ 0..m \subseteq Nat
    BY FS_Interval
  <2> QED BY <2>1 DEF FiniteSubsetsOf
<1>2. IsWellFoundedOn(R, FiniteSubsetsOf(Nat))
  BY FS_StrictSubsetOrderingWellFounded
<1>3. PICK x \in F : \A y \in F : ~(<<y, x>> \in R)
  BY <1>1, <1>2, WFMin
<1>4. PICK m \in S : x = 0..m
  OBVIOUS
<1>5. ASSUME NEW j \in S, j < m  PROVE FALSE
  <2>1. 0..j \subseteq 0..m /\ m \in 0..m /\ m \notin 0..j /\ 0..m \subseteq Nat
    BY <1>5
  <2>2. <<0..j, 0..m>> \in R
    BY <2>1 DEF StrictSubsetOrdering
  <2> QED BY <2>2, <1>3, <1>4
<1> QED BY <1>5

\* Induction, over a set of numbers.
LEMMA EveryNumber ==
  ASSUME NEW S \in SUBSET Nat, 0 \in S, \A n \in S : n + 1 \in S
  PROVE  \A n \in Nat : n \in S
<1> SUFFICES ASSUME Nat \ S # {}  PROVE FALSE
  OBVIOUS
<1>1. PICK m \in Nat \ S : \A j \in Nat \ S : m <= j
  BY LeastOf
<1>2. m # 0 /\ m - 1 \in Nat
  BY <1>1
<1>3. m - 1 \in S
  BY <1>1, <1>2
<1> QED BY <1>1, <1>3

\* A finite set of numbers can be sorted.
LEMMA CanSort ==
  ASSUME NEW S \in SUBSET Nat, IsFiniteSet(S)
  PROVE  \E s \in [1 .. Cardinality(S) -> S] : \A i, j \in DOMAIN s : i < j => s[i] < s[j]
<1> DEFINE Ordered(s) == \A i, j \in DOMAIN s : i < j => s[i] < s[j]
           Sizes == {n \in Nat : \A T \in SUBSET Nat :
                       IsFiniteSet(T) /\ Cardinality(T) = n =>
                         \E s \in [1 .. n -> T] : Ordered(s)}
<1>1. 0 \in Sizes
  <2>1. ASSUME NEW T \in SUBSET Nat  PROVE \E s \in [1 .. 0 -> T] : Ordered(s)
    <3> DEFINE s == [i \in 1 .. 0 |-> i]
    <3>1. s \in [1 .. 0 -> T] /\ Ordered(s)
      OBVIOUS
    <3> QED BY <3>1
  <2> QED BY <2>1
<1>2. ASSUME NEW n \in Sizes  PROVE n + 1 \in Sizes
  <2>1. ASSUME NEW T \in SUBSET Nat, IsFiniteSet(T), Cardinality(T) = n + 1
        PROVE  \E s \in [1 .. n + 1 -> T] : Ordered(s)
    <3>0. n \in Nat
      OBVIOUS
    <3>1. T # {}
      BY <2>1, <3>0, FS_EmptySet
    <3>2. PICK m \in T : \A j \in T : m <= j
      BY <3>1, LeastOf
    <3>3. IsFiniteSet(T \ {m}) /\ Cardinality(T \ {m}) = n
      BY <2>1, <3>0, FS_RemoveElement
    <3>4. PICK s \in [1 .. n -> T \ {m}] : Ordered(s)
      <4>1. T \ {m} \in SUBSET Nat
        OBVIOUS
      <4> HIDE DEF Ordered
      <4> QED BY <3>3, <4>1
    <3>9. \A i, j \in 1 .. n : i < j => s[i] < s[j]
      BY <3>4
    <3> DEFINE r == [i \in 1 .. n + 1 |-> IF i = 1 THEN m ELSE s[i - 1]]
    <3>5. \A i \in 1 .. n + 1 : i # 1 => i - 1 \in 1 .. n
      BY <3>0
    <3>6. r \in [1 .. n + 1 -> T]
      BY <3>5
    <3>7. ASSUME NEW i \in 1 .. n + 1, NEW j \in 1 .. n + 1, i < j  PROVE r[i] < r[j]
      <4>1. j # 1 /\ j - 1 \in 1 .. n /\ r[j] = s[j - 1] /\ s[j - 1] \in T \ {m}
        BY <3>0, <3>7
      <4>2. CASE i = 1
        <5>1. r[i] = m /\ m <= s[j - 1] /\ m # s[j - 1] /\ m \in Nat /\ s[j - 1] \in Nat
          BY <4>1, <4>2, <3>2
        <5> HIDE DEF r
        <5> QED BY <5>1, <4>1
      <4>3. CASE i # 1
        <5>1. i - 1 \in 1 .. n /\ r[i] = s[i - 1] /\ i - 1 < j - 1
          BY <4>3, <3>0, <3>7
        <5>2. s[i - 1] < s[j - 1]
          BY <5>1, <4>1, <3>9
        <5> HIDE DEF r
        <5> QED BY <5>1, <5>2, <4>1
      <4> QED BY <4>2, <4>3
    <3>8. Ordered(r)
      BY <3>7
    <3> QED BY <3>6, <3>8
  <2> QED BY <2>1
<1>3. Cardinality(S) \in Sizes
  <2>1. Cardinality(S) \in Nat
    BY FS_CardinalityType
  <2>2. Sizes \in SUBSET Nat
    OBVIOUS
  <2> HIDE DEF Sizes
  <2> QED BY <2>1, <2>2, <1>1, <1>2, EveryNumber
<1> HIDE DEF Ordered
<1>4. \E s \in [1 .. Cardinality(S) -> S] : Ordered(s)
  BY <1>3
<1> QED BY <1>4 DEF Ordered

\* Sorted lists each member of a set once.
LEMMA SortedLists ==
  ASSUME NEW S \in SUBSET Nat, IsFiniteSet(S)
  PROVE  /\ Sorted(S) \in Seq(S) /\ Len(Sorted(S)) = Cardinality(S)
         /\ \A i, j \in 1 .. Cardinality(S) : Sorted(S)[i] = Sorted(S)[j] => i = j
         /\ \A x \in S : \E i \in 1 .. Cardinality(S) : Sorted(S)[i] = x
<1> DEFINE n == Cardinality(S)
           Ordered(s) == \A i, j \in DOMAIN s : i < j => s[i] < s[j]
           s == CHOOSE s \in [1 .. n -> S] : Ordered(s)
<1>0. n \in Nat
  BY FS_CardinalityType
<1>1. s \in [1 .. n -> S] /\ Ordered(s)
  <2>1. \E r \in [1 .. n -> S] : Ordered(r)
    BY CanSort
  <2> HIDE DEF Ordered, n
  <2> QED BY <2>1
<1>2. Sorted(S) = s
  BY DEF Sorted
<1> HIDE DEF s, n
<1>3. \A i, j \in 1 .. n : s[i] = s[j] => i = j
  <2>1. \A i, j \in 1 .. n : i < j => s[i] < s[j]
    BY <1>1
  <2>2. \A i \in 1 .. n : s[i] \in Nat
    BY <1>1
  <2> QED BY <2>1, <2>2, <1>0
<1>4. s \in Injection(1 .. n, S)
  BY <1>1, <1>3 DEF Injection, IsInjective
<1>5. Cardinality(1 .. n) = Cardinality(S)
  BY <1>0, FS_Interval DEF n
<1>6. s \in Surjection(1 .. n, S)
  BY <1>4, <1>5, FS_Injection
<1>7. \A x \in S : \E i \in 1 .. n : s[i] = x
  BY <1>6 DEF Surjection
<1>8. s \in Seq(S) /\ Len(s) = n
  BY <1>0, <1>1
<1> QED BY <1>2, <1>3, <1>7, <1>8 DEF n

\* A function of the number of steps taken.
LEMMA Recursion ==
  ASSUME NEW S, NEW b \in S, NEW step \in [S -> S]
  PROVE  \E f \in [Nat -> S] : f[0] = b /\ \A n \in Nat : f[n + 1] = step[f[n]]
<1> DEFINE Upto(n, g) == /\ g \in [0 .. n -> S] /\ g[0] = b
                         /\ \A i \in 0 .. n : i # 0 => g[i] = step[g[i - 1]]
           Fine == {n \in Nat : \E g : Upto(n, g)}
           Alike == {n \in Nat : \A g, h, l, m : l \in Nat /\ m \in Nat /\ n <= l /\ n <= m
                                   /\ Upto(l, g) /\ Upto(m, h) => g[n] = h[n]}
<1>1. 0 \in Fine
  <2> DEFINE g == [i \in 0 .. 0 |-> b]
  <2>1. Upto(0, g)
    OBVIOUS
  <2> HIDE DEF Upto, g
  <2> QED BY <2>1
<1>2. ASSUME NEW n \in Fine  PROVE n + 1 \in Fine
  <2>0. n \in Nat
    OBVIOUS
  <2>1. PICK g : Upto(n, g)
    <3> HIDE DEF Upto
    <3> QED OBVIOUS
  <2> DEFINE h == [i \in 0 .. n + 1 |-> IF i = n + 1 THEN step[g[n]] ELSE g[i]]
  <2>2. \A i \in 0 .. n + 1 : i # n + 1 => i \in 0 .. n
    BY <2>0
  <2>3. n \in 0 .. n /\ g[n] \in S /\ step[g[n]] \in S
    BY <2>0, <2>1
  <2>4. h \in [0 .. n + 1 -> S]
    BY <2>1, <2>2, <2>3
  <2>5. h[0] = b
    BY <2>0, <2>1
  <2>6. ASSUME NEW i \in 0 .. n + 1, i # 0  PROVE h[i] = step[h[i - 1]]
    <3>1. i - 1 \in 0 .. n /\ i - 1 \in 0 .. n + 1 /\ i - 1 # n + 1
      BY <2>0, <2>6
    <3>2. h[i - 1] = g[i - 1]
      BY <3>1
    <3>3. CASE i = n + 1
      <4>1. h[i] = step[g[n]] /\ i - 1 = n
        BY <3>3, <2>0
      <4> HIDE DEF h
      <4> QED BY <4>1, <3>2
    <3>4. CASE i # n + 1
      <4>1. i \in 0 .. n /\ h[i] = g[i]
        BY <3>4, <2>2
      <4>2. g[i] = step[g[i - 1]]
        BY <4>1, <2>1, <2>6
      <4> HIDE DEF h
      <4> QED BY <4>1, <4>2, <3>2
    <3> QED BY <3>3, <3>4
  <2>7. Upto(n + 1, h)
    <3> HIDE DEF h
    <3> QED BY <2>4, <2>5, <2>6
  <2>8. n + 1 \in Nat /\ \E k : Upto(n + 1, k)
    <3> HIDE DEF Upto, h
    <3> QED BY <2>0, <2>7
  <2> HIDE DEF Upto, h
  <2> QED BY <2>8
<1>3. \A n \in Nat : n \in Fine
  <2>1. Fine \in SUBSET Nat
    OBVIOUS
  <2> HIDE DEF Fine
  <2> QED BY <2>1, <1>1, <1>2, EveryNumber
<1>4. 0 \in Alike
  OBVIOUS
<1>5. ASSUME NEW n \in Alike  PROVE n + 1 \in Alike
  <2>0. n \in Nat
    OBVIOUS
  <2>1. ASSUME NEW g, NEW h, NEW l \in Nat, NEW m \in Nat, n + 1 <= l, n + 1 <= m, Upto(l, g), Upto(m, h)
        PROVE  g[n + 1] = h[n + 1]
    <3>1. g[n] = h[n]
      <4>1. n <= l /\ n <= m
        BY <2>0, <2>1
      <4> HIDE DEF Upto
      <4> QED BY <4>1, <2>1
    <3>2. g[n + 1] = step[g[n]]
      <4>1. n + 1 \in 0 .. l /\ n + 1 # 0 /\ (n + 1) - 1 = n
        BY <2>0, <2>1
      <4>2. \A i \in 0 .. l : i # 0 => g[i] = step[g[i - 1]]
        BY <2>1
      <4> QED BY <4>1, <4>2
    <3>3. h[n + 1] = step[h[n]]
      <4>1. n + 1 \in 0 .. m /\ n + 1 # 0 /\ (n + 1) - 1 = n
        BY <2>0, <2>1
      <4>2. \A i \in 0 .. m : i # 0 => h[i] = step[h[i - 1]]
        BY <2>1
      <4> QED BY <4>1, <4>2
    <3> QED BY <3>1, <3>2, <3>3
  <2> HIDE DEF Upto
  <2> QED BY <2>0, <2>1
<1>6. \A n \in Nat : n \in Alike
  <2>1. Alike \in SUBSET Nat
    OBVIOUS
  <2> HIDE DEF Alike
  <2> QED BY <2>1, <1>4, <1>5, EveryNumber
<1> DEFINE G(n) == CHOOSE g : Upto(n, g)
           f == [n \in Nat |-> G(n)[n]]
<1>7. ASSUME NEW n \in Nat  PROVE Upto(n, G(n))
  <2>1. \E g : Upto(n, g)
    <3> HIDE DEF Upto
    <3> QED BY <1>3
  <2> HIDE DEF Upto
  <2> QED BY <2>1
<1>8. f \in [Nat -> S]
  <2>1. ASSUME NEW n \in Nat  PROVE G(n)[n] \in S
    <3>1. Upto(n, G(n))
      BY <1>7
    <3> HIDE DEF G
    <3>2. G(n) \in [0 .. n -> S] /\ n \in 0 .. n
      BY <3>1
    <3> QED BY <3>2
  <2> HIDE DEF G
  <2> QED BY <2>1
<1>9. f[0] = b
  BY <1>7
<1>10. ASSUME NEW n \in Nat  PROVE f[n + 1] = step[f[n]]
  <2>1. G(n + 1)[n + 1] = step[G(n + 1)[n]]
    <3> DEFINE g == G(n + 1)
    <3>1. Upto(n + 1, g)
      <4>1. n + 1 \in Nat
        OBVIOUS
      <4>2. \A i \in Nat : Upto(i, G(i))
        BY <1>7
      <4> HIDE DEF Upto, G
      <4> QED BY <4>1, <4>2
    <3> HIDE DEF g
    <3>2. \A i \in 0 .. n + 1 : i # 0 => g[i] = step[g[i - 1]]
      BY <3>1
    <3>3. n + 1 \in 0 .. n + 1 /\ n + 1 # 0 /\ (n + 1) - 1 = n
      OBVIOUS
    <3>4. g[n + 1] = step[g[n]]
      BY <3>2, <3>3
    <3> QED BY <3>4 DEF g
  <2>2. G(n + 1)[n] = G(n)[n]
    <3>1. n \in Alike /\ n + 1 \in Nat /\ n <= n /\ n <= n + 1
      BY <1>6
    <3>2. Upto(n, G(n)) /\ Upto(n + 1, G(n + 1))
      <4>1. n + 1 \in Nat
        OBVIOUS
      <4>2. \A i \in Nat : Upto(i, G(i))
        BY <1>7
      <4> HIDE DEF Upto, G
      <4> QED BY <4>1, <4>2
    <3> HIDE DEF Upto, G
    <3> QED BY <3>1, <3>2
  <2> HIDE DEF G, Upto
  <2> QED BY <2>1, <2>2
<1> HIDE DEF f
<1> QED BY <1>8, <1>9, <1>10

\* Min is a member and least.
LEMMA MinIsLeast ==
  ASSUME NEW S \in SUBSET Nat, S # {}
  PROVE  Min(S) \in S
BY LeastOf DEF Min

\* A list of distinct elements.
Once(s) == \A i, j \in 1 .. Len(s) : s[i] = s[j] => i = j

\* A sequence that repeats nothing is as long as it has members.
LEMMA OnceCounts ==
  ASSUME NEW K, NEW s \in Seq(K), Once(s)
  PROVE  IsFiniteSet(ToSet(s)) /\ Cardinality(ToSet(s)) = Len(s)
<1> DEFINE D == 1 .. Len(s)  T == ToSet(s)
<1>1. IsFiniteSet(D) /\ Cardinality(D) = Len(s)
  <2> DEFINE n == Len(s)
  <2>1. n \in Nat /\ n \in Int /\ 1 \in Int
    OBVIOUS
  <2> HIDE DEF n
  <2>2. IsFiniteSet(1 .. n) /\ Cardinality(1 .. n) = IF 1 > n THEN 0 ELSE n - 1 + 1
    BY <2>1, FS_Interval
  <2>3. Cardinality(1 .. n) = n
    BY <2>1, <2>2
  <2> QED BY <2>2, <2>3 DEF n
<1>2. DOMAIN s = D /\ T = {s[i] : i \in D} /\ s = [i \in D |-> s[i]]
  BY DEF ToSet
<1>3. s \in [D -> T]
  <2>1. \A i \in D : s[i] \in T
    BY <1>2
  <2> HIDE DEF D, T
  <2> QED BY <1>2, <2>1
<1>4. s \in Surjection(D, T)
  <2>1. \A t \in T : \E i \in D : s[i] = t
    BY <1>2
  <2> HIDE DEF D, T
  <2> QED BY <1>3, <2>1 DEF Surjection
<1>5. s \in Injection(D, T)
  <2>1. \A i, j \in D : s[i] = s[j] => i = j
    BY DEF Once
  <2> HIDE DEF D, T
  <2> QED BY <1>2, <1>3, <2>1 DEF Injection, IsInjective
<1> HIDE DEF D, T
<1>6. IsFiniteSet(T) /\ Cardinality(T) = Cardinality(D)
  BY <1>1, <1>4, <1>5, FS_Surjection
<1> QED BY <1>1, <1>6 DEF T

\* The keys that topoSortByDeps may take after s.
Ready(keys, deps, s) == {k \in keys \ ToSet(s) : deps[k] \subseteq ToSet(s)}
Grow(keys, deps, s) ==
  IF Ready(keys, deps, s) = {} THEN s ELSE Append(s, Min(Ready(keys, deps, s)))

\* What comes before place i.
Upto(s, i) == {s[j] : j \in 1 .. i - 1}
InOrder(keys, deps, s) ==
  /\ s \in Seq(keys) /\ Once(s)
  /\ \A i \in 1 .. Len(s) : deps[s[i]] \subseteq Upto(s, i)

\* A round keeps the list distinct and in order.
LEMMA GrowInOrder ==
  ASSUME NEW keys \in SUBSET Nat, NEW deps, NEW s, InOrder(keys, deps, s)
  PROVE  /\ InOrder(keys, deps, Grow(keys, deps, s))
         /\ Ready(keys, deps, s) # {} => Len(Grow(keys, deps, s)) = Len(s) + 1
<1>1. CASE Ready(keys, deps, s) = {}
  BY <1>1 DEF Grow
<1>2. CASE Ready(keys, deps, s) # {}
  <2> DEFINE k == Min(Ready(keys, deps, s))  n == Len(s)
  <2>1. k \in Ready(keys, deps, s)
    <3>1. Ready(keys, deps, s) \in SUBSET Nat
      BY DEF Ready
    <3> QED BY <1>2, <3>1, MinIsLeast
  <2>2. k \in keys /\ k \notin ToSet(s) /\ deps[k] \subseteq ToSet(s)
    BY <2>1 DEF Ready
  <2> HIDE DEF k
  <2>3. s \in Seq(keys) /\ n \in Nat /\ DOMAIN s = 1 .. n
    BY DEF InOrder
  <2>4. ToSet(s) = {s[j] : j \in 1 .. n}
    BY <2>3 DEF ToSet
  <2> DEFINE r == Append(s, k)
  <2>5. r \in Seq(keys) /\ Len(r) = n + 1 /\ r[n + 1] = k /\ \A i \in 1 .. n : r[i] = s[i]
    BY <2>2, <2>3
  <2> HIDE DEF r
  <2>6. Once(r)
    <3>1. \A i \in 1 .. n + 1 : i \in 1 .. n \/ i = n + 1
      BY <2>3
    <3>2. \A i \in 1 .. n : r[i] # k
      BY <2>2, <2>4, <2>5
    <3>3. \A i, j \in 1 .. n : r[i] = r[j] => i = j
      BY <2>5 DEF InOrder, Once
    <3> QED BY <3>1, <3>2, <3>3, <2>5 DEF Once
  <2>7. ASSUME NEW i \in 1 .. n + 1  PROVE deps[r[i]] \subseteq Upto(r, i)
    <3>1. \A j \in 1 .. i - 1 : r[j] = s[j]
      BY <2>3, <2>5
    <3>2. Upto(r, i) = Upto(s, i)
      BY <3>1 DEF Upto
    <3>3. CASE i = n + 1
      <4>1. Upto(s, i) = ToSet(s)
        <5>1. 1 .. i - 1 = 1 .. n
          BY <2>3, <3>3
        <5> QED BY <5>1, <2>4 DEF Upto
      <4> QED BY <4>1, <3>2, <3>3, <2>2, <2>5
    <3>4. CASE i # n + 1
      <4>1. i \in 1 .. n
        BY <3>4, <2>3
      <4> QED BY <4>1, <3>2, <2>5 DEF InOrder
    <3> QED BY <3>3, <3>4
  <2>8. Grow(keys, deps, s) = r
    BY <1>2 DEF Grow, r, k
  <2> QED BY <2>5, <2>6, <2>7, <2>8 DEF InOrder
<1> QED BY <1>1, <1>2

\* e is the sequence of lists that the rounds make.
Emits(keys, deps, N, e) ==
  e = [n \in 0 .. N |-> IF n = 0 THEN <<>> ELSE Grow(keys, deps, e[n - 1])]

\* The recursion of topoSortByDeps has a solution.
LEMMA EmittedDefined ==
  ASSUME NEW keys \in SUBSET Nat, NEW deps, NEW N \in Nat
  PROVE  \E e : Emits(keys, deps, N, e)
<1> DEFINE S == Seq(keys)  step == [s \in S |-> Grow(keys, deps, s)]
<1>1. step \in [S -> S]
  <2>1. ASSUME NEW s \in S  PROVE Grow(keys, deps, s) \in S
    <3>1. CASE Ready(keys, deps, s) = {}
      BY <3>1 DEF Grow
    <3>2. CASE Ready(keys, deps, s) # {}
      <4>1. Ready(keys, deps, s) \in SUBSET keys /\ Ready(keys, deps, s) \in SUBSET Nat
        BY DEF Ready
      <4>2. Min(Ready(keys, deps, s)) \in keys
        BY <3>2, <4>1, MinIsLeast
      <4>3. Grow(keys, deps, s) = Append(s, Min(Ready(keys, deps, s)))
        BY <3>2 DEF Grow
      <4> QED BY <4>2, <4>3
    <3> QED BY <3>1, <3>2
  <2> HIDE DEF S
  <2> QED BY <2>1
<1>2. <<>> \in S
  OBVIOUS
<1>3. PICK f \in [Nat -> S] : f[0] = <<>> /\ \A n \in Nat : f[n + 1] = step[f[n]]
  <2> DEFINE b == <<>>
  <2> HIDE DEF step, S, b
  <2>1. b \in S
    BY <1>2 DEF b
  <2>2. \E f \in [Nat -> S] : f[0] = b /\ \A n \in Nat : f[n + 1] = step[f[n]]
    BY <1>1, <2>1, Recursion
  <2> QED BY <2>2 DEF b
<1> DEFINE e == [n \in 0 .. N |-> f[n]]
<1>4. ASSUME NEW n \in 0 .. N
      PROVE  e[n] = IF n = 0 THEN <<>> ELSE Grow(keys, deps, e[n - 1])
  <2>1. CASE n = 0
    BY <2>1, <1>3
  <2>2. CASE n # 0
    <3>1. n - 1 \in 0 .. N /\ n - 1 \in Nat /\ (n - 1) + 1 = n
      BY <2>2
    <3>2. f[n] = step[f[n - 1]]
      <4> HIDE DEF step
      <4> QED BY <3>1, <1>3
    <3>3. step[f[n - 1]] = Grow(keys, deps, f[n - 1])
      <4>1. f[n - 1] \in S
        BY <3>1, <1>3
      <4> HIDE DEF S
      <4> QED BY <4>1
    <3>4. e[n] = f[n] /\ e[n - 1] = f[n - 1]
      BY <3>1
    <3> HIDE DEF e, step
    <3> QED BY <2>2, <3>2, <3>3, <3>4
  <2> QED BY <2>1, <2>2
<1>5. e = [n \in 0 .. N |-> IF n = 0 THEN <<>> ELSE Grow(keys, deps, e[n - 1])]
  <2>1. e = [n \in 0 .. N |-> e[n]]
    OBVIOUS
  <2> HIDE DEF e
  <2> QED BY <2>1, <1>4
<1> HIDE DEF e
<1> QED BY <1>5 DEF Emits

\* topoSortByDeps: the order lists every key once.  It begins with keys that come
\* after all they depend on; a key that is not among these waits for another one
\* that is not.
LEMMA OrderFacts ==
  ASSUME NEW keys \in SUBSET Nat, IsFiniteSet(keys), NEW deps
  PROVE  LET o == OrderByDeps(keys, deps)
         IN /\ o \in Seq(keys) /\ Len(o) = Cardinality(keys) /\ ToSet(o) = keys
            /\ \E n \in 0 .. Len(o) :
                 /\ \A i \in 1 .. n : deps[o[i]] \subseteq Upto(o, i)
                 /\ \A k \in keys \ Upto(o, n + 1) : ~(deps[k] \subseteq Upto(o, n + 1))
<1> DEFINE N == Cardinality(keys)
           e == CHOOSE e : Emits(keys, deps, N, e)
           sorted == e[N]
           rest == keys \ ToSet(sorted)
           o == sorted \o Sorted(rest)
<1>0. N \in Nat
  BY FS_CardinalityType
<1>1. Emits(keys, deps, N, e)
  <2> HIDE DEF N
  <2> QED BY <1>0, EmittedDefined
<1>2. OrderByDeps(keys, deps) = o
  BY DEF OrderByDeps, Emits, Grow, Ready
<1> HIDE DEF N, e
<1>3. e[0] = <<>> /\ \A n \in 0 .. N : n # 0 => e[n] = Grow(keys, deps, e[n - 1])
  BY <1>0, <1>1 DEF Emits
<1> DEFINE Right(n) == InOrder(keys, deps, e[n]) /\ (Len(e[n]) = n \/ Ready(keys, deps, e[n]) = {})
           Fine == {n \in Nat : n <= N => Right(n)}
<1>4. 0 \in Fine
  <2>1. InOrder(keys, deps, <<>>) /\ Len(<<>>) = 0
    BY DEF InOrder, Once
  <2>2. Right(0)
    BY <2>1, <1>3
  <2> HIDE DEF Right
  <2> QED BY <2>2
<1>5. ASSUME NEW n \in Fine  PROVE n + 1 \in Fine
  <2>1. ASSUME n + 1 <= N  PROVE Right(n + 1)
    <3>1. n \in Nat /\ n <= N /\ n + 1 \in 0 .. N /\ n + 1 # 0 /\ (n + 1) - 1 = n
      BY <1>0, <2>1
    <3>2. Right(n)
      BY <3>1
    <3>3. e[n + 1] = Grow(keys, deps, e[n])
      BY <3>1, <1>3
    <3>4. CASE Ready(keys, deps, e[n]) = {}
      BY <3>2, <3>3, <3>4 DEF Grow
    <3>5. CASE Ready(keys, deps, e[n]) # {}
      BY <3>1, <3>2, <3>3, <3>5, GrowInOrder
    <3> QED BY <3>4, <3>5
  <2> HIDE DEF Right
  <2> QED BY <2>1
<1>6. Right(N)
  <2>1. Fine \in SUBSET Nat
    OBVIOUS
  <2>2. N \in Fine
    <3> HIDE DEF Fine
    <3> QED BY <2>1, <1>0, <1>4, <1>5, EveryNumber
  <2> HIDE DEF Right
  <2> QED BY <2>2, <1>0
<1> DEFINE done == ToSet(sorted)  n == Len(sorted)
<1>7. InOrder(keys, deps, sorted) /\ sorted \in Seq(keys) /\ Once(sorted)
      /\ n \in Nat /\ (n = N \/ Ready(keys, deps, sorted) = {})
  BY <1>6 DEF InOrder
<1>8. done \subseteq keys /\ done = {sorted[i] : i \in 1 .. n}
  BY <1>7 DEF ToSet
<1>9. IsFiniteSet(done) /\ Cardinality(done) = n
  BY <1>7, OnceCounts
<1>10. Cardinality(rest) = N - n /\ IsFiniteSet(rest) /\ rest \in SUBSET Nat
  <2>1. keys \cap done = done
    BY <1>8
  <2>2. IsFiniteSet(keys \ done) /\ Cardinality(keys \ done) = Cardinality(keys) - Cardinality(keys \cap done)
    BY FS_Difference
  <2> HIDE DEF done
  <2> QED BY <2>1, <2>2, <1>9 DEF N, done
<1>11. Ready(keys, deps, sorted) = {}
  <2>1. CASE n = N
    <3>1. Cardinality(rest) = 0
      BY <2>1, <1>0, <1>10
    <3>2. rest = {}
      BY <3>1, <1>10, FS_EmptySet
    <3> QED BY <3>2 DEF Ready
  <2>2. CASE n # N
    BY <2>2, <1>7
  <2> QED BY <2>1, <2>2
<1> HIDE DEF sorted, done, n
<1> DEFINE t == Sorted(rest)  l == Cardinality(rest)
<1>12. /\ t \in Seq(rest) /\ Len(t) = l
       /\ \A x \in rest : \E i \in 1 .. l : t[i] = x
  BY <1>10, SortedLists
<1> HIDE DEF t
<1>13. rest \subseteq keys /\ l = N - n /\ l \in Nat
  BY <1>10, FS_CardinalityType DEF rest
<1>14. t \in Seq(keys)
  BY <1>12, <1>13
<1> HIDE DEF l
<1>15. o \in Seq(keys) /\ Len(o) = n + l /\ DOMAIN o = 1 .. n + l /\ n + l = N
  BY <1>7, <1>12, <1>13, <1>14, <1>0 DEF n, t
<1>16. \A i \in 1 .. n : o[i] = sorted[i] /\ i \in 1 .. n + l
  BY <1>7, <1>13, <1>14 DEF n, t
<1>17. \A i \in 1 .. l : o[n + i] = t[i] /\ n + i \in 1 .. n + l
  BY <1>7, <1>12, <1>13, <1>14 DEF n, t
<1>18. rest = keys \ done
  BY DEF rest, done
<1> HIDE DEF o, rest
<1>19. ToSet(o) = keys
  <2>1. ToSet(o) \subseteq keys
    BY <1>15 DEF ToSet
  <2>2. \A k \in done : k \in ToSet(o)
    BY <1>8, <1>15, <1>16 DEF ToSet
  <2>3. \A k \in rest : k \in ToSet(o)
    BY <1>12, <1>15, <1>17 DEF ToSet
  <2> QED BY <2>1, <2>2, <2>3, <1>18
<1>20. ASSUME NEW i \in 1 .. n  PROVE deps[o[i]] \subseteq Upto(o, i)
  <2>1. \A j \in 1 .. i - 1 : j \in 1 .. n
    BY <1>7
  <2>2. Upto(o, i) = Upto(sorted, i)
    BY <2>1, <1>16 DEF Upto
  <2> QED BY <2>2, <1>7, <1>16 DEF InOrder, n
<1>21. Upto(o, n + 1) = done
  <2>1. 1 .. (n + 1) - 1 = 1 .. n
    BY <1>7
  <2> QED BY <2>1, <1>8, <1>16 DEF Upto
<1>22. \A k \in keys \ Upto(o, n + 1) : ~(deps[k] \subseteq Upto(o, n + 1))
  BY <1>21, <1>11 DEF Ready, done
<1>23. n \in 0 .. Len(o)
  BY <1>7, <1>13, <1>15
<1> QED BY <1>2, <1>15, <1>19, <1>20, <1>22, <1>23 DEF N

\* What a key leads to is closed, and least.
LEMMA LeadsToFacts ==
  ASSUME NEW keys, NEW next \in [keys -> SUBSET keys], NEW k \in keys
  PROVE  /\ LeadsTo(next, k) \subseteq keys
         /\ next[k] \subseteq LeadsTo(next, k)
         /\ \A t \in LeadsTo(next, k) : next[t] \subseteq LeadsTo(next, k)
         /\ \A t \in LeadsTo(next, k) : LeadsTo(next, t) \subseteq LeadsTo(next, k)
         /\ \A T \in SUBSET keys :
              next[k] \subseteq T /\ (\A t \in T : next[t] \subseteq T) => LeadsTo(next, k) \subseteq T
<1> DEFINE L == LeadsTo(next, k)
<1>0. DOMAIN next = keys /\ \A t \in keys : next[t] \subseteq keys
  OBVIOUS
<1>1. \A j \in keys, r \in keys : r \in LeadsTo(next, j) <=>
        \A T \in SUBSET keys : next[j] \subseteq T /\ (\A t \in T : next[t] \subseteq T) => r \in T
  BY <1>0 DEF LeadsTo
<1>2. \A j \in keys : LeadsTo(next, j) \subseteq keys
  BY <1>0 DEF LeadsTo
<1>3. next[k] \subseteq L
  <2>1. ASSUME NEW r \in next[k]  PROVE r \in L
    <3>1. r \in keys
      BY <1>0
    <3> QED BY <3>1, <1>1
  <2> QED BY <2>1
<1>4. ASSUME NEW t \in L, NEW r \in next[t]  PROVE r \in L
  <2>1. t \in keys /\ r \in keys
    BY <1>0, <1>2
  <2>2. ASSUME NEW T \in SUBSET keys, next[k] \subseteq T, \A s \in T : next[s] \subseteq T
        PROVE  r \in T
    <3>1. t \in T
      BY <2>1, <2>2, <1>1
    <3> QED BY <3>1, <2>2
  <2> QED BY <2>1, <2>2, <1>1
<1>5. ASSUME NEW T \in SUBSET keys, next[k] \subseteq T, \A t \in T : next[t] \subseteq T
      PROVE  L \subseteq T
  <2>1. ASSUME NEW r \in L  PROVE r \in T
    <3>1. r \in keys
      BY <1>2
    <3> QED BY <3>1, <1>1, <1>5
  <2> QED BY <2>1
<1>6. ASSUME NEW t \in L  PROVE LeadsTo(next, t) \subseteq L
  <2>1. t \in keys /\ L \in SUBSET keys /\ next[t] \subseteq L /\ \A s \in L : next[s] \subseteq L
    BY <1>2, <1>4
  <2> HIDE DEF L
  <2>2. ASSUME NEW r \in LeadsTo(next, t)  PROVE r \in L
    <3>1. r \in keys
      BY <2>1, <1>2
    <3> QED BY <2>1, <3>1, <1>1
  <2> QED BY <2>2
<1> QED BY <1>2, <1>3, <1>4, <1>5, <1>6

\* On a cycle, or behind one.
Stuck(next, k) == \E c \in {k} \cup LeadsTo(next, k) : c \in LeadsTo(next, c)

\* topoSortByDeps on any dependencies: every key once, and a key that is on no
\* cycle, and behind none, after all it leads to.
LEMMA OrderOfKeys ==
  ASSUME NEW keys \in SUBSET Nat, IsFiniteSet(keys), NEW next \in [keys -> SUBSET keys]
  PROVE  LET o == OrderByDeps(keys, next)
         IN /\ ToSet(o) = keys /\ Len(o) = Cardinality(keys)
            /\ \A k \in keys : ~Stuck(next, k) => \A r \in LeadsTo(next, k) : Before(o, r, k)
<1> DEFINE o == OrderByDeps(keys, next)
<1>1. /\ o \in Seq(keys) /\ Len(o) = Cardinality(keys) /\ ToSet(o) = keys
      /\ \E n \in 0 .. Len(o) :
           /\ \A i \in 1 .. n : next[o[i]] \subseteq Upto(o, i)
           /\ \A k \in keys \ Upto(o, n + 1) : ~(next[k] \subseteq Upto(o, n + 1))
  BY OrderFacts
<1> HIDE DEF o
<1>2. PICK n \in 0 .. Len(o) :
           /\ \A i \in 1 .. n : next[o[i]] \subseteq Upto(o, i)
           /\ \A k \in keys \ Upto(o, n + 1) : ~(next[k] \subseteq Upto(o, n + 1))
  BY <1>1
<1>3. n \in Nat /\ Len(o) \in Nat /\ DOMAIN o = 1 .. Len(o)
      /\ \A i \in 1 .. n : i \in 1 .. Len(o) /\ o[i] \in keys
  BY <1>1, <1>2
<1> DEFINE done == Upto(o, n + 1)
           Free == {k \in keys \ done : ~Stuck(next, k)}
           Size(k) == Cardinality(LeadsTo(next, k))
<1>4. done = {o[i] : i \in 1 .. n}
  <2>1. (n + 1) - 1 = n
    BY <1>3
  <2> QED BY <2>1 DEF Upto
<1>5. \A k \in keys : LeadsTo(next, k) \subseteq keys
  BY LeadsToFacts
<1>6. \A k \in keys : IsFiniteSet(LeadsTo(next, k)) /\ Size(k) \in Nat
  BY <1>5, FS_Subset, FS_CardinalityType
<1>7. Free = {}
  <2> SUFFICES ASSUME Free # {}  PROVE FALSE
    OBVIOUS
  <2>1. PICK u \in Free : \A v \in Free : Size(u) <= Size(v)
    <3> DEFINE M == {Size(v) : v \in Free}
    <3>1. M \in SUBSET Nat /\ M # {}
      <4>1. \A v \in Free : Size(v) \in Nat
        BY <1>6
      <4> HIDE DEF Size, Free
      <4> QED BY <4>1
    <3>2. PICK m \in M : \A j \in M : m <= j
      <4> HIDE DEF M
      <4> QED BY <3>1, LeastOf
    <3> HIDE DEF Size, Free
    <3> QED BY <3>2
  <2>2. u \in keys /\ u \notin done /\ ~Stuck(next, u)
    OBVIOUS
  <2>3. PICK d \in next[u] : d \notin done
    <3>1. u \in keys \ done
      BY <2>2
    <3>2. ~(next[u] \subseteq done)
      <4> HIDE DEF done
      <4> QED BY <3>1, <1>2 DEF done
    <3> HIDE DEF done
    <3> QED BY <3>2
  <2>4. d \in keys /\ d \in LeadsTo(next, u) /\ LeadsTo(next, d) \subseteq LeadsTo(next, u)
    BY <2>2, LeadsToFacts
  <2>5. ~Stuck(next, d)
    BY <2>2, <2>4 DEF Stuck
  <2>6. d \in Free
    BY <2>3, <2>4, <2>5
  <2>7. d \notin LeadsTo(next, d)
    BY <2>5 DEF Stuck
  <2>8. Size(d) # Size(u) /\ Size(d) <= Size(u)
    <3> DEFINE A == LeadsTo(next, u)  B == LeadsTo(next, d)
    <3>1. IsFiniteSet(A) /\ B \in SUBSET A /\ A # B
      BY <2>2, <2>4, <2>7, <1>6
    <3> HIDE DEF A, B
    <3>2. Cardinality(B) <= Cardinality(A) /\ Cardinality(A) # Cardinality(B)
      BY <3>1, FS_Subset
    <3> QED BY <3>2 DEF A, B
  <2> HIDE DEF Size, Free
  <2>9. Size(u) <= Size(d) /\ Size(u) \in Nat /\ Size(d) \in Nat
    BY <2>1, <2>2, <2>4, <2>6, <1>6
  <2> QED BY <2>8, <2>9
<1>8. ASSUME NEW k \in keys, ~Stuck(next, k), NEW r \in LeadsTo(next, k)  PROVE Before(o, r, k)
  <2>1. k \in done
    BY <1>7, <1>8
  <2>2. PICK i \in 1 .. n : o[i] = k
    BY <2>1, <1>4
  <2> DEFINE T == Upto(o, i)
  <2>3. T \in SUBSET keys
    <3>1. \A j \in 1 .. i - 1 : j \in 1 .. n
      BY <1>3
    <3> QED BY <3>1, <1>3 DEF Upto
  <2>4. next[k] \subseteq T
    BY <2>2, <1>2
  <2>5. ASSUME NEW t \in T  PROVE next[t] \subseteq T
    <3>1. PICK j \in 1 .. i - 1 : o[j] = t
      BY DEF Upto
    <3>2. j \in 1 .. n /\ \A l \in 1 .. j - 1 : l \in 1 .. i - 1
      BY <1>3
    <3>3. next[t] \subseteq Upto(o, j)
      BY <3>1, <3>2, <1>2
    <3>4. Upto(o, j) \subseteq T
      BY <3>2 DEF Upto
    <3> QED BY <3>3, <3>4
  <2>6. r \in T
    <3> HIDE DEF T
    <3>1. LeadsTo(next, k) \subseteq T
      BY <2>3, <2>4, <2>5, LeadsToFacts
    <3> QED BY <3>1
  <2>7. PICK j \in 1 .. i - 1 : o[j] = r
    BY <2>6 DEF Upto
  <2>8. j \in DOMAIN o /\ i \in DOMAIN o /\ j < i
    BY <1>3
  <2> QED BY <2>2, <2>7, <2>8 DEF Before
<1> QED BY <1>1, <1>8 DEF o

\* The members of a list, of its tail and of a list in front of it.
LEMMA MembersOfSeq ==
  ASSUME NEW A, NEW s \in Seq(A), NEW t \in Seq(A)
  PROVE  /\ ToSet(s) = {s[i] : i \in 1 .. Len(s)}
         /\ ToSet(s \o t) = ToSet(s) \cup ToSet(t)
         /\ s # <<>> => Head(s) \in A /\ Tail(s) \in Seq(A) /\ ToSet(s) = {Head(s)} \cup ToSet(Tail(s))
<1>1. \A u \in Seq(A) : ToSet(u) = {u[i] : i \in 1 .. Len(u)}
  BY DEF ToSet
<1>2. ToSet(s \o t) = ToSet(s) \cup ToSet(t)
  <2> DEFINE m == Len(s)  n == Len(t)  u == s \o t
  <2>1. u \in Seq(A) /\ Len(u) = m + n /\ m \in Nat /\ n \in Nat
    OBVIOUS
  <2>2. \A i \in 1 .. m : u[i] = s[i]
    OBVIOUS
  <2>3. \A i \in 1 .. n : u[m + i] = t[i]
    OBVIOUS
  <2>4. ToSet(u) = {u[i] : i \in 1 .. m + n} /\ ToSet(s) = {s[i] : i \in 1 .. m}
        /\ ToSet(t) = {t[i] : i \in 1 .. n}
    BY <1>1, <2>1
  <2> HIDE DEF u, m, n
  <2>5. \A i \in 1 .. m + n : i \in 1 .. m \/ (i - m \in 1 .. n /\ m + (i - m) = i)
    BY <2>1
  <2>6. \A i \in 1 .. m : i \in 1 .. m + n
    BY <2>1
  <2>7. \A i \in 1 .. n : m + i \in 1 .. m + n
    BY <2>1
  <2>8. ToSet(u) \subseteq ToSet(s) \cup ToSet(t)
    <3>1. ASSUME NEW i \in 1 .. m + n  PROVE u[i] \in ToSet(s) \cup ToSet(t)
      <4>1. CASE i \in 1 .. m
        BY <4>1, <2>2, <2>4
      <4>2. CASE i - m \in 1 .. n /\ m + (i - m) = i
        <5>1. u[i] = t[i - m]
          BY <4>2, <2>3
        <5> QED BY <5>1, <4>2, <2>4
      <4> QED BY <4>1, <4>2, <2>5
    <3> QED BY <3>1, <2>4
  <2>9. ToSet(s) \cup ToSet(t) \subseteq ToSet(u)
    BY <2>2, <2>3, <2>4, <2>6, <2>7
  <2> QED BY <2>8, <2>9 DEF u
<1>3. ASSUME s # <<>>
      PROVE  Head(s) \in A /\ Tail(s) \in Seq(A) /\ ToSet(s) = {Head(s)} \cup ToSet(Tail(s))
  <2> DEFINE n == Len(s)  u == Tail(s)
  <2>1. n \in Nat \ {0} /\ u \in Seq(A) /\ Len(u) = n - 1 /\ Head(s) = s[1] /\ s[1] \in A
    BY <1>3
  <2>2. \A i \in 1 .. n - 1 : u[i] = s[i + 1]
    BY <1>3
  <2>3. ToSet(u) = {u[i] : i \in 1 .. n - 1} /\ ToSet(s) = {s[i] : i \in 1 .. n}
    BY <1>1, <2>1
  <2> HIDE DEF u, n
  <2>4. \A i \in 1 .. n : i = 1 \/ (i - 1 \in 1 .. n - 1 /\ (i - 1) + 1 = i)
    BY <2>1
  <2>5. 1 \in 1 .. n /\ \A i \in 1 .. n - 1 : i + 1 \in 1 .. n
    BY <2>1
  <2>6. \A i \in 1 .. n : s[i] \in {s[1]} \cup ToSet(u)
    <3>1. ASSUME NEW i \in 1 .. n, i # 1  PROVE s[i] \in ToSet(u)
      <4>1. i - 1 \in 1 .. n - 1 /\ u[i - 1] = s[i]
        BY <3>1, <2>2, <2>4
      <4> QED BY <4>1, <2>3
    <3> QED BY <3>1
  <2>7. {s[1]} \cup ToSet(u) \subseteq ToSet(s)
    BY <2>2, <2>3, <2>5
  <2> QED BY <2>1, <2>3, <2>6, <2>7 DEF u
<1> QED BY <1>1, <1>2, <1>3

\* One line of renderTree.
Printed(lines, r) == \E i \in DOMAIN lines : lines[i][1] = r
EnterNext(deps, w) ==
  LET r == Head(w.todo)
  IN [todo  |-> (IF Printed(w.lines, r) THEN <<>> ELSE Sorted(deps[r])) \o Tail(w.todo),
      lines |-> Append(w.lines, <<r, Printed(w.lines, r)>>)]
PrintLine(deps, w) == IF w.todo = <<>> THEN w ELSE EnterNext(deps, w)

\* e is the sequence of states that the lines make.
Walks(deps, t, e) ==
  e = [n \in Nat |-> IF n = 0 THEN [todo |-> <<t>>, lines |-> <<>>] ELSE PrintLine(deps, e[n - 1])]
TreeStates(keys) == [todo : Seq(keys), lines : Seq(keys \X BOOLEAN)]

\* A line keeps the walk typed.
LEMMA PrintLineTyped ==
  ASSUME NEW keys \in SUBSET Nat, IsFiniteSet(keys), NEW deps \in [keys -> SUBSET keys],
         NEW w \in TreeStates(keys)
  PROVE  PrintLine(deps, w) \in TreeStates(keys)
<1>1. w.todo \in Seq(keys) /\ w.lines \in Seq(keys \X BOOLEAN)
  BY DEF TreeStates
<1>2. CASE w.todo = <<>>
  BY <1>2 DEF PrintLine
<1>3. CASE w.todo # <<>>
  <2> DEFINE r == Head(w.todo)  u == Tail(w.todo)  p == Printed(w.lines, r)
             a == IF p THEN <<>> ELSE Sorted(deps[r])
  <2>1. r \in keys /\ u \in Seq(keys)
    BY <1>1, <1>3, MembersOfSeq
  <2>2. a \in Seq(keys)
    <3>1. deps[r] \in SUBSET keys /\ deps[r] \in SUBSET Nat
      BY <2>1
    <3>2. IsFiniteSet(deps[r])
      BY <3>1, FS_Subset
    <3>3. Sorted(deps[r]) \in Seq(deps[r])
      BY <3>1, <3>2, SortedLists
    <3>4. Sorted(deps[r]) \in Seq(keys)
      BY <3>1, <3>3
    <3> QED BY <3>4
  <2>3. p \in BOOLEAN
    BY DEF Printed
  <2> HIDE DEF r, u, p, a
  <2>4. a \o u \in Seq(keys)
    BY <2>1, <2>2
  <2>5. Append(w.lines, <<r, p>>) \in Seq(keys \X BOOLEAN)
    BY <1>1, <2>1, <2>3
  <2>6. PrintLine(deps, w) = [todo |-> a \o u, lines |-> Append(w.lines, <<r, p>>)]
    BY <1>3 DEF PrintLine, EnterNext, a, u, r, p
  <2> QED BY <2>4, <2>5, <2>6 DEF TreeStates
<1> QED BY <1>2, <1>3

\* f begins with b, and each further element is made by a line.
Follows(S, deps, b, f) ==
  f \in [Nat -> S] /\ f[0] = b /\ \A n \in Nat : f[n + 1] = PrintLine(deps, f[n])

\* There is one such sequence.
LEMMA LinesFollow ==
  ASSUME NEW S, NEW deps, \A w \in S : PrintLine(deps, w) \in S, NEW b \in S
  PROVE  \E f : Follows(S, deps, b, f)
<1> DEFINE step == [w \in S |-> PrintLine(deps, w)]
<1>1. step \in [S -> S]
  OBVIOUS
<1>2. PICK f \in [Nat -> S] : f[0] = b /\ \A n \in Nat : f[n + 1] = step[f[n]]
  <2> HIDE DEF step
  <2> QED BY <1>1, Recursion
<1>3. ASSUME NEW n \in Nat  PROVE f[n + 1] = PrintLine(deps, f[n])
  <2>1. f[n] \in S
    OBVIOUS
  <2>2. step[f[n]] = PrintLine(deps, f[n])
    BY <2>1
  <2> HIDE DEF step
  <2> QED BY <1>2, <2>2
<1> QED BY <1>2, <1>3 DEF Follows

\* The walk of renderTree exists.
LEMMA WalkDefined ==
  ASSUME NEW keys \in SUBSET Nat, IsFiniteSet(keys), NEW deps \in [keys -> SUBSET keys],
         NEW t \in keys
  PROVE  \E e : Walks(deps, t, e)
<1> DEFINE b == [todo |-> <<t>>, lines |-> <<>>]
<1>1. b \in TreeStates(keys)
  BY DEF TreeStates
<1> HIDE DEF b
<1>2. \A w \in TreeStates(keys) : PrintLine(deps, w) \in TreeStates(keys)
  BY PrintLineTyped
<1>3. PICK f : Follows(TreeStates(keys), deps, b, f)
  BY <1>1, <1>2, LinesFollow
<1> USE DEF Follows
<1>4. ASSUME NEW n \in Nat  PROVE f[n] = IF n = 0 THEN b ELSE PrintLine(deps, f[n - 1])
  <2>1. CASE n # 0
    <3>1. n - 1 \in Nat /\ (n - 1) + 1 = n
      BY <2>1
    <3> QED BY <2>1, <3>1, <1>3
  <2> QED BY <2>1, <1>3
<1>5. Walks(deps, t, f)
  <2>1. f = [n \in Nat |-> f[n]]
    BY <1>3
  <2>2. f = [n \in Nat |-> IF n = 0 THEN b ELSE PrintLine(deps, f[n - 1])]
    BY <2>1, <1>4
  <2> QED BY <2>2 DEF Walks, b
<1> QED BY <1>5

\* The repos that the lines show in full, and the dependencies of the others.
Full(keys, lines) == {r \in keys : \E i \in DOMAIN lines : lines[i] = <<r, FALSE>>}
Pairs(keys, next, A) == {d \in keys \X keys : d[1] \in A /\ d[2] \in next[d[1]]}
Open(keys, next, w) == Cardinality(Pairs(keys, next, keys \ Full(keys, w.lines)))

\* What holds of the tree after each line: a repo is shown in full the first time
\* and once; what a shown repo uses is shown or is still to come.
TreeSoFar(keys, next, t, w) ==
  /\ w \in TreeStates(keys)
  /\ \A i \in DOMAIN w.lines : w.lines[i][1] \in Full(keys, w.lines)
  /\ \A i, j \in DOMAIN w.lines : w.lines[i] = w.lines[j] /\ w.lines[i][2] = FALSE => i = j
  /\ t \in Full(keys, w.lines) \cup ToSet(w.todo)
  /\ \A r \in Full(keys, w.lines) : next[r] \subseteq Full(keys, w.lines) \cup ToSet(w.todo)
  /\ Full(keys, w.lines) \cup ToSet(w.todo) \subseteq {t} \cup LeadsTo(next, t)

\* The dependencies of a set are those of one member and of the rest.
Splits(keys, next, A, r) ==
  /\ Cardinality(Pairs(keys, next, A)) \in Nat
  /\ Cardinality(Pairs(keys, next, A \ {r})) \in Nat
  /\ Cardinality(next[r]) \in Nat
  /\ Cardinality(Pairs(keys, next, A))
       = Cardinality(Pairs(keys, next, A \ {r})) + Cardinality(next[r])

\* Dependencies of different repos are different.
LEMMA PairsOfOne ==
  ASSUME NEW keys, IsFiniteSet(keys), NEW next \in [keys -> SUBSET keys],
         NEW A \in SUBSET keys, NEW r \in A
  PROVE  Splits(keys, next, A, r)
<1> DEFINE P == Pairs(keys, next, A)  Q == Pairs(keys, next, A \ {r})  R == P \ Q
           f == [d \in next[r] |-> <<r, d>>]
<1>1. IsFiniteSet(P)
  <2>1. IsFiniteSet(keys \X keys)
    BY FS_Product
  <2>2. P \in SUBSET (keys \X keys)
    BY DEF Pairs
  <2> HIDE DEF P
  <2> QED BY <2>1, <2>2, FS_Subset
<1>2. IsFiniteSet(next[r])
  <2>1. next[r] \in SUBSET keys
    OBVIOUS
  <2> QED BY <2>1, FS_Subset
<1>3. Q \subseteq P
  BY DEF Pairs
<1>4. \A d : d \in R <=> \E x \in next[r] : d = <<r, x>>
  <2>1. ASSUME NEW d \in R  PROVE \E x \in next[r] : d = <<r, x>>
    <3>1. d \in keys \X keys /\ d[1] \in A /\ d[2] \in next[d[1]] /\ ~(d[1] \in A \ {r} /\ d[2] \in next[d[1]])
      BY DEF Pairs
    <3>2. d[1] = r /\ d = <<d[1], d[2]>>
      BY <3>1
    <3> QED BY <3>1, <3>2
  <2>2. ASSUME NEW x \in next[r]  PROVE <<r, x>> \in R
    <3>1. r \in keys /\ x \in keys
      OBVIOUS
    <3>2. <<r, x>> \in keys \X keys /\ <<r, x>>[1] = r /\ <<r, x>>[2] = x
      BY <3>1
    <3> QED BY <3>2 DEF Pairs
  <2> HIDE DEF R
  <2> QED BY <2>1, <2>2
<1> HIDE DEF R
<1>5. f \in Bijection(next[r], R)
  <2>1. f \in [next[r] -> R]
    BY <1>4
  <2>2. \A x, y \in next[r] : f[x] = f[y] => x = y
    OBVIOUS
  <2>3. \A d \in R : \E x \in next[r] : f[x] = d
    BY <1>4
  <2> HIDE DEF f
  <2> QED BY <2>1, <2>2, <2>3 DEF Bijection, Injection, Surjection, IsInjective
<1>6. Cardinality(R) = Cardinality(next[r])
  BY <1>2, <1>5, FS_Bijection DEF ExistsBijection
<1>7. IsFiniteSet(Q) /\ Cardinality(R) = Cardinality(P) - Cardinality(Q)
  <2>1. P \cap Q = Q
    BY <1>3
  <2> HIDE DEF P, Q
  <2>2. Cardinality(P \ Q) = Cardinality(P) - Cardinality(P \cap Q)
    BY <1>1, FS_Difference
  <2>3. IsFiniteSet(Q)
    BY <1>1, <1>3, FS_Subset
  <2> QED BY <2>1, <2>2, <2>3 DEF R
<1> HIDE DEF P, Q
<1>8. Cardinality(P) \in Nat /\ Cardinality(Q) \in Nat /\ Cardinality(next[r]) \in Nat
  BY <1>1, <1>2, <1>7, FS_CardinalityType
<1>9. Cardinality(P) = Cardinality(Q) + Cardinality(next[r])
  BY <1>6, <1>7, <1>8
<1> QED BY <1>8, <1>9 DEF P, Q, Splits

\* A line keeps what holds of the tree, and each takes one off what is to come.
LEMMA PrintLineKeeps ==
  ASSUME NEW keys \in SUBSET Nat, IsFiniteSet(keys), NEW next \in [keys -> SUBSET keys],
         NEW t \in keys, NEW w, TreeSoFar(keys, next, t, w), w.todo # <<>>
  PROVE  /\ TreeSoFar(keys, next, t, PrintLine(next, w))
         /\ Open(keys, next, w) \in Nat /\ Open(keys, next, PrintLine(next, w)) \in Nat
         /\ Len(PrintLine(next, w).todo) + Open(keys, next, PrintLine(next, w)) + 1
              = Len(w.todo) + Open(keys, next, w)
<1> DEFINE r == Head(w.todo)  u == Tail(w.todo)  p == Printed(w.lines, r)
           a == IF p THEN <<>> ELSE Sorted(next[r])
           v == PrintLine(next, w)
           n == Len(w.lines)
           F == Full(keys, w.lines)  G == Full(keys, v.lines)
<1>1. w \in TreeStates(keys) /\ v \in TreeStates(keys)
  BY PrintLineTyped DEF TreeSoFar
<1>2. w.todo \in Seq(keys) /\ w.lines \in Seq(keys \X BOOLEAN) /\ n \in Nat /\ DOMAIN w.lines = 1 .. n
  BY <1>1 DEF TreeStates
<1>3. r \in keys /\ u \in Seq(keys) /\ ToSet(w.todo) = {r} \cup ToSet(u) /\ Len(u) + 1 = Len(w.todo) /\ Len(u) \in Nat
  BY <1>2, MembersOfSeq
<1>4. v.todo = a \o u /\ v.lines = Append(w.lines, <<r, p>>) /\ p \in BOOLEAN
  BY DEF PrintLine, EnterNext, Printed
<1>5. /\ DOMAIN v.lines = 1 .. n + 1 /\ v.lines[n + 1] = <<r, p>>
      /\ \A i \in 1 .. n : v.lines[i] = w.lines[i]
  BY <1>1, <1>2, <1>3, <1>4 DEF TreeStates
<1>6. /\ \A i \in 1 .. n : w.lines[i][1] \in F /\ w.lines[i] \in keys \X BOOLEAN
      /\ \A i, j \in 1 .. n : w.lines[i] = w.lines[j] /\ w.lines[i][2] = FALSE => i = j
      /\ t \in F \cup ToSet(w.todo)
      /\ \A x \in F : next[x] \subseteq F \cup ToSet(w.todo)
      /\ F \cup ToSet(w.todo) \subseteq {t} \cup LeadsTo(next, t)
  <2>1. \A i \in DOMAIN w.lines : w.lines[i][1] \in F
    BY DEF TreeSoFar
  <2>2. \A i, j \in DOMAIN w.lines : w.lines[i] = w.lines[j] /\ w.lines[i][2] = FALSE => i = j
    BY DEF TreeSoFar
  <2>3. /\ t \in F \cup ToSet(w.todo)
        /\ \A x \in F : next[x] \subseteq F \cup ToSet(w.todo)
        /\ F \cup ToSet(w.todo) \subseteq {t} \cup LeadsTo(next, t)
    BY DEF TreeSoFar
  <2>4. \A i \in 1 .. n : w.lines[i] \in keys \X BOOLEAN
    BY <1>2
  <2> HIDE DEF F, n
  <2> QED BY <2>1, <2>2, <2>3, <2>4, <1>2
<1>7. p <=> r \in F
  <2>1. ASSUME p  PROVE r \in F
    <3>1. PICK i \in 1 .. n : w.lines[i][1] = r
      BY <2>1, <1>2 DEF Printed
    <3> QED BY <3>1, <1>6
  <2>2. ASSUME r \in F  PROVE p
    <3>1. PICK i \in 1 .. n : w.lines[i] = <<r, FALSE>>
      BY <2>2, <1>2 DEF Full
    <3>2. w.lines[i][1] = r
      BY <3>1
    <3> QED BY <3>2, <1>2 DEF Printed
  <2> QED BY <2>1, <2>2
<1>8. /\ IsFiniteSet(next[r]) /\ next[r] \in SUBSET keys
      /\ a \in Seq(keys) /\ (p => a = <<>>)
      /\ ~p => ToSet(a) = next[r] /\ Len(a) = Cardinality(next[r])
  <2>1. next[r] \in SUBSET keys /\ next[r] \in SUBSET Nat
    BY <1>3
  <2>2. IsFiniteSet(next[r])
    BY <2>1, FS_Subset
  <2> DEFINE q == Sorted(next[r])  c == Cardinality(next[r])
  <2>3. q \in Seq(next[r]) /\ Len(q) = c /\ \A x \in next[r] : \E i \in 1 .. c : q[i] = x
    BY <2>1, <2>2, SortedLists
  <2> HIDE DEF q, c
  <2>4. q \in Seq(keys) /\ ToSet(q) = {q[i] : i \in 1 .. c} /\ \A i \in 1 .. c : q[i] \in next[r]
    BY <2>1, <2>3 DEF ToSet
  <2>5. ToSet(q) = next[r]
    <3>1. \A x \in next[r] : x \in ToSet(q)
      BY <2>3, <2>4
    <3>2. \A x \in ToSet(q) : x \in next[r]
      BY <2>4
    <3> QED BY <3>1, <3>2
  <2> QED BY <2>1, <2>2, <2>3, <2>4, <2>5 DEF q, c
<1>9. ToSet(v.todo) = ToSet(a) \cup ToSet(u) /\ Len(v.todo) = Len(a) + Len(u) /\ Len(a) \in Nat
  <2> HIDE DEF a, u, v
  <2> QED BY <1>3, <1>4, <1>8, MembersOfSeq
<1> HIDE DEF r, u, p, a, v, n
<1>10. \A i \in 1 .. n + 1 : i \in 1 .. n \/ i = n + 1
  BY <1>2
<1>11. \A i \in 1 .. n : i \in 1 .. n + 1
  BY <1>2
<1>12. n + 1 \in 1 .. n + 1
  BY <1>2
<1>13. G = F \cup (IF p THEN {} ELSE {r})
  <2>1. \A x \in keys : x \in F <=> \E i \in 1 .. n : w.lines[i] = <<x, FALSE>>
    BY <1>2 DEF Full
  <2>2. \A x \in keys : x \in G <=> \E i \in 1 .. n + 1 : v.lines[i] = <<x, FALSE>>
    BY <1>5 DEF Full
  <2>3. \A x \in keys : (\E i \in 1 .. n + 1 : v.lines[i] = <<x, FALSE>>) <=>
           (\E i \in 1 .. n : w.lines[i] = <<x, FALSE>>) \/ <<r, p>> = <<x, FALSE>>
    BY <1>5, <1>10, <1>11, <1>12
  <2>4. \A x \in keys : <<r, p>> = <<x, FALSE>> <=> ~p /\ x = r
    BY <1>4
  <2>5. F \subseteq keys /\ G \subseteq keys
    BY DEF Full
  <2> HIDE DEF F, G
  <2> QED BY <2>1, <2>2, <2>3, <2>4, <2>5, <1>3
<1> HIDE DEF F, G
<1>14. \A i \in 1 .. n + 1 : v.lines[i][1] \in G
  <2>1. \A i \in 1 .. n : v.lines[i][1] \in G
    BY <1>5, <1>6, <1>13
  <2>2. v.lines[n + 1][1] \in G
    BY <1>5, <1>7, <1>13
  <2> QED BY <2>1, <2>2, <1>10
<1>15. ASSUME NEW i \in 1 .. n + 1, NEW j \in 1 .. n + 1, v.lines[i] = v.lines[j], v.lines[i][2] = FALSE
       PROVE  i = j
  <2>1. ASSUME NEW l \in 1 .. n, w.lines[l] = <<r, p>>, p = FALSE  PROVE FALSE
    <3>1. w.lines[l][1] = r
      BY <2>1
    <3> QED BY <2>1, <3>1, <1>6, <1>7
  <2>2. CASE i = n + 1 /\ j \in 1 .. n
    <3>1. v.lines[i][2] = p /\ w.lines[j] = <<r, p>>
      BY <2>2, <1>5, <1>15
    <3> QED BY <3>1, <2>1, <1>15, <2>2
  <2>3. CASE j = n + 1 /\ i \in 1 .. n
    <3>1. v.lines[j][2] = p /\ w.lines[i] = <<r, p>>
      BY <2>3, <1>5, <1>15
    <3> QED BY <3>1, <2>1, <1>15, <2>3
  <2>4. CASE i \in 1 .. n /\ j \in 1 .. n
    BY <2>4, <1>5, <1>6, <1>15
  <2> QED BY <2>2, <2>3, <2>4, <1>10
<1>16. F \subseteq keys /\ G \subseteq keys
  BY DEF F, G, Full
<1>17. G \cup ToSet(v.todo) = (F \cup ToSet(w.todo)) \cup (IF p THEN {} ELSE next[r])
  <2>1. CASE p
    <3>1. ToSet(a) = {}
      BY <2>1, <1>8 DEF ToSet
    <3> QED BY <2>1, <3>1, <1>3, <1>7, <1>9, <1>13
  <2>2. CASE ~p
    BY <2>2, <1>3, <1>8, <1>9, <1>13
  <2> QED BY <2>1, <2>2
<1>18. t \in G \cup ToSet(v.todo)
  BY <1>6, <1>17
<1>19. ASSUME NEW x \in G  PROVE next[x] \subseteq G \cup ToSet(v.todo)
  <2>1. CASE x \in F
    BY <2>1, <1>6, <1>17
  <2>2. CASE x \notin F
    <3>1. x = r /\ ~p
      BY <2>2, <1>13, <1>19
    <3> QED BY <3>1, <1>17
  <2> QED BY <2>1, <2>2
<1>20. G \cup ToSet(v.todo) \subseteq {t} \cup LeadsTo(next, t)
  <2>1. r \in {t} \cup LeadsTo(next, t)
    BY <1>3, <1>6
  <2>2. next[r] \subseteq LeadsTo(next, t)
    BY <2>1, LeadsToFacts
  <2> QED BY <2>2, <1>6, <1>17
<1>21. TreeSoFar(keys, next, t, v)
  BY <1>1, <1>5, <1>14, <1>15, <1>18, <1>19, <1>20 DEF TreeSoFar, G
<1> DEFINE A == keys \ F  B == keys \ G
<1>22. /\ Cardinality(Pairs(keys, next, A)) \in Nat /\ Cardinality(Pairs(keys, next, B)) \in Nat
       /\ Len(v.todo) + Cardinality(Pairs(keys, next, B)) + 1
            = Len(w.todo) + Cardinality(Pairs(keys, next, A))
  <2>1. CASE p
    <3>1. A = B /\ Len(a) = 0
      BY <2>1, <1>8, <1>13
    <3>2. Cardinality(Pairs(keys, next, A)) \in Nat
      <4>1. IsFiniteSet(keys \X keys)
        BY FS_Product
      <4>2. Pairs(keys, next, A) \in SUBSET (keys \X keys)
        BY DEF Pairs
      <4>3. IsFiniteSet(Pairs(keys, next, A))
        BY <4>1, <4>2, FS_Subset
      <4> QED BY <4>3, FS_CardinalityType
    <3> HIDE DEF A, B
    <3> QED BY <3>1, <3>2, <1>3, <1>9
  <2>2. CASE ~p
    <3>1. A \in SUBSET keys /\ r \in A /\ B = A \ {r}
      BY <2>2, <1>3, <1>7, <1>13
    <3> HIDE DEF A, B
    <3>2. /\ Cardinality(Pairs(keys, next, A)) \in Nat
          /\ Cardinality(Pairs(keys, next, B)) \in Nat
          /\ Cardinality(next[r]) \in Nat
          /\ Cardinality(Pairs(keys, next, A))
               = Cardinality(Pairs(keys, next, B)) + Cardinality(next[r])
      <4>1. Splits(keys, next, A, r)
        BY <3>1, PairsOfOne
      <4> QED BY <3>1, <4>1 DEF Splits
    <3> QED BY <3>2, <2>2, <1>3, <1>8, <1>9
  <2> QED BY <2>1, <2>2
<1> QED BY <1>21, <1>22 DEF v, Open, F, G

\* renderTree on any dependencies: every repo below the terminal is shown in full
\* once, and no other is.
LEMMA TreeOfKeys ==
  ASSUME NEW keys \in SUBSET Nat, IsFiniteSet(keys), NEW next \in [keys -> SUBSET keys],
         NEW t \in keys
  PROVE  \A r \in keys :
           Cardinality({i \in DOMAIN RenderTree(t, next) : RenderTree(t, next)[i] = <<r, FALSE>>})
             = (IF r \in {t} \cup LeadsTo(next, t) THEN 1 ELSE 0)
<1> DEFINE e == CHOOSE e : Walks(next, t, e)
           P == Cardinality(Pairs(keys, next, keys))
<1>1. Walks(next, t, e)
  BY WalkDefined
<1>2. RenderTree(t, next) = e[1 + P].lines
  <2>1. DOMAIN next = keys
    OBVIOUS
  <2>2. Pairs(keys, next, keys) = {d \in (DOMAIN next) \X (DOMAIN next) : d[2] \in next[d[1]]}
    BY <2>1 DEF Pairs
  <2>3. RenderTree(t, next)
          = e[1 + Cardinality({d \in (DOMAIN next) \X (DOMAIN next) : d[2] \in next[d[1]]})].lines
    BY DEF RenderTree, Walks, PrintLine, EnterNext, Printed
  <2> HIDE DEF e
  <2> QED BY <2>2, <2>3
<1>3. P \in Nat
  <2>1. IsFiniteSet(keys \X keys)
    BY FS_Product
  <2>2. Pairs(keys, next, keys) \in SUBSET (keys \X keys)
    BY DEF Pairs
  <2>3. IsFiniteSet(Pairs(keys, next, keys))
    BY <2>1, <2>2, FS_Subset
  <2> QED BY <2>3, FS_CardinalityType
<1> HIDE DEF e, P
<1>4. e[0] = [todo |-> <<t>>, lines |-> <<>>] /\ \A n \in Nat : e[n + 1] = PrintLine(next, e[n])
  <2>1. \A n \in Nat : e[n] = IF n = 0 THEN [todo |-> <<t>>, lines |-> <<>>] ELSE PrintLine(next, e[n - 1])
    BY <1>1 DEF Walks
  <2>2. ASSUME NEW n \in Nat  PROVE e[n + 1] = PrintLine(next, e[n])
    <3>1. n + 1 \in Nat /\ n + 1 # 0 /\ (n + 1) - 1 = n
      OBVIOUS
    <3> QED BY <3>1, <2>1
  <2> QED BY <2>1, <2>2
<1> DEFINE Right(n) == /\ TreeSoFar(keys, next, t, e[n])
                       /\ e[n].todo # <<>> => n + Len(e[n].todo) + Open(keys, next, e[n]) = 1 + P
           Fine == {n \in Nat : Right(n)}
<1>5. 0 \in Fine
  <2> DEFINE w == [todo |-> <<t>>, lines |-> <<>>]
  <2>1. w \in TreeStates(keys) /\ w.todo = <<t>> /\ w.lines = <<>> /\ DOMAIN w.lines = {} /\ Len(w.todo) = 1
    BY DEF TreeStates
  <2>2. Full(keys, w.lines) = {} /\ ToSet(w.todo) = {t}
    <3>1. ToSet(<<t>>) = {t}
      BY DEF ToSet
    <3> QED BY <2>1, <3>1 DEF Full
  <2> HIDE DEF w
  <2>3. TreeSoFar(keys, next, t, w)
    BY <2>1, <2>2 DEF TreeSoFar
  <2>4. Open(keys, next, w) = P
    <3>1. keys \ Full(keys, w.lines) = keys
      BY <2>2
    <3> QED BY <3>1 DEF Open, P
  <2>5. e[0] = w
    BY <1>4 DEF w
  <2>6. Right(0)
    <3>1. 0 + Len(w.todo) + Open(keys, next, w) = 1 + P
      BY <2>1, <2>4, <1>3
    <3> QED BY <2>3, <2>5, <3>1
  <2> HIDE DEF Right
  <2> QED BY <2>6
<1>6. ASSUME NEW n \in Fine  PROVE n + 1 \in Fine
  <2>1. n \in Nat /\ Right(n) /\ e[n + 1] = PrintLine(next, e[n])
    BY <1>4
  <2>2. CASE e[n].todo = <<>>
    <3>1. e[n + 1] = e[n]
      BY <2>1, <2>2 DEF PrintLine
    <3>2. Right(n + 1)
      BY <2>1, <2>2, <3>1
    <3> HIDE DEF Right
    <3> QED BY <2>1, <3>2
  <2>3. CASE e[n].todo # <<>>
    <3> DEFINE w == e[n]  v == PrintLine(next, w)
    <3>1. /\ TreeSoFar(keys, next, t, v)
          /\ Open(keys, next, w) \in Nat /\ Open(keys, next, v) \in Nat
          /\ Len(v.todo) + Open(keys, next, v) + 1 = Len(w.todo) + Open(keys, next, w)
      BY <2>1, <2>3, PrintLineKeeps
    <3>2. Len(v.todo) \in Nat /\ Len(w.todo) \in Nat
      <4>1. v \in TreeStates(keys) /\ w \in TreeStates(keys)
        BY <2>1, <3>1 DEF TreeSoFar
      <4>2. v.todo \in Seq(keys) /\ w.todo \in Seq(keys)
        BY <4>1 DEF TreeStates
      <4> HIDE DEF v, w
      <4> QED BY <4>2
    <3>3. n + Len(w.todo) + Open(keys, next, w) = 1 + P
      BY <2>1, <2>3
    <3>4. e[n + 1] = v
      BY <2>1
    <3> HIDE DEF v, w
    <3>5. (n + 1) + Len(v.todo) + Open(keys, next, v) = 1 + P
      <4> DEFINE a == Len(v.todo)  b == Open(keys, next, v)  c == Len(w.todo)  d == Open(keys, next, w)
      <4>1. a \in Nat /\ b \in Nat /\ c \in Nat /\ d \in Nat /\ a + b + 1 = c + d /\ n + c + d = 1 + P /\ n \in Nat
        BY <3>1, <3>2, <3>3
      <4> HIDE DEF a, b, c, d, Fine, Right
      <4>2. (n + 1) + a + b = 1 + P
        BY <4>1, <1>3
      <4> QED BY <4>2 DEF a, b
    <3>6. Right(n + 1)
      BY <3>1, <3>4, <3>5
    <3> HIDE DEF Right
    <3> QED BY <2>1, <3>6
  <2> QED BY <2>2, <2>3
<1>7. Right(1 + P)
  <2>1. Fine \in SUBSET Nat
    OBVIOUS
  <2>2. 1 + P \in Fine
    <3>1. 1 + P \in Nat
      BY <1>3
    <3> HIDE DEF Fine
    <3> QED BY <2>1, <3>1, <1>5, <1>6, EveryNumber
  <2> HIDE DEF Right
  <2> QED BY <2>2
<1> DEFINE w == e[1 + P]
<1>8. TreeSoFar(keys, next, t, w) /\ w.todo \in Seq(keys) /\ w.lines \in Seq(keys \X BOOLEAN)
  BY <1>7 DEF TreeSoFar, TreeStates
<1>9. w.todo = <<>>
  <2> SUFFICES ASSUME w.todo # <<>>  PROVE FALSE
    OBVIOUS
  <2>1. (1 + P) + Len(w.todo) + Open(keys, next, w) = 1 + P
    BY <1>7
  <2>2. Open(keys, next, w) \in Nat
    BY <1>8, PrintLineKeeps
  <2> HIDE DEF w
  <2>3. Len(w.todo) \in Nat /\ Len(w.todo) # 0
    BY <1>8
  <2> DEFINE a == Len(w.todo)  b == Open(keys, next, w)
  <2> HIDE DEF a, b
  <2>4. a \in Nat /\ a # 0 /\ b \in Nat /\ (1 + P) + a + b = 1 + P
    BY <2>1, <2>2, <2>3 DEF a, b
  <2> QED BY <2>4, <1>3
<1> HIDE DEF w
<1> DEFINE F == Full(keys, w.lines)  L == LeadsTo(next, t)
<1>10. ToSet(w.todo) = {}
  BY <1>9 DEF ToSet
<1>11. F \in SUBSET keys /\ t \in F /\ (\A r \in F : next[r] \subseteq F) /\ F \subseteq {t} \cup L
  <2>1. F \in SUBSET keys
    BY DEF Full
  <2>2. t \in F \cup {} /\ (\A r \in F : next[r] \subseteq F \cup {}) /\ F \cup {} \subseteq {t} \cup L
    BY <1>8, <1>10 DEF TreeSoFar
  <2> QED BY <2>1, <2>2
<1>12. L \subseteq F
  <2> HIDE DEF F
  <2> QED BY <1>11, LeadsToFacts
<1>13. F = {t} \cup L
  BY <1>11, <1>12
<1>14. ASSUME NEW r \in keys
       PROVE  Cardinality({i \in DOMAIN w.lines : w.lines[i] = <<r, FALSE>>})
                = (IF r \in {t} \cup L THEN 1 ELSE 0)
  <2> DEFINE I == {i \in DOMAIN w.lines : w.lines[i] = <<r, FALSE>>}
  <2>1. CASE r \in F
    <3>1. PICK i \in DOMAIN w.lines : w.lines[i] = <<r, FALSE>>
      BY <2>1 DEF Full
    <3>2. \A j \in I : j = i
      <4>1. \A k, j \in DOMAIN w.lines : w.lines[k] = w.lines[j] /\ w.lines[k][2] = FALSE => k = j
        BY <1>8 DEF TreeSoFar
      <4>2. w.lines[i][2] = FALSE
        BY <3>1
      <4> QED BY <4>1, <4>2, <3>1
    <3>3. I = {i}
      BY <3>1, <3>2
    <3>4. Cardinality(I) = 1
      <4> HIDE DEF I
      <4> QED BY <3>3, FS_Singleton
    <3> HIDE DEF F, I
    <3> QED BY <2>1, <3>4, <1>13 DEF I
  <2>2. CASE r \notin F
    <3>1. I = {}
      BY <2>2 DEF Full
    <3>2. Cardinality(I) = 0
      <4> HIDE DEF I
      <4> QED BY <3>1, FS_EmptySet
    <3> HIDE DEF F, I
    <3> QED BY <2>2, <3>2, <1>13 DEF I
  <2> QED BY <2>1, <2>2
<1> QED BY <1>2, <1>14 DEF w

\* What FlakeInputs are made of.
InputSet == [alias : Nat, url : URL, flake : BOOLEAN]

\* What nix lists of a flake is typed, and names each input once.
LEMMA SpecsTyped ==
  ASSUME WorkspaceTypeOK, NEW c \in config.repos
  PROVE  /\ InputSpecs(W, c) \subseteq InputSet
         /\ \A i, j \in InputSpecs(W, c) : i.alias = j.alias => i = j
         /\ InputSpecs(W, c) # {} => HasFlakePath(W, c)
<1>1. c \in Keys
  BY DEF WorkspaceTypeOK
<1>2. inputs[c] \in FlakeInputs
  BY <1>1 DEF WorkspaceTypeOK
<1>3. inputs[c] \subseteq InputSet /\ \A i, j \in inputs[c] : i.alias = j.alias => i = j
  BY <1>2 DEF FlakeInputs, InputSet
<1> DEFINE L == {[i EXCEPT !.flake = TRUE] : i \in inputs[c]}
<1>4. L \subseteq InputSet /\ \A i, j \in L : i.alias = j.alias => i = j
  <2>1. \A i \in InputSet : /\ [i EXCEPT !.flake = TRUE] \in InputSet
                            /\ [i EXCEPT !.flake = TRUE].alias = i.alias
    BY DEF InputSet
  <2>2. L \subseteq InputSet
    BY <2>1, <1>3
  <2>3. ASSUME NEW i \in L, NEW j \in L, i.alias = j.alias  PROVE i = j
    <3>1. PICK x \in inputs[c] : i = [x EXCEPT !.flake = TRUE]
      OBVIOUS
    <3>2. PICK y \in inputs[c] : j = [y EXCEPT !.flake = TRUE]
      OBVIOUS
    <3>3. x.alias = y.alias
      <4>1. x \in InputSet /\ y \in InputSet
        BY <1>3
      <4>2. i.alias = x.alias /\ j.alias = y.alias
        BY <4>1, <3>1, <3>2, <2>1
      <4> QED BY <4>2, <2>3
    <3>4. x = y
      BY <3>3, <1>3
    <3> QED BY <3>1, <3>2, <3>4
  <2> QED BY <2>2, <2>3
<1>5. InputSpecs(W, c) \in {{}, inputs[c], L}
  BY DEF InputSpecs, W
<1>6. InputSpecs(W, c) # {} => HasFlakePath(W, c)
  BY DEF InputSpecs
<1> HIDE DEF L
<1> QED BY <1>3, <1>4, <1>5, <1>6

\* An edge joins an input that is a flake to a repo known under the input's URL.
Joins(c, i, t) == t # c /\ i.flake /\ CanonicalURL(i.url) \in CanonicalURLs(config, t)

\* The edges are exactly what Joins says, of declared repos with a flake.
LEMMA EdgesJoin ==
  ASSUME WorkspaceTypeOK
  PROVE  /\ \A e \in Edges(W) :
              /\ e.consumer \in config.repos /\ e.target \in config.repos /\ e.alias \in Nat
              /\ e = [consumer |-> e.consumer, alias |-> e.alias, target |-> e.target]
              /\ HasFlakePath(W, e.consumer) /\ e.consumer # e.target
              /\ \E i \in InputSpecs(W, e.consumer) : i.alias = e.alias /\ Joins(e.consumer, i, e.target)
         /\ \A c, t \in config.repos : \A i \in InputSpecs(W, c) :
              Joins(c, i, t) => [consumer |-> c, alias |-> i.alias, target |-> t] \in Edges(W)
<1> DEFINE T(c, i) == {r \in config.repos \ {c} : CanonicalURL(i.url) \in CanonicalURLs(config, r)}
           E(c, i) == {[consumer |-> c, alias |-> i.alias, target |-> t] : t \in T(c, i)}
           I(c) == {j \in InputSpecs(W, c) : j.flake}
           S(c) == UNION {E(c, i) : i \in I(c)}
<1>1. Edges(W) = UNION {S(c) : c \in config.repos}
  BY DEF Edges, W
<1>2. ASSUME NEW e \in Edges(W)
      PROVE  /\ e.consumer \in config.repos /\ e.target \in config.repos /\ e.alias \in Nat
             /\ e = [consumer |-> e.consumer, alias |-> e.alias, target |-> e.target]
             /\ HasFlakePath(W, e.consumer) /\ e.consumer # e.target
             /\ \E i \in InputSpecs(W, e.consumer) : i.alias = e.alias /\ Joins(e.consumer, i, e.target)
  <2>1. PICK c \in config.repos : e \in S(c)
    <3> HIDE DEF S
    <3> QED BY <1>1
  <2>2. PICK i \in I(c) : e \in E(c, i)
    <3> HIDE DEF E, I
    <3> QED BY <2>1
  <2>3. PICK t \in T(c, i) : e = [consumer |-> c, alias |-> i.alias, target |-> t]
    <3> HIDE DEF T
    <3> QED BY <2>2
  <2>4. e.consumer = c /\ e.alias = i.alias /\ e.target = t
    BY <2>3
  <2>5. i \in InputSpecs(W, c) /\ Joins(c, i, t)
    BY DEF Joins
  <2>6. i \in InputSet /\ HasFlakePath(W, c)
    BY <2>5, SpecsTyped
  <2>7. i.alias \in Nat
    BY <2>6 DEF InputSet
  <2>8. t \in config.repos /\ t # c
    OBVIOUS
  <2> HIDE DEF T, E, I, S
  <2> QED BY <2>3, <2>4, <2>5, <2>6, <2>7, <2>8
<1>3. ASSUME NEW c \in config.repos, NEW t \in config.repos, NEW i \in InputSpecs(W, c), Joins(c, i, t)
      PROVE  [consumer |-> c, alias |-> i.alias, target |-> t] \in Edges(W)
  <2>1. t \in T(c, i) /\ i \in I(c)
    BY <1>3 DEF Joins
  <2>2. [consumer |-> c, alias |-> i.alias, target |-> t] \in E(c, i)
    <3> HIDE DEF T
    <3> QED BY <2>1
  <2>3. [consumer |-> c, alias |-> i.alias, target |-> t] \in S(c)
    <3> HIDE DEF E, I
    <3> QED BY <2>1, <2>2
  <2> HIDE DEF S
  <2> QED BY <2>3, <1>1
<1> QED BY <1>2, <1>3

\* Dependencies lead from declared repos to declared repos; orderingDeps is WaitsFor.
LEMMA DepsTyped ==
  ASSUME WorkspaceTypeOK
  PROVE  /\ DependsOn(config.repos, Edges(W)) \in [config.repos -> SUBSET config.repos]
         /\ OrderingDeps(config, Edges(W)) = WaitsFor
         /\ WaitsFor \in [config.repos -> SUBSET config.repos]
         /\ config.repos \in SUBSET Nat /\ IsFiniteSet(config.repos) /\ config.repos \subseteq Keys
<1> DEFINE D == DependsOn(config.repos, Edges(W))  F == config.foundation  K == config.repos
           U(k) == {e.target : e \in {f \in Edges(W) : f.consumer = k}}
<1>1. K \subseteq Keys /\ F \subseteq K
  BY DEF WorkspaceTypeOK
<1>2. K \in SUBSET Nat /\ IsFiniteSet(K)
  BY <1>1, WorkspaceAssumption, FS_Subset
<1>3. \A k \in K : U(k) \subseteq K
  BY EdgesJoin
<1>4. D = [k \in K |-> U(k)]
  BY DEF DependsOn
<1>5. D \in [K -> SUBSET K]
  <2> HIDE DEF U, K, D
  <2> QED BY <1>3, <1>4
<1>6. OrderingDeps(config, Edges(W)) = [k \in K |-> IF k \in F THEN D[k] \cap F ELSE D[k] \cup F]
  BY DEF OrderingDeps
<1>7. ASSUME NEW k \in K
      PROVE  (IF k \in F THEN D[k] \cap F ELSE D[k] \cup F) =
             {d \in K : LET uses == \E e \in Edges(W) : e.consumer = k /\ e.target = d
                        IN IF k \in F THEN d \in F /\ uses ELSE d \in F \/ uses}
  <2>1. D[k] = U(k)
    <3> HIDE DEF U, D
    <3> QED BY <1>4
  <2>2. \A d : d \in U(k) <=> \E e \in Edges(W) : e.consumer = k /\ e.target = d
    OBVIOUS
  <2>3. U(k) \subseteq K
    BY <1>3
  <2> HIDE DEF U, D, F, K
  <2>4. CASE k \in F
    BY <2>1, <2>2, <2>3, <2>4, <1>1
  <2>5. CASE k \notin F
    BY <2>1, <2>2, <2>3, <2>5, <1>1
  <2> QED BY <2>4, <2>5
<1>8. WaitsFor = [k \in K |->
             {d \in K : LET uses == \E e \in Edges(W) : e.consumer = k /\ e.target = d
                        IN IF k \in F THEN d \in F /\ uses ELSE d \in F \/ uses}]
  BY DEF WaitsFor
<1>9. OrderingDeps(config, Edges(W)) = WaitsFor
  <2> HIDE DEF D, F, K
  <2> QED BY <1>6, <1>7, <1>8
<1>10. WaitsFor \in [K -> SUBSET K]
  <2> HIDE DEF F, K
  <2> QED BY <1>8
<1> QED BY <1>1, <1>2, <1>5, <1>9, <1>10

\* The declared repos with a flake.
FlakeRepos == {r \in config.repos : HasFlakePath(W, r)}

\* A detected terminal has a flake, is ordinary, and is used by no repo with a flake.
LEMMA DetectedIsFree ==
  ASSUME NEW edges, NEW F, IsFiniteSet(F), NEW foundation,
         AutoDetectTerminal(edges, F, foundation) # NoRepo
  PROVE  /\ AutoDetectTerminal(edges, F, foundation) \in F \ foundation
         /\ \A e \in edges : e.consumer \in F => e.target # AutoDetectTerminal(edges, F, foundation)
<1> DEFINE inner == {e \in edges : e.consumer \in F /\ e.target \in F}
           sinks == F \ (Consumed(inner, F) \cup foundation)
           connected == {s \in sinks : \E e \in inner : e.consumer = s /\ e.target # s}
           t == AutoDetectTerminal(edges, F, foundation)
<1>1. Cardinality(connected) = 1 /\ t = CHOOSE x \in connected : TRUE
  BY DEF AutoDetectTerminal
<1>2. t \in connected
  <2>1. connected \in SUBSET F
    OBVIOUS
  <2> HIDE DEF connected, t
  <2>2. IsFiniteSet(connected)
    BY <2>1, FS_Subset
  <2>3. \E x : connected = {x}
    BY <1>1, <2>2, FS_Singleton
  <2> QED BY <1>1, <2>3
<1> HIDE DEF t
<1>3. t \in F /\ t \notin foundation /\ t \notin Consumed(inner, F)
  BY <1>2
<1>4. ASSUME NEW e \in edges, e.consumer \in F, e.target = t  PROVE FALSE
  <2>1. e \in inner
    BY <1>3, <1>4
  <2> HIDE DEF inner
  <2> QED BY <1>3, <1>4, <2>1 DEF Consumed
<1> QED BY <1>3, <1>4 DEF t

\* What deriveLock makes of a definition that has no fatal error.
LEMMA Derived ==
  ASSUME WorkspaceTypeOK, NEW flag \in Keys \cup {NoRepo}, ~Derive(W, flag).fatal
  PROVE  LET d == Derive(W, flag).lock
         IN /\ ~DuplicateURL(config) /\ ~TerminalRefused(config, flag)
            /\ d.terminal = ResolveTerminal(config, flag, Edges(W), FlakeRepos)
            /\ d.order = OrderByDeps(config.repos, WaitsFor)
            /\ d.repos = config.repos /\ d.flake = FlakeRepos /\ d.edges = Edges(W)
            /\ d = [terminal |-> d.terminal, order |-> d.order, repos |-> d.repos,
                    flake |-> d.flake, edges |-> d.edges]
            /\ IsFiniteSet(FlakeRepos)
            /\ d.terminal \in config.repos \cup {NoRepo, config.terminal}
<1> DEFINE d == Derive(W, flag)
           l == [terminal |-> ResolveTerminal(config, flag, Edges(W), FlakeRepos),
                 order |-> OrderByDeps(config.repos, WaitsFor),
                 repos |-> config.repos, flake |-> FlakeRepos, edges |-> Edges(W)]
<1>1. W.cfg = config
  BY DEF W
<1>2. ~DuplicateURL(config) /\ ~TerminalRefused(config, flag)
  BY <1>1 DEF Derive
<1>3. d.lock = l
  BY <1>1, <1>2, DepsTyped DEF Derive, FlakeRepos
<1>4. IsFiniteSet(FlakeRepos) /\ FlakeRepos \subseteq config.repos
  <2>1. FlakeRepos \in SUBSET config.repos
    BY DEF FlakeRepos
  <2> QED BY <2>1, DepsTyped, FS_Subset
<1>5. l.terminal \in config.repos \cup {NoRepo, config.terminal}
  <2>1. CASE flag # NoRepo
    BY <1>2, <2>1 DEF TerminalRefused, ResolveTerminal
  <2>2. CASE flag = NoRepo /\ config.terminal # NoRepo
    BY <2>2 DEF ResolveTerminal
  <2>3. CASE flag = NoRepo /\ config.terminal = NoRepo
    <3>1. l.terminal = AutoDetectTerminal(Edges(W), FlakeRepos, config.foundation)
      BY <2>3 DEF ResolveTerminal
    <3> HIDE DEF l
    <3> QED BY <3>1, <1>4, DetectedIsFree
  <2> QED BY <2>1, <2>2, <2>3
<1> HIDE DEF d
<1> QED BY <1>2, <1>3, <1>4, <1>5 DEF d

\* Every step keeps the types, and a foundation repo declared.
LEMMA WorkspaceTypeStep ==
  WorkspaceTypeOK /\ [WorkspaceNext]_workspaceVars => WorkspaceTypeOK'
<1> SUFFICES ASSUME WorkspaceTypeOK, [WorkspaceNext]_workspaceVars  PROVE WorkspaceTypeOK'
  OBVIOUS
<1> DEFINE ConfigOK == /\ config \in [repos : SUBSET Keys, foundation : SUBSET Keys,
                             located : SUBSET Keys, terminal : Keys \cup {NoRepo},
                             url : [Keys -> URL], mirrors : [Keys -> SUBSET URL],
                             remotes : [Keys -> SUBSET URL]]
                       /\ config.foundation \subseteq config.repos
           LockOK == lock \in [terminal : Keys \cup {NoRepo}, order : Seq(Keys), repos : SUBSET Keys,
                               flake : SUBSET Keys,
                               edges : SUBSET [consumer : Keys, alias : Nat, target : Keys]]
           DiskOK == cloned \subseteq Keys /\ nameless \subseteq Keys /\ flakes \subseteq Keys
           NixOK == eval \in [Keys -> Evaluations] /\ inputs \in [Keys -> FlakeInputs]
           RestOK == allowed \in BOOLEAN /\ acts \in Nat
<1>0. (WorkspaceTypeOK <=> ConfigOK /\ LockOK /\ DiskOK /\ NixOK /\ RestOK)
      /\ (WorkspaceTypeOK' <=> ConfigOK' /\ LockOK' /\ DiskOK' /\ NixOK' /\ RestOK')
  BY DEF WorkspaceTypeOK
<1>a. ConfigOK /\ LockOK /\ DiskOK /\ NixOK /\ RestOK
  BY <1>0
<1>1. CASE UNCHANGED workspaceVars
  BY <1>1, <1>a, <1>0 DEF workspaceVars
<1>2. CASE InitCmd
  <2>1. UNCHANGED <<lock, cloned, nameless, flakes, eval, inputs, allowed, acts>>
    BY <1>2 DEF InitCmd
  <2> DEFINE new == cloned \ config.repos
             all == config.repos \cup new  found == (config.located \ new) \cup (new \ nameless)
  <2>2. config' = [config EXCEPT !.repos = all, !.located = found]
    BY <1>2 DEF InitCmd
  <2>3. all \subseteq Keys /\ found \subseteq Keys /\ config.repos \subseteq all
    BY <1>a
  <2> HIDE DEF all, found
  <2>4. ConfigOK'
    BY <2>2, <2>3, <1>a
  <2> QED BY <2>1, <2>4, <1>a, <1>0
<1>3. CASE CloneCmd
  <2>1. UNCHANGED <<config, lock, flakes, eval, inputs, allowed, acts>> /\ nameless' \subseteq nameless
    BY <1>3 DEF CloneCmd
  <2> DEFINE S == config.repos \ cloned  todo == Sorted(S)
  <2>2. S \in SUBSET Nat /\ S \subseteq Keys /\ IsFiniteSet(S)
    <3>1. S \in SUBSET config.repos
      OBVIOUS
    <3> QED BY <3>1, DepsTyped, FS_Subset
  <2>3. PICK k \in 1 .. Len(todo) : cloned' = cloned \cup {todo[i] : i \in 1 .. k}
    BY <1>3 DEF CloneCmd
  <2> HIDE DEF S
  <2>4. todo \in Seq(S)
    BY <2>2, SortedLists
  <2> HIDE DEF todo
  <2>5. \A i \in 1 .. k : todo[i] \in S
    BY <2>4
  <2>6. cloned' \subseteq Keys
    <3>1. cloned \subseteq Keys
      BY <1>a
    <3>2. {todo[i] : i \in 1 .. k} \subseteq Keys
      BY <2>2, <2>5
    <3> QED BY <2>3, <3>1, <3>2
  <2>7. DiskOK'
    BY <2>1, <2>6, <1>a
  <2> QED BY <2>1, <2>7, <1>a, <1>0
<1>4. ASSUME NEW flag \in Keys \cup {NoRepo}, NEW allow \in BOOLEAN, LockCmd(flag, allow)
      PROVE  WorkspaceTypeOK'
  <2>1. UNCHANGED <<config, cloned, nameless, flakes, eval, inputs, acts>> /\ allowed' \in BOOLEAN
    BY <1>4 DEF LockCmd
  <2> DEFINE d == Derive(W, flag).lock
  <2>2. lock' = d /\ ~Derive(W, flag).fatal
    BY <1>4 DEF LockCmd, LockIsWritten
  <2>3. /\ d.order = OrderByDeps(config.repos, WaitsFor)
        /\ d.repos = config.repos /\ d.flake = FlakeRepos /\ d.edges = Edges(W)
        /\ d = [terminal |-> d.terminal, order |-> d.order, repos |-> d.repos,
                flake |-> d.flake, edges |-> d.edges]
        /\ d.terminal \in config.repos \cup {NoRepo, config.terminal}
    BY <2>2, Derived
  <2> HIDE DEF d
  <2>4. config.repos \subseteq Keys /\ d.terminal \in Keys \cup {NoRepo}
    BY <2>3, <1>a
  <2>5. d.order \in Seq(Keys)
    <3>1. OrderByDeps(config.repos, WaitsFor) \in Seq(config.repos)
      BY DepsTyped, OrderFacts
    <3> QED BY <3>1, <2>3, <2>4
  <2>6. d.edges \subseteq [consumer : Keys, alias : Nat, target : Keys]
    <3>1. ASSUME NEW e \in Edges(W)  PROVE e \in [consumer : Keys, alias : Nat, target : Keys]
      <4>1. /\ e.consumer \in Keys /\ e.target \in Keys /\ e.alias \in Nat
            /\ e = [consumer |-> e.consumer, alias |-> e.alias, target |-> e.target]
        BY <2>4, EdgesJoin
      <4> QED BY <4>1
    <3> QED BY <3>1, <2>3
  <2>7. FlakeRepos \subseteq Keys
    BY <2>4 DEF FlakeRepos
  <2>8. LockOK'
    BY <2>2, <2>3, <2>4, <2>5, <2>6, <2>7
  <2> QED BY <2>1, <2>8, <1>a, <1>0
<1>5. ASSUME NEW r \in Keys, Declares(r) \/ Undeclares(r) \/ NamesTerminal(r)  PROVE WorkspaceTypeOK'
  <2>1. UNCHANGED <<lock, cloned, nameless, flakes, eval, inputs, allowed>> /\ acts' \in Nat
    BY <1>5, <1>a DEF Declares, Undeclares, NamesTerminal, Counted
  <2>2. ConfigOK'
    <3>1. CASE Declares(r)
      BY <3>1, <1>a DEF Declares
    <3>2. CASE Undeclares(r)
      BY <3>2, <1>a DEF Undeclares
    <3>3. CASE NamesTerminal(r)
      BY <3>3, <1>a DEF NamesTerminal
    <3> QED BY <3>1, <3>2, <3>3, <1>5
  <2> QED BY <2>1, <2>2, <1>a, <1>0
<1>6. ASSUME NEW r \in Keys, Deletes(r) \/ Creates(r)  PROVE WorkspaceTypeOK'
  <2>1. UNCHANGED <<config, lock, flakes, eval, inputs, allowed>> /\ acts' \in Nat
    BY <1>6, <1>a DEF Deletes, Creates, Counted
  <2>2. DiskOK'
    BY <1>6, <2>1, <1>a DEF Deletes, Creates
  <2> QED BY <2>1, <2>2, <1>a, <1>0
<1>7. ASSUME NEW r \in Keys, Breaks(r)  PROVE WorkspaceTypeOK'
  <2>1. UNCHANGED <<config, lock, cloned, nameless, flakes, inputs, allowed>> /\ acts' \in Nat
    BY <1>7, <1>a DEF Breaks, Counted
  <2>2. NixOK'
    BY <1>7, <2>1, <1>a DEF Breaks
  <2> QED BY <2>1, <2>2, <1>a, <1>0
<1>8. ASSUME NEW r \in Keys, NEW targets \in SUBSET (Keys \ {r}), RewritesFlake(r, targets)
      PROVE  WorkspaceTypeOK'
  <2>1. UNCHANGED <<config, lock, cloned, nameless, flakes, eval, allowed>> /\ acts' \in Nat
    BY <1>8, <1>a DEF RewritesFlake, Counted
  <2> DEFINE I == {InputOf(t) : t \in targets}
  <2>2. I \in FlakeInputs
    <3>1. \A t \in Keys : InputOf(t) \in [alias : Nat, url : URL, flake : BOOLEAN] /\ InputOf(t).alias = t
      <4>1. \A t \in Keys : URLOf(t) \in URL
        BY WorkspaceAssumption DEF URLOf, URL, Forms, Extras
      <4>2. ASSUME NEW t \in Keys
            PROVE  InputOf(t) \in [alias : Nat, url : URL, flake : BOOLEAN] /\ InputOf(t).alias = t
        <5>1. URLOf(t) \in URL /\ t \in Nat
          BY <4>1, WorkspaceAssumption
        <5> QED BY <5>1 DEF InputOf
      <4> QED BY <4>2
    <3> QED BY <3>1 DEF FlakeInputs
  <2> HIDE DEF I
  <2>3. NixOK'
    BY <1>8, <2>1, <2>2, <1>a DEF RewritesFlake, I
  <2> QED BY <2>1, <2>3, <1>a, <1>0
<1>9. WorkspaceNext =>
        \/ InitCmd \/ CloneCmd
        \/ \E flag \in Keys \cup {NoRepo}, allow \in BOOLEAN : LockCmd(flag, allow)
        \/ \E r \in Keys :
             \/ Declares(r) \/ Undeclares(r) \/ NamesTerminal(r)
             \/ Deletes(r) \/ Creates(r) \/ Breaks(r)
             \/ \E targets \in SUBSET (Keys \ {r}) : RewritesFlake(r, targets)
  BY DEF WorkspaceNext, Commands, UserActsOn
<1> QED BY <1>1, <1>2, <1>3, <1>4, <1>5, <1>6, <1>7, <1>8, <1>9

\* Two URLs that name one repo of one host.
SameRepo(u, v) == u.form # "path" /\ v.form # "path" /\ u.name = v.name /\ u.host = v.host

\* canonicalURL: two URLs that match name the same repo of the same host; two
\* plain URLs of one repo match.
LEMMA CanonicalFacts ==
  ASSUME NEW u \in URL, NEW v \in URL
  PROVE  /\ CanonicalURL(u) = CanonicalURL(v) /\ CanonicalURL(u) # NoURL => SameRepo(u, v)
         /\ SameRepo(u, v) /\ u.extra = "none" /\ v.extra = "none" =>
              CanonicalURL(u) = CanonicalURL(v) /\ CanonicalURL(u) # NoURL
<1>1. u.name # NoRepo /\ v.name # NoRepo
  BY WorkspaceAssumption DEF URL
<1>2. \A x \in URL : x.form = "path" => CanonicalURL(x) = NoURL
  BY DEF CanonicalURL
<1>3. \A x \in URL : x.form # "path" => CanonicalURL(x).host = x.host /\ CanonicalURL(x).name = x.name
  BY DEF CanonicalURL
<1>4. \A x \in URL : x.form # "path" /\ x.extra = "none" =>
        CanonicalURL(x) = [host |-> x.host, name |-> x.name, left |-> "none"]
  BY DEF CanonicalURL
<1>5. ASSUME CanonicalURL(u) = CanonicalURL(v), CanonicalURL(u) # NoURL  PROVE SameRepo(u, v)
  BY <1>2, <1>3, <1>5 DEF SameRepo
<1>6. ASSUME SameRepo(u, v), u.extra = "none", v.extra = "none"
      PROVE  CanonicalURL(u) = CanonicalURL(v) /\ CanonicalURL(u) # NoURL
  <2>1. u.form # "path" /\ v.form # "path" /\ u.name = v.name /\ u.host = v.host
    BY <1>6 DEF SameRepo
  <2>2. CanonicalURL(u) = [host |-> u.host, name |-> u.name, left |-> "none"]
        /\ CanonicalURL(v) = [host |-> v.host, name |-> v.name, left |-> "none"]
    BY <2>1, <1>4, <1>6
  <2>3. CanonicalURL(u).name # NoURL.name
    BY <2>2, <1>1 DEF NoURL
  <2> QED BY <2>1, <2>2, <2>3
<1> QED BY <1>5, <1>6

\* EdgesAreExact needs no more than the types.
LEMMA TypedEdgesAreExact ==
  WorkspaceTypeOK => EdgesAreExact
<1> SUFFICES ASSUME WorkspaceTypeOK, NEW c \in config.repos, NEW r \in config.repos, c # r,
                    ~DuplicateURL(config), NEW i \in InputSpecs(W, c)
             PROVE  LET joined == \E e \in Edges(W) : e.consumer = c /\ e.alias = i.alias /\ e.target = r
                        urls == {config.url[r]} \cup config.mirrors[r]
                    IN /\ joined => \E u \in urls : SameRepo(u, i.url)
                       /\ (\E u \in urls : SameRepo(u, i.url) /\ u.extra = "none")
                            /\ i.url.extra = "none" /\ i.flake => joined
  <2>1. \A u, x : (u.form # "path" /\ x.url.form # "path" /\ u.name = x.url.name /\ u.host = x.url.host)
                    <=> SameRepo(u, x.url)
    BY DEF SameRepo
  <2> QED BY <2>1 DEF EdgesAreExact
<1> DEFINE urls == {config.url[r]} \cup config.mirrors[r]
           joined == \E e \in Edges(W) : e.consumer = c /\ e.alias = i.alias /\ e.target = r
<1>1. urls \subseteq URL /\ i.url \in URL
  <2>1. r \in Keys /\ config.url \in [Keys -> URL] /\ config.mirrors \in [Keys -> SUBSET URL]
    BY DEF WorkspaceTypeOK
  <2>2. i \in InputSet
    BY SpecsTyped
  <2> QED BY <2>1, <2>2 DEF InputSet
<1>2. CanonicalURLs(config, r) = {CanonicalURL(u) : u \in urls} \ {NoURL}
  BY DEF CanonicalURLs
<1> HIDE DEF urls
<1>3. ASSUME joined  PROVE \E u \in urls : SameRepo(u, i.url)
  <2>1. PICK e \in Edges(W) : e.consumer = c /\ e.alias = i.alias /\ e.target = r
    BY <1>3
  <2>2. PICK j \in InputSpecs(W, c) : j.alias = i.alias /\ Joins(c, j, r)
    BY <2>1, EdgesJoin
  <2>3. j = i
    BY <2>2, SpecsTyped
  <2>4. CanonicalURL(i.url) \in CanonicalURLs(config, r)
    BY <2>2, <2>3 DEF Joins
  <2>5. PICK u \in urls : CanonicalURL(i.url) = CanonicalURL(u) /\ CanonicalURL(u) # NoURL
    BY <2>4, <1>2
  <2>6. SameRepo(u, i.url)
    BY <2>5, <1>1, CanonicalFacts
  <2> QED BY <2>6
<1>4. ASSUME NEW u \in urls, SameRepo(u, i.url), u.extra = "none", i.url.extra = "none", i.flake
      PROVE  joined
  <2>1. CanonicalURL(u) = CanonicalURL(i.url) /\ CanonicalURL(u) # NoURL
    BY <1>1, <1>4, CanonicalFacts
  <2>2. CanonicalURL(i.url) \in CanonicalURLs(config, r)
    BY <2>1, <1>2
  <2>3. Joins(c, i, r)
    BY <2>2, <1>4 DEF Joins
  <2>4. [consumer |-> c, alias |-> i.alias, target |-> r] \in Edges(W)
    BY <2>3, EdgesJoin
  <2> QED BY <2>4
<1> QED BY <1>3, <1>4 DEF urls

\* Order and tree, from OrderOfKeys and TreeOfKeys.
LEMMA TypedListingsAreSound ==
  WorkspaceTypeOK => ListingsAreSound
<1> SUFFICES ASSUME WorkspaceTypeOK  PROVE OrderIsSound /\ TreeShowsAll
  BY DEF ListingsAreSound
<1>1. OrderIsSound
  <2> DEFINE d == Derive(W, NoRepo)
  <2> SUFFICES ASSUME ~d.fatal
               PROVE  /\ ToSet(d.lock.order) = config.repos /\ Len(d.lock.order) = Cardinality(config.repos)
                      /\ \A k \in config.repos : ~Stuck(WaitsFor, k) =>
                           \A r \in LeadsTo(WaitsFor, k) : Before(d.lock.order, r, k)
    BY DEF OrderIsSound, Stuck
  <2>1. d.lock.order = OrderByDeps(config.repos, WaitsFor)
    BY Derived
  <2> HIDE DEF d
  <2> QED BY <2>1, DepsTyped, OrderOfKeys
<1>2. TreeShowsAll
  <2> DEFINE uses == DependsOn(config.repos, Edges(W))
  <2>1. uses \in [config.repos -> SUBSET config.repos]
    BY DepsTyped
  <2> SUFFICES ASSUME NEW t \in config.repos
               PROVE  \A r \in config.repos :
                        Cardinality({i \in DOMAIN RenderTree(t, uses) : RenderTree(t, uses)[i] = <<r, FALSE>>})
                          = (IF r \in {t} \cup LeadsTo(uses, t) THEN 1 ELSE 0)
    BY DEF TreeShowsAll
  <2> HIDE DEF uses
  <2> QED BY <2>1, DepsTyped, TreeOfKeys
<1> QED BY <1>1, <1>2

\* The terminals: a detected one is consumed by no flake, so discover finds it free.
LEMMA TypedTerminalsAgree ==
  WorkspaceTypeOK => TerminalsAgree
<1> DEFINE d == Derive(W, NoRepo)
           detected == AutoDetectTerminal(d.lock.edges, d.lock.flake, config.foundation)
           bare == [config EXCEPT !.terminal = NoRepo]
           selected == SelectTerminal(bare, SlugEdges(W), NoRepo)
<1> SUFFICES ASSUME WorkspaceTypeOK, ~d.fatal
             PROVE  /\ detected # NoRepo /\ lock = EmptyLock => detected \in TerminalCandidates(W)
                    /\ detected # NoRepo /\ selected # NoRepo /\ SlugEdges(W) = d.lock.edges =>
                         detected = selected
                    /\ {d.lock.terminal, selected, RequireTerminal(W, NoRepo)} \cap config.foundation = {}
  BY DEF TerminalsAgree
<1>1. /\ ~TerminalRefused(config, NoRepo)
      /\ d.lock.terminal = ResolveTerminal(config, NoRepo, Edges(W), FlakeRepos)
      /\ d.lock.repos = config.repos /\ d.lock.flake = FlakeRepos /\ d.lock.edges = Edges(W)
      /\ IsFiniteSet(FlakeRepos)
  BY Derived
<1> HIDE DEF d
<1>2. NoRepo \notin config.foundation /\ config.foundation \subseteq config.repos /\ IsFiniteSet(config.repos)
  BY WorkspaceAssumption, DepsTyped DEF WorkspaceTypeOK
<1>3. FlakeRepos \subseteq config.repos
  BY DEF FlakeRepos
<1>4. detected # NoRepo =>
        detected \in FlakeRepos \ config.foundation /\ \A e \in Edges(W) : e.target # detected
  <2>1. \A e \in Edges(W) : e.consumer \in FlakeRepos
    BY EdgesJoin DEF FlakeRepos
  <2> QED BY <2>1, <1>1, DetectedIsFree
<1>5. ASSUME detected # NoRepo, lock = EmptyLock  PROVE detected \in TerminalCandidates(W)
  <2>1. EffectiveLock(W).edges \subseteq Edges(W)
    <3>1. EffectiveLock(W) = EmptyLock \/ EffectiveLock(W) = d.lock
      BY <1>5 DEF EffectiveLock, W, d
    <3> QED BY <3>1, <1>1 DEF EmptyLock
  <2> HIDE DEF detected
  <2> QED BY <2>1, <1>3, <1>4, <1>5 DEF TerminalCandidates, FlakeRepos, W
<1> DEFINE free == config.repos \ Consumed(SlugEdges(W), config.repos)
           candidates == free \ config.foundation
<1>6. selected = IF Cardinality(candidates) = 1 THEN CHOOSE t \in candidates : TRUE ELSE NoRepo
  <2>1. bare.terminal = NoRepo /\ bare.foundation = config.foundation /\ bare.repos = config.repos
    BY DEF WorkspaceTypeOK
  <2> HIDE DEF bare
  <2>2. {NoRepo, NoRepo} \cap config.foundation = {}
    BY <1>2
  <2> QED BY <2>1, <2>2 DEF SelectTerminal
<1>7. selected # NoRepo => candidates = {selected}
  <2> SUFFICES ASSUME selected # NoRepo  PROVE candidates = {selected}
    OBVIOUS
  <2>1. Cardinality(candidates) = 1 /\ selected = CHOOSE t \in candidates : TRUE
    BY <1>6
  <2>2. candidates \in SUBSET config.repos
    OBVIOUS
  <2> HIDE DEF candidates, selected
  <2>3. IsFiniteSet(candidates)
    BY <2>2, <1>2, FS_Subset
  <2>4. PICK x : candidates = {x}
    BY <2>1, <2>3, FS_Singleton
  <2> QED BY <2>1, <2>4
<1> HIDE DEF detected, selected
<1>8. ASSUME detected # NoRepo, selected # NoRepo, SlugEdges(W) = d.lock.edges
      PROVE  detected = selected
  <2>1. detected \notin Consumed(SlugEdges(W), config.repos)
    BY <1>1, <1>4, <1>8 DEF Consumed
  <2>2. detected \in candidates
    BY <2>1, <1>3, <1>4, <1>8
  <2> QED BY <2>2, <1>7, <1>8
<1>9. d.lock.terminal \notin config.foundation
  <2>1. CASE config.terminal # NoRepo
    BY <2>1, <1>1 DEF ResolveTerminal, TerminalRefused
  <2>2. CASE config.terminal = NoRepo
    <3>1. d.lock.terminal = detected
      BY <2>2, <1>1 DEF ResolveTerminal, detected
    <3> QED BY <3>1, <1>2, <1>4
  <2> QED BY <2>1, <2>2
<1>10. selected \notin config.foundation
  BY <1>2, <1>7
<1>11. RequireTerminal(W, NoRepo) \notin config.foundation
  BY <1>1 DEF RequireTerminal, TerminalRefused, W
<1> QED BY <1>5, <1>8, <1>9, <1>10, <1>11

\* Only a lock command changes the lock, and only when nothing blocks it.
LEMMA WrittenByLock ==
  ASSUME [WorkspaceNext]_workspaceVars, lock' # lock
  PROVE  \E flag \in Keys \cup {NoRepo} :
           /\ ConfigAccepted(config) /\ lock' = Derive(W, flag).lock
           /\ ~Derive(W, flag).fatal /\ "missing_flake_path" \notin Derive(W, flag).errors
           /\ ~allowed' => "eval_failed" \notin Derive(W, flag).errors
<1>1. PICK flag \in Keys \cup {NoRepo}, allow \in BOOLEAN : LockCmd(flag, allow)
  BY DEF WorkspaceNext, Commands, UserActsOn, workspaceVars, InitCmd, CloneCmd, Declares, Undeclares,
         NamesTerminal, Deletes, Creates, Breaks, RewritesFlake
<1> DEFINE d == Derive(W, flag)
<1>2. /\ ConfigAccepted(config) /\ lock' = d.lock /\ allowed' = allow /\ ~d.fatal
      /\ d.errors \ (IF allow THEN {"eval_failed"} ELSE {}) = {}
  BY <1>1 DEF LockCmd, LockIsWritten, CanOpen
<1> HIDE DEF d
<1>3. "missing_flake_path" \notin d.errors /\ (~allow => "eval_failed" \notin d.errors)
  BY <1>2
<1> QED BY <1>2, <1>3 DEF d

\* What deriveLock reports, when it reports neither a missing flake nor a failed
\* evaluation.
LEMMA ErrorsOfDerive ==
  ASSUME NEW flag, ~Derive(W, flag).fatal
  PROVE  /\ "missing_flake_path" \notin Derive(W, flag).errors =>
              \A e \in Edges(W) : e.target \in cloned => e.target \in FlakeRepos
         /\ "eval_failed" \notin Derive(W, flag).errors => EvalFailed(W) = {}
<1> DEFINE targets == {e.target : e \in Edges(W)}
           terminal == ResolveTerminal(config, flag, Edges(W), FlakeRepos)
<1>1. Derive(W, flag).errors =
           (IF terminal # NoRepo /\ terminal \in targets THEN {"terminal_not_sink"} ELSE {})
      \cup (IF terminal = NoRepo THEN {"missing_terminal"} ELSE {})
      \cup (IF (targets \ FlakeRepos) \cap cloned # {} THEN {"missing_flake_path"} ELSE {})
      \cup (IF EvalFailed(W) # {} THEN {"eval_failed"} ELSE {})
  <2>1. W.cfg = config /\ W.cloned = cloned
    BY DEF W
  <2> QED BY <2>1 DEF Derive, FlakeRepos
<1>2. "missing_flake_path" \notin Derive(W, flag).errors => (targets \ FlakeRepos) \cap cloned = {}
  <2> HIDE DEF targets, terminal
  <2> QED BY <1>1
<1>3. "eval_failed" \notin Derive(W, flag).errors => EvalFailed(W) = {}
  <2> HIDE DEF targets, terminal
  <2> QED BY <1>1
<1> QED BY <1>2, <1>3

\* An input's URL names one repo when no two repos share one.
LEMMA EdgesAreOne ==
  ASSUME WorkspaceTypeOK, ~DuplicateURL(config), NEW e \in Edges(W), NEW f \in Edges(W),
         e.consumer = f.consumer, e.alias = f.alias
  PROVE  e = f
<1>1. PICK i \in InputSpecs(W, e.consumer) : i.alias = e.alias /\ Joins(e.consumer, i, e.target)
  BY EdgesJoin
<1>2. PICK j \in InputSpecs(W, f.consumer) : j.alias = f.alias /\ Joins(f.consumer, j, f.target)
  BY EdgesJoin
<1>3. /\ e.consumer \in config.repos /\ e.target \in config.repos /\ f.target \in config.repos
      /\ e = [consumer |-> e.consumer, alias |-> e.alias, target |-> e.target]
      /\ f = [consumer |-> f.consumer, alias |-> f.alias, target |-> f.target]
  BY EdgesJoin
<1>4. i = j
  BY <1>1, <1>2, <1>3, SpecsTyped
<1>5. CanonicalURL(i.url) \in CanonicalURLs(config, e.target) \cap CanonicalURLs(config, f.target)
  BY <1>1, <1>2, <1>4 DEF Joins
<1>6. e.target = f.target
  BY <1>3, <1>5 DEF DuplicateURL
<1> QED BY <1>3, <1>6

\* A derived lock that is written while every declared repo is there is accepted.
LEMMA DerivedOpens ==
  ASSUME WorkspaceTypeOK, NEW flag \in Keys \cup {NoRepo}, ~Derive(W, flag).fatal,
         ConfigAccepted(config), config.repos \subseteq cloned,
         "missing_flake_path" \notin Derive(W, flag).errors
  PROVE  LockAccepted(Derive(W, flag).lock)
<1> DEFINE d == Derive(W, flag).lock
<1>1. /\ ~DuplicateURL(config)
      /\ d.repos = config.repos /\ d.flake = FlakeRepos /\ d.edges = Edges(W)
      /\ d.terminal \in config.repos \cup {NoRepo, config.terminal}
  BY Derived
<1>2. \A e \in Edges(W) : e.target \in cloned => e.target \in FlakeRepos
  BY ErrorsOfDerive
<1> HIDE DEF d
<1>3. d.terminal # NoRepo => d.terminal \in config.repos
  BY <1>1 DEF ConfigAccepted
<1>4. \A e \in Edges(W) : /\ e.consumer # e.target /\ e.consumer \in config.repos
                          /\ e.target \in config.repos /\ e.target \in FlakeRepos
  BY <1>2, EdgesJoin
<1>5. \A e, f \in Edges(W) : e.consumer = f.consumer /\ e.alias = f.alias => e = f
  BY <1>1, EdgesAreOne
<1>6. LockAccepted(d)
  BY <1>1, <1>3, <1>4, <1>5 DEF LockAccepted
<1> QED BY <1>6 DEF d

\* A plainly written dependency that nix lists is an edge.
LEMMA ListedIsJoined ==
  ASSUME WorkspaceTypeOK, NEW c \in config.repos \cap cloned \cap flakes, NEW t \in config.repos,
         eval[c] # "names", eval[c] # "failed", InputOf(t) \in inputs[c],
         config.url[t] = URLOf(t), t # c
  PROVE  \E e \in Edges(W) : e.consumer = c /\ e.target = t
<1> DEFINE i == InputOf(t)
<1>1. i.url = URLOf(t) /\ i.flake = TRUE /\ i.alias = t /\ [i EXCEPT !.flake = TRUE] = i
  <2>1. i.url = URLOf(t) /\ i.flake = TRUE /\ i.alias = t
    BY DEF InputOf
  <2>2. i \in InputSet
    <3>1. inputs[c] \in FlakeInputs
      BY DEF WorkspaceTypeOK
    <3> HIDE DEF i
    <3>2. i \in inputs[c]
      BY DEF i
    <3> QED BY <3>1, <3>2 DEF FlakeInputs, InputSet
  <2>3. \A x \in InputSet : x.flake = TRUE => [x EXCEPT !.flake = TRUE] = x
    BY DEF InputSet
  <2> HIDE DEF i
  <2> QED BY <2>1, <2>2, <2>3
<1>2. c \in Keys /\ t \in Keys /\ eval \in [Keys -> Evaluations]
  BY DEF WorkspaceTypeOK
<1>3. eval[c] = "full" \/ eval[c] = "fallback"
  BY <1>2 DEF Evaluations
<1>4. W.eval = eval /\ W.inputs = inputs /\ c \in W.cloned \cap W.flakes
  BY DEF W
<1>5. i \in InputSpecs(W, c)
  <2>1. HasFlakePath(W, c)
    BY <1>4 DEF HasFlakePath
  <2>2. i \in inputs[c] /\ i \in {[j EXCEPT !.flake = TRUE] : j \in inputs[c]}
    <3> HIDE DEF i
    <3>1. i \in inputs[c]
      BY DEF i
    <3> QED BY <3>1, <1>1
  <2> HIDE DEF i
  <2> QED BY <2>1, <2>2, <1>3, <1>4 DEF InputSpecs
<1>6. CanonicalURL(URLOf(t)) # NoURL
  <2>1. CanonicalURL(URLOf(t)).name = t
    BY DEF CanonicalURL, URLOf
  <2> QED BY <2>1, <1>2, WorkspaceAssumption DEF NoURL
<1>7. CanonicalURL(URLOf(t)) \in CanonicalURLs(config, t)
  BY <1>6 DEF CanonicalURLs
<1>8. Joins(c, i, t)
  <2> HIDE DEF i
  <2> QED BY <1>1, <1>7 DEF Joins
<1>9. [consumer |-> c, alias |-> i.alias, target |-> t] \in Edges(W)
  <2> HIDE DEF i
  <2> QED BY <1>5, <1>8, EdgesJoin
<1> DEFINE e == [consumer |-> c, alias |-> i.alias, target |-> t]
<1>10. e.consumer = c /\ e.target = t
  OBVIOUS
<1> HIDE DEF e
<1> QED BY <1>9, <1>10 DEF e

\* The type invariant of the workspace, with every foundation repo declared, for
\* every set of keys and every set of hosts.
THEOREM WorkspaceTypeCorrect == WorkspaceSpec => []WorkspaceTypeOK
<1>1. WorkspaceInit => WorkspaceTypeOK
  BY DEF WorkspaceInit
<1> QED BY <1>1, WorkspaceTypeStep, PTL DEF WorkspaceSpec

\* An edge of a derived lock joins an input to the repo its URL names, and an
\* input that is written plainly is never missed.  (buildEdges, canonicalURL.)
THEOREM EdgesStayExact == WorkspaceSpec => []EdgesAreExact
BY WorkspaceTypeCorrect, TypedEdgesAreExact, PTL

\* The order, the tree and the terminals made of the graph are consistent.
\* (topoSortByDeps, renderTree, autoDetectTerminal, detectTerminalCandidates.)
THEOREM GraphStaysReadAlike == WorkspaceSpec => []GraphIsReadAlike
<1>1. WorkspaceTypeOK => GraphIsReadAlike
  BY TypedListingsAreSound, TypedTerminalsAgree DEF GraphIsReadAlike
<1> QED BY <1>1, WorkspaceTypeCorrect, PTL

\* A list as long as the set it covers repeats nothing.
LEMMA CoversOnce ==
  ASSUME NEW K, IsFiniteSet(K), NEW s \in Seq(K), ToSet(s) = K, Len(s) = Cardinality(K)
  PROVE  ListsOnce(s, K)
<1> DEFINE D == 1 .. Len(s)
<1>1. IsFiniteSet(D) /\ Cardinality(D) = Cardinality(K)
  <2>1. Len(s) \in Nat
    OBVIOUS
  <2> QED BY <2>1, FS_Interval
<1>2. s \in [D -> K] /\ DOMAIN s = D
  OBVIOUS
<1>3. \A k \in K : \E i \in D : s[i] = k
  BY <1>2 DEF ToSet
<1> HIDE DEF D
<1>4. s \in Surjection(D, K)
  BY <1>2, <1>3 DEF Surjection
<1>5. s \in Injection(D, K)
  BY <1>1, <1>4, FS_Surjection
<1>6. IsInjective(s)
  BY <1>2, <1>5 DEF Injection, IsInjective
<1> QED BY <1>6 DEF ListsOnce

LEMMA SortedOnce == ASSUME NEW S \in SUBSET Nat, IsFiniteSet(S) PROVE ListsOnce(Sorted(S), S)
<1>1. /\ Sorted(S) \in Seq(S) /\ Len(Sorted(S)) = Cardinality(S)
      /\ \A x \in S : \E i \in 1 .. Cardinality(S) : Sorted(S)[i] = x
  BY SortedLists
<1>2. ToSet(Sorted(S)) = S
  <2> DEFINE t == Sorted(S)
  <2> HIDE DEF t
  <2>1. t \in Seq(S) /\ DOMAIN t = 1 .. Len(t) /\ \A x \in S : \E i \in 1 .. Len(t) : t[i] = x
    BY <1>1 DEF t
  <2>2. \A i \in 1 .. Len(t) : t[i] \in S
    BY <2>1
  <2>3. ToSet(t) = S
    BY <2>1, <2>2 DEF ToSet
  <2> QED BY <2>3 DEF t
<1> QED BY <1>1, <1>2, CoversOnce

LEMMA DerivedOnce ==
  ASSUME WorkspaceTypeOK, NEW flag \in Keys \cup {NoRepo}, ~Derive(W, flag).fatal
  PROVE  Derive(W, flag).lock.repos = config.repos /\ ListsOnce(Derive(W, flag).lock.order, config.repos)
<1>1. /\ Derive(W, flag).lock.order = OrderByDeps(config.repos, WaitsFor)
      /\ Derive(W, flag).lock.repos = config.repos
  BY Derived
<1>2. config.repos \in SUBSET Nat /\ IsFiniteSet(config.repos)
  BY DepsTyped
<1> DEFINE o == OrderByDeps(config.repos, WaitsFor)
<1>3. o \in Seq(config.repos) /\ Len(o) = Cardinality(config.repos) /\ ToSet(o) = config.repos
  BY <1>2, OrderFacts
<1> HIDE DEF o
<1>4. ListsOnce(o, config.repos)
  BY <1>2, <1>3, CoversOnce
<1> QED BY <1>1, <1>4 DEF o

LEMMA RecordStep ==
  WorkspaceTypeOK /\ RecordIsComplete /\ [WorkspaceNext]_workspaceVars => RecordIsComplete'
<1> SUFFICES ASSUME WorkspaceTypeOK, RecordIsComplete, [WorkspaceNext]_workspaceVars, lock' # lock
             PROVE  RecordIsComplete'
  BY DEF RecordIsComplete
<1>1. PICK flag \in Keys \cup {NoRepo} : lock' = Derive(W, flag).lock /\ ~Derive(W, flag).fatal
  BY WrittenByLock
<1> QED BY <1>1, DerivedOnce DEF RecordIsComplete

\* A command that walks the workspace visits every declared repo, and none twice,
\* however the definition, the clones and the lock have drifted apart, unless the
\* lock was damaged before.  (topoAlpha, effectiveLock, topoSortByDeps.)
THEOREM WalksAreComplete == WorkspaceSpec /\ RecordIsComplete => []WalkIsComplete
<1>1. WorkspaceTypeOK /\ RecordIsComplete => WalkIsComplete
  <2> SUFFICES ASSUME WorkspaceTypeOK, RecordIsComplete  PROVE WalkIsComplete
    OBVIOUS
  <2>1. W.cfg = config /\ W.lock = lock /\ NoRepo \in Keys \cup {NoRepo}
    BY DEF W
  <2>2. config.repos \in SUBSET Nat /\ IsFiniteSet(config.repos)
    BY DepsTyped
  <2>3. CASE EffectiveLock(W).order = <<>>
    BY <2>1, <2>2, <2>3, SortedOnce DEF WalkIsComplete, TopoAlpha
  <2>4. CASE EffectiveLock(W).order # <<>>
    <3>1. ListsOnce(EffectiveLock(W).order, config.repos)
      <4>1. CASE LockMatchesConfig(lock, config)
        BY <2>1, <4>1 DEF EffectiveLock, LockMatchesConfig, RecordIsComplete
      <4>2. CASE ~LockMatchesConfig(lock, config)
        <5>1. EffectiveLock(W) = Derive(W, NoRepo).lock
          BY <2>1, <4>2 DEF EffectiveLock
        <5>2. ~Derive(W, NoRepo).fatal
          BY <2>4, <5>1 DEF Derive, EmptyLock
        <5> QED BY <5>1, <5>2, DerivedOnce
      <4> QED BY <4>1, <4>2
    <3> QED BY <3>1, <2>4 DEF WalkIsComplete, TopoAlpha
  <2> QED BY <2>3, <2>4
<1> QED BY <1>1, RecordStep, WorkspaceTypeCorrect, PTL DEF WorkspaceSpec

\* A lock command leaves a lock that opens and that forgets no dependency.
\* (WriteDerivedLockTo, ParseLock.)
THEOREM LockStaysWhole == WorkspaceSpec => LockIsWhole
<1>1. ASSUME WorkspaceTypeOK, [WorkspaceNext]_workspaceVars
      PROVE  [lock' # lock /\ config.repos \subseteq cloned => LockAccepted(lock')]_workspaceVars
  BY <1>1, WrittenByLock, DerivedOpens
<1>2. ASSUME WorkspaceTypeOK, [WorkspaceNext]_workspaceVars
      PROVE  [lock' # lock /\ ~allowed' /\ (\A r \in config.repos : eval[r] # "names") =>
                \A c \in config.repos \cap cloned \cap flakes, t \in config.repos :
                  InputOf(t) \in inputs[c] /\ config.url[t] = URLOf(t) /\ t # c =>
                    \E e \in lock'.edges : e.consumer = c /\ e.target = t]_workspaceVars
  <2> SUFFICES ASSUME lock' # lock, ~allowed', \A r \in config.repos : eval[r] # "names",
                      NEW c \in config.repos \cap cloned \cap flakes, NEW t \in config.repos,
                      InputOf(t) \in inputs[c], config.url[t] = URLOf(t), t # c
               PROVE  \E e \in lock'.edges : e.consumer = c /\ e.target = t
    OBVIOUS
  <2>1. PICK flag \in Keys \cup {NoRepo} :
          /\ lock' = Derive(W, flag).lock /\ ~Derive(W, flag).fatal
          /\ "eval_failed" \notin Derive(W, flag).errors
    BY <1>2, WrittenByLock
  <2>2. lock'.edges = Edges(W)
    BY <1>2, <2>1, Derived
  <2>3. EvalFailed(W) = {}
    BY <2>1, ErrorsOfDerive
  <2>4. eval[c] # "failed"
    BY <2>3 DEF EvalFailed, W
  <2> QED BY <1>2, <2>2, <2>4, ListedIsJoined
<1> QED BY <1>1, <1>2, WorkspaceTypeCorrect, PTL
        DEF WorkspaceSpec, LockIsWhole, WholeLockOpens, DependenciesKept
=============================================================================
