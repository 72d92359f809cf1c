---------------------------- MODULE WorkspaceLock ----------------------------
(***************************************************************************)
(* pn-workspace.lock.json and its relation to pn-workspace.toml: the       *)
(* invariants a lock must satisfy to be read, and the lock and the         *)
(* definition of a set that holds only some of the repos.                  *)
(*                                                                         *)
(* A lock is [terminal, order, repos, flake, edges]: repos the recorded    *)
(* keys, flake those with a flake path, edges a set of records [consumer,  *)
(* alias, target].  The list of edges in the file is sorted and has no     *)
(* duplicates, so a set stands for it.                                     *)
(***************************************************************************)
EXTENDS Naturals, Sequences, FiniteSets

CONSTANT NoRepo   \* "" where a repo key may stand

EmptyLock == [terminal |-> NoRepo, order |-> <<>>, repos |-> {}, flake |-> {}, edges |-> {}]

\* ParseLock, without which no command opens the workspace.
LockAccepted(lock) ==
  /\ lock.terminal # NoRepo => lock.terminal \in lock.repos
  /\ \A e \in lock.edges : /\ e.consumer # e.target
                           /\ {e.consumer, e.target} \subseteq lock.repos
                           /\ e.target \in lock.flake
  /\ \A e, f \in lock.edges : e.consumer = f.consumer /\ e.alias = f.alias => e = f

\* Variant: an edge is kept for the sake of its consumer alone.
KeepEdgesOfMembers(lock, members) ==
  [terminal |-> IF lock.terminal \in members THEN lock.terminal ELSE NoRepo,
   order    |-> SelectSeq(lock.order, LAMBDA r : r \in members),
   repos    |-> lock.repos \cap members,
   flake    |-> lock.flake \cap members,
   edges    |-> {e \in lock.edges : e.consumer \in members}]

\* filterLock: what a set of the members keeps of the canonical lock.
FilterLock(lock, members) ==
  [terminal |-> IF lock.terminal \in members THEN lock.terminal ELSE NoRepo,
   order    |-> SelectSeq(lock.order, LAMBDA r : r \in members),
   repos    |-> lock.repos \cap members,
   flake    |-> lock.flake \cap members,
   edges    |-> {e \in lock.edges : e.consumer \in members /\ e.target \in members}]

\* A definition is [repos, foundation, terminal].  ParseConfig rejects one
\* whose terminal is not declared or is a foundation repo, and a repo that has
\* neither a url nor remotes.
ConfigAccepted(cfg) ==
  /\ cfg.terminal # NoRepo => cfg.terminal \in cfg.repos \ cfg.foundation
  /\ cfg.repos \subseteq cfg.located

\* filterConfig.
FilterConfig(cfg, members) ==
  [repos      |-> cfg.repos \cap members,
   foundation |-> cfg.foundation \cap members,
   located    |-> cfg.located \cap members,
   terminal   |-> IF cfg.terminal \in members THEN cfg.terminal ELSE NoRepo]

\* Dependencies of a member that the set leaves to the member's own flake.lock.
ExcludedDepEdges(lock, members) ==
  {e \in lock.edges : e.consumer \in members /\ e.target \notin members}

\* Whether the lock on disk is still used instead of deriving a new one.
LockMatchesConfig(lock, cfg) == lock.repos = cfg.repos
=============================================================================
