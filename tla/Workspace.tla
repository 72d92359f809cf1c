------------------------------ MODULE Workspace ------------------------------
(***************************************************************************)
(* The workspace itself: pn-workspace.toml, pn-workspace.lock.json and the *)
(* clones below the root, as init, clone and lock change them between the  *)
(* user's own edits.  Every command opens the workspace first.  What lock  *)
(* derives is in WorkspaceGraph.                                           *)
(***************************************************************************)
EXTENDS WorkspaceGraph

CONSTANTS Keys,   \* keys that may be declared, numbers in alphabetical order
          Hosts,   \* of the URLs; "github" is one
          MaxActs  \* bound on the user's own actions

ASSUME WorkspaceAssumption ==
  Keys \subseteq Nat /\ IsFiniteSet(Keys) /\ NoRepo \notin Keys /\ "github" \in Hosts

VARIABLES
  config,      \* [repos, foundation, located, terminal, url, mirrors, remotes]
  lock,     \* the lock on disk; EmptyLock without one
  cloned,   \* git repos on disk
  nameless, \* those without any remote
  flakes,   \* repos whose sources have a flake where it is searched
  eval,     \* eval[r]: how far nix evaluates the inputs of r
  inputs,   \* inputs[r]: the inputs its flake declares
  allowed,  \* the last lock was written with --allow-missing-edges
  acts

workspaceVars == <<config, lock, cloned, nameless, flakes, eval, inputs, allowed, acts>>

W == [cfg |-> config, lock |-> lock, cloned |-> cloned, flakes |-> flakes,
      eval |-> eval, inputs |-> inputs]

Evaluations == {"full", "fallback", "names", "failed"}
URLOf(r) == [form |-> "github", host |-> "github", name |-> r, extra |-> "none"]
InputOf(r) == [alias |-> r, url |-> URLOf(r), flake |-> TRUE]

\* A flake declares one input under a name.
URL == [form : Forms, host : Hosts, name : Keys, extra : Extras]
FlakeInputs ==
  {I \in SUBSET [alias : Nat, url : URL, flake : BOOLEAN] : \A i, j \in I : i.alias = j.alias => i = j}

WorkspaceTypeOK ==
  /\ config \in [repos : SUBSET Keys, foundation : SUBSET Keys, located : SUBSET Keys,
                terminal : Keys \cup {NoRepo}, url : [Keys -> URL],
                mirrors : [Keys -> SUBSET URL], remotes : [Keys -> SUBSET URL]]
  /\ config.foundation \subseteq config.repos
  /\ lock \in [terminal : Keys \cup {NoRepo}, order : Seq(Keys), repos : SUBSET Keys,
              flake : SUBSET Keys,
              edges : SUBSET [consumer : Keys, alias : Nat, target : Keys]]
  /\ cloned \subseteq Keys /\ nameless \subseteq Keys /\ flakes \subseteq Keys
  /\ eval \in [Keys -> Evaluations] /\ inputs \in [Keys -> FlakeInputs]
  /\ allowed \in BOOLEAN /\ acts \in Nat

\* Whatever the user and earlier commands left.
WorkspaceInit == WorkspaceTypeOK /\ acts = 0

\* Open: without a definition and a lock that parse, no command runs.
CanOpen == ConfigAccepted(config) /\ LockAccepted(lock)

----------------------------------------------------------------------------
\* Init adds what is on disk.  A repo without remotes is added without a url.
InitCmd ==
  LET new == cloned \ config.repos
  IN /\ CanOpen /\ new # {}
     /\ config' = [config EXCEPT !.repos = @ \cup new, !.located = (@ \ new) \cup (new \ nameless)]
     /\ UNCHANGED <<lock, cloned, nameless, flakes, eval, inputs, allowed, acts>>

\* Clone takes the missing repos in alphabetical order and stops at the first
\* failure; a repo whose further remotes could not be added stays on disk.
CloneCmd ==
  LET todo == Sorted(config.repos \ cloned)
  IN /\ CanOpen
     /\ \E k \in 1 .. Len(todo) : cloned' = cloned \cup {todo[i] : i \in 1 .. k}
     /\ nameless' = nameless \ (cloned' \ cloned)
     /\ UNCHANGED <<config, lock, flakes, eval, inputs, allowed, acts>>

\* lock: derive, validate, write.
LockCmd(flag, allow) ==
  /\ CanOpen
  /\ LockIsWritten(W, flag, allow)
  /\ lock' = Derive(W, flag).lock
  /\ allowed' = allow
  /\ UNCHANGED <<config, cloned, nameless, flakes, eval, inputs, acts>>

----------------------------------------------------------------------------
(* The user, and nix.                                                      *)

Counted == acts < MaxActs /\ acts' = acts + 1

Declares(r) ==
  /\ Counted /\ r \notin config.repos
  /\ config' = [config EXCEPT !.repos = @ \cup {r}, !.located = @ \cup {r}]
  /\ UNCHANGED <<lock, cloned, nameless, flakes, eval, inputs, allowed>>

Undeclares(r) ==
  /\ Counted /\ r \in config.repos
  /\ config' = [config EXCEPT !.repos = @ \ {r}, !.foundation = @ \ {r}]
  /\ UNCHANGED <<lock, cloned, nameless, flakes, eval, inputs, allowed>>

NamesTerminal(t) ==
  /\ Counted /\ config.terminal # t
  /\ config' = [config EXCEPT !.terminal = t]
  /\ UNCHANGED <<lock, cloned, nameless, flakes, eval, inputs, allowed>>

Deletes(r) ==
  /\ Counted /\ r \in cloned
  /\ cloned' = cloned \ {r} /\ nameless' = nameless \ {r}
  /\ UNCHANGED <<config, lock, flakes, eval, inputs, allowed>>

Creates(r) ==
  /\ Counted /\ r \notin cloned
  /\ cloned' = cloned \cup {r} /\ nameless' \in {nameless, nameless \cup {r}}
  /\ UNCHANGED <<config, lock, flakes, eval, inputs, allowed>>

RewritesFlake(r, targets) ==
  /\ Counted /\ inputs[r] # {InputOf(t) : t \in targets}
  /\ inputs' = [inputs EXCEPT ![r] = {InputOf(t) : t \in targets}]
  /\ UNCHANGED <<config, lock, cloned, nameless, flakes, eval, allowed>>

Breaks(r) ==
  /\ Counted
  /\ \E tier \in Evaluations \ {eval[r]} : eval' = [eval EXCEPT ![r] = tier]
  /\ UNCHANGED <<config, lock, cloned, nameless, flakes, inputs, allowed>>

----------------------------------------------------------------------------
Commands ==
  InitCmd \/ CloneCmd \/ \E flag \in Keys \cup {NoRepo}, allow \in BOOLEAN : LockCmd(flag, allow)

UserActsOn(repos) ==
  \E r \in repos :
    \/ Declares(r) \/ Undeclares(r) \/ NamesTerminal(r)
    \/ Deletes(r) \/ Creates(r) \/ Breaks(r)
    \/ \E targets \in SUBSET (repos \ {r}) : RewritesFlake(r, targets)

WorkspaceNext == Commands \/ UserActsOn(Keys)

WorkspaceSpec == WorkspaceInit /\ [][WorkspaceNext]_workspaceVars

----------------------------------------------------------------------------
(* Properties.                                                             *)

\* Reference: what k leads to in one step of next or more.
LeadsTo(next, k) ==
  {r \in DOMAIN next :
     \A T \in SUBSET DOMAIN next :
       next[k] \subseteq T /\ (\A t \in T : next[t] \subseteq T) => r \in T}

\* Reference for the order: what a repo waits for, directly.
WaitsFor ==
  [k \in config.repos |->
     {d \in config.repos :
        LET uses == \E e \in Edges(W) : e.consumer = k /\ e.target = d
        IN IF k \in config.foundation THEN d \in config.foundation /\ uses
                                       ELSE d \in config.foundation \/ uses}]

\* The order of a lock derived now names every repo once, and a repo that is
\* neither on a cycle nor waits for one comes after all it waits for, directly or
\* not.  (deriveLock, topoSortByDeps, orderingDeps.)
OrderIsSound ==
  LET d == Derive(W, NoRepo)
      stuck(k) == \E c \in {k} \cup LeadsTo(WaitsFor, k) : c \in LeadsTo(WaitsFor, c)
  IN ~d.fatal =>
       /\ ToSet(d.lock.order) = config.repos /\ Len(d.lock.order) = Cardinality(config.repos)
       /\ \A k \in config.repos : ~stuck(k) =>
            \A r \in LeadsTo(WaitsFor, k) : Before(d.lock.order, r, k)

\* tree shows every repo below the terminal, each in full once, and ends.
TreeShowsAll ==
  \A t \in config.repos :
    LET uses == DependsOn(config.repos, Edges(W))
        lines == RenderTree(t, uses)
    IN \A r \in config.repos :
         Cardinality({i \in DOMAIN lines : lines[i] = <<r, FALSE>>})
           = (IF r \in {t} \cup LeadsTo(uses, t) THEN 1 ELSE 0)

\* What is listed is neither incomplete nor out of order.
ListingsAreSound == OrderIsSound /\ TreeShowsAll

\* The three ways to a terminal agree: what lock detects is a candidate that
\* build would suggest, and discover, where it picks one from the same edges,
\* picks the same; no ordinary command accepts a foundation repo for one.
TerminalsAgree ==
  LET d == Derive(W, NoRepo)
      detected == AutoDetectTerminal(d.lock.edges, d.lock.flake, config.foundation)
      selected == SelectTerminal([config EXCEPT !.terminal = NoRepo], SlugEdges(W), NoRepo)
  IN ~d.fatal =>
       /\ detected # NoRepo /\ lock = EmptyLock => detected \in TerminalCandidates(W)
       /\ detected # NoRepo /\ selected # NoRepo /\ SlugEdges(W) = d.lock.edges => detected = selected
       /\ {d.lock.terminal, selected, RequireTerminal(W, NoRepo)} \cap config.foundation = {}

\* What the graph is made into, an order, a tree and a terminal, is consistent.
GraphIsReadAlike == ListingsAreSound /\ TerminalsAgree

\* Whatever lock it finds, current, stale or none, a command that walks the
\* workspace visits every declared repo, and none twice; if what is recorded is
\* such a list.  (topoAlpha, effectiveLock.)
ListsOnce(order, repos) == order \in Seq(repos) /\ ToSet(order) = repos /\ IsInjective(order)
WalkIsComplete == ListsOnce(TopoAlpha(W), config.repos)
RecordIsComplete == ListsOnce(lock.order, lock.repos)

\* An edge joins an input to the repo its URL names and no other, whatever form
\* the URLs have; an input that is written plainly is never missed.
EdgesAreExact ==
  \A c \in config.repos, r \in config.repos : c # r /\ ~DuplicateURL(config) =>
    \A i \in InputSpecs(W, c) :
      LET joined == \E e \in Edges(W) : e.consumer = c /\ e.alias = i.alias /\ e.target = r
          same(u) == u.form # "path" /\ i.url.form # "path" /\ u.name = i.url.name /\ u.host = i.url.host
          urls == {config.url[r]} \cup config.mirrors[r]
      IN /\ joined => \E u \in urls : same(u)
         /\ (\E u \in urls : same(u) /\ u.extra = "none") /\ i.url.extra = "none" /\ i.flake => joined

\* A lock written while every declared repo was on disk can be opened again.
WholeLockOpens == [][lock' # lock /\ config.repos \subseteq cloned => LockAccepted(lock')]_workspaceVars

\* lock without --allow-missing-edges loses no plainly written dependency of a
\* declared repo on another, unless nix could list only the names of some repo's inputs.
DependenciesKept ==
  [][lock' # lock /\ ~allowed' /\ (\A r \in config.repos : eval[r] # "names") =>
       \A c \in config.repos \cap cloned \cap flakes, t \in config.repos :
         InputOf(t) \in inputs[c] /\ config.url[t] = URLOf(t) /\ t # c =>
           \E e \in lock'.edges : e.consumer = c /\ e.target = t]_workspaceVars

\* A lock command leaves a lock that opens and that forgets no dependency.
LockIsWhole == WholeLockOpens /\ DependenciesKept
=============================================================================
