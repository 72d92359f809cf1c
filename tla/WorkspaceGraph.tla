--------------------------- MODULE WorkspaceGraph ---------------------------
(***************************************************************************)
(* The dependency graph of a workspace: from the inputs of each repo's     *)
(* flake to the edges of the lock, the order every multi-repo command      *)
(* follows, and the terminal repo.  Repos are numbers; their order is the  *)
(* alphabetical order of the keys.                                         *)
(***************************************************************************)
EXTENDS WorkspaceLock, FiniteSetsExt, SequencesExt

Sorted(S) ==
  CHOOSE s \in [1 .. Cardinality(S) -> S] : \A i, j \in DOMAIN s : i < j => s[i] < s[j]
Before(seq, a, b) ==
  \E i, j \in DOMAIN seq : i < j /\ seq[i] = a /\ seq[j] = b

----------------------------------------------------------------------------
(* Which repo a URL names.  A URL is [form, host, name, extra]: extra is    *)
(* "none", ".git", "path" (a branch or /tree/...), "query" (?ref=...), or   *)
(* "port".                                                                  *)

Forms == {"github", "https", "ssh", "scp", "git+ssh", "git+https", "path"}
Extras == {"none", ".git", "path", "query", "port"}
NoURL == [host |-> "none", name |-> NoRepo, left |-> "none"]

\* Variant: repos of the same name on other hosts are confused.
CanonicalByName(u) ==
  IF u.form = "path" THEN NoURL ELSE [host |-> "any", name |-> u.name, left |-> "none"]

\* canonicalURL; left is what it does not strip.
CanonicalURL(u) ==
  IF u.form = "path" THEN NoURL
  ELSE [host |-> u.host, name |-> u.name,
        left |-> CASE u.extra = ".git" /\ u.form # "github" -> "none"
                   [] u.extra = "path" /\ u.form = "github" -> "none"
                   [] u.extra = "port" /\ u.form \in {"ssh", "git+ssh"} -> "none"
                   [] OTHER -> u.extra]

\* ExtractGithubSlug: the other matcher, for discover and the doctor.
GithubSlug(u) ==
  IF /\ u.host = "github" /\ u.form \in {"github", "https", "ssh", "scp"}
     /\ u.extra # "port" /\ ~(u.form = "scp" /\ u.extra = "path")
  THEN u.name ELSE NoRepo

\* Every URL under which a repo is known: display URL and mirrors for the lock,
\* all remotes for discover.
CanonicalURLs(cfg, r) == {CanonicalURL(u) : u \in {cfg.url[r]} \cup cfg.mirrors[r]} \ {NoURL}
SlugSet(cfg, r) == {GithubSlug(u) : u \in cfg.remotes[r]} \ {NoRepo}

----------------------------------------------------------------------------
(* Inputs of the flakes.  A workspace w is [cfg, lock, cloned, flakes, eval, *)
(* inputs]: the repos present on disk, those among them with a flake where   *)
(* it is searched, how far nix can evaluate each flake, and what each        *)
(* declares: a set of [alias, url, flake].                                   *)

\* resolveFlakePath: recorded in the lock, or found on disk.
HasFlakePath(w, r) == r \in w.lock.flake \/ r \in w.cloned \cap w.flakes

\* gatherInputURLs and evalInputSpecs: the tiers of evaluation.  The fallback
\* takes every input for a flake; the last tier knows names only.
InputSpecs(w, r) ==
  IF ~(HasFlakePath(w, r) /\ r \in w.cloned \cap w.flakes) THEN {}
  ELSE CASE w.eval[r] = "full" -> w.inputs[r]
         [] w.eval[r] = "fallback" -> {[i EXCEPT !.flake = TRUE] : i \in w.inputs[r]}
         [] OTHER -> {}

EvalFailed(w) ==
  {r \in w.cfg.repos : r \in w.cloned \cap w.flakes /\ w.eval[r] = "failed"}

\* buildEdges.
DuplicateURL(cfg) ==
  \E r, s \in cfg.repos : r # s /\ CanonicalURLs(cfg, r) \cap CanonicalURLs(cfg, s) # {}

Edges(w) ==
  UNION {UNION {{[consumer |-> c, alias |-> i.alias, target |-> t] :
                   t \in {r \in w.cfg.repos \ {c} : CanonicalURL(i.url) \in CanonicalURLs(w.cfg, r)}} :
                i \in {j \in InputSpecs(w, c) : j.flake}} :
         c \in w.cfg.repos}

----------------------------------------------------------------------------
(* Order.                                                                   *)

\* edgesToDependsOn.
DependsOn(keys, edges) ==
  [k \in keys |-> {e.target : e \in {f \in edges : f.consumer = k}}]

\* Variant: a foundation repo keeps its dependencies on ordinary repos.
DepsPlusFoundations(cfg, edges) ==
  LET deps == DependsOn(cfg.repos, edges)
  IN [k \in cfg.repos |-> IF k \in cfg.foundation THEN deps[k]
                          ELSE deps[k] \cup cfg.foundation]

\* orderingDeps: a foundation repo waits for foundation repos only, and every
\* other repo for all of them.
OrderingDeps(cfg, edges) ==
  LET deps == DependsOn(cfg.repos, edges)
  IN [k \in cfg.repos |-> IF k \in cfg.foundation THEN deps[k] \cap cfg.foundation
                          ELSE deps[k] \cup cfg.foundation]

\* topoSortByDeps: Kahn's algorithm taking the first ready key each time; the
\* keys of a cycle, and those behind one, follow alphabetically.
OrderByDeps(keys, deps) ==
  LET emitted[n \in 0 .. Cardinality(keys)] ==
        IF n = 0 THEN <<>>
        ELSE LET done == ToSet(emitted[n - 1])
                 ready == {k \in keys \ done : deps[k] \subseteq done}
             IN IF ready = {} THEN emitted[n - 1] ELSE Append(emitted[n - 1], Min(ready))
      sorted == emitted[Cardinality(keys)]
  IN sorted \o Sorted(keys \ ToSet(sorted))

\* topoSort of discover: level by level, no order for a cycle.
OrderByLevels(keys, deps) ==
  LET emitted[n \in 0 .. Cardinality(keys)] ==
        IF n = 0 THEN <<>>
        ELSE LET done == ToSet(emitted[n - 1])
             IN emitted[n - 1] \o Sorted({k \in keys \ done : deps[k] \subseteq done})
  IN emitted[Cardinality(keys)]

FoundationFirst(cfg, order) ==
  SelectSeq(order, LAMBDA r : r \in cfg.foundation)
    \o SelectSeq(order, LAMBDA r : r \notin cfg.foundation)

----------------------------------------------------------------------------
(* Terminal.                                                                *)

Consumed(edges, among) == {e.target : e \in {f \in edges : f.consumer \in among}}

\* autoDetectTerminal: the one repo with a flake that no flake consumes and
\* that consumes another.
AutoDetectTerminal(edges, flakeRepos, foundation) ==
  LET inner == {e \in edges : e.consumer \in flakeRepos /\ e.target \in flakeRepos}
      sinks == flakeRepos \ (Consumed(inner, flakeRepos) \cup foundation)
      connected == {s \in sinks : \E e \in inner : e.consumer = s /\ e.target # s}
  IN IF Cardinality(connected) = 1 THEN CHOOSE t \in connected : TRUE ELSE NoRepo

\* resolveTerminal: an error for a flag that names no repo, and for a foundation
\* repo; else the flag, the configured or the detected terminal.
TerminalRefused(cfg, flag) ==
  IF flag # NoRepo THEN flag \notin cfg.repos \ cfg.foundation
                   ELSE cfg.terminal \in cfg.foundation

ResolveTerminal(cfg, flag, edges, flakeRepos) ==
  CASE flag # NoRepo -> flag
    [] flag = NoRepo /\ cfg.terminal # NoRepo -> cfg.terminal
    [] OTHER -> AutoDetectTerminal(edges, flakeRepos, cfg.foundation)

\* deriveLock: the lock and the codes of its validation errors.
Derive(w, flag) ==
  LET cfg == w.cfg
      edges == Edges(w)
      flakeRepos == {r \in cfg.repos : HasFlakePath(w, r)}
      terminal == ResolveTerminal(cfg, flag, edges, flakeRepos)
      targets == {e.target : e \in edges}
  IN IF DuplicateURL(cfg) \/ TerminalRefused(cfg, flag)
     THEN [fatal |-> TRUE, lock |-> EmptyLock, errors |-> {}]
     ELSE [fatal |-> FALSE,
           lock |-> [terminal |-> terminal,
                     order |-> OrderByDeps(cfg.repos, OrderingDeps(cfg, edges)),
                     repos |-> cfg.repos, flake |-> flakeRepos, edges |-> edges],
           errors |-> (IF terminal # NoRepo /\ terminal \in targets THEN {"terminal_not_sink"} ELSE {})
                 \cup (IF terminal = NoRepo THEN {"missing_terminal"} ELSE {})
                 \cup (IF (targets \ flakeRepos) \cap w.cloned # {} THEN {"missing_flake_path"} ELSE {})
                 \cup (IF EvalFailed(w) # {} THEN {"eval_failed"} ELSE {})]

\* Variant: validation errors are reported after the write.
WrittenUnlessFatal(w, flag, allowMissing) == ~Derive(w, flag).fatal

\* WriteDerivedLockTo writes the lock only when nothing blocks it;
\* --allow-missing-edges lifts eval_failed alone.
LockIsWritten(w, flag, allowMissing) ==
  LET d == Derive(w, flag)
  IN ~d.fatal /\ d.errors \ (IF allowMissing THEN {"eval_failed"} ELSE {}) = {}

\* effectiveLock and topoAlpha: the lock on disk as long as it names exactly the
\* declared repos, else a derived one, else the alphabetical order.
EffectiveLock(w) == IF LockMatchesConfig(w.lock, w.cfg) THEN w.lock ELSE Derive(w, NoRepo).lock
TopoAlpha(w) ==
  IF EffectiveLock(w).order # <<>> THEN EffectiveLock(w).order ELSE Sorted(w.cfg.repos)

\* detectTerminalCandidates: what a command without a terminal suggests.
TerminalCandidates(w) ==
  LET edges == EffectiveLock(w).edges   \* none when no lock can be derived
  IN {r \in w.cfg.repos \ w.cfg.foundation :
        HasFlakePath(w, r) /\ \A e \in edges : e.target # r}

\* requireTerminal: NoRepo stands for the error.
RequireTerminal(w, flag) ==
  IF flag # NoRepo THEN IF flag \in w.cfg.foundation THEN NoRepo ELSE flag
  ELSE w.cfg.terminal

----------------------------------------------------------------------------
(* discover: its own graph, from the GitHub slugs of the plain inputs.      *)

\* readFlakeInputs: one evaluation; any failure leaves the repo without inputs.
PlainInputs(w, r) ==
  IF r \in w.cloned \cap w.flakes /\ w.eval[r] = "full" THEN w.inputs[r] ELSE {}

SlugEdges(w) ==
  UNION {UNION {{[consumer |-> c, alias |-> i.alias, target |-> t] :
                   t \in {r \in w.cfg.repos \ {c} : GithubSlug(i.url) \in SlugSet(w.cfg, r)}} :
                i \in PlainInputs(w, c)} :
         c \in w.cfg.repos}

\* selectTerminal: an explicit one must be a declared, unconsumed, ordinary repo.
SelectTerminal(cfg, edges, flag) ==
  LET free == cfg.repos \ Consumed(edges, cfg.repos)
      explicit == IF flag # NoRepo THEN flag ELSE cfg.terminal
      candidates == free \ cfg.foundation
  IN CASE {flag, cfg.terminal} \cap cfg.foundation # {} -> NoRepo
       [] explicit # NoRepo /\ {flag, cfg.terminal} \cap cfg.foundation = {} ->
            IF explicit \in free THEN explicit ELSE NoRepo
       [] OTHER -> IF Cardinality(candidates) = 1 THEN CHOOSE t \in candidates : TRUE ELSE NoRepo

\* Discover: the listing, or <<>> for an error.
Discover(w, flag) ==
  LET edges == SlugEdges(w)
      order == OrderByLevels(w.cfg.repos, DependsOn(w.cfg.repos, edges))
  IN IF SelectTerminal(w.cfg, edges, flag) = NoRepo \/ Len(order) < Cardinality(w.cfg.repos)
     THEN <<>> ELSE FoundationFirst(w.cfg, order)

----------------------------------------------------------------------------
(* tree and the follows check of update.                                    *)

\* renderTree: depth first from the terminal; a repeated repo is marked and not
\* entered again.  Lines are <<repo, repeated>>; walk[n] stands after n lines, of
\* which each dependency can cause one.
RenderTree(terminal, deps) ==
  LET walk[n \in Nat] ==
        IF n = 0 THEN [todo |-> <<terminal>>, lines |-> <<>>]
        ELSE LET w == walk[n - 1]
             IN IF w.todo = <<>> THEN w
                ELSE LET r == Head(w.todo)
                         seen == \E i \in DOMAIN w.lines : w.lines[i][1] = r
                     IN [todo  |-> (IF seen THEN <<>> ELSE Sorted(deps[r])) \o Tail(w.todo),
                         lines |-> Append(w.lines, <<r, seen>>)]
  IN walk[1 + Cardinality({d \in (DOMAIN deps) \X (DOMAIN deps) : d[2] \in deps[d[1]]})].lines

\* checkFollows, on a flake.lock: root maps an input to its node, and in[n][i]
\* is "node" for an input locked on its own and "follows" for one that follows.
Unfollowed(root, in, names) ==
  IF Cardinality(names) < 2 THEN {}
  ELSE {p \in names \X names : p[1] # p[2] /\ p[1] \in DOMAIN root
                               /\ in[root[p[1]]][p[2]] = "node"}
=============================================================================
