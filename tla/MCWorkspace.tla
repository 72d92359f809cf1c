----------------------------- MODULE MCWorkspace -----------------------------
(***************************************************************************)
(* TLC instance of Workspace and Workforest.  A behaviour is about one of  *)
(* five, and the variables of the other module rest: "graph", every de-    *)
(* pendency graph of three repos with every choice of foundation repos,    *)
(* flakes and terminal; "urls", two repos and one input in every form of   *)
(* URL; "files", a workspace of two repos that grows from nothing; "nest", *)
(* one verb at a time on a set "wf" and a set "wf/a" in its directory, of  *)
(* two repos of which the second uses the first, with faults and the       *)
(* user's own acts; "race", two verbs at once on "wf" and one such act.    *)
(***************************************************************************)
EXTENDS Workspace, Workforest, TLC

CONSTANTS First, Second, Focuses
VARIABLE focus

MCRepos == {1, 2}
MCSets == {"wf", "wf/a"}
MCInDir == [s \in MCSets |-> IF s = "wf/a" THEN "wf" ELSE NoSet]
MCLock == [terminal |-> 2, order |-> <<1, 2>>, repos |-> {1, 2}, flake |-> {1, 2},
           edges |-> {[consumer |-> 2, alias |-> 1, target |-> 1]}]
Sym == Permutations(Procs)
OfSets == {"nest", "race"}

Small == {1, 2}
Config(repos, foundation, terminal, urls) ==
  [repos |-> repos, foundation |-> foundation, located |-> repos, terminal |-> terminal,
   url |-> [r \in Keys |-> IF r \in repos THEN urls[r] ELSE URLOf(r)],
   mirrors |-> [r \in Keys |-> {}], remotes |-> [r \in Keys |-> {urls[r]}]]
PlainURLs == [r \in Keys |-> URLOf(r)]

GraphInit ==
  /\ \E foundation \in SUBSET Keys, terminal \in Keys \cup {NoRepo} :
       /\ terminal \notin foundation
       /\ config = Config(Keys, foundation, terminal, PlainURLs)
  /\ cloned = Keys
  /\ flakes \in {Keys} \cup {Keys \ {r} : r \in Keys}
  /\ eval = [r \in Keys |-> "full"]
  /\ inputs \in [Keys -> {{InputOf(t) : t \in S} : S \in SUBSET Keys}]
  /\ \A r \in Keys : InputOf(r) \notin inputs[r] /\ (r \notin flakes => inputs[r] = {})

URLs(names) ==
  {[form |-> f, host |-> h, name |-> n, extra |-> x] :
     f \in Forms, h \in Hosts, n \in names, x \in Extras}
Valid(u) == /\ u.form = "github" => u.host = "github" /\ u.extra # "port"
            /\ u.form = "path" => u.extra = "none" /\ u.host = "github"
            /\ u.extra = "port" => u.form \in {"ssh", "git+ssh"}

URLInit ==
  /\ \E declared \in URLs({2}), input \in URLs({2, 3}), flake \in BOOLEAN :
       /\ Valid(declared) /\ Valid(input)
       /\ config = Config(Small, {}, 1, [PlainURLs EXCEPT ![2] = declared])
       /\ inputs = [r \in Keys |-> IF r = 1 THEN {[alias |-> 2, url |-> input, flake |-> flake]} ELSE {}]
  /\ cloned = Small /\ flakes = Small
  /\ \E tier \in {"full", "fallback"} : eval = [r \in Keys |-> tier]

FilesInit ==
  /\ config = Config({1}, {}, NoRepo, PlainURLs)
  /\ cloned = {} /\ flakes \in {Small, {1}}
  /\ eval = [r \in Keys |-> "full"]
  /\ inputs = [r \in Keys |-> {}]

MCInit ==
  /\ focus \in Focuses
  /\ CASE focus = "graph" -> GraphInit [] focus = "urls" -> URLInit [] OTHER -> FilesInit
  /\ focus \in OfSets => flakes = Small
  /\ lock = EmptyLock /\ nameless = {} /\ allowed = FALSE /\ acts = 0
  /\ WorkspaceInit
  /\ IF focus = "race" THEN InitWith(MaxFaults, MaxUser - 1) ELSE Init

\* In "graph" and "urls" the question is what one lock command derives.
MCNext ==
  /\ UNCHANGED focus
  /\ \/ /\ UNCHANGED vars
        /\ \/ focus \in {"graph", "urls"} /\ lock = EmptyLock /\ \E flag \in Keys \cup {NoRepo} : LockCmd(flag, FALSE)
           \/ focus = "files" /\ (Commands \/ UserActsOn(Small))
     \/ /\ UNCHANGED workspaceVars
        /\ \/ focus = "nest" /\ \E p \in Procs : NextOn({p}, Sets) /\ \A q \in Procs \ {p} : op[q].pc = "idle"
           \/ focus = "race" /\ NextOn(Procs, {"wf"})

MCSpec == MCInit /\ [][MCNext]_<<workspaceVars, vars, focus>>
=============================================================================
