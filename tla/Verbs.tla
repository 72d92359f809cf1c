-------------------------------- MODULE Verbs --------------------------------
(***************************************************************************)
(* The commands of pn as a table: which event a verb fires its hooks for,  *)
(* which repositories it processes, whether it opens the workspace, what   *)
(* it takes for arguments and how it can end; and the exit code that an    *)
(* error becomes.                                                          *)
(***************************************************************************)
EXTENDS Naturals, Sequences, FiniteSets, SequencesExt

(* An error: its kind, and the code of the command that failed, which can   *)
(* be any (a hook may exit 75).                                            *)

NoError == [kind |-> "none", code |-> 0]
Error(kind) == [kind |-> kind, code |-> 0]
CommandFailed(code) == [kind |-> "command", code |-> code]

\* ExitCode, in the order in which it asks.
ExitCode(e) ==
  CASE e.kind = "none" -> 0
    [] e.kind = "usage" -> 2
    [] e.kind = "tool not found" -> 69
    [] e.kind = "busy" -> 75
    [] e.kind = "findings" -> 10
    [] e.kind = "command" -> IF e.code # 0 THEN e.code ELSE 1
    [] OTHER -> 1

\* A verb that fires no hooks, and one that does.
PlainVerb == [event |-> "none", opens |-> TRUE, openFails |-> 1, args |-> TRUE,
          ends |-> {NoError, Error("plain")}]
Hooked(cmd) == [PlainVerb EXCEPT !.event = cmd]
May(row, errors) == [row EXCEPT !.ends = @ \cup errors]

NixErrors == {CommandFailed(1), Error("tool not found")}

InitVerb == Hooked("init")
StatusVerb == Hooked("status")
CloneVerb == Hooked("clone")
LockVerb == Hooked("lock")
BuildVerb == [May(Hooked("build"), NixErrors \cup {Error("busy")}) EXCEPT !.args = FALSE]
ApplyVerb == [May(Hooked("apply"), NixErrors \cup {Error("busy")}) EXCEPT !.args = FALSE]
FlakeCheckVerb == May(Hooked("flake-check"), {Error("usage")})
LandCheckVerb == [May(FlakeCheckVerb, {Error("findings")}) EXCEPT !.openFails = 2]
PreCommitCheckVerb == Hooked("pre-commit-check")
PushVerb == Hooked("push")
RebaseVerb == May(Hooked("rebase"), {CommandFailed(1)})
FormatVerb == Hooked("format")
TreeVerb == Hooked("tree")
UpdateVerb == Hooked("update")
UpgradeVerb == May(Hooked("upgrade"), NixErrors \cup {Error("busy")})
DiscoverVerb == PlainVerb
InfoVerb == PlainVerb
DoctorVerb == [May(PlainVerb, {Error("findings")}) EXCEPT !.opens = FALSE]
NixCommandVerb == May(PlainVerb, NixErrors)
WorkforestAddVerb == PlainVerb
WorkforestAddRepoVerb == PlainVerb
WorkforestRemoveRepoVerb == PlainVerb
WorkforestListVerb == PlainVerb
WorkforestRemoveVerb == PlainVerb
WorkforestPruneVerb == PlainVerb
InstallHooksVerb == [PlainVerb EXCEPT !.opens = FALSE, !.ends = {Error("plain")}]

Rows ==
  [init |-> InitVerb, status |-> StatusVerb, clone |-> CloneVerb, lock |-> LockVerb, build |-> BuildVerb,
   apply |-> ApplyVerb, flakeCheck |-> FlakeCheckVerb, landCheck |-> LandCheckVerb,
   preCommitCheck |-> PreCommitCheckVerb, push |-> PushVerb, rebase |-> RebaseVerb, format |-> FormatVerb,
   tree |-> TreeVerb, update |-> UpdateVerb, upgrade |-> UpgradeVerb, discover |-> DiscoverVerb,
   info |-> InfoVerb, doctor |-> DoctorVerb, nix |-> NixCommandVerb, forestAdd |-> WorkforestAddVerb,
   addRepo |-> WorkforestAddRepoVerb, removeRepo |-> WorkforestRemoveRepoVerb,
   forestList |-> WorkforestListVerb, forestRemove |-> WorkforestRemoveVerb,
   forestPrune |-> WorkforestPruneVerb, installHooks |-> InstallHooksVerb]

\* waitFlag and noWaitArgs: `--wait 5m` is a bare --wait and a stray argument.
ArgsAccepted(row, stray) == stray => row.args

----------------------------------------------------------------------------
(* Events.                                                                 *)

HookableCommands ==
  {"clone", "rebase", "update", "status", "flake-check", "format", "push",
   "pre-commit-check", "build", "apply", "upgrade", "lock", "init", "tree"}

RepoIteratingCommands ==
  {"clone", "rebase", "update", "status", "flake-check", "format", "push", "pre-commit-check"}

\* splitEvent: <<phase, command>>.
KnownEvent(ev) == ev[1] \in {"pre", "post"} /\ ev[2] \in HookableCommands

\* ProcessedReposFor, in the order of the dependencies; "" where no terminal.
ProcessedReposFor(cmd, order, terminal) ==
  IF cmd \in RepoIteratingCommands \cup {"upgrade"} THEN order
  ELSE IF cmd \in {"build", "apply"} /\ terminal # "" THEN <<terminal>> ELSE <<>>

(* A hook: [scope, when, run], of the workspace ("root") or of a repository; *)
(* an entry of run is "check", "install" or another {nix_run}, "two" of     *)
(* them, or "malformed".                                                    *)

NixRuns(entry) == entry \in {"install", "other"}

\* validateAllHooks.
HookAccepted(hook) ==
  /\ \A ev \in hook.when : KnownEvent(ev)
  /\ \A i \in DOMAIN hook.run :
       /\ hook.run[i] \notin {"two", "malformed"}
       /\ NixRuns(hook.run[i]) => hook.scope # "root"

HooksAccepted(hooks) == \A i \in DOMAIN hooks : HookAccepted(hooks[i])

\* installHookDeclared.
InstallHookDeclared(hooks, repo) ==
  \E i \in DOMAIN hooks : hooks[i].scope = repo /\ Contains(hooks[i].run, "install")

\* The hook that init proposes.
ProposedHook(repo) ==
  [scope |-> repo, run |-> <<"install">>,
   when |-> {<<"post", "clone">>, <<"post", "rebase">>, <<"post", "update">>, <<"post", "upgrade">>}]

\* The entries that fire for an event, in order: <<scope, entry>>.
EntriesFor(hooks, scope, ev) ==
  FlattenSeq([i \in DOMAIN hooks |->
                IF hooks[i].scope = scope /\ ev \in hooks[i].when
                THEN [j \in DOMAIN hooks[i].run |-> <<scope, hooks[i].run[j]>>] ELSE <<>>])

Fired(hooks, ev, processed) ==
  EntriesFor(hooks, "root", ev) \o FlattenSeq([i \in DOMAIN processed |-> EntriesFor(hooks, processed[i], ev)])
=============================================================================
