----------------------------- MODULE ExecRules -----------------------------
(***************************************************************************)
(* A nix command that pn starts, from the Runner to the real tool: the     *)
(* telemetry pn resolves, the rewriting of the command line, the environ-  *)
(* ment of a script, and then, process by process, sudo, the wrapper and   *)
(* the shims on PATH, which decide by WrapperRules.                        *)
(***************************************************************************)
EXTENDS WrapperRules

VARIABLES asked, conf, proc, observed, wrapped, sub

chain == <<asked, conf, proc, observed, wrapped, sub>>

(* asked: the command, [name, args, nix, trace]: nix marks a call site with  *)
(*   WrapNix, trace one with PropagateTrace.                               *)
(* conf: off (what forces telemetry off: "no", "flag", "=1", "=true"), flag, *)
(*   env and file (endpoints), reachable, wrapper (what telemetry.toml      *)
(*   names), path and profile (the tool on PATH and in the system profile), *)
(*   rootFile, files (the wrapper's logs can be set up).                    *)
(* proc: [prog, args, root, active, disabled, script, path] of the process  *)
(*   that runs; observed: how often the run was observed on the way.        *)

WrapperPaths == {"none", "relative", "outside", "store", "plain"}
Telemetry == {"no", "flag", "=1", "=true"}

----------------------------------------------------------------------------
(* telemetrycfg.                                                           *)

\* Resolve: pn knows --no-telemetry and PG_NIX_LOG_DISABLE=1, not =true.
EndpointOf(c) ==
  CASE c.off \in {"flag", "=1"} -> "none"
    [] c.off \notin {"flag", "=1"} /\ ~c.flag /\ c.file = "off" -> "none"
    [] OTHER -> IF c.flag THEN "flag"
                ELSE IF c.env THEN "env"
                ELSE IF c.file = "endpoint" THEN "file" ELSE "none"

\* Prepare: an endpoint nobody answers at turns telemetry off.
Enabled(c) == EndpointOf(c) # "none" /\ c.reachable

\* Root runs a wrapper only from the store; "plain" lies there and cannot be run.
SudoWrapperValid(c) == c.wrapper \in {"store", "plain"}
IsAbs(c) == c.wrapper \in {"outside", "store", "plain"}
Executable(c) == c.wrapper \in {"outside", "store"}

\* userWrapper.
UserWrapper(c) == Enabled(c) /\ IsAbs(c) /\ Executable(c)

----------------------------------------------------------------------------
(* The decorators.                                                         *)

WrappedCommands == {"darwin-rebuild", "nix"}

\* Variant: sudo's own options are looked over.
WrapTargetPastOptions(name, args) ==
  IF name = "sudo"
  THEN IF Head(SelectSeq(args, LAMBDA t : t # "-E")) \in WrappedCommands THEN "sudo" ELSE "none"
  ELSE IF name \in WrappedCommands THEN "direct" ELSE "none"

\* wrapTarget: the command itself, or sudo directly followed by it.
WrapTarget(name, args) ==
  IF name = "sudo"
  THEN IF args # <<>> /\ Head(args) \in WrappedCommands THEN "sudo" ELSE "none"
  ELSE IF name \in WrappedCommands THEN "direct" ELSE "none"

\* rewrite's reasons, in its order; "" to wrap.
SkipReason(c, cmd) ==
  LET target == WrapTarget(cmd.name, cmd.args)
  IN CASE ~cmd.nix -> "not requested"
       [] cmd.nix /\ ~Enabled(c) -> "telemetry off"
       [] cmd.nix /\ Enabled(c) /\ c.wrapper = "none" -> "no wrapper path"
       [] OTHER ->
            IF target = "none" THEN "unrecognized form"
            ELSE IF target = "sudo" /\ ~SudoWrapperValid(c) THEN "sudo wrapper not in store"
            ELSE IF target = "direct" /\ ~IsAbs(c) THEN "wrapper not absolute"
            ELSE IF ~Executable(c) THEN "wrapper not executable" ELSE ""

\* A root wrapper logs to its own directory.
WrapperFlags(sudo) ==
  <<"--traceparent", "tp", "--otlp-endpoint", "url">>
    \o (IF sudo THEN <<>> ELSE <<"--log-dir", "dir">>) \o <<"--">>

\* The command line that is run: the wrapper in front, or behind sudo.
Rewrite(c, cmd) ==
  IF SkipReason(c, cmd) # "" THEN <<cmd.name>> \o cmd.args
  ELSE IF cmd.name = "sudo"
       THEN <<"sudo", "wrapper">> \o WrapperFlags(TRUE) \o cmd.args
       ELSE <<"wrapper">> \o WrapperFlags(FALSE) \o <<cmd.name>> \o cmd.args

\* traceEnvRunner: the wrapper travels in the environment, unless it is unusable.
ScriptWrapper(c, cmd) == cmd.trace /\ UserWrapper(c)

\* ResolveTool: PATH, else PATH with the first profile directory that has it.
ResolveTool(path, profile) ==
  LET i == FirstWhere(profile, Usable)
  IN IF FirstWhere(path, Usable) # 0 THEN path
     ELSE IF i # 0 THEN Append(path, profile[i]) ELSE <<>>

\* ExecSubcommand: sudo with its options, env with its assignments, the base
\* name, then the words; anything outside the table is "other".
BaseName(t) == IF t = "/out/darwin-rebuild" THEN "darwin-rebuild" ELSE t
IsOption(t) == t \in {"-E", "-i", "-L", "--flake", "--option", "--override-input", "--"}
IsAssignment(t) == t \in {"A=1"}

From(s, i) == SubSeq(s, i, Len(s))
SkipWhile(s, Test(_)) ==
  LET i == FirstWhere(s, LAMBDA t : ~Test(t)) IN IF i = 0 THEN <<>> ELSE From(s, i)

AfterSudo(argv) ==
  IF argv # <<>> /\ BaseName(Head(argv)) = "sudo" THEN SkipWhile(Tail(argv), IsOption) ELSE argv
AfterEnv(argv) ==
  IF argv # <<>> /\ Head(argv) = "env"
  THEN SkipWhile(Tail(argv), LAMBDA t : t = "-i" \/ IsAssignment(t)) ELSE argv

\* subcommandTokens: unlike the wrapper's scan it goes on behind "--".
SubcommandTokens(argv) ==
  FoldLeft(LAMBDA s, t :
             IF s.skip > 0 THEN [s EXCEPT !.skip = @ - 1]
             ELSE IF IsOption(t) THEN [s EXCEPT !.skip = Arity(t)]
             ELSE [s EXCEPT !.words = Append(@, t)],
           [words |-> <<>>, skip |-> 0], argv).words

ExecSubcommands ==
  {<<"darwin-rebuild", "build">>, <<"darwin-rebuild", "switch">>,
   <<"darwin-rebuild", "activate">>, <<"nix-env">>, <<"nix", "build">>,
   <<"nix", "run">>, <<"nix", "flake", "check">>, <<"nix", "flake", "lock">>}

ExecSubcommand(name, args) ==
  LET argv == AfterEnv(AfterSudo(<<name>> \o args))
      tool == BaseName(Head(argv))
      words == SubcommandTokens(Tail(argv))
      longest == IF tool = "nix" /\ Len(words) > 2 THEN 3
                 ELSE IF words = <<>> THEN 0 ELSE IF tool = "nix" THEN Len(words) ELSE 1
      keys == IF tool = "nix-env" THEN <<<<tool>>>>
              ELSE [n \in 1 .. longest |-> <<tool>> \o SubSeq(words, 1, longest + 1 - n)]
      i == FirstWhere(keys, LAMBDA k : k \in ExecSubcommands)
  IN IF argv = <<>> \/ i = 0 THEN <<"other">> ELSE keys[i]

----------------------------------------------------------------------------
(* The processes.                                                          *)

Process(argv, p) == [p EXCEPT !.prog = Head(argv), !.args = Tail(argv)]

\* pn: tracing, trace environment, wrapping, the lookup of the tool.
PnRuns ==
  /\ proc.prog = "pn"
  /\ LET path == IF asked.name = "darwin-rebuild"
                 THEN ResolveTool(conf.path, conf.profile) ELSE conf.path
     IN IF asked.name = "darwin-rebuild" /\ path = <<>>
        THEN /\ proc' = [proc EXCEPT !.prog = "refused"]
             /\ UNCHANGED <<wrapped, sub>>
        ELSE /\ proc' = [Process(Rewrite(conf, asked), proc) EXCEPT
                           !.path = path, !.script = ScriptWrapper(conf, asked)]
             /\ wrapped' = SkipReason(conf, asked)
             /\ sub' = ExecSubcommand(asked.name, asked.args)
  /\ UNCHANGED <<asked, conf, observed>>

\* sudo drops the environment, unless -E.
SudoRuns ==
  /\ proc.prog = "sudo"
  /\ LET keep == Head(proc.args) = "-E"
         next == Process(IF keep THEN Tail(proc.args) ELSE proc.args, proc)
     IN proc' = [next EXCEPT !.root = TRUE,
                             !.active = keep /\ @, !.disabled = keep /\ @]
  /\ UNCHANGED <<asked, conf, observed, wrapped, sub>>

\* env -i A=1 CMD.
EnvRuns ==
  /\ proc.prog = "env"
  /\ proc' = [Process(AfterEnv(<<"env">> \o proc.args), proc) EXCEPT
                !.active = FALSE, !.disabled = FALSE]
  /\ UNCHANGED <<asked, conf, observed, wrapped, sub>>

\* update-locks.sh: nix flake lock, behind the wrapper that it was told of.
ScriptRuns ==
  /\ proc.prog = "./update-locks.sh"
  /\ LET nix == <<"nix", "flake", "lock">>
     IN proc' = Process(IF proc.script /\ ~proc.disabled
                        THEN <<"wrapper", "--otlp-endpoint", "url", "--">> \o nix ELSE nix, proc)
  /\ UNCHANGED <<asked, conf, observed, wrapped, sub>>

\* The call as the wrapper or a shim sees it (WrapperRules).
CallOf(shim, tool, args, flag) ==
  [shim |-> shim, root |-> proc.root, disabled |-> proc.disabled, active |-> proc.active,
   completion |-> FALSE, flag |-> flag, env |-> conf.env /\ ~proc.root, file |-> conf.file,
   rootFile |-> conf.rootFile, named |-> {}, rootNamed |-> {}, tool |-> tool, argv |-> args,
   allow |-> FALSE, telemetry |-> TRUE, files |-> conf.files]

\* What the wrapper leaves to the real tool, which it finds past every shim.
Observing(call) ==
  LET how == Dispatch(call)
  IN /\ observed' = observed + IF how = "observed" THEN 1 ELSE 0
     /\ proc' = IF LookPath(proc.path) = 0 THEN [proc EXCEPT !.prog = "not found"]
                ELSE [proc EXCEPT !.prog = "real", !.args = <<call.tool>> \o call.argv,
                                  !.active = IF how = "exec" THEN @ ELSE ChildCall(call).active]

WrapperRuns ==
  /\ proc.prog = "wrapper"
  /\ LET at == CmdStartsAt(proc.args)
         cmd == From(proc.args, at)
         flag == \E i \in 1 .. at - 1 : proc.args[i] = "--otlp-endpoint"
     IN IF at = 0 \/ cmd = <<>>
        THEN proc' = [proc EXCEPT !.prog = "usage"] /\ UNCHANGED observed
        ELSE Observing(CallOf(FALSE, Head(cmd), Tail(cmd), flag))
  /\ UNCHANGED <<asked, conf, wrapped, sub>>

\* A bare name: the real tool, or a shim in front of it on PATH.
ToolRuns ==
  /\ proc.prog \in WrappedCommands
  /\ LET i == PathLookup(proc.path)
     IN CASE i = 0 -> proc' = [proc EXCEPT !.prog = "not found"] /\ UNCHANGED observed
          [] i # 0 /\ IsShim(proc.path) ->
               Observing(CallOf(TRUE, proc.prog, proc.args, FALSE))
          [] OTHER -> /\ proc' = [proc EXCEPT !.prog = "real", !.args = <<proc.prog>> \o @]
                      /\ UNCHANGED observed
  /\ UNCHANGED <<asked, conf, wrapped, sub>>

\* The real darwin-rebuild calls nix by its name; the real nix is the end.
RealRuns ==
  /\ proc.prog = "real"
  /\ proc' = IF Head(proc.args) = "darwin-rebuild" THEN Process(<<"nix", "build">>, proc)
             ELSE [proc EXCEPT !.prog = "end"]
  /\ UNCHANGED <<asked, conf, observed, wrapped, sub>>

ChainNext == PnRuns \/ SudoRuns \/ EnvRuns \/ ScriptRuns \/ WrapperRuns \/ ToolRuns \/ RealRuns

ChainInit(commands, confs) ==
  /\ asked \in commands /\ conf \in confs
  /\ proc = [prog |-> "pn", args |-> <<>>, root |-> FALSE, active |-> FALSE,
             disabled |-> conf.off \in {"=1", "=true"}, script |-> FALSE, path |-> conf.path]
  /\ observed = 0 /\ wrapped = "" /\ sub = <<"other">>

----------------------------------------------------------------------------
\* What the real tool is given in the end, whatever runs in between.
AskedTool ==
  LET argv == AfterEnv(AfterSudo(<<asked.name>> \o asked.args))
  IN IF asked.name = "./update-locks.sh" THEN <<"nix", "flake", "lock">> ELSE argv

\* However many wrappers and shims a command meets, nobody counts it twice, and
\* the tool gets the command line that pn asked for, as the user pn asked for.
\* A run that pn reported as wrapped was observed, where its logs can be written
\* and no switch that only the wrapper knows is set.
ObservedOnceUntouched ==
  /\ observed <= 1
  /\ proc.prog # "usage"
  /\ proc.prog = "real" =>
       /\ \/ proc.args = AskedTool
          \/ proc.args = <<"nix", "build">> /\ Head(AskedTool) = "darwin-rebuild"
       /\ proc.root <=> asked.name = "sudo"
  /\ proc.prog = "wrapper" /\ proc.root => conf.wrapper = "store"
  /\ proc.prog = "end" /\ wrapped = "" /\ conf.files /\ conf.off # "=true" => observed = 1
  /\ sub \in ExecSubcommands \cup {<<"other">>}
=============================================================================
