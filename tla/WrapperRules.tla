---------------------------- MODULE WrapperRules ----------------------------
(***************************************************************************)
(* The decisions of pg-nix-log-wrapped that are functions of its inputs:   *)
(* which program CMD is, whether a call is observed at all, which endpoint *)
(* its telemetry goes to, and which operation label it gets.               *)
(***************************************************************************)
EXTENDS Naturals, Sequences, SequencesExt

----------------------------------------------------------------------------
(* LookPath: the first usable PATH entry that is not the wrapper itself.   *)

\* An entry of PATH as the name resolves in it.  "self" is this binary, "copy"
\* another build of the wrapper (a shim), "plain" not executable.
Entries == {"absent", "plain", "self", "copy", "real"}

Usable(e) == e \notin {"absent", "plain"}
Wrapper(e) == e \in {"self", "copy"}

FirstWhere(path, Test(_)) ==
  LET found == {i \in DOMAIN path : Test(path[i])}
  IN IF found = {} THEN 0 ELSE CHOOSE i \in found : \A j \in found : i <= j

LookPath(path) == FirstWhere(path, LAMBDA e : Usable(e) /\ ~Wrapper(e))

\* --check: what a caller's PATH finds first, and whether that is a shim.
PathLookup(path) == FirstWhere(path, Usable)
IsShim(path) == PathLookup(path) # 0 /\ Wrapper(path[PathLookup(path)])

----------------------------------------------------------------------------
(* The verb table and the operation label.                                 *)

\* One row of verbTable per class that matters, with its label.
VerbTable ==
  {[tool |-> "nix", label |-> "build", class |-> "default"],
   [tool |-> "nix", label |-> "flake check", class |-> "default"],
   [tool |-> "nix", label |-> "run", class |-> "opt-in"],
   [tool |-> "nix", label |-> "flake lock", class |-> "opt-in"],
   [tool |-> "nix", label |-> "develop", class |-> "never"],
   [tool |-> "nix", label |-> "copy", class |-> "none"],
   [tool |-> "darwin-rebuild", label |-> "build", class |-> "default"],
   [tool |-> "darwin-rebuild", label |-> "switch", class |-> "default"],
   [tool |-> "darwin-rebuild", label |-> "activate", class |-> "never"]}

Labels(tool) == {row.label : row \in {w \in VerbTable : w.tool = tool}}

\* Tokens of a command line: verbs, a flag without value, flags that consume
\* one and two tokens, "--", and any other word.
Arity(t) ==
  CASE t = "--flake" -> 1
    [] t \in {"--option", "--override-input"} -> 2
    [] OTHER -> 0
IsFlag(t) == t \in {"-L", "-E", "--flake", "--option", "--override-input"}

\* The words of argv that are neither flags nor the values of known flags, up
\* to "--": a scan with the number of tokens still to skip.
Words(argv) ==
  FoldLeft(LAMBDA s, t :
             IF s.stop THEN s
             ELSE IF s.skip > 0 THEN [s EXCEPT !.skip = @ - 1]
             ELSE IF t = "--" THEN [s EXCEPT !.stop = TRUE]
             ELSE IF IsFlag(t) THEN [s EXCEPT !.skip = Arity(t)]
             ELSE [s EXCEPT !.words = Append(@, t)],
           [words |-> <<>>, skip |-> 0, stop |-> FALSE], argv).words

FlakeVerbs == {"check", "lock"}
NixVerbs == {"build", "run", "develop", "copy", "flake"}
DarwinVerbs == {"build", "switch", "activate"}

\* Subcommand: the first known verb, "flake" together with the next word.
Subcommand(tool, argv) ==
  LET words == Words(argv)
      verbs == IF tool = "nix" THEN NixVerbs ELSE DarwinVerbs
      i == FirstWhere(words, LAMBDA w : w \in verbs)
  IN IF i = 0 THEN "other"
     ELSE IF words[i] # "flake" THEN words[i]
     ELSE IF i < Len(words) /\ words[i + 1] = "check" THEN "flake check"
     ELSE IF i < Len(words) /\ words[i + 1] = "lock" THEN "flake lock"
     ELSE "other"

\* Allowlist: the default verbs plus the opt-in verbs a source names; nothing a
\* source says adds any other.
Allowlist(named) ==
  {<<row.tool, row.label>> : row \in
     {w \in VerbTable : \/ w.class = "default"
                        \/ w.class = "opt-in" /\ w.label \in named}}

\* The guard is on for a CMD that carries --override-input before any "--".
HasOverrideInput(argv) ==
  LET i == FirstWhere(argv, LAMBDA t : t = "--override-input")
      dashes == FirstWhere(argv, LAMBDA t : t = "--")
  IN i # 0 /\ (dashes = 0 \/ i < dashes)

----------------------------------------------------------------------------
(* Endpoint and dispatch.  A call:                                         *)
(*   shim       entered under the name nix or darwin-rebuild               *)
(*   root       euid 0                                                     *)
(*   disabled   PG_NIX_LOG_DISABLE or OTEL_SDK_DISABLED                    *)
(*   active     PG_NIX_LOG_ACTIVE: an outer wrapped run                    *)
(*   completion NIX_GET_COMPLETIONS                                        *)
(*   flag, env  --otlp-endpoint and OTEL_EXPORTER_OTLP_ENDPOINT are given  *)
(*   file       telemetry.toml: "absent", "off", "endpoint"                *)
(*   rootFile   what the root shim configuration turns out to be           *)
(*   named, rootNamed   opt-in verbs of the user's sources, of the root's  *)
(*   tool, argv what is called                                             *)
(*   allow      PG_NIX_LOG_ALLOW_UNMATCHED_OVERRIDE                        *)
(*   telemetry, files  telemetry and the log files can be set up           *)

\* loadRootConfig: only a regular file under the store, readable and well formed,
\* is used; any other reason makes a root shim pass through.
RootFiles == {"missing", "outside store", "not regular", "unreadable",
              "malformed", "no endpoint", "endpoint"}
RootConfigUsable(f) == f \in {"no endpoint", "endpoint"}

\* Resolve: where the endpoint comes from; "none" also when telemetry.toml
\* switches telemetry off.
Resolve(c, flag) ==
  CASE flag -> "flag"
    [] ~flag /\ c.root -> "none"
    [] ~flag /\ ~c.root /\ c.file = "off" -> "none"
    [] ~flag /\ ~c.root /\ c.file # "off" /\ c.env -> "env"
    [] OTHER -> IF c.file = "endpoint" THEN "file" ELSE "none"

\* A run whose telemetry is off or cannot be set up is still observed, without
\* export, when the override guard needs nix's warning.
GuardOnly(c) ==
  IF HasOverrideInput(c.argv) /\ ~c.allow /\ c.files THEN "guard only" ELSE "exec"

\* observe: passthrough, guard only, or the full observed run.
Observe(c, flag) ==
  CASE c.disabled -> "exec"
    [] ~c.disabled /\ Resolve(c, flag) # "none" /\ c.files /\ c.telemetry -> "observed"
    [] OTHER -> GuardOnly(c)

\* shimDecide: the reasons to exec the real binary, in order.
ShimPasses(c) ==
  \/ c.disabled \/ c.active \/ c.completion
  \/ c.root /\ ~(RootConfigUsable(c.rootFile) /\ c.rootFile = "endpoint")
  \/ <<c.tool, Subcommand(c.tool, c.argv)>>
       \notin Allowlist(IF c.root THEN c.rootNamed ELSE c.named)

\* Run and RunShim: a shim's endpoint flag comes from the root configuration
\* only.
Dispatch(c) ==
  IF c.shim THEN IF ShimPasses(c) THEN "exec" ELSE Observe(c, c.root)
            ELSE Observe(c, c.flag)

\* --check: telemetry would run, the log directory is writable, and both names
\* resolve to a shim.
CheckPasses(c, nixPath, darwinPath) ==
  /\ ~c.disabled /\ Resolve(c, c.flag) # "none"
  /\ c.telemetry /\ c.files
  /\ IsShim(nixPath) /\ IsShim(darwinPath)

\* ParseArgs: the wrapper's own flags up to "--" or the first other argument;
\* CMD is the rest, untouched.  0 for a usage error, else where CMD begins.
OwnFlags == {"--check"}
OwnValueFlags == {"--log-dir", "--otlp-endpoint", "--traceparent"}

CmdStartsAt(args) ==
  LET at[i \in 1 .. Len(args) + 2] ==
        IF i > Len(args) THEN IF i = Len(args) + 1 THEN i ELSE 0
        ELSE IF args[i] = "--" THEN i + 1
        ELSE IF args[i] \in OwnFlags THEN at[i + 1]
        ELSE IF args[i] \in OwnValueFlags THEN at[i + 2]
        ELSE IF args[i] = "--unknown" THEN 0 ELSE i
  IN at[1]

\* The environment of an observed CMD: the guard variable is exported.
ChildCall(c) == [c EXCEPT !.shim = TRUE, !.active = TRUE]
=============================================================================
