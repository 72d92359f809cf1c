-------------------------------- MODULE Hooks --------------------------------
(***************************************************************************)
(* One pn verb after the other between its hooks: the configuration that   *)
(* it loads and the trust that is asked for it, before and after the verb, *)
(* while the operator edits it, the checkouts and the hooks' files.        *)
(***************************************************************************)
EXTENDS Verbs, HookBundle

CONSTANTS MaxVerbs, MaxChanges, Declared

\* Hooks of any scope, for any events ("allow" is not one), with any entries.
HookRows ==
  [scope : {"root", "lib", "top"},
   when : SUBSET ({"pre", "post"} \X (HookableCommands \cup {"allow"})),
   run : Seq({"check", "install", "other", "two", "malformed"})]
ASSUME HooksAssumption == Declared \in Seq(Seq(HookRows))

VARIABLES
  config,   \* pn-workspace.toml and its trust record: [file, record]
  verb,     \* the run: see Idle
  left      \* <<verbs, changes of the operator>> still to come

hookVars == <<disk, bundles, config, verb, left>>

----------------------------------------------------------------------------
(* Configurations: Declared[v] is the hooks of pn-workspace.toml as of ver-  *)
(* sion v; 0 cannot be read at all.                                         *)

Parses(v) == v # 0 /\ HooksAccepted(Declared[v])
Order == <<"lib", "top">>

\* Variant: a record is enough.
AnyRecord == config.record \in DOMAIN Declared

\* A record that cannot be parsed.
Garbled == Len(Declared) + 1

\* IsAllowed and EnsureAllowed: the record is of the file as it is now.
EnsureAllowed == config.record # 0 /\ config.file # 0 /\ config.record = config.file

\* name, row: the verb and its row; where: the checkout; conf: what it loaded;
\* stage: "idle", "pre", "post" (the gate), "pre hooks", "post hooks", "body", "build",
\* "done"; todo: the hooks to run; from: what nix built of, and swapped: it is in place;
\* ran: <<phase, hook>>, warned, body and exit are what happened; fresh: nobody changed
\* anything meanwhile.
Idle == [stage |-> "idle", name |-> "status", where |-> "clone", conf |-> 0, todo |-> <<>>,
         from |-> NoBundle.from, swapped |-> FALSE, ran |-> {}, warned |-> FALSE, body |-> FALSE,
         exit |-> 0, fresh |-> TRUE]

Row == Rows[verb.name]
Loaded == IF verb.conf = 0 THEN <<>> ELSE Declared[verb.conf]
FiredNow(phase) ==
  Fired(Loaded, <<phase, Row.event>>, ProcessedReposFor(Row.event, Order, "top"))

Done(exit) == verb' = [verb EXCEPT !.stage = "done", !.exit = exit, !.todo = <<>>]

\* Resolving the root, opening the workspace.
Begin(name, where, stray) ==
  /\ verb.stage = "idle" /\ left[1] > 0
  /\ left' = [left EXCEPT ![1] = @ - 1]
  /\ LET start == [Idle EXCEPT !.name = name, !.where = where, !.conf = config.file,
                               !.stage = IF Rows[name].event = "none" THEN "body" ELSE "pre"]
         fails == Rows[name].opens /\ ~Parses(config.file)
     IN verb' = IF ~ArgsAccepted(Rows[name], stray) THEN [start EXCEPT !.stage = "done", !.exit = 1]
                ELSE IF fails THEN [start EXCEPT !.stage = "done", !.exit = Rows[name].openFails]
                ELSE start
  /\ UNCHANGED <<files, config>>

\* RunEventHooks, up to the first hook: no trust is asked for where none fires.
\* Untrusted pre hooks end the run; untrusted post hooks are skipped.
HookGate(phase) ==
  /\ verb.stage = phase
  /\ LET run == [verb EXCEPT !.stage = IF phase = "pre" THEN "pre hooks" ELSE "post hooks"]
     IN IF FiredNow(phase) = <<>> \/ EnsureAllowed
        THEN verb' = [run EXCEPT !.todo = FiredNow(phase)]
        ELSE IF phase = "pre" THEN Done(1)
        ELSE verb' = [run EXCEPT !.warned = TRUE]
  /\ UNCHANGED <<files, config, left>>

InHooks == verb.stage \in {"pre hooks", "post hooks"} /\ verb.todo # <<>>
Phase == IF verb.stage \in {"pre", "pre hooks"} THEN "pre" ELSE "post"
ThisHook == <<Phase, verb.todo[1]>>

\* top's hooks are those of the files; lib's lie elsewhere.
Installs == verb.todo[1] = <<"top", "install">>

\* What a hook's end makes of the run: a pre hook that fails ends it with its
\* exit code, a post hook is warned of.
HookEnds(run, code) ==
  verb' = IF code = 0 THEN [run EXCEPT !.todo = Tail(@)]
          ELSE IF run.stage = "pre hooks"
          THEN [run EXCEPT !.stage = "done", !.exit = ExitCode(CommandFailed(code)), !.todo = <<>>]
          ELSE [run EXCEPT !.todo = Tail(@), !.warned = TRUE]

\* sh -c of any other entry; hooks may exit as they like.
CheckRuns ==
  /\ InHooks /\ ~Installs
  /\ \E code \in {0, 1, 75} : HookEnds([verb EXCEPT !.ran = @ \cup {ThisHook}], code)
  /\ UNCHANGED <<files, config, left>>

\* The idempotency gate, before the installer is built at all.
InstallSkipped ==
  /\ InHooks /\ Installs /\ InstallHookUpToDate(verb.where) /\ verb.from = NoBundle.from
  /\ HookEnds(verb, 0)
  /\ UNCHANGED <<files, config, left>>

\* nix builds the bundle, of the checkout and the producer as they are.
InstallBuilds ==
  /\ InHooks /\ Installs /\ ~InstallHookUpToDate(verb.where) /\ verb.from = NoBundle.from
  /\ verb' = [verb EXCEPT !.from = Built(verb.where), !.ran = @ \cup {ThisHook}]
  /\ UNCHANGED <<files, config, left>>

\* pg-hooks-install, unless it refuses: the new bundle, then the stubs.
InstallSwaps ==
  /\ InHooks /\ Installs /\ verb.from # NoBundle.from /\ ~verb.swapped
  /\ ~InstallRefused(verb.where, Linked(verb.where))
  /\ Swap(verb.where, verb.from)
  /\ verb' = [verb EXCEPT !.swapped = TRUE]
  /\ UNCHANGED <<disk, config, left>>

InstallOver(code) == HookEnds([verb EXCEPT !.from = NoBundle.from, !.swapped = FALSE], code)

\* It refuses, before or after the new bundle is in place, or something fails.
InstallEnds ==
  /\ InHooks /\ Installs /\ verb.from # NoBundle.from
  /\ LET refuses == InstallRefused(verb.where, Linked(verb.where))
     IN \/ verb.swapped /\ ~refuses /\ disk' = SyncStubs(verb.where) /\ InstallOver(0)
        \/ InstallOver(IF refuses THEN 2 ELSE 1) /\ UNCHANGED disk
  /\ UNCHANGED <<bundles, config, left>>

HooksEnd ==
  /\ verb.stage \in {"pre hooks", "post hooks"} /\ verb.todo = <<>>
  /\ verb' = [verb EXCEPT !.stage = IF @ = "pre hooks" THEN "body" ELSE "done"]
  /\ UNCHANGED <<files, config, left>>

\* The versions that are the one loaded with the hook that init proposes.
Grown(hooks) == {v \in DOMAIN Declared : Declared[v] = Append(hooks, ProposedHook("top"))}

\* The verb itself; init --yes adds the hook where it is not declared and writes
\* the configuration that it had loaded.
BodyEnds ==
  /\ verb.stage = "body"
  /\ \E e \in Row.ends :
       verb' = [verb EXCEPT !.stage = IF Row.event = "none" THEN "done" ELSE "post",
                            !.body = TRUE, !.exit = ExitCode(e)]
  /\ IF verb.name = "init" /\ ~InstallHookDeclared(Loaded, "top")
     THEN config' \in {config} \cup {[config EXCEPT !.file = v] : v \in Grown(Loaded)}
     ELSE UNCHANGED config
  /\ UNCHANGED <<files, left>>

Over == verb.stage = "done" /\ verb' = Idle /\ UNCHANGED <<files, config, left>>

----------------------------------------------------------------------------
(* pn workspace allow and deny, and the operator.                          *)

Changes ==
  /\ verb.stage # "done" /\ left[2] > 0 /\ left' = [left EXCEPT ![2] = @ - 1]
  /\ verb' = [verb EXCEPT !.fresh = verb.stage = "idle"]

Allow ==
  /\ Changes /\ config.file # 0
  /\ config' = [config EXCEPT !.record = config.file]
  /\ UNCHANGED files

Deny == Changes /\ config' = [config EXCEPT !.record = 0] /\ UNCHANGED files

EditConfig ==
  /\ Changes
  /\ \E v \in (0 .. Len(Declared)) \ {config.file} : config' = [config EXCEPT !.file = v]
  /\ UNCHANGED files

RecordGarbled == Changes /\ config' = [config EXCEPT !.record = Garbled] /\ UNCHANGED files

Elsewhere == Changes /\ FilesChange /\ UNCHANGED config

----------------------------------------------------------------------------
HooksInit ==
  /\ FilesInit
  /\ \E v \in {v \in DOMAIN Declared : Parses(v)} : \E r \in {0, v} : config = [file |-> v, record |-> r]
  /\ verb = Idle /\ left = <<MaxVerbs, MaxChanges>>

\* Bounds: a verb that no configuration has a hook for comes first or not at all,
\* and it matters where a verb runs only if it installs hooks.
Accepted == UNION {ToSet(Declared[v]) : v \in {v \in DOMAIN Declared : Parses(v)}}
Hooking(hooks) == {name \in DOMAIN Rows : \E hook \in hooks : \E ev \in hook.when : ev[2] = Rows[name].event}
Quiet == DOMAIN Rows \ Hooking(Accepted)
Installing == Hooking({hook \in Accepted : hook.scope = "top" /\ Contains(hook.run, "install")})

Chosen(name, where) ==
  /\ verb.stage = "idle"
  /\ name \in Quiet => left = <<MaxVerbs, MaxChanges>>
  /\ name \notin Installing => where = "clone"

HooksNext ==
  \/ \E name \in DOMAIN Rows, where \in Checkouts, stray \in BOOLEAN :
       Chosen(name, where) /\ Begin(name, where, stray)
  \/ \E phase \in {"pre", "post"} : HookGate(phase)
  \/ CheckRuns \/ InstallSkipped \/ InstallBuilds \/ InstallSwaps \/ InstallEnds \/ HooksEnd \/ BodyEnds \/ Over
  \/ Allow \/ Deny \/ EditConfig \/ RecordGarbled \/ Elsewhere

----------------------------------------------------------------------------
\* Of an undisturbed run, no hook ran that the recorded configuration does not name
\* for this event, though init may have rewritten the configuration in between.  A run
\* that a gate or a hook ended before its verb ran no post hook, and one that went on
\* ends as its verb ended, whatever its hooks did.
Named(hooks, ev) ==
  UNION {{<<hook.scope, hook.run[i]>> : i \in DOMAIN hook.run} :
           hook \in {h \in ToSet(hooks) : ev \in h.when}}
Recorded == IF config.record \in DOMAIN Declared THEN Declared[config.record] ELSE <<>>

HooksAreGated ==
  /\ verb.fresh => \A r \in verb.ran : r[2] \in Named(Recorded, <<r[1], Row.event>>)
  /\ verb.stage = "done" /\ ~verb.body => \A r \in verb.ran : r[1] = "pre"
  /\ verb.stage = "done" /\ verb.body => verb.exit \in {ExitCode(e) : e \in Row.ends}

\* After an update that nobody disturbed and that warned of nothing, the hooks of the
\* checkout are its own, built of what it and its clean producer hold now, unless an
\* earlier install was disturbed or its source.json is lost.
InstalledMeansCurrent ==
  LET b == bundles[Own(verb.where)]
  IN /\ verb.stage = "done" /\ verb.fresh /\ verb.body /\ ~verb.warned
     /\ Contains(FiredNow("post"), <<"top", "install">>)
     => /\ Rooted(b) /\ Bundle(verb.where) = b
        /\ b.source = "ok" /\ ~b.torn =>
             /\ b.from.index = disk.index[verb.where]
             /\ Linked(verb.where) /\ b.from.lib.work = 0 => b.from.lib = disk.lib
=============================================================================
