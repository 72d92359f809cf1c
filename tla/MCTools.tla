------------------------------ MODULE MCTools ------------------------------
(***************************************************************************)
(* TLC instance of five parts that share nothing: the worker pool with     *)
(* exec.Run, the rules by which a command is rewritten on its way to a     *)
(* process, the jira client, the git side of rebase and update in place,   *)
(* and the update of one repository in a worktree.  The focus says which   *)
(* of them runs; the others stay at one initial state.                     *)
(***************************************************************************)
EXTENDS Exec, ExecRules, Jira, Sync, UpdateWorktree

VARIABLE focus

MCOrder == <<"r1", "r2">>

MCTexts == {<<"x">>, <<" ", "x", "nl", "nl", "x", "nl">>, <<"x", " ", "nl", " ", "x">>}

MCCommands ==
  {[name |-> "nix", args |-> <<"flake", "check">>, nix |-> TRUE, trace |-> FALSE],
   [name |-> "nix", args |-> <<"--option", "run", "x", "flake", "lock">>, nix |-> TRUE, trace |-> FALSE],
   [name |-> "nix", args |-> <<"run", "--", "--check", "--">>, nix |-> TRUE, trace |-> FALSE],
   [name |-> "nix", args |-> <<"build", "-L">>, nix |-> FALSE, trace |-> FALSE],
   [name |-> "darwin-rebuild", args |-> <<"--flake", "switch", "build", "--override-input", "n", "p">>, nix |-> TRUE, trace |-> FALSE],
   [name |-> "sudo", args |-> <<"darwin-rebuild", "switch", "--override-input", "n", "p">>, nix |-> TRUE, trace |-> FALSE],
   [name |-> "sudo", args |-> <<"-E", "nix", "build">>, nix |-> TRUE, trace |-> FALSE],
   [name |-> "sudo", args |-> <<"env", "-i", "A=1", "nix-env">>, nix |-> FALSE, trace |-> FALSE],
   [name |-> "sudo", args |-> <<"/out/darwin-rebuild", "activate">>, nix |-> TRUE, trace |-> FALSE],
   [name |-> "./update-locks.sh", args |-> <<>>, nix |-> FALSE, trace |-> TRUE]}
MCConfs ==
  {c \in [off : Telemetry, flag : BOOLEAN, env : BOOLEAN, file : {"absent", "off", "endpoint"},
          reachable : BOOLEAN, wrapper : WrapperPaths,
          path : {<<"real">>, <<"self", "plain", "real">>, <<"absent">>}, profile : {<<"absent", "real">>},
          rootFile : {"missing", "endpoint"}, files : BOOLEAN] :
     /\ c.file = "absent" => c.wrapper = "none"
     /\ ~c.reachable => c.off = "no" /\ c.files
     /\ c.off # "no" => c.flag /\ c.file # "absent"}

MCExecRest == ExecInit
MCRulesRest == ChainInit({CHOOSE c \in MCCommands : TRUE}, {CHOOSE c \in MCConfs : TRUE})
MCJiraRest == command = [Plain EXCEPT !.op = "auth"] /\ JiraInit
MCSyncRest == /\ sync = "rebase" /\ tracked = {} /\ scripts = {}
              /\ trees = [r \in SyncRepos |-> [up |-> "ahead", rebase |-> "none", edits |-> "none",
                                              held |-> "none", stash |-> FALSE]]
              /\ SyncInit

MCWorktreeRest == /\ main = <<Base>> /\ head = "main" /\ tree = "clean" /\ stash = << >>
                  /\ remote = <<Base>> /\ Init

MCInit ==
  \/ focus = "exec" /\ ExecInit /\ MCRulesRest /\ MCJiraRest /\ MCSyncRest /\ MCWorktreeRest
  \/ /\ focus = "rules" /\ ChainInit(MCCommands, MCConfs)
     /\ MCExecRest /\ MCJiraRest /\ MCSyncRest /\ MCWorktreeRest
  \/ focus = "jira" /\ JiraInit /\ MCExecRest /\ MCRulesRest /\ MCSyncRest /\ MCWorktreeRest
  \/ focus = "sync" /\ SyncInit /\ MCExecRest /\ MCRulesRest /\ MCJiraRest /\ MCWorktreeRest
  \/ focus = "worktree" /\ Init /\ MCExecRest /\ MCRulesRest /\ MCJiraRest /\ MCSyncRest

MCNext ==
  \/ focus = "exec" /\ ExecNext /\ UNCHANGED <<focus, chain, jiraVars, syncVars, vars>>
  \/ focus = "rules" /\ ChainNext /\ UNCHANGED <<focus, execVars, jiraVars, syncVars, vars>>
  \/ focus = "jira" /\ JiraNext /\ UNCHANGED <<focus, execVars, chain, syncVars, vars>>
  \/ focus = "sync" /\ SyncNext /\ UNCHANGED <<focus, execVars, chain, jiraVars, vars>>
  \/ focus = "worktree" /\ Next /\ UNCHANGED <<focus, execVars, chain, jiraVars, syncVars>>

\* The fairness of ExecSpec; the other parts have no property that needs any.
MCFair == WF_execVars(focus = "exec" /\ Pn)

MCSpec == MCInit /\ [][MCNext]_<<focus, execVars, chain, jiraVars, syncVars, vars>> /\ MCFair

\* The operator's rebase needs no fairness.
MCSyncInit == focus = "sync" /\ SyncInit /\ MCExecRest /\ MCRulesRest /\ MCJiraRest /\ MCWorktreeRest
MCSyncSpec == MCSyncInit /\ [][MCNext]_<<focus, execVars, chain, jiraVars, syncVars, vars>>
=============================================================================
