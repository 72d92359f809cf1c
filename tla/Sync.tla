-------------------------------- MODULE Sync --------------------------------
(***************************************************************************)
(* pn workspace rebase, rebase --onto and update --in-place over the       *)
(* repositories in topological order (modules/pn/internal/workspace/       *)
(* rebase.go, update.go), beside an operator who edits, rebases and        *)
(* interrupts.                                                             *)
(*                                                                         *)
(* A checkout is [up, rebase, edits, held, stash]: what HEAD lacks of the  *)
(* upstream or of the --onto ref, whose rebase is in progress, the         *)
(* uncommitted edits, those an autostash holds, and a stash that was kept. *)
(***************************************************************************)
EXTENDS Naturals, Sequences, SequencesExt

CONSTANTS Order,      \* the repositories, dependencies first
          MaxTouches, \* bound: what the operator does
          MaxTrouble  \* bound: probes and commands that fail

ASSUME SyncAssumption == /\ MaxTouches \in Nat /\ MaxTrouble \in Nat
                         /\ Order \in Seq(ToSet(Order)) /\ IsInjective(Order)

VARIABLES
  sync,       \* what was asked: "rebase", "onto", "update", "siblings"
  queue, at,  \* the repositories left, the first of them in work; the step
  trees,      \* the checkouts
  tracked,    \* the repositories that have an upstream, or the --onto ref
  scripts,    \* those that have an update-locks.sh
  report, verdict,  \* what is said of each repository; how the verb ends
  pulled,     \* the repositories whose git pull or git rebase succeeded
  stopped,    \* the context is cancelled
  begun,      \* trees at the start
  touched,    \* the repositories that the operator changed since
  touches, trouble

syncAsked == <<sync, tracked, scripts, begun>>
sayings == <<report, verdict>>
outside == <<stopped, touched, touches>>
syncVars == <<syncAsked, queue, at, trees, sayings, pulled, outside, trouble>>

SyncRepos == ToSet(Order)
Now == Head(queue)
Rebases == sync \in {"rebase", "onto"}

Runs == ~stopped /\ UNCHANGED trouble
Breaks == \/ stopped /\ UNCHANGED trouble
          \/ ~stopped /\ trouble < MaxTrouble /\ trouble' = trouble + 1

To(step) == at' = step /\ UNCHANGED <<queue, sayings>>
VerbEnds(error) == at' = "done" /\ verdict' = error
Says(what) == report' = [report EXCEPT ![Now] = what] /\ queue' = Tail(queue)
GoOn(what) == Says(what) /\ at' = "next" /\ UNCHANGED verdict

\* A failure ends a rebase at once; an update goes on.
SyncFails(why) == IF Rebases THEN Says(why) /\ VerbEnds("failed") ELSE GoOn(why)

Working(step) == at = step /\ queue # << >> /\ UNCHANGED <<syncAsked, outside>>

-----------------------------------------------------------------------------
(* git.                                                                    *)

\* What git pull --rebase --autostash, or git rebase --autostash, makes of a checkout.
Rebased(t) ==
  CASE t.up = "ahead" -> [t EXCEPT !.up = "in", !.edits = IF @ = "clash" THEN "unmerged" ELSE @,
                                   !.stash = @ \/ t.edits = "clash"]
    [] t.up = "conflicts" -> [t EXCEPT !.rebase = "pn", !.edits = "unmerged", !.held = t.edits]
    [] OTHER -> t

PullRefused(t) == t.rebase # "none" \/ t.edits = "unmerged"

Aborted(t) == [t EXCEPT !.rebase = "none", !.edits = t.held, !.held = "none"]

-----------------------------------------------------------------------------
(* The loop of Rebase.                                                     *)

RepoSkipped == /\ Working("next") /\ Rebases
               /\ (Now \notin tracked /\ UNCHANGED trouble) \/ Breaks
               /\ GoOn("skipped") /\ UNCHANGED <<trees, pulled>>

RepoTaken == /\ Working("next") /\ Rebases /\ Now \in tracked /\ Runs
             /\ To(IF sync = "onto" THEN "pull" ELSE "fetch") /\ UNCHANGED <<trees, pulled>>

FetchRepo == /\ Working("fetch") /\ UNCHANGED <<trees, pulled>>
             /\ (Runs /\ To("probe")) \/ (Breaks /\ SyncFails("failed"))

PreProbe ==
  /\ Working("probe") /\ UNCHANGED <<trees, pulled>>
  /\ \/ Breaks /\ To("pull")  \* state unknown: proceed
     \/ Runs /\ IF trees[Now].rebase # "none" THEN SyncFails("in progress") ELSE To("pull")

PullEnds ==
  /\ Working("pull") /\ Runs /\ ~PullRefused(trees[Now]) /\ trees[Now].up # "conflicts"
  /\ trees' = [trees EXCEPT ![Now] = Rebased(@)] /\ pulled' = pulled \cup {Now}
  /\ IF Rebases THEN GoOn("ok") ELSE To("relock")

PullFailed == IF sync = "rebase" THEN To("after") ELSE SyncFails("failed")

PullFails ==
  /\ Working("pull") /\ UNCHANGED pulled /\ PullFailed
  /\ \/ Breaks /\ UNCHANGED trees
     \/ Runs /\ PullRefused(trees[Now]) /\ UNCHANGED trees
     \/ Runs /\ ~PullRefused(trees[Now]) /\ trees[Now].up = "conflicts"
        /\ trees' = [trees EXCEPT ![Now] = Rebased(@)]

\* The operator's ^C takes git down with it, before or after it began.
PullKilled ==
  /\ at = "pull" /\ queue # << >> /\ ~stopped /\ stopped' = TRUE
  /\ trees' \in {trees, [trees EXCEPT ![Now] = IF PullRefused(@) THEN @ ELSE Rebased(@)]}
  /\ PullFailed /\ UNCHANGED <<syncAsked, pulled, touched, touches, trouble>>

\* Variant: a rebase that is interrupted is rolled back by word only.
PostProbeUnaware ==
  /\ Working("after") /\ UNCHANGED <<trees, pulled, trouble>>
  /\ IF trees[Now].rebase = "none" \/ stopped THEN SyncFails("rolled back") ELSE To("abort")

\* syncDefault, once the pull failed.
PostProbe ==
  /\ Working("after") /\ UNCHANGED <<trees, pulled>>
  /\ \/ stopped /\ UNCHANGED trouble /\ SyncFails("interrupted")
     \/ ~stopped /\ Breaks /\ SyncFails("failed")
     \/ Runs /\ IF trees[Now].rebase = "none" THEN SyncFails("failed") ELSE To("abort")

AbortRebase ==
  /\ Working("abort") /\ UNCHANGED pulled
  /\ \/ Breaks /\ UNCHANGED trees /\ SyncFails("still")
     \/ Runs /\ trees[Now].rebase = "none" /\ UNCHANGED trees /\ SyncFails("still")
     \/ Runs /\ trees[Now].rebase # "none" /\ trees' = [trees EXCEPT ![Now] = Aborted(@)]
        /\ SyncFails("rolled back")

-----------------------------------------------------------------------------
(* The loop of updateInPlace.                                              *)

Dirty(t) == t.edits # "none"

UpdateInterrupted == /\ at \in {"next", "pull", "relock"} /\ queue # << >> /\ ~Rebases /\ stopped
                     /\ VerbEnds("interrupted")
                     /\ UNCHANGED <<syncAsked, queue, report, trees, pulled, outside, trouble>>

UpdateSkips == /\ Working("next") /\ ~Rebases /\ ~stopped
               /\ (Dirty(trees[Now]) /\ Runs) \/ Breaks
               /\ GoOn("skipped") /\ UNCHANGED <<trees, pulled>>

\* Without an upstream, or when git cannot tell, there is no pull.
UpdateTakes == /\ Working("next") /\ ~Rebases /\ ~stopped /\ ~Dirty(trees[Now])
               /\ \/ Now \in tracked /\ Runs /\ To("pull")
                  \/ Now \notin tracked /\ Runs /\ To("relock")
                  \/ Breaks /\ To("relock")
               /\ UNCHANGED <<trees, pulled>>

RelockRepo ==
  /\ Working("relock") /\ ~Rebases /\ ~stopped /\ UNCHANGED <<trees, pulled>>
  /\ \/ Runs /\ GoOn("ok")
     \/ (sync = "siblings" \/ Now \in scripts) /\ Breaks /\ SyncFails("failed")

\* update-locks.sh exits 77: what it met applies to every repository that is left.
RelockAborts ==
  /\ Working("relock") /\ sync = "update" /\ Now \in scripts /\ ~stopped /\ Breaks
  /\ Says("aborted") /\ VerbEnds("aborted") /\ UNCHANGED <<trees, pulled>>

AllDone == /\ at = "next" /\ queue = << >>
           /\ VerbEnds(IF Rebases \/ \A r \in SyncRepos : report[r] # "failed" THEN "ok" ELSE "failed")
           /\ UNCHANGED <<syncAsked, queue, report, trees, pulled, outside, trouble>>

-----------------------------------------------------------------------------
(* The operator.                                                           *)

Touch(r, new) == /\ at # "done" /\ touches < MaxTouches /\ touches' = touches + 1
                 /\ trees' = [trees EXCEPT ![r] = new] /\ touched' = touched \cup {r}
                 /\ UNCHANGED <<syncAsked, queue, at, sayings, pulled, stopped, trouble>>

OperatorEdits(r) == \E e \in {"apart", "clash"} :
              trees[r].edits = "none" /\ Touch(r, [trees[r] EXCEPT !.edits = e])

\* A rebase of the operator's own stops half way, the edits in its autostash.
StartsRebase(r) == /\ trees[r].rebase = "none" /\ trees[r].edits # "unmerged"
                   /\ Touch(r, [trees[r] EXCEPT !.rebase = "user", !.edits = "none", !.held = trees[r].edits])

FinishesRebase(r) == /\ trees[r].rebase # "none"
                     /\ Touch(r, [trees[r] EXCEPT !.rebase = "none", !.edits = trees[r].held, !.held = "none"])

Interrupt == /\ ~stopped /\ at # "done" /\ stopped' = TRUE
             /\ UNCHANGED <<syncAsked, queue, at, trees, sayings, pulled, touched, touches, trouble>>

SyncInit ==
  /\ sync \in {"rebase", "onto", "update", "siblings"}
  /\ tracked \in SUBSET SyncRepos /\ scripts \in {{}, SyncRepos}
  /\ \E clean \in [SyncRepos -> [up : {"ahead", "conflicts"}, rebase : {"none"}, stash : {FALSE},
                                 edits : {"none", "apart", "clash"}, held : {"none"}]] :
       \E busy \in SUBSET SyncRepos :
         trees = [r \in SyncRepos |->
                   IF r \in busy THEN [clean[r] EXCEPT !.rebase = "user"] ELSE clean[r]]
  /\ queue = Order /\ at = "next" /\ pulled = {} /\ stopped = FALSE
  /\ report = [r \in SyncRepos |-> "none"] /\ verdict = "none"
  /\ begun = trees /\ touched = {} /\ touches = 0 /\ trouble = 0

PnSyncs == \/ RepoSkipped \/ RepoTaken \/ FetchRepo \/ PreProbe \/ PullEnds \/ PullFails \/ PullKilled
           \/ PostProbe \/ AbortRebase \/ UpdateInterrupted \/ UpdateSkips \/ UpdateTakes
           \/ RelockRepo \/ RelockAborts \/ AllDone

SyncNext == \/ PnSyncs \/ Interrupt
            \/ \E r \in SyncRepos : OperatorEdits(r) \/ StartsRebase(r) \/ FinishesRebase(r)

-----------------------------------------------------------------------------
(* Properties.                                                             *)

Left(r) == trees[r].rebase = "pn"
InWork(r) == queue # << >> /\ r = Now

\* What the verb says of a repository that nobody else touched is so.  One of
\* which it says nothing, or that it was skipped, rolled back or in the middle
\* of a rebase, is as it was found (unless it is the operator's own rebase that
\* was rolled back: OperatorsRebaseIsKept); one that is said to be done and was pulled
\* has everything of the upstream, no rebase in progress, and the operator's
\* edits, in the trees or in a stash; and one left in the middle of a rebase is
\* reported.  A rebase that ends with an error stops at it, and so does an
\* update whose script finds that nothing can be built: no repository after it
\* in the order was touched (syncDefault, Rebase, updateInPlace).
ReportsAreTrue ==
  /\ \A r \in SyncRepos \ touched :
       /\ report[r] \in {"skipped", "in progress"} => trees[r] = begun[r]
       /\ (report[r] = "rolled back" /\ begun[r].rebase = "none") => trees[r] = begun[r]
       /\ (report[r] = "ok" /\ r \in pulled)
            => /\ trees[r].up = "in" /\ trees[r].rebase = "none"
               /\ begun[r].edits # trees[r].edits => trees[r].stash
       /\ (Left(r) /\ (at = "done" \/ ~InWork(r)))
            => report[r] \in {"failed", "interrupted", "still"}
  /\ at = "done" => \A r \in ToSet(queue) \ touched :
                      trees[r] = begun[r] \/ (verdict = "interrupted" /\ r = Now)
  /\ \A r \in SyncRepos :
       (at # "done" \/ verdict = "ok")
         => report[r] \in {"none", "ok", "skipped"} \cup (IF Rebases THEN {} ELSE {"failed"})
  /\ verdict = "ok" => \A r \in SyncRepos : report[r] \in {"ok", "skipped"}

\* pn never ends a rebase that the operator started: the comment on Rebase
\* says that the operator's own work is never aborted (rebase.go:146), and the
\* one on syncDefault that the rebase it aborts is its own (rebase.go:122).
OperatorsRebaseIsKept ==
  [][queue' # queue => \A r \in SyncRepos : trees[r].rebase = "user" => trees'[r].rebase = "user"]_syncVars
=============================================================================
