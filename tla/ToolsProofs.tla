----------------------------- MODULE ToolsProofs -----------------------------
(***************************************************************************)
(* The tools around the workspace: the worker pool for any number of jobs  *)
(* and workers; sync and rebase for any number of repositories; a pjira    *)
(* command for any set of hits, any cap on its pages and any texts; the    *)
(* update of a repository in a worktree, for any number of moves of the    *)
(* user and of failures; and a command on its way to the real tool, for    *)
(* any arguments and any configuration.                                    *)
(***************************************************************************)
EXTENDS Exec, ExecRules, Sync, Jira, UpdateWorktree, FiniteSetTheorems, TLAPS

-----------------------------------------------------------------------------
(* The worker pool and one Run per job.                                    *)

ExecTypes ==
  /\ verb \in {"submit", "wait", "close", "done"} /\ cancelled \in BOOLEAN
  /\ pending \subseteq Jobs /\ waiting \subseteq Jobs /\ termed \subseteq Jobs /\ holds \subseteq Jobs
  /\ call \in [Jobs -> {"none", "running", "reaping", "returned"}]
  /\ result \in [Jobs -> {"none", "ok", "exit", "signal", "ctx", "panic"}]
  /\ leader \in [Jobs -> {"none", "alive", "zero", "nonzero", "killed"}]
  /\ member \in [Jobs -> {"none", "alive", "dead"}]

\* The verb counts its jobs: one that is neither to be submitted nor waited for
\* has returned.
Counted ==
  /\ \A j \in Jobs : j \in pending \/ j \in waiting \/ call[j] = "returned"
  /\ verb # "submit" => pending = {}
  /\ verb \in {"close", "done"} => waiting = {}

\* How far a Run is, and what it has left of its child.
Reaped(j) ==
  /\ call[j] = "none" => leader[j] = "none"
  /\ leader[j] = "none" => member[j] = "none"
  /\ call[j] \in {"reaping", "returned"} => leader[j] # "alive"
  /\ call[j] \in {"running", "reaping"} => leader[j] # "none"
  /\ j \in Grouped /\ call[j] = "returned" /\ (j \in termed \/ result[j] = "ctx") => member[j] # "alive"
  /\ result[j] = "ok" => call[j] = "returned" /\ leader[j] = "zero" /\ j \notin termed

ExecInv == ExecTypes /\ Counted /\ (~cancelled => termed = {}) /\ \A j \in Jobs : Reaped(j)

LEMMA ExecInitInv == ExecInit => ExecInv
BY DEF ExecInit, ExecInv, ExecTypes, Counted, Reaped

LEMMA ExecStep == ExecInv /\ [ExecNext]_execVars => ExecInv'
<1> SUFFICES ASSUME ExecInv, [ExecNext]_execVars PROVE ExecInv'
  OBVIOUS
<1> USE JobAssumption DEF ExecInv, ExecTypes, Counted, Reaped, pool, child, Ended
<1>1. ASSUME NEW w \in Workers, NEW j \in Jobs, Submit(w, j) PROVE ExecInv'
  BY <1>1 DEF Submit
<1>2. CASE JobsDone
  BY <1>2 DEF JobsDone
<1>3. CASE CloseStart \/ CloseEnds
  BY <1>3 DEF CloseStart, CloseEnds
<1>4. ASSUME NEW w \in Workers, WorkerEnds(w) PROVE ExecInv'
  BY <1>4 DEF WorkerEnds
<1>5. ASSUME NEW w \in Workers, JobReturns(w) PROVE ExecInv'
  BY <1>5 DEF JobReturns
<1>6. ASSUME NEW w \in Workers, Start(w) PROVE ExecInv'
  BY <1>6 DEF Start
<1>7. ASSUME NEW j \in Jobs, Terminate(j) PROVE ExecInv'
  BY <1>7 DEF Terminate
<1>8. ASSUME NEW j \in Jobs, GraceExpires(j) PROVE ExecInv'
  BY <1>8 DEF GraceExpires
<1>9. ASSUME NEW j \in Jobs, WaitReturns(j) PROVE ExecInv'
  BY <1>9 DEF WaitReturns, Waited, Outcome
<1>10. ASSUME NEW j \in Jobs, ReapGroup(j) PROVE ExecInv'
  BY <1>10 DEF ReapGroup, Outcome
<1>11. ASSUME NEW j \in Jobs, Exits(j) \/ DiesOfTerm(j) PROVE ExecInv'
  BY <1>11 DEF Exits, DiesOfTerm
<1>12. ASSUME NEW j \in Jobs, Forks(j) \/ DescendantExits(j) PROVE ExecInv'
  BY <1>12 DEF Forks, DescendantExits
<1>13. CASE Cancel
  BY <1>13 DEF Cancel
<1>14. CASE UNCHANGED execVars
  BY <1>14 DEF execVars
<1> QED BY <1>1, <1>2, <1>3, <1>4, <1>5, <1>6, <1>7, <1>8, <1>9, <1>10, <1>11, <1>12, <1>13, <1>14
        DEF ExecNext, Pn, World

\* Whatever commands do with SIGTERM and whenever the verb is cancelled: the verb
\* goes on only when every job has returned, a cancelled run in its own group
\* leaves nobody behind, and ok is said of no command that failed.
THEOREM ReturnedIsOver == ExecSpec => []ReturnedMeansOver
<1>1. ExecInv => ReturnedMeansOver
  BY JobAssumption DEF ExecInv, ExecTypes, Counted, Reaped, ReturnedMeansOver, NobodyIsLeft, JobsAreAccounted
<1>2. ExecSpec => []ExecInv
  BY ExecInitInv, ExecStep, PTL DEF ExecSpec
<1> QED BY <1>1, <1>2, PTL

-----------------------------------------------------------------------------
(* Rebase and update over the repositories.                                *)

Uses == {"none", "apart", "clash", "unmerged"}
Checkouts == [up : {"ahead", "conflicts", "in"}, rebase : {"none", "user", "pn"}, edits : Uses, held : Uses,
              stash : BOOLEAN]
Reports == {"none", "ok", "skipped", "failed", "in progress", "interrupted", "still", "rolled back", "aborted"}
SyncSteps == {"next", "fetch", "probe", "pull", "after", "abort", "relock", "done"}

\* What a checkout was at the start.
Startable(t) == t.up \in {"ahead", "conflicts"} /\ t.rebase \in {"none", "user"} /\ t.held = "none"

SyncTypes ==
  /\ sync \in {"rebase", "onto", "update", "siblings"} /\ at \in SyncSteps
  /\ verdict \in {"none", "ok", "failed", "interrupted", "aborted"}
  /\ trees \in [SyncRepos -> Checkouts] /\ begun \in [SyncRepos -> Checkouts]
  /\ report \in [SyncRepos -> Reports]
  /\ queue \in Seq(SyncRepos) /\ IsInjective(queue)
  /\ \A r \in SyncRepos : Startable(begun[r])

\* A pull that succeeded brought everything and kept the edits.
Brought(t, b) == t.up = "in" /\ t.rebase = "none" /\ (b.edits # t.edits => t.stash)

\* A repository that pn has not come to.
AsFound(r) == report[r] = "none" /\ r \notin pulled /\ (r \notin touched => trees[r] = begun[r])

\* The one in work once git has run in it.
InHand(r) ==
  /\ report[r] = "none"
  /\ \/ at \in {"after", "abort"} /\ r \notin pulled
        /\ (r \notin touched => trees[r] = Rebased(begun[r]))
     \/ at = "relock" /\ (r \notin touched => Brought(trees[r], begun[r]))
     \/ at = "done" /\ verdict = "interrupted" /\ (r \notin touched => Brought(trees[r], begun[r]))

\* What has been said of a repository, if nobody else touched it, is so.
Said(r) ==
  /\ report[r] # "none"
  /\ r \notin touched =>
       /\ report[r] \in {"skipped", "in progress"} => trees[r] = begun[r]
       /\ (report[r] = "rolled back" /\ begun[r].rebase = "none") => trees[r] = begun[r]
       /\ (report[r] = "ok" /\ r \in pulled) => Brought(trees[r], begun[r])
       /\ trees[r].rebase = "pn" => report[r] \in {"failed", "interrupted", "still"}

Sayable == {"none", "ok", "skipped"} \cup (IF Rebases THEN {} ELSE {"failed"})

Stages ==
  /\ at \in {"after", "abort"} => sync = "rebase"
  /\ at \in {"fetch", "probe"} => Rebases
  /\ at = "relock" => ~Rebases
  /\ at # "done" <=> verdict = "none"
  /\ at # "done" \/ verdict = "ok" => \A r \in SyncRepos : report[r] \in Sayable
  /\ verdict = "ok" => \A r \in SyncRepos : report[r] \in {"ok", "skipped"}

SyncInv ==
  /\ SyncTypes /\ Stages
  /\ \A r \in ToSet(queue) : AsFound(r) \/ (r = Now /\ InHand(r))
  /\ \A r \in SyncRepos \ ToSet(queue) : Said(r)

\* The queue without its head: the repositories in work come up once.
LEMMA QueueFacts ==
  ASSUME NEW S, NEW q \in Seq(S), q # << >>, IsInjective(q)
  PROVE  /\ Head(q) \in S /\ Head(q) \in ToSet(q) /\ ToSet(q) \subseteq S
         /\ Tail(q) \in Seq(S) /\ IsInjective(Tail(q)) /\ ToSet(Tail(q)) = ToSet(q) \ {Head(q)}
<1>1. Len(q) \in Nat /\ Len(q) > 0 /\ DOMAIN q = 1 .. Len(q) /\ Head(q) = q[1]
  OBVIOUS
<1>2. /\ Tail(q) \in Seq(S) /\ DOMAIN Tail(q) = 1 .. Len(q) - 1
      /\ \A i \in 1 .. Len(q) - 1 : Tail(q)[i] = q[i + 1]
  OBVIOUS
<1>3. IsInjective(Tail(q))
  BY <1>1, <1>2 DEF IsInjective
<1>4. ToSet(Tail(q)) \subseteq ToSet(q) \ {Head(q)}
  BY <1>1, <1>2 DEF ToSet, IsInjective
<1>5. ASSUME NEW i \in 1 .. Len(q), q[i] # Head(q) PROVE q[i] \in ToSet(Tail(q))
  <2>1. i - 1 \in 1 .. Len(q) - 1 /\ Tail(q)[i - 1] = q[i]
    BY <1>1, <1>2, <1>5
  <2> QED BY <1>2, <2>1 DEF ToSet
<1>6. ToSet(q) \ {Head(q)} \subseteq ToSet(Tail(q))
  BY <1>1, <1>5 DEF ToSet
<1>7. Head(q) \in S /\ Head(q) \in ToSet(q) /\ ToSet(q) \subseteq S
  BY <1>1 DEF ToSet
<1> QED BY <1>2, <1>3, <1>4, <1>6, <1>7

\* What git makes of a checkout that was not touched.
LEMMA RebasedFacts ==
  ASSUME NEW t \in Checkouts
  PROVE  /\ Rebased(t) \in Checkouts /\ Aborted(t) \in Checkouts
         /\ t.up = "ahead" /\ t.rebase = "none" => Brought(Rebased(t), t)
         /\ Startable(t) /\ Rebased(t).rebase # "none" /\ t.rebase = "none" => Aborted(Rebased(t)) = t
         /\ Aborted(t).rebase = "none"
<1> USE DEF Checkouts, Uses
<1>1. CASE t.up = "ahead"
  <2> DEFINE u == [t EXCEPT !.up = "in", !.edits = IF @ = "clash" THEN "unmerged" ELSE @,
                            !.stash = @ \/ t.edits = "clash"]
  <2>1. Rebased(t) = u
    BY <1>1 DEF Rebased
  <2>2. (t.stash \/ t.edits = "clash") \in BOOLEAN
    BY Zenon
  <2>3. u \in Checkouts /\ u.up = "in" /\ u.rebase = t.rebase
        /\ u.edits = (IF t.edits = "clash" THEN "unmerged" ELSE t.edits)
    BY <2>2
  <2>4. u.stash = (t.stash \/ t.edits = "clash")
    BY Zenon
  <2> HIDE DEF u
  <2> QED BY <2>1, <2>3, <2>4 DEF Brought, Aborted
<1>2. CASE t.up = "conflicts"
  <2>1. Rebased(t) = [t EXCEPT !.rebase = "pn", !.edits = "unmerged", !.held = t.edits]
    BY <1>2 DEF Rebased
  <2> QED BY <1>2, <2>1 DEF Aborted, Startable
<1>3. CASE t.up = "in"
  <2>1. Rebased(t) = t
    BY <1>3 DEF Rebased
  <2> QED BY <1>3, <2>1 DEF Aborted, Startable
<1> QED BY <1>1, <1>2, <1>3

\* A step that says something of the repository in work and goes to the next.
LEMMA SayingKeeps ==
  ASSUME SyncInv, queue # << >>, NEW n, n = Now, NEW what \in Reports \ {"none"}, Says(what),
         UNCHANGED <<begun, touched>>,
         \A r \in SyncRepos \ {n} : trees'[r] = trees[r],
         pulled \subseteq pulled', pulled' \subseteq pulled \cup {n},
         n \notin touched =>
           /\ what \in {"skipped", "in progress"} => trees'[n] = begun[n]
           /\ (what = "rolled back" /\ begun[n].rebase = "none") => trees'[n] = begun[n]
           /\ (what = "ok" /\ n \in pulled') => Brought(trees'[n], begun[n])
           /\ trees'[n].rebase = "pn" => what \in {"failed", "interrupted", "still"}
  PROVE  /\ n \in SyncRepos /\ queue' \in Seq(SyncRepos) /\ IsInjective(queue')
         /\ report' \in [SyncRepos -> Reports]
         /\ report'[n] = what /\ \A r \in SyncRepos \ {n} : report'[r] = report[r]
         /\ ToSet(queue') = ToSet(queue) \ {n}
         /\ \A r \in ToSet(queue') : AsFound(r)'
         /\ \A r \in SyncRepos \ ToSet(queue') : Said(r)'
<1>1. /\ n \in SyncRepos /\ n \in ToSet(queue) /\ ToSet(queue) \subseteq SyncRepos
      /\ queue' \in Seq(SyncRepos) /\ IsInjective(queue') /\ ToSet(queue') = ToSet(queue) \ {n}
  BY QueueFacts DEF SyncInv, SyncTypes, Says, Now
<1>2. report' \in [SyncRepos -> Reports] /\ report'[n] = what /\ \A r \in SyncRepos \ {n} : report'[r] = report[r]
  BY <1>1 DEF SyncInv, SyncTypes, Says
<1>3. ASSUME NEW r \in ToSet(queue') PROVE AsFound(r)'
  <2>1. r \in ToSet(queue) /\ r # n /\ r \in SyncRepos
    BY <1>1
  <2>2. AsFound(r)
    BY <2>1 DEF SyncInv
  <2> QED BY <1>2, <2>1, <2>2 DEF AsFound
<1>4. ASSUME NEW r \in SyncRepos \ ToSet(queue') PROVE Said(r)'
  <2>1. CASE r = n
    BY <1>2, <2>1 DEF Said
  <2>2. CASE r # n
    <3>1. Said(r)
      BY <1>1, <2>2 DEF SyncInv
    <3> QED BY <1>2, <2>2, <3>1 DEF Said
  <2> QED BY <2>1, <2>2
<1> QED BY <1>1, <1>2, <1>3, <1>4

\* A step that stays with the repository in work.
LEMMA StayingKeeps ==
  ASSUME SyncInv, queue # << >>, NEW n, n = Now, UNCHANGED <<queue, report, begun, touched>>,
         \A r \in SyncRepos \ {n} : trees'[r] = trees[r],
         pulled \subseteq pulled', pulled' \subseteq pulled \cup {n},
         AsFound(n)' \/ InHand(n)'
  PROVE  /\ n \in SyncRepos
         /\ \A r \in ToSet(queue') : AsFound(r)' \/ (r = Now' /\ InHand(r)')
         /\ \A r \in SyncRepos \ ToSet(queue') : Said(r)'
<1>1. n \in SyncRepos /\ n \in ToSet(queue) /\ ToSet(queue) \subseteq SyncRepos /\ n = Now'
  BY QueueFacts DEF SyncInv, SyncTypes, Now
<1>2. ASSUME NEW r \in ToSet(queue), r # n PROVE AsFound(r)'
  <2>1. AsFound(r)
    BY <1>2 DEF SyncInv
  <2> QED BY <1>1, <1>2, <2>1 DEF AsFound
<1>3. ASSUME NEW r \in SyncRepos \ ToSet(queue) PROVE Said(r)'
  <2>1. Said(r) /\ r # n
    BY <1>1, <1>3 DEF SyncInv
  <2> QED BY <2>1 DEF Said
<1> QED BY <1>1, <1>2, <1>3

\* How the repository in work stands before git runs in it, and after.
LEMMA InWorkFacts ==
  ASSUME SyncInv, queue # << >>
  PROVE  /\ Now \in SyncRepos /\ trees[Now] \in Checkouts /\ begun[Now] \in Checkouts
         /\ Startable(begun[Now]) /\ report[Now] = "none"
         /\ at \in {"next", "fetch", "probe", "pull"} => AsFound(Now)
         /\ at \in {"after", "abort"} => /\ Now \notin pulled
                                         /\ Now \notin touched => trees[Now] \in {begun[Now], Rebased(begun[Now])}
         /\ at = "relock" => AsFound(Now) \/ (Now \notin touched => Brought(trees[Now], begun[Now]))
<1>1. Now \in SyncRepos /\ Now \in ToSet(queue)
  BY QueueFacts DEF SyncInv, SyncTypes, Now
<1>2. AsFound(Now) \/ InHand(Now)
  BY <1>1 DEF SyncInv
<1> QED BY <1>1, <1>2 DEF SyncInv, SyncTypes, AsFound, InHand

\* The two kinds of step: pn says what became of the repository, or goes on with it.
Passes(what) ==
  /\ queue # << >> /\ at # "done" /\ what \in Reports \ {"none"} /\ Says(what)
  /\ UNCHANGED <<sync, begun, touched>> /\ trees' \in [SyncRepos -> Checkouts]
  /\ \A r \in SyncRepos \ {Now} : trees'[r] = trees[r]
  /\ pulled \subseteq pulled' /\ pulled' \subseteq pulled \cup {Now}
  /\ Now \notin touched =>
       /\ what \in {"skipped", "in progress"} => trees'[Now] = begun[Now]
       /\ (what = "rolled back" /\ begun[Now].rebase = "none") => trees'[Now] = begun[Now]
       /\ (what = "ok" /\ Now \in pulled') => Brought(trees'[Now], begun[Now])
       /\ trees'[Now].rebase = "pn" => what \in {"failed", "interrupted", "still"}
  /\ \/ at' = "next" /\ UNCHANGED verdict /\ what \in Sayable
     \/ at' = "done" /\ verdict' \in {"failed", "aborted"}

Stays ==
  /\ queue # << >> /\ at # "done" /\ at' \in SyncSteps \ {"done"}
  /\ UNCHANGED <<sync, begun, touched, queue, report, verdict>> /\ trees' \in [SyncRepos -> Checkouts]
  /\ \A r \in SyncRepos \ {Now} : trees'[r] = trees[r]
  /\ pulled \subseteq pulled' /\ pulled' \subseteq pulled \cup {Now}
  /\ at' \in {"after", "abort"} => sync = "rebase"
  /\ at' \in {"fetch", "probe"} => Rebases
  /\ at' = "relock" => ~Rebases
  /\ AsFound(Now)' \/ InHand(Now)'

LEMMA PassesKeeps == ASSUME SyncInv, NEW what, Passes(what) PROVE SyncInv'
<1>1. PICK n : n = Now
  OBVIOUS
<1>2. /\ n \in SyncRepos /\ queue' \in Seq(SyncRepos) /\ IsInjective(queue')
      /\ report' \in [SyncRepos -> Reports]
      /\ report'[n] = what /\ \A r \in SyncRepos \ {n} : report'[r] = report[r]
      /\ ToSet(queue') = ToSet(queue) \ {n}
      /\ \A r \in ToSet(queue') : AsFound(r)'
      /\ \A r \in SyncRepos \ ToSet(queue') : Said(r)'
  BY <1>1, SayingKeeps DEF Passes
<1>3. SyncTypes'
  BY <1>2 DEF Passes, SyncInv, SyncTypes, SyncSteps
<1>4. Stages'
  <2>1. Rebases' = Rebases /\ Sayable' = Sayable
    BY DEF Passes, Rebases, Sayable
  <2>2. CASE at' = "next"
    <3>1. \A r \in SyncRepos : report'[r] \in Sayable
      BY <1>2, <2>2 DEF Passes, SyncInv, Stages
    <3> QED BY <2>1, <2>2, <3>1 DEF Passes, SyncInv, Stages
  <2>3. CASE at' = "done"
    BY <2>3 DEF Passes, Stages
  <2> QED BY <2>2, <2>3 DEF Passes
<1> QED BY <1>2, <1>3, <1>4 DEF SyncInv

LEMMA StaysKeeps == ASSUME SyncInv, Stays PROVE SyncInv'
<1>0. PICK n : n = Now
  OBVIOUS
<1>1. n = Now /\ (AsFound(n)' \/ InHand(n)')
  <2>1. Now' = n
    BY <1>0 DEF Stays, Now
  <2> QED BY <1>0, <2>1 DEF Stays, AsFound, InHand
<1>2. /\ n \in SyncRepos
      /\ \A r \in ToSet(queue') : AsFound(r)' \/ (r = Now' /\ InHand(r)')
      /\ \A r \in SyncRepos \ ToSet(queue') : Said(r)'
  BY <1>1, StayingKeeps DEF Stays
<1>3. SyncTypes'
  BY DEF Stays, SyncInv, SyncTypes
<1>4. Stages'
  BY DEF Stays, SyncInv, Stages, Rebases, Sayable
<1> QED BY <1>2, <1>3, <1>4 DEF SyncInv

\* A failure ends a rebase, and an update goes on.
LEMMA FailureStops ==
  ASSUME SyncInv, NEW why \in Reports, SyncFails(why), ~Rebases => why = "failed"
  PROVE  /\ Says(why)
         /\ \/ at' = "next" /\ UNCHANGED verdict /\ why \in Sayable
            \/ at' = "done" /\ verdict' \in {"failed", "aborted"}
BY DEF SyncFails, VerbEnds, GoOn, Sayable

\* Before git runs in the repository.
LEMMA BeforePull ==
  ASSUME SyncInv, RepoSkipped \/ RepoTaken \/ FetchRepo \/ PreProbe
  PROVE  SyncInv'
<1>1. /\ queue # << >> /\ at \in {"next", "fetch", "probe"} /\ Rebases
      /\ UNCHANGED <<sync, begun, touched, trees, pulled>>
  BY DEF RepoSkipped, RepoTaken, FetchRepo, PreProbe, Working, syncAsked, outside, SyncInv, Stages
<1>2. /\ Now \in SyncRepos /\ AsFound(Now) /\ Startable(begun[Now])
      /\ trees' \in [SyncRepos -> Checkouts]
  BY <1>1, InWorkFacts DEF SyncInv, SyncTypes
<1>3. ASSUME NEW what \in {"skipped", "failed", "in progress"}, Says(what),
             \/ at' = "next" /\ UNCHANGED verdict /\ what \in Sayable
             \/ at' = "done" /\ verdict' \in {"failed", "aborted"}
      PROVE  SyncInv'
  <2>1. Passes(what)
    BY <1>1, <1>2, <1>3 DEF Passes, AsFound, Reports, Startable
  <2> QED BY <2>1, PassesKeeps
<1>4. ASSUME NEW step \in {"fetch", "probe", "pull"}, To(step) PROVE SyncInv'
  <2>1. AsFound(Now)'
    BY <1>1, <1>2, <1>4 DEF To, sayings, AsFound, Now
  <2>2. Stays
    BY <1>1, <1>2, <1>4, <2>1 DEF Stays, To, sayings, SyncSteps
  <2> QED BY <2>2, StaysKeeps
<1>5. ASSUME NEW why \in {"failed", "in progress"}, SyncFails(why) PROVE SyncInv'
  BY <1>1, <1>3, <1>5, FailureStops DEF Reports
<1>6. CASE RepoSkipped
  BY <1>3, <1>6 DEF RepoSkipped, GoOn, Sayable
<1>7. CASE RepoTaken
  BY <1>4, <1>7 DEF RepoTaken
<1>8. CASE FetchRepo
  BY <1>4, <1>5, <1>8 DEF FetchRepo
<1>9. CASE PreProbe
  BY <1>4, <1>5, <1>9 DEF PreProbe
<1> QED BY <1>6, <1>7, <1>8, <1>9

\* git pull, git rebase, and how they end.
LEMMA PullFailedKeeps ==
  ASSUME SyncInv, at = "pull", queue # << >>, PullFailed, UNCHANGED <<sync, begun, pulled, touched>>,
         trees' \in {trees, [trees EXCEPT ![Now] = Rebased(@)]}
  PROVE  SyncInv'
<1>1. /\ Now \in SyncRepos /\ AsFound(Now) /\ trees[Now] \in Checkouts
      /\ trees \in [SyncRepos -> Checkouts]
  BY InWorkFacts DEF SyncInv, SyncTypes
<1>2. Rebased(trees[Now]) \in Checkouts
  BY <1>1, RebasedFacts
<1>3. /\ trees' \in [SyncRepos -> Checkouts] /\ \A r \in SyncRepos \ {Now} : trees'[r] = trees[r]
      /\ Now \notin touched => trees'[Now] \in {begun[Now], Rebased(begun[Now])}
  BY <1>1, <1>2 DEF AsFound
<1>4. CASE sync = "rebase"
  <2>1. To("after")
    BY <1>4 DEF PullFailed
  <2>2. Now' = Now
    BY <2>1 DEF To, Now
  <2>3. AsFound(Now)' \/ InHand(Now)'
    BY <1>1, <1>3, <2>1, <2>2 DEF To, sayings, AsFound, InHand
  <2>4. Stays
    BY <1>3, <1>4, <2>1, <2>3 DEF Stays, To, sayings, SyncSteps
  <2> QED BY <2>4, StaysKeeps
<1>5. CASE sync # "rebase"
  <2>1. SyncFails("failed")
    BY <1>5 DEF PullFailed
  <2>2. Passes("failed")
    BY <1>3, <2>1, FailureStops DEF Passes, Reports
  <2> QED BY <2>2, PassesKeeps
<1> QED BY <1>4, <1>5

LEMMA PullKeeps ==
  ASSUME SyncInv, PullEnds \/ PullFails \/ PullKilled
  PROVE  SyncInv'
<1>1. CASE PullFails \/ PullKilled
  <2>1. /\ at = "pull" /\ queue # << >> /\ PullFailed
        /\ trees' \in {trees, [trees EXCEPT ![Now] = Rebased(@)]}
        /\ UNCHANGED <<sync, begun, pulled, touched>>
    <3>1. CASE PullFails
      BY <3>1 DEF PullFails, Working, syncAsked, outside
    <3>2. CASE PullKilled
      <4>1. trees' \in {trees, [trees EXCEPT ![Now] = IF PullRefused(@) THEN @ ELSE Rebased(@)]}
        BY <3>2 DEF PullKilled
      <4>2. trees \in [SyncRepos -> Checkouts]
        BY DEF SyncInv, SyncTypes
      <4>3. CASE PullRefused(trees[Now])
        BY <4>1, <4>2, <4>3, <3>2 DEF PullKilled, syncAsked
      <4>4. CASE ~PullRefused(trees[Now])
        BY <4>1, <4>4, <3>2 DEF PullKilled, syncAsked
      <4> QED BY <4>3, <4>4
    <3> QED BY <1>1, <3>1, <3>2
  <2> QED BY <2>1, PullFailedKeeps
<1>2. CASE PullEnds
  <2>1. /\ at = "pull" /\ queue # << >> /\ UNCHANGED <<sync, begun, touched>>
        /\ ~PullRefused(trees[Now]) /\ trees[Now].up # "conflicts"
        /\ trees' = [trees EXCEPT ![Now] = Rebased(@)] /\ pulled' = pulled \cup {Now}
        /\ IF Rebases THEN GoOn("ok") ELSE To("relock")
    BY <1>2 DEF PullEnds, Working, syncAsked, outside
  <2>2. /\ Now \in SyncRepos /\ AsFound(Now) /\ trees[Now] \in Checkouts
        /\ Startable(begun[Now]) /\ trees \in [SyncRepos -> Checkouts]
    BY <2>1, InWorkFacts DEF SyncInv, SyncTypes
  <2>3. Rebased(trees[Now]) \in Checkouts
    BY <2>2, RebasedFacts
  <2>4. /\ trees' \in [SyncRepos -> Checkouts] /\ \A r \in SyncRepos \ {Now} : trees'[r] = trees[r]
        /\ trees'[Now] = Rebased(trees[Now])
    BY <2>1, <2>2, <2>3
  <2>5. Now \notin touched => Brought(trees'[Now], begun[Now])
    <3> SUFFICES ASSUME Now \notin touched PROVE Brought(trees'[Now], begun[Now])
      OBVIOUS
    <3>1. trees[Now] = begun[Now] /\ trees[Now].up = "ahead" /\ trees[Now].rebase = "none"
      BY <2>1, <2>2 DEF AsFound, Startable, PullRefused
    <3> QED BY <2>2, <2>4, <3>1, RebasedFacts
  <2>6. CASE Rebases
    <3>1. Passes("ok")
      BY <2>1, <2>4, <2>5, <2>6 DEF Passes, GoOn, Reports, Sayable, Brought
    <3> QED BY <3>1, PassesKeeps
  <2>7. CASE ~Rebases
    <3>1. To("relock") /\ Now' = Now
      BY <2>1, <2>7 DEF To, Now
    <3>2. InHand(Now)'
      BY <2>1, <2>2, <2>5, <3>1 DEF InHand, AsFound, To, sayings
    <3>3. Stays
      BY <2>1, <2>4, <2>7, <3>1, <3>2 DEF Stays, To, sayings, SyncSteps
    <3> QED BY <3>3, StaysKeeps
  <2> QED BY <2>6, <2>7
<1> QED BY <1>1, <1>2

\* syncDefault, after a pull that failed.
LEMMA AfterPull ==
  ASSUME SyncInv, PostProbe \/ AbortRebase
  PROVE  SyncInv'
<1>1. /\ queue # << >> /\ at \in {"after", "abort"} /\ sync = "rebase" /\ Rebases
      /\ UNCHANGED <<sync, begun, touched, pulled>>
  BY DEF PostProbe, AbortRebase, Working, syncAsked, outside, SyncInv, Stages, Rebases
<1>2. /\ Now \in SyncRepos /\ trees[Now] \in Checkouts /\ begun[Now] \in Checkouts /\ Startable(begun[Now])
      /\ report[Now] = "none" /\ Now \notin pulled /\ trees \in [SyncRepos -> Checkouts]
      /\ Now \notin touched => trees[Now] \in {begun[Now], Rebased(begun[Now])}
  BY <1>1, InWorkFacts DEF SyncInv, SyncTypes
<1>3. ASSUME NEW why \in {"failed", "interrupted", "still"}, SyncFails(why), UNCHANGED trees PROVE SyncInv'
  <2>1. Passes(why)
    BY <1>1, <1>2, <1>3, FailureStops DEF Passes, Reports
  <2> QED BY <2>1, PassesKeeps
<1>4. CASE PostProbe /\ To("abort")
  <2>1. Now' = Now /\ UNCHANGED trees
    BY <1>4 DEF PostProbe, To, Now
  <2>2. AsFound(Now)' \/ InHand(Now)'
    BY <1>1, <1>2, <1>4, <2>1 DEF To, sayings, AsFound, InHand
  <2>3. Stays
    BY <1>1, <1>2, <1>4, <2>1, <2>2 DEF Stays, To, sayings, SyncSteps
  <2> QED BY <2>3, StaysKeeps
<1>5. CASE AbortRebase /\ trees' = [trees EXCEPT ![Now] = Aborted(@)] /\ trees[Now].rebase # "none"
                       /\ SyncFails("rolled back")
  <2>1. Aborted(trees[Now]) \in Checkouts /\ Aborted(trees[Now]).rebase = "none"
    BY <1>2, RebasedFacts
  <2>2. /\ trees' \in [SyncRepos -> Checkouts] /\ \A r \in SyncRepos \ {Now} : trees'[r] = trees[r]
        /\ trees'[Now] = Aborted(trees[Now])
    BY <1>2, <1>5, <2>1
  <2>3. Now \notin touched /\ begun[Now].rebase = "none" => trees'[Now] = begun[Now]
    BY <1>2, <1>5, <2>2, RebasedFacts
  <2>4. Passes("rolled back")
    BY <1>1, <1>5, <2>1, <2>2, <2>3, FailureStops DEF Passes, Reports
  <2> QED BY <2>4, PassesKeeps
<1> QED BY <1>3, <1>4, <1>5 DEF PostProbe, AbortRebase

\* The loop of an update, beside the pull.
LEMMA UpdateKeeps ==
  ASSUME SyncInv, UpdateSkips \/ UpdateTakes \/ RelockRepo \/ RelockAborts
  PROVE  SyncInv'
<1>1. /\ queue # << >> /\ at \in {"next", "relock"} /\ ~Rebases
      /\ UNCHANGED <<sync, begun, touched, trees, pulled>>
  BY DEF UpdateSkips, UpdateTakes, RelockRepo, RelockAborts, Working, syncAsked, outside, Rebases
<1>2. /\ Now \in SyncRepos /\ Startable(begun[Now]) /\ trees \in [SyncRepos -> Checkouts]
      /\ at = "next" => AsFound(Now)
      /\ at = "relock" => AsFound(Now) \/ (Now \notin touched => Brought(trees[Now], begun[Now]))
  BY <1>1, InWorkFacts DEF SyncInv, SyncTypes
<1>3. CASE UpdateSkips
  <2>1. Passes("skipped")
    BY <1>1, <1>2, <1>3 DEF UpdateSkips, Working, GoOn, Passes, Reports, Sayable, AsFound, Startable
  <2> QED BY <2>1, PassesKeeps
<1>4. CASE UpdateTakes
  <2>1. (To("pull") \/ To("relock")) /\ at = "next"
    BY <1>4 DEF UpdateTakes, Working
  <2>2. Now' = Now
    BY <2>1 DEF To, Now
  <2>3. AsFound(Now)'
    BY <1>1, <1>2, <2>1, <2>2 DEF To, sayings, AsFound
  <2>4. Stays
    BY <1>1, <1>2, <2>1, <2>3 DEF Stays, To, sayings, SyncSteps
  <2> QED BY <2>4, StaysKeeps
<1>5. CASE RelockRepo /\ GoOn("ok")
  <2>1. Passes("ok")
    BY <1>1, <1>2, <1>5 DEF RelockRepo, Working, GoOn, Passes, Reports, Sayable, AsFound, Startable, Brought
  <2> QED BY <2>1, PassesKeeps
<1>6. CASE RelockRepo /\ SyncFails("failed")
  <2>1. Passes("failed")
    BY <1>1, <1>2, <1>6, FailureStops DEF Passes, Reports
  <2> QED BY <2>1, PassesKeeps
<1>7. CASE RelockAborts
  <2>1. Says("aborted") /\ VerbEnds("aborted") /\ at = "relock"
    BY <1>7 DEF RelockAborts, Working
  <2>2. Passes("aborted")
    BY <1>1, <1>2, <2>1 DEF VerbEnds, Passes, Reports, AsFound, Startable, Brought
  <2> QED BY <2>2, PassesKeeps
<1> QED BY <1>3, <1>4, <1>5, <1>6, <1>7 DEF RelockRepo

LEMMA InterruptedKeeps == ASSUME SyncInv, UpdateInterrupted PROVE SyncInv'
<1>1. /\ queue # << >> /\ at \in {"next", "pull", "relock"} /\ at' = "done" /\ verdict' = "interrupted"
      /\ UNCHANGED <<sync, begun, touched, trees, pulled, queue, report>>
  BY DEF UpdateInterrupted, VerbEnds, syncAsked, outside
<1>2. PICK n : n = Now
  OBVIOUS
<1>3. AsFound(n)' \/ InHand(n)'
  <2>1. AsFound(n) \/ (at = "relock" /\ report[n] = "none" /\ (n \notin touched => Brought(trees[n], begun[n])))
    BY <1>1, <1>2, InWorkFacts
  <2> QED BY <1>1, <2>1 DEF AsFound, InHand
<1>4. /\ \A r \in ToSet(queue') : AsFound(r)' \/ (r = Now' /\ InHand(r)')
      /\ \A r \in SyncRepos \ ToSet(queue') : Said(r)'
  BY <1>1, <1>2, <1>3, StayingKeeps
<1>5. SyncTypes'
  BY <1>1 DEF SyncInv, SyncTypes, SyncSteps
<1>6. Stages'
  BY <1>1 DEF SyncInv, Stages, Rebases, Sayable
<1> QED BY <1>4, <1>5, <1>6 DEF SyncInv

LEMMA AllDoneKeeps == ASSUME SyncInv, AllDone PROVE SyncInv'
<1>1. /\ queue = << >> /\ at = "next" /\ at' = "done"
      /\ verdict' = IF Rebases \/ \A r \in SyncRepos : report[r] # "failed" THEN "ok" ELSE "failed"
      /\ UNCHANGED <<sync, begun, touched, trees, pulled, queue, report>>
  BY DEF AllDone, VerbEnds, syncAsked, outside
<1>2. ToSet(queue) = {}
  BY <1>1 DEF ToSet
<1>3. \A r \in SyncRepos : Said(r) /\ report[r] \in Sayable /\ report[r] # "none"
  BY <1>1, <1>2 DEF SyncInv, Stages, Said
<1>4. \A r \in SyncRepos : Said(r)'
  BY <1>1, <1>3 DEF Said
<1>5. verdict' = "ok" => \A r \in SyncRepos : report[r] \in {"ok", "skipped"}
  BY <1>1, <1>3 DEF Sayable
<1>6. SyncTypes'
  BY <1>1 DEF SyncInv, SyncTypes, SyncSteps
<1>7. Stages'
  BY <1>1, <1>5 DEF SyncInv, Stages, Rebases, Sayable
<1> QED BY <1>1, <1>2, <1>4, <1>6, <1>7 DEF SyncInv

LEMMA OperatorKeeps ==
  ASSUME SyncInv, \/ Interrupt \/ (\E r \in SyncRepos : OperatorEdits(r) \/ StartsRebase(r) \/ FinishesRebase(r))
                  \/ UNCHANGED syncVars
  PROVE  SyncInv'
<1>1. ASSUME UNCHANGED <<sync, begun, pulled, queue, at, report, verdict>>, touched \subseteq touched',
             trees' \in [SyncRepos -> Checkouts],
             \A r \in SyncRepos : trees'[r] = trees[r] \/ r \in touched'
      PROVE  SyncInv'
  <2>1. SyncTypes' /\ Stages' /\ Now' = Now
    BY <1>1 DEF SyncInv, SyncTypes, Stages, Rebases, Sayable, Now
  <2>2. \A r \in SyncRepos : Said(r) => Said(r)'
    BY <1>1 DEF Said
  <2>3. \A r \in SyncRepos : (AsFound(r) => AsFound(r)') /\ (InHand(r) => InHand(r)')
    BY <1>1 DEF AsFound, InHand
  <2>4. ToSet(queue) \subseteq SyncRepos
    BY DEF SyncInv, SyncTypes, ToSet
  <2> QED BY <1>1, <2>1, <2>2, <2>3, <2>4 DEF SyncInv
<1>2. ASSUME NEW r \in SyncRepos, NEW t \in Checkouts, Touch(r, t) PROVE SyncInv'
  BY <1>1, <1>2 DEF Touch, syncAsked, sayings, SyncInv, SyncTypes
<1>3. ASSUME NEW r \in SyncRepos, OperatorEdits(r) \/ StartsRebase(r) \/ FinishesRebase(r) PROVE SyncInv'
  <2>1. trees[r] \in Checkouts
    BY DEF SyncInv, SyncTypes
  <2>2. \E t \in Checkouts : Touch(r, t)
    BY <1>3, <2>1 DEF OperatorEdits, StartsRebase, FinishesRebase, Checkouts, Uses
  <2> QED BY <1>2, <2>2
<1>4. CASE Interrupt \/ UNCHANGED syncVars
  <2>1. UNCHANGED <<sync, begun, pulled, queue, at, report, verdict, touched, trees>>
    BY <1>4 DEF Interrupt, syncVars, syncAsked, sayings, outside
  <2> QED BY <1>1, <2>1 DEF SyncInv, SyncTypes
<1> QED BY <1>3, <1>4

LEMMA SyncStep == SyncInv /\ [SyncNext]_syncVars => SyncInv'
BY BeforePull, PullKeeps, AfterPull, UpdateKeeps, InterruptedKeeps, AllDoneKeeps, OperatorKeeps
   DEF SyncNext, PnSyncs

LEMMA SyncInitInv == SyncInit => SyncInv
<1> SUFFICES ASSUME SyncInit PROVE SyncInv
  OBVIOUS
<1>1. trees \in [SyncRepos -> Checkouts] /\ \A r \in SyncRepos : Startable(trees[r])
  <2>1. PICK clean \in [SyncRepos -> [up : {"ahead", "conflicts"}, rebase : {"none"}, stash : {FALSE},
                                      edits : {"none", "apart", "clash"}, held : {"none"}]],
             busy \in SUBSET SyncRepos :
               trees = [r \in SyncRepos |-> IF r \in busy THEN [clean[r] EXCEPT !.rebase = "user"] ELSE clean[r]]
    BY DEF SyncInit
  <2>2. \A r \in SyncRepos : trees[r] \in Checkouts /\ Startable(trees[r])
    BY <2>1 DEF Checkouts, Uses, Startable
  <2> QED BY <2>1, <2>2
<1>2. SyncTypes
  BY <1>1, SyncAssumption DEF SyncInit, SyncTypes, SyncSteps, Reports, SyncRepos
<1>3. Stages
  BY <1>1 DEF SyncInit, Stages, Sayable
<1>4. \A r \in SyncRepos : AsFound(r)
  BY DEF SyncInit, AsFound
<1>5. ToSet(queue) = SyncRepos
  BY DEF SyncInit, SyncRepos
<1> QED BY <1>2, <1>3, <1>4, <1>5 DEF SyncInv

\* What rebase and update say of each repository that nobody else touched is so,
\* for any number of repositories, however git fails and the operator interferes.
THEOREM ReportsHold == SyncInit /\ [][SyncNext]_syncVars => []ReportsAreTrue
<1>1. SyncInv => ReportsAreTrue
  <2> SUFFICES ASSUME SyncInv PROVE ReportsAreTrue
    OBVIOUS
  <2>1. ToSet(queue) \subseteq SyncRepos
    BY DEF SyncInv, SyncTypes, ToSet
  <2>2. ASSUME NEW r \in SyncRepos, r \notin touched
        PROVE  /\ report[r] \in {"skipped", "in progress"} => trees[r] = begun[r]
               /\ (report[r] = "rolled back" /\ begun[r].rebase = "none") => trees[r] = begun[r]
               /\ (report[r] = "ok" /\ r \in pulled) => Brought(trees[r], begun[r])
               /\ (Left(r) /\ (at = "done" \/ ~InWork(r)))
                    => report[r] \in {"failed", "interrupted", "still"}
    <3>1. CASE r \in ToSet(queue)
      <4>1. queue # << >>
        BY <3>1 DEF ToSet
      <4>2. report[r] = "none" /\ Startable(begun[r])
        BY <2>2, <3>1 DEF SyncInv, SyncTypes, AsFound, InHand
      <4>3. at = "done" \/ ~InWork(r) => trees[r].rebase # "pn"
        BY <2>2, <3>1, <4>1, <4>2 DEF SyncInv, AsFound, InHand, Startable, Brought, InWork
      <4> QED BY <4>2, <4>3 DEF Left
    <3>2. CASE r \notin ToSet(queue)
      BY <2>2, <3>2 DEF SyncInv, Said, Left
    <3> QED BY <3>1, <3>2
  <2>3. ASSUME at = "done", NEW r \in ToSet(queue) \ touched
        PROVE  trees[r] = begun[r] \/ (verdict = "interrupted" /\ r = Now)
    BY <2>3 DEF SyncInv, AsFound, InHand
  <2>4. /\ \A r \in SyncRepos : (at # "done" \/ verdict = "ok") => report[r] \in Sayable
        /\ verdict = "ok" => \A r \in SyncRepos : report[r] \in {"ok", "skipped"}
    BY DEF SyncInv, Stages
  <2> QED BY <2>2, <2>3, <2>4 DEF ReportsAreTrue, Brought, Sayable
<1>2. SyncInit /\ [][SyncNext]_syncVars => []SyncInv
  BY SyncInitInv, SyncStep, PTL
<1> QED BY <1>1, <1>2, PTL

-----------------------------------------------------------------------------
(* One pjira command and the server.                                       *)

Kind == IF client.page = 1 /\ command.op = "transition" THEN "move" ELSE FirstRequest[command.op]
Announced(headers) == headers \in {"remaining", "retry date"}

\* The fields of the client, the server and the wire, and where a request is.
Posts ==
  /\ command.op \in Ops
  /\ client = [stage |-> client.stage, page |-> client.page, cursor |-> client.cursor, got |-> client.got]
  /\ client.stage \in {"start", "send", "wait", "done"}
  /\ client.page \in Nat
  /\ client.stage # "done" => client.cursor \in Nat /\ client.got \in Seq(Nat)
  /\ jira = [hits |-> jira.hits, status |-> jira.status, writes |-> jira.writes,
             moved |-> jira.moved, posted |-> jira.posted, withheld |-> jira.withheld]
  /\ jira.hits \subseteq Hits /\ jira.status \in DOMAIN Offers /\ jira.writes \in Nat
  /\ "at" \in DOMAIN wire
  /\ client.stage # "wait" => wire.at = "nowhere"
  /\ client.stage = "wait" => wire.at \in {"server", "client", "lost"}
  /\ wire.at \in {"server", "client"} => wire.kind = Kind /\ wire.arg = client.cursor
  /\ client.stage # "done" => told = Untold
  /\ client.stage = "start" => client.page = 0 /\ client.cursor = 0 /\ client.got = <<>>

\* A reading of the rate limit is due to be reported, or all were.
Readings ==
  /\ limits = <<limits[1], limits[2]>> /\ limits[1] \in Nat /\ limits[2] \in Nat
  /\ limits[1] = IF wire.at = "client" /\ Announced(wire.headers) THEN limits[2] + 1 ELSE limits[2]
  /\ client.stage = "start" => limits[1] = 0
  /\ told.exit = 3 => command.op = "auth" /\ limits[1] = 0

\* What the server did, as the client can know it.
Acts ==
  /\ jira.writes <= 1
  /\ client.stage \in {"start", "send"} \/ wire.at = "server" => jira.writes = 0
  /\ wire.at = "client" =>
       /\ wire.status = 200 /\ wire.kind \in {"move", "create", "comment"} => jira.writes = 1
       /\ wire.status = 200 /\ wire.kind = "move" => jira.moved = Wanted
       /\ wire.status # 200 \/ wire.kind \notin {"move", "create", "comment"} => jira.writes = 0
       /\ wire.status = 200 /\ wire.kind = "list" =>
            wire.offers = <<>> \/ \E s \in DOMAIN Offers : wire.offers = Offers[s]
  /\ command.op = "transition" => client.page \in {0, 1} /\ (client.page = 1 => client.cursor = 1)
  /\ client.stage = "done" /\ command.op \in Writes =>
       /\ told.exit = 0 => jira.writes = 1
       /\ told.exit = 0 /\ command.op = "transition" => jira.moved = Wanted
       /\ told.why \notin {"", "transport", "decode", "no key"} => jira.writes = 0

\* What a search has found, up to its cursor, what a page brings, and what it tells.
In(s) == {s[i] : i \in DOMAIN s}
Passed ==
  /\ \A i, j \in DOMAIN client.got : client.got[i] = client.got[j] => i = j
  /\ \A i \in DOMAIN client.got : client.got[i] <= client.cursor
  /\ \A i \in stable : i <= client.cursor => i \in In(client.got)
Page ==
  /\ wire.token \in Nat /\ wire.items \in Seq(Nat) /\ Len(wire.items) <= 1
  /\ \A i \in DOMAIN wire.items : wire.items[i] > wire.arg
  /\ wire.token # 0 => wire.items = <<wire.token>>
  /\ \A i \in stable : i > wire.arg =>
       \/ i \in In(wire.items)
       \/ wire.token # 0 /\ i > wire.token
       \/ wire.token = 0 /\ wire.last = "false" /\ i \in jira.withheld
Told(got, truncated, token) ==
  \A i \in stable : \/ i \in In(got)
                    \/ truncated /\ i > token /\ (command.op = "all" => token # 0)
                    \/ command.op = "all" /\ i \in jira.withheld
Covers == Searches =>
  /\ stable \subseteq jira.hits
  /\ client.stage # "done" => Passed
  /\ wire.at = "client" /\ wire.status = 200 /\ wire.body = "ok" => Page
  /\ client.stage = "done" /\ told.exit = 0 =>
       /\ client.got \in Seq(Nat)
       /\ \A i, j \in DOMAIN client.got : client.got[i] = client.got[j] => i = j
       /\ Told(client.got, told.truncated, told.token)

JiraInv == Posts /\ Readings /\ Acts /\ Covers

\* The least of a non-empty set of numbers exists: initial intervals are finite,
\* and the proper-subset ordering on finite sets is well-founded.
LEMMA LeastIn ==
  ASSUME NEW S \in SUBSET Nat, S # {}
  PROVE  Least(S) \in S /\ \A j \in S : Least(S) <= j
<1> DEFINE F == {0..m : m \in S}  R == StrictSubsetOrdering(Nat)
<1>1. F \subseteq FiniteSubsetsOf(Nat) /\ F # {}
  <2>1. \A m \in S : IsFiniteSet(0..m) /\ 0..m \subseteq Nat
    BY FS_Interval
  <2> QED BY <2>1 DEF FiniteSubsetsOf
<1>2. IsWellFoundedOn(R, FiniteSubsetsOf(Nat))
  BY FS_StrictSubsetOrderingWellFounded
<1>3. PICK x \in F : \A y \in F : ~(<<y, x>> \in R)
  BY <1>1, <1>2, WFMin
<1>4. PICK m \in S : x = 0..m
  OBVIOUS
<1>5. ASSUME NEW j \in S, j < m  PROVE FALSE
  <2>1. 0..j \subseteq 0..m /\ m \in 0..m /\ m \notin 0..j /\ 0..m \subseteq Nat
    BY <1>5
  <2>2. <<0..j, 0..m>> \in R
    BY <2>1 DEF StrictSubsetOrdering
  <2> QED BY <2>2, <1>3, <1>4
<1>6. \A j \in S : m <= j
  BY <1>5
<1> QED BY <1>6 DEF Least

\* What is asked for is one of the commands.
LEMMA CommandsAsk == \A c \in Commands : c.op \in Ops
<1> SUFFICES ASSUME NEW c \in Commands PROVE c.op \in Ops
  OBVIOUS
<1>1. PICK o \in Ops : c \in Differing([Plain EXCEPT !.op = o])
  BY DEF Commands
<1> DEFINE d == [Plain EXCEPT !.op = o]
<1>2. d.op = o /\ DOMAIN d = {"op", "file", "env", "token", "args", "body"}
  BY DEF Plain
<1> HIDE DEF d
<1>3. ASSUME NEW e \in Differing(d)  PROVE e.op = d.op
  <2>1. \/ \E x : e = [d EXCEPT !.body = x]
        \/ \E x : e = [d EXCEPT !.token = x]
        \/ \E x : e = [d EXCEPT !.file = x]
        \/ \E x : e = [d EXCEPT !.args = x]
        \/ \E x, y : e = [d EXCEPT !.file = x, !.env = y]
    BY Zenon DEF Differing
  <2>2. ASSUME NEW x, NEW y, e = [d EXCEPT !.file = x, !.env = y]  PROVE e.op = d.op
    BY <1>2, <2>2
  <2>3. ASSUME NEW x, \/ e = [d EXCEPT !.body = x] \/ e = [d EXCEPT !.token = x]
                     \/ e = [d EXCEPT !.file = x] \/ e = [d EXCEPT !.args = x]
        PROVE  e.op = d.op
    BY <1>2, <2>3
  <2> QED BY <2>1, <2>2, <2>3, Zenon
<1> QED BY <1>1, <1>2, <1>3 DEF d

LEMMA JiraInitInv == JiraInit => JiraInv
<1> SUFFICES ASSUME JiraInit PROVE JiraInv
  OBVIOUS
<1>1. PICK h \in SUBSET Hits : jira = [hits |-> h, status |-> "open", writes |-> 0, moved |-> "no", posted |-> <<>>,
                                     withheld |-> {}]
  BY DEF JiraInit
<1>2. Posts
  <2>1. command.op \in Ops
    BY CommandsAsk DEF JiraInit
  <2>2. "open" \in DOMAIN Offers
    BY DEF Offers
  <2> QED BY <1>1, <2>1, <2>2 DEF JiraInit, Posts, NoWire
<1>3. Readings
  <2>1. wire.at = "nowhere" /\ told.exit = 9 /\ limits = <<0, 0>>
    BY DEF JiraInit, NoWire, Untold
  <2> QED BY <2>1 DEF Readings
<1>4. Acts
  BY <1>1 DEF JiraInit, Acts, NoWire
<1>5. Covers
  <2>1. Hits \subseteq Nat \ {0}
    BY JiraAssumption
  <2> QED BY <1>1, <2>1 DEF JiraInit, Covers, Passed, NoWire
<1> QED BY <1>2, <1>3, <1>4, <1>5 DEF JiraInv

\* A command that ends, and how.
LEMMA EndTells ==
  ASSUME Posts, NEW exit, NEW why, NEW truncated, NEW token, End(exit, why, truncated, token)
  PROVE  /\ told' = [exit |-> exit, why |-> why, truncated |-> truncated, token |-> token]
         /\ client' = [stage |-> "done", page |-> client.page, cursor |-> client.cursor,
                       got |-> IF exit = 0 THEN client.got ELSE <<>>]
BY DEF End, Posts

LEMMA BeginStep == JiraInv /\ Begin => JiraInv'
<1> SUFFICES ASSUME JiraInv, Begin PROVE JiraInv'
  OBVIOUS
<1>1. client.stage = "start" /\ UNCHANGED <<command, wire, jira, limits, stable>>
  BY DEF Begin
<1>2. CASE client' = [client EXCEPT !.stage = "send"] /\ UNCHANGED told
  <2>1. client' = [stage |-> "send", page |-> client.page, cursor |-> client.cursor, got |-> client.got]
    BY <1>2 DEF JiraInv, Posts
  <2>2. Posts'
    BY <1>1, <1>2, <2>1 DEF JiraInv, Posts, Kind
  <2>3. Readings' /\ Acts'
    BY <1>1, <1>2, <2>1 DEF JiraInv, Readings, Acts, Announced
  <2>4. Covers'
    BY <1>1, <1>2, <2>1 DEF JiraInv, Covers, Passed, Page, In, Searches, Told
  <2> QED BY <2>2, <2>3, <2>4 DEF JiraInv
<1>3. ASSUME NEW exit \in {1, 3}, NEW why, End(exit, why, FALSE, 0), exit = 3 => command.op = "auth"
      PROVE  JiraInv'
  <2>1. /\ told' = [exit |-> exit, why |-> why, truncated |-> FALSE, token |-> 0]
        /\ client' = [stage |-> "done", page |-> client.page, cursor |-> client.cursor,
                      got |-> IF exit = 0 THEN client.got ELSE <<>>]
    BY <1>3, EndTells DEF JiraInv
  <2>6. told'.exit # 0 /\ told'.exit = exit /\ client'.got = <<>>
    BY <2>1
  <2>2. Posts'
    BY <1>1, <2>1 DEF JiraInv, Posts, Kind
  <2>3. Readings'
    BY <1>1, <1>3, <2>1 DEF JiraInv, Readings, Announced
  <2>4. Acts'
    BY <1>1, <2>1, <2>6 DEF JiraInv, Posts, Acts
  <2>5. Covers'
    BY <1>1, <2>1, <2>6 DEF JiraInv, Covers, Page, In, Searches, Told
  <2> QED BY <2>2, <2>3, <2>4, <2>5 DEF JiraInv
<1>4. CASE \E why : Fails(why)
  <2>1. PICK why : End(1, why, FALSE, 0)
    BY <1>4 DEF Fails
  <2>2. ASSUME 1 = 3 PROVE command.op = "auth"
    BY <2>2
  <2> QED BY <2>1, <2>2, <1>3, Zenon
<1>5. CASE command.op = "auth" /\ End(3, "missing", FALSE, 0)
  BY <1>5, <1>3
<1> QED BY <1>2, <1>4, <1>5 DEF Begin

LEMMA SendStep == JiraInv /\ Send => JiraInv'
<1> SUFFICES ASSUME JiraInv, Send PROVE JiraInv'
  OBVIOUS
<1> USE DEF JiraInv
<1>1. /\ client.stage = "send" /\ UNCHANGED <<command, jira, told, limits, stable>>
      /\ wire'.at = "server" /\ "at" \in DOMAIN wire' /\ wire'.kind = Kind /\ wire'.arg = client.cursor
  BY DEF Send, Kind
<1>2. client' = [stage |-> "wait", page |-> client.page, cursor |-> client.cursor, got |-> client.got]
  BY DEF Send, Posts
<1>3. Kind' = Kind
  BY <1>1, <1>2 DEF Kind
<1>4. Posts'
  BY <1>1, <1>2, <1>3 DEF Posts
<1>5. Readings'
  BY <1>1, <1>2 DEF Readings, Posts
<1>6. Acts'
  BY <1>1, <1>2 DEF Acts, Posts
<1>7. Covers'
  BY <1>1, <1>2 DEF Covers, Posts, Passed, Searches
<1> QED BY <1>4, <1>5, <1>6, <1>7

\* A request or a reply that is lost.
LEMMA LostStep ==
  ASSUME JiraInv, wire.at = "server", wire' = [wire EXCEPT !.at = "lost"],
         UNCHANGED <<command, client, told, stable, limits>>,
         UNCHANGED jira \/ (/\ jira'.hits = jira.hits /\ jira'.status \in DOMAIN Offers
                            /\ jira'.writes = jira.writes + 1
                            /\ jira' = [hits |-> jira'.hits, status |-> jira'.status, writes |-> jira'.writes,
                                        moved |-> jira'.moved, posted |-> jira'.posted,
                                        withheld |-> jira.withheld])
  PROVE  JiraInv'
<1> USE DEF JiraInv
<1>1. wire'.at = "lost" /\ "at" \in DOMAIN wire' /\ client.stage = "wait"
  BY DEF Posts
<1>2. Posts'
  BY <1>1 DEF Posts
<1>3. Readings'
  BY <1>1 DEF Readings
<1>4. Acts'
  BY <1>1 DEF Acts, Posts
<1>5. Covers'
  BY <1>1 DEF Covers, Posts, Passed, Searches
<1> QED BY <1>2, <1>3, <1>4, <1>5

\* A reply that reaches the client: its reading, what it says, what was done.
LEMMA RepliedStep ==
  ASSUME JiraInv, wire.at = "server", UNCHANGED <<command, client, told, stable>>, NEW h,
         wire'.at = "client", "at" \in DOMAIN wire', wire'.kind = wire.kind, wire'.arg = wire.arg,
         wire'.headers = h, limits' = Carried(h),
         \/ UNCHANGED jira
         \/ /\ wire.kind \in {"create", "comment", "move"}
            /\ jira'.hits = jira.hits /\ jira'.status \in DOMAIN Offers /\ jira'.writes = jira.writes + 1
            /\ jira' = [hits |-> jira'.hits, status |-> jira'.status, writes |-> jira'.writes,
                        moved |-> jira'.moved, posted |-> jira'.posted, withheld |-> jira.withheld]
         \/ wire.kind = "search" /\ \E w : jira' = [jira EXCEPT !.withheld = w],
         wire'.status = 200 /\ wire.kind \in {"create", "comment", "move"} => jira'.writes = 1,
         wire'.status = 200 /\ wire.kind = "move" => jira'.moved = Wanted,
         wire'.status # 200 => UNCHANGED jira,
         wire.kind = "list" /\ wire'.status = 200 =>
           wire'.offers = <<>> \/ \E s \in DOMAIN Offers : wire'.offers = Offers[s],
         Searches /\ wire'.status = 200 /\ wire'.body = "ok" => Page'
  PROVE  JiraInv'
<1> USE DEF JiraInv
<1>1. client.stage = "wait" /\ jira.writes = 0 /\ Kind' = Kind
  BY DEF Posts, Acts, Kind
<1>2. Posts'
  BY <1>1 DEF Posts
<1>3. Readings'
  <2>1. limits' = IF Announced(h) THEN <<limits[1] + 1, limits[2]>> ELSE limits
    BY DEF Carried, Announced
  <2>2. /\ limits[1] \in Nat /\ limits[2] \in Nat /\ limits[1] = limits[2]
        /\ limits = <<limits[1], limits[2]>> /\ told.exit # 3
    <3>1. told = Untold
      BY <1>1 DEF Posts
    <3>7. told.exit = 9
      BY <3>1 DEF Untold
    <3>2. 9 # 3
      OBVIOUS
    <3>3. wire.at # "client"
      OBVIOUS
    <3>4. limits[1] = limits[2]
      BY <3>3 DEF Readings
    <3>5. limits[1] \in Nat /\ limits[2] \in Nat
      BY DEF Readings
    <3>6. limits = <<limits[1], limits[2]>>
      BY Zenon DEF Readings
    <3> QED BY <3>2, <3>7, <3>4, <3>5, <3>6, Zenon
  <2>3. told'.exit # 3 /\ client'.stage # "start"
    BY <1>1, <2>2
  <2>4. CASE Announced(h)
    <3>1. limits' = <<limits[1] + 1, limits[2]>>
      BY <2>1, <2>4
    <3> QED BY <3>1, <2>2, <2>3, <2>4 DEF Readings
  <2>5. CASE ~Announced(h)
    BY <2>1, <2>2, <2>3, <2>5 DEF Readings
  <2> QED BY <2>4, <2>5
<1>4. Acts'
  <2>1. /\ jira'.writes <= 1 /\ told = Untold
        /\ (wire'.status # 200 \/ wire.kind \notin {"move", "create", "comment"}) => jira'.writes = 0
    BY <1>1 DEF Posts, Acts
  <2> QED BY <1>1, <2>1 DEF Acts
<1>5. Covers'
  BY <1>1 DEF Covers, Posts, Passed, Searches
<1> QED BY <1>2, <1>3, <1>4, <1>5

LEMMA OthersStep == JiraInv /\ OthersEdit => JiraInv'
<1> SUFFICES ASSUME JiraInv, OthersEdit PROVE JiraInv'
  OBVIOUS
<1> USE DEF JiraInv
<1>1. UNCHANGED <<command, client, wire, told, limits>> /\ client.stage # "done"
  BY DEF OthersEdit
<1>2. CASE \E i \in Hits : /\ jira' = [jira EXCEPT !.hits = IF i \in @ THEN @ \ {i} ELSE @ \cup {i}]
                           /\ stable' = stable \ {i}
  <2>1. PICK i \in Hits : /\ jira' = [jira EXCEPT !.hits = IF i \in @ THEN @ \ {i} ELSE @ \cup {i}]
                          /\ stable' = stable \ {i}
    BY <1>2
  <2>2. jira' = [hits |-> IF i \in jira.hits THEN jira.hits \ {i} ELSE jira.hits \cup {i},
                 status |-> jira.status, writes |-> jira.writes, moved |-> jira.moved, posted |-> jira.posted,
                 withheld |-> jira.withheld]
    BY <2>1 DEF Posts
  <2>3. Posts' /\ Readings'
    BY <1>1, <2>2 DEF Posts, Readings, Kind
  <2>4. Acts'
    BY <1>1, <2>2 DEF Acts
  <2>5. Covers'
    BY <1>1, <2>1, <2>2 DEF Covers, Passed, Page, Searches
  <2> QED BY <2>3, <2>4, <2>5
<1>3. CASE \E s \in DOMAIN Offers : jira' = [jira EXCEPT !.status = s] /\ UNCHANGED stable
  <2>1. PICK s \in DOMAIN Offers : jira' = [jira EXCEPT !.status = s] /\ UNCHANGED stable
    BY <1>3
  <2>2. jira' = [hits |-> jira.hits, status |-> s, writes |-> jira.writes, moved |-> jira.moved,
                 posted |-> jira.posted, withheld |-> jira.withheld]
    BY <2>1 DEF Posts
  <2>3. Posts' /\ Readings'
    BY <1>1, <2>2 DEF Posts, Readings, Kind
  <2>4. Acts'
    BY <1>1, <2>2 DEF Acts
  <2>5. Covers'
    BY <1>1, <2>1, <2>2 DEF Covers, Passed, Page, Searches
  <2> QED BY <2>3, <2>4, <2>5
<1> QED BY <1>2, <1>3 DEF OthersEdit

\* The offers lead to the state asked for by the transition 1 and no other.
LEMMA OnlyOneLeads ==
  \A s \in DOMAIN Offers : \A i \in DOMAIN Offers[s] :
    /\ Offers[s][i].id \in Nat \ {0} /\ Offers[s][i].to \in DOMAIN Offers
    /\ Offers[s][i].id = 1 <=> Offers[s][i].to = Wanted
BY DEF Offers, Wanted

\* A page: what the index has behind the cursor; the server may withhold the token.
LEMMA PageReplied ==
  ASSUME JiraInv, wire.at = "server", UNCHANGED <<command, stable>>, NEW h,
         \/ wire' = SearchReply(h) /\ UNCHANGED jira
         \/ /\ wire' = [SearchReply(h) EXCEPT !.token = 0] /\ Behind(wire.arg) # {}
            /\ jira' = [jira EXCEPT !.withheld = Behind(wire.arg)]
  PROVE  /\ wire'.at = "client" /\ "at" \in DOMAIN wire' /\ wire'.kind = wire.kind /\ wire'.arg = wire.arg
         /\ wire'.headers = h /\ wire'.status = 200 /\ wire'.offers = <<>>
         /\ Searches => Page'
<1> DEFINE ahead == NextHit(wire.arg)
           behind == Behind(wire.arg)
<1>1. /\ wire'.at = "client" /\ "at" \in DOMAIN wire' /\ wire'.kind = wire.kind /\ wire'.arg = wire.arg
      /\ wire'.headers = h /\ wire'.status = 200 /\ wire'.offers = <<>>
      /\ wire'.items = IF ahead = {} THEN <<>> ELSE <<Least(ahead)>>
      /\ wire'.last = IF behind = {} THEN "true" ELSE "false"
      /\ \/ wire'.token = IF behind = {} THEN 0 ELSE Least(ahead)
         \/ wire'.token = 0 /\ behind # {} /\ jira'.withheld = behind
  <2>1. CASE wire' = SearchReply(h)
    BY <2>1 DEF SearchReply, Reply
  <2>2. CASE /\ wire' = [SearchReply(h) EXCEPT !.token = 0] /\ behind # {}
             /\ jira' = [jira EXCEPT !.withheld = behind]
    <3>1. jira'.withheld = behind
      BY <2>2 DEF JiraInv, Posts
    <3> QED BY <2>2, <3>1 DEF SearchReply, Reply
  <2> QED BY <2>1, <2>2
<1>2. SUFFICES ASSUME Searches PROVE Page'
  BY <1>1
<1>3. ahead = {i \in jira.hits : i > wire.arg} /\ ahead \in SUBSET Nat /\ stable \subseteq jira.hits
      /\ wire.arg \in Nat /\ \A i \in jira.hits : i \in Nat
  BY JiraAssumption, <1>2 DEF NextHit, JiraInv, Posts, Covers
<1>6. behind = IF ahead = {} THEN {} ELSE ahead \ {Least(ahead)}
  BY DEF Behind
<1> HIDE DEF ahead, behind
<1>4. CASE ahead = {}
  BY <1>1, <1>3, <1>4, <1>6 DEF Page, In
<1>5. CASE ahead # {}
  <2> DEFINE m == Least(ahead)
  <2>1. m \in ahead /\ m \in Nat /\ m > wire.arg /\ m # 0 /\ \A j \in ahead : m <= j
    BY <1>3, <1>5, LeastIn
  <2> HIDE DEF m
  <2>2. /\ wire'.items = <<m>> /\ behind = ahead \ {m}
        /\ \/ wire'.token = IF behind = {} THEN 0 ELSE m
           \/ wire'.token = 0 /\ wire'.last = "false" /\ jira'.withheld = behind
    BY <1>1, <1>5, <1>6 DEF m
  <2>3. In(<<m>>) = {m}
    BY DEF In
  <2>4. \A i \in stable' : i > wire.arg => i = m \/ (i \in behind /\ i > m)
    BY <1>3, <2>1, <2>2
  <2>5. wire'.token \in Nat /\ wire'.items \in Seq(Nat) /\ Len(wire'.items) = 1
    BY <2>1, <2>2
  <2>6. \A i \in DOMAIN wire'.items : wire'.items[i] > wire'.arg
    BY <2>1, <2>2, <1>1
  <2>7. wire'.token # 0 => wire'.items = <<wire'.token>>
    BY <2>2
  <2>8. \A i \in stable' : i > wire'.arg =>
          \/ i \in In(wire'.items)
          \/ wire'.token # 0 /\ i > wire'.token
          \/ wire'.token = 0 /\ wire'.last = "false" /\ i \in jira'.withheld
    BY <2>1, <2>2, <2>3, <2>4, <1>1
  <2> QED BY <2>5, <2>6, <2>7, <2>8 DEF Page
<1> QED BY <1>4, <1>5

LEMMA ActsStep == JiraInv /\ ServerActs => JiraInv'
<1> SUFFICES ASSUME JiraInv, ServerActs PROVE JiraInv'
  OBVIOUS
<1> DEFINE Done(b, h, l) == IF l THEN [wire EXCEPT !.at = "lost"] ELSE Reply(200, b, h)
<1>1. wire.at = "server" /\ UNCHANGED <<command, client, told, stable>>
  BY DEF ServerActs
<1>2. PICK b \in {"ok", "garbled", "keyless"}, h \in Headers, l \in BOOLEAN :
        /\ CASE wire.kind = "search" ->
                  /\ wire' = IF l \/ b # "ok" THEN Done(b, h, l) ELSE SearchReply(h)
                  /\ UNCHANGED jira
             [] wire.kind = "list" ->
                  /\ jira.status # "gone"
                  /\ wire' = IF l \/ b # "ok" THEN Done(b, h, l)
                             ELSE [Done(b, h, l) EXCEPT !.offers = Offers[jira.status]]
                  /\ UNCHANGED jira
             [] wire.kind = "move" ->
                  /\ Transitions(wire.arg) # {}
                  /\ wire' = Done(b, h, l)
                  /\ \E o \in Transitions(wire.arg) :
                       jira' = [jira EXCEPT !.status = o.to, !.writes = @ + 1, !.moved = o.to]
             [] wire.kind \in {"create", "comment"} ->
                  /\ wire.kind = "comment" => jira.status # "gone"
                  /\ wire' = Done(b, h, l)
                  /\ jira' = [jira EXCEPT !.writes = @ + 1, !.posted = wire.body]
             [] OTHER ->
                  /\ wire.kind = "get" => jira.status # "gone"
                  /\ wire' = Done(b, h, l) /\ UNCHANGED jira
        /\ limits' = IF l THEN limits ELSE Carried(h)
  BY DEF ServerActs
<1>3. jira.writes = 0 /\ client.stage = "wait"
  BY <1>1 DEF JiraInv, Acts, Posts
<1>4. wire.kind = "move" => \A o \in Transitions(wire.arg) : o.to = Wanted /\ o.to \in DOMAIN Offers
  <2>1. SUFFICES ASSUME wire.kind = "move", NEW o \in Transitions(wire.arg)
                 PROVE  o.to = Wanted /\ o.to \in DOMAIN Offers
    OBVIOUS
  <2>2. wire.arg = 1
    <3>1. Kind = "move" /\ wire.arg = client.cursor /\ command.op \in Ops
      BY <2>1, <1>1 DEF JiraInv, Posts
    <3>2. \A p \in Ops : FirstRequest[p] # "move"
      BY DEF FirstRequest, Ops, Writes
    <3>3. client.page = 1 /\ command.op = "transition"
      BY <3>1, <3>2 DEF Kind
    <3> QED BY <3>1, <3>3 DEF JiraInv, Acts
  <2>3. PICK i \in DOMAIN Offers[jira.status] : o = Offers[jira.status][i] /\ o.id = wire.arg
    BY DEF Transitions
  <2> QED BY <2>2, <2>3, OnlyOneLeads DEF JiraInv, Posts
<1>5. \/ UNCHANGED jira /\ wire.kind \notin {"create", "comment", "move"}
      \/ /\ wire.kind \in {"create", "comment", "move"}
         /\ jira'.hits = jira.hits /\ jira'.status \in DOMAIN Offers /\ jira'.writes = jira.writes + 1
         /\ jira' = [hits |-> jira'.hits, status |-> jira'.status, writes |-> jira'.writes,
                     moved |-> jira'.moved, posted |-> jira'.posted, withheld |-> jira.withheld]
         /\ wire.kind = "move" => jira'.moved = Wanted
  <2>1. CASE wire.kind \in {"create", "comment"}
    <3>1. jira' = [hits |-> jira.hits, status |-> jira.status, writes |-> jira.writes + 1,
                   moved |-> jira.moved, posted |-> wire.body, withheld |-> jira.withheld]
      BY <1>2, <2>1 DEF JiraInv, Posts
    <3> QED BY <3>1, <2>1 DEF JiraInv, Posts
  <2>2. CASE wire.kind = "move"
    <3>1. PICK o \in Transitions(wire.arg) :
            jira' = [jira EXCEPT !.status = o.to, !.writes = @ + 1, !.moved = o.to]
      BY <1>2, <2>2
    <3>2. jira' = [hits |-> jira.hits, status |-> o.to, writes |-> jira.writes + 1,
                   moved |-> o.to, posted |-> jira.posted, withheld |-> jira.withheld]
      BY <3>1 DEF JiraInv, Posts
    <3> QED BY <3>2, <2>2, <1>4
  <2>3. CASE wire.kind \notin {"create", "comment", "move"}
    BY <1>2, <2>3
  <2> QED BY <2>1, <2>2, <2>3
<1>6. /\ wire.kind \in {"create", "comment", "move"} => jira'.writes = 1
      /\ wire.kind = "move" => jira'.moved = Wanted
  BY <1>3, <1>5
<1>7. CASE l
  <2>1. wire' = [wire EXCEPT !.at = "lost"] /\ limits' = limits
    BY <1>2, <1>7
  <2> QED BY <1>1, <1>5, <2>1, LostStep
<1>8. CASE ~l
  <2>1. limits' = Carried(h)
    BY <1>2, <1>8
  <2>2. /\ wire'.at = "client" /\ "at" \in DOMAIN wire' /\ wire'.kind = wire.kind /\ wire'.arg = wire.arg
        /\ wire'.headers = h /\ wire'.status = 200
        /\ wire.kind = "list" => wire'.offers = <<>> \/ \E s \in DOMAIN Offers : wire'.offers = Offers[s]
        /\ (Searches /\ wire'.body = "ok") => Page'
    <3>1. CASE wire' = Reply(200, b, h) /\ (wire.kind = "search" => b # "ok")
      <4>1. /\ wire'.at = "client" /\ "at" \in DOMAIN wire' /\ wire'.kind = wire.kind /\ wire'.arg = wire.arg
            /\ wire'.headers = h /\ wire'.status = 200 /\ wire'.offers = <<>> /\ wire'.body = b
        BY <3>1 DEF Reply
      <4>2. Searches => wire.kind = "search"
        BY <1>1 DEF JiraInv, Posts, Kind, FirstRequest, Ops, Writes, Searches
      <4> QED BY <3>1, <4>1, <4>2
    <3>2. CASE wire' = SearchReply(h) /\ wire.kind = "search" /\ UNCHANGED jira
      BY <3>2, <1>1, PageReplied
    <3>3. CASE wire' = [Reply(200, b, h) EXCEPT !.offers = Offers[jira.status]] /\ wire.kind = "list"
      <4>1. /\ wire'.at = "client" /\ "at" \in DOMAIN wire' /\ wire'.kind = wire.kind /\ wire'.arg = wire.arg
            /\ wire'.headers = h /\ wire'.status = 200 /\ wire'.offers = Offers[jira.status]
        BY <3>3 DEF Reply
      <4>2. ~Searches
        BY <3>3, <1>1 DEF JiraInv, Posts, Kind, FirstRequest, Ops, Writes, Searches
      <4>3. jira.status \in DOMAIN Offers
        BY DEF JiraInv, Posts
      <4> QED BY <4>1, <4>2, <4>3
    <3> QED BY <1>2, <1>8, <3>1, <3>2, <3>3
  <2> QED BY <1>1, <1>3, <1>5, <1>6, <2>1, <2>2, RepliedStep
<1> QED BY <1>7, <1>8

LEMMA WithholdsStep == JiraInv /\ ServerWithholds => JiraInv'
<1> SUFFICES ASSUME JiraInv, ServerWithholds PROVE JiraInv'
  OBVIOUS
<1>1. /\ wire.at = "server" /\ wire.kind = "search" /\ Behind(wire.arg) # {}
      /\ jira' = [jira EXCEPT !.withheld = Behind(wire.arg)]
      /\ UNCHANGED <<command, client, told, stable>>
  BY DEF ServerWithholds
<1>2. PICK h \in Headers : wire' = [SearchReply(h) EXCEPT !.token = 0] /\ limits' = Carried(h)
  BY DEF ServerWithholds
<1>3. /\ wire'.at = "client" /\ "at" \in DOMAIN wire' /\ wire'.kind = wire.kind /\ wire'.arg = wire.arg
      /\ wire'.headers = h /\ wire'.status = 200 /\ wire'.offers = <<>>
      /\ Searches => Page'
  BY <1>1, <1>2, PageReplied
<1> QED BY <1>1, <1>2, <1>3, RepliedStep

LEMMA RefusesStep == JiraInv /\ ServerRefuses => JiraInv'
<1> SUFFICES ASSUME JiraInv, ServerRefuses PROVE JiraInv'
  OBVIOUS
<1>1. PICK s \in {400, 401, 403, 404, 429, 500}, h \in Headers :
        wire' = Reply(s, "garbled", h) /\ limits' = Carried(h)
  BY DEF ServerRefuses
<1>2. /\ wire'.at = "client" /\ "at" \in DOMAIN wire' /\ wire'.kind = wire.kind /\ wire'.arg = wire.arg
      /\ wire'.headers = h /\ wire'.status # 200 /\ wire'.body = "garbled"
  BY <1>1 DEF Reply
<1>3. wire.at = "server" /\ UNCHANGED <<command, client, jira, told, stable>>
  BY DEF ServerRefuses
<1> QED BY <1>1, <1>2, <1>3, RepliedStep

LEMMA RequestLostStep == JiraInv /\ RequestLost => JiraInv'
BY LostStep DEF RequestLost


\* The answers leave no reading unreported.
LEMMA AllReported ==
  ASSUME JiraInv, Answered
  PROVE  limits' = <<limits'[1], limits'[2]>> /\ limits'[1] \in Nat /\ limits'[2] \in Nat /\ limits'[1] = limits'[2]
<1>1. wire.at = "client" /\ limits' = Reported
  BY DEF Answered
<1>2. limits[1] \in Nat /\ limits[2] \in Nat
  BY DEF JiraInv, Readings
<1>3. limits = <<limits[1], limits[2]>>
  BY Zenon DEF JiraInv, Readings
<1>4. CASE Announced(wire.headers)
  <2>1. ParseRateLimit(wire.headers) # {}
    BY <1>4 DEF ParseRateLimit, Announced
  <2>2. limits' = <<limits[1], limits[2] + 1>>
    BY <2>1, <1>1 DEF Reported
  <2>3. limits[1] = limits[2] + 1
    BY <1>1, <1>4 DEF JiraInv, Readings
  <2> QED BY <2>2, <2>3, <1>2
<1>5. CASE ~Announced(wire.headers)
  <2>1. ParseRateLimit(wire.headers) = {}
    BY <1>5 DEF ParseRateLimit, Announced
  <2>2. limits' = limits
    BY <2>1, <1>1 DEF Reported
  <2>3. limits[1] = limits[2]
    BY <1>1, <1>5 DEF JiraInv, Readings
  <2> QED BY <2>2, <2>3, <1>2, <1>3
<1> QED BY <1>4, <1>5

\* A command that ends with an answer or for want of one.
LEMMA DoneStep ==
  ASSUME JiraInv, client.stage = "wait", wire' = NoWire, UNCHANGED <<command, jira, stable>>,
         limits' = <<limits'[1], limits'[2]>>, limits'[1] \in Nat, limits'[2] \in Nat, limits'[1] = limits'[2],
         NEW exit, NEW why, NEW truncated, NEW token, exit # 3,
         told' = [exit |-> exit, why |-> why, truncated |-> truncated, token |-> token],
         client' = [stage |-> "done", page |-> client'.page, cursor |-> client'.cursor, got |-> client'.got],
         client'.stage = "done", client'.page \in Nat,
         command.op = "transition" => client'.page = client.page /\ client'.cursor = client.cursor,
         command.op \in Writes =>
           /\ exit = 0 => jira.writes = 1
           /\ exit = 0 /\ command.op = "transition" => jira.moved = Wanted
           /\ why \notin {"", "transport", "decode", "no key"} => jira.writes = 0,
         Searches /\ exit = 0 =>
           /\ client'.got \in Seq(Nat)
           /\ \A i, j \in DOMAIN client'.got : client'.got[i] = client'.got[j] => i = j
           /\ Told(client'.got, truncated, token)
  PROVE  JiraInv'
<1> USE DEF JiraInv
<1>1. wire'.at = "nowhere" /\ "at" \in DOMAIN wire'
  BY DEF NoWire
<1>2. told'.exit = exit /\ told'.why = why /\ told'.truncated = truncated /\ told'.token = token
  OBVIOUS
<1>3. client'.stage = "done"
  OBVIOUS
<1>4. Posts'
  BY <1>1, <1>3 DEF Posts
<1>5. Readings'
  BY <1>1, <1>2, <1>3 DEF Readings
<1>6. Acts'
  BY <1>1, <1>2, <1>3 DEF Acts
<1>7. Covers'
  BY <1>1, <1>2, <1>3 DEF Covers, Told, Searches
<1> QED BY <1>4, <1>5, <1>6, <1>7

\* The exit codes that the commands tell apart.
LEMMA ExitsDiffer == 1 # 3 /\ 1 # 0 /\ 0 # 3 /\ 9 # 3
OBVIOUS

LEMMA FailStep ==
  ASSUME JiraInv, client.stage = "wait", wire' = NoWire, UNCHANGED <<command, jira, stable>>,
         limits' = <<limits'[1], limits'[2]>>, limits'[1] \in Nat, limits'[2] \in Nat, limits'[1] = limits'[2],
         NEW why, Fails(why),
         command.op \in Writes /\ why \notin {"transport", "decode", "no key"} => jira.writes = 0
  PROVE  JiraInv'
<1>1. End(1, why, FALSE, 0)
  BY DEF Fails
<1>2. /\ told' = [exit |-> 1, why |-> why, truncated |-> FALSE, token |-> 0]
      /\ client' = [stage |-> "done", page |-> client.page, cursor |-> client.cursor,
                    got |-> IF 1 = 0 THEN client.got ELSE <<>>]
  BY <1>1, EndTells DEF JiraInv
<1> DEFINE got == IF 1 = 0 THEN client.got ELSE <<>>
<1>5. client' = [stage |-> "done", page |-> client.page, cursor |-> client.cursor, got |-> got]
  BY <1>2
<1> HIDE DEF got
<1>6. client'.page = client.page /\ client'.cursor = client.cursor /\ client'.got = got /\ client'.stage = "done"
  BY <1>5
<1>3. /\ client' = [stage |-> "done", page |-> client'.page, cursor |-> client'.cursor, got |-> client'.got]
      /\ client'.page = client.page /\ client'.cursor = client.cursor /\ client'.stage = "done"
  BY <1>5, <1>6, Zenon
<1>7. 1 # 3 /\ 1 # 0
  BY ExitsDiffer, Zenon
<1>8. client.page \in Nat
  BY Zenon DEF JiraInv, Posts
<1>4. command.op \in Writes =>
        /\ 1 = 0 => jira.writes = 1
        /\ 1 = 0 /\ command.op = "transition" => jira.moved = Wanted
        /\ why \notin {"", "transport", "decode", "no key"} => jira.writes = 0
  BY <1>7
<1> QED BY <1>2, <1>3, <1>4, <1>7, <1>8, DoneStep

LEMMA TransportStep == JiraInv /\ Transport => JiraInv'
<1> SUFFICES ASSUME JiraInv, Transport PROVE JiraInv'
  OBVIOUS
<1>1. /\ client.stage = "wait" /\ wire.at = "lost" /\ wire' = NoWire /\ Fails("transport")
      /\ UNCHANGED <<command, jira, stable>> /\ limits' = limits
  BY DEF Transport
<1>2. limits[1] \in Nat /\ limits[2] \in Nat /\ limits[1] = limits[2]
  BY <1>1 DEF JiraInv, Readings
<1>3. limits = <<limits[1], limits[2]>>
  BY Zenon DEF JiraInv, Readings
<1> QED BY <1>1, <1>2, <1>3, FailStep

\* What a kind of request says of the command and of where it stands.
LEMMA KindsTell ==
  ASSUME JiraInv, Answered
  PROVE  /\ client.stage = "wait" /\ wire.at = "client" /\ wire.arg = client.cursor /\ command.op \in Ops
         /\ wire.kind = "search" => command.op \in {"page", "all"}
         /\ wire.kind = "list" => command.op = "transition" /\ client.page = 0
         /\ wire.kind = "get" => command.op = "issue"
         /\ wire.kind = "create" => command.op = "create"
         /\ wire.kind = "comment" => command.op = "comment"
         /\ wire.kind = "move" => command.op = "transition" /\ client.page = 1
         /\ wire.kind = "myself" => command.op = "auth"
<1>1. client.stage = "wait" /\ wire.at = "client" /\ wire.arg = client.cursor /\ command.op \in Ops
  BY DEF Answered, JiraInv, Posts
<1>2. wire.kind = Kind
  BY <1>1 DEF JiraInv, Posts
<1>3. command.op = "transition" => client.page \in {0, 1}
  BY DEF JiraInv, Acts
<1>4. CASE client.page = 1 /\ command.op = "transition"
  BY <1>1, <1>2, <1>4 DEF Kind
<1>5. CASE ~(client.page = 1 /\ command.op = "transition")
  <2>1. wire.kind = FirstRequest[command.op]
    BY <1>2, <1>5 DEF Kind
  <2> QED BY <1>1, <1>3, <1>5, <2>1 DEF FirstRequest, Ops, Writes
<1> QED BY <1>4, <1>5

\* Two stretches of ascending finds.
LEMMA Joined ==
  ASSUME NEW s \in Seq(Nat), NEW t \in Seq(Nat), Len(t) <= 1, NEW c \in Nat,
         \A i, j \in DOMAIN s : s[i] = s[j] => i = j,
         \A i \in DOMAIN s : s[i] <= c, \A i \in DOMAIN t : t[i] > c
  PROVE  /\ s \o t \in Seq(Nat)
         /\ \A i, j \in DOMAIN (s \o t) : (s \o t)[i] = (s \o t)[j] => i = j
         /\ In(s) \subseteq In(s \o t) /\ In(t) \subseteq In(s \o t)
         /\ \A i \in DOMAIN (s \o t) : (s \o t)[i] \in In(s) \/ (s \o t)[i] \in In(t)
<1> DEFINE u == s \o t
<1>1. /\ u \in Seq(Nat) /\ Len(u) = Len(s) + Len(t)
      /\ \A i \in 1..Len(s) : u[i] = s[i]
      /\ \A i \in 1..Len(t) : u[Len(s) + i] = t[i]
  OBVIOUS
<1>2. DOMAIN s = 1..Len(s) /\ DOMAIN t = 1..Len(t) /\ DOMAIN u = 1..Len(u) /\ Len(s) \in Nat /\ Len(t) \in Nat
  BY <1>1
<1>3. \A i \in DOMAIN s : s[i] \in Nat
  OBVIOUS
<1>3t. \A i \in DOMAIN t : t[i] \in Nat
  OBVIOUS
<1> HIDE DEF u
<1>4. \A i \in DOMAIN u : i \in DOMAIN s \/ (i = Len(s) + 1 /\ Len(t) = 1 /\ 1 \in DOMAIN t /\ u[i] = t[1])
  <2>1. SUFFICES ASSUME NEW i \in DOMAIN u, i \notin DOMAIN s
                 PROVE  i = Len(s) + 1 /\ Len(t) = 1 /\ 1 \in DOMAIN t /\ u[i] = t[1]
    OBVIOUS
  <2>2. i = Len(s) + 1 /\ Len(t) = 1 /\ 1 \in DOMAIN t
    BY <2>1, <1>1, <1>2
  <2> QED BY <2>2, <1>1
<1>5. \A i \in DOMAIN s : i \in DOMAIN u /\ u[i] = s[i]
  BY <1>1, <1>2
<1>6. \A i \in DOMAIN t : Len(s) + i \in DOMAIN u /\ u[Len(s) + i] = t[i]
  BY <1>1, <1>2
<1>7. \A i, j \in DOMAIN u : u[i] = u[j] => i = j
  <2>1. SUFFICES ASSUME NEW i \in DOMAIN u, NEW j \in DOMAIN u, u[i] = u[j] PROVE i = j
    OBVIOUS
  <2>2. CASE i \in DOMAIN s /\ j \in DOMAIN s
    BY <2>1, <2>2, <1>5
  <2>3. CASE i \in DOMAIN s /\ j \notin DOMAIN s
    <3>1. u[i] <= c /\ u[j] > c /\ u[i] \in Nat /\ u[j] \in Nat
      BY <2>3, <1>4, <1>5, <1>3, <1>3t
    <3> QED BY <3>1, <2>1
  <2>4. CASE i \notin DOMAIN s /\ j \in DOMAIN s
    <3>1. u[j] <= c /\ u[i] > c /\ u[i] \in Nat /\ u[j] \in Nat
      BY <2>4, <1>4, <1>5, <1>3, <1>3t
    <3> QED BY <3>1, <2>1
  <2>5. CASE i \notin DOMAIN s /\ j \notin DOMAIN s
    BY <2>5, <1>4
  <2> QED BY <2>2, <2>3, <2>4, <2>5
<1>8. In(s) \subseteq In(u) /\ In(t) \subseteq In(u)
  BY <1>5, <1>6 DEF In
<1>9. \A i \in DOMAIN u : u[i] \in In(s) \/ u[i] \in In(t)
  BY <1>4, <1>5 DEF In
<1> QED BY <1>1, <1>7, <1>8, <1>9 DEF u

LEMMA SearchStep == JiraInv /\ SearchAnswered => JiraInv'
<1> SUFFICES ASSUME JiraInv, SearchAnswered PROVE JiraInv'
  OBVIOUS
<1>1. /\ Answered /\ wire.kind = "search" /\ wire' = NoWire /\ UNCHANGED <<command, jira, stable>>
      /\ client.stage = "wait" /\ wire.at = "client" /\ wire.arg = client.cursor
      /\ command.op \in {"page", "all"} /\ command.op \notin Writes /\ Searches
  BY KindsTell DEF SearchAnswered, Writes, Searches
<1>2. limits' = <<limits'[1], limits'[2]>> /\ limits'[1] \in Nat /\ limits'[2] \in Nat /\ limits'[1] = limits'[2]
  BY <1>1, AllReported, Zenon
<1>3. CASE \E why : Fails(why)
  <2>1. PICK why : Fails(why)
    BY <1>3
  <2> QED BY <1>1, <1>2, <2>1, FailStep, Zenon
<1>4. CASE Ok /\ wire.body = "ok" /\ ~ \E why : Fails(why)
  <2> DEFINE got == client.got \o wire.items
             Admits(truncated, token) ==
               /\ token = wire.token /\ truncated \in BOOLEAN
               /\ wire.token # 0 => truncated
               /\ command.op # "all" /\ wire.last = "false" => truncated
  <2>1. \/ /\ command.op = "all" /\ wire.token # 0
           /\ client' = [client EXCEPT !.got = got, !.page = @ + 1, !.cursor = wire.token, !.stage = "send"]
           /\ UNCHANGED told
        \/ /\ client' = [client EXCEPT !.got = got, !.page = @ + 1, !.cursor = wire.token, !.stage = "done"]
           /\ \E truncated, token : told' = Found(truncated, token) /\ Admits(truncated, token)
    <3> DEFINE more == [client EXCEPT !.got = got, !.page = @ + 1, !.cursor = wire.token, !.stage = "send"]
               last == [more EXCEPT !.stage = "done"]
    <3>6. ASSUME command.op = "all", wire.token # 0, client.page + 1 < PageCap, ~(client.page + 1 >= PageCap)
          PROVE  client' = more /\ UNCHANGED told
      BY <1>4, <3>6 DEF SearchAnswered
    <3>7. ASSUME command.op = "all", wire.token # 0, client.page + 1 >= PageCap, ~(client.page + 1 < PageCap)
          PROVE  client' = last /\ told' = AtTheCap
      BY <1>4, <3>7 DEF SearchAnswered
    <3>8. ASSUME ~(command.op = "all" /\ wire.token # 0)
          PROVE  /\ client' = last
                 /\ told' = Found(command.op = "page" /\ (wire.token # 0 \/ wire.last = "false"),
                                  wire.token)
      BY <1>4, <3>8 DEF SearchAnswered
    <3>2. last = [client EXCEPT !.got = got, !.page = @ + 1, !.cursor = wire.token, !.stage = "done"]
      BY DEF JiraInv, Posts
    <3> HIDE DEF more, last
    <3>3. (client.page + 1 < PageCap /\ ~(client.page + 1 >= PageCap)) \/ (client.page + 1 >= PageCap /\ ~(client.page + 1 < PageCap))
      BY JiraAssumption DEF JiraInv, Posts
    <3>4. CASE command.op = "all" /\ wire.token # 0
      <4>1. \/ client' = more /\ UNCHANGED told
            \/ client' = last /\ told' = Found(TRUE, wire.token)
        BY <3>6, <3>7, <3>3, <3>4 DEF AtTheCap
      <4>2. Admits(TRUE, wire.token)
        BY <3>4
      <4> HIDE DEF Admits
      <4> QED BY <3>2, <3>4, <4>1, <4>2, Zenon DEF more
    <3>5. CASE ~(command.op = "all" /\ wire.token # 0)
      <4>1. /\ client' = last
            /\ told' = Found(command.op = "page" /\ (wire.token # 0 \/ wire.last = "false"),
                             wire.token)
        BY <3>5, <3>8
      <4>2. Admits(command.op = "page" /\ (wire.token # 0 \/ wire.last = "false"), wire.token)
        BY <1>1, <3>5
      <4> HIDE DEF Admits
      <4> QED BY <3>2, <4>1, <4>2, Zenon
    <3> QED BY <3>4, <3>5
  <2>2. Passed /\ Page /\ stable \subseteq jira.hits
    BY <1>1, <1>4 DEF JiraInv, Covers, Ok
  <2>3. /\ got \in Seq(Nat)
        /\ \A i, j \in DOMAIN got : got[i] = got[j] => i = j
        /\ \A i \in stable : \/ i \in In(got)
                             \/ wire.token # 0 /\ i > wire.token
                             \/ wire.token = 0 /\ wire.last = "false" /\ i \in jira.withheld
        /\ wire.token # 0 => \A i \in DOMAIN got : got[i] <= wire.token
    <3>1. client.cursor \in Nat /\ client.got \in Seq(Nat)
      BY <1>1 DEF JiraInv, Posts
    <3>2. wire.items \in Seq(Nat) /\ Len(wire.items) <= 1 /\ \A i \in DOMAIN wire.items : wire.items[i] > client.cursor
      BY <1>1, <2>2 DEF Page
    <3>3. /\ \A i, j \in DOMAIN client.got : client.got[i] = client.got[j] => i = j
          /\ \A i \in DOMAIN client.got : client.got[i] <= client.cursor
      BY <2>2 DEF Passed
    <3>4. /\ got \in Seq(Nat)
          /\ \A i, j \in DOMAIN got : got[i] = got[j] => i = j
          /\ In(client.got) \subseteq In(got) /\ In(wire.items) \subseteq In(got)
          /\ \A i \in DOMAIN got : got[i] \in In(client.got) \/ got[i] \in In(wire.items)
      BY <3>1, <3>2, <3>3, Joined
    <3>5. ASSUME NEW i \in stable
          PROVE \/ i \in In(got)
                \/ wire.token # 0 /\ i > wire.token
                \/ wire.token = 0 /\ wire.last = "false" /\ i \in jira.withheld
      <4>1. i \in Nat
        BY <2>2, JiraAssumption DEF JiraInv, Posts
      <4>2. i <= client.cursor => i \in In(client.got)
        BY <2>2 DEF Passed
      <4>3. \/ ~(i > client.cursor)
            \/ i \in In(wire.items)
            \/ wire.token # 0 /\ i > wire.token
            \/ wire.token = 0 /\ wire.last = "false" /\ i \in jira.withheld
        BY <1>1, <2>2 DEF Page
      <4> QED BY <3>1, <3>4, <4>1, <4>2, <4>3
    <3>6. ASSUME wire.token # 0, NEW i \in DOMAIN got  PROVE got[i] <= wire.token
      <4>1. wire.items = <<wire.token>> /\ wire.token \in Nat
        BY <2>2, <3>6 DEF Page
      <4>2. wire.token > client.cursor /\ In(wire.items) = {wire.token}
        BY <3>2, <4>1 DEF In
      <4>3. CASE got[i] \in In(wire.items)
        BY <4>1, <4>2, <4>3
      <4>4. CASE got[i] \in In(client.got)
        <5>1. PICK k \in DOMAIN client.got : got[i] = client.got[k]
          BY <4>4 DEF In
        <5>2. client.got[k] <= client.cursor /\ client.got[k] \in Nat
          BY <3>1, <3>3
        <5> QED BY <3>1, <4>1, <4>2, <5>1, <5>2
      <4> QED BY <3>4, <4>3, <4>4
    <3> QED BY <3>4, <3>5, <3>6
  <2> HIDE DEF got, Admits
  <2>4. client.page \in Nat
    BY DEF JiraInv, Posts
  <2>5. CASE /\ command.op = "all" /\ wire.token # 0
             /\ client' = [client EXCEPT !.got = got, !.page = @ + 1, !.cursor = wire.token, !.stage = "send"]
             /\ UNCHANGED told
    <3>1. client' = [stage |-> "send", page |-> client.page + 1, cursor |-> wire.token, got |-> got]
      BY <2>5 DEF JiraInv, Posts
    <3>2. wire.token \in Nat /\ wire'.at = "nowhere" /\ "at" \in DOMAIN wire'
      BY <1>1, <2>2, <2>5 DEF Page, NoWire
    <3>3. told = Untold /\ told' = Untold
      BY <1>1, <2>5 DEF JiraInv, Posts
    <3>4. Posts'
      <4>1. /\ client'.stage = "send" /\ client'.page = client.page + 1
            /\ client'.cursor = wire.token /\ client'.got = got
        BY <3>1
      <4>2. client' = [stage |-> client'.stage, page |-> client'.page, cursor |-> client'.cursor, got |-> client'.got]
        BY <3>1, <4>1, Zenon
      <4>3. client'.page \in Nat /\ client'.cursor \in Nat /\ client'.got \in Seq(Nat)
        BY <2>3, <2>4, <2>5, <3>2, <4>1
      <4> QED BY <1>1, <3>2, <3>3, <4>1, <4>2, <4>3 DEF JiraInv, Posts
    <3>5. Readings'
      <4>1. told'.exit # 3
        <5>1. told'.exit = 9
          BY <3>3, Zenon DEF Untold
        <5> QED BY <5>1, ExitsDiffer, Zenon
      <4> QED BY <1>2, <3>1, <3>2, <4>1 DEF Readings
    <3>6. Acts'
      <4>1. client'.stage = "send" /\ command'.op # "transition"
        BY <1>1, <3>1
      <4>2. jira.writes = 0
        BY <1>1 DEF JiraInv, Acts
      <4> QED BY <1>1, <3>2, <4>1, <4>2 DEF Acts
    <3>7. Covers'
      <4>1. client'.got = got /\ client'.cursor = wire.token /\ client'.stage = "send"
        BY <3>1
      <4>2. ASSUME NEW i \in stable, i <= wire.token  PROVE i \in In(got)
        <5>1. i \in Nat
          BY <2>2, <2>5, JiraAssumption DEF JiraInv, Posts
        <5> QED BY <2>3, <2>5, <3>2, <4>2, <5>1
      <4>3. Passed'
        BY <1>1, <2>3, <2>5, <4>1, <4>2 DEF Passed
      <4> QED BY <1>1, <2>2, <2>5, <3>2, <4>1, <4>3 DEF Covers
    <3> QED BY <3>4, <3>5, <3>6, <3>7 DEF JiraInv
  <2>6. CASE /\ client' = [client EXCEPT !.got = got, !.page = @ + 1, !.cursor = wire.token, !.stage = "done"]
             /\ \E truncated, token : told' = Found(truncated, token) /\ Admits(truncated, token)
    <3>1. client' = [stage |-> "done", page |-> client.page + 1, cursor |-> wire.token, got |-> got]
      BY <2>6 DEF JiraInv, Posts
    <3>2. PICK truncated, token :
            /\ told' = [exit |-> 0, why |-> "", truncated |-> truncated, token |-> token]
            /\ Admits(truncated, token)
      BY <2>6 DEF Found
    <3>3. client'.stage = "done" /\ client'.page = client.page + 1 /\ client'.got = got /\ client'.cursor = wire.token
      BY <3>1
    <3>4. client' = [stage |-> "done", page |-> client'.page, cursor |-> client'.cursor, got |-> client'.got]
      BY <3>1, <3>3, Zenon
    <3>5. client'.page \in Nat /\ command.op # "transition"
      BY <1>1, <2>4, <3>3
    <3>7. ASSUME NEW i \in stable
          PROVE  \/ i \in In(got)
                 \/ truncated /\ i > token /\ (command.op = "all" => token # 0)
                 \/ command.op = "all" /\ i \in jira.withheld
      <4>1. i \in Nat \ {0}
        BY <2>2, JiraAssumption DEF JiraInv, Posts
      <4>2. CASE wire.token # 0 /\ i > wire.token
        BY <3>2, <4>2 DEF Admits
      <4>3. CASE wire.token = 0 /\ wire.last = "false" /\ i \in jira.withheld
        <5>1. CASE command.op = "all"
          BY <4>3, <5>1
        <5>2. CASE command.op # "all"
          <6>1. truncated /\ token = 0
            BY <3>2, <4>3, <5>2, Zenon DEF Admits
          <6>2. i > 0
            BY <4>1
          <6> QED BY <5>2, <6>1, <6>2
        <5> QED BY <5>1, <5>2
      <4> QED BY <2>3, <4>2, <4>3
    <3>6. /\ client'.got \in Seq(Nat)
          /\ \A i, j \in DOMAIN client'.got : client'.got[i] = client'.got[j] => i = j
          /\ Told(client'.got, truncated, token)
      BY <2>3, <3>3, <3>7 DEF Told
    <3> QED BY <1>1, <1>2, <3>2, <3>3, <3>4, <3>5, <3>6, ExitsDiffer, DoneStep, Zenon
  <2> QED BY <2>1, <2>5, <2>6
<1> QED
  <2>1. CASE ~Ok
    <3>1. Fails("status")
      BY <2>1 DEF SearchAnswered
    <3> QED BY <3>1, <1>3
  <2>2. CASE Ok /\ wire.body # "ok"
    <3>1. Fails("decode")
      BY <2>2 DEF SearchAnswered
    <3> QED BY <3>1, <1>3
  <2> QED BY <2>1, <2>2, <1>3, <1>4

LEMMA ListStep == JiraInv /\ ListAnswered => JiraInv'
<1> SUFFICES ASSUME JiraInv, ListAnswered PROVE JiraInv'
  OBVIOUS
<1>1. /\ Answered /\ wire.kind = "list" /\ wire' = NoWire /\ UNCHANGED <<command, jira, stable>>
      /\ client.stage = "wait" /\ wire.at = "client"
      /\ command.op = "transition" /\ client.page = 0 /\ jira.writes = 0
  <2>1. Answered /\ wire.kind = "list" /\ wire' = NoWire /\ UNCHANGED <<command, jira, stable>>
    BY DEF ListAnswered
  <2>2. client.stage = "wait" /\ wire.at = "client" /\ command.op = "transition" /\ client.page = 0
    BY <2>1, KindsTell
  <2>3. jira.writes = 0
    BY <2>1, <2>2 DEF JiraInv, Acts
  <2> QED BY <2>1, <2>2, <2>3, Zenon
<1>2. limits' = <<limits'[1], limits'[2]>> /\ limits'[1] \in Nat /\ limits'[2] \in Nat /\ limits'[1] = limits'[2]
  BY <1>1, AllReported, Zenon
<1>3. CASE \E why : Fails(why)
  <2>1. PICK why : Fails(why)
    BY <1>3
  <2> QED BY <1>1, <1>2, <2>1, FailStep, Zenon
<1>4. CASE /\ Ok /\ Pick(wire.offers) # 0
           /\ client' = [client EXCEPT !.stage = "send", !.page = 1, !.cursor = Pick(wire.offers)]
           /\ UNCHANGED told
  <2>1. Pick(wire.offers) = 1
    <3> DEFINE fitting == {i \in DOMAIN wire.offers : wire.offers[i].to = Wanted}
    <3>1. fitting # {} /\ Pick(wire.offers) = wire.offers[Least(fitting)].id
      BY <1>4 DEF Pick
    <3>2. PICK s \in DOMAIN Offers : wire.offers = Offers[s]
      <4>1. wire.offers = <<>> \/ \E s \in DOMAIN Offers : wire.offers = Offers[s]
        BY <1>1, <1>4 DEF JiraInv, Acts, Ok
      <4>2. wire.offers # <<>>
        BY <3>1
      <4> QED BY <4>1, <4>2
    <3>3. fitting \in SUBSET Nat
      <4>1. \A r \in DOMAIN Offers : DOMAIN Offers[r] \subseteq Nat
        BY DEF Offers
      <4> QED BY <3>2, <4>1
    <3>4. Least(fitting) \in fitting
      BY <3>1, <3>3, LeastIn
    <3> QED BY <3>1, <3>2, <3>4, OnlyOneLeads
  <2>2. client' = [stage |-> "send", page |-> 1, cursor |-> 1, got |-> client.got]
    BY <1>4, <2>1 DEF JiraInv, Posts
  <2>3. /\ client'.stage = "send" /\ client'.page = 1 /\ client'.cursor = 1 /\ client'.got = client.got
        /\ wire'.at = "nowhere" /\ "at" \in DOMAIN wire'
    BY <1>1, <2>2 DEF NoWire
  <2>4. told = Untold /\ told' = Untold /\ client.got \in Seq(Nat)
    BY <1>1, <1>4 DEF JiraInv, Posts
  <2>5. Posts'
    <3>1. client' = [stage |-> client'.stage, page |-> client'.page, cursor |-> client'.cursor, got |-> client'.got]
      BY <2>2, <2>3, Zenon
    <3> QED BY <1>1, <2>3, <2>4, <3>1 DEF JiraInv, Posts
  <2>6. Readings'
    <3>1. told'.exit # 3
      <4>1. told'.exit = 9
        BY <2>4, Zenon DEF Untold
      <4> QED BY <4>1, ExitsDiffer, Zenon
    <3> QED BY <1>2, <2>3, <3>1 DEF Readings
  <2>7. Acts'
    BY <1>1, <2>3 DEF Acts
  <2>8. Covers'
    BY <1>1 DEF Covers, Searches
  <2> QED BY <2>5, <2>6, <2>7, <2>8 DEF JiraInv
<1> QED
  <2>1. CASE ~Ok
    <3>1. Fails(Refused)
      BY <2>1 DEF ListAnswered
    <3> QED BY <3>1, <1>3
  <2>2. CASE Ok /\ wire.body = "garbled"
    <3>1. Fails("decode")
      BY <2>2 DEF ListAnswered
    <3> QED BY <3>1, <1>3
  <2>3. CASE Ok /\ wire.body # "garbled"
    <3>1. \/ Fails("no transition")
          \/ /\ Pick(wire.offers) # 0
             /\ client' = [client EXCEPT !.stage = "send", !.page = 1, !.cursor = Pick(wire.offers)]
             /\ UNCHANGED told
      BY <2>3 DEF ListAnswered
    <3> QED BY <3>1, <2>3, <1>3, <1>4
  <2> QED BY <2>1, <2>2, <2>3

\* A command that succeeds with its last answer.
LEMMA SucceedStep ==
  ASSUME JiraInv, client.stage = "wait", wire' = NoWire, UNCHANGED <<command, jira, stable>>,
         limits' = <<limits'[1], limits'[2]>>, limits'[1] \in Nat, limits'[2] \in Nat, limits'[1] = limits'[2],
         NEW exit, NEW why, End(exit, why, FALSE, 0), exit # 3, ~Searches,
         command.op \in Writes =>
           why = "" /\ jira.writes = 1 /\ (command.op = "transition" => jira.moved = Wanted)
  PROVE  JiraInv'
<1> DEFINE got == IF exit = 0 THEN client.got ELSE <<>>
<1>1. /\ told' = [exit |-> exit, why |-> why, truncated |-> FALSE, token |-> 0]
      /\ client' = [stage |-> "done", page |-> client.page, cursor |-> client.cursor, got |-> got]
  BY EndTells DEF JiraInv
<1> HIDE DEF got
<1>2. client'.page = client.page /\ client'.cursor = client.cursor /\ client'.got = got /\ client'.stage = "done"
  BY <1>1
<1>3. client' = [stage |-> "done", page |-> client'.page, cursor |-> client'.cursor, got |-> client'.got]
  BY <1>1, <1>2, Zenon
<1>4. client.page \in Nat
  BY Zenon DEF JiraInv, Posts
<1>5. why = "" => ~(why \notin {"", "transport", "decode", "no key"})
  OBVIOUS
<1>6. command.op \in Writes =>
        /\ exit = 0 => jira.writes = 1
        /\ exit = 0 /\ command.op = "transition" => jira.moved = Wanted
        /\ why \notin {"", "transport", "decode", "no key"} => jira.writes = 0
  BY <1>5, Zenon
<1> QED BY <1>1, <1>2, <1>3, <1>4, <1>6, DoneStep, Zenon

LEMMA SingleStep ==
  ASSUME JiraInv, NEW kind \in {"get", "create", "comment", "move"}, NEW decoded, NEW keyed,
         Single(kind, decoded, keyed)
  PROVE  JiraInv'
<1>1. /\ Answered /\ wire.kind = kind /\ wire' = NoWire /\ UNCHANGED <<command, jira, stable>>
      /\ client.stage = "wait" /\ wire.at = "client" /\ ~Searches
      /\ command.op \in Writes => wire.kind \in {"create", "comment", "move"}
      /\ command.op = "transition" => wire.kind = "move"
  BY KindsTell DEF Single, Writes, Searches
<1>2. limits' = <<limits'[1], limits'[2]>> /\ limits'[1] \in Nat /\ limits'[2] \in Nat /\ limits'[1] = limits'[2]
  BY <1>1, AllReported, Zenon
<1>3. CASE ~Ok
  <2>1. Fails(Refused)
    BY <1>3 DEF Single
  <2>2. jira.writes = 0
    BY <1>1, <1>3 DEF JiraInv, Acts, Ok
  <2> QED BY <1>1, <1>2, <2>1, <2>2, FailStep, Zenon
<1>4. CASE Fails("decode")
  BY <1>1, <1>2, <1>4, FailStep
<1>5. CASE Fails("no key")
  BY <1>1, <1>2, <1>5, FailStep
<1>6. CASE Ok /\ End(0, "", FALSE, 0)
  <2>1. command.op \in Writes => jira.writes = 1 /\ (command.op = "transition" => jira.moved = Wanted)
    BY <1>1, <1>6 DEF JiraInv, Acts, Ok
  <2> QED BY <1>1, <1>2, <1>6, <2>1, ExitsDiffer, SucceedStep, Zenon
<1> QED
  <2>1. CASE Ok /\ decoded /\ wire.body = "garbled"
    <3>1. Fails("decode")
      BY <2>1 DEF Single
    <3> QED BY <3>1, <1>4
  <2>2. CASE Ok /\ ~(decoded /\ wire.body = "garbled")
    <3>1. Fails("no key") \/ End(0, "", FALSE, 0)
      BY <2>2 DEF Single
    <3> QED BY <2>2, <3>1, <1>5, <1>6
  <2> QED BY <2>1, <2>2, <1>3

LEMMA AuthStep == JiraInv /\ AuthAnswered => JiraInv'
<1> SUFFICES ASSUME JiraInv, AuthAnswered PROVE JiraInv'
  OBVIOUS
<1>1. /\ Answered /\ wire.kind = "myself" /\ wire' = NoWire /\ UNCHANGED <<command, jira, stable>>
      /\ client.stage = "wait" /\ command.op \notin Writes /\ ~Searches
  BY KindsTell DEF AuthAnswered, Writes, Searches
<1>2. limits' = <<limits'[1], limits'[2]>> /\ limits'[1] \in Nat /\ limits'[2] \in Nat /\ limits'[1] = limits'[2]
  BY <1>1, AllReported, Zenon
<1>3. PICK exit \in {0, 1, 4, 5} : \E why : End(exit, why, FALSE, 0)
  <2>1. AuthState \in {"ok", "unauthenticated", "forbidden", "error"}
    BY DEF AuthState
  <2> QED BY <2>1 DEF AuthAnswered, Fails
<1>4. exit # 3
  <2>1. \A e \in {0, 1, 4, 5} : e # 3
    OBVIOUS
  <2> QED BY <2>1, Zenon
<1>5. PICK why : End(exit, why, FALSE, 0)
  BY <1>3
<1> QED BY <1>1, <1>2, <1>4, <1>5, SucceedStep, Zenon

LEMMA JiraStep == JiraInv /\ [JiraNext]_jiraVars => JiraInv'
<1> SUFFICES ASSUME JiraInv, [JiraNext]_jiraVars PROVE JiraInv'
  OBVIOUS
<1>1. CASE UNCHANGED jiraVars
  <2>1. /\ command' = command /\ client' = client /\ wire' = wire /\ jira' = jira
        /\ told' = told /\ limits' = limits /\ stable' = stable
    BY <1>1 DEF jiraVars
  <2>2. Posts'
    BY <2>1 DEF JiraInv, Posts, Kind
  <2>3. Readings'
    BY <2>1, Zenon DEF JiraInv, Readings
  <2>4. Acts'
    BY <2>1 DEF JiraInv, Acts
  <2>5. Covers'
    BY <2>1 DEF JiraInv, Covers, Passed, Page, Told, Searches
  <2> QED BY <2>2, <2>3, <2>4, <2>5 DEF JiraInv
<1>2. CASE GetAnswered \/ CreateAnswered \/ CommentAnswered \/ MoveAnswered
  BY <1>2, SingleStep DEF GetAnswered, CreateAnswered, CommentAnswered, MoveAnswered
<1>3. CASE Begin \/ Send \/ ServerActs \/ ServerWithholds \/ ServerRefuses \/ RequestLost \/ Transport
  BY <1>3, BeginStep, SendStep, ActsStep, WithholdsStep, RefusesStep, RequestLostStep, TransportStep
<1>4. CASE SearchAnswered \/ ListAnswered \/ AuthAnswered \/ OthersEdit
  BY <1>4, SearchStep, ListStep, AuthStep, OthersStep
<1> QED BY <1>1, <1>2, <1>3, <1>4, Zenon DEF JiraNext

\* A write of pjira happens at most once and what the command says of it is so,
\* whichever request or reply is lost and whatever others do to the issue: a
\* success has been written, and into the state asked for; a refusal has not.
\* Each rate-limited response is reported.
THEOREM WritesReported == JiraInit /\ [][JiraNext]_jiraVars => []WritesAreReported
<1>1. JiraInv => WritesAreReported
  BY DEF JiraInv, Posts, Readings, Acts, WritesAreReported
<1> QED BY JiraInitInv, JiraStep, <1>1, PTL

\* A search, of one page or of any number of them, with hits that come and go, re-
\* turns each hit that stayed once, but for what it says is left and, with --all,
\* what a server withholds that gives no token.
THEOREM SearchReturnsAll == JiraInit /\ [][JiraNext]_jiraVars => []SearchIsComplete
<1>1. ASSUME JiraInv PROVE SearchIsComplete
  <2> DEFINE found == {client.got[i] : i \in DOMAIN client.got}
  <2> SUFFICES ASSUME client.stage = "done", told.exit = 0, Searches
               PROVE  /\ Cardinality(found) = Len(client.got)
                      /\ \A i \in stable \ found :
                           \/ told.truncated /\ i > told.token /\ (command.op = "all" => told.token # 0)
                           \/ command.op = "all" /\ i \in jira.withheld
    BY DEF SearchIsComplete
  <2>1. /\ client.got \in Seq(Nat)
        /\ \A i, j \in DOMAIN client.got : client.got[i] = client.got[j] => i = j
        /\ Told(client.got, told.truncated, told.token)
    BY <1>1 DEF JiraInv, Covers
  <2>2. In(client.got) = found
    BY DEF In
  <2>3. Cardinality(found) = Len(client.got)
    <3> DEFINE n == Len(client.got)  f == [i \in 1..n |-> client.got[i]]
    <3>1. n \in Nat /\ DOMAIN client.got = 1..n
      BY <2>1
    <3>2. f \in Bijection(1..n, found)
      <4>1. \A i, j \in 1..n : f[i] = f[j] => i = j
        BY <2>1, <3>1
      <4>2. f \in [1..n -> found] /\ \A y \in found : \E i \in 1..n : f[i] = y
        BY <3>1
      <4> QED BY <4>1, <4>2, Zenon DEF Bijection, Injection, Surjection, IsInjective
    <3>3. ExistsBijection(1..n, found)
      BY <3>2, Zenon DEF ExistsBijection
    <3> QED BY <3>1, <3>3, FS_CountingElements
  <2> QED BY <2>1, <2>2, <2>3 DEF Told
<1>2. JiraInv => SearchIsComplete
  BY <1>1
<1> QED BY JiraInitInv, JiraStep, <1>2, PTL

-----------------------------------------------------------------------------
(* The text of an issue and the document it is posted as.                  *)

\* Induction, over a set of numbers.
LEMMA EveryNumber ==
  ASSUME NEW S \in SUBSET Nat, 0 \in S, \A n \in S : n + 1 \in S
  PROVE  \A n \in Nat : n \in S
<1> SUFFICES ASSUME Nat \ S # {}  PROVE FALSE
  OBVIOUS
<1> DEFINE m == Least(Nat \ S)
<1>1. m \in Nat \ S /\ \A j \in Nat \ S : m <= j
  BY LeastIn
<1> HIDE DEF m
<1>2. m # 0 /\ m - 1 \in Nat
  BY <1>1
<1>3. m - 1 \in S
  BY <1>1, <1>2
<1> QED BY <1>1, <1>3

\* f goes n steps from b, each with a function of its own.
Along(f, n, b, step) == f[0] = b /\ \A i \in 1 .. n : f[i] = step[i][f[i - 1]]

\* What grows with the prefixes of a sequence of n elements exists.
LEMMA GrowsAlong ==
  ASSUME NEW n \in Nat, NEW S, NEW b \in S, NEW step \in [1 .. n -> [S -> S]]
  PROVE  \E f \in [0 .. n -> S] : Along(f, n, b, step)
<1> DEFINE Upto(m, f) == f[0] = b /\ \A i \in 1 .. m : f[i] = step[i][f[i - 1]]
           Fine == {m \in Nat : m <= n => \E f \in [0 .. m -> S] : Upto(m, f)}
<1>1. 0 \in Fine
  <2> DEFINE f == [i \in 0 .. 0 |-> b]
  <2>1. f \in [0 .. 0 -> S] /\ Upto(0, f)
    OBVIOUS
  <2> HIDE DEF f, Upto
  <2> QED BY <2>1
<1>2. ASSUME NEW m \in Fine  PROVE m + 1 \in Fine
  <2>0. m \in Nat
    OBVIOUS
  <2>1. ASSUME m + 1 <= n  PROVE \E f \in [0 .. m + 1 -> S] : Upto(m + 1, f)
    <3>1. PICK f \in [0 .. m -> S] : Upto(m, f)
      <4> HIDE DEF Upto
      <4> QED BY <2>0, <2>1
    <3> DEFINE g == [i \in 0 .. m + 1 |-> IF i = m + 1 THEN step[m + 1][f[m]] ELSE f[i]]
    <3>2. m + 1 \in 1 .. n /\ m \in 0 .. m /\ f[m] \in S
      BY <2>0, <2>1
    <3>3. step[m + 1][f[m]] \in S
      BY <3>2
    <3>4. g \in [0 .. m + 1 -> S] /\ g[m + 1] = step[m + 1][f[m]] /\ \A i \in 0 .. m : g[i] = f[i]
      BY <2>0, <3>3
    <3> HIDE DEF g
    <3>5. ASSUME NEW i \in 1 .. m + 1  PROVE g[i] = step[i][g[i - 1]]
      <4>1. i - 1 \in 0 .. m
        BY <2>0
      <4>2. CASE i = m + 1
        <5>1. i - 1 = m
          BY <4>2, <2>0
        <5> QED BY <5>1, <4>1, <4>2, <3>4
      <4>3. CASE i # m + 1
        <5>1. i \in 1 .. m /\ i \in 0 .. m
          BY <4>3, <2>0
        <5> QED BY <5>1, <4>1, <3>1, <3>4
      <4> QED BY <4>2, <4>3
    <3>6. g[0] = b
      BY <2>0, <3>1, <3>4
    <3> QED BY <3>4, <3>5, <3>6
  <2> HIDE DEF Upto
  <2> QED BY <2>0, <2>1
<1>3. n \in Fine
  <2>1. Fine \in SUBSET Nat
    OBVIOUS
  <2> HIDE DEF Fine
  <2> QED BY <2>1, <1>1, <1>2, EveryNumber
<1> QED BY <1>3 DEF Along

\* Documents: paragraphs of characters, at least one.
Docs(Chars) == {d \in Seq(Seq(Chars)) : d # <<>>}

\* The paragraphs of the first n characters.
Encodes(text, doc) ==
  doc = [n \in 0 .. Len(text) |->
           IF n = 0 THEN <<<<>>>>
           ELSE IF text[n] = "nl" THEN Append(doc[n - 1], <<>>)
           ELSE Append(Front(doc[n - 1]), Append(Last(doc[n - 1]), text[n]))]

\* The document is what the last of them is.
LEMMA EncodeUnfolds ==
  ASSUME NEW Chars, NEW text \in Seq(Chars)
  PROVE  \E doc \in [0 .. Len(text) -> Docs(Chars)] :
           Encodes(text, doc) /\ EncodeADFText(text) = doc[Len(text)]
<1> DEFINE n == Len(text)  S == Docs(Chars)
           Grow(i, d) == IF text[i] = "nl" THEN Append(d, <<>>)
                         ELSE Append(Front(d), Append(Last(d), text[i]))
           step == [i \in 1 .. n |-> [d \in S |-> Grow(i, d)]]
           none == <<<<>>>>
<1>1. n \in Nat /\ <<<<>>>> \in S
  BY DEF Docs
<1>2. ASSUME NEW i \in 1 .. n, NEW d \in S  PROVE Grow(i, d) \in S
  <2> DEFINE P == Seq(Chars)
  <2>1. text[i] \in Chars
    OBVIOUS
  <2>2. d \in Seq(P) /\ d # <<>> /\ <<>> \in P
    BY DEF Docs
  <2>3. ASSUME NEW p \in P  PROVE Append(p, text[i]) \in P
    BY <2>1
  <2> HIDE DEF P
  <2>4. Last(d) \in P /\ Front(d) \in Seq(P)
    BY <2>2 DEF Last, Front
  <2>5. Append(d, <<>>) \in Seq(P) /\ Append(d, <<>>) # <<>>
    BY <2>2
  <2>6. \A p \in P : Append(Front(d), p) \in Seq(P) /\ Append(Front(d), p) # <<>>
    BY <2>4
  <2> QED BY <2>2, <2>3, <2>4, <2>5, <2>6 DEF Docs, P
<1>3. step \in [1 .. n -> [S -> S]]
  <2> HIDE DEF Grow, S
  <2> QED BY <1>2
<1>4. PICK f \in [0 .. n -> S] : Along(f, n, none, step)
  <2>1. n \in Nat /\ none \in S
    BY <1>1
  <2> HIDE DEF step, n, S, none
  <2> QED BY ONLY <2>1, <1>3, GrowsAlong
<1>5. f[0] = none /\ \A i \in 1 .. n : f[i] = Grow(i, f[i - 1])
  <2>1. \A i \in 1 .. n : i - 1 \in 0 .. n
    BY <1>1
  <2> HIDE DEF Grow, S, none
  <2> QED BY <2>1, <1>4 DEF Along
<1>6. Encodes(text, f)
  <2>1. \A i \in 0 .. n : i = 0 \/ i \in 1 .. n
    BY <1>1
  <2> HIDE DEF step
  <2> QED BY <2>1, <1>5 DEF Encodes
<1>7. ASSUME NEW doc, Encodes(text, doc)  PROVE doc \in [0 .. n -> S]
  <2> DEFINE Same == {i \in Nat : i <= n => doc[i] = f[i]}
  <2>1. doc[0] = <<<<>>>>
    BY <1>1, <1>7 DEF Encodes
  <2>2. ASSUME NEW i \in 1 .. n  PROVE doc[i] = Grow(i, doc[i - 1])
    <3>1. i \in 0 .. Len(text) /\ i # 0
      BY <1>1
    <3> QED BY <3>1, <1>7, Zenon DEF Encodes
  <2>3. \A i \in Nat : i \in Same
    <3>1. 0 \in Same
      BY <2>1, <1>5
    <3>2. ASSUME NEW i \in Same  PROVE i + 1 \in Same
      <4>1. CASE i + 1 <= n
        <5>1. i + 1 \in 1 .. n /\ (i + 1) - 1 = i /\ doc[i] = f[i]
          BY <4>1, <1>1
        <5> HIDE DEF Grow
        <5>2. doc[i + 1] = Grow(i + 1, doc[i]) /\ f[i + 1] = Grow(i + 1, f[i])
          BY <5>1, <2>2, <1>5
        <5> QED BY <5>1, <5>2
      <4> QED BY <4>1, <1>1
    <3>3. Same \in SUBSET Nat
      OBVIOUS
    <3> HIDE DEF Same
    <3> QED BY <3>1, <3>2, <3>3, EveryNumber
  <2>4. DOMAIN doc = 0 .. n /\ doc = [i \in 0 .. n |-> doc[i]]
    BY <1>7 DEF Encodes
  <2>5. \A i \in 0 .. n : doc[i] \in S
    BY <2>3, <1>1
  <2> HIDE DEF S
  <2> QED BY <2>4, <2>5
<1> DEFINE doc == CHOOSE doc : Encodes(text, doc)
<1>8. EncodeADFText(text) = doc[Len(text)]
  BY DEF EncodeADFText, Encodes
<1>9. Encodes(text, doc)
  <2> HIDE DEF n, S
  <2> QED BY <1>6
<1> HIDE DEF doc
<1>10. doc \in [0 .. n -> S]
  <2> HIDE DEF n, S
  <2> QED BY <1>9, <1>7
<1> QED BY <1>8, <1>9, <1>10

\* What WalkADF has written after n paragraphs.
Walks(doc, text) ==
  text = [n \in 0 .. Len(doc) |->
            IF n = 0 THEN <<>> ELSE Append(text[n - 1] \o doc[n], "nl")]

\* What WalkADF writes is the last of the texts that it writes along the way.
LEMMA WalkUnfolds ==
  ASSUME NEW Chars, "nl" \in Chars, NEW doc \in Seq(Seq(Chars))
  PROVE  \E text \in [0 .. Len(doc) -> Seq(Chars)] :
           Walks(doc, text) /\ WalkADF(doc) = text[Len(doc)]
<1> DEFINE n == Len(doc)  S == Seq(Chars)  none == <<>>
           Grow(i, t) == Append(t \o doc[i], "nl")
           step == [i \in 1 .. n |-> [t \in S |-> Grow(i, t)]]
<1>1. n \in Nat /\ none \in S
  OBVIOUS
<1>2. ASSUME NEW i \in 1 .. n, NEW t \in S  PROVE Grow(i, t) \in S
  <2>1. doc[i] \in Seq(Chars)
    OBVIOUS
  <2> QED BY <2>1
<1>3. step \in [1 .. n -> [S -> S]]
  <2> HIDE DEF Grow, S
  <2> QED BY <1>2
<1>4. PICK f \in [0 .. n -> S] : Along(f, n, none, step)
  <2> HIDE DEF step, n, S, none
  <2> QED BY ONLY <1>1, <1>3, GrowsAlong
<1>5. f[0] = none /\ \A i \in 1 .. n : f[i] = Grow(i, f[i - 1])
  <2>1. \A i \in 1 .. n : i - 1 \in 0 .. n
    BY <1>1
  <2> HIDE DEF Grow, S, none
  <2> QED BY <2>1, <1>4 DEF Along
<1>6. Walks(doc, f)
  <2>1. \A i \in 0 .. n : i = 0 \/ i \in 1 .. n
    BY <1>1
  <2> HIDE DEF step
  <2> QED BY <2>1, <1>5 DEF Walks
<1> DEFINE text == CHOOSE text : Walks(doc, text)
<1>7. WalkADF(doc) = text[Len(doc)]
  BY DEF WalkADF, Walks
<1>8. Walks(doc, text)
  <2> HIDE DEF n, S
  <2> QED BY <1>6
<1> HIDE DEF text
<1>9. text \in [0 .. n -> S]
  <2> DEFINE Typed == {i \in Nat : i <= n => text[i] \in S}
  <2>1. text[0] = <<>>
    BY <1>1, <1>8 DEF Walks
  <2>2. ASSUME NEW i \in 1 .. n  PROVE text[i] = Grow(i, text[i - 1])
    <3>1. i \in 0 .. Len(doc) /\ i # 0
      BY <1>1
    <3> QED BY <3>1, <1>8, Zenon DEF Walks
  <2>3. \A i \in Nat : i \in Typed
    <3>1. 0 \in Typed
      BY <1>1, <2>1
    <3>2. ASSUME NEW i \in Typed  PROVE i + 1 \in Typed
      <4>1. CASE i + 1 <= n
        <5>1. i + 1 \in 1 .. n /\ (i + 1) - 1 = i /\ text[i] \in S
          BY <4>1, <1>1
        <5> HIDE DEF Grow, S
        <5> QED BY <5>1, <2>2, <1>2
      <4> QED BY <4>1, <1>1
    <3>3. Typed \in SUBSET Nat
      OBVIOUS
    <3> HIDE DEF Typed
    <3> QED BY <3>1, <3>2, <3>3, EveryNumber
  <2>4. text = [i \in 0 .. n |-> text[i]]
    BY <1>8 DEF Walks
  <2>5. \A i \in 0 .. n : text[i] \in S
    BY <2>3, <1>1
  <2> HIDE DEF S
  <2> QED BY <2>4, <2>5
<1> QED BY <1>7, <1>8, <1>9

\* A paragraph more: what was written before stays, and the paragraph follows.
LEMMA WalkAppends ==
  ASSUME NEW Chars, "nl" \in Chars, NEW doc \in Seq(Seq(Chars)), NEW p \in Seq(Chars)
  PROVE  /\ WalkADF(doc) \in Seq(Chars)
         /\ WalkADF(Append(doc, p)) = Append(WalkADF(doc) \o p, "nl")
<1> DEFINE n == Len(doc)  more == Append(doc, p)
<1>1. n \in Nat /\ more \in Seq(Seq(Chars)) /\ Len(more) = n + 1 /\ more[n + 1] = p
      /\ \A i \in 1 .. n : more[i] = doc[i]
  <2> DEFINE P == Seq(Chars)
  <2> HIDE DEF P
  <2>1. doc \in Seq(P) /\ p \in P
    BY DEF P
  <2> QED BY <2>1 DEF P
<1>2. PICK f \in [0 .. n -> Seq(Chars)] : Walks(doc, f) /\ WalkADF(doc) = f[n]
  BY WalkUnfolds
<1> HIDE DEF more
<1>3. PICK g \in [0 .. Len(more) -> Seq(Chars)] : Walks(more, g) /\ WalkADF(more) = g[Len(more)]
  BY <1>1, WalkUnfolds
<1>4. \A i \in Nat : i <= n => f[i] = g[i]
  <2> DEFINE Same == {i \in Nat : i <= n => f[i] = g[i]}
  <2>1. 0 \in Same
    BY <1>1, <1>2, <1>3 DEF Walks
  <2>2. ASSUME NEW i \in Same, i + 1 <= n  PROVE f[i + 1] = g[i + 1]
    <3>1. i + 1 \in 0 .. n /\ i + 1 \in 0 .. Len(more) /\ i + 1 # 0 /\ (i + 1) - 1 = i /\ f[i] = g[i]
          /\ more[i + 1] = doc[i + 1]
      BY <1>1, <2>2
    <3>2. f[i + 1] = Append(f[i] \o doc[i + 1], "nl")
      BY <3>1, <1>2, Zenon DEF Walks
    <3>3. g[i + 1] = Append(g[i] \o more[i + 1], "nl")
      BY <3>1, <1>3, Zenon DEF Walks
    <3> QED BY <3>1, <3>2, <3>3
  <2>3. ASSUME NEW i \in Same  PROVE i + 1 \in Same
    <3>1. i \in Nat /\ i + 1 \in Nat
      OBVIOUS
    <3>2. i + 1 <= n => f[i + 1] = g[i + 1]
      BY <2>2
    <3> QED BY <3>1, <3>2
  <2>4. Same \in SUBSET Nat
    OBVIOUS
  <2> HIDE DEF Same
  <2>5. \A i \in Nat : i \in Same
    BY <2>1, <2>3, <2>4, EveryNumber
  <2> QED BY <2>5 DEF Same
<1>5. f[n] = g[n] /\ f[n] \in Seq(Chars)
  <2>1. n <= n /\ n \in 0 .. n
    BY <1>1
  <2> HIDE DEF n
  <2> QED BY <2>1, <1>1, <1>2, <1>4
<1>6. g[n + 1] = Append(g[n] \o p, "nl")
  <2>1. n + 1 \in 0 .. Len(more) /\ n + 1 # 0 /\ (n + 1) - 1 = n
    BY <1>1
  <2> QED BY <2>1, <1>1, <1>3, Zenon DEF Walks
<1> QED BY <1>1, <1>2, <1>3, <1>5, <1>6 DEF more

\* Written out again, the document of a text is the text and a newline.
LEMMA WalkInvertsEncode ==
  ASSUME NEW Chars, "nl" \in Chars, NEW text \in Seq(Chars)
  PROVE  WalkADF(EncodeADFText(text)) = Append(text, "nl")
<1> DEFINE n == Len(text)  P == Seq(Chars)  upto(i) == SubSeq(text, 1, i)
<1>0. n \in Nat
  OBVIOUS
<1>1. PICK doc \in [0 .. n -> Docs(Chars)] :
        Encodes(text, doc) /\ EncodeADFText(text) = doc[n]
  BY EncodeUnfolds
<1>2. doc[0] = <<<<>>>>
  BY <1>0, <1>1 DEF Encodes
<1>3. ASSUME NEW i \in 1 .. n
      PROVE  doc[i] = IF text[i] = "nl" THEN Append(doc[i - 1], <<>>)
                      ELSE Append(Front(doc[i - 1]), Append(Last(doc[i - 1]), text[i]))
  <2>1. i \in 0 .. Len(text) /\ i # 0
    BY <1>0
  <2> QED BY <2>1, <1>1, Zenon DEF Encodes
<1> DEFINE Good == {i \in Nat : i <= n => WalkADF(doc[i]) = Append(upto(i), "nl")}
<1>4. 0 \in Good
  <2>1. <<>> \in Seq(P) /\ <<>> \in Seq(Chars) /\ Append(<<>>, <<>>) = <<<<>>>>
    OBVIOUS
  <2>2. WalkADF(<<<<>>>>) = Append(WalkADF(<<>>) \o <<>>, "nl")
    <3> HIDE DEF n
    <3> QED BY <2>1, WalkAppends
  <2>3. WalkADF(<<>>) = <<>>
    <3>1. PICK w \in [0 .. Len(<<>>) -> Seq(Chars)] : Walks(<<>>, w) /\ WalkADF(<<>>) = w[Len(<<>>)]
      BY <2>1, WalkUnfolds
    <3>2. Len(<<>>) = 0 /\ 0 \in 0 .. 0
      OBVIOUS
    <3> QED BY <3>1, <3>2 DEF Walks
  <2>4. upto(0) = <<>>
    OBVIOUS
  <2>5. Append(<<>> \o <<>>, "nl") = Append(<<>>, "nl")
    OBVIOUS
  <2> QED BY <1>2, <2>2, <2>3, <2>4, <2>5
<1>5. ASSUME NEW i \in Good, i + 1 <= n  PROVE WalkADF(doc[i + 1]) = Append(upto(i + 1), "nl")
  <2> DEFINE d == doc[i]  c == text[i + 1]
  <2>1. i \in Nat /\ i + 1 \in 1 .. n /\ (i + 1) - 1 = i /\ i \in 0 .. n
    BY <1>0, <1>5
  <2>2. WalkADF(d) = Append(upto(i), "nl") /\ d \in Seq(P) /\ d # <<>> /\ c \in Chars
    BY <1>0, <1>1, <1>5, <2>1 DEF Docs
  <2>3. upto(i) \in Seq(Chars) /\ upto(i + 1) = Append(upto(i), c)
    BY <1>0, <2>1
  <2>4. doc[i + 1] = IF c = "nl" THEN Append(d, <<>>) ELSE Append(Front(d), Append(Last(d), c))
    BY <2>1, <1>3
  <2> HIDE DEF d, c, upto
  <2>5. CASE c = "nl"
    <3>1. WalkADF(Append(d, <<>>)) = Append(WalkADF(d) \o <<>>, "nl")
      <4>1. <<>> \in Seq(Chars)
        OBVIOUS
      <4> QED BY <4>1, <2>2, WalkAppends
    <3>2. Append(upto(i), "nl") \o <<>> = Append(upto(i), "nl")
      BY <2>3
    <3> QED BY <2>2, <2>3, <2>4, <2>5, <3>1, <3>2
  <2>6. CASE c # "nl"
    <3> DEFINE a == Front(d)  l == Last(d)
    <3>1. a \in Seq(P) /\ l \in P /\ d = Append(a, l)
      BY <2>2 DEF Front, Last
    <3> HIDE DEF a, l
    <3>2. WalkADF(d) = Append(WalkADF(a) \o l, "nl") /\ WalkADF(a) \in Seq(Chars)
      BY <3>1, WalkAppends
    <3>3. WalkADF(Append(a, Append(l, c))) = Append(WalkADF(a) \o Append(l, c), "nl")
      <4>1. Append(l, c) \in Seq(Chars)
        BY <2>2, <3>1
      <4> QED BY <3>1, <4>1, WalkAppends
    <3> DEFINE w == WalkADF(a)
    <3>4. w \in Seq(Chars) /\ l \in Seq(Chars) /\ w \o l \in Seq(Chars)
      BY <3>1, <3>2
    <3> HIDE DEF w
    <3>5. w \o l = upto(i)
      <4>1. ASSUME NEW u \in Seq(Chars), NEW v \in Seq(Chars), Append(u, "nl") = Append(v, "nl")
            PROVE  u = v
        <5>1. Len(Append(u, "nl")) = Len(u) + 1 /\ Len(Append(v, "nl")) = Len(v) + 1
          OBVIOUS
        <5>2. Len(u) = Len(v)
          BY <5>1, <4>1
        <5>3. \A k \in 1 .. Len(u) : u[k] = Append(u, "nl")[k] /\ v[k] = Append(v, "nl")[k]
          BY <5>2
        <5> QED BY <5>2, <5>3, <4>1
      <4>2. Append(w \o l, "nl") = Append(upto(i), "nl")
        BY <2>2, <3>2 DEF w
      <4> QED BY <4>1, <4>2, <3>4, <2>3
    <3>6. w \o Append(l, c) = Append(w \o l, c)
      BY <3>4, <2>2
    <3>7. doc[i + 1] = Append(a, Append(l, c))
      BY <2>4, <2>6 DEF a, l
    <3> QED BY <3>3, <3>5, <3>6, <3>7, <2>3 DEF w
  <2> QED BY <2>5, <2>6
<1>6. \A i \in Good : i + 1 \in Good
  BY <1>5, <1>0
<1>7. Good \in SUBSET Nat
  OBVIOUS
<1>8. n \in Good
  <2> HIDE DEF Good
  <2> QED BY <1>0, <1>4, <1>6, <1>7, EveryNumber
<1>9. upto(n) = text
  OBVIOUS
<1> QED BY <1>0, <1>1, <1>8, <1>9

\* What Trim looks at, and what it leaves.
Solid(text) == {i \in DOMAIN text : ~Blank(text[i])}

\* A text has a first place and a last that Trim keeps.
LEMMA TrimBounds ==
  ASSUME NEW Chars, NEW text \in Seq(Chars), Solid(text) # {}
  PROVE  \E a, b \in Solid(text) :
           /\ \A i \in Solid(text) : a <= i /\ i <= b
           /\ Trim(text) = SubSeq(text, a, b)
<1> DEFINE S == Solid(text)  n == Len(text)
           First(i) == i \in S /\ \A j \in S : i <= j
           Final(i) == i \in S /\ \A j \in S : i >= j
           a == CHOOSE i \in S : \A j \in S : i <= j
           b == CHOOSE i \in S : \A j \in S : i >= j
<1>1. n \in Nat /\ S \subseteq 1 .. n
  BY DEF Solid
<1>2. \E i \in S : \A j \in S : i <= j
  <2>1. S \in SUBSET Nat /\ S # {}
    BY <1>1
  <2> HIDE DEF S
  <2> QED BY <2>1, LeastIn
<1>3. \E i \in S : \A j \in S : i >= j
  <2> DEFINE R == {n - i : i \in S}
  <2>1. R \subseteq Nat /\ R # {}
    BY <1>1
  <2>2. PICK m \in R : \A k \in R : m <= k
    <3> HIDE DEF R
    <3> QED BY <2>1, LeastIn
  <2>3. PICK i \in S : m = n - i
    BY <2>2
  <2>4. \A j \in S : n - i <= n - j
    BY <2>2, <2>3
  <2> QED BY <2>4, <1>1
<1>4. a \in S /\ \A j \in S : a <= j
  <2> HIDE DEF S
  <2> QED BY <1>2
<1>5. b \in S /\ \A j \in S : b >= j
  <2> HIDE DEF S
  <2> QED BY <1>3
<1>6. Trim(text) = SubSeq(text, a, b)
  BY DEF Trim, Solid
<1> HIDE DEF a, b
<1> QED BY <1>1, <1>4, <1>5, <1>6

\* Neither end of a trimmed text is blank.
Trimmed(text) == text # <<>> => ~Blank(text[1]) /\ ~Blank(text[Len(text)])

\* What Trim leaves has no blank at either end.
LEMMA TrimTrims ==
  ASSUME NEW Chars, NEW text \in Seq(Chars)
  PROVE  Trim(text) \in Seq(Chars) /\ Trimmed(Trim(text))
<1>1. CASE Solid(text) = {}
  <2>1. Trim(text) = <<>>
    BY <1>1, Zenon DEF Trim, Solid
  <2> QED BY <2>1 DEF Trimmed
<1>2. CASE Solid(text) # {}
  <2>1. PICK a, b \in Solid(text) :
          (\A i \in Solid(text) : a <= i /\ i <= b) /\ Trim(text) = SubSeq(text, a, b)
    BY <1>2, TrimBounds
  <2>2. a \in 1 .. Len(text) /\ b \in 1 .. Len(text) /\ a <= b /\ ~Blank(text[a]) /\ ~Blank(text[b])
    BY <2>1 DEF Solid
  <2> DEFINE t == SubSeq(text, a, b)
  <2>3. t \in Seq(Chars) /\ Len(t) = b - a + 1 /\ t[1] = text[a] /\ t[b - a + 1] = text[b]
    BY <2>2
  <2> HIDE DEF t
  <2> QED BY <2>1, <2>2, <2>3 DEF Trimmed, t
<1> QED BY <1>1, <1>2

\* A newline behind a trimmed text is all that Trim takes away.
LEMMA TrimDropsNewline ==
  ASSUME NEW Chars, "nl" \in Chars, NEW text \in Seq(Chars), Trimmed(text)
  PROVE  Trim(Append(text, "nl")) = text
<1> DEFINE n == Len(text)  t == Append(text, "nl")
<1>1. n \in Nat /\ t \in Seq(Chars) /\ Len(t) = n + 1 /\ t[n + 1] = "nl" /\ \A i \in 1 .. n : t[i] = text[i]
  OBVIOUS
<1> HIDE DEF t
<1>2. DOMAIN t = 1 .. n + 1 /\ n + 1 \notin Solid(t)
  <2>1. DOMAIN t = 1 .. n + 1
    BY <1>1
  <2>2. Blank(t[n + 1])
    BY <1>1 DEF Blank
  <2> QED BY <2>1, <2>2 DEF Solid
<1>3. CASE n = 0
  <2>1. Solid(t) = {}
    BY <1>2, <1>3 DEF Solid
  <2>2. text = <<>>
    BY <1>3
  <2> QED BY <2>1, <2>2, Zenon DEF Trim, Solid, t
<1>4. CASE n # 0
  <2>1. 1 \in Solid(t) /\ n \in Solid(t)
    <3>1. 1 \in 1 .. n /\ n \in 1 .. n /\ text # <<>>
      BY <1>1, <1>4
    <3> QED BY <3>1, <1>1, <1>2 DEF Solid, Trimmed
  <2>2. PICK a, b \in Solid(t) :
          (\A i \in Solid(t) : a <= i /\ i <= b) /\ Trim(t) = SubSeq(t, a, b)
    BY <2>1, <1>1, TrimBounds
  <2>3. a = 1 /\ b = n
    <3>1. a \in 1 .. n + 1 /\ b \in 1 .. n + 1 /\ b # n + 1
      BY <1>2 DEF Solid
    <3> QED BY <2>1, <2>2, <3>1, <1>1
  <2>4. SubSeq(t, 1, n) = text
    BY <1>1, <1>4 DEF t
  <2> QED BY <2>2, <2>3, <2>4 DEF t
<1> QED BY <1>3, <1>4

\* A text that is encoded and flattened is the text without the blanks around
\* it, whatever lines and empty lines it has.
THEOREM FlattenInvertsEncode ==
  ASSUME NEW Chars, NEW text \in Seq(Chars)
  PROVE  FlattenADF(EncodeADFText(Trim(text))) = Trim(text)
<1> DEFINE All == Chars \cup {"nl"}  t == Trim(text)
<1>1. "nl" \in All /\ text \in Seq(All)
  OBVIOUS
<1> HIDE DEF All
<1>2. t \in Seq(All) /\ Trimmed(t)
  BY <1>1, TrimTrims
<1> HIDE DEF t
<1>3. WalkADF(EncodeADFText(t)) = Append(t, "nl")
  BY <1>1, <1>2, WalkInvertsEncode
<1>4. Trim(Append(t, "nl")) = t
  BY <1>1, <1>2, TrimDropsNewline
<1> QED BY <1>3, <1>4 DEF FlattenADF, t

\* What is asked for is one of the commands, with a text.
LEMMA CommandsWrite == \A c \in Commands : c.body \in Seq(Letters)
<1> SUFFICES ASSUME NEW c \in Commands PROVE c.body \in Seq(Letters)
  OBVIOUS
<1>1. PICK o \in Ops : c \in Differing([Plain EXCEPT !.op = o])
  BY DEF Commands
<1> DEFINE d == [Plain EXCEPT !.op = o]
<1>2. /\ d.body = <<"x">>
      /\ DOMAIN d = {"op", "file", "env", "token", "args", "body"}
  BY DEF Plain
<1>3. <<"x">> \in Seq(Letters)
  BY DEF Letters
<1> HIDE DEF d
<1>4. ASSUME NEW e \in Differing(d)  PROVE e.body \in Seq(Letters)
  <2> DEFINE T == IF d.op \in {"create", "comment"} THEN Texts ELSE {<<"x">>}
  <2>1. \/ \E x \in T : e = [d EXCEPT !.body = x]
        \/ \E x : e = [d EXCEPT !.token = x]
        \/ \E x : e = [d EXCEPT !.file = x]
        \/ \E x : e = [d EXCEPT !.args = x]
        \/ \E x, y : e = [d EXCEPT !.file = x, !.env = y]
    BY Zenon DEF Differing
  <2>2. ASSUME NEW x, NEW y, e = [d EXCEPT !.file = x, !.env = y]  PROVE e.body = d.body
    BY <1>2, <2>2
  <2>3. ASSUME NEW x, \/ e = [d EXCEPT !.token = x]
                     \/ e = [d EXCEPT !.file = x] \/ e = [d EXCEPT !.args = x]
        PROVE  e.body = d.body
    BY <1>2, <2>3
  <2>4. ASSUME NEW x \in T, e = [d EXCEPT !.body = x]  PROVE e.body = x
    BY <1>2, <2>4
  <2>5. \A x \in T : x \in Seq(Letters)
    BY <1>3, JiraAssumption
  <2> HIDE DEF T
  <2> QED BY <1>2, <1>3, <2>1, <2>2, <2>3, <2>4, <2>5, Zenon
<1> QED BY <1>1, <1>4 DEF d

\* The text of the command is what goes out, and what the server keeps of it.
Letter == EncodeADFText(Trim(command.body))
Posted ==
  /\ command.body \in Seq(Letters)
  /\ wire.at = "server" => wire.body = Letter
  /\ jira.writes # 0 /\ command.op \in {"create", "comment"} => jira.posted = Letter

\* Nothing is posted at first.
LEMMA PostedInit == JiraInit => Posted
BY CommandsWrite DEF JiraInit, Posted, NoWire

\* A step that posts nothing.
LEMMA PostsNothing ==
  ASSUME Posted, UNCHANGED <<command, jira>>, wire' = wire \/ wire'.at # "server"
  PROVE  Posted'
BY DEF Posted, Letter

\* What is posted stays what the command asked for.
LEMMA PostedStep == JiraInv /\ Posted /\ [JiraNext]_jiraVars => Posted'
<1> SUFFICES ASSUME JiraInv, Posted, [JiraNext]_jiraVars PROVE Posted'
  OBVIOUS
<1>1. CASE UNCHANGED jiraVars \/ Begin
  <2>1. UNCHANGED <<command, jira, wire>>
    BY <1>1 DEF jiraVars, Begin
  <2> QED BY <2>1, PostsNothing
<1>2. CASE Send
  <2>1. UNCHANGED <<command, jira>> /\ wire'.body = Letter
    BY <1>2 DEF Send, Letter
  <2> QED BY <2>1 DEF Posted, Letter
<1>3. CASE ServerActs
  <2>1. wire.at = "server" /\ UNCHANGED command
    BY <1>3 DEF ServerActs
  <2> DEFINE Done(b, h, l) == IF l THEN [wire EXCEPT !.at = "lost"] ELSE Reply(200, b, h)
  <2>6. PICK b \in {"ok", "garbled", "keyless"}, h \in Headers, l \in BOOLEAN :
          /\ CASE wire.kind = "search" ->
                    /\ wire' = IF l \/ b # "ok" THEN Done(b, h, l) ELSE SearchReply(h)
                    /\ UNCHANGED jira
               [] wire.kind = "list" ->
                    /\ jira.status # "gone"
                    /\ wire' = IF l \/ b # "ok" THEN Done(b, h, l)
                               ELSE [Done(b, h, l) EXCEPT !.offers = Offers[jira.status]]
                    /\ UNCHANGED jira
               [] wire.kind = "move" ->
                    /\ Transitions(wire.arg) # {}
                    /\ wire' = Done(b, h, l)
                    /\ \E o \in Transitions(wire.arg) :
                         jira' = [jira EXCEPT !.status = o.to, !.writes = @ + 1, !.moved = o.to]
               [] wire.kind \in {"create", "comment"} ->
                    /\ wire.kind = "comment" => jira.status # "gone"
                    /\ wire' = Done(b, h, l)
                    /\ jira' = [jira EXCEPT !.writes = @ + 1, !.posted = wire.body]
               [] OTHER ->
                    /\ wire.kind = "get" => jira.status # "gone"
                    /\ wire' = Done(b, h, l) /\ UNCHANGED jira
          /\ limits' = IF l THEN limits ELSE Carried(h)
    BY <1>3 DEF ServerActs
  <2>2. wire'.at # "server"
    <3>1. Reply(200, b, h).at = "client" /\ SearchReply(h).at = "client"
          /\ [Reply(200, b, h) EXCEPT !.offers = Offers[jira.status]].at = "client"
      BY DEF SearchReply, Reply
    <3>2. [wire EXCEPT !.at = "lost"].at = "lost"
      BY DEF JiraInv, Posts
    <3>3. \/ wire' = [wire EXCEPT !.at = "lost"] \/ wire' = Reply(200, b, h) \/ wire' = SearchReply(h)
          \/ wire' = [Reply(200, b, h) EXCEPT !.offers = Offers[jira.status]]
      BY <2>6
    <3>4. wire'.at = "lost" \/ wire'.at = "client"
      BY <3>1, <3>2, <3>3, Zenon
    <3> QED BY <3>4
  <2>3. CASE wire.kind \in {"create", "comment"}
    <3>1. jira' = [jira EXCEPT !.writes = @ + 1, !.posted = wire.body]
      BY <2>3, <2>6
    <3>2. jira'.posted = wire.body
      BY <3>1 DEF JiraInv, Posts
    <3> QED BY <2>1, <2>2, <3>2 DEF Posted, Letter
  <2>4. CASE wire.kind = "move"
    <3>1. command.op \notin {"create", "comment"}
      <4>1. Kind = "move" /\ command.op \in Ops
        BY <2>1, <2>4 DEF JiraInv, Posts
      <4>2. \A p \in Ops : FirstRequest[p] # "move"
        BY DEF FirstRequest, Ops, Writes
      <4> QED BY <4>1, <4>2 DEF Kind
    <3> QED BY <2>1, <2>2, <3>1 DEF Posted, Letter
  <2>5. CASE wire.kind \notin {"create", "comment", "move"}
    <3>1. UNCHANGED jira
      BY <2>5, <2>6
    <3> QED BY <2>1, <2>2, <3>1, PostsNothing
  <2> QED BY <2>3, <2>4, <2>5
<1>4. CASE ServerRefuses \/ RequestLost
  <2>1. UNCHANGED <<command, jira>>
    BY <1>4 DEF ServerRefuses, RequestLost
  <2>2. wire'.at # "server"
    BY <1>4 DEF ServerRefuses, RequestLost, Reply, JiraInv, Posts
  <2> QED BY <2>1, <2>2, PostsNothing
<1>5. CASE Transport \/ SearchAnswered \/ ListAnswered \/ GetAnswered \/ CreateAnswered
           \/ CommentAnswered \/ MoveAnswered \/ AuthAnswered
  <2>1. UNCHANGED <<command, jira>> /\ wire' = NoWire
    BY <1>5 DEF Transport, SearchAnswered, ListAnswered, GetAnswered, CreateAnswered,
                CommentAnswered, MoveAnswered, AuthAnswered, Single
  <2>2. wire'.at # "server"
    BY <2>1 DEF NoWire
  <2> QED BY <2>1, <2>2, PostsNothing
<1>6. CASE OthersEdit
  <2>1. UNCHANGED <<command, wire>>
    BY <1>6 DEF OthersEdit
  <2>2. jira'.writes = jira.writes /\ jira'.posted = jira.posted
    BY <1>6 DEF OthersEdit, JiraInv, Posts
  <2> QED BY <2>1, <2>2 DEF Posted, Letter
<1>7. CASE ServerWithholds
  <2>1. wire'.at = "client" /\ UNCHANGED command
    BY <1>7 DEF ServerWithholds, SearchReply, Reply
  <2>2. jira'.writes = jira.writes /\ jira'.posted = jira.posted
    BY <1>7 DEF ServerWithholds, JiraInv, Posts
  <2> QED BY <2>1, <2>2 DEF Posted, Letter
<1> QED BY <1>1, <1>2, <1>3, <1>4, <1>5, <1>6, <1>7, Zenon DEF JiraNext

\* What a create or a comment has posted, when it reports success, reads back as
\* the text that was given, whatever lines and blanks it has, whatever others do
\* and whatever is lost on the way.
THEOREM TextsReadBack == JiraInit /\ [][JiraNext]_jiraVars => []TextReadsBack
<1>1. ASSUME JiraInv, Posted  PROVE TextReadsBack
  <2> SUFFICES ASSUME client.stage = "done", told.exit = 0, command.op \in {"create", "comment"}
               PROVE  FlattenADF(jira.posted) = Trim(command.body)
    BY DEF TextReadsBack
  <2>1. jira.writes = 1
    BY <1>1 DEF JiraInv, Acts, Writes
  <2>2. jira.posted = EncodeADFText(Trim(command.body)) /\ command.body \in Seq(Letters)
    BY <1>1, <2>1 DEF Posted, Letter
  <2> QED BY <2>2, FlattenInvertsEncode
<1>2. JiraInv /\ Posted => TextReadsBack
  BY <1>1
<1> QED BY JiraInitInv, JiraStep, PostedInit, PostedStep, <1>2, PTL

-----------------------------------------------------------------------------
(* The update in a worktree.  EditsKept with the type of the stash is       *)
(* inductive; TreeRestored and RelockArrives follow from UpdateInv, which   *)
(* says where edits and relock are at every step, and what the three        *)
(* rebases make of the branch.  Lemmas on Replay and IsPrefix come first.   *)

\* The types that the tree, the stash and the edits keep.
Types ==
    /\ tree \in EditKinds \cup {"clean", "conflict"}
    /\ stash \in Seq(EditKinds)
    /\ edits \subseteq EditKinds

Inv == Types /\ EditsKept

\* A pushed entry is in the stash, and the older ones still are.
LEMMA PushKeeps ==
    ASSUME NEW e \in EditKinds, NEW s \in Seq(EditKinds), NEW t \in EditKinds
    PROVE  /\ <<t>> \o s \in Seq(EditKinds)
           /\ Contains(<<t>> \o s, t)
           /\ Contains(s, e) => Contains(<<t>> \o s, e)
<1> DEFINE q == <<t>> \o s
<1>1. q \in Seq(EditKinds) /\ Len(q) = Len(s) + 1
  OBVIOUS
<1>2. q[1] = t /\ \A i \in 1..Len(s) : q[i + 1] = s[i]
  OBVIOUS
<1>3. Contains(q, t)
  BY <1>1, <1>2 DEF Contains
<1>4. ASSUME NEW i \in 1..Len(s), s[i] = e  PROVE Contains(q, e)
  <2>1. i + 1 \in 1..Len(q) /\ q[i + 1] = e
    BY <1>1, <1>2, <1>4
  <2> QED BY <2>1 DEF Contains
<1> QED BY <1>1, <1>3, <1>4 DEF Contains

\* What a pop takes off the stash is its head.
LEMMA PopKeeps ==
    ASSUME NEW e \in EditKinds, NEW s \in Seq(EditKinds), s # << >>
    PROVE  /\ Tail(s) \in Seq(EditKinds) /\ Head(s) \in EditKinds
           /\ Contains(s, e) => Head(s) = e \/ Contains(Tail(s), e)
<1>1. Tail(s) \in Seq(EditKinds) /\ Head(s) \in EditKinds /\ Len(Tail(s)) = Len(s) - 1
  OBVIOUS
<1>2. Head(s) = s[1] /\ \A i \in 1..Len(Tail(s)) : Tail(s)[i] = s[i + 1]
  OBVIOUS
<1>3. ASSUME NEW i \in 1..Len(s), s[i] = e, i # 1  PROVE Contains(Tail(s), e)
  <2>1. i - 1 \in 1..Len(Tail(s))
    BY <1>1, <1>3
  <2>2. Tail(s)[i - 1] = e
    BY <1>2, <1>3, <2>1
  <2> QED BY <2>1, <2>2 DEF Contains
<1> QED BY <1>1, <1>2, <1>3 DEF Contains

\* Steps that touch neither the tree nor the stash nor the edits.
LEMMA Untouched ==
    Inv /\ UNCHANGED <<tree, stash, edits>> => Inv'
BY DEF Inv, Types, EditsKept

LEMMA InitInv == Init => Inv
<1> SUFFICES ASSUME Init PROVE Inv
  OBVIOUS
<1>1. tree \in {"clean", "apart", "clash"} /\ stash \in {<< >>, <<"mine">>}
  BY DEF Init
<1>2. edits = ({tree} \ {"clean"}) \cup ToSet(stash)
  BY DEF Init
<1>3. Types
  <2>1. tree \in EditKinds \cup {"clean", "conflict"} /\ {tree} \ {"clean"} \subseteq EditKinds
    BY <1>1 DEF EditKinds
  <2>2. CASE stash = << >>
    <3>1. ToSet(stash) = {} /\ stash \in Seq(EditKinds)
      BY <2>2 DEF ToSet
    <3> QED BY <3>1, <2>1, <1>2 DEF Types
  <2>3. CASE stash = <<"mine">>
    <3>1. ToSet(stash) = {"mine"}
      BY <2>3 DEF ToSet
    <3>2. "mine" \in EditKinds
      BY DEF EditKinds
    <3>3. stash \in Seq(EditKinds)
      BY <2>3, <3>2
    <3> QED BY <3>1, <3>2, <3>3, <2>1, <1>2 DEF Types
  <2> QED BY <1>1, <2>2, <2>3
<1>4. ASSUME NEW e \in edits PROVE tree = e \/ Contains(stash, e)
  BY <1>1, <1>2, <1>4 DEF ToSet, Contains
<1> QED BY <1>3, <1>4 DEF Inv, EditsKept

LEMMA StepInv == Inv /\ [Next]_vars => Inv'
<1> SUFFICES ASSUME Inv, [Next]_vars PROVE Inv'
  OBVIOUS
<1> USE DEF Inv
<1>1. CASE UNCHANGED <<tree, stash, edits>>
  BY <1>1, Untouched
<1>2. CASE UserCommitsEdits
  BY <1>2 DEF UserCommitsEdits, Moves, Types, EditsKept, EditKinds
<1>3. CASE UserEdits
  BY <1>3 DEF UserEdits, Moves, Types, EditsKept, EditKinds
<1>4. CASE StashPush
  <2>1. edits' = edits
    BY <1>4 DEF StashPush, user
  <2>2. CASE tree = "clean"
    BY <2>1, <2>2, <1>4, Untouched DEF StashPush
  <2>3. CASE tree # "clean"
    <3>1. tree \in EditKinds /\ stash' = <<tree>> \o stash /\ tree' = "clean"
      BY <1>4, <2>3 DEF StashPush, Types
    <3>2. Types'
      BY <3>1, <2>1, PushKeeps DEF Types
    <3>3. ASSUME NEW e \in edits PROVE Contains(stash', e)
      <4>1. tree = e \/ Contains(stash, e)
        BY <3>3 DEF EditsKept
      <4> QED BY <4>1, <3>1, <3>3, PushKeeps DEF Types
    <3> QED BY <3>2, <3>3, <2>1 DEF EditsKept
  <2> QED BY <2>2, <2>3
<1>5. CASE StashPop
  <2>1. /\ edits' = edits /\ stash # << >> /\ tree = "clean"
        /\ tree' = Head(stash) /\ stash' = Tail(stash)
    BY <1>5 DEF StashPop, user
  <2>2. Types'
    BY <2>1, PopKeeps DEF Types, EditKinds
  <2>3. ASSUME NEW e \in edits PROVE tree' = e \/ Contains(stash', e)
    <3>1. e \in EditKinds /\ Contains(stash, e)
      BY <2>1, <2>3 DEF EditsKept, Types, EditKinds
    <3> QED BY <3>1, <2>1, PopKeeps DEF Types
  <2> QED BY <2>1, <2>2, <2>3 DEF EditsKept
<1>6. CASE StashPopFails
  <2>1. stash' = stash /\ edits' = edits /\ tree' \in {tree, "conflict"}
    BY <1>6 DEF StashPopFails, user
  <2>2. tree' # tree => tree = "clean"
    BY <1>6 DEF StashPopFails
  <2> QED BY <2>1, <2>2 DEF Types, EditsKept, EditKinds
<1>7. CASE UserCommits
  BY <1>7, Untouched DEF UserCommits
<1>8. CASE UserSwitches
  BY <1>8, Untouched DEF UserSwitches
<1>9. CASE OtherPushes
  BY <1>9, Untouched DEF OtherPushes, primary
<1>10. CASE WorktreeAdd \/ Fetch \/ Rebase \/ UpdateLocks \/ UpdateLocksFails \/ StepFails
  BY <1>10, Untouched
     DEF WorktreeAdd, Fetch, Rebase, UpdateLocks, UpdateLocksFails, StepFails, primary, user
<1>11. CASE Probe \/ ProbeFails \/ StashFails \/ CleanUp \/ CleanUpFails \/ Kill
  BY <1>11, Untouched DEF Probe, ProbeFails, StashFails, CleanUp, CleanUpFails, Kill, primary, user
<1>12. CASE Merge \/ ForwardRef \/ MergeDirty \/ Retry
  BY <1>12, Untouched DEF Merge, ForwardRef, MergeDirty, Retry, user
<1>13. CASE UNCHANGED vars
  BY <1>13, <1>1 DEF vars, primary, user
<1> QED
  BY <1>1, <1>2, <1>3, <1>4, <1>5, <1>6, <1>7, <1>8, <1>9, <1>10, <1>11, <1>12, <1>13
     DEF Next, UpdateStep

\* No edit of the user is ever in neither the tree nor the stash: whatever
\* fails, conflicts, is killed or is raced by the user between the stash push
\* and the pop of updateRepoViaWorktree.
THEOREM EditsSurvive == Spec => []EditsKept
<1>1. Inv => EditsKept
  BY DEF Inv
<1> QED BY <1>1, InitInv, StepInv, PTL DEF Spec
-----------------------------------------------------------------------------
(* Branches: sequences of patches.                                         *)

LEMMA Differ ==
    /\ Base # Local /\ Base # Remote /\ Base # Relock /\ Local # Remote
    /\ Local # Relock /\ Remote # Relock
<1> DEFINE t == <<Base, Local, Remote, Relock, Edits>>
<1>1. IsInjective(t) /\ DOMAIN t = 1..5
  BY ConstantsAssumption
<1>2. \A i, j \in 1..5 : t[i] = t[j] => i = j
  BY <1>1 DEF IsInjective
<1> QED BY <1>2

\* A prefix, position by position.
LEMMA PrefixPointwise ==
    ASSUME NEW s \in Seq(Patches), NEW t \in Seq(Patches)
    PROVE  IsPrefix(s, t) <=> Len(s) <= Len(t) /\ \A i \in 1..Len(s) : s[i] = t[i]
<1> DEFINE u == SubSeq(s, 1, Len(s))  v == SubSeq(t, 1, Len(s))
<1>1. SUFFICES ASSUME Len(s) <= Len(t) PROVE u = v <=> \A i \in 1..Len(s) : s[i] = t[i]
  BY DEF IsPrefix
<1>2. /\ u \in Seq(Patches) /\ Len(u) = Len(s)
      /\ \A i \in 1..Len(s) : u[i] = s[i]
  OBVIOUS
<1>3. /\ v \in Seq(Patches) /\ Len(v) = Len(s)
      /\ \A i \in 1..Len(s) : v[i] = t[i]
  BY <1>1
<1>4. u = v <=> \A i \in 1..Len(s) : u[i] = v[i]
  BY <1>2, <1>3
<1> QED BY <1>2, <1>3, <1>4

LEMMA PrefixContains ==
    ASSUME NEW s \in Seq(Patches), NEW t \in Seq(Patches), IsPrefix(s, t), NEW e, Contains(s, e)
    PROVE  Contains(t, e)
<1>1. PICK i \in 1..Len(s) : s[i] = e
  BY DEF Contains
<1>2. i \in 1..Len(t) /\ t[i] = e
  BY <1>1, PrefixPointwise
<1> QED BY <1>2 DEF Contains

LEMMA AppendContains ==
    ASSUME NEW s \in Seq(Patches), NEW p \in Patches, NEW e
    PROVE  /\ Append(s, p) \in Seq(Patches)
           /\ Contains(Append(s, p), p)
           /\ Contains(s, e) => Contains(Append(s, p), e)
<1> DEFINE q == Append(s, p)
<1>1. /\ q \in Seq(Patches) /\ Len(q) = Len(s) + 1 /\ q[Len(s) + 1] = p
      /\ \A i \in 1..Len(s) : q[i] = s[i]
  OBVIOUS
<1> QED BY <1>1 DEF Contains

\* The rank of an element of a finite set of numbers: how many are not above it.
Rank(S, i) == Cardinality({j \in S : j <= i})

LEMMA RankGrows ==
    ASSUME NEW n \in Nat, NEW S \in SUBSET (1..n), NEW i \in S, NEW j \in S, i < j
    PROVE  Rank(S, i) < Rank(S, j)
<1> DEFINE A == {k \in S : k <= i}  B == {k \in S : k <= j}
<1> i \in Int /\ j \in Int /\ \A k \in S : k \in Int
  OBVIOUS
<1>1. IsFiniteSet(B)
  <2>1. IsFiniteSet(1..n)
    BY FS_Interval
  <2>2. B \in SUBSET (1..n)
    OBVIOUS
  <2> QED BY <2>1, <2>2, FS_Subset
<1>2. A \subseteq B /\ j \in B /\ j \notin A
  <2>1. j <= j /\ ~(j <= i) /\ \A k \in S : k <= i => k <= j
    OBVIOUS
  <2> QED BY <2>1
<1>3. Cardinality(A) <= Cardinality(B) /\ Cardinality(A) # Cardinality(B)
  BY <1>1, <1>2, FS_Subset
<1>4. Cardinality(A) \in Nat /\ Cardinality(B) \in Nat
  BY <1>1, <1>2, FS_Subset, FS_CardinalityType
<1> QED BY <1>3, <1>4 DEF Rank

LEMMA Ranks ==
    ASSUME NEW n \in Nat, NEW S \in SUBSET (1..n)
    PROVE  /\ Cardinality(S) \in Nat
           /\ \A i \in S : Rank(S, i) \in 1..Cardinality(S) /\ Nth(S, Rank(S, i)) = i
           /\ \A k \in 1..Cardinality(S) : Nth(S, k) \in S /\ Rank(S, Nth(S, k)) = k
<1>1. IsFiniteSet(S) /\ Cardinality(S) \in Nat
  <2>1. IsFiniteSet(1..n)
    BY FS_Interval
  <2>2. IsFiniteSet(S)
    BY <2>1, FS_Subset
  <2> QED BY <2>2, FS_CardinalityType
<1>2. ASSUME NEW i \in S  PROVE Rank(S, i) \in 1..Cardinality(S)
  <2> DEFINE A == {j \in S : j <= i}
  <2>1. IsFiniteSet(A) /\ Cardinality(A) <= Cardinality(S)
    BY <1>1, FS_Subset
  <2>2. Cardinality(A) \in Nat /\ Cardinality(A) # 0
    BY <2>1, FS_CardinalityType, FS_EmptySet
  <2> QED BY <1>1, <2>1, <2>2 DEF Rank
<1>3. ASSUME NEW i \in S, NEW j \in S, Rank(S, i) = Rank(S, j)  PROVE i = j
  <2>1. ~(i < j) /\ ~(j < i)
    <3>1. Rank(S, i) \in Int
      BY <1>2
    <3>2. ~(Rank(S, i) < Rank(S, i))
      BY <3>1
    <3> QED BY <3>2, <1>3, RankGrows
  <2> QED BY <2>1
<1>4. ASSUME NEW i \in S  PROVE Nth(S, Rank(S, i)) = i
  BY <1>3 DEF Nth, Rank
<1>5. ASSUME NEW k \in 1..Cardinality(S)  PROVE \E i \in S : Rank(S, i) = k
  <2> DEFINE T == 1..Cardinality(S)  f == [i \in S |-> Rank(S, i)]
  <2>1. f \in Injection(S, T)
    BY <1>2, <1>3 DEF Injection, IsInjective
  <2>2. IsFiniteSet(T) /\ Cardinality(T) = Cardinality(S)
    BY <1>1, FS_Interval
  <2>3. f \in Surjection(S, T)
    BY <2>1, <2>2, FS_Injection
  <2> QED BY <2>3 DEF Surjection
<1>6. ASSUME NEW k \in 1..Cardinality(S)  PROVE Nth(S, k) \in S /\ Rank(S, Nth(S, k)) = k
  BY <1>5 DEF Nth, Rank
<1> QED BY <1>1, <1>2, <1>4, <1>6

\* A rebase keeps the patches of both branches.
LEMMA ReplayContains ==
    ASSUME NEW onto \in Seq(Patches), NEW from \in Seq(Patches)
    PROVE  /\ Replay(onto, from) \in Seq(Patches)
           /\ \A e : Contains(onto, e) \/ Contains(from, e) => Contains(Replay(onto, from), e)
<1> DEFINE new == Lacking(onto, from)  c == Cardinality(new)
           rest == [k \in 1..c |-> from[Nth(new, k)]]
           all == onto \o rest
<1>1. new \in SUBSET (1..Len(from)) /\ Len(from) \in Nat
  BY DEF Lacking
<1>2. /\ c \in Nat
      /\ \A i \in new : Rank(new, i) \in 1..c /\ Nth(new, Rank(new, i)) = i
      /\ \A k \in 1..c : Nth(new, k) \in new
  BY <1>1, Ranks
<1> HIDE DEF new, c
<1>3. rest \in Seq(Patches) /\ Len(rest) = c
  <2>1. ASSUME NEW k \in 1..c  PROVE from[Nth(new, k)] \in Patches
    <3>1. Nth(new, k) \in 1..Len(from)
      BY <1>1, <1>2
    <3> QED BY <3>1
  <2> QED BY <2>1, <1>2
<1>4. /\ all \in Seq(Patches) /\ Len(all) = Len(onto) + c
      /\ \A i \in 1..Len(onto) : all[i] = onto[i]
      /\ \A k \in 1..c : all[Len(onto) + k] = rest[k]
  BY <1>3, <1>2
<1>5. all = Replay(onto, from)
  BY DEF Replay, new, c
<1>6. ASSUME NEW e, Contains(onto, e)  PROVE Contains(all, e)
  BY <1>4, <1>6, <1>2 DEF Contains
<1>7. ASSUME NEW e, Contains(from, e), ~Contains(onto, e)  PROVE Contains(all, e)
  <2>1. PICK i \in 1..Len(from) : from[i] = e
    BY <1>7 DEF Contains
  <2>2. i \in new
    BY <2>1, <1>7 DEF new, Lacking
  <2>3. PICK k \in 1..c : Nth(new, k) = i
    BY <2>2, <1>2
  <2>4. Len(onto) + k \in 1..Len(all) /\ all[Len(onto) + k] = e
    BY <2>1, <2>3, <1>4, <1>2
  <2> QED BY <2>4 DEF Contains
<1> QED BY <1>4, <1>5, <1>6, <1>7

\* A rebase onto a branch that has everything already gives that branch.
LEMMA ReplayNothing ==
    ASSUME NEW onto \in Seq(Patches), NEW from \in Seq(Patches),
           \A i \in 1..Len(from) : Contains(onto, from[i])
    PROVE  Replay(onto, from) = onto
<1>1. Lacking(onto, from) = {}
  BY DEF Lacking
<1>2. Cardinality({}) = 0 /\ 1..0 = {}
  BY FS_EmptySet
<1>3. Replay(onto, from) = onto \o [k \in {} |-> from[Nth({}, k)]]
  BY <1>1, <1>2 DEF Replay
<1>4. [k \in {} |-> from[Nth({}, k)]] = << >>
  OBVIOUS
<1> QED BY <1>3, <1>4

\* A rebase onto a commit that the branch contains changes nothing.
LEMMA ReplayOntoPrefix ==
    ASSUME NEW onto \in Seq(Patches), NEW from \in Seq(Patches),
           IsPrefix(onto, from), IsInjective(from)
    PROVE  Replay(onto, from) = from
<1> DEFINE l == Len(onto)  new == Lacking(onto, from)  c == Cardinality(new)
           rest == [k \in 1..c |-> from[Nth(new, k)]]
           all == onto \o rest
<1>1. /\ l \in Nat /\ Len(from) \in Nat /\ l <= Len(from)
      /\ \A i \in 1..l : onto[i] = from[i]
      /\ \A i, j \in 1..Len(from) : from[i] = from[j] => i = j
  BY PrefixPointwise DEF IsInjective
<1>2. new = (l + 1)..Len(from)
  BY <1>1 DEF Lacking, Contains
<1>3. c = Len(from) - l
  <2>1. \A a, b \in Int : Cardinality(a..b) = IF a > b THEN 0 ELSE b - a + 1
    BY FS_Interval
  <2>2. Cardinality((l + 1)..Len(from)) = Len(from) - l
    <3>1. l + 1 \in Int /\ Len(from) \in Int
      BY <1>1
    <3>2. CASE l + 1 > Len(from)
      <4>1. Cardinality((l + 1)..Len(from)) = 0
        BY <3>1, <3>2, <2>1
      <4>2. Len(from) - l = 0
        BY <3>2, <1>1
      <4> QED BY <4>1, <4>2
    <3>3. CASE ~(l + 1 > Len(from))
      <4>1. Cardinality((l + 1)..Len(from)) = Len(from) - (l + 1) + 1
        BY <3>1, <3>3, <2>1
      <4> QED BY <4>1, <1>1
    <3> QED BY <3>2, <3>3
  <2> QED BY <2>2, <1>2
<1>4. ASSUME NEW k \in 1..c  PROVE Nth(new, k) = l + k
  <2>1. l + k \in new
    BY <1>1, <1>2, <1>3, <1>4
  <2>2. {j \in new : j <= l + k} = (l + 1)..(l + k)
    BY <1>1, <1>2, <1>3, <1>4
  <2>3. Rank(new, l + k) = k
    <3>1. \A a, b \in Int : Cardinality(a..b) = IF a > b THEN 0 ELSE b - a + 1
      BY FS_Interval
    <3>2. k \in Nat \ {0}
      BY <1>4, <1>3, <1>1
    <3>3. Cardinality((l + 1)..(l + k)) = k
      BY <3>1, <3>2, <1>1
    <3> QED BY <3>3, <2>2 DEF Rank
  <2>4. Nth(new, Rank(new, l + k)) = l + k
    <3>1. new \in SUBSET (1..Len(from))
      BY <1>1, <1>2
    <3> QED BY <3>1, <2>1, <1>1, Ranks
  <2> QED BY <2>3, <2>4
<1>5. all = Replay(onto, from)
  BY DEF Replay
<1> HIDE DEF new, c
<1>6. rest \in Seq(Patches) /\ Len(rest) = Len(from) - l /\ \A k \in 1..c : rest[k] = from[l + k]
  <2>1. \A k \in 1..c : from[Nth(new, k)] = from[l + k] /\ from[l + k] \in Patches
    BY <1>1, <1>3, <1>4
  <2> QED BY <2>1, <1>1, <1>3
<1>7. /\ all \in Seq(Patches) /\ Len(all) = Len(from)
      /\ \A i \in 1..l : all[i] = onto[i]
      /\ \A k \in 1..c : all[l + k] = from[l + k]
  BY <1>6, <1>1, <1>3
<1>8. ASSUME NEW i \in 1..Len(from)  PROVE all[i] = from[i]
  <2>1. CASE i \in 1..l
    BY <2>1, <1>7, <1>1
  <2>2. CASE i \notin 1..l
    <3>1. i - l \in 1..c /\ l + (i - l) = i
      BY <2>2, <1>1, <1>3
    <3> QED BY <3>1, <1>7
  <2> QED BY <2>1, <2>2
<1>9. all = from
  <2> DEFINE w == all
  <2>1. w \in Seq(Patches) /\ Len(w) = Len(from) /\ \A i \in 1..Len(from) : w[i] = from[i]
    BY <1>7, <1>8
  <2> HIDE DEF w
  <2>2. w = from
    BY <2>1
  <2> QED BY <2>2 DEF w
<1> QED BY <1>5, <1>9

-----------------------------------------------------------------------------
(* The invariants.                                                         *)

Kinds ==
    /\ main \in Seq(Patches) /\ other \in Seq(Patches) /\ branch \in Seq(Patches)
    /\ remote \in Seq(Patches) /\ tracking \in Seq(Patches)
    /\ head \in {"main", "other"}
    /\ relocked \in BOOLEAN /\ raced \in BOOLEAN
    /\ pc \in Steps /\ (pc # "end" <=> status = "none")
    /\ moves \in Nat /\ faults \in Nat

\* Until the run is over its branch has the relock; from the integration on, a
\* branch of the primary has it, and at the end one of the three.
Kept ==
    /\ pc \in {"add", "fetch", "sync", "relock"} => ~relocked
    /\ relocked => \/ pc # "end" /\ Contains(branch, Relock)
                   \/ pc = "end" /\ RelockKept
    /\ relocked /\ pc \in {"pop", "cleanup"} => Contains(main, Relock) \/ Contains(other, Relock)

OnMain == {"mergeClean", "mergeDirty", "stash", "retry", "pop", "popBack"}

\* Unless the primary changed after the probe, what is integrated is on main.
Placed == ~raced =>
    /\ pc \in OnMain => head = "main"
    /\ relocked /\ (pc \in {"pop", "cleanup"} \/ status = "ok") => Contains(main, Relock)

Older == IF "mine" \in edits THEN <<"mine">> ELSE << >>
Stashed == pc \in {"retry", "pop", "popBack"}
Calm == ~raced /\ (pc # "end" \/ status = "ok" \/ faults = 0)

\* Where nothing interferes, the edits are in the tree, and on top of the older
\* stash from the push to the pop.
Tidy == Calm =>
    /\ Stashed => /\ tree = "clean"
                  /\ \E e \in {"apart", "clash"} : edits \ {"mine"} = {e} /\ stash = <<e>> \o Older
    /\ ~Stashed => /\ tree \in {"clean", "apart", "clash"}
                   /\ edits \ {"mine"} = {tree} \ {"clean"} /\ stash = Older
    /\ pc = "mergeClean" => tree = "clean"
    /\ pc \in {"mergeDirty", "stash"} => tree # "clean"

\* What the rebases of an undisturbed run make of the branch.
Longer == IF main = <<Base>> THEN remote ELSE main
Before == Steps \ {"pop", "popBack", "cleanup", "end"}
Diverged == Contains(main, Local) /\ Contains(remote, Remote)
Undisturbed == moves = 0 /\ faults = 0 /\ ~Diverged =>
    /\ ~raced
    /\ pc # "popBack" /\ status \in {"none", "ok"}
    /\ pc = "mergeRef" => head = "other"
    /\ pc \in Before =>
         /\ main \in {<<Base>>, <<Base, Local>>} /\ remote \in {<<Base>>, <<Base, Remote>>}
         /\ pc \in {"fetch", "sync"} => branch = main
         /\ pc = "relock" => branch = Longer
         /\ pc \notin {"add", "fetch"} => tracking = remote
         /\ pc \notin {"add", "fetch", "sync", "relock"} => branch \in {Longer, Append(Longer, Relock)}

LEMMA InitKinds == Init => Kinds
<1> SUFFICES ASSUME Init PROVE Kinds
  OBVIOUS
<1>1. /\ <<Base>> \in Seq(Patches) /\ <<Base, Local>> \in Seq(Patches)
      /\ <<Base, Remote>> \in Seq(Patches) /\ << >> \in Seq(Patches)
  BY DEF Patches
<1> QED BY <1>1 DEF Init, Kinds, Steps, Gone

\* What is checked out, and what becomes of the two branches.
LEMMA Becomes ==
    ASSUME Kinds, NEW b \in Seq(Patches), CheckedOutBecomes(b)
    PROVE  main' \in Seq(Patches) /\ other' \in Seq(Patches)
BY DEF CheckedOutBecomes, Kinds

LEMMA MovesKinds ==
    ASSUME Kinds, Moves
    PROVE  /\ branch' = branch /\ remote' = remote /\ tracking' = tracking
           /\ relocked' = relocked /\ raced' \in BOOLEAN
           /\ pc' = pc /\ status' = status /\ moves' \in Nat /\ faults' = faults
<1>1. raced' \in BOOLEAN
  BY Zenon DEF Moves
<1> QED BY <1>1 DEF Kinds, Moves, remotes, work

LEMMA StepKinds == Kinds /\ [Next]_vars => Kinds'
<1> SUFFICES ASSUME Kinds, [Next]_vars PROVE Kinds'
  OBVIOUS
<1>0. CheckedOut \in Seq(Patches)
  BY DEF Kinds, CheckedOut
<1>1. CASE UserCommits \/ UserCommitsEdits
  <2>1. Append(CheckedOut, Local) \in Seq(Patches) /\ Append(CheckedOut, Edits) \in Seq(Patches)
    BY <1>0, AppendContains DEF Patches
  <2>2. main' \in Seq(Patches) /\ other' \in Seq(Patches)
    BY <1>1, <2>1, Becomes DEF UserCommits, UserCommitsEdits
  <2>3. Moves /\ head' = head
    BY <1>1 DEF UserCommits, UserCommitsEdits
  <2> QED BY <2>2, <2>3, MovesKinds DEF Kinds
<1>2. CASE UserEdits \/ UserSwitches
  <2>1. Moves /\ main' = main /\ other' = other /\ head' \in {"main", "other"}
    BY <1>2 DEF UserEdits, UserSwitches, Kinds
  <2> QED BY <2>1, MovesKinds DEF Kinds
<1>3. CASE OtherPushes
  <2>1. remote' \in Seq(Patches)
    BY <1>3, AppendContains DEF OtherPushes, Patches, Kinds
  <2> QED BY <1>3, <2>1 DEF OtherPushes, Kinds, primary, work
<1>4. CASE WorktreeAdd \/ Fetch
  BY <1>4 DEF WorktreeAdd, Fetch, Goes, Kinds, Steps, primary, remotes, work, user
<1>5. CASE Rebase
  <2>1. branch' \in Seq(Patches)
    BY <1>5, ReplayContains DEF Rebase, Kinds
  <2> QED BY <1>5, <2>1 DEF Rebase, Goes, Kinds, Steps, primary, remotes, user
<1>6. CASE UpdateLocks \/ UpdateLocksFails
  <2>1. Append(branch, Relock) \in Seq(Patches)
    BY AppendContains DEF Kinds, Patches
  <2>2. branch' \in Seq(Patches)
    BY <1>6, <2>1 DEF UpdateLocks, UpdateLocksFails, Kinds
  <2> QED
    BY <1>6, <2>2 DEF UpdateLocks, UpdateLocksFails, Goes, Ends, Fault, Kinds, Steps, primary,
                      remotes, user
<1>7. CASE StepFails \/ Kill \/ StashFails
  BY <1>7 DEF StepFails, Kill, StashFails, Ends, Fault, Kinds, Steps, primary, remotes, work, user
<1>8. CASE CleanUp \/ CleanUpFails
  <2>1. branch' \in Seq(Patches)
    <3>1. << >> \in Seq(Patches)
      OBVIOUS
    <3> QED BY <3>1, <1>8 DEF CleanUp, CleanUpFails, Kinds, work, Gone
  <2> QED
    BY <1>8, <2>1 DEF CleanUp, CleanUpFails, Ends, Fault, Kinds, Steps, primary, remotes, work, user
<1>9. CASE Probe \/ ProbeFails
  <2>1. /\ pc # "end" /\ status' = status /\ pc' \in {"mergeRef", "mergeClean", "mergeDirty"}
        /\ faults' \in {faults, faults + 1} /\ UNCHANGED <<primary, remotes, work, user>>
    BY <1>9 DEF Probe, ProbeFails, Goes, Fault
  <2>2. raced' \in BOOLEAN
    BY <1>9, Zenon DEF Probe, ProbeFails, Kinds
  <2>3. faults' \in Nat /\ pc' \in Steps
    BY <2>1 DEF Kinds, Steps
  <2> QED BY <2>1, <2>2, <2>3 DEF Kinds, Steps, primary, remotes, work, user
<1>10. CASE Merge \/ MergeDirty \/ Retry
  <2>1. main' \in Seq(Patches) /\ other' \in Seq(Patches)
    <3>1. CASE Forwards
      BY <3>1, <1>0, Becomes DEF Forwards, Kinds
    <3>2. CASE UNCHANGED <<main, other>>
      BY <3>2 DEF Kinds
    <3> QED BY <1>10, <3>1, <3>2 DEF Merge, MergeDirty, Retry
  <2> QED
    BY <1>10, <2>1 DEF Merge, MergeDirty, Retry, Goes, Ends, Kinds, Steps, remotes, work, user
<1>11. CASE ForwardRef
  BY <1>11 DEF ForwardRef, Goes, Ends, Kinds, Steps, remotes, work, user
<1>12. CASE StashPush
  BY <1>12 DEF StashPush, Goes, Kinds, Steps, remotes, work, user
<1>13. CASE StashPop \/ StashPopFails
  BY <1>13 DEF StashPop, StashPopFails, Goes, Ends, Fault, Kinds, Steps, remotes, work, user
<1>14. CASE UNCHANGED vars
  BY <1>14 DEF vars, Kinds, primary, remotes, work, user
<1> QED
  BY <1>1, <1>2, <1>3, <1>4, <1>5, <1>6, <1>7, <1>8, <1>9, <1>10, <1>11, <1>12, <1>13, <1>14
     DEF Next, UpdateStep

\* A fast-forward keeps what was checked out and brings the branch.
LEMMA Forwarded ==
    ASSUME Kinds, CanForward, Forwards, NEW e
    PROVE  /\ Contains(main, e) => Contains(main', e)
           /\ Contains(other, e) => Contains(other', e)
           /\ Contains(branch, e) => IF head = "main" THEN Contains(main', e) ELSE Contains(other', e)
<1> DEFINE b == IF IsPrefix(branch, CheckedOut) THEN CheckedOut ELSE branch
<1>1. CheckedOut \in Seq(Patches) /\ branch \in Seq(Patches)
  BY DEF Kinds, CheckedOut
<1>2. CASE IsPrefix(branch, CheckedOut)
  <2>1. CheckedOutBecomes(CheckedOut)
    BY <1>2 DEF Forwards
  <2>2. Contains(branch, e) => Contains(CheckedOut, e)
    BY <1>1, <1>2, PrefixContains
  <2> QED BY <2>1, <2>2 DEF CheckedOutBecomes, CheckedOut
<1>3. CASE ~IsPrefix(branch, CheckedOut)
  <2>1. CheckedOutBecomes(branch)
    BY <1>3 DEF Forwards
  <2>2. Contains(CheckedOut, e) => Contains(branch, e)
    <3>1. IsPrefix(CheckedOut, branch)
      BY <1>3 DEF CanForward
    <3> QED BY <1>1, <3>1, PrefixContains
  <2> QED BY <2>1, <2>2 DEF CheckedOutBecomes, CheckedOut
<1> QED BY <1>2, <1>3

\* No step takes a patch off the branches of the primary.
LEMMA Grows ==
    ASSUME Kinds, [Next]_vars, NEW e
    PROVE  /\ Contains(main, e) => Contains(main', e)
           /\ Contains(other, e) => Contains(other', e)
<1>1. CASE UNCHANGED <<main, other>>
  BY <1>1
<1>2. ASSUME NEW p \in Patches, CheckedOutBecomes(Append(CheckedOut, p))
      PROVE  /\ Contains(main, e) => Contains(main', e)
             /\ Contains(other, e) => Contains(other', e)
  <2>1. CheckedOut \in Seq(Patches)
    BY DEF Kinds, CheckedOut
  <2>2. Contains(CheckedOut, e) => Contains(Append(CheckedOut, p), e)
    BY <2>1, AppendContains
  <2> QED BY <1>2, <2>2 DEF CheckedOutBecomes, CheckedOut
<1>3. CASE UserCommits \/ UserCommitsEdits
  <2>1. Local \in Patches /\ Edits \in Patches
    BY DEF Patches
  <2> QED BY <1>2, <1>3, <2>1 DEF UserCommits, UserCommitsEdits
<1>4. CASE Merge \/ MergeDirty \/ Retry
  BY <1>4, <1>1, Forwarded DEF Merge, MergeDirty, Retry
<1>5. CASE ForwardRef
  <2>1. CASE IsPrefix(main, branch) /\ main' = branch
    BY <2>1, <1>5, PrefixContains DEF ForwardRef, Kinds
  <2>2. CASE UNCHANGED main
    BY <2>2, <1>5 DEF ForwardRef
  <2> QED BY <1>5, <2>1, <2>2 DEF ForwardRef
<1>6. CASE UserEdits \/ UserSwitches \/ OtherPushes \/ UNCHANGED vars
  BY <1>6, <1>1 DEF UserEdits, UserSwitches, OtherPushes, vars, primary
<1>7. CASE WorktreeAdd \/ Fetch \/ Rebase \/ UpdateLocks \/ UpdateLocksFails \/ StepFails \/ Kill
  BY <1>7, <1>1 DEF WorktreeAdd, Fetch, Rebase, UpdateLocks, UpdateLocksFails, StepFails, Kill, primary
<1>8. CASE Probe \/ ProbeFails \/ StashFails \/ CleanUp \/ CleanUpFails
  BY <1>8, <1>1 DEF Probe, ProbeFails, StashFails, CleanUp, CleanUpFails, primary
<1>9. CASE StashPush \/ StashPop \/ StashPopFails
  BY <1>9, <1>1 DEF StashPush, StashPop, StashPopFails
<1> QED BY <1>3, <1>4, <1>5, <1>6, <1>7, <1>8, <1>9 DEF Next, UpdateStep

\* The user and the others move nothing of the run.
LEMMA Bystanders ==
    ASSUME Kinds, UserCommits \/ UserCommitsEdits \/ UserEdits \/ UserSwitches \/ OtherPushes
    PROVE  /\ UNCHANGED <<branch, tracking, relocked, pc, status, faults>>
           /\ moves' = moves + 1 /\ (~raced' => ~raced)
           /\ ~raced' /\ pc \in AfterProbe => UNCHANGED <<main, other, head, tree, stash, edits>>
<1>1. CASE Moves
  BY <1>1 DEF Moves, remotes, work
<1>2. CASE OtherPushes
  BY <1>2 DEF OtherPushes, primary, work
<1> QED BY <1>1, <1>2 DEF UserCommits, UserCommitsEdits, UserEdits, UserSwitches

Integrated == Kept /\ Placed

LEMMA InitIntegrated == Init => Integrated
BY DEF Init, Integrated, Kept, Placed, OnMain

LEMMA StepIntegrated == Kinds /\ Integrated /\ [Next]_vars => Integrated'
<1> SUFFICES ASSUME Kinds, Integrated, [Next]_vars PROVE Integrated'
  OBVIOUS
<1> DEFINE M == Contains(main, Relock)  O == Contains(other, Relock)  B == Contains(branch, Relock)
<1>0. (M => M') /\ (O => O')
  BY Grows
<1> USE DEF Integrated
<1>1. CASE UserCommits \/ UserCommitsEdits \/ UserEdits \/ UserSwitches \/ OtherPushes
  BY <1>0, <1>1, Bystanders DEF Kept, Placed, RelockKept, OnMain, AfterProbe
<1>2. CASE WorktreeAdd \/ Fetch
  BY <1>2 DEF WorktreeAdd, Fetch, Goes, Kinds, Kept, Placed, OnMain, primary, work, remotes
<1>3. CASE Rebase
  <2>1. B => B'
    BY <1>3, ReplayContains DEF Rebase, Kinds
  <2> QED BY <1>3, <2>1 DEF Rebase, Goes, Kinds, Kept, Placed, OnMain, primary
<1>4. CASE UpdateLocks \/ UpdateLocksFails
  <2>1. relocked' => B'
    BY <1>4, AppendContains DEF UpdateLocks, UpdateLocksFails, Kinds, Patches
  <2>2. UNCHANGED <<primary, raced>> /\ ((pc' = "local" /\ status' = status) \/ (pc' = "end" /\ status' # "ok"))
    BY <1>4 DEF UpdateLocks, UpdateLocksFails, Goes, Ends
  <2> QED BY <1>4, <2>1, <2>2 DEF UpdateLocks, UpdateLocksFails, Kinds, Kept, Placed, OnMain, RelockKept
<1>5. CASE StepFails \/ Kill \/ StashFails
  BY <1>5 DEF StepFails, Kill, StashFails, Ends, Kinds, Kept, Placed, OnMain, RelockKept, primary, work
<1>6. CASE CleanUp
  BY <1>0, <1>6 DEF CleanUp, Ends, Kinds, Kept, Placed, OnMain, RelockKept, primary
<1>7. CASE CleanUpFails
  BY <1>0, <1>7 DEF CleanUpFails, Ends, Kinds, Kept, Placed, OnMain, RelockKept, primary, work
<1>8. CASE Probe \/ ProbeFails
  <2>1. /\ pc = "probe" /\ pc' \in {"mergeRef", "mergeClean", "mergeDirty"}
        /\ UNCHANGED <<primary, work, status>>
    BY <1>8 DEF Probe, ProbeFails, Goes
  <2>2. ~raced' => ~raced /\ (pc' # "mergeRef" => head = "main")
    BY <1>8 DEF Probe, ProbeFails, Goes
  <2> QED BY <2>1, <2>2 DEF Kinds, Kept, Placed, OnMain, primary, work
<1>9. CASE Merge \/ MergeDirty \/ Retry
  <2>1. ASSUME CanForward, Forwards
        PROVE  /\ B => M' \/ O'
               /\ B /\ head = "main" => M'
    BY <2>1, Forwarded
  <2> QED BY <1>9, <1>0, <2>1
          DEF Merge, MergeDirty, Retry, Goes, Ends, Kinds, Kept, Placed, OnMain, RelockKept, work
<1>10. CASE ForwardRef
  BY <1>10, <1>0 DEF ForwardRef, Goes, Ends, Kinds, Kept, Placed, OnMain, RelockKept, work
<1>11. CASE StashPush
  BY <1>11, <1>0 DEF StashPush, Goes, Kinds, Kept, Placed, OnMain, work
<1>12. CASE StashPop \/ StashPopFails
  BY <1>12, <1>0 DEF StashPop, StashPopFails, Goes, Ends, Kinds, Kept, Placed, OnMain, RelockKept, work
<1>13. CASE UNCHANGED vars
  BY <1>13 DEF vars, Kept, Placed, RelockKept, primary, work
<1> QED
  BY <1>1, <1>2, <1>3, <1>4, <1>5, <1>6, <1>7, <1>8, <1>9, <1>10, <1>11, <1>12, <1>13
     DEF Next, UpdateStep

LEMMA InitTidy == Init => Tidy
<1> SUFFICES ASSUME Init PROVE Tidy
  OBVIOUS
<1>1. /\ tree \in {"clean", "apart", "clash"} /\ stash \in {<< >>, <<"mine">>}
      /\ edits = ({tree} \ {"clean"}) \cup ToSet(stash) /\ pc = "add"
  BY DEF Init
<1>2. ToSet(<< >>) = {} /\ ToSet(<<"mine">>) = {"mine"}
  BY DEF ToSet
<1>3. stash = Older /\ edits \ {"mine"} = {tree} \ {"clean"}
  <2>1. CASE stash = << >>
    BY <2>1, <1>1, <1>2 DEF Older
  <2>2. CASE stash = <<"mine">>
    BY <2>2, <1>1, <1>2 DEF Older
  <2> QED BY <1>1, <2>1, <2>2
<1> QED BY <1>1, <1>3 DEF Tidy, Stashed

\* A step that leaves the edits, the tree and the stash alone, on one side of
\* the autostash.
LEMMA TidyStays ==
    ASSUME Tidy, UNCHANGED <<tree, stash, edits>>, Calm' => Calm, Stashed' <=> Stashed,
           pc' = pc \/ pc' \notin {"mergeClean", "mergeDirty", "stash"}
    PROVE  Tidy'
<1>1. Older' = Older
  BY DEF Older
<1>2. CASE ~Calm'
  BY <1>2 DEF Tidy
<1>3. CASE Calm'
  BY <1>1, <1>3 DEF Tidy
<1> QED BY <1>2, <1>3

LEMMA OlderSeq == Older \in Seq(EditKinds)
<1>1. << >> \in Seq(EditKinds) /\ "mine" \in EditKinds
  BY DEF EditKinds
<1>2. <<"mine">> \in Seq(EditKinds)
  BY <1>1
<1> QED BY <1>1, <1>2 DEF Older

LEMMA StepTidy == Kinds /\ Types /\ Placed /\ Tidy /\ [Next]_vars => Tidy'
<1> SUFFICES ASSUME Kinds, Types, Placed, Tidy, [Next]_vars PROVE Tidy'
  OBVIOUS
<1>1. CASE UserCommits \/ OtherPushes
  <2>1. UNCHANGED <<tree, stash, edits>>
    BY <1>1 DEF UserCommits, OtherPushes, primary
  <2> QED BY <1>1, <2>1, Bystanders, TidyStays DEF Calm, Stashed
<1>2. CASE UserCommitsEdits \/ UserEdits \/ UserSwitches
  <2>1. SUFFICES ASSUME Calm' PROVE Tidy'
    BY DEF Tidy
  <2>2. UNCHANGED <<pc, status, faults>> /\ Calm
    BY <1>2, <2>1, Bystanders DEF Calm
  <2>3. pc \notin AfterProbe
    BY <1>2, <2>1 DEF Calm, Moves, UserCommitsEdits, UserEdits, UserSwitches
  <2>4. ~Stashed /\ ~Stashed' /\ pc \notin {"mergeClean", "mergeDirty", "stash"}
    BY <2>2, <2>3 DEF Stashed, AfterProbe
  <2>5. tree \in {"clean", "apart", "clash"} /\ edits \ {"mine"} = {tree} \ {"clean"} /\ stash = Older
    BY <2>2, <2>4 DEF Tidy
  <2>6. /\ tree' \in {"clean", "apart", "clash"} /\ edits' \ {"mine"} = {tree'} \ {"clean"}
        /\ stash' = stash /\ ("mine" \in edits' <=> "mine" \in edits)
    <3>1. CASE UserCommitsEdits
      BY <2>5, <3>1 DEF UserCommitsEdits
    <3>2. CASE UserEdits
      BY <2>5, <3>2 DEF UserEdits
    <3>3. CASE UserSwitches
      BY <2>5, <3>3 DEF UserSwitches
    <3> QED BY <1>2, <3>1, <3>2, <3>3
  <2>7. stash' = Older'
    BY <2>5, <2>6 DEF Older
  <2> QED BY <2>2, <2>4, <2>6, <2>7 DEF Tidy
<1>3. CASE WorktreeAdd \/ Fetch \/ Rebase \/ UpdateLocks
  <2>1. UNCHANGED <<tree, stash, edits, raced, faults>> /\ pc # "end" /\ ~Stashed
    BY <1>3 DEF WorktreeAdd, Fetch, Rebase, UpdateLocks, primary, user, Stashed
  <2>2. pc' \in {"fetch", "sync", "relock", "local", "refetch", "resync", "probe"}
    BY <1>3 DEF WorktreeAdd, Fetch, Rebase, UpdateLocks, Goes
  <2> QED BY <2>1, <2>2, TidyStays DEF Calm, Stashed
<1>4. CASE UpdateLocksFails \/ StepFails \/ Kill \/ StashFails
  <2>1. faults' = faults + 1 /\ pc' = "end" /\ status' # "ok"
    BY <1>4 DEF UpdateLocksFails, StepFails, Kill, StashFails, Fault, Ends
  <2>2. ~Calm'
    BY <2>1 DEF Calm, Kinds
  <2> QED BY <2>2 DEF Tidy
<1>5. CASE CleanUp \/ CleanUpFails
  <2>1. UNCHANGED <<tree, stash, edits, raced>> /\ pc = "cleanup" /\ pc' = "end"
    BY <1>5 DEF CleanUp, CleanUpFails, Ends, primary, user
  <2> QED BY <2>1, TidyStays DEF Calm, Stashed
<1>6. CASE Probe
  <2>1. UNCHANGED <<tree, stash, edits, raced, faults>> /\ pc = "probe"
    BY <1>6 DEF Probe, primary, user
  <2>2. /\ pc' \in {"mergeRef", "mergeClean", "mergeDirty"}
        /\ pc' = "mergeClean" => tree = "clean"
        /\ pc' = "mergeDirty" => tree # "clean"
    BY <1>6 DEF Probe, Goes
  <2>3. Older' = Older /\ ~Stashed /\ ~Stashed' /\ (Calm' => Calm)
    BY <2>1, <2>2 DEF Older, Stashed, Calm
  <2> QED BY <2>1, <2>2, <2>3 DEF Tidy
<1>7. CASE ProbeFails
  <2>1. ~Calm'
    BY <1>7 DEF ProbeFails, Calm
  <2> QED BY <2>1 DEF Tidy
<1>8. CASE Merge \/ ForwardRef
  <2>1. /\ UNCHANGED <<tree, stash, edits, raced, faults>> /\ pc \in {"mergeClean", "mergeRef"}
        /\ pc' \in {"cleanup", "end"}
    BY <1>8 DEF Merge, ForwardRef, user, Goes, Ends
  <2> QED BY <2>1, TidyStays DEF Calm, Stashed
<1>9. CASE MergeDirty
  <2>1. /\ UNCHANGED <<tree, stash, edits, raced, faults>> /\ pc = "mergeDirty"
        /\ pc' \in {"cleanup", "stash"}
    BY <1>9 DEF MergeDirty, user, Goes
  <2>2. Older' = Older /\ ~Stashed /\ ~Stashed' /\ (Calm' => Calm)
    BY <2>1 DEF Older, Stashed, Calm
  <2> QED BY <2>1, <2>2 DEF Tidy
<1>10. CASE StashPush
  <2>1. SUFFICES ASSUME Calm' PROVE Tidy'
    BY DEF Tidy
  <2>2. pc = "stash" /\ pc' = "retry" /\ UNCHANGED <<edits, raced>>
    BY <1>10 DEF StashPush, Goes, user
  <2>3. Calm /\ ~Stashed
    BY <2>1, <2>2 DEF Calm, Stashed
  <2>4. tree \in {"apart", "clash"} /\ edits \ {"mine"} = {tree} /\ stash = Older
    BY <2>2, <2>3 DEF Tidy
  <2>5. tree' = "clean" /\ stash' = <<tree>> \o Older
    BY <1>10, <2>4 DEF StashPush
  <2>6. Older' = Older /\ Stashed'
    BY <2>2 DEF Older, Stashed
  <2> QED BY <2>2, <2>4, <2>5, <2>6 DEF Tidy
<1>11. CASE Retry
  <2>1. UNCHANGED <<tree, stash, edits, raced, faults>> /\ pc = "retry" /\ pc' \in {"pop", "popBack"}
    BY <1>11 DEF Retry, user, Goes
  <2> QED BY <2>1, TidyStays DEF Calm, Stashed
<1>12. CASE StashPop
  <2>1. SUFFICES ASSUME Calm' PROVE Tidy'
    BY DEF Tidy
  <2>2. /\ Stashed /\ pc # "end" /\ pc' \in {"cleanup", "end"} /\ UNCHANGED <<edits, raced>>
        /\ tree' = Head(stash) /\ stash' = Tail(stash)
    BY <1>12 DEF StashPop, Goes, Ends, user, Stashed
  <2>3. Calm /\ ~Stashed'
    BY <2>1, <2>2 DEF Calm, Stashed
  <2>4. PICK e \in {"apart", "clash"} : edits \ {"mine"} = {e} /\ stash = <<e>> \o Older
    BY <2>2, <2>3 DEF Tidy
  <2>5. Head(stash) = e /\ Tail(stash) = Older
    <3>1. Older \in Seq(EditKinds) /\ e \in EditKinds
      BY OlderSeq DEF EditKinds
    <3> QED BY <3>1, <2>4
  <2>6. Older' = Older
    BY <2>2 DEF Older
  <2>7. e # "clean"
    OBVIOUS
  <2> QED BY <2>2, <2>3, <2>4, <2>5, <2>6, <2>7 DEF Tidy
<1>13. CASE StashPopFails
  <2>1. SUFFICES ASSUME Calm' PROVE Tidy'
    BY DEF Tidy
  <2>2. Stashed /\ pc' = "end" /\ pc # "end" /\ raced' = raced /\ status' # "ok"
    BY <1>13 DEF StashPopFails, Ends, Stashed
  <2>3. Calm /\ faults' = 0
    BY <2>1, <2>2 DEF Calm
  <2>4. PICK e \in {"apart", "clash"} : stash = <<e>> \o Older /\ tree = "clean"
    BY <2>2, <2>3 DEF Tidy
  <2>5. stash # << >>
    <3>1. Older \in Seq(EditKinds) /\ e \in EditKinds
      BY OlderSeq DEF EditKinds
    <3> QED BY <3>1, <2>4
  <2>6. faults' = faults + 1
    BY <1>13, <2>4, <2>5 DEF StashPopFails, Fault
  <2> QED BY <2>3, <2>6 DEF Kinds
<1>14. CASE UNCHANGED vars
  <2>1. UNCHANGED <<tree, stash, edits, raced, faults, pc, status>>
    BY <1>14 DEF vars, primary, user
  <2> QED BY <2>1, TidyStays DEF Calm, Stashed
<1> QED
  BY <1>1, <1>2, <1>3, <1>4, <1>5, <1>6, <1>7, <1>8, <1>9, <1>10, <1>11, <1>12, <1>13, <1>14
     DEF Next, UpdateStep

\* The four branches an undisturbed run can have, with the relock or without.
LEMMA Whole ==
    ASSUME main \in {<<Base>>, <<Base, Local>>}, remote \in {<<Base>>, <<Base, Remote>>}, ~Diverged,
           NEW b, b \in {Longer, Append(Longer, Relock)}
    PROVE  /\ b \in Seq(Patches) /\ IsInjective(b)
           /\ IsPrefix(main, b) /\ IsPrefix(remote, b)
<1>1. /\ <<Base>> \in Seq(Patches) /\ <<Base, Local>> \in Seq(Patches)
      /\ <<Base, Remote>> \in Seq(Patches) /\ <<Base, Relock>> \in Seq(Patches)
      /\ <<Base, Local, Relock>> \in Seq(Patches) /\ <<Base, Remote, Relock>> \in Seq(Patches)
  BY DEF Patches
<1>2. Longer \in {<<Base>>, <<Base, Local>>, <<Base, Remote>>}
  BY DEF Longer
<1>3. /\ main = <<Base, Local>> => Longer = main /\ remote = <<Base>>
      /\ main = <<Base>> => Longer = remote
  <2>1. <<Base, Local>> # <<Base>>
    OBVIOUS
  <2>2. Contains(<<Base, Local>>, Local) /\ Contains(<<Base, Remote>>, Remote)
    BY DEF Contains
  <2> QED BY <2>1, <2>2 DEF Longer, Diverged
<1>4. /\ Append(<<Base>>, Relock) = <<Base, Relock>>
      /\ Append(<<Base, Local>>, Relock) = <<Base, Local, Relock>>
      /\ Append(<<Base, Remote>>, Relock) = <<Base, Remote, Relock>>
  <2>1. \A s \in Seq(Patches) : /\ Append(s, Relock) \in Seq(Patches)
                                /\ Len(Append(s, Relock)) = Len(s) + 1
                                /\ Append(s, Relock)[Len(s) + 1] = Relock
                                /\ \A i \in 1..Len(s) : Append(s, Relock)[i] = s[i]
    BY DEF Patches
  <2>2. Append(<<Base>>, Relock) = <<Base, Relock>>
    <3> DEFINE a == Append(<<Base>>, Relock)
    <3>1. Len(<<Base>>) = 1
      OBVIOUS
    <3>2. a \in Seq(Patches) /\ Len(a) = 2 /\ a[1] = Base /\ a[2] = Relock
      BY <1>1, <2>1, <3>1
    <3> HIDE DEF a
    <3>3. a = <<Base, Relock>>
      BY <3>2
    <3> QED BY <3>3 DEF a
  <2>3. Append(<<Base, Local>>, Relock) = <<Base, Local, Relock>>
    <3> DEFINE a == Append(<<Base, Local>>, Relock)
    <3>1. Len(<<Base, Local>>) = 2
      OBVIOUS
    <3>2. a \in Seq(Patches) /\ Len(a) = 3 /\ a[1] = Base /\ a[2] = Local /\ a[3] = Relock
      BY <1>1, <2>1, <3>1
    <3> HIDE DEF a
    <3>3. a = <<Base, Local, Relock>>
      BY <3>2
    <3> QED BY <3>3 DEF a
  <2>4. Append(<<Base, Remote>>, Relock) = <<Base, Remote, Relock>>
    <3> DEFINE a == Append(<<Base, Remote>>, Relock)
    <3>1. Len(<<Base, Remote>>) = 2
      OBVIOUS
    <3>2. a \in Seq(Patches) /\ Len(a) = 3 /\ a[1] = Base /\ a[2] = Remote /\ a[3] = Relock
      BY <1>1, <2>1, <3>1
    <3> HIDE DEF a
    <3>3. a = <<Base, Remote, Relock>>
      BY <3>2
    <3> QED BY <3>3 DEF a
  <2> QED BY <2>2, <2>3, <2>4
<1>5. b \in {<<Base>>, <<Base, Local>>, <<Base, Remote>>, <<Base, Relock>>, <<Base, Local, Relock>>,
             <<Base, Remote, Relock>>}
  BY <1>2, <1>4
<1>6. b \in Seq(Patches) /\ main \in Seq(Patches) /\ remote \in Seq(Patches)
  BY <1>1, <1>5
<1>7. IsInjective(b)
  BY <1>5, Differ DEF IsInjective
<1>8. b = Longer \/ b = Append(Longer, Relock)
  OBVIOUS
<1>9. Len(main) <= Len(b) /\ \A i \in 1..Len(main) : main[i] = b[i]
  <2>1. CASE main = <<Base>>
    BY <1>5, <2>1
  <2>2. CASE main = <<Base, Local>>
    BY <2>2, <1>3, <1>4, <1>8
  <2> QED BY <2>1, <2>2
<1>10. Len(remote) <= Len(b) /\ \A i \in 1..Len(remote) : remote[i] = b[i]
  <2>1. CASE remote = <<Base>>
    BY <1>5, <2>1
  <2>2. CASE remote = <<Base, Remote>>
    <3>1. main = <<Base>>
      <4>1. <<Base, Remote>> # <<Base>>
        OBVIOUS
      <4> QED BY <4>1, <2>2, <1>3
    <3> QED BY <3>1, <2>2, <1>3, <1>4, <1>8
  <2> QED BY <2>1, <2>2
<1> QED BY <1>6, <1>7, <1>9, <1>10, PrefixPointwise

\* The first rebase, onto the remote, gives the longer of the two.
LEMMA FirstRebase ==
    ASSUME main \in {<<Base>>, <<Base, Local>>}, remote \in {<<Base>>, <<Base, Remote>>}, ~Diverged
    PROVE  Replay(remote, main) = Longer
<1>1. /\ <<Base>> \in Seq(Patches) /\ main \in Seq(Patches) /\ remote \in Seq(Patches)
  <2>1. /\ <<Base>> \in Seq(Patches) /\ <<Base, Local>> \in Seq(Patches)
        /\ <<Base, Remote>> \in Seq(Patches)
    BY DEF Patches
  <2> QED BY <2>1
<1>2. CASE main = <<Base>>
  <2>1. Contains(remote, Base)
    BY DEF Contains
  <2>2. \A i \in 1..Len(main) : Contains(remote, main[i])
    BY <1>2, <2>1
  <2> QED BY <1>1, <1>2, <2>2, ReplayNothing DEF Longer
<1>3. CASE main = <<Base, Local>>
  <2>1. Longer = main
    BY <1>3 DEF Longer
  <2> QED BY <1>1, <2>1, Whole, ReplayOntoPrefix
<1> QED BY <1>2, <1>3

LEMMA InitUndisturbed == Init => Undisturbed
BY DEF Init, Undisturbed

LEMMA StepUndisturbed ==
    Kinds /\ Types /\ Placed /\ Tidy /\ Undisturbed /\ [Next]_vars => Undisturbed'
<1> SUFFICES ASSUME Kinds, Types, Placed, Tidy, Undisturbed, [Next]_vars,
                    moves' = 0, faults' = 0, ~Diverged'
             PROVE  Undisturbed'
  BY DEF Undisturbed
<1>1. CASE UserCommits \/ UserCommitsEdits \/ UserEdits \/ UserSwitches \/ OtherPushes
  BY <1>1, Bystanders DEF Kinds
<1>2. CASE UpdateLocksFails \/ StepFails \/ ProbeFails \/ StashFails \/ CleanUpFails \/ Kill
  BY <1>2 DEF UpdateLocksFails, StepFails, ProbeFails, StashFails, CleanUpFails, Kill, Fault, Kinds
<1>3. CASE UNCHANGED vars
  BY <1>3 DEF vars, primary, remotes, work, user, Undisturbed, Diverged, Longer
<1>4. CASE UpdateStep
  <2>1. moves = 0 /\ faults = 0 /\ remote' = remote /\ raced' = raced
    BY <1>4 DEF UpdateStep, WorktreeAdd, Fetch, Rebase, UpdateLocks, Probe, Merge, ForwardRef,
                MergeDirty, StashPush, Retry, StashPop, StashPopFails, CleanUp, Fault, Kinds,
                remotes, user
  <2>2. ~Diverged
    BY <2>1, Grows DEF Diverged
  <2>3. /\ ~raced /\ pc # "popBack" /\ status \in {"none", "ok"}
        /\ pc = "mergeRef" => head = "other"
        /\ pc \in Before =>
             /\ main \in {<<Base>>, <<Base, Local>>} /\ remote \in {<<Base>>, <<Base, Remote>>}
             /\ pc \in {"fetch", "sync"} => branch = main
             /\ pc = "relock" => branch = Longer
             /\ pc \notin {"add", "fetch"} => tracking = remote
             /\ pc \notin {"add", "fetch", "sync", "relock"} => branch \in {Longer, Append(Longer, Relock)}
    BY <2>1, <2>2 DEF Undisturbed
  <2>4. pc # "end" /\ Calm
    <3>1. pc # "end"
      BY <1>4 DEF UpdateStep, WorktreeAdd, Fetch, Rebase, UpdateLocks, Probe, Merge, ForwardRef,
                  MergeDirty, StashPush, Retry, StashPop, StashPopFails, CleanUp
    <3> QED BY <3>1, <2>3 DEF Calm
  <2>5. CASE WorktreeAdd
    BY <2>5, <2>1, <2>3 DEF WorktreeAdd, Goes, Undisturbed, Before, Steps, primary
  <2>6. CASE Fetch
    <3>1. /\ UNCHANGED <<main, head, branch, status>> /\ tracking' = remote
          /\ (pc = "fetch" /\ pc' = "sync") \/ (pc = "refetch" /\ pc' = "resync")
      BY <2>6 DEF Fetch, Goes, primary, work
    <3>2. Longer' = Longer
      BY <3>1, <2>1 DEF Longer
    <3> QED BY <3>1, <3>2, <2>1, <2>3 DEF Undisturbed, Before, Steps
  <2>7. CASE Rebase
    <3>1. UNCHANGED <<main, head, tracking, status>>
      BY <2>7 DEF Rebase, Goes, primary, remotes
    <3>2. Longer' = Longer
      BY <3>1, <2>1 DEF Longer
    <3>3. CASE pc = "sync"
      <4>1. main \in {<<Base>>, <<Base, Local>>} /\ remote \in {<<Base>>, <<Base, Remote>>}
        BY <3>3, <2>3 DEF Before, Steps
      <4>2. branch' = Longer /\ pc' = "relock"
        BY <3>3, <2>3, <2>7, <4>1, <2>2, FirstRebase DEF Rebase, Goes, Before, Steps
      <4> QED BY <3>1, <3>2, <3>3, <4>1, <4>2, <2>1, <2>3 DEF Undisturbed, Before, Steps
    <3>4. CASE pc \in {"local", "resync"}
      <4>1. /\ main \in {<<Base>>, <<Base, Local>>} /\ remote \in {<<Base>>, <<Base, Remote>>}
            /\ branch \in {Longer, Append(Longer, Relock)} /\ tracking = remote
        BY <3>4, <2>3 DEF Before, Steps
      <4>2. branch' = branch
        <5>1. branch \in Seq(Patches) /\ main \in Seq(Patches) /\ remote \in Seq(Patches)
          BY DEF Kinds
        <5>2. IsInjective(branch) /\ IsPrefix(main, branch) /\ IsPrefix(remote, branch)
          BY <4>1, <2>2, Whole
        <5>3. Replay(main, branch) = branch /\ Replay(remote, branch) = branch
          BY <5>1, <5>2, ReplayOntoPrefix
        <5> QED BY <5>3, <4>1, <3>4, <2>7 DEF Rebase
      <4>3. pc' \in {"refetch", "probe"}
        BY <3>4, <2>7 DEF Rebase, Goes
      <4> QED BY <3>1, <3>2, <4>1, <4>2, <4>3, <2>1, <2>3 DEF Undisturbed, Before, Steps
    <3> QED BY <3>3, <3>4, <2>7 DEF Rebase
  <2>8. CASE UpdateLocks
    <3>1. /\ UNCHANGED <<main, head, tracking, status>> /\ pc = "relock" /\ pc' = "local"
          /\ branch' \in {branch, Append(branch, Relock)}
      BY <2>8 DEF UpdateLocks, Goes, primary, remotes
    <3>2. Longer' = Longer
      BY <3>1, <2>1 DEF Longer
    <3> QED BY <3>1, <3>2, <2>1, <2>3 DEF Undisturbed, Before, Steps
  <2>9. CASE Probe
    <3>1. /\ UNCHANGED <<main, head, branch, tracking, status>> /\ pc = "probe"
          /\ pc' \in {"mergeRef", "mergeClean", "mergeDirty"}
          /\ pc' = "mergeRef" => head = "other"
      BY <2>9 DEF Probe, Goes, primary, remotes, work, Kinds
    <3>2. Longer' = Longer
      BY <3>1, <2>1 DEF Longer
    <3> QED BY <3>1, <3>2, <2>1, <2>3 DEF Undisturbed, Before, Steps
  <2>10. ASSUME pc \in {"mergeClean", "mergeRef", "mergeDirty", "stash", "retry"}
         PROVE  IsPrefix(main, branch)
    <3>1. /\ main \in {<<Base>>, <<Base, Local>>} /\ remote \in {<<Base>>, <<Base, Remote>>}
          /\ branch \in {Longer, Append(Longer, Relock)}
      BY <2>10, <2>3 DEF Before, Steps
    <3> QED BY <3>1, <2>2, Whole
  <2>11. CASE Merge
    <3>1. CanForward
      BY <2>11, <2>10, <2>3, <2>4 DEF Merge, CanForward, CheckedOut, Placed, OnMain, Tidy
    <3>2. pc' = "cleanup" /\ status' = status
      BY <3>1, <2>11 DEF Merge, Goes
    <3> QED BY <3>2, <2>1, <2>3 DEF Undisturbed, Before
  <2>12. CASE ForwardRef
    <3>1. pc' = "cleanup" /\ status' = status
      BY <2>12, <2>10, <2>3 DEF ForwardRef, Goes
    <3> QED BY <3>1, <2>1, <2>3 DEF Undisturbed, Before
  <2>13. CASE MergeDirty
    <3>1. CASE CanForward
      BY <3>1, <2>13, <2>1, <2>3 DEF MergeDirty, Goes, Undisturbed, Before
    <3>2. CASE ~CanForward
      <4>1. UNCHANGED <<main, head, branch, tracking, status>> /\ pc = "mergeDirty" /\ pc' = "stash"
        BY <3>2, <2>13 DEF MergeDirty, Goes, remotes, work
      <4>2. Longer' = Longer
        BY <4>1, <2>1 DEF Longer
      <4> QED BY <4>1, <4>2, <2>1, <2>3 DEF Undisturbed, Before, Steps
    <3> QED BY <3>1, <3>2
  <2>14. CASE StashPush
    <3>1. UNCHANGED <<main, head, branch, tracking, status>> /\ pc = "stash" /\ pc' = "retry"
      BY <2>14 DEF StashPush, Goes, remotes, work
    <3>2. Longer' = Longer
      BY <3>1, <2>1 DEF Longer
    <3> QED BY <3>1, <3>2, <2>1, <2>3 DEF Undisturbed, Before, Steps
  <2>15. CASE Retry
    <3>1. CanForward
      BY <2>15, <2>10, <2>3, <2>4 DEF Retry, CanForward, CheckedOut, Placed, OnMain, Tidy, Stashed
    <3>2. pc' = "pop" /\ status' = status
      BY <3>1, <2>15 DEF Retry, Goes
    <3> QED BY <3>2, <2>1, <2>3 DEF Undisturbed, Before
  <2>16. CASE StashPop
    <3>1. pc' = "cleanup" /\ status' = status
      BY <2>16, <2>3 DEF StashPop, Goes
    <3> QED BY <3>1, <2>1, <2>3 DEF Undisturbed, Before
  <2>17. CASE StashPopFails
    <3>1. PICK e \in {"apart", "clash"} : stash = <<e>> \o Older /\ tree = "clean"
      BY <2>17, <2>4 DEF StashPopFails, Tidy, Stashed
    <3>2. stash # << >>
      <4>1. e \in EditKinds
        BY DEF EditKinds
      <4> QED BY <4>1, <3>1, OlderSeq
    <3> QED BY <2>17, <3>1, <3>2, <2>1 DEF StashPopFails, Fault
  <2>18. CASE CleanUp
    BY <2>18, <2>1, <2>3 DEF CleanUp, Ends, Undisturbed, Before
  <2> QED
    BY <1>4, <2>5, <2>6, <2>7, <2>8, <2>9, <2>11, <2>12, <2>13, <2>14, <2>15, <2>16, <2>17, <2>18
       DEF UpdateStep
<1> QED BY <1>1, <1>2, <1>3, <1>4 DEF Next

-----------------------------------------------------------------------------
UpdateInv == Inv /\ Kinds /\ Integrated /\ Tidy /\ Undisturbed

LEMMA Always == Spec => []UpdateInv
<1>1. Init => UpdateInv
  BY InitInv, InitKinds, InitIntegrated, InitTidy, InitUndisturbed DEF UpdateInv
<1>2. UpdateInv /\ [Next]_vars => UpdateInv'
  BY StepInv, StepKinds, StepIntegrated, StepTidy, StepUndisturbed DEF UpdateInv, Inv, Integrated
<1> QED BY <1>1, <1>2, PTL DEF Spec

\* However updateRepoViaWorktree ends, by itself and undisturbed by a failing
\* command, the edits are back in the tree and the older stash is where it was:
\* the push and the pop of the autostash are paired on every path.
THEOREM TreeComesBack == Spec => []TreeRestored
<1>1. UpdateInv => TreeRestored
  <2> SUFFICES ASSUME UpdateInv, pc = "end", faults = 0, ~raced
               PROVE  /\ tree # "conflict"
                      /\ "mine" \in edits => stash = <<"mine">>
                      /\ edits # {} /\ edits # {"mine"} => tree \in edits
    BY DEF TreeRestored
  <2>1. /\ tree \in {"clean", "apart", "clash"}
        /\ edits \ {"mine"} = {tree} \ {"clean"} /\ stash = Older
    BY DEF UpdateInv, Tidy, Calm, Stashed
  <2> QED BY <2>1 DEF Older
<1> QED BY <1>1, Always, PTL

\* Both together: the edits come back, whatever was done with them on the way.
THEOREM EditsComeBack == Spec => []EditsReturn
<1>1. EditsKept /\ TreeRestored => EditsReturn
  BY DEF EditsReturn
<1> QED BY <1>1, EditsSurvive, TreeComesBack, PTL

\* The relock is on a branch at every moment, on main when the outcome is "ok",
\* and a run that nobody disturbs ends "ok": the two rebases of
\* updateRepoViaWorktree make a branch that main can be forwarded to.
THEOREM RelockIsNotLost == Spec => []RelockArrives
<1>1. UpdateInv => RelockKept
  BY DEF UpdateInv, Integrated, Kept, RelockKept
<1>2. UpdateInv => OkMeansIntegrated
  <2> SUFFICES ASSUME UpdateInv, status = "ok", ~raced
               PROVE  /\ relocked => Contains(main, Relock)
                      /\ "mine" \in edits => stash = <<"mine">>
    BY DEF OkMeansIntegrated
  <2>1. relocked => Contains(main, Relock)
    BY DEF UpdateInv, Integrated, Placed
  <2>2. ~Stashed /\ Calm
    BY DEF UpdateInv, Kinds, Stashed, Calm
  <2>3. stash = Older
    BY <2>2 DEF UpdateInv, Tidy
  <2> QED BY <2>1, <2>3 DEF Older
<1>3. UpdateInv => UndisturbedIntegrates
  BY DEF UpdateInv, UndisturbedIntegrates, Undisturbed, Diverged, Kinds
<1>4. UpdateInv => RelockArrives
  BY <1>1, <1>2, <1>3 DEF RelockArrives
<1> QED BY <1>4, Always, PTL

-----------------------------------------------------------------------------
(* A command on its way to the real tool.                                  *)

\* The least element of a set of numbers, as FirstWhere takes it.
LEMMA LeastIs ==
  ASSUME NEW S \in SUBSET Nat, NEW k \in S, \A j \in S : k <= j
  PROVE  (CHOOSE i \in S : \A j \in S : i <= j) = k
<1> DEFINE c == CHOOSE i \in S : \A j \in S : i <= j
<1>1. c \in S /\ \A j \in S : c <= j
  <2>1. \E i \in S : \A j \in S : i <= j
    OBVIOUS
  <2> QED BY <2>1
<1> HIDE DEF c
<1>2. c = k
  BY <1>1
<1> QED BY <1>2 DEF c

\* Two lists with the same elements are one.
LEMMA SameList ==
  ASSUME NEW S, NEW s \in Seq(S), NEW t \in Seq(S), Len(s) = Len(t), \A i \in 1 .. Len(s) : s[i] = t[i]
  PROVE  s = t
OBVIOUS

\* Programs a command ends in, and commands that pn runs: a tool by its name,
\* the script, or a program behind sudo and env, each with any arguments.
Programs == {"nix", "darwin-rebuild", "nix-env", "/out/darwin-rebuild"}
Line(p, a) == <<p>> \o a
Tools(T) == {Line(p, a) : p \in Programs, a \in Seq(T)}
EnvTools(T) == {<<"env">> \o e \o y : e \in Seq({"-i", "A=1"}), y \in Tools(T)}
SudoArgs(T) == {s \o y : s \in {<<>>, <<"-E">>}, y \in Tools(T) \cup EnvTools(T)}
Calls(T) == (WrappedCommands \X Seq(T)) \cup ({"sudo"} \X SudoArgs(T)) \cup {<<"./update-locks.sh", <<>>>>}
IssuedCommands(T) ==
  {[name |-> c[1], args |-> c[2], nix |-> n, trace |-> t] : c \in Calls(T), n \in BOOLEAN, t \in BOOLEAN}

\* Every word there is.
AllWords(T) == T \cup {"-E", "-i", "A=1", "env", "sudo"} \cup Programs

\* What sudo and env leave of a command line.
LEMMA EnvLeaves ==
  ASSUME NEW A, NEW e \in Seq({"-i", "A=1"}), NEW p \in Programs \cap A, NEW a \in Seq(A), "env" \in A, {"-i", "A=1"} \subseteq A
  PROVE  AfterEnv(<<"env">> \o e \o (<<p>> \o a)) = <<p>> \o a
<1> DEFINE argv == <<"env">> \o e \o (<<p>> \o a)  s == Tail(argv)  n == Len(e) + 1
           found == {i \in DOMAIN s : ~(s[i] = "-i" \/ s[i] \in {"A=1"})}
<1>1. e \in Seq(A) /\ <<p>> \in Seq(A) /\ Len(e) \in Nat /\ Len(a) \in Nat
  OBVIOUS
<1>2. argv \in Seq(A) /\ argv # <<>> /\ Head(argv) = "env" /\ s = e \o (<<p>> \o a)
  BY <1>1
<1>3. /\ Len(s) = n + Len(a) /\ s \in Seq(A)
      /\ \A i \in 1 .. Len(e) : s[i] = e[i]
      /\ s[n] = p
      /\ \A i \in 1 .. Len(a) : s[n + i] = a[i]
  BY <1>1, <1>2
<1> HIDE DEF s, argv
<1>4. n \in found /\ \A j \in found : n <= j /\ j \in Nat
  <2>1. n \in DOMAIN s /\ ~(s[n] = "-i" \/ s[n] \in {"A=1"})
    BY <1>1, <1>3 DEF Programs
  <2>2. \A i \in 1 .. Len(e) : s[i] = "-i" \/ s[i] \in {"A=1"}
    BY <1>1, <1>3
  <2> QED BY <2>1, <2>2, <1>1, <1>3
<1>5. AfterEnv(argv) = From(s, n)
  <2> DEFINE k == CHOOSE i \in found : \A j \in found : i <= j
  <2>1. k = n
    BY <1>4, LeastIs
  <2>2. found # {} /\ n # 0
    BY <1>4, <1>1
  <2>3. AfterEnv(argv) = SkipWhile(s, LAMBDA t : t = "-i" \/ IsAssignment(t))
    BY <1>2 DEF AfterEnv, s
  <2>4. SkipWhile(s, LAMBDA t : t = "-i" \/ IsAssignment(t)) =
        IF (IF found = {} THEN 0 ELSE k) = 0 THEN <<>> ELSE From(s, IF found = {} THEN 0 ELSE k)
    BY DEF SkipWhile, FirstWhere, IsAssignment
  <2> HIDE DEF k, found, n
  <2> QED BY <2>1, <2>2, <2>3, <2>4
<1>6. From(s, n) = <<p>> \o a
  <2> DEFINE t == SubSeq(s, n, Len(s))  u == <<p>> \o a
  <2>1. n \in Nat \ {0} /\ n <= Len(s) /\ p \in A
    BY <1>1, <1>3
  <2>2. u \in Seq(A) /\ Len(u) = Len(a) + 1 /\ u[1] = p /\ \A i \in 1 .. Len(a) : u[i + 1] = a[i]
    BY <1>1, <2>1
  <2>3. t \in Seq(A) /\ Len(t) = Len(a) + 1 /\ \A i \in 1 .. Len(a) + 1 : t[i] = s[n + i - 1]
    BY <1>1, <1>3, <2>1
  <2> HIDE DEF t, u
  <2>4. ASSUME NEW i \in 1 .. Len(a) + 1  PROVE t[i] = u[i]
    <3>1. CASE i = 1
      <4>1. n + i - 1 = n
        BY <3>1, <2>1
      <4> QED BY <4>1, <3>1, <2>2, <2>3, <1>3
    <3>2. CASE i # 1
      <4> DEFINE j == i - 1
      <4>1. j \in 1 .. Len(a) /\ j + 1 = i /\ n + i - 1 = n + j
        BY <3>2, <2>1, <1>1
      <4> HIDE DEF j
      <4>2. t[i] = s[n + j] /\ s[n + j] = a[j]
        BY <4>1, <2>3, <1>3
      <4>3. u[i] = a[j]
        BY <4>1, <2>2
      <4> QED BY <4>2, <4>3
    <3> QED BY <3>1, <3>2
  <2>5. t = u
    BY <2>2, <2>3, <2>4, SameList
  <2> QED BY <2>5 DEF From, t, u
<1> QED BY <1>5, <1>6 DEF argv

\* Behind sudo and its option stands the command.
LEMMA SudoLeaves ==
  ASSUME NEW A, "sudo" \in A, "-E" \in A, NEW s \in {<<>>, <<"-E">>}, NEW y \in Seq(A), y # <<>>, ~IsOption(Head(y))
  PROVE  AfterSudo(<<"sudo">> \o (s \o y)) = y
<1> DEFINE x == s \o y  argv == <<"sudo">> \o x  n == Len(s) + 1
           found == {i \in DOMAIN x : ~IsOption(x[i])}
           k == CHOOSE i \in found : \A j \in found : i <= j
<1>0. s \in Seq(A) /\ Len(s) \in {0, 1} /\ Len(y) \in Nat /\ Len(y) # 0
  <2>1. s = <<>> \/ s = <<"-E">>
    OBVIOUS
  <2>2. <<>> \in Seq(A) /\ <<"-E">> \in Seq(A) /\ Len(<<>>) = 0 /\ Len(<<"-E">>) = 1
    OBVIOUS
  <2>3. Len(y) \in Nat /\ Len(y) # 0
    OBVIOUS
  <2> QED BY <2>1, <2>2, <2>3
<1>1. x \in Seq(A) /\ Len(x) = Len(s) + Len(y) /\ \A i \in 1 .. Len(y) : x[Len(s) + i] = y[i]
  BY <1>0
<1>2. Len(s) = 1 => x[1] = "-E"
  <2>1. s = <<>> \/ s = <<"-E">>
    OBVIOUS
  <2>2. CASE s = <<"-E">>
    <3>1. x[1] = s[1] /\ s[1] = "-E"
      BY <2>2, <1>0
    <3> QED BY <3>1
  <2>3. CASE s = <<>>
    <3>1. Len(s) = 0
      BY <2>3
    <3> QED BY <3>1
  <2> QED BY <2>1, <2>2, <2>3
<1> HIDE DEF x
<1>3. argv \in Seq(A) /\ argv # <<>> /\ Head(argv) = "sudo" /\ Tail(argv) = x
  BY <1>1
<1> HIDE DEF argv
<1>4. n \in found /\ \A j \in found : n <= j /\ j \in Nat
  <2>1. n \in DOMAIN x /\ x[n] = Head(y)
    BY <1>0, <1>1
  <2>2. \A i \in 1 .. Len(x) : i < n => IsOption(x[i])
    <3>1. IsOption("-E")
      BY DEF IsOption
    <3>2. ASSUME NEW i \in 1 .. Len(x), i < n  PROVE i = 1 /\ Len(s) = 1
      <4>1. i \in Nat /\ i >= 1 /\ i < Len(s) + 1
        BY <3>2, <1>0, <1>1
      <4> DEFINE m == Len(s)
      <4>2. m = 0 \/ m = 1
        BY <1>0
      <4>3. i < m + 1
        BY <4>1
      <4> HIDE DEF m
      <4>4. i = 1 /\ m = 1
        BY ONLY <4>1, <4>2, <4>3
      <4> QED BY <4>4 DEF m
    <3> QED BY <3>1, <3>2, <1>2
  <2> QED BY <2>1, <2>2, <1>0, <1>1
<1>5. AfterSudo(argv) = From(x, n)
  <2>1. k = n
    BY <1>4, LeastIs
  <2>2. found # {} /\ n # 0
    BY <1>4, <1>0
  <2>3. AfterSudo(argv) = SkipWhile(x, IsOption)
    BY <1>3 DEF AfterSudo, BaseName
  <2>4. SkipWhile(x, IsOption) =
        IF (IF found = {} THEN 0 ELSE k) = 0 THEN <<>> ELSE From(x, IF found = {} THEN 0 ELSE k)
    BY DEF SkipWhile, FirstWhere
  <2> HIDE DEF k, found, n
  <2> QED BY <2>1, <2>2, <2>3, <2>4
<1>6. From(x, n) = y
  BY <1>0, <1>1 DEF From
<1> QED BY <1>5, <1>6 DEF argv, x

\* Where the wrapper finds its command: the function that ParseArgs computes
\* from the end of its arguments.
Parses(args, starts) ==
  starts = [i \in 1 .. Len(args) + 2 |->
          IF i > Len(args) THEN IF i = Len(args) + 1 THEN i ELSE 0
          ELSE IF args[i] = "--" THEN i + 1
          ELSE IF args[i] \in OwnFlags THEN starts[i + 1]
          ELSE IF args[i] \in OwnValueFlags THEN starts[i + 2]
          ELSE IF args[i] = "--unknown" THEN 0 ELSE i]

\* The recursion of CmdStartsAt has a solution, and CmdStartsAt is its first value.
LEMMA ParseExists ==
  ASSUME NEW A, NEW args \in Seq(A)
  PROVE  \E starts : Parses(args, starts) /\ CmdStartsAt(args) = starts[1]
<1> DEFINE n == Len(args) + 2
           Body(i, starts) ==
             IF i > Len(args) THEN IF i = Len(args) + 1 THEN i ELSE 0
             ELSE IF args[i] = "--" THEN i + 1
             ELSE IF args[i] \in OwnFlags THEN starts[i + 1]
             ELSE IF args[i] \in OwnValueFlags THEN starts[i + 2]
             ELSE IF args[i] = "--unknown" THEN 0 ELSE i
           From0(m, starts) == \A i \in n - m .. n : starts[i] = Body(i, starts)
           Fine == {m \in Nat : m < n => \E starts : From0(m, starts)}
<1>0. n \in Nat /\ n = Len(args) + 2 /\ n >= 2
  OBVIOUS
<1>1. 0 \in Fine
  <2> DEFINE starts == [i \in n .. n |-> 0]
  <2>1. \A i \in n .. n : starts[i] = Body(i, starts)
    <3>1. n \in n .. n /\ \A i \in n .. n : i = n
      BY <1>0
    <3>2. starts[n] = 0
      BY <3>1
    <3>3. Body(n, starts) = 0
      OBVIOUS
    <3> HIDE DEF Body, starts, n
    <3> QED BY <3>1, <3>2, <3>3
  <2>2. From0(0, starts)
    BY <2>1, <1>0
  <2> HIDE DEF From0, starts
  <2> QED BY <2>2
<1>2. ASSUME NEW m \in Fine, m + 1 < n  PROVE \E starts : From0(m + 1, starts)
  <2>0. m \in Nat
    OBVIOUS
  <2>1. PICK f : From0(m, f)
    <3> HIDE DEF From0
    <3> QED BY <1>0, <1>2, <2>0
  <2> DEFINE j == n - (m + 1)  g == [i \in j .. n |-> IF i = j THEN Body(j, f) ELSE f[i]]
  <2>2. j \in Nat /\ j < n /\ n - m = j + 1
    BY <1>0, <1>2, <2>0
  <2>3. g[j] = Body(j, f) /\ \A i \in j + 1 .. n : g[i] = f[i]
    BY <2>2, <1>0
  <2>4. \A i \in j .. n : Body(i, g) = Body(i, f)
    <3>1. SUFFICES ASSUME NEW i \in j .. n  PROVE Body(i, g) = Body(i, f)
      OBVIOUS
    <3>2. CASE i > Len(args)
      BY <3>2, <1>0
    <3>3. CASE ~(i > Len(args))
      <4>1. i + 1 \in j + 1 .. n /\ i + 2 \in j + 1 .. n
        <5> HIDE DEF n, j
        <5> QED BY <3>3, <2>2, <1>0
      <4>2. g[i + 1] = f[i + 1] /\ g[i + 2] = f[i + 2]
        BY <4>1, <2>3
      <4> HIDE DEF g
      <4> QED BY <4>2
    <3> QED BY <3>2, <3>3
  <2> HIDE DEF g, Body
  <2>5. \A i \in j .. n : i = j \/ i \in j + 1 .. n
    BY <2>2, <1>0
  <2>6. \A i \in j .. n : g[i] = Body(i, g)
    BY <2>1, <2>2, <2>3, <2>4, <2>5
  <2>7. From0(m + 1, g)
    BY <2>6
  <2> HIDE DEF From0
  <2> QED BY <2>7
<1>3. \A m \in Fine : m + 1 \in Fine
  <2>1. \A m \in Fine : m + 1 \in Nat
    OBVIOUS
  <2> HIDE DEF From0, n
  <2> QED BY <2>1, <1>2
<1>4. n - 1 \in Fine
  <2>1. Fine \in SUBSET Nat
    OBVIOUS
  <2>2. n - 1 \in Nat
    BY <1>0
  <2> HIDE DEF Fine
  <2> QED BY <2>1, <2>2, <1>1, <1>3, EveryNumber
<1>5. PICK f : From0(n - 1, f)
  <2> HIDE DEF From0
  <2> QED BY <1>0, <1>4
<1> DEFINE h == [i \in 1 .. n |-> f[i]]
<1>6. \A i \in 1 .. n : h[i] = Body(i, h)
  <2>1. SUFFICES ASSUME NEW i \in 1 .. n  PROVE h[i] = Body(i, h)
    OBVIOUS
  <2>2. f[i] = Body(i, f)
    <3>1. n - (n - 1) = 1
      BY <1>0
    <3> HIDE DEF Body
    <3> QED BY <3>1, <1>5
  <2>3. Body(i, h) = Body(i, f)
    <3>2. CASE i > Len(args)
      BY <3>2, <1>0
    <3>3. CASE ~(i > Len(args))
      <4>1. i + 1 \in 1 .. n /\ i + 2 \in 1 .. n
        BY <3>3, <1>0
      <4>2. h[i + 1] = f[i + 1] /\ h[i + 2] = f[i + 2]
        BY <4>1
      <4> HIDE DEF h
      <4> QED BY <4>2
    <3> QED BY <3>2, <3>3
  <2> HIDE DEF Body
  <2> QED BY <2>2, <2>3
<1>7. Parses(args, h)
  <2>1. h = [i \in 1 .. n |-> h[i]]
    OBVIOUS
  <2> HIDE DEF h
  <2>2. h = [i \in 1 .. n |-> Body(i, h)]
    <3> HIDE DEF Body
    <3> QED BY <2>1, <1>6
  <2> QED BY <2>2, Zenon DEF Parses
<1> DEFINE starts == CHOOSE starts : Parses(args, starts)
<1>8. CmdStartsAt(args) = starts[1]
  BY DEF CmdStartsAt, Parses
<1>9. Parses(args, starts)
  <2> HIDE DEF h
  <2> QED BY <1>7
<1> QED BY <1>8, <1>9

\* The flags that pn and the script put in front of a command.
FlagWords == {"--traceparent", "tp", "--otlp-endpoint", "url", "--log-dir", "dir", "--"}

ForRoot == <<"--traceparent", "tp", "--otlp-endpoint", "url", "--">>
ForUser == <<"--traceparent", "tp", "--otlp-endpoint", "url", "--log-dir", "dir", "--">>
Bare == <<"--otlp-endpoint", "url", "--">>

FrontFlags == {WrapperFlags(TRUE), WrapperFlags(FALSE), Bare}

\* What WrapperFlags writes out to.
LEMMA FlagsAre == WrapperFlags(TRUE) = ForRoot /\ WrapperFlags(FALSE) = ForUser
<1> DEFINE S == {"--traceparent", "tp", "--otlp-endpoint", "url", "--log-dir", "dir", "--"}
           a == <<"--traceparent", "tp", "--otlp-endpoint", "url">>
           b == <<"--log-dir", "dir">>
           c == <<"--">>
<1>1. a \in Seq(S) /\ b \in Seq(S) /\ c \in Seq(S) /\ Len(a) = 4 /\ Len(b) = 2 /\ Len(c) = 1
  OBVIOUS
<1>2. ForRoot \in Seq(S) /\ Len(ForRoot) = 5 /\ ForUser \in Seq(S) /\ Len(ForUser) = 7
  BY DEF ForRoot, ForUser
<1>3. a \o <<>> \o c = ForRoot
  <2>1. a \o <<>> = a
    BY <1>1
  <2>2. a \o c \in Seq(S) /\ Len(a \o c) = 5 /\ (a \o c)[5] = c[1] /\ \A i \in 1 .. 4 : (a \o c)[i] = a[i]
    BY <1>1
  <2>3. \A i \in 1 .. 4 : ForRoot[i] = a[i]
    BY DEF ForRoot
  <2>4. ForRoot[5] = c[1]
    BY DEF ForRoot
  <2>5. \A i \in 1 .. 5 : i = 5 \/ i \in 1 .. 4
    OBVIOUS
  <2> HIDE DEF a, c, S
  <2>6. \A i \in 1 .. 5 : (a \o c)[i] = ForRoot[i]
    BY <2>2, <2>3, <2>4, <2>5
  <2> QED BY <1>2, <2>1, <2>2, <2>6, SameList
<1>4. a \o b \o c = ForUser
  <2>2. /\ a \o b \o c \in Seq(S) /\ Len(a \o b \o c) = 7
        /\ (a \o b \o c)[7] = c[1] /\ (a \o b \o c)[5] = b[1] /\ (a \o b \o c)[6] = b[2]
        /\ \A i \in 1 .. 4 : (a \o b \o c)[i] = a[i]
    BY <1>1
  <2>3. \A i \in 1 .. 4 : ForUser[i] = a[i]
    BY DEF ForUser
  <2>4. ForUser[5] = b[1] /\ ForUser[6] = b[2] /\ ForUser[7] = c[1]
    BY DEF ForUser
  <2>5. \A i \in 1 .. 7 : i = 5 \/ i = 6 \/ i = 7 \/ i \in 1 .. 4
    OBVIOUS
  <2> HIDE DEF a, b, c, S
  <2>6. \A i \in 1 .. 7 : (a \o b \o c)[i] = ForUser[i]
    BY <2>2, <2>3, <2>4, <2>5
  <2> QED BY <1>2, <2>2, <2>6, SameList
<1> QED BY <1>3, <1>4 DEF WrapperFlags

\* Behind them the wrapper finds the command, whatever it is, and among them the
\* endpoint.
LEMMA FlagsParse ==
  ASSUME NEW A, FlagWords \subseteq A, NEW flags \in FrontFlags, NEW cmd \in Seq(A), cmd # <<>>
  PROVE  /\ flags \o cmd \in Seq(A)
         /\ CmdStartsAt(flags \o cmd) = Len(flags) + 1
         /\ From(flags \o cmd, Len(flags) + 1) = cmd
         /\ Len(flags) \in Nat
         /\ \E i \in 1 .. Len(flags) : (flags \o cmd)[i] = "--otlp-endpoint"
<1> DEFINE args == flags \o cmd
<1>1. /\ \A i \in 1 .. Len(flags) : args[i] = flags[i]
      /\ \A i \in 1 .. Len(cmd) : args[Len(flags) + i] = cmd[i]
      /\ Len(args) = Len(flags) + Len(cmd) /\ args \in Seq(A) /\ Len(flags) \in Nat /\ Len(cmd) \in Nat
  <2>1. flags \in Seq(A)
    <3>1. \A f \in FrontFlags : f = ForRoot \/ f = ForUser \/ f = Bare
      BY FlagsAre DEF FrontFlags
    <3>2. ForRoot \in Seq(A) /\ ForUser \in Seq(A) /\ Bare \in Seq(A)
      BY DEF FlagWords, ForRoot, ForUser, Bare
    <3> QED BY <3>1, <3>2
  <2> QED BY <2>1
<1>2. From(args, Len(flags) + 1) = cmd
  BY <1>1 DEF From
<1> HIDE DEF args
<1>3. PICK starts : Parses(args, starts) /\ CmdStartsAt(args) = starts[1]
  BY <1>1, ParseExists
<1>4. ASSUME NEW i \in 1 .. Len(flags)
      PROVE  /\ args[i] = "--" => starts[i] = i + 1
             /\ args[i] \in OwnValueFlags => starts[i] = starts[i + 2]
  <2>1. i \in 1 .. Len(args) + 2 /\ ~(i > Len(args))
    BY <1>1
  <2>2. starts[i] = IF args[i] = "--" THEN i + 1
                    ELSE IF args[i] \in OwnFlags THEN starts[i + 1]
                    ELSE IF args[i] \in OwnValueFlags THEN starts[i + 2]
                    ELSE IF args[i] = "--unknown" THEN 0 ELSE i
    BY <2>1, <1>1, <1>3 DEF Parses
  <2> QED BY <2>2 DEF OwnFlags, OwnValueFlags
<1>5. CASE flags = WrapperFlags(TRUE)
  <2>1. flags = <<"--traceparent", "tp", "--otlp-endpoint", "url", "--">>
    BY <1>5, FlagsAre DEF ForRoot
  <2>2. Len(flags) = 5 /\ args[1] = "--traceparent" /\ args[3] = "--otlp-endpoint" /\ args[5] = "--"
    BY <2>1, <1>1
  <2>3. starts[1] = starts[3] /\ starts[3] = starts[5] /\ starts[5] = 6
    BY <2>2, <1>4 DEF OwnValueFlags
  <2> QED BY <2>2, <2>3, <1>1, <1>2, <1>3 DEF args
<1>6. CASE flags = WrapperFlags(FALSE)
  <2>1. flags = <<"--traceparent", "tp", "--otlp-endpoint", "url", "--log-dir", "dir", "--">>
    BY <1>6, FlagsAre DEF ForUser
  <2>2. Len(flags) = 7 /\ args[1] = "--traceparent" /\ args[3] = "--otlp-endpoint" /\ args[5] = "--log-dir" /\ args[7] = "--"
    BY <2>1, <1>1
  <2>3. starts[1] = starts[3] /\ starts[3] = starts[5] /\ starts[5] = starts[7] /\ starts[7] = 8
    BY <2>2, <1>4 DEF OwnValueFlags
  <2> QED BY <2>2, <2>3, <1>1, <1>2, <1>3 DEF args
<1>7. CASE flags = Bare
  <2>2. Len(flags) = 3 /\ args[1] = "--otlp-endpoint" /\ args[3] = "--"
    BY <1>7, <1>1 DEF Bare
  <2>3. starts[1] = starts[3] /\ starts[3] = 4
    BY <2>2, <1>4 DEF OwnValueFlags
  <2> QED BY <2>2, <2>3, <1>1, <1>2, <1>3 DEF args
<1> QED BY <1>5, <1>6, <1>7 DEF FrontFlags

\* The shapes of a call: by name, the script, or behind sudo, with or without
\* its option and env.
Shape ==
  CASE asked.name \in WrappedCommands -> AskedTool = <<asked.name>> \o asked.args
    [] asked.name = "./update-locks.sh" -> AskedTool = <<"nix", "flake", "lock">>
    [] OTHER ->
         LET behind == IF Head(asked.args) = "-E" THEN Tail(asked.args) ELSE asked.args
         IN /\ asked.name = "sudo" /\ asked.args # <<>>
            /\ Head(behind) \in Programs \cup {"env"} /\ Head(AskedTool) \in Programs
            /\ Head(behind) \in Programs => behind = AskedTool
            /\ Head(behind) = "env" => AfterEnv(<<"env">> \o Tail(behind)) = AskedTool

\* Every issued command has one of the shapes.
LEMMA ShapeOfCalls ==
  ASSUME NEW T, asked \in IssuedCommands(T)
  PROVE  /\ asked.name \in WrappedCommands \cup {"sudo", "./update-locks.sh"}
         /\ asked.nix \in BOOLEAN
         /\ asked.args \in Seq(AllWords(T) \cup FlagWords \cup {"flake", "lock"}) 
         /\ AskedTool \in Seq(AllWords(T) \cup FlagWords \cup {"flake", "lock"}) /\ AskedTool # <<>>
         /\ Shape
<1> DEFINE A == AllWords(T) \cup FlagWords \cup {"flake", "lock"}
<1>1. PICK c \in Calls(T), n \in BOOLEAN, t \in BOOLEAN :
        asked = [name |-> c[1], args |-> c[2], nix |-> n, trace |-> t]
  BY DEF IssuedCommands
<1>2. asked.name = c[1] /\ asked.args = c[2] /\ asked.nix \in BOOLEAN
  BY <1>1
<1>3. {"-E", "-i", "A=1", "env", "sudo", "flake", "lock", "nix"} \subseteq A /\ Programs \subseteq A /\ T \subseteq A
  BY DEF AllWords, Programs
<1>4. WrappedCommands \subseteq Programs /\ "sudo" \notin WrappedCommands /\ "./update-locks.sh" \notin WrappedCommands
      /\ "env" \notin Programs
  BY DEF WrappedCommands, Programs
<1> HIDE DEF A
<1>5. CASE c \in WrappedCommands \X Seq(T)
  <2>1. asked.name \in WrappedCommands /\ asked.args \in Seq(A)
    BY <1>2, <1>3, <1>5
  <2> DEFINE argv == <<asked.name>> \o asked.args
  <2>2. asked.name \in A
    BY <2>1, <1>3, <1>4
  <2>3. argv \in Seq(A) /\ argv # <<>> /\ Head(argv) = asked.name
    BY <2>1, <2>2
  <2> HIDE DEF argv
  <2>4. BaseName(Head(argv)) # "sudo" /\ Head(argv) # "env" /\ asked.name # "./update-locks.sh"
    BY <2>1, <2>3 DEF BaseName, WrappedCommands
  <2>5. AfterSudo(argv) = argv /\ AfterEnv(argv) = argv
    BY <2>4 DEF AfterSudo, AfterEnv
  <2>6. AskedTool = argv
    BY <2>4, <2>5 DEF AskedTool, argv
  <2>7. Shape
    BY <2>1, <2>4, <2>6 DEF Shape, argv
  <2> QED BY <1>2, <2>1, <2>3, <2>6, <2>7 DEF A
<1>6. CASE c = <<"./update-locks.sh", <<>>>>
  <2>1. asked.name = "./update-locks.sh" /\ asked.args = <<>>
    BY <1>2, <1>6
  <2>2. AskedTool = <<"nix", "flake", "lock">>
    BY <2>1 DEF AskedTool
  <2>3. AskedTool \in Seq(A) /\ AskedTool # <<>> /\ asked.args \in Seq(A)
    BY <2>1, <2>2, <1>3
  <2>4. Shape
    BY <2>1, <2>2, <1>4 DEF Shape
  <2> QED BY <1>2, <2>1, <2>3, <2>4 DEF A
<1>7. CASE c \in {"sudo"} \X SudoArgs(T)
  <2>1. asked.name = "sudo" /\ asked.args \in SudoArgs(T)
    BY <1>2, <1>7
  <2>2. PICK s \in {<<>>, <<"-E">>}, y \in Tools(T) \cup EnvTools(T) : asked.args = s \o y
    BY <2>1 DEF SudoArgs
  <2>3. PICK p \in Programs, a \in Seq(T) :
          \/ y = Line(p, a)
          \/ \E g \in Seq({"-i", "A=1"}) : y = <<"env">> \o g \o Line(p, a)
    <3>1. ASSUME NEW z \in Tools(T)  PROVE \E p \in Programs, a \in Seq(T) : z = Line(p, a)
      BY DEF Tools
    <3>2. CASE y \in Tools(T)
      BY <3>1, <3>2, Zenon
    <3>3. CASE y \in EnvTools(T)
      <4>1. PICK g \in Seq({"-i", "A=1"}), z \in Tools(T) : y = <<"env">> \o g \o z
        BY <3>3 DEF EnvTools
      <4> QED BY <3>1, <4>1, Zenon
    <3> QED BY <3>2, <3>3
  <2>4. p \in A /\ a \in Seq(A) /\ <<p>> \o a \in Seq(A) /\ <<p>> \o a # <<>> /\ Head(<<p>> \o a) = p
    BY <1>3
  <2>5. ASSUME NEW g \in Seq({"-i", "A=1"}), y = <<"env">> \o g \o Line(p, a)
        PROVE  y \in Seq(A) /\ y # <<>> /\ Head(y) = "env" /\ AfterEnv(y) = <<p>> \o a
    <3>1. g \in Seq(A) /\ <<"env">> \in Seq(A)
      BY <1>3
    <3>2. y \in Seq(A) /\ y # <<>> /\ Head(y) = "env"
      BY <3>1, <2>4, <2>5 DEF Line
    <3>3. AfterEnv(y) = <<p>> \o a
      <4>1. p \in Programs \cap A /\ "env" \in A /\ {"-i", "A=1"} \subseteq A
        BY <2>4, <1>3
      <4>2. AfterEnv(<<"env">> \o g \o (<<p>> \o a)) = <<p>> \o a
        <5>1. a \in Seq(A)
          BY <2>4
        <5> QED BY ONLY <4>1, <5>1, g \in Seq({"-i", "A=1"}), EnvLeaves
      <4> QED BY <4>2, <2>5 DEF Line
    <3> QED BY <3>2, <3>3
  <2>6. /\ y \in Seq(A) /\ y # <<>> /\ Head(y) \in Programs \cup {"env"}
        /\ AfterEnv(y) = <<p>> \o a /\ (Head(y) # "env" => y = <<p>> \o a)
    <3>1. CASE y = <<p>> \o a
      <4>1. y \in Seq(A) /\ y # <<>> /\ Head(y) = p
        BY <3>1, <2>4
      <4>2. AfterEnv(y) = y
        BY <4>1, <1>4 DEF AfterEnv
      <4> QED BY <3>1, <4>1, <4>2
    <3> QED BY <3>1, <2>3, <2>5 DEF Line
  <2>7. ~IsOption(Head(y))
    BY <2>6 DEF IsOption, Programs
  <2>8. AfterSudo(<<"sudo">> \o asked.args) = y
    BY <2>2, <2>6, <2>7, <1>3, SudoLeaves
  <2>9. AskedTool = AfterEnv(y)
    BY <2>1, <2>8 DEF AskedTool
  <2>11. AskedTool \in Seq(A) /\ AskedTool # <<>> /\ Head(AskedTool) = p
    BY <2>4, <2>6, <2>9
  <2>12. y = IF Head(asked.args) = "-E" THEN Tail(asked.args) ELSE asked.args
    <3>1. CASE s = <<>>
      <4>1. asked.args = y
        BY <3>1, <2>2, <2>6
      <4>2. Head(y) # "-E"
        BY <2>7 DEF IsOption
      <4> QED BY <4>1, <4>2
    <3>2. CASE s = <<"-E">>
      <4>1. Head(asked.args) = "-E" /\ Tail(asked.args) = y
        BY <3>2, <2>2, <2>6, <1>3
      <4> QED BY <4>1
    <3> QED BY <3>1, <3>2
  <2>13. asked.args \in Seq(A) /\ asked.args # <<>>
    <3>1. <<>> \in Seq(A) /\ <<"-E">> \in Seq(A)
      BY <1>3
    <3>2. s \in Seq(A)
      <4>1. s = <<>> \/ s = <<"-E">>
        OBVIOUS
      <4> QED BY <4>1, <3>1
    <3> QED BY <3>2, <2>2, <2>6
  <2>14. Head(y) = "env" => y = <<"env">> \o Tail(y)
    BY <2>6
  <2>16. Shape
    BY <2>1, <2>4, <2>6, <2>9, <2>11, <2>12, <2>13, <2>14, <1>4 DEF Shape
  <2> QED BY <1>2, <2>1, <2>11, <2>13, <2>16 DEF A
<1> QED BY <1>5, <1>6, <1>7 DEF Calls

\* The operation label is one of the table, or other.
LEMMA LabelKnown == \A name, args : ExecSubcommand(name, args) \in ExecSubcommands \cup {<<"other">>}
<1> SUFFICES ASSUME NEW name, NEW args PROVE ExecSubcommand(name, args) \in ExecSubcommands \cup {<<"other">>}
  OBVIOUS
<1> DEFINE argv == AfterEnv(AfterSudo(<<name>> \o args))
           tool == BaseName(Head(argv))
           words == SubcommandTokens(Tail(argv))
           longest == IF tool = "nix" /\ Len(words) > 2 THEN 3
                      ELSE IF words = <<>> THEN 0 ELSE IF tool = "nix" THEN Len(words) ELSE 1
           keys == IF tool = "nix-env" THEN <<<<tool>>>>
                   ELSE [n \in 1 .. longest |-> <<tool>> \o SubSeq(words, 1, longest + 1 - n)]
           found == {i \in DOMAIN keys : keys[i] \in ExecSubcommands}
           k == CHOOSE i \in found : \A j \in found : i <= j
           i == FirstWhere(keys, LAMBDA key : key \in ExecSubcommands)
<1>1. ExecSubcommand(name, args) = IF argv = <<>> \/ i = 0 THEN <<"other">> ELSE keys[i]
  BY DEF ExecSubcommand
<1>2. i = IF found = {} THEN 0 ELSE k
  BY DEF FirstWhere
<1>3. DOMAIN keys \subseteq Nat
  <2>1. DOMAIN keys = 1 .. 1 \/ DOMAIN keys = 1 .. longest
    <3>1. DOMAIN <<<<tool>>>> = 1 .. 1
      OBVIOUS
    <3> HIDE DEF tool, words, longest
    <3> QED BY <3>1
  <2>2. \A x : 1 .. x \subseteq Nat
    OBVIOUS
  <2> HIDE DEF keys, longest
  <2> QED BY <2>1, <2>2, Zenon
<1> HIDE DEF argv, keys, i
<1>4. found # {} => keys[k] \in ExecSubcommands
  <2>1. ASSUME found # {}  PROVE k \in found
    <3>1. found \in SUBSET Nat
      BY <1>3
    <3>2. \E j \in found : \A l \in found : j <= l
      <4> HIDE DEF found
      <4> QED BY <3>1, <2>1, LeastIn
    <3> HIDE DEF found
    <3> QED BY <3>2
  <2> HIDE DEF k
  <2> QED BY <2>1
<1> HIDE DEF found, k
<1> QED BY <1>1, <1>2, <1>4

\* A run that is to be observed: reported as wrapped, and nothing switches the
\* wrapper off.
Unhindered == wrapped = "" /\ conf.files /\ conf.off # "=true"
Seen == (observed = 1 => proc.active) /\ (Unhindered => observed = 1)
ByUser == proc.root <=> asked.name = "sudo"
Onward == <<"nix", "build">>

\* What each process has been started with.
AtPn ==
  /\ observed = 0 /\ ~proc.root /\ ~proc.active /\ wrapped = ""
  /\ proc.disabled <=> conf.off \in {"=1", "=true"}
AtSudo ==
  /\ asked.name = "sudo" /\ observed = 0 /\ ~proc.root
  /\ \/ wrapped # "" /\ proc.args = asked.args
     \/ /\ conf.wrapper = "store" /\ Head(AskedTool) \in WrappedCommands
        /\ proc.args = <<"wrapper">> \o (WrapperFlags(TRUE) \o AskedTool)
AtEnv ==
  /\ asked.name = "sudo" /\ observed = 0 /\ proc.root /\ wrapped # ""
  /\ AfterEnv(<<"env">> \o proc.args) = AskedTool
AtScript == asked.name = "./update-locks.sh" /\ observed = 0 /\ ~proc.root /\ wrapped # ""
AtWrapper ==
  /\ observed = 0 /\ ByUser /\ (proc.root => conf.wrapper = "store")
  /\ Head(AskedTool) \in WrappedCommands
  /\ \E flags \in FrontFlags : proc.args = flags \o AskedTool
AtTool ==
  /\ ByUser
  /\ \/ observed = 0 /\ wrapped # "" /\ <<proc.prog>> \o proc.args = AskedTool
     \/ <<proc.prog>> \o proc.args = Onward /\ Head(AskedTool) = "darwin-rebuild" /\ Seen
AtReal ==
  /\ ByUser /\ Seen /\ Head(proc.args) \in WrappedCommands
  /\ proc.args = AskedTool \/ (proc.args = Onward /\ Head(AskedTool) = "darwin-rebuild")

OnTheWay == {"pn", "sudo", "env", "./update-locks.sh", "wrapper"}
Stops == {"refused", "not found", "real", "end"}

Situated ==
  /\ proc.prog = "pn" => AtPn
  /\ proc.prog = "sudo" => AtSudo
  /\ proc.prog = "env" => AtEnv
  /\ proc.prog = "./update-locks.sh" => AtScript
  /\ proc.prog = "wrapper" => AtWrapper
  /\ proc.prog \in Programs => AtTool
  /\ proc.prog = "real" => AtReal
  /\ proc.prog = "end" => Seen

ProcTypes ==
  /\ proc = [prog |-> proc.prog, args |-> proc.args, root |-> proc.root, active |-> proc.active,
             disabled |-> proc.disabled, script |-> proc.script, path |-> proc.path]
  /\ proc.prog \in OnTheWay \cup Stops \cup Programs
  /\ proc.root \in BOOLEAN /\ proc.active \in BOOLEAN /\ proc.disabled \in BOOLEAN
  /\ observed \in {0, 1} /\ sub \in ExecSubcommands \cup {<<"other">>}
  /\ proc.prog \notin {"pn", "refused"} /\ Unhindered => ~proc.disabled

ChainInv(T) == asked \in IssuedCommands(T) /\ ProcTypes /\ Situated

\* At first pn is about to run.
LEMMA ChainInitInv ==
  ASSUME NEW T, NEW Confs, ChainInit(IssuedCommands(T), Confs)
  PROVE  ChainInv(T)
<1>1. /\ proc = [prog |-> "pn", args |-> <<>>, root |-> FALSE, active |-> FALSE,
                 disabled |-> conf.off \in {"=1", "=true"}, script |-> FALSE, path |-> conf.path]
      /\ observed = 0 /\ wrapped = "" /\ sub = <<"other">> /\ asked \in IssuedCommands(T)
  BY DEF ChainInit
<1> DEFINE forced == conf.off \in {"=1", "=true"}
<1>2. ProcTypes
  <2>0. forced \in BOOLEAN
    OBVIOUS
  <2>2. proc = [prog |-> "pn", args |-> <<>>, root |-> FALSE, active |-> FALSE,
                disabled |-> forced, script |-> FALSE, path |-> conf.path]
    BY <1>1
  <2> HIDE DEF forced
  <2>1. /\ proc.prog = "pn" /\ proc.args = <<>> /\ proc.root = FALSE /\ proc.active = FALSE
        /\ proc.disabled = forced /\ proc.script = FALSE /\ proc.path = conf.path
    BY <2>2
  <2> QED BY <1>1, <2>0, <2>1, <2>2 DEF ProcTypes, OnTheWay, Stops
<1>3. Situated
  BY <1>1 DEF Situated, AtPn, Programs
<1> QED BY <1>1, <1>2, <1>3 DEF ChainInv

\* What is so of a command that pn wraps.
LEMMA WrappedMeans ==
  ASSUME SkipReason(conf, asked) = "", asked.nix \in BOOLEAN
  PROVE  /\ conf.off \notin {"flag", "=1"}
         /\ \/ asked.name = "sudo" /\ Head(asked.args) \in WrappedCommands /\ conf.wrapper = "store"
            \/ asked.name # "sudo" /\ asked.name \in WrappedCommands
<1> DEFINE target == WrapTarget(asked.name, asked.args)
<1>1. asked.nix /\ Enabled(conf) /\ conf.wrapper # "none"
  BY DEF SkipReason
<1>2. /\ target # "none" /\ (target = "sudo" => SudoWrapperValid(conf)) /\ Executable(conf)
  BY <1>1 DEF SkipReason
<1>3. conf.off \notin {"flag", "=1"}
  BY <1>1 DEF Enabled, EndpointOf
<1>4. \/ asked.name = "sudo" /\ target = "sudo" /\ Head(asked.args) \in WrappedCommands
      \/ asked.name # "sudo" /\ asked.name \in WrappedCommands
  BY <1>2 DEF WrapTarget
<1>5. target = "sudo" => conf.wrapper = "store"
  BY <1>2 DEF SudoWrapperValid, Executable
<1> QED BY <1>3, <1>4, <1>5

\* A process that is started from another with a command line.
LEMMA Started ==
  ASSUME ProcTypes, NEW argv
  PROVE  Process(argv, proc) = [prog |-> Head(argv), args |-> Tail(argv), root |-> proc.root,
                                active |-> proc.active, disabled |-> proc.disabled,
                                script |-> proc.script, path |-> proc.path]
<1>1. ASSUME NEW a, NEW b, NEW c, NEW d, NEW e, NEW f, NEW g,
             NEW p, p = [prog |-> a, args |-> b, root |-> c, active |-> d, disabled |-> e, script |-> f, path |-> g],
             NEW x, NEW y, NEW q, q = [p EXCEPT !.prog = x, !.args = y]
      PROVE  q =
             [prog |-> x, args |-> y, root |-> c, active |-> d, disabled |-> e, script |-> f, path |-> g]
  BY <1>1
<1> DEFINE q == Process(argv, proc)  x == Head(argv)  y == Tail(argv)
<1>2. q = [proc EXCEPT !.prog = x, !.args = y]
  BY DEF Process
<1>3. proc = [prog |-> proc.prog, args |-> proc.args, root |-> proc.root, active |-> proc.active,
              disabled |-> proc.disabled, script |-> proc.script, path |-> proc.path]
  BY DEF ProcTypes
<1> HIDE DEF q, x, y
<1>4. q = [prog |-> x, args |-> y, root |-> proc.root, active |-> proc.active,
           disabled |-> proc.disabled, script |-> proc.script, path |-> proc.path]
  BY <1>1, <1>2, <1>3
<1> QED BY <1>4 DEF q, x, y

\* Every word of a command line.
Vocabulary(T) == AllWords(T) \cup FlagWords \cup {"flake", "lock", "wrapper"}

\* What an issued command is made of.
LEMMA CallFacts ==
  ASSUME NEW T, asked \in IssuedCommands(T)
  PROVE  /\ asked.name \in WrappedCommands \cup {"sudo", "./update-locks.sh"} /\ asked.nix \in BOOLEAN
         /\ asked.args \in Seq(Vocabulary(T)) /\ AskedTool \in Seq(Vocabulary(T)) /\ AskedTool # <<>>
         /\ FlagWords \subseteq Vocabulary(T) /\ Programs \subseteq Vocabulary(T)
         /\ {"sudo", "env", "wrapper", "nix", "flake", "lock"} \subseteq Vocabulary(T)
         /\ Shape
<1> DEFINE A == AllWords(T) \cup FlagWords \cup {"flake", "lock"}
<1>1. A \subseteq Vocabulary(T)
  BY DEF Vocabulary
<1>2. \A s \in Seq(A) : s \in Seq(Vocabulary(T))
  BY <1>1
<1>3. {"sudo", "env", "wrapper", "nix", "flake", "lock"} \subseteq Vocabulary(T)
      /\ FlagWords \subseteq Vocabulary(T) /\ Programs \subseteq Vocabulary(T)
  BY DEF Vocabulary, AllWords, Programs
<1> HIDE DEF A
<1> QED BY <1>2, <1>3, ShapeOfCalls DEF A

\* What a call by name, or of the script, ends in.
LEMMA ByName ==
  /\ Shape /\ asked.name \in WrappedCommands => AskedTool = <<asked.name>> \o asked.args
  /\ Shape /\ asked.name = "./update-locks.sh" => AskedTool = <<"nix", "flake", "lock">>
<1>1. "./update-locks.sh" \notin WrappedCommands
  BY DEF WrappedCommands
<1>2. ASSUME Shape, asked.name \in WrappedCommands  PROVE AskedTool = <<asked.name>> \o asked.args
  <2>1. asked.name # "./update-locks.sh"
    BY <1>1, <1>2
  <2> QED BY <1>2, <2>1, Zenon DEF Shape
<1>3. ASSUME Shape, asked.name = "./update-locks.sh"  PROVE AskedTool = <<"nix", "flake", "lock">>
  <2>1. asked.name \notin WrappedCommands
    BY <1>1, <1>3
  <2> QED BY <1>3, <2>1, Zenon DEF Shape
<1> QED BY <1>2, <1>3

\* Lists that are put one behind the other.
LEMMA Regroup ==
  ASSUME NEW A, NEW s \in Seq(A), NEW t \in Seq(A), NEW u \in Seq(A)
  PROVE  s \o t \o u = s \o (t \o u) /\ s \o (t \o u) \in Seq(A)
<1>1. /\ s \o t \o u \in Seq(A) /\ s \o (t \o u) \in Seq(A)
      /\ Len(s \o t \o u) = Len(s \o (t \o u))
      /\ \A i \in 1 .. Len(s \o t \o u) : (s \o t \o u)[i] = (s \o (t \o u))[i]
  OBVIOUS
<1> QED BY <1>1, SameList

\* Names tell the programs apart.
LEMMA NamesDiffer ==
  /\ WrappedCommands \subseteq Programs
  /\ Programs \cap (OnTheWay \cup Stops) = {} /\ OnTheWay \cap Stops = {}
  /\ "sudo" \notin WrappedCommands /\ "./update-locks.sh" \notin WrappedCommands
BY DEF WrappedCommands, Programs, OnTheWay, Stops

\* pn starts the command itself, or the wrapper in front of it or behind sudo.
LEMMA PnStep == \A T : ChainInv(T) /\ PnRuns => ChainInv(T)'
<1> SUFFICES ASSUME NEW T, ChainInv(T), PnRuns PROVE ChainInv(T)'
  OBVIOUS
<1>1. /\ proc.prog = "pn" /\ ProcTypes /\ AtPn /\ asked \in IssuedCommands(T)
      /\ UNCHANGED <<asked, conf, observed>>
  BY DEF PnRuns, ChainInv, Situated
<1>2. ASSUME proc' = [proc EXCEPT !.prog = "refused"], UNCHANGED <<wrapped, sub>>  PROVE ChainInv(T)'
  <2>1. /\ proc'.prog = "refused"
        /\ proc' = [prog |-> "refused", args |-> proc.args, root |-> proc.root, active |-> proc.active,
                    disabled |-> proc.disabled, script |-> proc.script, path |-> proc.path]
    BY <1>1, <1>2 DEF ProcTypes
  <2>2. ProcTypes'
    BY <1>1, <1>2, <2>1 DEF ProcTypes, OnTheWay, Stops, Unhindered
  <2>3. Situated'
    BY <2>1 DEF Situated, Programs
  <2> QED BY <1>1, <2>2, <2>3 DEF ChainInv
<1>3. ASSUME NEW path, proc' = [Process(Rewrite(conf, asked), proc) EXCEPT
                                  !.path = path, !.script = ScriptWrapper(conf, asked)],
             wrapped' = SkipReason(conf, asked), sub' = ExecSubcommand(asked.name, asked.args)
      PROVE  ChainInv(T)'
  <2> DEFINE argv == Rewrite(conf, asked)
  <2>1. proc' = [prog |-> Head(argv), args |-> Tail(argv), root |-> FALSE, active |-> FALSE,
                 disabled |-> proc.disabled, script |-> ScriptWrapper(conf, asked), path |-> path]
    <3> DEFINE q == Process(argv, proc)
    <3> HIDE DEF argv
    <3>1. q = [prog |-> Head(argv), args |-> Tail(argv), root |-> proc.root, active |-> proc.active,
               disabled |-> proc.disabled, script |-> proc.script, path |-> proc.path]
      BY <1>1, Started
    <3>2. proc.root = FALSE /\ proc.active = FALSE
      BY <1>1 DEF AtPn, ProcTypes
    <3>3. proc' = [q EXCEPT !.path = path, !.script = ScriptWrapper(conf, asked)]
      BY <1>3 DEF argv
    <3> HIDE DEF q
    <3> QED BY <3>1, <3>2, <3>3
  <2> HIDE DEF argv
  <2>2. /\ proc'.prog = Head(argv) /\ proc'.args = Tail(argv) /\ proc'.root = FALSE
        /\ proc'.active = FALSE /\ proc'.disabled = proc.disabled /\ observed' = 0
    BY <1>1, <2>1 DEF AtPn
  <2>3. sub' \in ExecSubcommands \cup {<<"other">>}
    BY <1>3, LabelKnown
  <2>4. wrapped' = "" => conf.off \notin {"flag", "=1"}
    BY <1>1, <1>3, CallFacts, WrappedMeans
  <2>5. Unhindered' => ~proc'.disabled
    BY <1>1, <2>2, <2>4 DEF Unhindered, AtPn
  <2>6. Head(argv) \in OnTheWay \cup Stops \cup Programs => ProcTypes'
    BY <1>1, <2>1, <2>2, <2>3, <2>5 DEF ProcTypes
  <2>7. CASE wrapped' # ""
    <3>1. argv = <<asked.name>> \o asked.args
      BY <1>3, <2>7 DEF Rewrite, argv
    <3>2. Head(argv) = asked.name /\ Tail(argv) = asked.args
      BY <3>1, <1>1, CallFacts
    <3>3. asked.name \in WrappedCommands => <<asked.name>> \o asked.args = AskedTool
      BY <1>1, CallFacts, ByName
    <3>4. ProcTypes'
      BY <1>1, <2>6, <3>2, CallFacts, NamesDiffer DEF OnTheWay
    <3>5. AskedTool' = AskedTool
      BY <1>1 DEF AskedTool
    <3>6. asked.name \in WrappedCommands => AtTool'
      BY <1>1, <2>2, <2>7, <3>2, <3>3, <3>5, NamesDiffer DEF AtTool, ByUser
    <3>7. asked.name = "sudo" => AtSudo'
      BY <1>1, <2>2, <2>7, <3>2 DEF AtSudo
    <3>8. asked.name = "./update-locks.sh" => AtScript'
      BY <1>1, <2>2, <2>7 DEF AtScript
    <3>9. proc'.prog = asked.name /\ asked.name \in WrappedCommands \cup {"sudo", "./update-locks.sh"}
      BY <1>1, <2>2, <3>2, CallFacts
    <3>10. Situated'
      BY <3>6, <3>7, <3>8, <3>9 DEF Situated, Programs, WrappedCommands
    <3> QED BY <1>1, <3>4, <3>10 DEF ChainInv
  <2>8. CASE wrapped' = "" /\ asked.name = "sudo"
    <3> DEFINE flags == WrapperFlags(TRUE)  A == Vocabulary(T)
    <3>0. flags \in Seq(A)
      <4>1. FlagWords \subseteq A
        BY <1>1, CallFacts
      <4> HIDE DEF A
      <4>2. ForRoot \in Seq(A)
        BY <4>1 DEF ForRoot, FlagWords
      <4> QED BY <4>2, FlagsAre
    <3>1. argv = <<"sudo", "wrapper">> \o flags \o asked.args
      BY <1>3, <2>8 DEF Rewrite, argv
    <3>2. conf.wrapper = "store" /\ Head(asked.args) \in WrappedCommands
      BY <1>1, <1>3, <2>8, CallFacts, WrappedMeans
    <3>3. asked.args = AskedTool
      <4>1. Head(asked.args) # "-E" /\ Head(asked.args) \in Programs
        BY <3>2 DEF WrappedCommands, Programs
      <4> QED BY <4>1, <1>1, <2>8, CallFacts, NamesDiffer DEF Shape
    <3> HIDE DEF flags
    <3>4. Head(argv) = "sudo" /\ Tail(argv) = <<"wrapper">> \o (flags \o asked.args)
      <4> DEFINE w == <<"wrapper">> \o (flags \o asked.args)
      <4>1. asked.args \in Seq(A) /\ "sudo" \in A /\ "wrapper" \in A
        BY <1>1, CallFacts
      <4> HIDE DEF A
      <4>2. w \in Seq(A) /\ <<"sudo", "wrapper">> \o flags \o asked.args = <<"sudo">> \o w
        <5>1. ASSUME NEW f \in Seq(A), NEW a \in Seq(A)
              PROVE  /\ <<"wrapper">> \o (f \o a) \in Seq(A)
                     /\ <<"sudo", "wrapper">> \o f \o a = <<"sudo">> \o (<<"wrapper">> \o (f \o a))
          <6>1. /\ <<"sudo", "wrapper">> \o f \o a \in Seq(A)
                /\ <<"sudo">> \o (<<"wrapper">> \o (f \o a)) \in Seq(A)
            BY <4>1
          <6>2. /\ Len(<<"sudo", "wrapper">> \o f \o a) = Len(<<"sudo">> \o (<<"wrapper">> \o (f \o a)))
                /\ \A i \in 1 .. Len(<<"sudo", "wrapper">> \o f \o a) :
                      (<<"sudo", "wrapper">> \o f \o a)[i] = (<<"sudo">> \o (<<"wrapper">> \o (f \o a)))[i]
            BY <4>1
          <6>3. <<"wrapper">> \o (f \o a) \in Seq(A)
            BY <4>1
          <6> QED BY <6>1, <6>2, <6>3, SameList
        <5> QED BY <3>0, <4>1, <5>1
      <4> HIDE DEF w
      <4>3. Head(<<"sudo">> \o w) = "sudo" /\ Tail(<<"sudo">> \o w) = w
        BY <4>1, <4>2
      <4> QED BY <3>1, <4>2, <4>3 DEF w
    <3>5. AskedTool' = AskedTool
      BY <1>1 DEF AskedTool
    <3>6. AtSudo'
      BY <1>1, <2>2, <2>8, <3>2, <3>3, <3>4, <3>5 DEF AtSudo, flags
    <3>7. ProcTypes'
      BY <2>6, <3>4 DEF OnTheWay
    <3>8. Situated'
      BY <2>2, <3>4, <3>6 DEF Situated, Programs
    <3> QED BY <1>1, <3>7, <3>8 DEF ChainInv
  <2>9. CASE wrapped' = "" /\ asked.name # "sudo"
    <3> DEFINE flags == WrapperFlags(FALSE)  A == Vocabulary(T)
    <3>0. flags \in Seq(A)
      <4>1. FlagWords \subseteq A
        BY <1>1, CallFacts
      <4> HIDE DEF A
      <4>2. ForUser \in Seq(A)
        BY <4>1 DEF ForUser, FlagWords
      <4> QED BY <4>2, FlagsAre
    <3>1. argv = <<"wrapper">> \o flags \o (<<asked.name>> \o asked.args)
      <4>1. argv = <<"wrapper">> \o flags \o <<asked.name>> \o asked.args
        BY <1>3, <2>9 DEF Rewrite, argv
      <4>2. asked.args \in Seq(A) /\ "wrapper" \in A /\ asked.name \in A
        <5>1. asked.name \in Programs
          BY <1>1, <1>3, <2>9, CallFacts, WrappedMeans, NamesDiffer
        <5> QED BY <5>1, <1>1, CallFacts
      <4> HIDE DEF flags, A
      <4> DEFINE front == <<"wrapper">> \o flags  name == <<asked.name>>  rest == asked.args
      <4>3. front \in Seq(A) /\ name \in Seq(A) /\ rest \in Seq(A)
        BY <3>0, <4>2
      <4> HIDE DEF front, name, rest
      <4>4. front \o name \o rest = front \o (name \o rest)
        BY ONLY <4>3, Regroup
      <4> QED BY <4>1, <4>4 DEF front, name, rest
    <3>2. asked.name \in WrappedCommands
      BY <1>1, <1>3, <2>9, CallFacts, WrappedMeans
    <3>3. AskedTool = <<asked.name>> \o asked.args
      BY <3>2, <1>1, CallFacts, ByName
    <3>4. Head(AskedTool) \in WrappedCommands
      BY <3>2, <3>3, <1>1, CallFacts
    <3> HIDE DEF flags
    <3>5. Head(argv) = "wrapper" /\ Tail(argv) = flags \o AskedTool
      <4>1. AskedTool \in Seq(A) /\ "wrapper" \in A
        BY <1>1, CallFacts
      <4>2. argv = <<"wrapper">> \o flags \o AskedTool
        BY <3>1, <3>3
      <4> HIDE DEF A
      <4> DEFINE w == AskedTool
      <4>3. w \in Seq(A)
        BY <4>1
      <4> HIDE DEF w
      <4>4. Head(<<"wrapper">> \o flags \o w) = "wrapper" /\ Tail(<<"wrapper">> \o flags \o w) = flags \o w
        BY <3>0, <4>1, <4>3
      <4> QED BY <4>2, <4>4 DEF w
    <3>6. AskedTool' = AskedTool
      BY <1>1 DEF AskedTool
    <3>7. AtWrapper'
      <4>1. flags \in FrontFlags
        BY DEF FrontFlags, flags
      <4>2. ByUser'
        BY <1>1, <2>2, <2>9 DEF ByUser
      <4>3. proc'.args = flags \o AskedTool'
        BY <2>2, <3>5, <3>6
      <4> QED BY <2>2, <3>4, <3>6, <4>1, <4>2, <4>3 DEF AtWrapper
    <3>8. ProcTypes'
      BY <2>6, <3>5 DEF OnTheWay
    <3>9. Situated'
      BY <2>2, <3>5, <3>7 DEF Situated, Programs
    <3> QED BY <1>1, <3>8, <3>9 DEF ChainInv
  <2> QED BY <2>7, <2>8, <2>9
<1> QED BY <1>2, <1>3 DEF PnRuns

\* A list and its first element.
LEMMA HeadTail ==
  ASSUME NEW A, NEW s \in Seq(A), s # <<>>
  PROVE  <<Head(s)>> \o Tail(s) = s /\ Head(s) \in A /\ Tail(s) \in Seq(A)
OBVIOUS

\* A list with an element put in front.
LEMMA InFront ==
  ASSUME NEW A, NEW x \in A, NEW s \in Seq(A)
  PROVE  Head(<<x>> \o s) = x /\ Tail(<<x>> \o s) = s
OBVIOUS

\* sudo starts what stands behind it and its option, or the wrapper.
LEMMA SudoStep == \A T : ChainInv(T) /\ SudoRuns => ChainInv(T)'
<1> SUFFICES ASSUME NEW T, ChainInv(T), SudoRuns PROVE ChainInv(T)'
  OBVIOUS
<1>1. /\ proc.prog = "sudo" /\ ProcTypes /\ AtSudo /\ asked \in IssuedCommands(T)
      /\ UNCHANGED <<asked, conf, observed, wrapped, sub>>
  BY DEF SudoRuns, ChainInv, Situated
<1> DEFINE A == Vocabulary(T)  keep == Head(proc.args) = "-E"
           argv == IF keep THEN Tail(proc.args) ELSE proc.args
<1>2. proc' = [prog |-> Head(argv), args |-> Tail(argv), root |-> TRUE,
               active |-> (keep /\ proc.active), disabled |-> (keep /\ proc.disabled),
               script |-> proc.script, path |-> proc.path]
  <2> DEFINE q == Process(argv, proc)
  <2>1. proc' = [q EXCEPT !.root = TRUE, !.active = keep /\ @, !.disabled = keep /\ @]
    BY DEF SudoRuns
  <2> HIDE DEF argv, keep
  <2>2. q = [prog |-> Head(argv), args |-> Tail(argv), root |-> proc.root, active |-> proc.active,
             disabled |-> proc.disabled, script |-> proc.script, path |-> proc.path]
    BY <1>1, Started
  <2> HIDE DEF q
  <2> QED BY <2>1, <2>2
<1> HIDE DEF argv, keep
<1>3. /\ proc'.prog = Head(argv) /\ proc'.args = Tail(argv) /\ proc'.root = TRUE
      /\ proc'.active \in BOOLEAN /\ proc'.disabled \in BOOLEAN /\ (proc'.disabled => proc.disabled)
  BY <1>2
<1>4. Head(argv) \in OnTheWay \cup Programs => ProcTypes'
  BY <1>1, <1>2, <1>3 DEF ProcTypes, Unhindered
<1>5. AskedTool' = AskedTool
  BY <1>1 DEF AskedTool
<1>6. asked.name = "sudo" /\ observed' = 0
  BY <1>1 DEF AtSudo
<1>7. ByUser'
  BY <1>1, <1>3, <1>6 DEF ByUser
<1>8. CASE wrapped # "" /\ proc.args = asked.args
  <2>1. /\ argv \in Seq(A) /\ Head(argv) \in Programs \cup {"env"}
        /\ Head(argv) \in Programs => argv = AskedTool
        /\ Head(argv) = "env" => AfterEnv(<<"env">> \o Tail(argv)) = AskedTool
    <3>1. argv = IF Head(asked.args) = "-E" THEN Tail(asked.args) ELSE asked.args
      BY <1>8 DEF argv, keep
    <3>2. Shape /\ asked.name \notin WrappedCommands /\ asked.name # "./update-locks.sh"
      BY <1>1, <1>6, CallFacts DEF WrappedCommands
    <3>3. /\ Head(argv) \in Programs \cup {"env"} /\ asked.args # <<>>
          /\ Head(argv) \in Programs => argv = AskedTool
          /\ Head(argv) = "env" => AfterEnv(<<"env">> \o Tail(argv)) = AskedTool
      BY <3>1, <3>2, Zenon DEF Shape
    <3>4. argv \in Seq(A)
      BY <3>1, <3>3, <1>1, CallFacts
    <3> QED BY <3>3, <3>4
  <2>2. ProcTypes'
    BY <1>4, <2>1 DEF OnTheWay
  <2>3. Head(argv) \in Programs => AtTool'
    <3>1. SUFFICES ASSUME Head(argv) \in Programs  PROVE AtTool'
      OBVIOUS
    <3>2. <<proc'.prog>> \o proc'.args = AskedTool
      BY <3>1, <2>1, <1>3, <1>1, CallFacts, HeadTail
    <3> QED BY <3>2, <1>1, <1>5, <1>6, <1>7, <1>8 DEF AtTool
  <2>4. Head(argv) = "env" => AtEnv'
    BY <2>1, <1>1, <1>3, <1>5, <1>6, <1>8 DEF AtEnv
  <2>5. Situated'
    BY <2>1, <2>3, <2>4, <1>3 DEF Situated, Programs
  <2> QED BY <1>1, <2>2, <2>5 DEF ChainInv
<1>9. CASE /\ conf.wrapper = "store" /\ Head(AskedTool) \in WrappedCommands
           /\ proc.args = <<"wrapper">> \o (WrapperFlags(TRUE) \o AskedTool)
  <2> DEFINE flags == WrapperFlags(TRUE)  w == flags \o AskedTool
  <2>1. flags \in FrontFlags /\ w \in Seq(A) /\ "wrapper" \in A
    BY <1>1, CallFacts, FlagsParse DEF FrontFlags
  <2>2. Head(proc.args) = "wrapper" /\ Tail(proc.args) = w
    <3> HIDE DEF A, w
    <3>1. Head(<<"wrapper">> \o w) = "wrapper" /\ Tail(<<"wrapper">> \o w) = w
      BY <2>1, InFront
    <3> QED BY <3>1, <1>9 DEF w
  <2>3. argv = proc.args
    BY <2>2 DEF argv, keep
  <2>4. proc'.prog = "wrapper" /\ proc'.args = flags \o AskedTool'
    BY <1>3, <1>5, <2>2, <2>3
  <2> HIDE DEF flags
  <2>5. AtWrapper'
    BY <1>1, <1>5, <1>6, <1>7, <1>9, <2>1, <2>4 DEF AtWrapper
  <2>6. ProcTypes'
    BY <1>4, <2>2, <2>3 DEF OnTheWay
  <2>7. Situated'
    BY <2>4, <2>5 DEF Situated, Programs
  <2> QED BY <1>1, <2>6, <2>7 DEF ChainInv
<1> QED BY <1>1, <1>8, <1>9 DEF AtSudo

\* env starts the tool, in an environment of its own.
LEMMA EnvStep == \A T : ChainInv(T) /\ EnvRuns => ChainInv(T)'
<1> SUFFICES ASSUME NEW T, ChainInv(T), EnvRuns PROVE ChainInv(T)'
  OBVIOUS
<1>1. /\ proc.prog = "env" /\ ProcTypes /\ AtEnv /\ asked \in IssuedCommands(T)
      /\ UNCHANGED <<asked, conf, observed, wrapped, sub>>
  BY DEF EnvRuns, ChainInv, Situated
<1>2. proc' = [prog |-> Head(AskedTool), args |-> Tail(AskedTool), root |-> proc.root,
               active |-> FALSE, disabled |-> FALSE, script |-> proc.script, path |-> proc.path]
  <2> DEFINE q == Process(AskedTool, proc)
  <2>1. proc' = [q EXCEPT !.active = FALSE, !.disabled = FALSE]
    BY <1>1 DEF EnvRuns, AtEnv
  <2>2. q = [prog |-> Head(AskedTool), args |-> Tail(AskedTool), root |-> proc.root, active |-> proc.active,
             disabled |-> proc.disabled, script |-> proc.script, path |-> proc.path]
    BY <1>1, Started
  <2> HIDE DEF q
  <2> QED BY <2>1, <2>2
<1>3. /\ proc'.prog = Head(AskedTool) /\ proc'.args = Tail(AskedTool) /\ proc'.root = TRUE
      /\ proc'.active = FALSE /\ proc'.disabled = FALSE
  BY <1>1, <1>2 DEF AtEnv, ProcTypes
<1>4. Head(AskedTool) \in Programs
  <2>1. Shape /\ asked.name \notin WrappedCommands /\ asked.name # "./update-locks.sh"
    BY <1>1, CallFacts DEF WrappedCommands, AtEnv
  <2> QED BY <2>1, Zenon DEF Shape
<1>5. ProcTypes'
  BY <1>1, <1>2, <1>3, <1>4 DEF ProcTypes
<1>6. AskedTool' = AskedTool
  BY <1>1 DEF AskedTool
<1>7. <<proc'.prog>> \o proc'.args = AskedTool
  BY <1>3, <1>1, CallFacts, HeadTail
<1>8. AtTool'
  BY <1>1, <1>3, <1>6, <1>7 DEF AtTool, ByUser, AtEnv
<1>9. Situated'
  BY <1>3, <1>4, <1>8 DEF Situated, Programs
<1> QED BY <1>1, <1>5, <1>9 DEF ChainInv

\* The script starts nix, behind the wrapper that it was told of or bare.
LEMMA ScriptStep == \A T : ChainInv(T) /\ ScriptRuns => ChainInv(T)'
<1> SUFFICES ASSUME NEW T, ChainInv(T), ScriptRuns PROVE ChainInv(T)'
  OBVIOUS
<1> DEFINE nix == <<"nix", "flake", "lock">>  behind == <<"wrapper", "--otlp-endpoint", "url", "--">> \o nix
           argv == IF proc.script /\ ~proc.disabled THEN behind ELSE nix
<1>1. /\ proc.prog = "./update-locks.sh" /\ ProcTypes /\ AtScript /\ asked \in IssuedCommands(T)
      /\ UNCHANGED <<asked, conf, observed, wrapped, sub>>
  BY DEF ScriptRuns, ChainInv, Situated
<1>2. proc' = [prog |-> Head(argv), args |-> Tail(argv), root |-> proc.root, active |-> proc.active,
               disabled |-> proc.disabled, script |-> proc.script, path |-> proc.path]
  <2>1. proc' = Process(argv, proc)
    BY DEF ScriptRuns
  <2> HIDE DEF argv
  <2> QED BY <1>1, <2>1, Started
<1>3. AskedTool = nix /\ AskedTool' = AskedTool
  BY <1>1, CallFacts, ByName DEF AtScript, AskedTool
<1>4. CASE argv = nix
  <2>1. proc'.prog = "nix" /\ <<proc'.prog>> \o proc'.args = nix
    <3>1. proc'.prog = Head(nix) /\ proc'.args = Tail(nix)
      BY <1>2, <1>4
    <3>2. Head(nix) = "nix" /\ nix # <<>> /\ nix \in Seq({"nix", "flake", "lock"})
      OBVIOUS
    <3> HIDE DEF nix
    <3>3. <<Head(nix)>> \o Tail(nix) = nix
      BY <3>2, HeadTail
    <3> QED BY <3>1, <3>2, <3>3
  <2>2. AtTool'
    BY <1>1, <1>2, <1>3, <2>1 DEF AtTool, ByUser, AtScript
  <2>3. ProcTypes' /\ Situated'
    BY <1>1, <1>2, <2>1, <2>2 DEF ProcTypes, Unhindered, Situated, Programs
  <2> QED BY <1>1, <2>3 DEF ChainInv
<1>5. CASE argv = behind
  <2>1. Head(behind) = "wrapper" /\ Tail(behind) = Bare \o nix
    <3> DEFINE A == {"wrapper", "--otlp-endpoint", "url", "--", "nix", "flake", "lock"}
    <3>1. Tail(behind) \in Seq(A) /\ Bare \o nix \in Seq(A) /\ Len(Tail(behind)) = 6 /\ Len(Bare \o nix) = 6
      BY DEF Bare
    <3>2. \A i \in 1 .. 6 : Tail(behind)[i] = (Bare \o nix)[i]
      BY DEF Bare
    <3>3. Head(behind) = "wrapper"
      OBVIOUS
    <3> HIDE DEF A, behind
    <3>4. Tail(behind) = Bare \o nix
      <4> DEFINE s == Tail(behind)  t == Bare \o nix
      <4>1. s \in Seq(A) /\ t \in Seq(A) /\ Len(s) = 6 /\ Len(t) = 6 /\ \A i \in 1 .. 6 : s[i] = t[i]
        BY <3>1, <3>2
      <4> HIDE DEF s, t
      <4>2. s = t
        BY <4>1, SameList
      <4> QED BY <4>2 DEF s, t
    <3> QED BY <3>3, <3>4
  <2>2. proc'.prog = "wrapper" /\ proc'.args = Bare \o AskedTool' /\ proc'.root = proc.root
    BY <1>2, <1>3, <1>5, <2>1
  <2>3. Head(AskedTool) \in WrappedCommands /\ Bare \in FrontFlags
    BY <1>3 DEF WrappedCommands, FrontFlags
  <2>4. ByUser' /\ observed' = 0 /\ ~proc'.root
    BY <1>1, <2>2 DEF ByUser, AtScript
  <2>5. AtWrapper'
    BY <1>3, <2>2, <2>3, <2>4 DEF AtWrapper
  <2> HIDE DEF argv
  <2>6. ProcTypes'
    BY <1>1, <1>2, <2>2 DEF ProcTypes, Unhindered, OnTheWay
  <2>7. Situated'
    BY <2>2, <2>5 DEF Situated, Programs
  <2> QED BY <1>1, <2>6, <2>7 DEF ChainInv
<1> QED BY <1>4, <1>5

\* The real tool that the wrapper or a shim starts, if there is one on PATH.
Handed(words, active) ==
  [prog |-> "real", args |-> words, root |-> proc.root, active |-> active,
   disabled |-> proc.disabled, script |-> proc.script, path |-> proc.path]
NotFound ==
  [prog |-> "not found", args |-> proc.args, root |-> proc.root, active |-> proc.active,
   disabled |-> proc.disabled, script |-> proc.script, path |-> proc.path]

\* What a wrapper or a shim does to the process, by its decision.
LEMMA Observes ==
  ASSUME ProcTypes, NEW shim, NEW tool, NEW args, NEW flag, NEW met, met = CallOf(shim, tool, args, flag),
         Observing(met)
  PROVE  /\ observed' = observed + IF Dispatch(met) = "observed" THEN 1 ELSE 0
         /\ \/ proc' = NotFound
            \/ proc' = Handed(<<tool>> \o args, IF Dispatch(met) = "exec" THEN proc.active ELSE TRUE)
<1> DEFINE how == Dispatch(met)  words == <<tool>> \o args  act == IF how = "exec" THEN proc.active ELSE TRUE
<1>1. observed' = observed + IF how = "observed" THEN 1 ELSE 0
  BY DEF Observing
<1>2. met.tool = tool /\ met.argv = args
  BY DEF CallOf
<1>3. ChildCall(met).active = TRUE
  BY DEF ChildCall, CallOf
<1>4. \/ proc' = [proc EXCEPT !.prog = "not found"]
      \/ proc' = [proc EXCEPT !.prog = "real", !.args = words, !.active = act]
  <2>1. \/ proc' = [proc EXCEPT !.prog = "not found"]
        \/ proc' = [proc EXCEPT !.prog = "real", !.args = <<met.tool>> \o met.argv,
                                !.active = IF how = "exec" THEN @ ELSE ChildCall(met).active]
    BY DEF Observing
  <2> HIDE DEF how
  <2> QED BY <2>1, <1>2, <1>3
<1> HIDE DEF how, words, act
<1>5. \/ proc' = NotFound
      \/ proc' = [prog |-> "real", args |-> words, root |-> proc.root, active |-> act,
                  disabled |-> proc.disabled, script |-> proc.script, path |-> proc.path]
  BY <1>4 DEF ProcTypes, NotFound
<1> QED BY <1>1, <1>5 DEF how, words, act, Handed

\* What becomes of the observation: the invariant where the real tool is to run,
\* or is not found.
LEMMA AfterHanded ==
  ASSUME ProcTypes, UNCHANGED <<asked, conf, wrapped, sub>>, ByUser, proc.prog \notin {"pn", "refused"},
         NEW words, NEW active \in BOOLEAN, observed' \in {0, 1}, NEW T, asked \in IssuedCommands(T),
         proc' = NotFound \/ proc' = Handed(words, active), Head(words) \in WrappedCommands,
         words = AskedTool \/ (words = Onward /\ Head(AskedTool) = "darwin-rebuild"),
         (observed' = 1 => active) /\ (Unhindered => observed' = 1)
  PROVE  ChainInv(T)'
<1>0. AskedTool' = AskedTool /\ Unhindered' = Unhindered
  BY DEF AskedTool, Unhindered
<1>1. CASE proc' = NotFound
  <2>1. proc'.prog = "not found" /\ ProcTypes'
    BY <1>0, <1>1 DEF NotFound, ProcTypes, Stops
  <2>2. Situated'
    BY <2>1 DEF Situated, Programs
  <2> QED BY <2>1, <2>2 DEF ChainInv
<1>2. CASE proc' = Handed(words, active)
  <2>1. proc'.prog = "real" /\ proc'.args = words /\ proc'.active = active /\ proc'.root = proc.root /\ ProcTypes'
    BY <1>0, <1>2 DEF Handed, ProcTypes, Stops
  <2>2. AtReal'
    BY <1>0, <2>1 DEF AtReal, ByUser, Seen
  <2>3. Situated'
    BY <2>1, <2>2 DEF Situated, Programs
  <2> QED BY <2>1, <2>3 DEF ChainInv
<1> QED BY <1>1, <1>2

\* The wrapper finds the command behind its flags and hands it on.
LEMMA WrapperStep == \A T : ChainInv(T) /\ WrapperRuns => ChainInv(T)'
<1> SUFFICES ASSUME NEW T, ChainInv(T), WrapperRuns PROVE ChainInv(T)'
  OBVIOUS
<1>1. /\ proc.prog = "wrapper" /\ ProcTypes /\ AtWrapper /\ asked \in IssuedCommands(T)
      /\ UNCHANGED <<asked, conf, wrapped, sub>>
  BY DEF WrapperRuns, ChainInv, Situated
<1>2. PICK flags \in FrontFlags : proc.args = flags \o AskedTool
  BY <1>1 DEF AtWrapper
<1>3. /\ CmdStartsAt(proc.args) = Len(flags) + 1 /\ From(proc.args, Len(flags) + 1) = AskedTool
      /\ Len(flags) \in Nat /\ \E i \in 1 .. Len(flags) : proc.args[i] = "--otlp-endpoint"
  BY <1>1, <1>2, CallFacts, FlagsParse
<1> DEFINE tool == Head(AskedTool)  args == Tail(AskedTool)  met == CallOf(FALSE, tool, args, TRUE)
<1>4. Observing(met)
  <2> DEFINE n == CmdStartsAt(proc.args)  cmd == From(proc.args, n)
             flag == \E i \in 1 .. n - 1 : proc.args[i] = "--otlp-endpoint"
  <2>1. n # 0 /\ n - 1 = Len(flags)
    BY <1>3
  <2>2. cmd = AskedTool /\ cmd # <<>>
    BY <1>1, <1>3, CallFacts
  <2>3. flag = TRUE
    BY <2>1, <1>3
  <2>4. Observing(CallOf(FALSE, Head(cmd), Tail(cmd), flag))
    <3>1. IF n = 0 \/ cmd = <<>>
          THEN proc' = [proc EXCEPT !.prog = "usage"] /\ UNCHANGED observed
          ELSE Observing(CallOf(FALSE, Head(cmd), Tail(cmd), flag))
      BY DEF WrapperRuns
    <3> HIDE DEF n, cmd, flag
    <3> QED BY <2>1, <2>2, <3>1
  <2> HIDE DEF cmd, flag
  <2> QED BY <2>2, <2>3, <2>4
<1>5. <<tool>> \o args = AskedTool
  BY <1>1, CallFacts, HeadTail
<1> DEFINE how == Dispatch(met)
<1>6. Unhindered => how = "observed"
  <2>1. Unhindered => ~proc.disabled
    BY <1>1 DEF ProcTypes
  <2>2. how = Observe(met, TRUE)
    BY DEF Dispatch, CallOf
  <2>3. met.disabled = proc.disabled /\ met.files = conf.files /\ met.telemetry = TRUE
    BY DEF CallOf
  <2>4. Resolve(met, TRUE) = "flag"
    BY DEF Resolve
  <2> HIDE DEF met
  <2>5. ~proc.disabled /\ conf.files => Observe(met, TRUE) = "observed"
    BY <2>3, <2>4 DEF Observe
  <2> HIDE DEF how
  <2> QED BY <2>1, <2>2, <2>5 DEF Unhindered
<1> HIDE DEF met, tool, args
<1>7. /\ observed' = observed + IF how = "observed" THEN 1 ELSE 0
      /\ \/ proc' = NotFound
         \/ proc' = Handed(AskedTool, IF how = "exec" THEN proc.active ELSE TRUE)
  BY <1>1, <1>4, <1>5, Observes DEF met
<1> DEFINE act == IF how = "exec" THEN proc.active ELSE TRUE
<1>8. observed' \in {0, 1} /\ act \in BOOLEAN /\ (observed' = 1 => act) /\ (Unhindered => observed' = 1)
  <2>1. how # "exec" => act = TRUE
    OBVIOUS
  <2>2. act \in BOOLEAN
    BY <1>1 DEF ProcTypes
  <2> HIDE DEF act, how
  <2>3. observed = 0
    BY <1>1 DEF AtWrapper
  <2>4. observed' = IF how = "observed" THEN 1 ELSE 0
    BY <1>7, <2>3
  <2> QED BY <1>6, <2>1, <2>2, <2>4
<1> HIDE DEF act, how
<1> QED BY <1>1, <1>7, <1>8, AfterHanded DEF AtWrapper, act, how

\* A tool called by its name: the real one, or a shim, which an outer wrapped
\* run makes pass through.
LEMMA ToolStep == \A T : ChainInv(T) /\ ToolRuns => ChainInv(T)'
<1> SUFFICES ASSUME NEW T, ChainInv(T), ToolRuns PROVE ChainInv(T)'
  OBVIOUS
<1>1. /\ proc.prog \in WrappedCommands /\ ProcTypes /\ AtTool /\ asked \in IssuedCommands(T)
      /\ UNCHANGED <<asked, conf, wrapped, sub>>
  BY NamesDiffer DEF ToolRuns, ChainInv, Situated
<1>2. proc.prog \notin {"pn", "refused"} /\ ByUser
  BY <1>1, NamesDiffer DEF OnTheWay, Stops, AtTool
<1> DEFINE words == <<proc.prog>> \o proc.args
<1>3. (words = AskedTool \/ (words = Onward /\ Head(AskedTool) = "darwin-rebuild")) /\ Seen
  <2>1. CASE observed = 0 /\ wrapped # "" /\ words = AskedTool
    <3>0. observed = 0 /\ wrapped # ""
      BY <2>1
    <3> HIDE DEF words
    <3>1. ~Unhindered
      BY ONLY <3>0, Zenon DEF Unhindered
    <3>2. observed # 1
      <4>1. observed = 0
        BY ONLY <3>0, Zenon
      <4> QED BY ONLY <4>1
    <3>3. Seen
      BY ONLY <3>1, <3>2, Zenon DEF Seen
    <3> QED BY <2>1, <3>3
  <2>2. CASE words = Onward /\ Head(AskedTool) = "darwin-rebuild" /\ Seen
    BY <2>2
  <2> QED BY <1>1, <2>1, <2>2 DEF AtTool
<1>4. Head(words) \in WrappedCommands
  <2>1. words = AskedTool => Head(words) = proc.prog
    <3>1. SUFFICES ASSUME words = AskedTool  PROVE Head(words) = proc.prog
      OBVIOUS
    <3>2. words \in Seq(Vocabulary(T))
      BY <3>1, <1>1, CallFacts
    <3> QED BY <3>2
  <2>2. Head(Onward) = "nix"
    BY DEF Onward
  <2> HIDE DEF words
  <2> QED BY <2>1, <2>2, <1>1, <1>3 DEF WrappedCommands
<1>5. CASE PathLookup(proc.path) = 0
  <2>1. proc' = [proc EXCEPT !.prog = "not found"] /\ UNCHANGED observed
    BY <1>5 DEF ToolRuns
  <2>2. proc' = NotFound
    BY <1>1, <2>1 DEF ProcTypes, NotFound
  <2>3. /\ observed' \in {0, 1} /\ proc.active \in BOOLEAN
        /\ (observed' = 1 => proc.active) /\ (Unhindered => observed' = 1)
    BY <1>1, <1>3, <2>1 DEF ProcTypes, Seen
  <2> HIDE DEF words
  <2> QED BY <1>1, <1>2, <1>3, <1>4, <2>2, <2>3, AfterHanded
<1>6. CASE PathLookup(proc.path) # 0 /\ IsShim(proc.path)
  <2> DEFINE met == CallOf(TRUE, proc.prog, proc.args, FALSE)  how == Dispatch(met)
             act == IF how = "exec" THEN proc.active ELSE TRUE
  <2>1. Observing(met)
    BY <1>6 DEF ToolRuns
  <2>2. observed = 1 => how = "exec"
    <3>1. observed = 1 => proc.active
      BY <1>3 DEF Seen
    <3>2. met.shim = TRUE /\ met.active = proc.active
      BY DEF CallOf
    <3> HIDE DEF met
    <3> QED BY <3>1, <3>2 DEF Dispatch, ShimPasses
  <2> HIDE DEF met
  <2>3. /\ observed' = observed + IF how = "observed" THEN 1 ELSE 0
        /\ proc' = NotFound \/ proc' = Handed(words, act)
    BY <1>1, <2>1, Observes DEF met
  <2>4. how # "exec" => act = TRUE
    OBVIOUS
  <2>5. act \in BOOLEAN /\ (how = "exec" => act = proc.active)
    BY <1>1 DEF ProcTypes
  <2> HIDE DEF how, act, words
  <2>6. /\ observed' \in {0, 1} /\ (observed' = 1 => act) /\ (Unhindered => observed' = 1)
    <3>1. observed = 0 \/ observed = 1
      BY <1>1 DEF ProcTypes
    <3>2. CASE observed = 0
      <4>1. observed' = (IF how = "observed" THEN 1 ELSE 0) /\ ~Unhindered
        BY <3>2, <1>3, <2>3 DEF Seen
      <4> QED BY <4>1, <2>4
    <3>3. CASE observed = 1
      <4>1. how = "exec" /\ proc.active = TRUE
        BY <3>3, <1>1, <1>3, <2>2 DEF Seen, ProcTypes
      <4>2. observed' = 1
        BY <3>3, <4>1, <2>3
      <4> QED BY <4>1, <4>2, <2>5
    <3> QED BY <3>1, <3>2, <3>3
  <2> QED BY <1>1, <1>2, <1>3, <1>4, <2>3, <2>5, <2>6, AfterHanded
<1>7. CASE PathLookup(proc.path) # 0 /\ ~IsShim(proc.path)
  <2>1. proc' = [proc EXCEPT !.prog = "real", !.args = words] /\ UNCHANGED observed
    BY <1>7 DEF ToolRuns
  <2> HIDE DEF words
  <2>2. proc' = Handed(words, proc.active)
    BY <1>1, <2>1 DEF ProcTypes, Handed
  <2>3. /\ observed' \in {0, 1} /\ proc.active \in BOOLEAN
        /\ (observed' = 1 => proc.active) /\ (Unhindered => observed' = 1)
    BY <1>1, <1>3, <2>1 DEF ProcTypes, Seen
  <2> QED BY <1>1, <1>2, <1>3, <1>4, <2>2, <2>3, AfterHanded
<1> QED BY <1>5, <1>6, <1>7

\* The real darwin-rebuild calls nix, the real nix ends.
LEMMA RealStep == \A T : ChainInv(T) /\ RealRuns => ChainInv(T)'
<1> SUFFICES ASSUME NEW T, ChainInv(T), RealRuns PROVE ChainInv(T)'
  OBVIOUS
<1>1. /\ proc.prog = "real" /\ ProcTypes /\ AtReal /\ asked \in IssuedCommands(T)
      /\ UNCHANGED <<asked, conf, observed, wrapped, sub>>
  BY DEF RealRuns, ChainInv, Situated
<1>2. AskedTool' = AskedTool /\ Unhindered' = Unhindered
  BY <1>1 DEF AskedTool, Unhindered
<1>3. CASE Head(proc.args) = "darwin-rebuild"
  <2>1. Head(Onward) = "nix" /\ Onward # <<>> /\ Onward \in Seq({"nix", "build"})
    BY DEF Onward
  <2>2. Head(AskedTool) = "darwin-rebuild"
    BY <1>1, <1>3, <2>1 DEF AtReal
  <2>3. proc' = Process(Onward, proc)
    BY <1>3 DEF RealRuns, Onward
  <2>4. proc' = [prog |-> Head(Onward), args |-> Tail(Onward), root |-> proc.root, active |-> proc.active,
                 disabled |-> proc.disabled, script |-> proc.script, path |-> proc.path]
    BY <1>1, <2>3, Started
  <2>5. proc'.prog = "nix" /\ proc'.args = Tail(Onward) /\ proc'.root = proc.root /\ proc'.active = proc.active
    BY <2>1, <2>4
  <2>6. <<proc'.prog>> \o proc'.args = Onward
    BY <2>1, <2>5, HeadTail
  <2>7. ProcTypes'
    BY <1>1, <1>2, <2>1, <2>4, <2>5 DEF ProcTypes, Programs
  <2>8. AtTool'
    BY <1>1, <1>2, <2>2, <2>5, <2>6 DEF AtTool, AtReal, ByUser, Seen
  <2>9. Situated'
    BY <2>5, <2>8 DEF Situated, Programs
  <2> QED BY <1>1, <2>7, <2>9 DEF ChainInv
<1>4. CASE Head(proc.args) # "darwin-rebuild"
  <2>1. proc' = [proc EXCEPT !.prog = "end"]
    BY <1>4 DEF RealRuns
  <2>2. proc' = [prog |-> "end", args |-> proc.args, root |-> proc.root, active |-> proc.active,
                 disabled |-> proc.disabled, script |-> proc.script, path |-> proc.path]
    BY <1>1, <2>1 DEF ProcTypes
  <2>3. proc'.prog = "end" /\ proc'.active = proc.active
    BY <2>2
  <2>4. ProcTypes'
    BY <1>1, <1>2, <2>2, <2>3 DEF ProcTypes, Stops
  <2>5. Situated'
    BY <1>1, <1>2, <2>3 DEF Situated, Programs, AtReal, Seen
  <2> QED BY <1>1, <2>4, <2>5 DEF ChainInv
<1> QED BY <1>3, <1>4

\* A wrapped command is observed once, and the tool gets it as it was asked for,
\* whatever wrappers, shims, sudo and env stand in between: for every command pn
\* issues, with arguments from any set of words, under every configuration.
THEOREM CommandsRunOnce ==
  ASSUME NEW CONSTANT Tokens, NEW CONSTANT Confs
  PROVE  ChainInit(IssuedCommands(Tokens), Confs) /\ [][ChainNext]_chain => []ObservedOnceUntouched
<1>1. ChainInit(IssuedCommands(Tokens), Confs) => ChainInv(Tokens)
  BY ChainInitInv
<1>2. ChainInv(Tokens) /\ [ChainNext]_chain => ChainInv(Tokens)'
  <2> SUFFICES ASSUME ChainInv(Tokens), [ChainNext]_chain PROVE ChainInv(Tokens)'
    OBVIOUS
  <2>1. CASE ChainNext
    BY <2>1, PnStep, SudoStep, EnvStep, ScriptStep, WrapperStep, ToolStep, RealStep DEF ChainNext
  <2>2. CASE UNCHANGED chain
    <3>1. UNCHANGED <<asked, conf, proc, observed, wrapped, sub>>
      BY <2>2 DEF chain
    <3>2. /\ AskedTool' = AskedTool /\ Unhindered' = Unhindered /\ ByUser' = ByUser
          /\ asked \in IssuedCommands(Tokens) /\ ProcTypes /\ Situated
      BY <3>1 DEF AskedTool, Unhindered, ByUser, ChainInv
    <3>3. Seen' = Seen
      BY <3>1, <3>2 DEF Seen
    <3>4. ProcTypes'
      BY <3>1, <3>2 DEF ProcTypes
    <3>5. /\ AtPn' = AtPn /\ AtSudo' = AtSudo /\ AtEnv' = AtEnv /\ AtScript' = AtScript
          /\ AtTool' = AtTool /\ AtReal' = AtReal
      BY <3>1, <3>2, <3>3 DEF AtPn, AtSudo, AtEnv, AtScript, AtTool, AtReal
    <3>6. AtWrapper => AtWrapper'
      BY <3>1, <3>2 DEF AtWrapper
    <3>7. Situated'
      BY <3>1, <3>2, <3>3, <3>5, <3>6 DEF Situated
    <3> QED BY <3>1, <3>2, <3>4, <3>7 DEF ChainInv
  <2> QED BY <2>1, <2>2
<1>3. ChainInv(Tokens) => ObservedOnceUntouched
  <2> SUFFICES ASSUME ChainInv(Tokens) PROVE ObservedOnceUntouched
    OBVIOUS
  <2>0. ProcTypes
    BY DEF ChainInv
  <2>1. observed <= 1 /\ proc.prog # "usage" /\ sub \in ExecSubcommands \cup {<<"other">>}
    <3>1. observed \in {0, 1} /\ sub \in ExecSubcommands \cup {<<"other">>}
      BY <2>0 DEF ProcTypes
    <3>2. proc.prog \in OnTheWay \cup Stops \cup Programs
      BY <2>0 DEF ProcTypes
    <3>3. proc.prog # "usage"
      BY <3>2 DEF OnTheWay, Stops, Programs
    <3> QED BY <3>1, <3>3
  <2>2. proc.prog = "real" => /\ \/ proc.args = AskedTool
                                 \/ proc.args = <<"nix", "build">> /\ Head(AskedTool) = "darwin-rebuild"
                              /\ proc.root <=> asked.name = "sudo"
    BY DEF ChainInv, Situated, AtReal, Onward, ByUser
  <2>3. proc.prog = "wrapper" /\ proc.root => conf.wrapper = "store"
    BY DEF ChainInv, Situated, AtWrapper
  <2>4. proc.prog = "end" /\ wrapped = "" /\ conf.files /\ conf.off # "=true" => observed = 1
    BY DEF ChainInv, Situated, Seen, Unhindered
  <2> QED BY <2>1, <2>2, <2>3, <2>4 DEF ObservedOnceUntouched
<1> QED BY <1>1, <1>2, <1>3, PTL
=============================================================================
