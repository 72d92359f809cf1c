-------------------------------- MODULE Exec --------------------------------
(***************************************************************************)
(* Running commands: the worker pool a verb fans out on, and one Run of    *)
(* the real runner per job: a child process, perhaps with a descendant in  *)
(* its process group that keeps the output open, the cancel by SIGTERM and *)
(* SIGKILL after the grace, and what Run reports.                          *)
(*                                                                         *)
(* The verb submits its jobs one by one, waits for all of them and closes  *)
(* the pool.  Its context is cancelled at any time.  Jobs in Grouped run    *)
(* with OwnProcessGroup.                                                   *)
(***************************************************************************)
EXTENDS Naturals, FiniteSets

CONSTANTS Jobs, Grouped, Workers

ASSUME JobAssumption == Grouped \subseteq Jobs /\ Workers # {}

VARIABLES
  verb,       \* "submit", "wait", "close", "done"
  pending,    \* jobs not yet submitted
  waiting,    \* the WaitGroup: jobs submitted and not done
  closed,     \* the done channel of the pool
  worker,     \* worker[w]: "idle", "gone" or the job it runs
  cancelled,  \* the context
  call,       \* call[j]: "none", "running", "reaping", "returned"
  result,     \* result[j]: "none", "ok", "exit", "signal", "ctx", "panic"
  leader,     \* leader[j]: "none", "alive", "zero", "nonzero", "killed"
  member,     \* member[j]: the descendant: "none", "alive", "dead"
  holds,      \* jobs whose descendant keeps the output pipes open
  termed,     \* jobs whose child was sent SIGTERM
  expired     \* jobs whose grace has elapsed

execVars == <<verb, pending, waiting, closed, worker, cancelled,
          call, result, leader, member, holds, termed, expired>>
pool == <<verb, pending, waiting, closed, worker>>
child == <<leader, member, holds>>

Idle(w) == worker[w] = "idle"
Ended(j) == leader[j] \in {"zero", "nonzero", "killed"}

----------------------------------------------------------------------------
(* The pool.  The channel has no buffer: a job is handed to an idle worker. *)

Submit(w, j) ==
  /\ verb = "submit" /\ j \in pending /\ Idle(w) /\ ~closed
  /\ pending' = pending \ {j}
  /\ waiting' = waiting \cup {j}
  /\ worker' = [worker EXCEPT ![w] = j]
  /\ verb' = IF pending = {j} THEN "wait" ELSE "submit"
  /\ UNCHANGED <<closed, cancelled, call, result, child, termed, expired>>

\* wg.Wait.
JobsDone ==
  /\ verb = "wait" /\ waiting = {}
  /\ verb' = "close"
  /\ UNCHANGED <<pending, waiting, closed, worker, cancelled, call, result, child, termed, expired>>

\* Close signals the workers and waits for them.
CloseStart ==
  /\ verb = "close" /\ ~closed
  /\ closed' = TRUE
  /\ UNCHANGED <<verb, pending, waiting, worker, cancelled, call, result, child, termed, expired>>

WorkerEnds(w) ==
  /\ closed /\ Idle(w)
  /\ worker' = [worker EXCEPT ![w] = "gone"]
  /\ UNCHANGED <<verb, pending, waiting, closed, cancelled, call, result, child, termed, expired>>

CloseEnds ==
  /\ verb = "close" /\ closed /\ \A w \in Workers : worker[w] = "gone"
  /\ verb' = "done"
  /\ UNCHANGED <<pending, waiting, closed, worker, cancelled, call, result, child, termed, expired>>

\* Variant: a panic ends the worker that met it, before the job is done.
PanicEndsWorker(w) ==
  /\ worker[w] \in Jobs
  /\ LET j == worker[w] IN
       /\ call[j] = "returned"
       /\ \/ /\ worker' = [worker EXCEPT ![w] = "idle"]
             /\ waiting' = waiting \ {j}
             /\ UNCHANGED result
          \/ /\ worker' = [worker EXCEPT ![w] = "gone"]
             /\ result' = [result EXCEPT ![j] = "panic"]
             /\ UNCHANGED waiting
  /\ UNCHANGED <<verb, pending, closed, cancelled, call, child, termed, expired>>

\* The job's deferred Done runs whether it returns or panics, and runJob
\* recovers: the worker takes the next job.
JobReturns(w) ==
  /\ worker[w] \in Jobs
  /\ LET j == worker[w] IN
       /\ call[j] = "returned"
       /\ worker' = [worker EXCEPT ![w] = "idle"]
       /\ waiting' = waiting \ {j}
       /\ result' \in {result, [result EXCEPT ![j] = "panic"]}
  /\ UNCHANGED <<verb, pending, closed, cancelled, call, child, termed, expired>>

----------------------------------------------------------------------------
(* One Run.                                                                *)

\* A start under a cancelled context does not start the child.
Start(w) ==
  LET j == worker[w]
  IN /\ j \in Jobs /\ call[j] = "none"
     /\ IF cancelled
        THEN /\ call' = [call EXCEPT ![j] = "returned"]
             /\ result' = [result EXCEPT ![j] = "ctx"]
             /\ UNCHANGED leader
        ELSE /\ call' = [call EXCEPT ![j] = "running"]
             /\ leader' = [leader EXCEPT ![j] = "alive"]
             /\ UNCHANGED result
     /\ UNCHANGED <<pool, cancelled, member, holds, termed, expired>>

\* cmd.Cancel: SIGTERM to the group or to the child alone, which may just have
\* ended.  Who obeys is up to them: their exits are actions of their own.
Terminate(j) ==
  /\ call[j] = "running" /\ cancelled /\ j \notin termed
  /\ leader[j] = "alive" \/ (Ended(j) /\ j \notin holds)
  /\ termed' = termed \cup {j}
  /\ UNCHANGED <<pool, cancelled, call, result, child, expired>>

\* The grace (WaitDelay) runs from the cancel or from the exit of the child.
GraceExpires(j) ==
  /\ call[j] \in {"running", "reaping"} /\ j \notin expired
  /\ j \in termed \/ Ended(j)
  /\ expired' = expired \cup {j}
  /\ leader' = IF leader[j] = "alive" THEN [leader EXCEPT ![j] = "killed"] ELSE leader
  /\ UNCHANGED <<pool, cancelled, call, result, member, holds, termed>>

\* Wait returns: the child has ended, and its output has or is given up.
Waited(j) == call[j] = "running" /\ Ended(j) /\ (j \in holds => j \in expired)

\* What Run reports.  A child that ended well after the cancel reached it counts
\* as cancelled; output given up on counts as success when nobody cancelled.
Outcome(j) ==
  CASE leader[j] = "nonzero" -> "exit"
    [] leader[j] = "killed" -> "signal"
    [] OTHER -> IF j \in termed THEN "ctx"
                ELSE IF j \in holds /\ cancelled THEN "ctx" ELSE "ok"

\* Variant: the group is left alone when its leader is gone.
ReturnAtOnce(j) ==
  /\ Waited(j)
  /\ call' = [call EXCEPT ![j] = "returned"]
  /\ result' = [result EXCEPT ![j] = Outcome(j)]
  /\ UNCHANGED <<pool, cancelled, child, termed, expired>>

\* After a cancel the rest of an own group is reaped first.
WaitReturns(j) ==
  /\ Waited(j)
  /\ IF j \in Grouped /\ cancelled
     THEN call' = [call EXCEPT ![j] = "reaping"] /\ UNCHANGED result
     ELSE /\ call' = [call EXCEPT ![j] = "returned"]
          /\ result' = [result EXCEPT ![j] = Outcome(j)]
  /\ UNCHANGED <<pool, cancelled, child, termed, expired>>

\* reapGroup: until the group is empty, or SIGKILL to what is left of it.  A
\* deadline that was never set (the cancel came after the exit) has passed.
ReapGroup(j) ==
  /\ call[j] = "reaping"
  /\ member[j] # "alive" \/ j \in expired \/ j \notin termed
  /\ member' = IF member[j] = "alive" THEN [member EXCEPT ![j] = "dead"] ELSE member
  /\ holds' = holds \ {j}
  /\ call' = [call EXCEPT ![j] = "returned"]
  /\ result' = [result EXCEPT ![j] = Outcome(j)]
  /\ UNCHANGED <<pool, cancelled, leader, termed, expired>>

----------------------------------------------------------------------------
(* The child, its descendant and the user.                                  *)

Exits(j) ==
  /\ leader[j] = "alive"
  /\ \E how \in {"zero", "nonzero"} : leader' = [leader EXCEPT ![j] = how]
  /\ UNCHANGED <<pool, cancelled, call, result, member, holds, termed, expired>>

\* SIGTERM ends a child without a handler.
DiesOfTerm(j) ==
  /\ leader[j] = "alive" /\ j \in termed
  /\ leader' = [leader EXCEPT ![j] = "killed"]
  /\ UNCHANGED <<pool, cancelled, call, result, member, holds, termed, expired>>

Forks(j) ==
  /\ leader[j] = "alive" /\ member[j] = "none"
  /\ member' = [member EXCEPT ![j] = "alive"]
  /\ holds' \in {holds, holds \cup {j}}
  /\ UNCHANGED <<pool, cancelled, call, result, leader, termed, expired>>

DescendantExits(j) ==
  /\ member[j] = "alive"
  /\ member' = [member EXCEPT ![j] = "dead"]
  /\ holds' = holds \ {j}
  /\ UNCHANGED <<pool, cancelled, call, result, leader, termed, expired>>

Cancel ==
  /\ ~cancelled /\ verb # "done"
  /\ cancelled' = TRUE
  /\ UNCHANGED <<pool, call, result, child, termed, expired>>

----------------------------------------------------------------------------
ExecInit ==
  /\ verb = "submit" /\ pending = Jobs /\ waiting = {} /\ closed = FALSE
  /\ worker = [w \in Workers |-> "idle"]
  /\ cancelled = FALSE
  /\ call = [j \in Jobs |-> "none"] /\ result = [j \in Jobs |-> "none"]
  /\ leader = [j \in Jobs |-> "none"] /\ member = [j \in Jobs |-> "none"]
  /\ holds = {} /\ termed = {} /\ expired = {}

\* Steps of pn and of the kernel, which are taken as soon as they can be.
Pn ==
  \/ JobsDone \/ CloseStart \/ CloseEnds
  \/ \E w \in Workers : \/ WorkerEnds(w) \/ JobReturns(w) \/ Start(w)
                        \/ \E j \in Jobs : Submit(w, j)
  \/ \E j \in Jobs : Terminate(j) \/ GraceExpires(j) \/ WaitReturns(j) \/ ReapGroup(j)

World ==
  \/ \E j \in Jobs : Exits(j) \/ DiesOfTerm(j) \/ Forks(j) \/ DescendantExits(j)
  \/ Cancel

ExecNext == Pn \/ World

\* Fairness for pn, the clock and the kernel; none for the commands, which may
\* run for ever, ignore SIGTERM and leave descendants behind.
ExecSpec == ExecInit /\ [][ExecNext]_execVars /\ WF_execVars(Pn)

----------------------------------------------------------------------------
\* A cancelled run in its own process group leaves nobody behind: when Run
\* returns, child and descendant are gone, whatever they did with SIGTERM.
NobodyIsLeft ==
  \A j \in Grouped :
    call[j] = "returned" /\ cancelled /\ (j \in termed \/ result[j] = "ctx") =>
      leader[j] # "alive" /\ member[j] # "alive"

\* A cancelled verb ends, whatever its commands do.
CancelEndsTheVerb == cancelled ~> (verb = "done")

\* Every job has run before the verb goes on, and ok is reported of no command
\* that failed, was killed or was told to stop.
JobsAreAccounted ==
  /\ verb \in {"close", "done"} => \A j \in Jobs : call[j] = "returned"
  /\ \A j \in Jobs : result[j] = "ok" => leader[j] = "zero" /\ j \notin termed

\* What has returned is over: the verb does not go on beside its commands, leaves
\* none of them behind, and reports of each what became of it.
ReturnedMeansOver == NobodyIsLeft /\ JobsAreAccounted
=============================================================================
