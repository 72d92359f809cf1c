----------------------------- MODULE RebuildLock -----------------------------
(***************************************************************************)
(* The flock(2) protocol of modules/pn/internal/workspace/rebuildlock.go.  *)
(* One action per system call: another process can act between any two.    *)
(*                                                                         *)
(* A lock file is a key: ApplyKey (apply-<terminal>-<hostname>.lock) or a  *)
(* root (build-<sha(root, terminal)>.lock); the terminal and the host are  *)
(* fixed.  A file holds its flock owners (ex, sh) and its content, which   *)
(* is the record of a run or empty (None).  Time is counted in polls of a  *)
(* waiting run.                                                            *)
(***************************************************************************)
EXTENDS Integers

CONSTANTS Runs, Roots,
          ApplyKey,  \* the host-wide lock file
          None,      \* no run: an unlocked file, an empty record
          Waits      \* values of --wait: 0, a number of polls, or WaitForever

WaitForever == -1

ASSUME ConstantsAssumption ==
    /\ ApplyKey \notin Roots
    /\ None \notin Runs
    /\ Waits \subseteq Nat \cup {WaitForever}

VARIABLES
    verb, root, wait,  \* the command line of each run; they never change
    pc,       \* where the run stands in rebuild / acquireLocks / attemptLocks
    step,     \* index of the lock step attemptLocks is at
    outcome,  \* why a run is ending; "none" while it is not
    busy,     \* the key the last attempt found busy
    polls,    \* how often this run has slept
    named,    \* LockBusyError.Holder of a refused run
    ex, sh,   \* flock state of each file: exclusive owner, shared owners
    record    \* content of each file

run == <<verb, root, wait>>
files == <<ex, sh, record>>
vars == <<verb, root, wait, pc, step, outcome, busy, polls, named, ex, sh, record>>

Verbs == {"apply", "build"}
Keys == Roots \cup {ApplyKey}
Outcomes == {"none", "done", "refused", "cancelled", "failed", "killed"}
Locations == {"idle", "try", "recTruncate", "recWrite", "probeTruncate",
              "probeUnlock", "run", "relTruncate", "relUnlock", "busy",
              "sleep", "over"}

-----------------------------------------------------------------------------
(* The lock steps of a run (rebuildLockSteps).                             *)

\* apply: APPLY then its root's BUILD; build: its root's BUILD then APPLY.
Key(p, i) == IF (verb[p] = "apply") <=> (i = 1) THEN ApplyKey ELSE root[p]

\* Only a build's look at the APPLY key is a probe.
Probes(p, i) == verb[p] = "build" /\ i = 2

Holds(p, k) == ex[k] = p

\* The held locks are released in the order they were taken.
FirstHeld(p) == IF Holds(p, Key(p, 1)) THEN Key(p, 1) ELSE Key(p, 2)

HoldsNothing(p) == ~Holds(p, Key(p, 1)) /\ ~Holds(p, Key(p, 2))

\* Variants: a probe is not seen by an exclusive request; a probe does not see
\* the holder.
ConflictIgnoresProbe(p, i) == ex[Key(p, i)] # None
ConflictIgnoresHolder(p, i) == LET k == Key(p, i) IN
    ~Probes(p, i) /\ (ex[k] # None \/ sh[k] # {})

\* flock(LOCK_NB): exclusive conflicts with anyone, shared with exclusive only.
Conflict(p, i) == LET k == Key(p, i) IN
    \/ ex[k] # None
    \/ ~Probes(p, i) /\ sh[k] # {}

Goto(p, l) == pc' = [pc EXCEPT ![p] = l]

-----------------------------------------------------------------------------
Init ==
    /\ verb \in [Runs -> Verbs]
    /\ root \in [Runs -> Roots]
    /\ wait \in [Runs -> Waits]
    /\ pc = [p \in Runs |-> "idle"]
    /\ step = [p \in Runs |-> 1]
    /\ outcome = [p \in Runs |-> "none"]
    /\ busy = [p \in Runs |-> ApplyKey]
    /\ polls = [p \in Runs |-> 0]
    /\ named = [p \in Runs |-> None]
    /\ ex = [k \in Keys |-> None]
    /\ sh = [k \in Keys |-> {}]
    /\ record = [k \in Keys |-> None]

\* The prelude reaches the lock step: a new invocation, or the next attempt.
Attempt(p) ==
    /\ pc[p] \in {"idle", "sleep"}
    /\ Goto(p, "try")
    /\ step' = [step EXCEPT ![p] = 1]
    /\ UNCHANGED <<run, outcome, busy, polls, named, files>>

\* tryLock takes the file's flock.
TryLock(p) ==
    /\ pc[p] = "try"
    /\ ~Conflict(p, step[p])
    /\ LET k == Key(p, step[p]) IN
       IF Probes(p, step[p])
       THEN /\ sh' = [sh EXCEPT ![k] = @ \cup {p}]
            /\ Goto(p, "probeTruncate")
            /\ UNCHANGED ex
       ELSE /\ ex' = [ex EXCEPT ![k] = p]
            /\ Goto(p, "recTruncate")
            /\ UNCHANGED sh
    /\ UNCHANGED <<run, step, outcome, busy, polls, named, record>>

\* Variant: a failed attempt keeps the locks it took.
TryBusyKeepsLocks(p) ==
    /\ pc[p] = "try"
    /\ Conflict(p, step[p])
    /\ busy' = [busy EXCEPT ![p] = Key(p, step[p])]
    /\ Goto(p, "busy")
    /\ UNCHANGED <<run, step, outcome, polls, named, files>>

\* tryLock finds the file busy: attemptLocks drops what this attempt took.
TryBusy(p) ==
    /\ pc[p] = "try"
    /\ Conflict(p, step[p])
    /\ busy' = [busy EXCEPT ![p] = Key(p, step[p])]
    /\ Goto(p, "relTruncate")
    /\ UNCHANGED <<run, step, outcome, polls, named, files>>

\* open(2) or flock(2) fails otherwise: drop, and the run ends with the error.
TryFails(p) ==
    /\ pc[p] = "try"
    /\ outcome' = [outcome EXCEPT ![p] = "failed"]
    /\ Goto(p, "relTruncate")
    /\ UNCHANGED <<run, step, busy, polls, named, files>>

\* recordHolder: empty the file, then write the record.
RecordTruncate(p) ==
    /\ pc[p] = "recTruncate"
    /\ record' = [record EXCEPT ![Key(p, step[p])] = None]
    /\ Goto(p, "recWrite")
    /\ UNCHANGED <<run, step, outcome, busy, polls, named, ex, sh>>

RecordWrite(p) ==
    /\ pc[p] = "recWrite"
    /\ record' = [record EXCEPT ![Key(p, step[p])] = p]
    /\ Goto(p, IF step[p] = 2 THEN "run" ELSE "try")
    /\ step' = [step EXCEPT ![p] = 2]
    /\ UNCHANGED <<run, outcome, busy, polls, named, ex, sh>>

\* release of the probe: it empties the file too, then unlocks it.
ProbeTruncate(p) ==
    /\ pc[p] = "probeTruncate"
    /\ record' = [record EXCEPT ![Key(p, step[p])] = None]
    /\ Goto(p, "probeUnlock")
    /\ UNCHANGED <<run, step, outcome, busy, polls, named, ex, sh>>

ProbeUnlock(p) ==
    /\ pc[p] = "probeUnlock"
    /\ sh' = [sh EXCEPT ![Key(p, step[p])] = @ \ {p}]
    /\ Goto(p, "run")
    /\ UNCHANGED <<run, step, outcome, busy, polls, named, ex, record>>

\* rebuild returns (the verb's run, or a later prelude step): deferred release.
Finish(p) ==
    /\ pc[p] = "run"
    /\ outcome' = [outcome EXCEPT ![p] = "done"]
    /\ Goto(p, "relTruncate")
    /\ UNCHANGED <<run, step, busy, polls, named, files>>

\* heldLock.release of the next held lock: empty the record first ...
ReleaseTruncate(p) ==
    /\ pc[p] = "relTruncate"
    /\ ~HoldsNothing(p)
    /\ record' = [record EXCEPT ![FirstHeld(p)] = None]
    /\ Goto(p, "relUnlock")
    /\ UNCHANGED <<run, step, outcome, busy, polls, named, ex, sh>>

\* ... then drop the flock and close.
ReleaseUnlock(p) ==
    /\ pc[p] = "relUnlock"
    /\ ex' = [ex EXCEPT ![FirstHeld(p)] = None]
    /\ Goto(p, "relTruncate")
    /\ UNCHANGED <<run, step, outcome, busy, polls, named, sh, record>>

\* Every lock of this attempt is dropped.
Released(p) ==
    /\ pc[p] = "relTruncate"
    /\ HoldsNothing(p)
    /\ Goto(p, IF outcome[p] = "none" THEN "busy" ELSE "over")
    /\ UNCHANGED <<run, step, outcome, busy, polls, named, files>>

\* Fail fast, or the wait is used up (elapsed time may run ahead of polls):
\* the holder's record is read without any lock, and the run exits 75.
Refuse(p) ==
    /\ pc[p] = "busy"
    /\ wait[p] # WaitForever
    /\ named' = [named EXCEPT ![p] = record[busy[p]]]
    /\ outcome' = [outcome EXCEPT ![p] = "refused"]
    /\ Goto(p, "over")
    /\ UNCHANGED <<run, step, busy, polls, files>>

\* Variant: the elapsed time is measured from the last attempt.
SleepRestartsClock(p) ==
    /\ pc[p] = "busy"
    /\ wait[p] = WaitForever \/ polls[p] < wait[p]
    /\ Goto(p, "sleep")
    /\ UNCHANGED <<run, step, outcome, busy, polls, named, files>>

\* Sleep one poll interval; polls of an unlimited wait are not counted.
Sleep(p) ==
    /\ pc[p] = "busy"
    /\ wait[p] = WaitForever \/ polls[p] < wait[p]
    /\ polls' = [polls EXCEPT ![p] = IF wait[p] = WaitForever THEN 0 ELSE @ + 1]
    /\ Goto(p, "sleep")
    /\ UNCHANGED <<run, step, outcome, busy, named, files>>

\* The context ends the sleep.
Cancel(p) ==
    /\ pc[p] = "sleep"
    /\ outcome' = [outcome EXCEPT ![p] = "cancelled"]
    /\ Goto(p, "over")
    /\ UNCHANGED <<run, step, busy, polls, named, files>>

\* SIGKILL or power loss at any point: the kernel drops every flock of the
\* process and nothing rewrites the files.
Kill(p) ==
    /\ pc[p] \notin {"idle", "over"}
    /\ outcome' = [outcome EXCEPT ![p] = "killed"]
    /\ ex' = [k \in Keys |-> IF Holds(p, k) THEN None ELSE ex[k]]
    /\ sh' = [k \in Keys |-> sh[k] \ {p}]
    /\ Goto(p, "over")
    /\ UNCHANGED <<run, step, busy, polls, named, record>>

\* The steps of a run that go on without the world interfering.
Step(p) ==
    \/ Attempt(p) \/ TryLock(p) \/ TryBusy(p)
    \/ RecordTruncate(p) \/ RecordWrite(p)
    \/ ProbeTruncate(p) \/ ProbeUnlock(p)
    \/ Finish(p) \/ ReleaseTruncate(p) \/ ReleaseUnlock(p) \/ Released(p)
    \/ Refuse(p) \/ Sleep(p)

Next == \E p \in Runs : Step(p) \/ TryFails(p) \/ Cancel(p) \/ Kill(p)

Spec == Init /\ [][Next]_vars

\* The operating system schedules every process, and a build or apply ends.
FairSpec == Spec /\ \A p \in Runs : WF_vars(Step(p))

-----------------------------------------------------------------------------
(* Properties.                                                             *)

TypeOK ==
    /\ verb \in [Runs -> Verbs]
    /\ root \in [Runs -> Roots]
    /\ wait \in [Runs -> Waits]
    /\ pc \in [Runs -> Locations]
    /\ step \in [Runs -> {1, 2}]
    /\ outcome \in [Runs -> Outcomes]
    /\ busy \in [Runs -> Keys]
    /\ polls \in [Runs -> Nat]
    /\ named \in [Runs -> Runs \cup {None}]
    /\ ex \in [Keys -> Runs \cup {None}]
    /\ sh \in [Keys -> SUBSET Runs]
    /\ record \in [Keys -> Runs \cup {None}]

\* A run is admitted by the flock of its last step: from then on it runs.
Admitted(p) ==
    \/ pc[p] \in {"probeTruncate", "probeUnlock", "run"}
    \/ pc[p] \in {"recTruncate", "recWrite"} /\ step[p] = 2

Phase == [p \in Runs |-> IF outcome[p] # "none" THEN "over"
                         ELSE IF Admitted(p) THEN "running" ELSE "waiting"]

Flight == INSTANCE SingleFlight WITH phase <- Phase

\* The protocol implements the promise of SingleFlight (README "two runs
\* cannot overlap"): refinement, checked as a property.
ImplementsSingleFlight == Flight!Spec

\* Two applies never run at once on the host, and no two runs share a root,
\* whatever the order of flocks, probes, drops, kills and retries.
MutualExclusion == Flight!OneApply /\ Flight!OneRunPerRoot

\* While a run is inside the locked region, every file it holds carries its
\* own record: no probe, release or failed attempt of another run erases it,
\* although probes and releases truncate files that others use.
RunningRunIsNamed ==
    \A p \in Runs : pc[p] = "run" =>
        \A i \in {1, 2} : ~Probes(p, i) =>
            Holds(p, Key(p, i)) /\ record[Key(p, i)] = p

\* The release order (empty, then unlock): unless its writer was killed, a
\* record on disk is that of a run that still holds the file.
NoFinishedHolderRecorded ==
    \A k \in Keys, q \in Runs :
        record[k] = q /\ outcome[q] # "killed" => Holds(q, k)

\* The records tell the truth both ways: every running run is named in the files
\* it holds, and whoever is named, and was not killed, still holds the file.
FilesNameTheirOwners == RunningRunIsNamed /\ NoFinishedHolderRecorded

\* A run that waits, or that has ended in any way, holds no lock, so a refused
\* or killed apply never leaves the host-wide key behind.
NoLeakedLock ==
    \A p \in Runs : pc[p] \in {"idle", "busy", "sleep", "over"} =>
        \A k \in Keys : ~Holds(p, k) /\ p \notin sh[k]

\* A run that can end by itself does: everyone but an unlimited waiter is
\* admitted, refused, cancelled, failed or killed (--wait=<d> is a bound).
BoundedWaitEnds == \A p \in Runs :
    (pc[p] # "idle" /\ wait[p] # WaitForever) ~> pc[p] = "over"

\* An apply and a build of one root that both wait without limit can make each
\* other fail for ever (each finds the key the other took first); nothing but
\* their timing prevents it.
NoCrossedWaiters == ~\E p, q \in Runs :
    /\ wait[p] = WaitForever /\ wait[q] = WaitForever
    /\ root[p] = root[q] /\ verb[p] # verb[q]

\* Without such a pair a bare --wait ends too: every run that holds a key ends,
\* and a finite number of runs cannot fail each other's attempts for ever.
UnlimitedWaitEnds == \A p \in Runs :
    (NoCrossedWaiters /\ pc[p] # "idle") ~> pc[p] = "over"

\* Waiting ends: always where it is bounded, and without a bound unless two runs
\* of one root wait for each other.
WaitsEnd == BoundedWaitEnds /\ UnlimitedWaitEnds

\* While an apply runs no build is admitted, from any root, although a build
\* only looks at the apply key for an instant.
NoBuildJoinsAnApply == [][
    \A p, q \in Runs :
        /\ Phase[q] = "running" /\ verb[q] = "apply"
        /\ Phase[p] = "waiting" /\ verb[p] = "build"
        => Phase'[p] # "running"]_vars
=============================================================================
