------------------------------ MODULE TriageFiler ------------------------------
(***************************************************************************)
(* The triage beads of pg-go-mutate-tui (internal/beads/filer.go): one     *)
(* bead per package and hash, filed by whichever worker records the last   *)
(* file, or by the startup pass.                                           *)
(*                                                                         *)
(* Every file belongs to the package PkgOf[f].  The worker pool is reduced *)
(* to what the filer sees of it: a file without a record of the current    *)
(* content is analysed, reported, recorded, and the hook is called.        *)
(***************************************************************************)
EXTENDS Integers, FiniteSets

CONSTANTS Pkgs, Files, PkgOf, Workers,
          Startup,    \* the goroutine that runs Reconcile
          Nobody,     \* nobody holds the mutex
          MaxHash,    \* bound: contents of a package
          MaxFaults   \* bound: failures and kills

ASSUME ConstantsAssumption ==
    /\ PkgOf \in [Files -> Pkgs]
    /\ Startup \notin Workers /\ Nobody \notin Workers \cup {Startup}
    /\ MaxHash \in Nat \ {0} /\ MaxFaults \in Nat

Hashes == 1..MaxHash
Keys == [pkg : Pkgs, hash : Hashes]
Actors == Workers \cup {Startup}
FilesOf(p) == {f \in Files : PkgOf[f] = p}

VARIABLES
    version,            \* content of each package
    records, reports,   \* hash of the ledger record and of the report of each file
    pc, job, goal,      \* each actor: place; each worker: its file and hash
    holder,             \* who holds Filer.mu
    todo, step, cur, body, \* fileDirs / fileIfComplete of the holder
    filed, loaded, pending, \* Filer: in memory
    markers, torn,      \* triage-filed.jsonl, and whether it ends in a torn line
    beads,              \* beads in the tracker, per key
    lost,               \* beads whose marker was never written
    unsure,             \* beads that bd created without saying so
    mixed,              \* some bead was written from reports of another content
    missed,             \* keys whose startup pass could not read the ledger
    faults

world == <<version, records, reports>>
pool == <<pc, job, goal>>
lock == <<holder, todo, step, cur, body>>
filer == <<filed, loaded, pending>>
outcome == <<markers, torn, beads, lost, unsure, mixed, missed>>
vars == <<world, pool, lock, filer, outcome, faults>>

Fault == faults < MaxFaults /\ faults' = faults + 1
Go(a, l) == pc' = [pc EXCEPT ![a] = l]
Complete(p, h) == FilesOf(p) # {} /\ \A f \in FilesOf(p) : records[f] = h

Init ==
    /\ version = [p \in Pkgs |-> 1]
    /\ records = [f \in Files |-> 0] /\ reports = [f \in Files |-> 0]
    /\ pc = [a \in Actors |-> IF a = Startup THEN "hook" ELSE "idle"]
    /\ job \in [Workers -> Files] /\ goal = [w \in Workers |-> 1]
    /\ holder = Nobody /\ todo = {} /\ step = "next"
    /\ cur \in Keys /\ body = {}
    /\ filed = {} /\ loaded = FALSE /\ pending = {}
    /\ markers = {} /\ torn = FALSE
    /\ beads = [k \in Keys |-> 0] /\ lost = [k \in Keys |-> 0]
    /\ unsure = [k \in Keys |-> 0] /\ mixed = FALSE /\ missed = {}
    /\ faults = 0

-----------------------------------------------------------------------------
(* The sweep around the filer.                                             *)

Edit(p) ==
    /\ version[p] < MaxHash
    /\ version' = [version EXCEPT ![p] = @ + 1]
    /\ UNCHANGED <<records, reports, pool, lock, filer, outcome, faults>>

\* A file that no worker has and that has no record of this content.
Dispatch(w, f) ==
    /\ pc[w] = "idle"
    /\ \A v \in Workers : pc[v] \in {"run", "append"} => job[v] # f
    /\ records[f] # version[PkgOf[f]]
    /\ job' = [job EXCEPT ![w] = f] /\ goal' = [goal EXCEPT ![w] = version[PkgOf[f]]]
    /\ Go(w, "run")
    /\ UNCHANGED <<world, lock, filer, outcome, faults>>

\* The run writes the report of the file, over the one of an earlier run.
WriteReport(w) ==
    /\ pc[w] = "run"
    /\ reports' = [reports EXCEPT ![job[w]] = goal[w]]
    /\ Go(w, "append")
    /\ UNCHANGED <<version, records, job, goal, lock, filer, outcome, faults>>

AppendRecord(w) ==
    /\ pc[w] = "append"
    /\ records' = [records EXCEPT ![job[w]] = goal[w]]
    /\ Go(w, "hook")
    /\ UNCHANGED <<version, reports, job, goal, lock, filer, outcome, faults>>

-----------------------------------------------------------------------------
(* The filer.                                                              *)

\* OnRecorded: the package of the file, and those whose filing failed.
OnRecorded(w) ==
    /\ pc[w] = "hook" /\ holder = Nobody
    /\ holder' = w
    /\ todo' = {PkgOf[job[w]]} \cup pending
    /\ Go(w, "filing")
    /\ UNCHANGED <<world, job, goal, step, cur, body, filer, outcome, faults>>

\* Reconcile: every package with a record.
Reconcile ==
    /\ pc[Startup] = "hook" /\ holder = Nobody
    /\ holder' = Startup
    /\ todo' = {PkgOf[f] : f \in {g \in Files : records[g] # 0}}
    /\ Go(Startup, "filing")
    /\ UNCHANGED <<world, job, goal, step, cur, body, filer, outcome, faults>>

\* What is remembered of a key: it is filed, its package is kept for retry or
\* about to be looked at, or the hook of a worker that recorded it is due.
Remembered(p, h) ==
    \/ [pkg |-> p, hash |-> h] \in filed
    \/ p \in pending \/ p \in todo
    \/ \E w \in Workers : pc[w] = "hook" /\ PkgOf[job[w]] = p

\* The startup pass cannot read the ledger: it returns, and keeps nothing.
ReconcileFails ==
    /\ pc[Startup] = "hook" /\ holder = Nobody
    /\ Go(Startup, "idle")
    /\ missed' = {k \in Keys : Complete(k.pkg, k.hash) /\ ~Remembered(k.pkg, k.hash)}
    /\ Fault
    /\ UNCHANGED <<world, job, goal, lock, filer, markers, torn, beads, lost, unsure, mixed>>

Unlock ==
    /\ holder # Nobody /\ step = "next" /\ todo = {}
    /\ holder' = Nobody
    /\ Go(holder, "idle")
    /\ UNCHANGED <<world, job, goal, todo, step, cur, body, filer, outcome, faults>>

\* Nothing to file for p: not complete, or filed.
Skip(p) ==
    /\ todo' = todo \ {p} /\ pending' = pending \ {p}
    /\ UNCHANGED <<holder, step, cur, body>>

\* fileIfComplete up to the decision: the ledger, then the markers of earlier
\* sessions, read once.
Examine(p) ==
    /\ holder # Nobody /\ step = "next" /\ p \in todo
    /\ IF \E h \in Hashes : Complete(p, h)
       THEN \E h \in Hashes :
              /\ Complete(p, h)
              /\ loaded' = TRUE
              /\ filed' = IF loaded THEN filed ELSE markers
              /\ IF [pkg |-> p, hash |-> h] \in filed'
                 THEN Skip(p)
                 ELSE /\ cur' = [pkg |-> p, hash |-> h] /\ step' = "read"
                      /\ UNCHANGED <<holder, todo, body, pending>>
       ELSE Skip(p) /\ UNCHANGED <<filed, loaded>>
    /\ UNCHANGED <<world, pool, outcome, faults>>

\* An error up to the creation of the bead: the package is retried later.
Fails(p) ==
    /\ todo' = todo \ {p} /\ pending' = pending \cup {p} /\ step' = "next"
    /\ Fault
    /\ UNCHANGED <<world, pool, holder, cur, body, filed, markers, torn, lost, missed>>

\* Directory, ledger, marker file or label cannot be read.
ExamineFails(p) ==
    /\ holder # Nobody /\ step = "next" /\ p \in todo
    /\ Fails(p) /\ UNCHANGED <<loaded, beads, unsure, mixed>>

ReadReports ==
    /\ step = "read"
    /\ body' = {reports[f] : f \in FilesOf(cur.pkg)}
    /\ step' = "create"
    /\ UNCHANGED <<world, pool, holder, todo, cur, filer, outcome, faults>>

\* bd create.
Create ==
    /\ beads' = [beads EXCEPT ![cur] = @ + 1]
    /\ mixed' = (mixed \/ body # {cur.hash})

FileTriageBead ==
    /\ step = "create"
    /\ Create
    /\ step' = "mark"
    /\ UNCHANGED <<world, pool, holder, todo, cur, body, filer, markers, torn, lost,
                   unsure, missed, faults>>

\* An error, no id or a kill says nothing of the bead: bd may have created it.
CreateUnheard ==
    \/ UNCHANGED <<beads, mixed, unsure>>
    \/ Create /\ unsure' = [unsure EXCEPT ![cur] = @ + 1]

\* Variant: a failed package is not kept.
CreateFailsForgets ==
    /\ step = "create"
    /\ todo' = todo \ {cur.pkg} /\ step' = "next"
    /\ Fault
    /\ UNCHANGED <<world, pool, holder, cur, body, filer, outcome>>

CreateFails ==
    /\ step = "create"
    /\ CreateUnheard
    /\ Fails(cur.pkg) /\ UNCHANGED loaded

\* The marker line; after a torn line it is glued to it and never read back.
MarkFiled ==
    /\ step = "mark"
    /\ filed' = filed \cup {cur}
    /\ IF torn THEN lost' = [lost EXCEPT ![cur] = @ + 1] /\ UNCHANGED markers
               ELSE markers' = markers \cup {cur} /\ UNCHANGED lost
    /\ torn' = FALSE
    /\ step' = "next" /\ todo' = todo \ {cur.pkg} /\ pending' = pending \ {cur.pkg}
    /\ UNCHANGED <<world, pool, holder, cur, body, loaded, beads, unsure, mixed, missed,
                   faults>>

\* Variant: the failure is returned, and the package filed again later.
MarkFailsRetried ==
    /\ step = "mark"
    /\ todo' = todo \ {cur.pkg} /\ pending' = pending \cup {cur.pkg} /\ step' = "next"
    /\ Fault
    /\ UNCHANGED <<world, pool, holder, cur, body, filed, loaded, outcome>>

\* The marker cannot be written: the bead exists, so it is not retried.
MarkFails ==
    /\ step = "mark"
    /\ filed' = filed \cup {cur}
    /\ lost' = [lost EXCEPT ![cur] = @ + 1]
    /\ step' = "next" /\ todo' = todo \ {cur.pkg} /\ pending' = pending \ {cur.pkg}
    /\ Fault
    /\ UNCHANGED <<world, pool, holder, cur, body, loaded, markers, torn, beads, unsure, mixed,
                   missed>>

\* The process ends anywhere and is started again.
Restart ==
    /\ Fault
    /\ pc' = [a \in Actors |-> IF a = Startup THEN "hook" ELSE "idle"]
    /\ holder' = Nobody /\ todo' = {} /\ step' = "next"
    /\ filed' = {} /\ loaded' = FALSE /\ pending' = {}
    /\ IF step = "mark"
       THEN lost' = [lost EXCEPT ![cur] = @ + 1] /\ torn' \in {torn, TRUE}
       ELSE UNCHANGED <<lost, torn>>
    /\ IF step = "create" THEN CreateUnheard ELSE UNCHANGED <<beads, mixed, unsure>>
    /\ missed' = {}
    /\ UNCHANGED <<world, job, goal, cur, body, markers>>

SweepStep(w) == (\E f \in Files : Dispatch(w, f)) \/ WriteReport(w) \/ AppendRecord(w)
FilerStep == \/ Reconcile \/ ReconcileFails \/ Unlock \/ ReadReports \/ FileTriageBead \/ CreateFails
             \/ MarkFiled \/ MarkFails
             \/ \E w \in Workers : OnRecorded(w)
             \/ \E p \in Pkgs : Examine(p) \/ ExamineFails(p)

Next == \/ FilerStep \/ Restart
        \/ \E w \in Workers : SweepStep(w)
        \/ \E p \in Pkgs : Edit(p)

Spec == Init /\ [][Next]_vars

-----------------------------------------------------------------------------
(* Properties.                                                             *)

TypeOK ==
    /\ version \in [Pkgs -> Hashes]
    /\ records \in [Files -> 0..MaxHash] /\ reports \in [Files -> 0..MaxHash]
    /\ pc \in [Actors -> {"idle", "run", "append", "hook", "filing"}]
    /\ job \in [Workers -> Files] /\ goal \in [Workers -> Hashes]
    /\ holder \in Actors \cup {Nobody} /\ todo \subseteq Pkgs
    /\ step \in {"next", "read", "create", "mark"} /\ cur \in Keys
    /\ body \subseteq 0..MaxHash
    /\ filed \subseteq Keys /\ loaded \in BOOLEAN /\ pending \subseteq Pkgs
    /\ markers \subseteq Keys /\ torn \in BOOLEAN
    /\ beads \in [Keys -> Nat] /\ lost \in [Keys -> Nat]
    /\ unsure \in [Keys -> Nat] /\ missed \subseteq Keys
    /\ mixed \in BOOLEAN /\ faults \in 0..MaxFaults

\* A key gets a second bead only where the marker of an earlier one was lost, or
\* where bd created one and did not say so: workers that record the last files
\* together, retries and the startup pass do not file twice (filer.go:40, :213).
OneBeadPerMarker == \A k \in Keys : beads[k] <= 1 + lost[k] + unsure[k]

\* What counts as filed has a bead: no package is skipped for a bead that was
\* never created.
FiledHasBead == \A k \in filed \cup markers : beads[k] > 0

\* Beads and markers agree: no marker without its bead, and no second bead
\* where the marker was not lost and bd answered.
BeadsMatchMarkers == OneBeadPerMarker /\ FiledHasBead

Promise == INSTANCE OneBeadPerKey
             WITH known <- filed, open <- IF step = "mark" THEN {cur} ELSE {}

\* Workers that record the last files together, retries, failed markers, kills
\* and the next session file a key as OneBeadPerKey promises (filer.go:40).
FilesOneBeadPerKey == Promise!Spec

\* A complete package is filed, or kept for retry, or somebody is still going to
\* look at it: the filing is not lost between two workers, or with a bd that is
\* down (filer.go:83).  The one exception is what a startup pass that cannot read
\* the ledger leaves behind (filer.go:99).
CompleteIsRemembered == \A p \in Pkgs, h \in Hashes : Complete(p, h) =>
    Remembered(p, h) \/ pc[Startup] = "hook" \/ [pkg |-> p, hash |-> h] \in missed

\* filer.go:94 promises it without the exception: "A failure is logged and kept
\* for retry on the next OnRecorded, exactly as there".
FailureIsKept == \A p \in Pkgs, h \in Hashes : Complete(p, h) =>
    Remembered(p, h) \/ pc[Startup] = "hook"

\* filer.go:28: with two hashes "no single consistent run exists to hand to an
\* agent".  Not checked, since the code does not keep it: a bead of one hash can
\* carry the reports of a run of the next one that has not recorded itself yet.
BeadIsOneRun == ~mixed
=============================================================================
