----------------------------- MODULE MutationSweep -----------------------------
(***************************************************************************)
(* The work queue of pg-go-mutate-tui: the refill goroutine, the worker    *)
(* pool and the ledger file (internal/queue, internal/worker,              *)
(* internal/ledger, cmd/pg-go-mutate-tui/main.go).                         *)
(*                                                                         *)
(* One package; its hash is the version of its content.  The ledger is the *)
(* last valid record of each file, plus whether the file ends in a torn    *)
(* line.  Queue.finishSeq and finishedAt are compared with one snapshot    *)
(* only, so the files finished since that snapshot stand for them.         *)
(***************************************************************************)
EXTENDS Integers, Sequences

CONSTANTS Files, Workers,
          NoFile,
          Low,         \* low watermark
          MaxVersion,  \* bound: the package has contents 1..MaxVersion
          MaxFaults,   \* bound: crashes, retries, lost writes, interrupts
          Forward,     \* a content never comes back
          Headless     \* runHeadless, not run

ASSUME ConstantsAssumption ==
    /\ NoFile \notin Files
    /\ Low \in Nat /\ MaxVersion \in Nat \ {0} /\ MaxFaults \in Nat
    /\ Forward \in BOOLEAN /\ Headless \in BOOLEAN

Versions == 1..MaxVersion
NoHash == 0
NoRecord == [hash |-> NoHash, seen |-> NoHash]
Entries == [file : Files, hash : Versions]

VARIABLES
    version,                 \* content of the package on disk
    records, torn,           \* the ledger: record of each file; torn last line
    pending, outstanding,    \* Queue
    since,                   \* files finished since the snapshot of the refill
    backoff,                 \* an empty refill was recorded less than RefillRetry ago
    rpc, snapshot, rhash, todo, added,  \* refillOnce / Queue.Refill
    firstDone,               \* the first refill ended, or the wait for it did
    wpc, entry, seen,        \* each worker: place, popped entry, content it analysed
    fatal, done,             \* Pool.fatal; the context is cancelled
    faults,                  \* faults and sessions so far
    clean                    \* nothing disturbed this session

package == <<version, records, torn>>
queue == <<pending, outstanding, since, backoff>>
refill == <<rpc, snapshot, rhash, todo, added, firstDone>>
pool == <<wpc, entry, seen, fatal, done>>
vars == <<package, queue, refill, pool, faults, clean>>

NoEntry == [file |-> NoFile, hash |-> NoHash]
WorkerPlaces == {"start", "loop", "pop", "run", "append", "finish", "release", "exited"}
RefillPlaces == {"first", "idle", "replay", "hash", "queue", "exited"}

Fault == faults < MaxFaults /\ faults' = faults + 1 /\ clean' = FALSE
Go(w, l) == wpc' = [wpc EXCEPT ![w] = l]

-----------------------------------------------------------------------------
NewSession ==
    /\ pending' = << >> /\ outstanding' = {} /\ since' = {} /\ backoff' = FALSE
    /\ rpc' = "first" /\ snapshot' = [f \in Files |-> NoRecord] /\ rhash' = NoHash
    /\ todo' = {} /\ added' = FALSE /\ firstDone' = FALSE
    /\ wpc' = [w \in Workers |-> "start"]
    /\ entry' = [w \in Workers |-> NoEntry]
    /\ seen' = [w \in Workers |-> NoHash]
    /\ fatal' = FALSE /\ done' = FALSE

Init ==
    /\ version = 1
    /\ records = [f \in Files |-> NoRecord]
    /\ torn = FALSE
    /\ pending = << >> /\ outstanding = {} /\ since = {} /\ backoff = FALSE
    /\ rpc = "first" /\ snapshot = [f \in Files |-> NoRecord] /\ rhash = NoHash
    /\ todo = {} /\ added = FALSE /\ firstDone = FALSE
    /\ wpc = [w \in Workers |-> "start"]
    /\ entry = [w \in Workers |-> NoEntry]
    /\ seen = [w \in Workers |-> NoHash]
    /\ fatal = FALSE /\ done = FALSE
    /\ faults = 0 /\ clean = TRUE

\* The user edits the package, or returns to an earlier content.
Edit ==
    /\ \E v \in Versions \ {version} : (Forward => v > version) /\ version' = v
    /\ clean' = FALSE
    /\ UNCHANGED <<records, torn, queue, refill, pool, faults>>

-----------------------------------------------------------------------------
(* The refill goroutine.                                                   *)

\* The first pass, or a tick: refillOnce below the low mark and past the backoff: Queue.Refill notes the
\* finish sequence first.
RefillBegin ==
    /\ rpc \in {"first", "idle"}
    /\ Len(pending) < Low /\ ~backoff
    /\ since' = {}
    /\ rpc' = "replay"
    /\ added' = FALSE
    /\ UNCHANGED <<package, pending, outstanding, backoff, snapshot, rhash, todo, firstDone,
                   pool, faults, clean>>

\* Ledger.Replay, outside the lock.
RefillReplay ==
    /\ rpc = "replay"
    /\ snapshot' = records
    /\ rpc' = "hash"
    /\ UNCHANGED <<package, queue, rhash, todo, added, firstDone, pool, faults, clean>>

\* pkghash.Compute, then the files that the snapshot does not show as analysed.
RefillHash ==
    /\ rpc = "hash"
    /\ rhash' = version
    /\ todo' = {f \in Files : snapshot[f].hash # version}
    /\ rpc' = "queue"
    /\ UNCHANGED <<package, queue, snapshot, added, firstDone, pool, faults, clean>>

\* Variant: a file in flight is queued again.
RefillFileIgnoresOutstanding(f) ==
    /\ rpc = "queue" /\ f \in todo
    /\ todo' = todo \ {f}
    /\ IF f \in since
       THEN UNCHANGED <<pending, outstanding, added>>
       ELSE /\ outstanding' = outstanding \cup {f}
            /\ pending' = Append(pending, [file |-> f, hash |-> rhash])
            /\ added' = TRUE
    /\ UNCHANGED <<package, since, backoff, rpc, snapshot, rhash, firstDone, pool, faults, clean>>

\* One file, under the lock.
RefillFile(f) ==
    /\ rpc = "queue" /\ f \in todo
    /\ todo' = todo \ {f}
    /\ IF f \in outstanding \/ f \in since
       THEN UNCHANGED <<pending, outstanding, added>>
       ELSE /\ outstanding' = outstanding \cup {f}
            /\ pending' = Append(pending, [file |-> f, hash |-> rhash])
            /\ added' = TRUE
    /\ UNCHANGED <<package, since, backoff, rpc, snapshot, rhash, firstDone, pool, faults, clean>>

\* A refill that added nothing starts the backoff.
RefillEnd ==
    /\ rpc = "queue" /\ todo = {}
    /\ backoff' = ~added
    /\ rpc' = "idle"
    /\ firstDone' = TRUE
    /\ UNCHANGED <<package, pending, outstanding, since, snapshot, rhash, todo, added,
                   pool, faults, clean>>

\* Discovery fails, or the package cannot be hashed: Refill returns early.
RefillFails ==
    /\ rpc \in {"first", "hash"}
    /\ backoff' = (rpc = "hash")
    /\ rpc' = "idle"
    /\ firstDone' = TRUE
    /\ Fault
    /\ UNCHANGED <<package, pending, outstanding, since, snapshot, rhash, todo, added, pool>>

BackoffElapses ==
    /\ backoff
    /\ backoff' = FALSE
    /\ UNCHANGED <<package, pending, outstanding, since, refill, pool, faults, clean>>

RefillExits ==
    /\ rpc = "idle" /\ done
    /\ rpc' = "exited"
    /\ UNCHANGED <<package, queue, snapshot, rhash, todo, added, firstDone, pool, faults, clean>>

\* waitForFirstRefill gives up.
FirstRefillTimeout ==
    /\ Headless /\ ~firstDone
    /\ firstDone' = TRUE
    /\ Fault
    /\ UNCHANGED <<package, queue, rpc, snapshot, rhash, todo, added, pool>>

-----------------------------------------------------------------------------
(* A worker.                                                               *)

\* Variant: the pool does not wait for the first refill.
BeginAtOnce(w) ==
    /\ wpc[w] = "start"
    /\ Go(w, "loop")
    /\ UNCHANGED <<package, queue, refill, entry, seen, fatal, done, faults, clean>>

\* Pool.Run; runHeadless waits for the first refill, or the end of the context.
Begin(w) ==
    /\ wpc[w] = "start"
    /\ Headless => firstDone \/ done
    /\ Go(w, "loop")
    /\ UNCHANGED <<package, queue, refill, entry, seen, fatal, done, faults, clean>>

Check(w) ==
    /\ wpc[w] = "loop"
    /\ Go(w, IF done \/ fatal THEN "exited" ELSE "pop")
    /\ UNCHANGED <<package, queue, refill, entry, seen, fatal, done, faults, clean>>

Pop(w) ==
    /\ wpc[w] = "pop" /\ pending # << >>
    /\ entry' = [entry EXCEPT ![w] = Head(pending)]
    /\ pending' = Tail(pending)
    /\ Go(w, "run")
    /\ UNCHANGED <<package, outstanding, since, backoff, refill, seen, fatal, done, faults, clean>>

\* Variant: a worker polls an empty queue.
PopEmptyPolls(w) ==
    /\ wpc[w] = "pop" /\ pending = << >>
    /\ Go(w, "loop")
    /\ UNCHANGED <<package, queue, refill, entry, seen, fatal, done, faults, clean>>

\* An empty queue ends the worker.
PopEmpty(w) ==
    /\ wpc[w] = "pop" /\ pending = << >>
    /\ Go(w, "exited")
    /\ UNCHANGED <<package, queue, refill, entry, seen, fatal, done, faults, clean>>

\* pg-go-mutate reads the package and reports.
RunEnds(w) ==
    /\ wpc[w] = "run"
    /\ seen' = [seen EXCEPT ![w] = version]
    /\ Go(w, "append")
    /\ UNCHANGED <<package, queue, refill, entry, fatal, done, faults, clean>>

\* ErrRetry (every slot busy): nothing is recorded.
RunRetry(w) ==
    /\ wpc[w] = "run"
    /\ Go(w, "finish")
    /\ Fault
    /\ UNCHANGED <<package, queue, refill, entry, seen, fatal, done>>

\* ErrFatal (environment): nothing is recorded and the pool stops.
RunFatal(w) ==
    /\ wpc[w] = "run"
    /\ fatal' = TRUE
    /\ Go(w, "release")
    /\ Fault
    /\ UNCHANGED <<package, queue, refill, entry, seen, done>>

\* Variant: the record carries the hash of the package now on disk.
AppendRecordRehashes(w) ==
    /\ wpc[w] = "append"
    /\ records' = IF torn THEN records
                  ELSE [records EXCEPT ![entry[w].file] = [hash |-> version, seen |-> seen[w]]]
    /\ torn' = FALSE
    /\ Go(w, "finish")
    /\ UNCHANGED <<version, queue, refill, entry, seen, fatal, done, faults, clean>>

\* Ledger.Append writes one line.  After a torn line it is glued to it, and
\* Replay skips both.
AppendRecord(w) ==
    /\ wpc[w] = "append"
    /\ records' = IF torn THEN records
                  ELSE [records EXCEPT ![entry[w].file] = [hash |-> entry[w].hash, seen |-> seen[w]]]
    /\ torn' = FALSE
    /\ Go(w, "finish")
    /\ UNCHANGED <<version, queue, refill, entry, seen, fatal, done, faults, clean>>

\* Append fails; the worker ignores the error.
AppendFails(w) ==
    /\ wpc[w] = "append"
    /\ Go(w, "finish")
    /\ Fault
    /\ UNCHANGED <<package, queue, refill, entry, seen, fatal, done>>

\* Queue.Finish, then the next file; after a fatal error the worker ends.
Finish(w) ==
    /\ wpc[w] \in {"finish", "release"}
    /\ outstanding' = outstanding \ {entry[w].file}
    /\ since' = since \cup {entry[w].file}
    /\ entry' = [entry EXCEPT ![w] = NoEntry]
    /\ Go(w, IF wpc[w] = "release" THEN "exited" ELSE "loop")
    /\ UNCHANGED <<package, pending, backoff, refill, seen, fatal, done, faults, clean>>

-----------------------------------------------------------------------------
AllExited == \A w \in Workers : wpc[w] = "exited"

\* Ctrl-C; or, in the TUI, the pool ended on a fatal error (stop()).
Interrupt ==
    /\ ~done
    /\ done' = TRUE
    /\ IF fatal /\ AllExited /\ ~Headless THEN UNCHANGED <<faults, clean>> ELSE Fault
    /\ UNCHANGED <<package, queue, refill, wpc, entry, seen, fatal>>

\* The process ends (quit, kill) and is started again; a write in progress may
\* have left a torn line.
Restart ==
    /\ faults < MaxFaults /\ faults' = faults + 1
    /\ NewSession
    /\ \E t \in {torn, torn \/ \E w \in Workers : wpc[w] = "append"} :
        torn' = t /\ clean' = ~t
    /\ UNCHANGED <<version, records>>

RefillStep == \/ RefillBegin \/ RefillReplay \/ RefillHash \/ RefillEnd \/ RefillExits
              \/ \E f \in Files : RefillFile(f)
WorkerStep(w) == \/ Begin(w) \/ Check(w) \/ Pop(w) \/ PopEmpty(w) \/ RunEnds(w)
                 \/ AppendRecord(w) \/ Finish(w)

Next == \/ RefillStep \/ RefillFails \/ BackoffElapses \/ FirstRefillTimeout
        \/ \E w \in Workers : WorkerStep(w) \/ RunRetry(w) \/ RunFatal(w) \/ AppendFails(w)
        \/ Edit \/ Interrupt \/ Restart

Spec == Init /\ [][Next]_vars

\* The scheduler runs every goroutine, timers fire, and a run of pg-go-mutate ends.
FairSpec == Spec /\ WF_vars(RefillStep) /\ WF_vars(BackoffElapses)
                 /\ \A w \in Workers : WF_vars(WorkerStep(w))

-----------------------------------------------------------------------------
(* Properties.                                                             *)

Recordings == [hash : 0..MaxVersion, seen : 0..MaxVersion]

TypeOK ==
    /\ version \in Versions
    /\ records \in [Files -> Recordings] /\ torn \in BOOLEAN
    /\ pending \in Seq(Entries)
    /\ outstanding \subseteq Files /\ since \subseteq Files /\ backoff \in BOOLEAN
    /\ rpc \in RefillPlaces /\ snapshot \in [Files -> Recordings]
    /\ rhash \in 0..MaxVersion /\ todo \subseteq Files
    /\ added \in BOOLEAN /\ firstDone \in BOOLEAN
    /\ wpc \in [Workers -> WorkerPlaces]
    /\ entry \in [Workers -> Entries \cup {NoEntry}]
    /\ seen \in [Workers -> 0..MaxVersion]
    /\ fatal \in BOOLEAN /\ done \in BOOLEAN
    /\ faults \in 0..MaxFaults /\ clean \in BOOLEAN

Queued(f) == \E i \in DOMAIN pending : pending[i].file = f
InFlight(f) == \E w \in Workers : entry[w].file = f

\* A file is queued or in flight at most once, however many refills run beside
\* the workers (Queue.Refill: "dispatched at most once per entry").
DispatchedOnce ==
    /\ \A i, j \in DOMAIN pending : pending[i].file = pending[j].file => i = j
    /\ \A v, w \in Workers : entry[v].file = entry[w].file => v = w \/ entry[v] = NoEntry
    /\ \A f \in Files : ~(Queued(f) /\ InFlight(f))

\* No run repeats one that the ledger already holds: what is queued or running
\* has no record at its hash.  A refill works from a snapshot that is older than
\* the runs that finish beside it.
NoRedundantRun ==
    /\ \A i \in DOMAIN pending : records[pending[i].file].hash # pending[i].hash
    /\ \A w \in Workers : wpc[w] \in {"run", "append"} =>
          records[entry[w].file].hash # entry[w].hash

\* No work is done twice: not by two workers at once, nor after it was recorded.
NothingIsDoneTwice == DispatchedOnce /\ NoRedundantRun

\* A record at the current hash is of an analysis of the current content,
\* although the hash is taken when the file is queued and the package is edited
\* at any time (ADR 0027).
RecordIsOfThisContent == Forward =>
    \A f \in Files : records[f].hash = version => records[f].seen = version

\* A headless run that nothing disturbed has recorded every file when it ends.
UndisturbedRunIsComplete ==
    (Headless /\ AllExited /\ clean) => \A f \in Files : records[f].hash = version

\* A headless run ends.
HeadlessRunEnds == <>AllExited
=============================================================================
