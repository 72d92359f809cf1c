-------------------------- MODULE MutationSweepProofs --------------------------
(***************************************************************************)
(* Theorems about MutationSweep for any number of files, workers, versions *)
(* and faults.                                                             *)
(*                                                                         *)
(* A refill judges files by a snapshot of the ledger that is older than    *)
(* the runs that finish meanwhile.  Snapshotted says why that is right: a  *)
(* file that is neither outstanding nor finished since has the record of   *)
(* the snapshot.  Held ties the outstanding set to the queue and workers.  *)
(***************************************************************************)
EXTENDS MutationSweep, SequenceTheorems, TLAPS

Idle == {"start", "loop", "pop", "exited"}

Held ==
    /\ \A i \in DOMAIN pending : pending[i].file \in outstanding
    /\ \A w \in Workers : wpc[w] \notin Idle => entry[w].file \in outstanding
    /\ \A w \in Workers : wpc[w] \in Idle <=> entry[w] = NoEntry
    /\ \A i, j \in DOMAIN pending : pending[i].file = pending[j].file => i = j
    /\ \A v, w \in Workers : entry[v].file = entry[w].file => v = w \/ entry[v] = NoEntry
    /\ \A i \in DOMAIN pending, w \in Workers : pending[i].file # entry[w].file

Snapshotted ==
    /\ rpc \in {"hash", "queue"} =>
          \A f \in Files : f \in outstanding \/ f \in since \/ records[f] = snapshot[f]
    /\ rpc = "queue" => \A f \in todo : snapshot[f].hash # rhash /\ rhash \in Versions

\* Hashes are never ahead of the content; with contents that never come back, an
\* analysis is never behind the hash of its entry.
Stamped ==
    /\ rhash <= version
    /\ \A i \in DOMAIN pending : pending[i].hash <= version
    /\ \A w \in Workers : entry[w].hash <= version
    /\ \A w \in Workers : wpc[w] = "append" => entry[w].hash <= seen[w] /\ seen[w] <= version
    /\ \A f \in Files : records[f].hash <= records[f].seen /\ records[f].seen <= version

-----------------------------------------------------------------------------
\* What Append, Head and Tail do to the queue.
LEMMA QueueFacts ==
    ASSUME pending \in Seq(Entries)
    PROVE  /\ \A e \in Entries :
                /\ Append(pending, e) \in Seq(Entries)
                /\ DOMAIN Append(pending, e) = DOMAIN pending \cup {Len(pending) + 1}
                /\ Append(pending, e)[Len(pending) + 1] = e
                /\ \A i \in DOMAIN pending : Append(pending, e)[i] = pending[i]
           /\ pending # << >> =>
                /\ Head(pending) = pending[1] /\ 1 \in DOMAIN pending
                /\ Tail(pending) \in Seq(Entries)
                /\ \A i \in DOMAIN Tail(pending) :
                     i + 1 \in DOMAIN pending /\ i + 1 # 1 /\ Tail(pending)[i] = pending[i + 1]
           /\ \A i \in DOMAIN pending : pending[i] \in Entries /\ i \in Nat
           /\ Len(pending) + 1 \notin DOMAIN pending
<1>1. \A e \in Entries :
        /\ Append(pending, e) \in Seq(Entries)
        /\ DOMAIN Append(pending, e) = DOMAIN pending \cup {Len(pending) + 1}
        /\ Append(pending, e)[Len(pending) + 1] = e
        /\ \A i \in DOMAIN pending : Append(pending, e)[i] = pending[i]
  BY AppendProperties
<1>2. pending # << >> =>
        /\ Head(pending) = pending[1] /\ 1 \in DOMAIN pending
        /\ Tail(pending) \in Seq(Entries)
        /\ \A i \in DOMAIN Tail(pending) :
             i + 1 \in DOMAIN pending /\ i + 1 # 1 /\ Tail(pending)[i] = pending[i + 1]
  BY HeadTailProperties
<1> QED
  BY <1>1, <1>2

LEMMA EntryFacts ==
    /\ NoEntry.file = NoFile /\ NoEntry.hash = 0 /\ NoFile \notin Files
    /\ \A e \in Entries : e.file \in Files /\ e.hash \in Versions /\ e # NoEntry
    /\ NoRecord \in Recordings /\ NoRecord.hash = 0 /\ NoRecord.seen = 0
    /\ Versions \subseteq 0..MaxVersion
    /\ \A v \in 0..MaxVersion, x \in 0..MaxVersion : [hash |-> v, seen |-> x] \in Recordings
    /\ \A r \in Recordings : r.hash \in 0..MaxVersion /\ r.seen \in 0..MaxVersion
    /\ \A f \in Files, v \in Versions : [file |-> f, hash |-> v] \in Entries
    /\ MaxVersion \in Nat
    /\ \A v \in 0..MaxVersion : v \in Int
BY ConstantsAssumption
   DEF NoEntry, NoHash, Entries, Versions, NoRecord, Recordings

Inv == TypeOK /\ Held /\ Snapshotted /\ NoRedundantRun

Flags == /\ torn \in BOOLEAN /\ backoff \in BOOLEAN /\ added \in BOOLEAN
         /\ firstDone \in BOOLEAN /\ fatal \in BOOLEAN /\ done \in BOOLEAN
         /\ clean \in BOOLEAN

\* The Boolean variables stay Boolean.
LEMMA FlagsStep == Flags /\ [Next]_vars => Flags'
<1> SUFFICES ASSUME Flags, [Next]_vars PROVE Flags'
  OBVIOUS
<1> USE DEF package, queue, refill, pool, Fault, Flags
<1>1. CASE UNCHANGED vars
  BY <1>1, Zenon DEF vars
<1>2. CASE Edit
  BY <1>2, Zenon DEF Edit
<1>3. CASE RefillStep
  BY <1>3, Zenon DEF RefillStep, RefillBegin, RefillReplay, RefillHash, RefillEnd,
                     RefillExits, RefillFile
<1>4. CASE RefillFails \/ BackoffElapses \/ FirstRefillTimeout
  BY <1>4, Zenon DEF RefillFails, BackoffElapses, FirstRefillTimeout
<1>5. ASSUME NEW w \in Workers, WorkerStep(w) PROVE Flags'
  BY <1>5, Zenon DEF WorkerStep, Begin, Check, Pop, PopEmpty, RunEnds, AppendRecord, Finish
<1>6. ASSUME NEW w \in Workers, RunRetry(w) \/ RunFatal(w) \/ AppendFails(w) PROVE Flags'
  BY <1>6, Zenon DEF RunRetry, RunFatal, AppendFails
<1>7. CASE Interrupt
  BY <1>7, Zenon DEF Interrupt
<1>8. CASE Restart
  <2>1. torn' \in BOOLEAN /\ clean' \in BOOLEAN
    BY <1>8, Zenon DEF Restart
  <2> QED
    BY <1>8, <2>1, Zenon DEF Restart, NewSession
<1> QED
  BY <1>1, <1>2, <1>3, <1>4, <1>5, <1>6, <1>7, <1>8 DEF Next

\* Every operation keeps the types.
LEMMA TypeStep == Inv /\ [Next]_vars => TypeOK'
<1> SUFFICES ASSUME Inv, [Next]_vars PROVE TypeOK'
  OBVIOUS
<1>0. TypeOK /\ Snapshotted /\ Held
  BY DEF Inv
<1> USE <1>0, EntryFacts, ConstantsAssumption
    DEF package, queue, refill, pool, Go, Fault, WorkerPlaces, RefillPlaces
<1>b. Flags'
  BY FlagsStep DEF TypeOK, Flags
<1> USE <1>b DEF Flags
<1>1. CASE UNCHANGED vars
  BY <1>1 DEF vars, TypeOK
<1>2. CASE Edit
  BY <1>2 DEF Edit, TypeOK
<1>3. CASE RefillBegin \/ RefillReplay \/ RefillExits
  BY <1>3 DEF RefillBegin, RefillReplay, RefillExits, TypeOK
<1>4. CASE RefillHash
  BY <1>4 DEF RefillHash, TypeOK
<1>5. CASE RefillEnd
  BY <1>5 DEF RefillEnd, TypeOK
<1>6. ASSUME NEW f \in Files, RefillFile(f) PROVE TypeOK'
  <2>1. [file |-> f, hash |-> rhash] \in Entries
    BY <1>6 DEF RefillFile, Snapshotted
  <2>2. pending' \in Seq(Entries) /\ outstanding' \subseteq Files
    <3>1. CASE f \in outstanding \/ f \in since
      BY <1>6, <3>1 DEF RefillFile, TypeOK
    <3>2. CASE ~(f \in outstanding \/ f \in since)
      <4>1. pending \in Seq(Entries) /\ f \in Files /\ outstanding \subseteq Files
        BY <1>6 DEF TypeOK
      <4>2. Append(pending, [file |-> f, hash |-> rhash]) \in Seq(Entries)
        BY <2>1, <4>1, QueueFacts
      <4> QED
        BY <1>6, <3>2, <4>1, <4>2 DEF RefillFile
    <3> QED
      BY <3>1, <3>2
  <2>3. /\ todo' \subseteq Files
        /\ UNCHANGED <<package, since, rpc, snapshot, rhash, wpc, entry, seen, faults>>
    BY <1>6 DEF RefillFile, TypeOK
  <2> QED
    BY <2>2, <2>3 DEF TypeOK
<1>7. CASE RefillFails \/ BackoffElapses \/ FirstRefillTimeout
  BY <1>7 DEF RefillFails, BackoffElapses, FirstRefillTimeout, TypeOK
<1>8. ASSUME NEW w \in Workers, Begin(w) \/ PopEmpty(w) \/ RunRetry(w) \/ AppendFails(w)
      PROVE  TypeOK'
  <2>1. CASE Begin(w) \/ PopEmpty(w)
    <3>1. wpc' \in [Workers -> WorkerPlaces]
      BY <2>1 DEF Begin, PopEmpty, TypeOK
    <3>2. UNCHANGED <<package, queue, refill, entry, seen, faults>>
      BY <2>1 DEF Begin, PopEmpty
    <3> QED
      BY <3>1, <3>2 DEF TypeOK
  <2>2. CASE RunRetry(w) \/ AppendFails(w)
    <3>1. wpc' \in [Workers -> WorkerPlaces] /\ faults' \in 0..MaxFaults
      BY <2>2 DEF RunRetry, AppendFails, TypeOK
    <3>2. UNCHANGED <<package, queue, refill, entry, seen>>
      BY <2>2 DEF RunRetry, AppendFails
    <3> QED
      BY <3>1, <3>2 DEF TypeOK
  <2> QED
    BY <1>8, <2>1, <2>2
<1>9. ASSUME NEW w \in Workers, Check(w) PROVE TypeOK'
  BY <1>9 DEF Check, TypeOK
<1>10. ASSUME NEW w \in Workers, Pop(w) PROVE TypeOK'
  BY <1>10, QueueFacts DEF Pop, TypeOK
<1>11. ASSUME NEW w \in Workers, RunEnds(w) \/ RunFatal(w) PROVE TypeOK'
  <2>1. wpc' \in [Workers -> WorkerPlaces]
    BY <1>11 DEF RunEnds, RunFatal, TypeOK
  <2>2. seen' \in [Workers -> 0..MaxVersion] /\ faults' \in 0..MaxFaults
    <3>1. CASE RunEnds(w)
      BY <3>1 DEF RunEnds, TypeOK
    <3>2. CASE RunFatal(w)
      BY <3>2 DEF RunFatal, TypeOK
    <3> QED
      BY <1>11, <3>1, <3>2
  <2>3. UNCHANGED <<package, queue, refill, entry>>
    BY <1>11 DEF RunEnds, RunFatal
  <2> QED
    BY <2>1, <2>2, <2>3 DEF TypeOK
<1>12. ASSUME NEW w \in Workers, AppendRecord(w) PROVE TypeOK'
  <2>1. entry[w] \in Entries
    BY <1>12 DEF AppendRecord, TypeOK, Held, Idle
  <2>2. [hash |-> entry[w].hash, seen |-> seen[w]] \in Recordings
    BY <2>1 DEF TypeOK
  <2>3. records' \in [Files -> Recordings]
    BY <1>12, <2>1, <2>2 DEF AppendRecord, TypeOK
  <2> QED
    BY <1>12, <2>3 DEF AppendRecord, TypeOK
<1>13. ASSUME NEW w \in Workers, Finish(w) PROVE TypeOK'
  <2>1. entry[w] \in Entries
    BY <1>13 DEF Finish, TypeOK, Held, Idle
  <2> QED
    BY <1>13, <2>1 DEF Finish, TypeOK
<1>14. CASE Interrupt
  BY <1>14 DEF Interrupt, TypeOK
<1>15. CASE Restart
  BY <1>15 DEF Restart, NewSession, TypeOK, NoHash
<1> QED
  BY <1>1, <1>2, <1>3, <1>4, <1>5, <1>6, <1>7, <1>8, <1>9, <1>10, <1>11, <1>12,
     <1>13, <1>14, <1>15 DEF Next, RefillStep, WorkerStep

-----------------------------------------------------------------------------
\* A worker moves on without taking or leaving an entry.
Moves(w) ==
    /\ UNCHANGED <<pending, outstanding, entry>>
    /\ \E l \in WorkerPlaces :
         /\ wpc' = [wpc EXCEPT ![w] = l]
         /\ l \in Idle <=> wpc[w] \in Idle

LEMMA StepsAreMoves ==
    ASSUME TypeOK, NEW w \in Workers,
           \/ Begin(w) \/ Check(w) \/ PopEmpty(w) \/ RunEnds(w) \/ RunRetry(w)
           \/ RunFatal(w) \/ AppendRecord(w) \/ AppendFails(w)
    PROVE  Moves(w)
<1> USE DEF Moves, Idle, WorkerPlaces, Go, package, queue, refill, pool
<1>1. CASE Begin(w)
  BY <1>1 DEF Begin
<1>2. CASE Check(w)
  BY <1>2 DEF Check
<1>3. CASE PopEmpty(w)
  BY <1>3 DEF PopEmpty
<1>4. CASE RunEnds(w)
  BY <1>4 DEF RunEnds
<1>5. CASE RunRetry(w)
  BY <1>5 DEF RunRetry
<1>6. CASE RunFatal(w)
  BY <1>6 DEF RunFatal
<1>7. CASE AppendRecord(w)
  BY <1>7 DEF AppendRecord
<1>8. CASE AppendFails(w)
  BY <1>8 DEF AppendFails
<1> QED
  BY <1>1, <1>2, <1>3, <1>4, <1>5, <1>6, <1>7, <1>8

\* The steps that touch neither the queue nor the workers.
Apart == UNCHANGED <<pending, outstanding, entry, wpc>>

LEMMA StepsAreApart ==
    ASSUME \/ UNCHANGED vars \/ Edit \/ RefillBegin \/ RefillReplay \/ RefillHash
           \/ RefillEnd \/ RefillExits \/ RefillFails \/ BackoffElapses \/ FirstRefillTimeout \/ Interrupt
    PROVE  Apart
BY DEF Apart, vars, package, queue, refill, pool, Edit, RefillBegin, RefillReplay, RefillHash,
       RefillEnd, RefillExits, RefillFails,
                BackoffElapses, FirstRefillTimeout, Interrupt

\* Every operation keeps Held.
LEMMA HeldStep == Inv /\ [Next]_vars => Held'
<1> SUFFICES ASSUME Inv, [Next]_vars PROVE Held'
  OBVIOUS
<1>0. TypeOK /\ Held
  BY DEF Inv
<1>1. CASE Apart
  BY <1>0, <1>1 DEF Held, Apart
<1>2. ASSUME NEW w \in Workers, Moves(w) PROVE Held'
  <2>1. PICK l \in WorkerPlaces :
          /\ wpc' = [wpc EXCEPT ![w] = l]
          /\ l \in Idle <=> wpc[w] \in Idle
    BY <1>2 DEF Moves
  <2>2. \A v \in Workers : wpc'[v] \in Idle <=> wpc[v] \in Idle
    BY <1>0, <2>1 DEF TypeOK
  <2>3. UNCHANGED <<pending, outstanding, entry>>
    BY <1>2 DEF Moves
  <2> QED
    BY <1>0, <2>2, <2>3 DEF Held
<1>3. ASSUME NEW f \in Files, RefillFile(f) PROVE Held'
  <2>1. CASE f \in outstanding \/ f \in since
    BY <1>0, <1>3, <2>1 DEF RefillFile, Held, pool
  <2>2. CASE ~(f \in outstanding \/ f \in since)
    <3> DEFINE e == [file |-> f, hash |-> rhash]
    <3>1. e \in Entries /\ e.file = f
      BY <1>3, EntryFacts DEF RefillFile, Snapshotted, Inv
    <3>2. /\ pending' = Append(pending, e) /\ outstanding' = outstanding \cup {f}
          /\ UNCHANGED <<wpc, entry>>
      BY <1>3, <2>2 DEF RefillFile, pool
    <3>3. /\ DOMAIN pending' = DOMAIN pending \cup {Len(pending) + 1}
          /\ pending'[Len(pending) + 1].file = f
          /\ \A i \in DOMAIN pending : pending'[i] = pending[i]
          /\ Len(pending) + 1 \notin DOMAIN pending
      BY <1>0, <3>1, <3>2, QueueFacts DEF TypeOK
    <3>4. \A i \in DOMAIN pending : pending[i].file # f
      BY <1>0, <2>2 DEF Held
    <3>5. \A w \in Workers : entry[w].file # f
      BY <1>0, <2>2, EntryFacts DEF Held
    <3>6. /\ \A i \in DOMAIN pending' : pending'[i].file \in outstanding'
          /\ \A i, j \in DOMAIN pending' : pending'[i].file = pending'[j].file => i = j
          /\ \A i \in DOMAIN pending', w \in Workers : pending'[i].file # entry'[w].file
      BY <1>0, <3>2, <3>3, <3>4, <3>5 DEF Held
    <3> QED
      BY <1>0, <3>2, <3>6 DEF Held
  <2> QED
    BY <2>1, <2>2
<1>4. ASSUME NEW w \in Workers, Pop(w) PROVE Held'
  <2>1. /\ entry' = [entry EXCEPT ![w] = Head(pending)]
        /\ pending' = Tail(pending) /\ wpc' = [wpc EXCEPT ![w] = "run"]
        /\ UNCHANGED outstanding /\ wpc[w] = "pop" /\ pending # << >>
    BY <1>4 DEF Pop, Go
  <2>2. /\ Head(pending) = pending[1] /\ 1 \in DOMAIN pending /\ pending[1] \in Entries
        /\ \A i \in DOMAIN pending' :
             i + 1 \in DOMAIN pending /\ i + 1 # 1 /\ pending'[i] = pending[i + 1]
        /\ \A i \in DOMAIN pending' : i \in Nat
    <3>1. pending \in Seq(Entries) /\ pending' \in Seq(Entries)
      BY <1>0, <2>1, QueueFacts DEF TypeOK
    <3>2. \A i \in DOMAIN pending' : i \in Nat
      BY <3>1
    <3> QED
      BY <2>1, <3>1, <3>2, QueueFacts
  <2>3. /\ entry'[w] = pending[1] /\ wpc'[w] = "run"
        /\ \A v \in Workers \ {w} : entry'[v] = entry[v] /\ wpc'[v] = wpc[v]
    BY <1>0, <2>1, <2>2 DEF TypeOK
  <2>4. \A i \in DOMAIN pending' : pending'[i].file \in outstanding'
    BY <1>0, <2>1, <2>2 DEF Held
  <2>5. \A v \in Workers : wpc'[v] \notin Idle => entry'[v].file \in outstanding'
    BY <1>0, <2>1, <2>2, <2>3 DEF Held
  <2>6. \A v \in Workers : wpc'[v] \in Idle <=> entry'[v] = NoEntry
    BY <1>0, <2>2, <2>3, EntryFacts DEF Held, Idle
  <2>7. \A i, j \in DOMAIN pending' : pending'[i].file = pending'[j].file => i = j
    BY <1>0, <2>2 DEF Held
  <2>8. \A u, v \in Workers : entry'[u].file = entry'[v].file => u = v \/ entry'[u] = NoEntry
    BY <1>0, <2>2, <2>3 DEF Held
  <2>9. \A i \in DOMAIN pending', v \in Workers : pending'[i].file # entry'[v].file
    BY <1>0, <2>2, <2>3 DEF Held
  <2> QED
    BY <2>4, <2>5, <2>6, <2>7, <2>8, <2>9 DEF Held
<1>5. ASSUME NEW w \in Workers, Finish(w) PROVE Held'
  <2>1. /\ entry' = [entry EXCEPT ![w] = NoEntry] /\ UNCHANGED pending
        /\ outstanding' = outstanding \ {entry[w].file}
        /\ wpc' = [wpc EXCEPT ![w] = IF wpc[w] = "release" THEN "exited" ELSE "loop"]
        /\ wpc[w] \notin Idle
    BY <1>5 DEF Finish, Go, Idle
  <2>2. /\ entry'[w] = NoEntry /\ wpc'[w] \in Idle
        /\ \A v \in Workers \ {w} : entry'[v] = entry[v] /\ wpc'[v] = wpc[v]
    BY <1>0, <2>1 DEF TypeOK, Idle
  <2>3. entry[w] # NoEntry
    BY <1>0, <2>1 DEF Held
  <2>4. \A i \in DOMAIN pending : pending[i].file \in Files
    BY <1>0, QueueFacts, EntryFacts DEF TypeOK
  <2>5. \A i \in DOMAIN pending' : pending'[i].file \in outstanding'
    BY <1>0, <2>1 DEF Held
  <2>6. \A v \in Workers : wpc'[v] \notin Idle => entry'[v].file \in outstanding'
    BY <1>0, <2>1, <2>2, <2>3 DEF Held
  <2>7. \A v \in Workers : wpc'[v] \in Idle <=> entry'[v] = NoEntry
    BY <1>0, <2>2 DEF Held
  <2>8. \A u, v \in Workers : entry'[u].file = entry'[v].file => u = v \/ entry'[u] = NoEntry
    <3>1. \A v \in Workers : entry[v] # NoEntry => entry[v].file # NoFile
      BY <1>0, EntryFacts DEF TypeOK
    <3> QED
      BY <1>0, <2>2, <3>1, EntryFacts DEF Held
  <2>9. \A i \in DOMAIN pending', v \in Workers : pending'[i].file # entry'[v].file
    BY <1>0, <2>1, <2>2, <2>4, EntryFacts DEF Held
  <2> QED
    BY <1>0, <2>1, <2>5, <2>6, <2>7, <2>8, <2>9 DEF Held
<1>6. CASE Restart
  <2>1. /\ pending' = << >> /\ entry' = [w \in Workers |-> NoEntry]
        /\ wpc' = [w \in Workers |-> "start"]
    BY <1>6 DEF Restart, NewSession
  <2> QED
    BY <2>1, EntryFacts DEF Held, Idle
<1> QED
  BY <1>0, <1>1, <1>2, <1>3, <1>4, <1>5, <1>6, StepsAreMoves, StepsAreApart
     DEF Next, RefillStep, WorkerStep

\* Every operation keeps Snapshotted.
LEMMA SnapshottedStep == Inv /\ [Next]_vars => Snapshotted'
<1> SUFFICES ASSUME Inv, [Next]_vars PROVE Snapshotted'
  OBVIOUS
<1>0. TypeOK /\ Held /\ Snapshotted
  BY DEF Inv
<1> DEFINE Same == UNCHANGED <<rpc, snapshot, rhash, todo>>
<1>1. CASE Same /\ UNCHANGED <<records, outstanding, since>>
  BY <1>0, <1>1 DEF Snapshotted
<1>2. CASE RefillBegin
  BY <1>2 DEF RefillBegin, Snapshotted
<1>3. CASE RefillReplay
  BY <1>3 DEF RefillReplay, Snapshotted, package, queue
<1>4. CASE RefillHash
  BY <1>0, <1>4 DEF RefillHash, Snapshotted, package, queue, TypeOK
<1>5. CASE RefillEnd \/ RefillExits \/ RefillFails
  BY <1>5 DEF RefillEnd, RefillExits, RefillFails, Snapshotted
<1>6. ASSUME NEW f \in Files, RefillFile(f) PROVE Snapshotted'
  <2>1. /\ outstanding \subseteq outstanding' /\ todo' \subseteq todo
        /\ UNCHANGED <<records, since, rpc, snapshot, rhash>>
    BY <1>6 DEF RefillFile, package
  <2> QED
    BY <1>0, <2>1 DEF Snapshotted
<1>7. ASSUME NEW w \in Workers, AppendRecord(w) PROVE Snapshotted'
  <2>1. entry[w].file \in outstanding
    BY <1>0, <1>7 DEF AppendRecord, Held, Idle
  <2>2. \A f \in Files : f # entry[w].file => records'[f] = records[f]
    BY <1>0, <1>7 DEF AppendRecord, TypeOK
  <2>3. Same /\ UNCHANGED <<outstanding, since>>
    BY <1>7 DEF AppendRecord, queue, refill
  <2> QED
    BY <1>0, <2>1, <2>2, <2>3 DEF Snapshotted
<1>8. ASSUME NEW w \in Workers, Finish(w) PROVE Snapshotted'
  BY <1>0, <1>8 DEF Finish, Snapshotted, package, refill
<1>9. CASE Restart
  BY <1>9 DEF Restart, NewSession, Snapshotted
<1>10. CASE UNCHANGED vars \/ Edit \/ BackoffElapses \/ FirstRefillTimeout \/ Interrupt
  <2>1. Same /\ UNCHANGED <<records, outstanding, since>>
    BY <1>10 DEF vars, Edit, BackoffElapses, FirstRefillTimeout, Interrupt, package, queue, refill
  <2> QED
    BY <1>1, <2>1
<1>11. ASSUME NEW w \in Workers,
              \/ Begin(w) \/ Check(w) \/ Pop(w) \/ PopEmpty(w) \/ RunEnds(w)
              \/ RunRetry(w) \/ RunFatal(w) \/ AppendFails(w)
       PROVE  Snapshotted'
  <2>1. Same /\ UNCHANGED <<records, outstanding, since>>
    BY <1>11 DEF Begin, Check, Pop, PopEmpty, RunEnds, RunRetry, RunFatal, AppendFails,
                 package, queue, refill
  <2> QED
    BY <1>1, <2>1
<1> QED
  BY <1>2, <1>3, <1>4, <1>5, <1>6, <1>7, <1>8, <1>9, <1>10, <1>11
     DEF Next, RefillStep, WorkerStep

\* No operation queues or runs what is recorded at its hash.
LEMMA RedundantStep == Inv /\ [Next]_vars => NoRedundantRun'
<1> SUFFICES ASSUME Inv, [Next]_vars PROVE NoRedundantRun'
  OBVIOUS
<1>0. TypeOK /\ Held /\ Snapshotted /\ NoRedundantRun
  BY DEF Inv
<1>1. CASE Apart /\ UNCHANGED records
  BY <1>0, <1>1 DEF NoRedundantRun, Apart
<1>2. ASSUME NEW w \in Workers,
             \/ Begin(w) \/ Check(w) \/ PopEmpty(w) \/ RunEnds(w)
             \/ RunRetry(w) \/ RunFatal(w) \/ AppendFails(w)
      PROVE  NoRedundantRun'
  <2>1. UNCHANGED <<records, pending, entry>>
    BY <1>2 DEF Begin, Check, PopEmpty, RunEnds, RunRetry, RunFatal, AppendFails, package, queue
  <2>2. \A v \in Workers : wpc'[v] \in {"run", "append"} => wpc[v] \in {"run", "append"}
    <3>1. \A l : wpc' = [wpc EXCEPT ![w] = l] =>
                   wpc'[w] = l /\ \A v \in Workers \ {w} : wpc'[v] = wpc[v]
      BY <1>0 DEF TypeOK
    <3>2. CASE RunEnds(w)
      BY <3>1, <3>2 DEF RunEnds, Go
    <3>3. CASE Begin(w) \/ Check(w) \/ PopEmpty(w) \/ RunRetry(w) \/ RunFatal(w) \/ AppendFails(w)
      BY <3>1, <3>3 DEF Begin, Check, PopEmpty, RunRetry, RunFatal, AppendFails, Go
    <3> QED
      BY <1>2, <3>2, <3>3
  <2> QED
    BY <1>0, <2>1, <2>2 DEF NoRedundantRun
<1>3. ASSUME NEW f \in Files, RefillFile(f) PROVE NoRedundantRun'
  <2>1. CASE f \in outstanding \/ f \in since
    BY <1>0, <1>3, <2>1 DEF RefillFile, NoRedundantRun, package, pool
  <2>2. CASE ~(f \in outstanding \/ f \in since)
    <3> DEFINE e == [file |-> f, hash |-> rhash]
    <3>1. e \in Entries /\ records[f].hash # rhash
      BY <1>0, <1>3, <2>2, EntryFacts DEF RefillFile, Snapshotted
    <3>2. pending' = Append(pending, e) /\ UNCHANGED <<wpc, entry, records>>
      BY <1>3, <2>2 DEF RefillFile, pool, package
    <3>3. /\ DOMAIN pending' = DOMAIN pending \cup {Len(pending) + 1}
          /\ pending'[Len(pending) + 1] = e
          /\ \A i \in DOMAIN pending : pending'[i] = pending[i]
      BY <1>0, <3>1, <3>2, QueueFacts DEF TypeOK
    <3> QED
      BY <1>0, <3>1, <3>2, <3>3 DEF NoRedundantRun
  <2> QED
    BY <2>1, <2>2
<1>4. ASSUME NEW w \in Workers, Pop(w) PROVE NoRedundantRun'
  <2>1. /\ entry' = [entry EXCEPT ![w] = Head(pending)]
        /\ pending' = Tail(pending) /\ wpc' = [wpc EXCEPT ![w] = "run"]
        /\ UNCHANGED records /\ pending # << >>
    BY <1>4 DEF Pop, Go, package
  <2>2. /\ Head(pending) = pending[1] /\ 1 \in DOMAIN pending
        /\ \A i \in DOMAIN pending' : i + 1 \in DOMAIN pending /\ pending'[i] = pending[i + 1]
    BY <1>0, <2>1, QueueFacts DEF TypeOK
  <2>3. /\ entry'[w] = pending[1]
        /\ \A v \in Workers \ {w} : entry'[v] = entry[v] /\ wpc'[v] = wpc[v]
    BY <1>0, <2>1, <2>2 DEF TypeOK
  <2> QED
    BY <1>0, <2>1, <2>2, <2>3 DEF NoRedundantRun
<1>5. ASSUME NEW w \in Workers, AppendRecord(w) PROVE NoRedundantRun'
  <2>1. entry[w] # NoEntry
    BY <1>0, <1>5 DEF AppendRecord, Held, Idle
  <2>2. \A f \in Files : f # entry[w].file => records'[f] = records[f]
    BY <1>0, <1>5 DEF AppendRecord, TypeOK
  <2>3. wpc' = [wpc EXCEPT ![w] = "finish"] /\ UNCHANGED <<pending, entry>>
    BY <1>5 DEF AppendRecord, Go, queue
  <2>4. wpc'[w] = "finish" /\ \A v \in Workers \ {w} : wpc'[v] = wpc[v]
    BY <1>0, <2>3 DEF TypeOK
  <2>5. \A i \in DOMAIN pending : pending[i].file \in Files /\ pending[i].file # entry[w].file
    BY <1>0, QueueFacts, EntryFacts DEF TypeOK, Held
  <2>6. \A v \in Workers : wpc[v] \in {"run", "append"} => entry[v].file \in Files
    BY <1>0, EntryFacts DEF TypeOK, Held, Idle
  <2>7. \A v \in Workers \ {w} : entry[v].file # entry[w].file
    BY <1>0, <2>1 DEF Held
  <2> QED
    BY <1>0, <2>2, <2>3, <2>4, <2>5, <2>6, <2>7 DEF NoRedundantRun
<1>6. ASSUME NEW w \in Workers, Finish(w) PROVE NoRedundantRun'
  <2>1. /\ UNCHANGED <<records, pending>> /\ entry' = [entry EXCEPT ![w] = NoEntry]
        /\ wpc' = [wpc EXCEPT ![w] = IF wpc[w] = "release" THEN "exited" ELSE "loop"]
    BY <1>6 DEF Finish, Go, package
  <2>2. /\ wpc'[w] \notin {"run", "append"}
        /\ \A v \in Workers \ {w} : entry'[v] = entry[v] /\ wpc'[v] = wpc[v]
    BY <1>0, <2>1 DEF TypeOK
  <2> QED
    BY <1>0, <2>1, <2>2 DEF NoRedundantRun
<1>7. CASE Restart
  BY <1>7 DEF Restart, NewSession, NoRedundantRun
<1>8. ASSUME \/ UNCHANGED vars \/ Edit \/ RefillBegin \/ RefillReplay \/ RefillHash
             \/ RefillEnd \/ RefillExits \/ RefillFails \/ BackoffElapses \/ FirstRefillTimeout \/ Interrupt
      PROVE  NoRedundantRun'
  <2>1. UNCHANGED records
    BY <1>8 DEF vars, package, Edit, RefillBegin, RefillReplay, RefillHash,
                RefillEnd, RefillExits, RefillFails,
                BackoffElapses, FirstRefillTimeout, Interrupt
  <2> QED
    BY <1>1, <1>8, <2>1, StepsAreApart
<1> QED
  BY <1>2, <1>3, <1>4, <1>5, <1>6, <1>7, <1>8 DEF Next, RefillStep, WorkerStep

LEMMA InitInv == Init => Inv
<1> SUFFICES ASSUME Init PROVE Inv
  OBVIOUS
<1>1. torn \in BOOLEAN /\ backoff \in BOOLEAN /\ added \in BOOLEAN /\ firstDone \in BOOLEAN
  BY Zenon DEF Init
<1>2. fatal \in BOOLEAN /\ done \in BOOLEAN /\ clean \in BOOLEAN
  BY Zenon DEF Init
<1>3. TypeOK
  BY <1>1, <1>2, EntryFacts, ConstantsAssumption
     DEF Init, TypeOK, Versions, NoHash, WorkerPlaces, RefillPlaces
<1>4. Held
  BY EntryFacts DEF Init, Held, Idle
<1>5. Snapshotted /\ NoRedundantRun
  BY DEF Init, Snapshotted, NoRedundantRun
<1> QED
  BY <1>3, <1>4, <1>5 DEF Inv

\* Inv is an inductive invariant.
THEOREM Invariance == Spec => []Inv
<1>1. Inv /\ [Next]_vars => Inv'
  BY TypeStep, HeldStep, SnapshottedStep, RedundantStep DEF Inv
<1> QED
  BY InitInv, <1>1, PTL DEF Spec

\* Every variable keeps its type.
THEOREM TypeCorrect == Spec => []TypeOK
<1>1. Inv => TypeOK
  BY DEF Inv
<1> QED
  BY Invariance, <1>1, PTL

\* A file is queued or in flight at most once (Queue.Refill, Pop, Finish).
THEOREM OnceOnly == Spec => []DispatchedOnce
<1>1. Inv => DispatchedOnce
  BY DEF Inv, Held, DispatchedOnce, Queued, InFlight
<1> QED
  BY Invariance, <1>1, PTL

\* What is queued or running has no record at its hash (Queue.Refill judges by an
\* old snapshot and the finish sequence).
THEOREM NothingRepeated == Spec => []NoRedundantRun
<1>1. Inv => NoRedundantRun
  BY DEF Inv
<1> QED
  BY Invariance, <1>1, PTL

\* Nothing is dispatched twice, nor run again once it is recorded.
THEOREM OnceAndForAll == Spec => []NothingIsDoneTwice
<1>1. DispatchedOnce /\ NoRedundantRun => NothingIsDoneTwice
  BY DEF NothingIsDoneTwice
<1> QED
  BY <1>1, OnceOnly, NothingRepeated, PTL

-----------------------------------------------------------------------------
\* Where contents never come back, every operation keeps Stamped.
LEMMA StampedStep == Forward /\ Inv /\ Stamped /\ [Next]_vars => Stamped'
<1> SUFFICES ASSUME Forward, Inv, Stamped, [Next]_vars PROVE Stamped'
  OBVIOUS
<1>0. TypeOK /\ Held /\ Snapshotted
  BY DEF Inv
<1>n. /\ version \in Nat /\ rhash \in Nat
      /\ \A w \in Workers : entry[w].hash \in Nat /\ seen[w] \in Nat
      /\ \A f \in Files : records[f].hash \in Nat /\ records[f].seen \in Nat
      /\ \A i \in DOMAIN pending : pending[i].hash \in Nat
  <2>1. \A v \in 0..MaxVersion : v \in Nat
    BY ConstantsAssumption
  <2>2. \A i \in DOMAIN pending : pending[i].hash \in 0..MaxVersion
    BY <1>0, QueueFacts, EntryFacts DEF TypeOK
  <2>3. \A w \in Workers : entry[w].hash \in 0..MaxVersion
    <3>1. \A e \in Entries \cup {NoEntry} : e.hash \in 0..MaxVersion
      BY EntryFacts, ConstantsAssumption
    <3> QED
      BY <1>0, <3>1 DEF TypeOK
  <2>4. \A f \in Files : records[f].hash \in 0..MaxVersion /\ records[f].seen \in 0..MaxVersion
    BY <1>0, EntryFacts DEF TypeOK
  <2>5. version \in 0..MaxVersion
    BY <1>0, EntryFacts DEF TypeOK
  <2> QED
    BY <1>0, <2>1, <2>2, <2>3, <2>4, <2>5 DEF TypeOK
<1>1. CASE Edit
  <2>1. version' > version /\ version' \in Nat
    BY <1>1, ConstantsAssumption DEF Edit, Versions
  <2>2. UNCHANGED <<records, pending, rhash, wpc, entry, seen>>
    BY <1>1 DEF Edit, queue, refill, pool
  <2> QED
    BY <1>n, <2>1, <2>2 DEF Stamped
<1>2. CASE RefillHash
  BY <1>n, <1>2 DEF RefillHash, Stamped, package, queue, pool
<1>3. ASSUME NEW f \in Files, RefillFile(f) PROVE Stamped'
  <2>1. UNCHANGED <<version, records, rhash, wpc, entry, seen>>
    BY <1>3 DEF RefillFile, package, pool
  <2>2. \A i \in DOMAIN pending' : pending'[i].hash <= version
    <3>1. CASE f \in outstanding \/ f \in since
      BY <1>3, <3>1 DEF RefillFile, Stamped
    <3>2. CASE ~(f \in outstanding \/ f \in since)
      <4> DEFINE e == [file |-> f, hash |-> rhash]
      <4>1. e \in Entries /\ e.hash <= version
        BY <1>0, <1>3, EntryFacts DEF RefillFile, Snapshotted, Stamped
      <4>2. pending' = Append(pending, e)
        BY <1>3, <3>2 DEF RefillFile
      <4>3. /\ DOMAIN pending' = DOMAIN pending \cup {Len(pending) + 1}
            /\ pending'[Len(pending) + 1] = e
            /\ \A i \in DOMAIN pending : pending'[i] = pending[i]
        BY <1>0, <4>1, <4>2, QueueFacts DEF TypeOK
      <4> QED
        BY <4>1, <4>3 DEF Stamped
    <3> QED
      BY <3>1, <3>2
  <2> QED
    BY <2>1, <2>2 DEF Stamped
<1>4. ASSUME NEW w \in Workers, Pop(w) PROVE Stamped'
  <2>1. /\ entry' = [entry EXCEPT ![w] = Head(pending)]
        /\ pending' = Tail(pending) /\ wpc' = [wpc EXCEPT ![w] = "run"]
        /\ UNCHANGED <<version, records, rhash, seen>> /\ pending # << >>
    BY <1>4 DEF Pop, Go, package, refill
  <2>2. /\ Head(pending) = pending[1] /\ 1 \in DOMAIN pending
        /\ \A i \in DOMAIN pending' : i + 1 \in DOMAIN pending /\ pending'[i] = pending[i + 1]
    BY <1>0, <2>1, QueueFacts DEF TypeOK
  <2>3. /\ entry'[w] = pending[1] /\ wpc'[w] = "run"
        /\ \A v \in Workers \ {w} : entry'[v] = entry[v] /\ wpc'[v] = wpc[v]
    BY <1>0, <2>1, <2>2 DEF TypeOK
  <2> QED
    BY <2>1, <2>2, <2>3 DEF Stamped
<1>5. ASSUME NEW w \in Workers, RunEnds(w) PROVE Stamped'
  <2>1. /\ seen' = [seen EXCEPT ![w] = version] /\ wpc' = [wpc EXCEPT ![w] = "append"]
        /\ UNCHANGED <<version, records, rhash, pending, entry>>
    BY <1>5 DEF RunEnds, Go, package, queue, refill
  <2>2. /\ seen'[w] = version
        /\ \A v \in Workers \ {w} : seen'[v] = seen[v] /\ wpc'[v] = wpc[v]
    BY <1>0, <2>1 DEF TypeOK
  <2> QED
    BY <1>n, <2>1, <2>2 DEF Stamped
<1>6. ASSUME NEW w \in Workers, AppendRecord(w) PROVE Stamped'
  <2>1. /\ wpc' = [wpc EXCEPT ![w] = "finish"] /\ wpc[w] = "append"
        /\ UNCHANGED <<version, rhash, pending, entry, seen>>
    BY <1>6 DEF AppendRecord, Go, queue, refill
  <2>2. /\ wpc'[w] = "finish"
        /\ \A v \in Workers \ {w} : wpc'[v] = wpc[v]
    BY <1>0, <2>1 DEF TypeOK
  <2>3. \A f \in Files : \/ records'[f] = records[f]
                         \/ records'[f] = [hash |-> entry[w].hash, seen |-> seen[w]]
    BY <1>0, <1>6 DEF AppendRecord, TypeOK
  <2>4. \A f \in Files : records'[f].hash <= records'[f].seen /\ records'[f].seen <= version
    BY <2>1, <2>3 DEF Stamped
  <2> QED
    BY <2>1, <2>2, <2>4 DEF Stamped
<1>7. ASSUME NEW w \in Workers, Finish(w) PROVE Stamped'
  <2>1. /\ UNCHANGED <<version, records, rhash, pending, seen>>
        /\ entry' = [entry EXCEPT ![w] = NoEntry]
        /\ wpc' = [wpc EXCEPT ![w] = IF wpc[w] = "release" THEN "exited" ELSE "loop"]
    BY <1>7 DEF Finish, Go, package, refill
  <2>2. /\ wpc'[w] # "append" /\ entry'[w].hash = 0
        /\ \A v \in Workers \ {w} : entry'[v] = entry[v] /\ wpc'[v] = wpc[v]
    BY <1>0, <2>1, EntryFacts DEF TypeOK
  <2> QED
    BY <1>n, <2>1, <2>2 DEF Stamped
<1>8. CASE Restart
  <2>1. /\ pending' = << >> /\ rhash' = 0 /\ entry' = [w \in Workers |-> NoEntry]
        /\ wpc' = [w \in Workers |-> "start"] /\ UNCHANGED <<version, records>>
    BY <1>8 DEF Restart, NewSession, NoHash
  <2> QED
    BY <1>n, <2>1, EntryFacts DEF Stamped
<1>9. ASSUME NEW w \in Workers,
             \/ Begin(w) \/ Check(w) \/ PopEmpty(w) \/ RunRetry(w) \/ RunFatal(w) \/ AppendFails(w)
      PROVE  Stamped'
  <2>1. UNCHANGED <<version, records, rhash, pending, entry, seen>>
    BY <1>9 DEF Begin, Check, PopEmpty, RunRetry, RunFatal, AppendFails, package, queue, refill
  <2>2. \A v \in Workers : wpc'[v] = "append" => wpc[v] = "append"
    BY <1>0, <1>9 DEF Begin, Check, PopEmpty, RunRetry, RunFatal, AppendFails, Go, TypeOK
  <2> QED
    BY <2>1, <2>2 DEF Stamped
<1>10. CASE \/ UNCHANGED vars \/ RefillBegin \/ RefillReplay \/ RefillEnd \/ RefillExits
            \/ RefillFails \/ BackoffElapses \/ FirstRefillTimeout \/ Interrupt
  <2>1. UNCHANGED <<version, records, rhash, pending, wpc, entry, seen>>
    BY <1>10 DEF vars, RefillBegin, RefillReplay, RefillEnd, RefillExits, RefillFails,
                 BackoffElapses, FirstRefillTimeout, Interrupt, package, queue, refill, pool
  <2> QED
    BY <2>1 DEF Stamped
<1> QED
  BY <1>1, <1>2, <1>3, <1>4, <1>5, <1>6, <1>7, <1>8, <1>9, <1>10
     DEF Next, RefillStep, WorkerStep

\* A record at the current hash is of an analysis of the current content, where
\* contents never come back (the worker keeps the hash of the refill).
THEOREM RecordsAreTrue == Spec => []RecordIsOfThisContent
<1>1. CASE Forward
  <2>1. Init => Stamped
    BY EntryFacts, ConstantsAssumption DEF Init, Stamped, NoHash
  <2>2. Inv /\ Stamped /\ [Next]_vars => Stamped'
    BY <1>1, StampedStep
  <2>3. TypeOK /\ Stamped => RecordIsOfThisContent
    <3> SUFFICES ASSUME TypeOK, Stamped, NEW f \in Files, records[f].hash = version
                 PROVE  records[f].seen = version
      BY DEF RecordIsOfThisContent
    <3>1. records[f].seen \in Nat /\ version \in Nat
      BY EntryFacts, ConstantsAssumption DEF TypeOK, Versions
    <3> QED
      BY <3>1 DEF Stamped
  <2>4. Inv => TypeOK
    BY DEF Inv
  <2> QED
    BY Invariance, <2>1, <2>2, <2>3, <2>4, PTL DEF Spec
<1>2. CASE ~Forward
  <2>1. RecordIsOfThisContent
    BY <1>2 DEF RecordIsOfThisContent
  <2> QED
    BY <2>1, PTL
<1> QED
  BY <1>1, <1>2
-----------------------------------------------------------------------------
(* A headless run that nothing disturbs.  Accounted is the converse of     *)
(* Held.  Until the first refill ends no worker starts; from then on every *)
(* file is outstanding or recorded, so that a later refill adds nothing    *)
(* and a worker that finds the queue empty leaves nothing behind.          *)

Accounted == \A f \in outstanding : Queued(f) \/ InFlight(f)

Settled(f) == f \in outstanding \/ records[f].hash = version

Current ==
    /\ rpc = "queue" => rhash = version
    /\ \A i \in DOMAIN pending : pending[i].hash = version
    /\ \A w \in Workers : entry[w] # NoEntry => entry[w].hash = version
    /\ \A w \in Workers : wpc[w] = "finish" => records[entry[w].file].hash = version
    /\ \A f \in since : records[f].hash = version

Covered ==
    /\ rpc = "queue" => \A f \in Files : f \in todo \/ Settled(f)
    /\ firstDone => \A f \in Files : Settled(f)
    /\ \A w \in Workers : wpc[w] # "start" => firstDone
    /\ \A w \in Workers : wpc[w] = "exited" => pending = << >>

Calm == ~torn /\ ~fatal /\ ~done /\ \A w \in Workers : wpc[w] # "release"

Undisturbed == Calm /\ Current /\ Covered

Completing == Accounted /\ (Headless /\ clean => Undisturbed)

\* Every outstanding file stays queued or with a worker.
LEMMA AccountedStep == Inv /\ Accounted /\ [Next]_vars => Accounted'
<1> SUFFICES ASSUME Inv, Accounted, [Next]_vars PROVE Accounted'
  OBVIOUS
<1>0. TypeOK /\ Held /\ Snapshotted
  BY DEF Inv
<1>1. CASE UNCHANGED <<pending, outstanding, entry>>
  BY <1>1 DEF Accounted, Queued, InFlight
<1>2. ASSUME NEW f \in Files, RefillFile(f) PROVE Accounted'
  <2>1. CASE f \in outstanding \/ f \in since
    BY <1>1, <1>2, <2>1 DEF RefillFile, pool
  <2>2. CASE ~(f \in outstanding \/ f \in since)
    <3> DEFINE e == [file |-> f, hash |-> rhash]
    <3>1. e \in Entries /\ e.file = f
      BY <1>2, EntryFacts DEF RefillFile, Snapshotted, Inv
    <3>2. /\ pending' = Append(pending, e) /\ outstanding' = outstanding \cup {f}
          /\ UNCHANGED entry
      BY <1>2, <2>2 DEF RefillFile, pool
    <3>3. /\ DOMAIN pending' = DOMAIN pending \cup {Len(pending) + 1}
          /\ pending'[Len(pending) + 1] = e
          /\ \A i \in DOMAIN pending : pending'[i] = pending[i]
      BY <1>0, <3>1, <3>2, QueueFacts DEF TypeOK
    <3> QED
      BY <3>1, <3>2, <3>3 DEF Accounted, Queued, InFlight
  <2> QED
    BY <2>1, <2>2
<1>3. ASSUME NEW w \in Workers, Pop(w) PROVE Accounted'
  <2>1. /\ entry' = [entry EXCEPT ![w] = Head(pending)]
        /\ pending' = Tail(pending) /\ wpc[w] = "pop"
        /\ UNCHANGED outstanding /\ pending # << >>
    BY <1>3 DEF Pop
  <2>2. entry[w] = NoEntry /\ \A f \in outstanding : f # NoEntry.file
    BY <1>0, <2>1, EntryFacts DEF Held, Idle, TypeOK
  <2>3. entry'[w] = pending[1] /\ \A v \in Workers \ {w} : entry'[v] = entry[v]
    BY <1>0, <2>1, QueueFacts DEF TypeOK
  <2>4. \A i \in DOMAIN pending : i # 1 => i - 1 \in DOMAIN pending' /\ pending'[i - 1] = pending[i]
    <3>1. pending \in Seq(Entries) /\ pending' = Tail(pending)
      BY <1>0, <2>1 DEF TypeOK
    <3>2. Len(pending') = Len(pending) - 1 /\ \A j \in 1..Len(pending') : pending'[j] = pending[j + 1]
      BY <2>1, <3>1
    <3>3. DOMAIN pending = 1..Len(pending) /\ DOMAIN pending' = 1..Len(pending')
      BY <2>1, <3>1
    <3> QED
      BY <3>1, <3>2, <3>3
  <2> SUFFICES ASSUME NEW f \in outstanding PROVE Queued(f)' \/ InFlight(f)'
    BY <2>1 DEF Accounted
  <2>5. CASE InFlight(f)
    BY <2>2, <2>3, <2>5 DEF InFlight
  <2>6. CASE Queued(f)
    BY <2>3, <2>4, <2>6 DEF Queued, InFlight
  <2> QED
    BY <2>5, <2>6 DEF Accounted
<1>4. ASSUME NEW w \in Workers, Finish(w) PROVE Accounted'
  <2>1. /\ entry' = [entry EXCEPT ![w] = NoEntry] /\ UNCHANGED pending
        /\ outstanding' = outstanding \ {entry[w].file}
    BY <1>4 DEF Finish
  <2>2. \A v \in Workers \ {w} : entry'[v] = entry[v]
    BY <1>0, <2>1 DEF TypeOK
  <2> QED
    BY <2>1, <2>2 DEF Accounted, Queued, InFlight
<1>5. CASE Restart
  BY <1>5 DEF Restart, NewSession, Accounted
<1>6. ASSUME NEW w \in Workers,
             \/ Begin(w) \/ Check(w) \/ PopEmpty(w) \/ RunEnds(w) \/ RunRetry(w)
             \/ RunFatal(w) \/ AppendRecord(w) \/ AppendFails(w)
      PROVE  Accounted'
  BY <1>0, <1>1, <1>6, StepsAreMoves DEF Moves
<1>7. CASE \/ UNCHANGED vars \/ Edit \/ RefillBegin \/ RefillReplay \/ RefillHash
           \/ RefillEnd \/ RefillExits \/ RefillFails \/ BackoffElapses \/ FirstRefillTimeout \/ Interrupt
  BY <1>1, <1>7, StepsAreApart DEF Apart
<1> QED
  BY <1>2, <1>3, <1>4, <1>5, <1>6, <1>7 DEF Next, RefillStep, WorkerStep

\* A worker's place after it moved, and the places of the others.
LEMMA GoFacts ==
    ASSUME TypeOK, NEW w \in Workers, NEW l, Go(w, l)
    PROVE  wpc'[w] = l /\ \A v \in Workers \ {w} : wpc'[v] = wpc[v]
BY DEF Go, TypeOK

\* Every operation that does not disturb the run keeps Undisturbed.
LEMMA UndisturbedStep ==
    ASSUME Headless, Inv, Undisturbed, [Next]_vars, clean, clean', ~Restart
    PROVE  Undisturbed'
<1>0. TypeOK /\ Held /\ Snapshotted /\ Calm /\ Current /\ Covered
  BY DEF Inv, Undisturbed
<1> USE <1>0 DEF package, queue, refill, pool
<1>c. ~\/ Edit \/ RefillFails \/ FirstRefillTimeout \/ Interrupt
       \/ \E w \in Workers : RunRetry(w) \/ RunFatal(w) \/ AppendFails(w)
  BY DEF Edit, RefillFails, FirstRefillTimeout, Interrupt, RunRetry, RunFatal, AppendFails, Fault
<1>1. CASE UNCHANGED vars \/ BackoffElapses
  BY <1>1 DEF vars, BackoffElapses, Undisturbed, Calm, Current, Covered, Settled
<1>2. CASE RefillBegin \/ RefillReplay \/ RefillExits
  BY <1>2 DEF RefillBegin, RefillReplay, RefillExits, Undisturbed, Calm, Current, Covered, Settled
<1>3. CASE RefillHash
  <2>1. /\ rpc = "hash" /\ rhash' = version /\ todo' = {f \in Files : snapshot[f].hash # version}
        /\ UNCHANGED <<package, queue, firstDone, pool>>
    BY <1>3 DEF RefillHash
  <2>2. \A f \in Files : f \in todo' \/ Settled(f)
    BY <2>1 DEF Snapshotted, Current, Settled
  <2> QED
    BY <2>1, <2>2 DEF Undisturbed, Calm, Current, Covered, Settled
<1>4. CASE RefillEnd
  <2>1. \A f \in Files : Settled(f)
    BY <1>4 DEF RefillEnd, Covered
  <2> QED
    BY <1>4, <2>1 DEF RefillEnd, Undisturbed, Calm, Current, Covered, Settled
<1>5. ASSUME NEW f \in Files, RefillFile(f) PROVE Undisturbed'
  <2>1. /\ rpc = "queue" /\ f \in todo /\ todo' = todo \ {f}
        /\ UNCHANGED <<version, records, torn, since, rpc, rhash, firstDone, pool>>
    BY <1>5 DEF RefillFile
  <2>2. CASE f \in outstanding \/ f \in since
    <3>1. Settled(f) /\ UNCHANGED <<pending, outstanding>>
      BY <1>5, <2>2 DEF RefillFile, Current, Settled
    <3> QED
      BY <2>1, <3>1 DEF Undisturbed, Calm, Current, Covered, Settled
  <2>3. CASE ~(f \in outstanding \/ f \in since)
    <3> DEFINE e == [file |-> f, hash |-> rhash]
    <3>1. e \in Entries /\ e.hash = version
      BY <2>1, EntryFacts DEF Snapshotted, Current
    <3>2. pending' = Append(pending, e) /\ outstanding' = outstanding \cup {f}
      BY <1>5, <2>3 DEF RefillFile
    <3>3. /\ DOMAIN pending' = DOMAIN pending \cup {Len(pending) + 1}
          /\ pending'[Len(pending) + 1] = e
          /\ \A i \in DOMAIN pending : pending'[i] = pending[i]
      BY <3>1, <3>2, QueueFacts DEF TypeOK
    <3>4. Current'
      BY <2>1, <3>1, <3>3 DEF Current
    <3>5. \A w \in Workers : wpc[w] = "start"
      <4>1. records[f].hash # version
        BY <2>1, <2>3 DEF Snapshotted, Current
      <4>2. ~firstDone
        BY <2>3, <4>1 DEF Covered, Settled
      <4> QED
        BY <4>2 DEF Covered
    <3>6. Covered'
      BY <2>1, <3>2, <3>5 DEF Covered, Settled
    <3> QED
      BY <2>1, <3>4, <3>6 DEF Undisturbed, Calm
  <2> QED
    BY <2>2, <2>3
<1>6. ASSUME NEW w \in Workers, NEW l, Go(w, l), l # "release", l # "finish",
             l # "start", l = "exited" => pending = << >>, firstDone,
             UNCHANGED <<package, pending, outstanding, since, entry, refill, fatal, done>>
      PROVE  Undisturbed'
  <2>1. wpc'[w] = l /\ \A v \in Workers \ {w} : wpc'[v] = wpc[v]
    BY <1>6, GoFacts
  <2> QED
    BY <1>6, <2>1 DEF Undisturbed, Calm, Current, Covered, Settled
<1>7. ASSUME NEW w \in Workers, Begin(w) PROVE Undisturbed'
  <2>1. firstDone /\ Go(w, "loop")
    BY <1>7 DEF Begin, Calm
  <2> QED
    BY <1>6, <1>7, <2>1 DEF Begin
<1>8. ASSUME NEW w \in Workers, Check(w) PROVE Undisturbed'
  <2>1. firstDone /\ Go(w, "pop")
    BY <1>8 DEF Check, Calm, Covered
  <2> QED
    BY <1>6, <1>8, <2>1 DEF Check
<1>9. ASSUME NEW w \in Workers, PopEmpty(w) PROVE Undisturbed'
  <2>1. firstDone /\ Go(w, "exited") /\ pending = << >>
    BY <1>9 DEF PopEmpty, Covered
  <2> QED
    BY <1>6, <1>9, <2>1 DEF PopEmpty
<1>10. ASSUME NEW w \in Workers, RunEnds(w) PROVE Undisturbed'
  <2>1. firstDone /\ Go(w, "append")
    BY <1>10 DEF RunEnds, Covered
  <2> QED
    BY <1>6, <1>10, <2>1 DEF RunEnds
<1>11. ASSUME NEW w \in Workers, Pop(w) PROVE Undisturbed'
  <2>1. /\ entry' = [entry EXCEPT ![w] = Head(pending)]
        /\ pending' = Tail(pending) /\ Go(w, "run") /\ wpc[w] = "pop" /\ pending # << >>
        /\ UNCHANGED <<package, outstanding, since, refill, fatal, done>>
    BY <1>11 DEF Pop
  <2>2. /\ Head(pending) = pending[1] /\ 1 \in DOMAIN pending
        /\ \A i \in DOMAIN pending' : i + 1 \in DOMAIN pending /\ pending'[i] = pending[i + 1]
    BY <2>1, QueueFacts DEF TypeOK
  <2>3. entry'[w] = pending[1] /\ \A v \in Workers \ {w} : entry'[v] = entry[v]
    BY <2>1, <2>2 DEF TypeOK
  <2>4. wpc'[w] = "run" /\ \A v \in Workers \ {w} : wpc'[v] = wpc[v]
    BY <2>1, GoFacts
  <2>5. Current'
    BY <2>1, <2>2, <2>3, <2>4 DEF Current
  <2>6. Calm' /\ Covered'
    BY <2>1, <2>4 DEF Calm, Covered, Settled
  <2> QED
    BY <2>5, <2>6 DEF Undisturbed
<1>12. ASSUME NEW w \in Workers, AppendRecord(w) PROVE Undisturbed'
  <2>1. /\ wpc[w] = "append" /\ Go(w, "finish") /\ torn' = FALSE
        /\ records' = [records EXCEPT ![entry[w].file] =
                         [hash |-> entry[w].hash, seen |-> seen[w]]]
        /\ UNCHANGED <<version, queue, refill, entry, fatal, done>>
    BY <1>12 DEF AppendRecord, Calm
  <2>2. entry[w] \in Entries /\ entry[w].file \in Files /\ entry[w].hash = version
    BY <2>1, EntryFacts DEF TypeOK, Held, Idle, Current
  <2>3. \A f \in Files : \/ records'[f] = records[f] /\ f # entry[w].file
                         \/ records'[f].hash = version
    BY <2>1, <2>2 DEF TypeOK
  <2>4. records'[entry[w].file].hash = version
    BY <2>1, <2>2 DEF TypeOK
  <2>5. wpc'[w] = "finish" /\ \A v \in Workers \ {w} : wpc'[v] = wpc[v]
    BY <2>1, GoFacts
  <2>6. \A v \in Workers : wpc[v] = "finish" => entry[v].file \in Files
    BY EntryFacts DEF TypeOK, Held, Idle
  <2>7. Current'
    BY <2>1, <2>3, <2>4, <2>5, <2>6 DEF Current, TypeOK
  <2>8. Calm' /\ Covered'
    BY <2>1, <2>3, <2>5 DEF Calm, Covered, Settled
  <2> QED
    BY <2>7, <2>8 DEF Undisturbed
<1>13. ASSUME NEW w \in Workers, Finish(w) PROVE Undisturbed'
  <2>1. /\ wpc[w] = "finish" /\ Go(w, "loop")
        /\ outstanding' = outstanding \ {entry[w].file}
        /\ since' = since \cup {entry[w].file}
        /\ entry' = [entry EXCEPT ![w] = NoEntry]
        /\ UNCHANGED <<package, pending, refill, fatal, done>>
    BY <1>13 DEF Finish, Calm
  <2>2. records[entry[w].file].hash = version /\ firstDone
    BY <2>1 DEF Current, Covered
  <2>3. wpc'[w] = "loop" /\ \A v \in Workers \ {w} : wpc'[v] = wpc[v]
    BY <2>1, GoFacts
  <2>4. entry'[w] = NoEntry /\ \A v \in Workers \ {w} : entry'[v] = entry[v]
    BY <2>1, EntryFacts DEF TypeOK
  <2>5. Current'
    BY <2>1, <2>2, <2>3, <2>4 DEF Current
  <2>6. Calm' /\ Covered'
    BY <2>1, <2>2, <2>3 DEF Calm, Covered, Settled
  <2> QED
    BY <2>5, <2>6 DEF Undisturbed
<1> QED
  BY <1>c, <1>1, <1>2, <1>3, <1>4, <1>5, <1>7, <1>8, <1>9, <1>10, <1>11, <1>12, <1>13
     DEF Next, RefillStep, WorkerStep

\* A session that starts on a whole ledger is undisturbed.
LEMMA RestartUndisturbed == Restart /\ clean' => Undisturbed'
<1> SUFFICES ASSUME Restart, clean' PROVE Undisturbed'
  OBVIOUS
<1>1. /\ NewSession /\ ~torn'
  BY DEF Restart
<1> QED
  BY <1>1 DEF NewSession, Undisturbed, Calm, Current, Covered

LEMMA CompletingStep == Inv /\ Completing /\ [Next]_vars => Completing'
<1> SUFFICES ASSUME Inv, Completing, [Next]_vars PROVE Completing'
  OBVIOUS
<1>1. Accounted'
  BY AccountedStep DEF Completing
<1>2. ASSUME Headless, clean', ~Restart PROVE Undisturbed'
  <2>1. clean
    BY <1>2 DEF Next, RefillStep, WorkerStep, Fault, pool, vars, Edit, RefillBegin, RefillReplay,
        RefillHash, RefillEnd, RefillExits, RefillFails, RefillFile, BackoffElapses,
        FirstRefillTimeout, Begin, Check, Pop, PopEmpty, RunEnds, RunRetry, RunFatal,
        AppendRecord, AppendFails, Finish, Interrupt
  <2> QED
    BY <1>2, <2>1, UndisturbedStep DEF Completing
<1> QED
  BY <1>1, <1>2, RestartUndisturbed DEF Completing

LEMMA InitCompleting == Init => Completing
BY DEF Init, Completing, Accounted, Undisturbed, Calm, Current, Covered, Settled

\* A headless run that nothing disturbed, with at least one worker (the default
\* concurrency is 1), has recorded every file when it ends.
THEOREM EveryFileIsRecorded ==
    ASSUME Workers # {}
    PROVE  Spec => []UndisturbedRunIsComplete
<1>1. Spec => []Completing
  <2>1. Inv /\ Completing /\ [Next]_vars => Completing'
    BY CompletingStep
  <2> QED
    BY InitCompleting, <2>1, Invariance, PTL DEF Spec
<1>2. Inv /\ Completing => UndisturbedRunIsComplete
  <2> SUFFICES ASSUME Inv, Completing, Headless, AllExited, clean, NEW f \in Files
               PROVE  records[f].hash = version
    BY DEF UndisturbedRunIsComplete
  <2>1. firstDone /\ pending = << >> /\ \A w \in Workers : entry[w] = NoEntry
    BY DEF AllExited, Completing, Undisturbed, Covered, Inv, Held, Idle
  <2>2. ~Queued(f) /\ ~InFlight(f)
    BY <2>1, EntryFacts DEF Queued, InFlight
  <2>3. Settled(f)
    BY <2>1 DEF Completing, Undisturbed, Covered
  <2> QED
    BY <2>2, <2>3 DEF Completing, Accounted, Settled
<1> QED
  BY <1>1, <1>2, Invariance, PTL
=============================================================================
