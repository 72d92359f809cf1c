--------------------------- MODULE TriageFilerProofs ---------------------------
(***************************************************************************)
(* Theorems about TriageFiler for any packages, files, workers and faults. *)
(*                                                                         *)
(* Count accounts for every bead: it has a marker, its marker was lost, bd *)
(* created it unheard, or its marker is about to be written.  Session says why a key   *)
(* with a bead is not filed again: what the marker file holds is in memory *)
(* before the decision, and the decision stays right until the marker.     *)
(* StepPromises maps each operation to a step of OneBeadPerKey, or none.   *)
(***************************************************************************)
EXTENDS TriageFiler, TLAPS

Marked(k) == IF k \in markers THEN 1 ELSE 0
Marking(k) == IF step = "mark" /\ cur = k THEN 1 ELSE 0

Count == \A k \in Keys : beads[k] = lost[k] + unsure[k] + Marked(k) + Marking(k)

Session ==
    /\ loaded => markers \subseteq filed
    /\ step # "next" => loaded /\ cur \notin filed

Inv == TypeOK /\ Count /\ Session /\ FiledHasBead

-----------------------------------------------------------------------------
Flags == loaded \in BOOLEAN /\ torn \in BOOLEAN /\ mixed \in BOOLEAN

\* The Boolean variables stay Boolean.
LEMMA FlagsStep == Flags /\ [Next]_vars => Flags'
<1> SUFFICES ASSUME Flags, [Next]_vars PROVE Flags'
  OBVIOUS
<1> USE DEF Flags, filer, outcome
<1>1. CASE UNCHANGED vars
  BY <1>1, Zenon DEF vars
<1>2. CASE Reconcile \/ ReconcileFails \/ Unlock \/ ReadReports \/ MarkFiled \/ MarkFails
  BY <1>2, Zenon DEF Reconcile, ReconcileFails, Unlock, ReadReports, MarkFiled, MarkFails
<1>c. Create \/ mixed' = mixed => mixed' \in BOOLEAN
  <2>1. Create => mixed' = (mixed \/ body # {cur.hash})
    BY Zenon DEF Create
  <2>2. (mixed \/ body # {cur.hash}) \in BOOLEAN
    BY Zenon
  <2> QED
    BY <2>1, <2>2, Zenon
<1>3. CASE FileTriageBead \/ CreateFails
  <2>1. Create \/ mixed' = mixed
    BY <1>3, Zenon DEF FileTriageBead, CreateFails, CreateUnheard
  <2> QED
    BY <1>3, <1>c, <2>1, Zenon DEF FileTriageBead, CreateFails, Fails
<1>4. ASSUME NEW w \in Workers, OnRecorded(w) \/ SweepStep(w) PROVE Flags'
  BY <1>4, Zenon DEF OnRecorded, SweepStep, Dispatch, WriteReport, AppendRecord
<1>5. ASSUME NEW p \in Pkgs, Examine(p) PROVE Flags'
  <2>1. loaded' = TRUE \/ loaded' = loaded
    BY <1>5, Zenon DEF Examine
  <2> QED
    BY <1>5, <2>1, Zenon DEF Examine
<1>6. ASSUME NEW p \in Pkgs, ExamineFails(p) \/ Edit(p) PROVE Flags'
  BY <1>6, Zenon DEF ExamineFails, Fails, Edit
<1>7. CASE Restart
  <2>1. torn' \in BOOLEAN
    BY <1>7, Zenon DEF Restart
  <2>2. Create \/ mixed' = mixed
    BY <1>7, Zenon DEF Restart, CreateUnheard
  <2> QED
    BY <1>7, <1>c, <2>1, <2>2, Zenon DEF Restart
<1> QED
  BY <1>1, <1>2, <1>3, <1>4, <1>5, <1>6, <1>7 DEF Next, FilerStep

\* A bead that may have been created unheard is counted as such.
LEMMA CountUnheard ==
    ASSUME TypeOK, CreateUnheard
    PROVE  /\ beads' \in [Keys -> Nat] /\ unsure' \in [Keys -> Nat]
           /\ \A k \in Keys : beads'[k] - unsure'[k] = beads[k] - unsure[k]
           /\ \A k \in Keys : beads'[k] >= beads[k]
BY DEF TypeOK, CreateUnheard, Create

\* Every operation keeps the types.
LEMMA TypeStep == TypeOK /\ [Next]_vars => TypeOK'
<1> SUFFICES ASSUME TypeOK, [Next]_vars PROVE TypeOK'
  OBVIOUS
<1>b. Flags'
  BY FlagsStep DEF TypeOK, Flags
<1> USE <1>b, ConstantsAssumption
    DEF TypeOK, Flags, world, pool, lock, filer, outcome, Go, Actors, Fault
<1>1. CASE UNCHANGED vars
  BY <1>1 DEF vars
<1>2. ASSUME NEW w \in Workers, OnRecorded(w) PROVE TypeOK'
  BY <1>2 DEF OnRecorded
<1>3. CASE Reconcile \/ ReconcileFails
  BY <1>3 DEF Reconcile, ReconcileFails
<1>4. CASE Unlock
  <2>1. holder \in Actors
    BY <1>4 DEF Unlock
  <2> QED
    BY <1>4, <2>1 DEF Unlock
<1>5. CASE ReadReports
  <2>1. body' \subseteq 0..MaxHash
    BY <1>5 DEF ReadReports, FilesOf
  <2> QED
    BY <1>5, <2>1 DEF ReadReports
<1>6. CASE FileTriageBead
  BY <1>6 DEF FileTriageBead, Create
<1>7. CASE CreateFails
  <2>1. cur.pkg \in Pkgs
    BY DEF Keys
  <2>2. beads' \in [Keys -> Nat] /\ unsure' \in [Keys -> Nat]
    BY <1>7, CountUnheard DEF CreateFails
  <2> QED
    BY <1>7, <2>1, <2>2 DEF CreateFails, Fails
<1>8. CASE MarkFiled
  <2>1. markers' \subseteq Keys /\ lost' \in [Keys -> Nat]
    BY <1>8 DEF MarkFiled
  <2> QED
    BY <1>8, <2>1 DEF MarkFiled
<1>9. CASE MarkFails
  BY <1>9 DEF MarkFails
<1>10. ASSUME NEW p \in Pkgs, Examine(p) PROVE TypeOK'
  <2>1. filed' \in {filed, markers}
    BY <1>10 DEF Examine
  <2>4. cur' \in Keys
    <3>1. cur' = cur \/ \E h \in Hashes : cur' = [pkg |-> p, hash |-> h]
      BY <1>10 DEF Examine, Skip
    <3> QED
      BY <3>1 DEF Keys
  <2>2. todo' \subseteq Pkgs /\ pending' \subseteq Pkgs /\ step' \in {"next", "read"}
    BY <1>10 DEF Examine, Skip
  <2>3. UNCHANGED <<world, pool, holder, body, markers, beads, lost, unsure, missed, faults>>
    BY <1>10 DEF Examine, Skip
  <2> QED
    BY <2>1, <2>2, <2>3, <2>4
<1>11. ASSUME NEW p \in Pkgs, ExamineFails(p) PROVE TypeOK'
  BY <1>11 DEF ExamineFails, Fails
<1>12. ASSUME NEW p \in Pkgs, Edit(p) PROVE TypeOK'
  BY <1>12 DEF Edit, Hashes
<1>13. ASSUME NEW w \in Workers, NEW f \in Files, Dispatch(w, f) PROVE TypeOK'
  BY <1>13 DEF Dispatch
<1>14. ASSUME NEW w \in Workers, WriteReport(w) \/ AppendRecord(w) PROVE TypeOK'
  <2>1. goal[w] \in 0..MaxHash
    BY DEF Hashes
  <2>2. /\ records' \in [Files -> 0..MaxHash] /\ reports' \in [Files -> 0..MaxHash]
        /\ pc' \in [Actors -> {"idle", "run", "append", "hook", "filing"}]
    BY <1>14, <2>1 DEF WriteReport, AppendRecord
  <2>3. UNCHANGED <<version, job, goal, lock, filed, pending, markers, beads, lost,
                    unsure, missed, faults>>
    BY <1>14 DEF WriteReport, AppendRecord
  <2> QED
    BY <2>2, <2>3
<1>15. CASE Restart
  <2>1. lost' \in [Keys -> Nat]
    <3>1. lost' = lost \/ lost' = [lost EXCEPT ![cur] = @ + 1]
      BY <1>15 DEF Restart
    <3> QED
      BY <3>1
  <2>2. beads' \in [Keys -> Nat] /\ unsure' \in [Keys -> Nat]
    BY <1>15, CountUnheard DEF Restart
  <2> QED
    BY <1>15, <2>1, <2>2 DEF Restart
<1> QED
  BY <1>1, <1>2, <1>3, <1>4, <1>5, <1>6, <1>7, <1>8, <1>9, <1>10, <1>11, <1>12,
     <1>13, <1>14, <1>15 DEF Next, FilerStep, SweepStep

\* The steps that touch neither beads and markers nor the decision.
Apart == /\ UNCHANGED <<filed, loaded, markers, beads, lost, unsure, cur>>
         /\ step' = step \/ (step # "mark" /\ step' \in {"next", "read", "create"}
                             /\ (step' # "next" => step # "next"))

LEMMA ApartKeeps == Inv /\ Apart => (Count /\ Session /\ FiledHasBead)'
BY DEF Inv, Apart, Count, Session, FiledHasBead, Marked, Marking

LEMMA StepsAreApart ==
    ASSUME \/ UNCHANGED vars \/ Reconcile \/ ReconcileFails \/ Unlock \/ ReadReports
           \/ (\E w \in Workers : OnRecorded(w) \/ SweepStep(w))
           \/ (\E p \in Pkgs : ExamineFails(p) \/ Edit(p))
    PROVE  Apart
BY DEF Apart, vars, world, pool, lock, filer, outcome, Reconcile, ReconcileFails, Unlock,
       ReadReports, Fails, OnRecorded, SweepStep, Dispatch, WriteReport, AppendRecord,
       ExamineFails, Edit

\* Every operation keeps the account of the beads.
LEMMA CountStep == Inv /\ [Next]_vars => (Count /\ Session /\ FiledHasBead)'
<1> SUFFICES ASSUME Inv, [Next]_vars PROVE (Count /\ Session /\ FiledHasBead)'
  OBVIOUS
<1>0. TypeOK /\ Count /\ Session /\ FiledHasBead
  BY DEF Inv
<1> USE <1>0
<1>1. ASSUME NEW p \in Pkgs, Examine(p) PROVE (Count /\ Session /\ FiledHasBead)'
  <2>1. UNCHANGED <<markers, beads, lost, unsure>>
    BY <1>1 DEF Examine, outcome
  <2>2. step = "next" /\ step' \in {"next", "read"}
    BY <1>1 DEF Examine, Skip
  <2>3. Count'
    BY <2>1, <2>2 DEF Count, Marked, Marking
  <2>4. \A k \in markers : beads[k] > 0
    BY DEF FiledHasBead
  <2>5. filed' \in {filed, markers}
    BY <1>1 DEF Examine
  <2>6. FiledHasBead'
    BY <2>1, <2>4, <2>5 DEF FiledHasBead
  <2>7. loaded' => markers \subseteq filed'
    BY <1>1 DEF Examine, Session
  <2>8. step' # "next" => loaded' /\ cur' \notin filed'
    BY <1>1 DEF Examine, Skip
  <2> QED
    BY <2>1, <2>3, <2>6, <2>7, <2>8 DEF Session
<1>2. CASE FileTriageBead
  <2>1. /\ step = "create" /\ step' = "mark"
        /\ beads' = [beads EXCEPT ![cur] = beads[cur] + 1]
        /\ UNCHANGED <<filed, loaded, markers, lost, unsure, cur>>
    BY <1>2 DEF FileTriageBead, Create, filer
  <2>2. loaded /\ cur \notin filed /\ cur \notin markers
    BY <2>1 DEF Session
  <2>3. \A k \in Keys : beads'[k] = IF k = cur THEN beads[k] + 1 ELSE beads[k]
    BY <2>1 DEF TypeOK
  <2>4. Count'
    BY <2>1, <2>2, <2>3 DEF Count, Marked, Marking, TypeOK
  <2>5. FiledHasBead'
    BY <2>1, <2>3 DEF FiledHasBead, TypeOK
  <2> QED
    BY <2>1, <2>2, <2>4, <2>5 DEF Session
<1>3. CASE MarkFiled \/ MarkFails
  <2>1. /\ step = "mark" /\ step' = "next" /\ filed' = filed \cup {cur}
        /\ UNCHANGED <<loaded, beads, unsure, cur>>
    BY <1>3 DEF MarkFiled, MarkFails
  <2>2. loaded /\ cur \notin filed /\ cur \notin markers /\ cur \in Keys
    BY <2>1 DEF Session, TypeOK
  <2>3. \/ lost' = [lost EXCEPT ![cur] = lost[cur] + 1] /\ UNCHANGED markers
        \/ markers' = markers \cup {cur} /\ UNCHANGED lost
    BY <1>3 DEF MarkFiled, MarkFails
  <2>4. Count'
    <3>1. CASE lost' = [lost EXCEPT ![cur] = lost[cur] + 1] /\ UNCHANGED markers
      <4>1. \A k \in Keys : lost'[k] = IF k = cur THEN lost[k] + 1 ELSE lost[k]
        BY <3>1 DEF TypeOK
      <4> QED
        BY <2>1, <2>2, <3>1, <4>1 DEF Count, Marked, Marking, TypeOK
    <3>2. CASE markers' = markers \cup {cur} /\ UNCHANGED lost
      BY <2>1, <2>2, <3>2 DEF Count, Marked, Marking, TypeOK
    <3> QED
      BY <2>3, <3>1, <3>2
  <2>5. beads[cur] > 0
    BY <2>1, <2>2 DEF Count, Marked, Marking, TypeOK
  <2>6. FiledHasBead'
    BY <2>1, <2>3, <2>5 DEF FiledHasBead
  <2> QED
    BY <2>1, <2>2, <2>3, <2>4, <2>6 DEF Session
<1>4. CASE CreateFails
  <2>1. step = "create" /\ step' = "next" /\ UNCHANGED <<filed, loaded, markers, lost, cur>>
    BY <1>4 DEF CreateFails, Fails
  <2>2. \A k \in Keys : /\ beads'[k] - unsure'[k] = beads[k] - unsure[k]
                       /\ beads'[k] >= beads[k]
    BY <1>4, CountUnheard DEF CreateFails
  <2>3. beads' \in [Keys -> Nat] /\ unsure' \in [Keys -> Nat]
    BY <1>4, CountUnheard DEF CreateFails
  <2>4. Count'
    BY <2>1, <2>2, <2>3 DEF Count, Marked, Marking, TypeOK
  <2>5. FiledHasBead'
    BY <2>1, <2>2, <2>3 DEF FiledHasBead, TypeOK
  <2> QED
    BY <2>1, <2>4, <2>5 DEF Session
<1>5. CASE Restart
  <2>1. step' = "next" /\ filed' = {} /\ loaded' = FALSE /\ UNCHANGED <<cur, markers>>
    BY <1>5 DEF Restart
  <2>2. \/ UNCHANGED <<beads, unsure>>
        \/ step # "mark" /\ CreateUnheard
    BY <1>5 DEF Restart
  <2>3. /\ \A k \in Keys : beads'[k] - unsure'[k] = beads[k] - unsure[k] /\ beads'[k] >= beads[k]
        /\ beads' \in [Keys -> Nat] /\ unsure' \in [Keys -> Nat]
    BY <2>2, CountUnheard DEF TypeOK
  <2>4. Count'
    <3>1. CASE step = "mark"
      <4>1. lost' = [lost EXCEPT ![cur] = lost[cur] + 1] /\ cur \in Keys
        BY <1>5, <3>1 DEF Restart, TypeOK
      <4>2. \A k \in Keys : lost'[k] = IF k = cur THEN lost[k] + 1 ELSE lost[k]
        BY <4>1 DEF TypeOK
      <4> QED
        BY <2>1, <2>2, <3>1, <4>2 DEF Count, Marked, Marking, TypeOK
    <3>2. CASE step # "mark"
      <4>1. UNCHANGED lost
        BY <1>5, <3>2 DEF Restart
      <4> QED
        BY <2>1, <2>3, <3>2, <4>1 DEF Count, Marked, Marking, TypeOK
    <3> QED
      BY <3>1, <3>2
  <2>5. FiledHasBead'
    BY <2>1, <2>3 DEF FiledHasBead, TypeOK
  <2> QED
    BY <2>1, <2>4, <2>5 DEF Session
<1> QED
  BY <1>1, <1>2, <1>3, <1>4, <1>5, StepsAreApart, ApartKeeps DEF Next, FilerStep

LEMMA InitInv == Init => Inv
<1> SUFFICES ASSUME Init PROVE Inv
  OBVIOUS
<1>1. loaded \in BOOLEAN /\ torn \in BOOLEAN /\ mixed \in BOOLEAN
  BY Zenon DEF Init
<1>2. TypeOK
  BY <1>1, ConstantsAssumption DEF Init, TypeOK, Hashes, Actors
<1>3. Count /\ Session /\ FiledHasBead
  BY DEF Init, Count, Session, FiledHasBead, Marked, Marking
<1> QED
  BY <1>2, <1>3 DEF Inv

\* Inv is an inductive invariant.
THEOREM Invariance == Spec => []Inv
<1>1. Inv /\ [Next]_vars => Inv'
  BY TypeStep, CountStep DEF Inv
<1> QED
  BY InitInv, <1>1, PTL DEF Spec

\* Every variable keeps its type.
THEOREM TypeCorrect == Spec => []TypeOK
<1>1. Inv => TypeOK
  BY DEF Inv
<1> QED
  BY Invariance, <1>1, PTL

\* A second bead of a key needs a lost marker or a creation that bd did not report
\* (Filer.mu, filed, markFiled).
THEOREM OneBead == Spec => []OneBeadPerMarker
<1>1. Inv => OneBeadPerMarker
  <2> SUFFICES ASSUME Inv, NEW k \in Keys PROVE beads[k] <= 1 + lost[k] + unsure[k]
    BY DEF OneBeadPerMarker
  <2>1. ~(k \in markers /\ step = "mark" /\ cur = k)
    BY DEF Inv, Session
  <2> QED
    BY <2>1 DEF Inv, TypeOK, Count, Marked, Marking
<1> QED
  BY Invariance, <1>1, PTL

\* What is marked or counted as filed has a bead.
THEOREM NoMarkerWithoutBead == Spec => []FiledHasBead
<1>1. Inv => FiledHasBead
  BY DEF Inv
<1> QED
  BY Invariance, <1>1, PTL

\* A marker has its bead, and a second bead needs a lost marker or an unheard one.
THEOREM MarkersAndBeads == Spec => []BeadsMatchMarkers
<1>1. OneBeadPerMarker /\ FiledHasBead => BeadsMatchMarkers
  BY DEF BeadsMatchMarkers
<1> QED
  BY <1>1, OneBead, NoMarkerWithoutBead, PTL
-----------------------------------------------------------------------------
(* The filer implements OneBeadPerKey: a bead is created, heard of or not, *)
(* marked or lost in one step each, the markers are learnt by the first    *)
(* decision of a session, and the end of the process forgets.              *)

\* Nothing counts as filed before the markers are read.
Fresh == ~loaded => filed = {}

\* Before the markers are read, the session counts nothing as filed.
LEMMA FreshStep == Inv /\ Fresh /\ [Next]_vars => Fresh'
<1> SUFFICES ASSUME Inv, Fresh, [Next]_vars PROVE Fresh'
  OBVIOUS
<1>1. CASE Apart
  BY <1>1 DEF Apart, Fresh
<1>2. ASSUME NEW p \in Pkgs, Examine(p) PROVE Fresh'
  BY <1>2, Zenon DEF Examine, Fresh
<1>3. CASE FileTriageBead
  BY <1>3 DEF FileTriageBead, filer, Fresh
<1>4. CASE MarkFiled \/ MarkFails
  BY <1>4 DEF MarkFiled, MarkFails, Fresh, Inv, Session
<1>5. CASE Restart \/ CreateFails
  BY <1>5 DEF Restart, CreateFails, Fails, Fresh
<1> QED
  BY <1>1, <1>2, <1>3, <1>4, <1>5, StepsAreApart DEF Next, FilerStep

Opened == IF step = "mark" THEN {cur} ELSE {}

\* A step of the filer is a step of the promise, or none.
LEMMA StepPromises ==
  Inv /\ Fresh /\ [Next]_vars => [Promise!Next]_(Promise!vars)
<1> SUFFICES ASSUME Inv, Fresh, [Next]_vars PROVE Promise!Next \/ UNCHANGED Promise!vars
  OBVIOUS
<1>0. TypeOK /\ Count /\ Session /\ cur \in Keys
  BY DEF Inv, TypeOK
<1>1. CASE Apart
  <2>1. UNCHANGED <<filed, markers, beads, lost, unsure>> /\ Opened' = Opened
    BY <1>1 DEF Apart, Opened
  <2> QED
    BY <2>1 DEF Promise!vars, Opened
<1>2. ASSUME NEW p \in Pkgs, Examine(p) PROVE Promise!Next \/ UNCHANGED Promise!vars
  <2>1. UNCHANGED <<markers, beads, lost, unsure>> /\ Opened' = Opened
    BY <1>2 DEF Examine, Skip, outcome, Opened
  <2>2. UNCHANGED filed \/ (~loaded /\ filed' = markers)
    BY <1>2, Zenon DEF Examine
  <2>3. CASE UNCHANGED filed
    BY <2>1, <2>3 DEF Promise!vars, Opened
  <2>4. CASE ~loaded /\ filed' = markers
    <3>1. filed' = filed \cup markers
      BY <2>4 DEF Fresh
    <3> QED
      BY <2>1, <3>1 DEF Promise!Next, Promise!Learn, Opened
  <2> QED
    BY <2>2, <2>3, <2>4
<1>3. CASE FileTriageBead
  <2>1. /\ step = "create" /\ step' = "mark" /\ beads' = [beads EXCEPT ![cur] = @ + 1]
        /\ UNCHANGED <<filed, markers, lost, unsure, cur>>
    BY <1>3 DEF FileTriageBead, Create, filer
  <2>2. Opened = {} /\ Opened' = {cur} /\ cur \notin markers \cup filed
    BY <1>0, <2>1 DEF Opened, Session
  <2>3. Promise!Create(cur)
    BY <2>1, <2>2 DEF Promise!Create, Opened
  <2> QED
    BY <1>0, <2>3 DEF Promise!Next
<1>4. CASE MarkFiled \/ MarkFails
  <2>1. /\ step = "mark" /\ step' = "next" /\ filed' = filed \cup {cur}
        /\ UNCHANGED <<beads, unsure, cur>>
    BY <1>4 DEF MarkFiled, MarkFails
  <2>2. \/ lost' = [lost EXCEPT ![cur] = @ + 1] /\ UNCHANGED markers
        \/ markers' = markers \cup {cur} /\ UNCHANGED lost
    BY <1>4 DEF MarkFiled, MarkFails
  <2>3. Promise!Settle(cur)
    BY <2>1 DEF Promise!Settle
  <2>4. Promise!Mark(cur) \/ Promise!Lose(cur)
    BY <2>2, <2>3 DEF Promise!Mark, Promise!Lose
  <2> QED
    BY <1>0, <2>4 DEF Promise!Next
<1>u. ASSUME CreateUnheard, step = "create"
      PROVE  Opened = {} /\ (UNCHANGED <<beads, unsure>> \/ Promise!Unheard(cur))
  <2>1. Opened = {} /\ cur \notin markers \cup filed
    BY <1>0, <1>u DEF Opened, Session
  <2> QED
    BY <1>u, <2>1 DEF CreateUnheard, Create, Promise!Unheard, Opened
<1>5. CASE CreateFails
  <2>1. /\ step = "create" /\ step' = "next" /\ CreateUnheard
        /\ UNCHANGED <<filed, markers, lost, cur>>
    BY <1>5 DEF CreateFails, Fails
  <2>2. Opened = {} /\ Opened' = {}
    BY <2>1 DEF Opened
  <2>3. CASE UNCHANGED <<beads, unsure>>
    BY <2>1, <2>2, <2>3 DEF Promise!vars, Opened
  <2>4. CASE Promise!Unheard(cur)
    <3>1. Promise!Doubt(cur)
      BY <2>1, <2>2, <2>4 DEF Promise!Doubt, Opened
    <3> QED
      BY <1>0, <3>1 DEF Promise!Next
  <2> QED
    BY <1>u, <2>1, <2>3, <2>4
<1>6. CASE Restart
  <2>1. filed' = {} /\ Opened' = {} /\ UNCHANGED markers
    BY <1>6 DEF Restart, Opened
  <2>2. lost' = [k \in Keys |-> IF k \in Opened THEN lost[k] + 1 ELSE lost[k]]
    <3>1. CASE step = "mark"
      BY <1>0, <1>6, <3>1 DEF Restart, Opened, TypeOK
    <3>2. CASE step # "mark"
      BY <1>0, <1>6, <3>2 DEF Restart, Opened, TypeOK
    <3> QED
      BY <3>1, <3>2
  <2>3. UNCHANGED <<beads, unsure>> \/ Promise!Unheard(cur)
    <3>1. UNCHANGED <<beads, unsure>> \/ (step = "create" /\ CreateUnheard)
      BY <1>6 DEF Restart
    <3> QED
      BY <1>u, <3>1
  <2>4. Promise!Forget
    BY <1>0, <2>1, <2>2, <2>3 DEF Promise!Forget, Opened
  <2> QED
    BY <2>4 DEF Promise!Next
<1> QED
  BY <1>1, <1>2, <1>3, <1>4, <1>5, <1>6, StepsAreApart DEF Next, FilerStep

\* Workers, retries, failed markers, kills and restarts keep to one bead per key
\* and lost marker (Filer.mu, filed, loadFiled, markFiled).
THEOREM Refinement == Spec => FilesOneBeadPerKey
<1>1. Init => Promise!Init /\ Fresh
  BY DEF Init, Promise!Init, Fresh
<1>2. Inv /\ Fresh /\ [Next]_vars => Fresh' /\ [Promise!Next]_(Promise!vars)
  BY FreshStep, StepPromises
<1> QED
  BY <1>1, <1>2, Invariance, PTL DEF Spec, FilesOneBeadPerKey, Promise!Spec

\* What the promise amounts to: a second bead of a key has a lost marker or an
\* unheard creation to show for it, and what has a marker or counts as filed has a bead.
THEOREM PromiseMeansOneBead == FilesOneBeadPerKey => []Promise!OneBeadEach
<1> DEFINE Accounts ==
      /\ beads \in [Keys -> Nat] /\ lost \in [Keys -> Nat] /\ unsure \in [Keys -> Nat]
      /\ markers \cup filed \cup Opened \subseteq Keys
      /\ \A k \in Keys : beads[k] = lost[k] + unsure[k] + Marked(k)
                                  + (IF k \in Opened THEN 1 ELSE 0)
      /\ \A k \in Opened : k \notin markers
      /\ \A k \in markers \cup filed : beads[k] > 0
<1>1. Promise!Init => Accounts
  BY DEF Promise!Init, Opened, Marked
<1>2. Accounts /\ [Promise!Next]_(Promise!vars) => Accounts'
  <2> SUFFICES ASSUME Accounts, [Promise!Next]_(Promise!vars) PROVE Accounts'
    OBVIOUS
  <2>1. CASE UNCHANGED Promise!vars
    <3>1. UNCHANGED <<beads, lost, unsure, markers, filed, Opened>>
      BY <2>1 DEF Promise!vars, Opened
    <3> QED
      BY <3>1 DEF Marked
  <2>2. CASE Promise!Learn
    <3>1. UNCHANGED <<beads, lost, unsure, markers, Opened>> /\ filed' = filed \cup markers
      BY <2>2 DEF Promise!Learn, Opened
    <3> QED
      BY <3>1 DEF Marked
  <2>3. CASE Promise!Forget
    <3>1. /\ UNCHANGED markers /\ filed' = {} /\ Opened' = {}
          /\ lost' = [k \in Keys |-> IF k \in Opened THEN lost[k] + 1 ELSE lost[k]]
          /\ UNCHANGED <<beads, unsure>> \/ \E k \in Keys : Promise!Unheard(k)
      BY <2>3 DEF Promise!Forget, Opened
    <3>2. CASE UNCHANGED <<beads, unsure>>
      BY <3>1, <3>2 DEF Marked
    <3>3. ASSUME NEW k \in Keys, Promise!Unheard(k) PROVE Accounts'
      <4>1. /\ beads' = [beads EXCEPT ![k] = @ + 1] /\ unsure' = [unsure EXCEPT ![k] = @ + 1]
            /\ Opened = {}
        BY <3>3 DEF Promise!Unheard, Opened
      <4> QED
        BY <3>1, <4>1 DEF Marked
    <3> QED
      BY <3>1, <3>2, <3>3
  <2>4. ASSUME NEW k \in Keys, Promise!Create(k) PROVE Accounts'
    <3>1. /\ UNCHANGED <<lost, unsure, markers, filed>> /\ Opened = {} /\ Opened' = {k}
          /\ k \notin markers \cup filed /\ beads' = [beads EXCEPT ![k] = @ + 1]
      BY <2>4 DEF Promise!Create, Opened
    <3> QED
      BY <3>1 DEF Marked
  <2>5. ASSUME NEW k \in Keys, Promise!Mark(k) PROVE Accounts'
    <3>1. /\ UNCHANGED <<beads, lost, unsure>> /\ Opened = {k} /\ Opened' = {}
          /\ filed' = filed \cup {k} /\ markers' = markers \cup {k}
      BY <2>5 DEF Promise!Mark, Promise!Settle, Opened
    <3> QED
      BY <3>1 DEF Marked
  <2>6. ASSUME NEW k \in Keys, Promise!Lose(k) PROVE Accounts'
    <3>1. /\ UNCHANGED <<beads, unsure, markers>> /\ Opened = {k} /\ Opened' = {}
          /\ filed' = filed \cup {k} /\ lost' = [lost EXCEPT ![k] = @ + 1]
      BY <2>6 DEF Promise!Lose, Promise!Settle, Opened
    <3> QED
      BY <3>1 DEF Marked
  <2>7. ASSUME NEW k \in Keys, Promise!Doubt(k) PROVE Accounts'
    <3>1. /\ UNCHANGED <<lost, markers, filed, Opened>> /\ Opened = {}
          /\ beads' = [beads EXCEPT ![k] = @ + 1] /\ unsure' = [unsure EXCEPT ![k] = @ + 1]
      BY <2>7 DEF Promise!Doubt, Promise!Unheard, Opened
    <3> QED
      BY <3>1 DEF Marked
  <2> QED
    BY <2>1, <2>2, <2>3, <2>4, <2>5, <2>6, <2>7 DEF Promise!Next
<1>3. Accounts => Promise!OneBeadEach
  <2> SUFFICES ASSUME Accounts PROVE Promise!OneBeadEach
    OBVIOUS
  <2>1. ASSUME NEW k \in Keys PROVE beads[k] <= 1 + lost[k] + unsure[k]
    BY DEF Marked
  <2> QED
    BY <2>1 DEF Promise!OneBeadEach
<1> QED
  BY <1>1, <1>2, <1>3, PTL DEF FilesOneBeadPerKey, Promise!Spec

-----------------------------------------------------------------------------
(* What is complete is remembered.  Mutex says what the holder of Filer.mu *)
(* is at; Decided that the hash it decided on is still the complete one,   *)
(* or that the worker that changed this has yet to call the hook.          *)

Mutex ==
    /\ holder = Nobody => todo = {} /\ step = "next"
    /\ holder # Nobody => pc[holder] = "filing"
    /\ step # "next" => cur.pkg \in todo
    /\ ~loaded => filed = {}

Expected(p) == \E w \in Workers : pc[w] = "hook" /\ PkgOf[job[w]] = p

Decided == step # "next" =>
    \A h \in Hashes : Complete(cur.pkg, h) => h = cur.hash \/ Expected(cur.pkg)

Memory == Mutex /\ Decided /\ CompleteIsRemembered

\* A package has at most one complete hash.
LEMMA CompleteOnce ==
    ASSUME NEW p, NEW h, NEW i, Complete(p, h), Complete(p, i)
    PROVE  h = i
BY DEF Complete

\* The hook calls that are due stay due.
HooksStay == /\ pc[Startup] = "hook" => pc'[Startup] = "hook"
             /\ \A w \in Workers : pc[w] = "hook" => pc'[w] = "hook" /\ job'[w] = job[w]

LEMMA ExpectedStays == ASSUME HooksStay, NEW p, Expected(p) PROVE Expected(p)'
BY DEF HooksStay, Expected

\* A step that records nothing and drops nothing forgets nothing.
LEMMA QuietKeeps ==
    ASSUME Memory, HooksStay, UNCHANGED <<records, missed>>, filed \subseteq filed',
           pending \cup todo \subseteq pending' \cup todo'
    PROVE  CompleteIsRemembered'
<1> SUFFICES ASSUME NEW p \in Pkgs, NEW h \in Hashes, Complete(p, h)'
             PROVE  (\/ [pkg |-> p, hash |-> h] \in filed
                     \/ p \in pending \/ p \in todo
                     \/ pc[Startup] = "hook" \/ Expected(p)
                     \/ [pkg |-> p, hash |-> h] \in missed)'
  BY DEF CompleteIsRemembered, Remembered, Expected
<1>1. Complete(p, h)
  BY DEF Complete
<1>2. \/ [pkg |-> p, hash |-> h] \in filed \/ p \in pending \/ p \in todo
      \/ pc[Startup] = "hook" \/ Expected(p) \/ [pkg |-> p, hash |-> h] \in missed
  BY <1>1 DEF Memory, CompleteIsRemembered, Remembered, Expected
<1>3. Expected(p) => Expected(p)'
  BY ExpectedStays
<1> QED
  BY <1>2, <1>3 DEF HooksStay

\* So does the decision, unless a new one is taken.
LEMMA QuietDecides ==
    ASSUME Memory, HooksStay, UNCHANGED records,
           step' # "next" => step # "next" /\ cur' = cur
    PROVE  Decided'
<1> SUFFICES ASSUME step' # "next", NEW h \in Hashes, Complete(cur.pkg, h)'
             PROVE  (h = cur.hash \/ Expected(cur.pkg))'
  BY DEF Decided
<1>1. Complete(cur.pkg, h)
  BY DEF Complete
<1>2. h = cur.hash \/ Expected(cur.pkg)
  BY <1>1 DEF Memory, Decided
<1>3. Expected(cur.pkg) => Expected(cur.pkg)'
  BY ExpectedStays
<1> QED
  BY <1>2, <1>3

\* Every operation keeps what has to be filed in memory.
LEMMA MemoryStep == Inv /\ Memory /\ [Next]_vars => Memory'
<1> SUFFICES ASSUME Inv, Memory, [Next]_vars PROVE Memory'
  OBVIOUS
<1>m. TypeOK /\ Session /\ Mutex /\ Decided /\ CompleteIsRemembered
  BY DEF Inv, Memory
<1> USE <1>m, ConstantsAssumption DEF world, pool, lock, filer, outcome, Go, Actors
<1>1. CASE UNCHANGED vars
  BY <1>1 DEF vars, Memory, Mutex, Decided, Complete, Expected, CompleteIsRemembered, Remembered
<1>2. ASSUME NEW w \in Workers, OnRecorded(w) PROVE Memory'
  <2>1. Mutex' /\ Decided'
    BY <1>2 DEF OnRecorded, Mutex, Decided, TypeOK
  <2>2. ASSUME NEW p \in Pkgs, NEW h \in Hashes, Complete(p, h)'
        PROVE  (\/ [pkg |-> p, hash |-> h] \in filed \/ p \in pending \/ p \in todo
                \/ pc[Startup] = "hook"
                \/ \E v \in Workers : pc[v] = "hook" /\ PkgOf[job[v]] = p
                \/ [pkg |-> p, hash |-> h] \in missed)'
    <3>1. Complete(p, h) /\ todo = {}
      BY <1>2, <2>2 DEF OnRecorded, Complete, Mutex
    <3>2. \/ [pkg |-> p, hash |-> h] \in filed \/ p \in pending
          \/ pc[Startup] = "hook" \/ [pkg |-> p, hash |-> h] \in missed
          \/ \E v \in Workers : pc[v] = "hook" /\ PkgOf[job[v]] = p
      BY <3>1 DEF CompleteIsRemembered, Remembered
    <3>3. ASSUME NEW v \in Workers, pc[v] = "hook", PkgOf[job[v]] = p
          PROVE  p \in todo' \/ (pc'[v] = "hook" /\ job' = job)
      BY <1>2, <3>3 DEF OnRecorded, TypeOK
    <3> QED
      BY <1>2, <3>2, <3>3 DEF OnRecorded, TypeOK
  <2> QED
    BY <2>1, <2>2 DEF Memory, CompleteIsRemembered, Remembered
<1>3. CASE Reconcile
  <2>1. Mutex' /\ Decided'
    BY <1>3 DEF Reconcile, Mutex, Decided, TypeOK
  <2>2. ASSUME NEW p \in Pkgs, NEW h \in Hashes, Complete(p, h)' PROVE p \in todo'
    <3>1. PICK f \in Files : PkgOf[f] = p /\ records[f] = h
      BY <1>3, <2>2 DEF Reconcile, Complete, FilesOf
    <3> QED
      BY <1>3, <3>1 DEF Reconcile, Hashes
  <2> QED
    BY <2>1, <2>2 DEF Memory, CompleteIsRemembered, Remembered
<1>r. CASE ReconcileFails
  <2>1. /\ pc' = [pc EXCEPT ![Startup] = "idle"]
        /\ missed' = {k \in Keys : Complete(k.pkg, k.hash) /\ ~Remembered(k.pkg, k.hash)}
        /\ UNCHANGED <<records, job, lock, filer>>
    BY <1>r DEF ReconcileFails
  <2>2. UNCHANGED Expected(cur.pkg)
    BY <2>1 DEF Expected, TypeOK
  <2>3. Mutex' /\ Decided'
    BY <1>r, <2>1, <2>2 DEF ReconcileFails, Mutex, Decided, Complete
  <2>4. ASSUME NEW p \in Pkgs, NEW h \in Hashes, Complete(p, h)'
        PROVE  Remembered(p, h)' \/ [pkg |-> p, hash |-> h] \in missed'
    <3>1. Complete(p, h) /\ [pkg |-> p, hash |-> h] \in Keys
      BY <2>1, <2>4 DEF Complete, Keys
    <3>2. Remembered(p, h) => Remembered(p, h)'
      BY <2>1 DEF Remembered, TypeOK
    <3> QED
      BY <2>1, <3>1, <3>2
  <2> QED
    BY <2>3, <2>4 DEF Memory, CompleteIsRemembered
<1>4. CASE Unlock
  <2>1. HooksStay /\ UNCHANGED <<records, missed>> /\ step' = "next"
    BY <1>4 DEF Unlock, HooksStay, Mutex, TypeOK
  <2>2. Mutex'
    BY <1>4 DEF Unlock, Mutex
  <2> QED
    BY <1>4, <2>1, <2>2, QuietKeeps, QuietDecides DEF Unlock, Memory
<1>5. CASE ReadReports \/ FileTriageBead
  <2>1. HooksStay /\ step # "next" /\ UNCHANGED <<records, holder, todo, cur, filer, pc, missed>>
    BY <1>5 DEF ReadReports, FileTriageBead, HooksStay
  <2>2. Mutex'
    BY <2>1 DEF Mutex
  <2> QED
    BY <2>1, <2>2, QuietKeeps, QuietDecides DEF Memory
<1>6. ASSUME NEW p \in Pkgs, Fails(p), UNCHANGED loaded, holder # Nobody PROVE Memory'
  <2>1. HooksStay /\ step' = "next" /\ UNCHANGED <<records, filed, missed>>
    BY <1>6 DEF Fails, HooksStay
  <2>2. Mutex'
    BY <1>6 DEF Fails, Mutex
  <2>3. pending \cup todo \subseteq pending' \cup todo'
    BY <1>6 DEF Fails
  <2> QED
    BY <2>1, <2>2, <2>3, QuietKeeps, QuietDecides DEF Memory
<1>7. CASE MarkFiled \/ MarkFails
  <2>1. /\ step = "mark" /\ step' = "next" /\ filed' = filed \cup {cur}
        /\ todo' = todo \ {cur.pkg} /\ pending' = pending \ {cur.pkg}
        /\ UNCHANGED <<records, pc, job, holder, loaded, missed>>
    BY <1>7 DEF MarkFiled, MarkFails
  <2>2. holder # Nobody /\ loaded
    BY <2>1 DEF Mutex, Session
  <2>3. Mutex' /\ Decided'
    BY <2>1, <2>2 DEF Mutex, Decided
  <2>4. ASSUME NEW p \in Pkgs, NEW h \in Hashes, Complete(p, h)'
        PROVE  (\/ [pkg |-> p, hash |-> h] \in filed \/ p \in pending \/ p \in todo
                \/ pc[Startup] = "hook" \/ Expected(p)
                \/ [pkg |-> p, hash |-> h] \in missed)'
    <3>1. Complete(p, h) /\ UNCHANGED Expected(p)
      BY <2>1, <2>4 DEF Complete, Expected
    <3>2. CASE p # cur.pkg
      BY <2>1, <3>1, <3>2 DEF CompleteIsRemembered, Remembered, Expected
    <3>3. CASE p = cur.pkg
      <4>1. h = cur.hash \/ Expected(p)
        BY <2>1, <3>1, <3>3 DEF Decided
      <4>2. cur = [pkg |-> cur.pkg, hash |-> cur.hash]
        BY DEF TypeOK, Keys
      <4> QED
        BY <2>1, <3>1, <3>3, <4>1, <4>2
    <3> QED
      BY <3>2, <3>3
  <2> QED
    BY <2>3, <2>4 DEF Memory, CompleteIsRemembered, Remembered, Expected
<1>8. ASSUME NEW p \in Pkgs, Examine(p) PROVE Memory'
  <2>1. /\ holder # Nobody /\ step = "next" /\ p \in todo
        /\ UNCHANGED <<records, pc, job, holder, missed>>
    BY <1>8 DEF Examine, Skip
  <2>2. HooksStay
    BY <2>1 DEF HooksStay
  <2>3. CASE ~\E h \in Hashes : Complete(p, h)
    <3>1. Skip(p) /\ UNCHANGED <<filed, loaded>>
      BY <1>8, <2>3 DEF Examine
    <3>2. Mutex' /\ Decided'
      BY <2>1, <3>1 DEF Skip, Mutex, Decided
    <3>3. ASSUME NEW q \in Pkgs, NEW h \in Hashes, Complete(q, h)'
          PROVE  (\/ [pkg |-> q, hash |-> h] \in filed \/ q \in pending \/ q \in todo
                  \/ pc[Startup] = "hook" \/ Expected(q)
                  \/ [pkg |-> q, hash |-> h] \in missed)'
      <4>1. Complete(q, h) /\ UNCHANGED Expected(q)
        BY <2>1, <3>3 DEF Complete, Expected
      <4>2. q # p
        BY <2>3, <4>1
      <4> QED
        BY <2>1, <3>1, <4>1, <4>2 DEF CompleteIsRemembered, Remembered, Expected, Skip
    <3> QED
      BY <3>2, <3>3 DEF Memory, CompleteIsRemembered, Remembered, Expected
  <2>4. CASE \E h \in Hashes : Complete(p, h)
    <3>1. PICK h \in Hashes :
              /\ Complete(p, h)
              /\ loaded' = TRUE
              /\ filed' = IF loaded THEN filed ELSE markers
              /\ IF [pkg |-> p, hash |-> h] \in filed'
                 THEN Skip(p)
                 ELSE /\ cur' = [pkg |-> p, hash |-> h] /\ step' = "read"
                      /\ UNCHANGED <<holder, todo, body, pending>>
      BY <1>8, <2>4 DEF Examine
    <3>2. filed \subseteq filed'
      BY <3>1 DEF Mutex
    <3>3. CASE [pkg |-> p, hash |-> h] \notin filed'
      <4>1. Mutex' /\ CompleteIsRemembered'
        BY <2>1, <2>2, <3>1, <3>2, <3>3, QuietKeeps DEF Mutex
      <4>2. ASSUME NEW i \in Hashes, Complete(cur.pkg, i)' PROVE i = cur'.hash
        <5>1. Complete(p, i)
          BY <2>1, <3>1, <3>3, <4>2 DEF Complete
        <5> QED
          BY <3>1, <3>3, <5>1, CompleteOnce
      <4> QED
        BY <4>1, <4>2 DEF Memory, Decided
    <3>4. CASE [pkg |-> p, hash |-> h] \in filed'
      <4>1. Skip(p)
        BY <3>1, <3>4
      <4>2. Mutex' /\ Decided'
        BY <2>1, <3>1, <4>1 DEF Skip, Mutex, Decided
      <4>3. ASSUME NEW q \in Pkgs, NEW i \in Hashes, Complete(q, i)'
            PROVE  (\/ [pkg |-> q, hash |-> i] \in filed \/ q \in pending \/ q \in todo
                    \/ pc[Startup] = "hook" \/ Expected(q)
                    \/ [pkg |-> q, hash |-> i] \in missed)'
        <5>1. Complete(q, i) /\ UNCHANGED Expected(q)
          BY <2>1, <4>3 DEF Complete, Expected
        <5>2. CASE q = p
          BY <3>1, <3>4, <5>1, <5>2, CompleteOnce
        <5>3. CASE q # p
          BY <2>1, <3>2, <4>1, <5>1, <5>3 DEF CompleteIsRemembered, Remembered, Expected, Skip
        <5> QED
          BY <5>2, <5>3
      <4> QED
        BY <4>2, <4>3 DEF Memory, CompleteIsRemembered, Remembered, Expected
    <3> QED
      BY <3>3, <3>4
  <2> QED
    BY <2>3, <2>4
<1>9. ASSUME NEW p \in Pkgs, Edit(p) PROVE Memory'
  <2>1. HooksStay /\ UNCHANGED <<records, holder, todo, step, cur, filer, pc, missed>>
    BY <1>9 DEF Edit, HooksStay
  <2>2. Mutex'
    BY <2>1 DEF Mutex
  <2> QED
    BY <2>1, <2>2, QuietKeeps, QuietDecides DEF Memory
<1>10. ASSUME NEW w \in Workers, NEW f \in Files, Dispatch(w, f) \/ WriteReport(w) PROVE Memory'
  <2>1. /\ pc[w] \in {"idle", "run"} /\ \A a \in Actors : a # w => pc'[a] = pc[a]
        /\ \A v \in Workers : v # w => job'[v] = job[v]
        /\ UNCHANGED <<records, holder, todo, step, cur, filer, missed>>
    BY <1>10 DEF Dispatch, WriteReport, TypeOK
  <2>2. HooksStay
    BY <2>1 DEF HooksStay
  <2>3. Mutex'
    BY <2>1 DEF Mutex, TypeOK
  <2> QED
    BY <2>1, <2>2, <2>3, QuietKeeps, QuietDecides DEF Memory
<1>11. ASSUME NEW w \in Workers, AppendRecord(w) PROVE Memory'
  <2>1. /\ pc[w] = "append" /\ pc' = [pc EXCEPT ![w] = "hook"] /\ pc'[w] = "hook"
        /\ records' = [records EXCEPT ![job[w]] = goal[w]]
        /\ UNCHANGED <<job, holder, todo, step, cur, filer, missed>>
    BY <1>11 DEF AppendRecord, TypeOK
  <2>2. HooksStay
    BY <2>1 DEF HooksStay, TypeOK
  <2>3. Mutex'
    BY <2>1 DEF Mutex, TypeOK
  <2>4. Expected(PkgOf[job[w]])'
    BY <2>1 DEF Expected
  <2>5. ASSUME NEW p \in Pkgs, p # PkgOf[job[w]], NEW h \in Hashes, Complete(p, h)'
        PROVE  Complete(p, h)
    BY <2>1, <2>5 DEF Complete, FilesOf, TypeOK
  <2>6. Decided'
    <3> SUFFICES ASSUME step' # "next", NEW h \in Hashes, Complete(cur.pkg, h)',
                        cur.pkg # PkgOf[job[w]]
                 PROVE  (h = cur.hash \/ Expected(cur.pkg))'
      BY <2>1, <2>4 DEF Decided
    <3>1. cur.pkg \in Pkgs /\ cur' = cur
      BY <2>1 DEF TypeOK, Keys
    <3>2. Complete(cur.pkg, h)
      BY <2>1, <2>5, <3>1
    <3>3. h = cur.hash \/ Expected(cur.pkg)
      BY <2>1, <3>2 DEF Decided
    <3> QED
      BY <2>2, <3>1, <3>3, ExpectedStays
  <2>7. ASSUME NEW p \in Pkgs, NEW h \in Hashes, Complete(p, h)'
        PROVE  (\/ [pkg |-> p, hash |-> h] \in filed \/ p \in pending \/ p \in todo
                \/ pc[Startup] = "hook" \/ Expected(p)
                \/ [pkg |-> p, hash |-> h] \in missed)'
    <3>1. CASE p = PkgOf[job[w]]
      BY <2>1, <3>1 DEF Expected
    <3>2. CASE p # PkgOf[job[w]]
      <4>1. \/ [pkg |-> p, hash |-> h] \in filed \/ p \in pending \/ p \in todo
            \/ pc[Startup] = "hook" \/ Expected(p) \/ [pkg |-> p, hash |-> h] \in missed
        BY <2>5, <2>7, <3>2 DEF CompleteIsRemembered, Remembered, Expected
      <4> QED
        BY <2>1, <2>2, <4>1, ExpectedStays DEF HooksStay
    <3> QED
      BY <3>1, <3>2
  <2> QED
    BY <2>3, <2>6, <2>7 DEF Memory, CompleteIsRemembered, Remembered, Expected
<1>12. CASE Restart
  <2>1. /\ holder' = Nobody /\ todo' = {} /\ step' = "next" /\ filed' = {}
        /\ pc'[Startup] = "hook"
    BY <1>12 DEF Restart
  <2> QED
    BY <2>1 DEF Memory, Mutex, Decided, CompleteIsRemembered, Remembered
<1>13. ASSUME CreateFails \/ \E p \in Pkgs : ExamineFails(p) PROVE Memory'
  <2>1. PICK p \in Pkgs : Fails(p) /\ UNCHANGED loaded /\ holder # Nobody
    <3>1. CreateFails => holder # Nobody /\ cur.pkg \in Pkgs
      BY DEF CreateFails, Mutex, TypeOK, Keys
    <3> QED
      BY <1>13, <3>1 DEF CreateFails, ExamineFails
  <2> QED
    BY <1>6, <2>1
<1>14. ASSUME NEW w \in Workers, SweepStep(w) PROVE Memory'
  <2>1. job[w] \in Files
    BY DEF TypeOK
  <2> QED
    BY <1>10, <1>11, <1>14, <2>1 DEF SweepStep
<1>15. CASE FilerStep
  BY <1>2, <1>3, <1>r, <1>4, <1>5, <1>7, <1>8, <1>13, <1>15, Zenon DEF FilerStep
<1> QED
  BY <1>1, <1>9, <1>12, <1>14, <1>15 DEF Next

LEMMA InitMemory == Init => Memory
BY ConstantsAssumption
   DEF Init, Memory, Mutex, Decided, CompleteIsRemembered, Remembered, Complete, FilesOf, Hashes, Actors

\* A complete package is filed, kept for retry, or about to be looked at, but for
\* what a startup pass without a ledger left (OnRecorded, Reconcile, fileIfComplete).
THEOREM NothingCompleteIsForgotten == Spec => []CompleteIsRemembered
<1>1. Spec => []Memory
  <2>1. Inv /\ Memory /\ [Next]_vars => Memory'
    BY MemoryStep
  <2> QED
    BY InitMemory, <2>1, Invariance, PTL DEF Spec
<1>2. Memory => CompleteIsRemembered
  BY DEF Memory
<1> QED
  BY <1>1, <1>2, PTL
=============================================================================
