-------------------------- MODULE RebuildLockProofs --------------------------
(***************************************************************************)
(* Theorems about RebuildLock for any number of runs, roots and waits.     *)
(*                                                                         *)
(* MutualExclusion alone is not inductive: which files a run owns follows  *)
(* from where it stands in attemptLocks and release.  Owner says that of   *)
(* every run, Content what the files it owns contain; their conjunction    *)
(* with TypeOK is inductive.                                               *)
(***************************************************************************)
EXTENDS RebuildLock, TLAPS

Releasing(p) == pc[p] \in {"relTruncate", "relUnlock"}
Recording(p) == pc[p] \in {"recTruncate", "recWrite"}
Probing(p)   == pc[p] \in {"probeTruncate", "probeUnlock"}

\* p has taken the flock of its first step and not begun to release it; the
\* same of the second step, when that is not a probe.
Took1(p) == \/ Recording(p) \/ Probing(p) \/ pc[p] = "run"
            \/ pc[p] = "try" /\ step[p] = 2
Took2(p) == /\ ~Probes(p, 2)
            /\ pc[p] = "run" \/ (Recording(p) /\ step[p] = 2)

\* p owns what it has taken, and nothing else unless it is releasing.
Owner(p) ==
    /\ Took1(p) => Holds(p, Key(p, 1))
    /\ Took2(p) => Holds(p, Key(p, 2))
    /\ \A k \in Keys : Holds(p, k) =>
          \/ k = Key(p, 1) /\ (Took1(p) \/ Releasing(p))
          \/ k = Key(p, 2) /\ ~Probes(p, 2) /\ (Took2(p) \/ Releasing(p))
    /\ \A k \in Keys : p \in sh[k] <=> (k = ApplyKey /\ Probing(p))
    /\ Probing(p) => Probes(p, step[p]) /\ step[p] = 2
    /\ Recording(p) => ~Probes(p, step[p])
    /\ pc[p] = "relUnlock" => ~HoldsNothing(p)
    /\ outcome[p] # "none" => Releasing(p) \/ pc[p] = "over"
    /\ pc[p] = "over" => outcome[p] # "none"
    /\ outcome[p] = "killed" => pc[p] = "over"

\* A flock is exclusive or shared, never both.
FlockOK == \A k \in Keys : ex[k] # None => sh[k] = {}

-----------------------------------------------------------------------------

LEMMA KeyFacts ==
    ASSUME TypeOK, NEW p \in Runs
    PROVE  /\ Key(p, 1) \in Keys /\ Key(p, 2) \in Keys
           /\ Key(p, 1) # Key(p, 2)
           /\ verb[p] = "apply" => Key(p, 1) = ApplyKey /\ Key(p, 2) = root[p]
           /\ verb[p] = "build" => Key(p, 1) = root[p] /\ Key(p, 2) = ApplyKey
           /\ Probes(p, 2) <=> verb[p] = "build"
           /\ ~Probes(p, 1)
           /\ root[p] # ApplyKey
BY ConstantsAssumption DEF TypeOK, Key, Keys, Probes, Verbs

\* Every operation keeps the types.
LEMMA TypeStep == TypeOK /\ [Next]_vars => TypeOK'
<1> SUFFICES ASSUME TypeOK, [Next]_vars PROVE TypeOK'
  OBVIOUS
<1> USE DEF TypeOK, run, files, Locations, Outcomes, Goto
<1>1. CASE UNCHANGED vars
  BY <1>1 DEF vars
<1>2. ASSUME NEW p \in Runs, Step(p) \/ TryFails(p) \/ Cancel(p) \/ Kill(p)
      PROVE  TypeOK'
  <2>0. Key(p, step[p]) \in Keys /\ Key(p, 1) \in Keys /\ Key(p, 2) \in Keys
    BY KeyFacts, step[p] \in {1, 2}
  <2> USE <2>0
  <2>1. CASE Attempt(p) \/ TryBusy(p) \/ TryFails(p) \/ Finish(p)
    BY <2>1 DEF Attempt, TryBusy, TryFails, Finish
  <2>2. CASE TryLock(p)
    BY <2>2 DEF TryLock
  <2>3. CASE RecordTruncate(p) \/ RecordWrite(p)
    BY <2>3 DEF RecordTruncate, RecordWrite
  <2>4. CASE ProbeTruncate(p) \/ ProbeUnlock(p)
    BY <2>4 DEF ProbeTruncate, ProbeUnlock
  <2>5. CASE ReleaseTruncate(p) \/ ReleaseUnlock(p) \/ Released(p)
    BY <2>5 DEF ReleaseTruncate, ReleaseUnlock, Released, FirstHeld
  <2>6. CASE Refuse(p) \/ Cancel(p)
    BY <2>6 DEF Refuse, Cancel
  <2>7. CASE Sleep(p)
    BY <2>7 DEF Sleep
  <2>8. CASE Kill(p)
    BY <2>8 DEF Kill, Holds
  <2> QED
    BY <1>2, <2>1, <2>2, <2>3, <2>4, <2>5, <2>6, <2>7, <2>8 DEF Step
<1> QED
  BY <1>1, <1>2 DEF Next

LEMMA OwnerInit == Init => FlockOK /\ \A p \in Runs : Owner(p)
BY ConstantsAssumption
   DEF Init, FlockOK, Owner, Took1, Took2, Recording, Probing, Releasing, Holds

\* One step of one run keeps every run's Owner and FlockOK.
LEMMA OwnerStep ==
    ASSUME TypeOK, TypeOK', FlockOK, \A r \in Runs : Owner(r), NEW p \in Runs,
           Step(p) \/ TryFails(p) \/ Cancel(p) \/ Kill(p)
    PROVE  FlockOK' /\ \A q \in Runs : Owner(q)'
<1> USE DEF Goto, run, files
<1>0. UNCHANGED run
  BY DEF Step, Attempt, TryLock, TryBusy, TryFails, RecordTruncate, RecordWrite,
         ProbeTruncate, ProbeUnlock, Finish, ReleaseTruncate, ReleaseUnlock,
         Released, Refuse, Sleep, Cancel, Kill
<1>k. ASSUME NEW q \in Runs
      PROVE  /\ Key(q, 1) \in Keys /\ Key(q, 2) \in Keys
             /\ Key(q, 1) # Key(q, 2)
             /\ step[q] \in {1, 2}
             /\ ~Probes(q, 1)
             /\ Probes(q, 2) => Key(q, 2) = ApplyKey
             /\ q # None
             /\ \A i \in {1, 2} : Key(q, i)' = Key(q, i) /\ Probes(q, i)' = Probes(q, i)
  BY <1>0, KeyFacts, ConstantsAssumption DEF Key, Probes, TypeOK
<1>t. /\ pc \in [Runs -> Locations] /\ step \in [Runs -> {1, 2}]
      /\ ex \in [Keys -> Runs \cup {None}] /\ sh \in [Keys -> SUBSET Runs]
      /\ outcome \in [Runs -> Outcomes] /\ ApplyKey \in Keys
  BY DEF TypeOK, Keys
<1>1. CASE Attempt(p) \/ TryBusy(p) \/ TryFails(p) \/ Finish(p) \/ Refuse(p)
           \/ Sleep(p) \/ Cancel(p) \/ Released(p) \/ RecordTruncate(p)
           \/ ReleaseTruncate(p) \/ ProbeTruncate(p) \/ RecordWrite(p)
  <2>1. UNCHANGED <<ex, sh>>
    BY <1>1 DEF Attempt, TryBusy, TryFails, Finish, Refuse, Sleep, Cancel, Released,
                RecordTruncate, ReleaseTruncate, ProbeTruncate, RecordWrite
  <2>2. FlockOK'
    BY <2>1 DEF FlockOK
  <2>3. ASSUME NEW q \in Runs, q # p PROVE Owner(q)'
    <3>1. UNCHANGED <<pc[q], step[q], outcome[q]>>
      BY <1>1, <1>t, <2>3 DEF Attempt, TryBusy, TryFails, Finish, Refuse, Sleep,
          Cancel, Released, RecordTruncate, ReleaseTruncate, ProbeTruncate, RecordWrite
    <3> QED
      BY <1>0, <2>1, <3>1, Owner(q)
         DEF Owner, Took1, Took2, Recording, Probing, Releasing, Holds, HoldsNothing,
             Key, Probes
  <2>4. Owner(p)'
    <3> USE <1>k, <1>t, <2>1, Owner(p)
        DEF Owner, Took1, Took2, Recording, Probing, Releasing, Holds, HoldsNothing
    <3>1. CASE Attempt(p)
      BY <3>1 DEF Attempt
    <3>2. CASE TryBusy(p)
      BY <3>2 DEF TryBusy
    <3>3. CASE TryFails(p)
      BY <3>3 DEF TryFails
    <3>4. CASE Finish(p)
      BY <3>4 DEF Finish
    <3>5. CASE Refuse(p) \/ Sleep(p) \/ Cancel(p)
      BY <3>5 DEF Refuse, Sleep, Cancel
    <3>6. CASE Released(p)
      BY <3>6 DEF Released
    <3>7. CASE RecordTruncate(p)
      BY <3>7 DEF RecordTruncate
    <3>8. CASE ReleaseTruncate(p)
      BY <3>8 DEF ReleaseTruncate
    <3>9. CASE ProbeTruncate(p)
      BY <3>9 DEF ProbeTruncate
    <3>10. CASE RecordWrite(p)
      BY <3>10 DEF RecordWrite
    <3> QED
      BY <1>1, <3>1, <3>2, <3>3, <3>4, <3>5, <3>6, <3>7, <3>8, <3>9, <3>10
  <2> QED
    BY <2>2, <2>3, <2>4
<1>2. CASE TryLock(p)
  <2>1. UNCHANGED outcome /\ \A q \in Runs : q # p => UNCHANGED <<pc[q], step[q]>>
    BY <1>2, <1>t DEF TryLock
  <2>2. CASE Probes(p, step[p])
    <3>1. step[p] = 2 /\ Key(p, step[p]) = ApplyKey /\ ex[ApplyKey] = None
      BY <1>2, <2>2, <1>k DEF TryLock, Conflict
    <3>2. ex' = ex /\ step' = step /\ sh' = [sh EXCEPT ![ApplyKey] = @ \cup {p}]
          /\ pc' = [pc EXCEPT ![p] = "probeTruncate"]
      BY <1>2, <2>2, <3>1 DEF TryLock
    <3>3. FlockOK'
      BY <3>1, <3>2, <1>t DEF FlockOK
    <3>4. ASSUME NEW q \in Runs PROVE Owner(q)'
      BY <1>2, <2>1, <2>2, <3>1, <3>2, <1>k, <1>t, Owner(q)
         DEF TryLock, Owner, Took1, Took2, Recording, Probing, Releasing, Holds, HoldsNothing
    <3> QED
      BY <3>3, <3>4
  <2>3. CASE ~Probes(p, step[p])
    <3>1. ex[Key(p, step[p])] = None /\ sh[Key(p, step[p])] = {}
      BY <1>2, <2>3 DEF TryLock, Conflict
    <3>2. sh' = sh /\ step' = step /\ ex' = [ex EXCEPT ![Key(p, step[p])] = p]
          /\ pc' = [pc EXCEPT ![p] = "recTruncate"]
      BY <1>2, <2>3 DEF TryLock
    <3>3. FlockOK'
      BY <3>1, <3>2, <1>k, <1>t DEF FlockOK
    <3>4. ASSUME NEW q \in Runs, q # p PROVE Owner(q)'
      BY <2>1, <3>1, <3>2, <3>4, <1>k, <1>t, Owner(q)
         DEF Owner, Took1, Took2, Recording, Probing, Releasing, Holds, HoldsNothing
    <3>5. Owner(p)'
      BY <1>2, <2>1, <2>3, <3>1, <3>2, <1>k, <1>t, Owner(p)
         DEF TryLock, Owner, Took1, Took2, Recording, Probing, Releasing, Holds, HoldsNothing
    <3> QED
      BY <3>3, <3>4, <3>5
  <2> QED
    BY <2>2, <2>3
<1>3. CASE ProbeUnlock(p)
  <2>1. Key(p, step[p]) = ApplyKey
    BY <1>3, <1>k, Owner(p) DEF ProbeUnlock, Owner, Probing
  <2>2. FlockOK'
    BY <1>3, <2>1, <1>t DEF ProbeUnlock, FlockOK
  <2>3. ASSUME NEW q \in Runs PROVE Owner(q)'
    BY <1>3, <2>1, <1>k, <1>t, Owner(q)
       DEF ProbeUnlock, Owner, Took1, Took2, Recording, Probing, Releasing, Holds, HoldsNothing
  <2> QED
    BY <2>2, <2>3
<1>4. CASE ReleaseUnlock(p)
  <2>1. FirstHeld(p) \in Keys /\ Holds(p, FirstHeld(p))
    BY <1>4, <1>k, Owner(p) DEF ReleaseUnlock, Owner, FirstHeld, HoldsNothing
  <2>2. FlockOK'
    BY <1>4, <2>1, <1>t DEF ReleaseUnlock, FlockOK
  <2>3. ASSUME NEW q \in Runs PROVE Owner(q)'
    BY <1>4, <2>1, <1>k, <1>t, Owner(q)
       DEF ReleaseUnlock, Owner, Took1, Took2, Recording, Probing, Releasing, Holds, HoldsNothing
  <2> QED
    BY <2>2, <2>3
<1>5. CASE Kill(p)
  <2>1. FlockOK'
    BY <1>5, <1>t DEF Kill, FlockOK, Holds
  <2>2. ASSUME NEW q \in Runs PROVE Owner(q)'
    BY <1>5, <1>k, <1>t, Owner(q)
       DEF Kill, Owner, Took1, Took2, Recording, Probing, Releasing, Holds, HoldsNothing
  <2> QED
    BY <2>1, <2>2
<1> QED
  BY <1>1, <1>2, <1>3, <1>4, <1>5 DEF Step

\* The files: a record of a run that was not killed is the owner's, and a run
\* that has written its record still finds it there.
Content(p) ==
    /\ Took1(p) /\ ~(Recording(p) /\ step[p] = 1) => record[Key(p, 1)] = p
    /\ pc[p] = "run" /\ ~Probes(p, 2) => record[Key(p, 2)] = p
    /\ pc[p] = "relUnlock" => record[FirstHeld(p)] = None

IInv == /\ TypeOK /\ FlockOK /\ NoFinishedHolderRecorded
        /\ \A p \in Runs : Owner(p) /\ Content(p)

-----------------------------------------------------------------------------

\* The records survive every step: whoever truncates or writes a file owns it,
\* or shares it while nobody owns it.
LEMMA ContentStep ==
    ASSUME IInv, TypeOK', NEW p \in Runs,
           Step(p) \/ TryFails(p) \/ Cancel(p) \/ Kill(p)
    PROVE  NoFinishedHolderRecorded' /\ \A q \in Runs : Content(q)'
<1> USE DEF Goto, run, files
<1>0. UNCHANGED run
  BY DEF Step, Attempt, TryLock, TryBusy, TryFails, RecordTruncate, RecordWrite,
         ProbeTruncate, ProbeUnlock, Finish, ReleaseTruncate, ReleaseUnlock,
         Released, Refuse, Sleep, Cancel, Kill
<1>k. ASSUME NEW q \in Runs
      PROVE  /\ Key(q, 1) \in Keys /\ Key(q, 2) \in Keys
             /\ Key(q, 1) # Key(q, 2)
             /\ step[q] \in {1, 2}
             /\ ~Probes(q, 1)
             /\ Probes(q, 2) => Key(q, 2) = ApplyKey
             /\ q # None
             /\ \A i \in {1, 2} : Key(q, i)' = Key(q, i) /\ Probes(q, i)' = Probes(q, i)
  BY <1>0, KeyFacts, ConstantsAssumption DEF Key, Probes, TypeOK, IInv
<1>t. /\ pc \in [Runs -> Locations] /\ step \in [Runs -> {1, 2}]
      /\ ex \in [Keys -> Runs \cup {None}] /\ sh \in [Keys -> SUBSET Runs]
      /\ outcome \in [Runs -> Outcomes] /\ ApplyKey \in Keys
      /\ record \in [Keys -> Runs \cup {None}]
  BY DEF TypeOK, Keys, IInv
<1>i. FlockOK /\ NoFinishedHolderRecorded /\ \A q \in Runs : Owner(q) /\ Content(q)
  BY DEF IInv
<1>d. outcome[p] # "killed"
  BY <1>i DEF Owner, Releasing, Step, Attempt, TryLock, TryBusy, TryFails,
     RecordTruncate, RecordWrite, ProbeTruncate, ProbeUnlock, Finish, ReleaseTruncate,
     ReleaseUnlock, Released, Refuse, Sleep, Cancel, Kill
\* Steps that write no file and drop no lock.
<1>1. CASE Attempt(p) \/ TryLock(p) \/ TryBusy(p) \/ TryFails(p) \/ ProbeUnlock(p)
           \/ Finish(p) \/ Released(p) \/ Refuse(p) \/ Sleep(p) \/ Cancel(p)
  <2>1. record' = record /\ (ex' = ex \/ TryLock(p))
    BY <1>1 DEF Attempt, TryBusy, TryFails, TryLock, ProbeUnlock, Finish, Released,
                Refuse, Sleep, Cancel
  <2>2. /\ outcome'[p] # "killed"
        /\ \A q \in Runs : q # p => UNCHANGED <<pc[q], step[q], outcome[q]>>
    BY <1>1, <1>t, <1>d DEF Attempt, TryBusy, TryFails, TryLock, ProbeUnlock, Finish,
       Released, Refuse, Sleep, Cancel
  <2>3. \A k \in Keys, q \in Runs : Holds(q, k) => Holds(q, k)'
    <3>1. CASE ex' = ex
      BY <3>1 DEF Holds
    <3>2. CASE TryLock(p)
      <4>1. ex[Key(p, step[p])] = None \/ ex' = ex
        BY <3>2 DEF TryLock, Conflict
      <4> QED
        BY <3>2, <4>1, <1>t, <1>k DEF TryLock, Holds
    <3> QED
      BY <2>1, <3>1, <3>2
  <2>4. NoFinishedHolderRecorded'
    BY <2>1, <2>2, <2>3, <1>i, <1>d DEF NoFinishedHolderRecorded
  <2>5. ASSUME NEW q \in Runs, q # p PROVE Content(q)'
    <3>1. Took1(q)' = Took1(q) /\ Recording(q)' = Recording(q) /\ step'[q] = step[q]
          /\ pc'[q] = pc[q]
      BY <2>2, <2>5 DEF Took1, Recording, Probing
    <3>2. pc[q] = "relUnlock" => FirstHeld(q)' = FirstHeld(q)
      BY <2>3, <1>i, <1>k, <2>5, <2>1, <1>t, <3>1
         DEF FirstHeld, Owner, Holds, HoldsNothing, TryLock
    <3> QED
      BY <2>1, <3>1, <3>2, <1>i, <1>k DEF Content
  <2>6. Content(p)'
    <3> USE <1>k, <1>t, <1>i, <2>1
        DEF Content, Owner, Took1, Took2, Recording, Probing, Releasing
    <3>1. CASE Attempt(p)
      BY <3>1 DEF Attempt
    <3>2. CASE TryLock(p)
      BY <3>2 DEF TryLock
    <3>3. CASE TryBusy(p) \/ TryFails(p) \/ Finish(p)
      BY <3>3 DEF TryBusy, TryFails, Finish
    <3>4. CASE ProbeUnlock(p)
      BY <3>4 DEF ProbeUnlock
    <3>5. CASE Released(p) \/ Refuse(p) \/ Sleep(p) \/ Cancel(p)
      BY <3>5 DEF Released, Refuse, Sleep, Cancel
    <3> QED
      BY <1>1, <3>1, <3>2, <3>3, <3>4, <3>5
  <2> QED
    BY <2>4, <2>5, <2>6
\* Steps that write one file k, with no other owner than p: f is its content.
<1>2. CASE RecordTruncate(p) \/ RecordWrite(p) \/ ProbeTruncate(p) \/ ReleaseTruncate(p)
  <2>1. PICK k \in Keys, f \in {None, p} :
          /\ record' = [record EXCEPT ![k] = f]
          /\ ex[k] \in {None, p}
          /\ f = p => Holds(p, k)
          /\ k = IF ReleaseTruncate(p) THEN FirstHeld(p) ELSE Key(p, step[p])
          /\ f = IF RecordWrite(p) THEN p ELSE None
    <3>1. CASE RecordTruncate(p) \/ RecordWrite(p)
      <4>1. Holds(p, Key(p, step[p])) /\ Key(p, step[p]) \in Keys
        BY <3>1, <1>i, <1>k DEF RecordTruncate, RecordWrite, Owner, Took1, Took2, Recording
      <4> QED
        BY <3>1, <4>1 DEF RecordTruncate, RecordWrite, ReleaseTruncate, Holds
    <3>2. CASE ProbeTruncate(p)
      <4>1. p \in sh[Key(p, step[p])] /\ Key(p, step[p]) \in Keys
        BY <3>2, <1>i, <1>k, <1>t DEF ProbeTruncate, Owner, Probing
      <4>2. ex[Key(p, step[p])] = None
        BY <4>1, <1>i DEF FlockOK
      <4> QED
        BY <3>2, <4>1, <4>2, <1>k DEF ProbeTruncate, RecordWrite, ReleaseTruncate
    <3>3. CASE ReleaseTruncate(p)
      <4>1. Holds(p, FirstHeld(p)) /\ FirstHeld(p) \in Keys
        BY <3>3, <1>k DEF ReleaseTruncate, FirstHeld, HoldsNothing
      <4> QED
        BY <3>3, <4>1 DEF ReleaseTruncate, RecordWrite, Holds
    <3> QED
      BY <1>2, <3>1, <3>2, <3>3
  <2>2. /\ ex' = ex /\ outcome' = outcome
        /\ \A q \in Runs : q # p => UNCHANGED <<pc[q], step[q]>>
    BY <1>2, <1>t DEF RecordTruncate, RecordWrite, ProbeTruncate, ReleaseTruncate
  <2>3. NoFinishedHolderRecorded'
    BY <2>1, <2>2, <1>i, <1>t, <1>k DEF NoFinishedHolderRecorded, Holds
  <2>4. ASSUME NEW q \in Runs, q # p PROVE Content(q)'
    <3>1. Took1(q)' = Took1(q) /\ Recording(q)' = Recording(q) /\ step'[q] = step[q]
          /\ pc'[q] = pc[q] /\ Took2(q)' = Took2(q)
      BY <2>2, <2>4, <1>k DEF Took1, Took2, Recording, Probing
    <3>2. FirstHeld(q)' = FirstHeld(q)
      BY <2>2, <1>k, <2>4 DEF FirstHeld, Holds
    <3>3. pc[q] = "relUnlock" => FirstHeld(q) # k
      BY <1>i, <2>1, <1>k, <2>4 DEF Owner, HoldsNothing, FirstHeld, Holds
    <3>4. /\ Took1(q) => Key(q, 1) # k
          /\ Took2(q) => Key(q, 2) # k
      BY <1>i, <2>1, <1>k, <2>4 DEF Owner, Holds
    <3> QED
      BY <3>1, <3>2, <3>3, <3>4, <2>1, <1>i, <1>k, <1>t DEF Content, Took1, Took2
  <2>5. Content(p)'
    <3> USE <1>k, <1>t, <1>i, <2>1, <2>2
        DEF Content, Took1, Took2, Recording, Probing, Releasing
    <3>1. CASE RecordTruncate(p)
      BY <3>1 DEF RecordTruncate, Owner, ReleaseTruncate
    <3>2. CASE RecordWrite(p)
      BY <3>2 DEF RecordWrite, Owner, ReleaseTruncate
    <3>3. CASE ProbeTruncate(p)
      BY <3>3 DEF ProbeTruncate, Owner, ReleaseTruncate
    <3>4. CASE ReleaseTruncate(p)
      <4>1. pc'[p] = "relUnlock"
        BY <3>4 DEF ReleaseTruncate
      <4>2. FirstHeld(p)' = FirstHeld(p) /\ FirstHeld(p) \in Keys
        BY DEF FirstHeld, Holds
      <4>3. record'[FirstHeld(p)] = None
        BY <3>4, <4>2 DEF ReleaseTruncate
      <4> QED
        BY <4>1, <4>2, <4>3
    <3> QED
      BY <1>2, <3>1, <3>2, <3>3, <3>4
  <2> QED
    BY <2>3, <2>4, <2>5
<1>3. CASE ReleaseUnlock(p)
  <2>1. FirstHeld(p) \in Keys /\ Holds(p, FirstHeld(p)) /\ record[FirstHeld(p)] = None
    BY <1>3, <1>k, <1>i DEF ReleaseUnlock, Owner, Content, FirstHeld, HoldsNothing
  <2>2. NoFinishedHolderRecorded'
    BY <1>3, <2>1, <1>i, <1>t, <1>k DEF ReleaseUnlock, NoFinishedHolderRecorded, Holds
  <2>3. ASSUME NEW q \in Runs, q # p PROVE Content(q)'
    BY <1>3, <2>1, <2>3, <1>i, <1>t, <1>k
       DEF ReleaseUnlock, Content, Took1, Took2, Recording, Probing, FirstHeld, Holds
  <2>4. Content(p)'
    BY <1>3, <1>t DEF ReleaseUnlock, Content, Took1, Recording, Probing
  <2> QED
    BY <2>2, <2>3, <2>4
<1>4. CASE Kill(p)
  <2>1. NoFinishedHolderRecorded'
    BY <1>4, <1>i, <1>t DEF Kill, NoFinishedHolderRecorded, Holds
  <2>2. ASSUME NEW q \in Runs, q # p PROVE Content(q)'
    <3>1. /\ UNCHANGED <<pc[q], step[q], record>>
          /\ \A k \in Keys : Holds(q, k)' <=> Holds(q, k)
      BY <1>4, <1>t, <2>2, <1>k DEF Kill, Holds
    <3> QED
      BY <3>1, <1>i, <1>k, <2>2
         DEF Content, Took1, Recording, Probing, FirstHeld
  <2>3. Content(p)'
    BY <1>4, <1>t DEF Kill, Content, Took1, Recording, Probing
  <2> QED
    BY <2>1, <2>2, <2>3
<1> QED
  BY <1>1, <1>2, <1>3, <1>4 DEF Step

-----------------------------------------------------------------------------

LEMMA InitIInv == Init => IInv
<1> SUFFICES ASSUME Init PROVE IInv
  OBVIOUS
<1>1. TypeOK
  BY DEF Init, TypeOK, Locations, Outcomes, Keys
<1>2. FlockOK /\ \A p \in Runs : Owner(p)
  BY OwnerInit
<1>3. NoFinishedHolderRecorded /\ \A p \in Runs : Content(p)
  BY ConstantsAssumption
     DEF Init, NoFinishedHolderRecorded, Content, Took1, Recording, Probing
<1> QED
  BY <1>1, <1>2, <1>3 DEF IInv

LEMMA NextIInv == IInv /\ [Next]_vars => IInv'
<1> SUFFICES ASSUME IInv, [Next]_vars PROVE IInv'
  OBVIOUS
<1>0. TypeOK'
  BY TypeStep DEF IInv
<1>1. CASE UNCHANGED vars
  BY <1>0, <1>1 DEF IInv, vars, FlockOK, NoFinishedHolderRecorded, Owner, Content,
     Took1, Took2, Recording, Probing, Releasing, Holds, HoldsNothing, FirstHeld,
     Key, Probes
<1>2. ASSUME NEW p \in Runs, Step(p) \/ TryFails(p) \/ Cancel(p) \/ Kill(p)
      PROVE  IInv'
  <2>1. FlockOK' /\ \A q \in Runs : Owner(q)'
    BY <1>0, <1>2, OwnerStep DEF IInv
  <2>2. NoFinishedHolderRecorded' /\ \A q \in Runs : Content(q)'
    BY <1>0, <1>2, ContentStep
  <2> QED
    BY <1>0, <2>1, <2>2 DEF IInv
<1> QED
  BY <1>1, <1>2 DEF Next

\* The inductive invariant holds in every state the runs can reach.
THEOREM Invariance == Spec => []IInv
BY InitIInv, NextIInv, PTL DEF Spec

\* Variables keep their types, for any runs, roots and waits.
THEOREM TypeCorrect == Spec => []TypeOK
<1>1. IInv => TypeOK
  BY DEF IInv
<1> QED
  BY <1>1, Invariance, PTL

\* A run that the refinement mapping calls running is not ending, and owns its
\* root's key; an apply owns the host-wide key too.
LEMMA RunningOwns ==
    ASSUME IInv, NEW p \in Runs, Phase[p] = "running"
    PROVE  /\ ex[root[p]] = p
           /\ verb[p] = "apply" => ex[ApplyKey] = p
           /\ outcome[p] = "none" /\ Admitted(p)
<1>1. outcome[p] = "none" /\ Admitted(p)
  BY DEF Phase
<1>2. Owner(p) /\ step[p] \in {1, 2} /\ verb[p] \in Verbs
  BY DEF IInv, TypeOK
<1>3. CASE verb[p] = "apply"
  BY <1>1, <1>2, <1>3, KeyFacts
     DEF IInv, Owner, Took1, Took2, Recording, Probing, Admitted, Holds
<1>4. CASE verb[p] = "build"
  BY <1>1, <1>2, <1>4, KeyFacts
     DEF IInv, Owner, Took1, Took2, Recording, Probing, Admitted, Holds
<1> QED
  BY <1>1, <1>2, <1>3, <1>4 DEF Verbs

\* No two applies run at once on the host and no two runs in one root, for any
\* number of runs killed at any system call.
THEOREM MutualExclusionHolds == Spec => []MutualExclusion
<1>1. IInv => MutualExclusion
  BY RunningOwns DEF MutualExclusion, Flight!OneApply, Flight!OneRunPerRoot, Flight!Running
<1> QED
  BY <1>1, Invariance, PTL

\* A waiting or finished run owns nothing, so a refused, cancelled or killed
\* apply never leaves the host-wide key behind.
THEOREM NoLeakedLockHolds == Spec => []NoLeakedLock
<1>1. IInv => NoLeakedLock
  BY DEF IInv, Owner, NoLeakedLock, Took1, Took2, Recording, Probing, Releasing
<1> QED
  BY <1>1, Invariance, PTL

\* A running run's own record is in every file it owns, and every record of a
\* run that was not killed names a current owner.
THEOREM RecordsHold == Spec => []FilesNameTheirOwners
<1>1. IInv => FilesNameTheirOwners
  <2> SUFFICES ASSUME IInv, NEW p \in Runs, pc[p] = "run", NEW i \in {1, 2}, ~Probes(p, i)
               PROVE  Holds(p, Key(p, i)) /\ record[Key(p, i)] = p
    BY DEF IInv, FilesNameTheirOwners, RunningRunIsNamed
  <2>1. Owner(p) /\ Content(p)
    BY DEF IInv
  <2>2. CASE i = 1
    BY <2>1, <2>2 DEF Owner, Content, Took1, Recording
  <2>3. CASE i = 2
    BY <2>1, <2>3 DEF Owner, Content, Took2, Recording
  <2> QED
    BY <2>2, <2>3
<1> QED
  BY <1>1, Invariance, PTL

-----------------------------------------------------------------------------

\* A step of p leaves the phase of the other runs alone.
LEMMA OthersKeepPhase ==
    ASSUME TypeOK, NEW p \in Runs, Step(p) \/ TryFails(p) \/ Cancel(p) \/ Kill(p),
           NEW q \in Runs, q # p
    PROVE  Phase'[q] = Phase[q]
<1>1. UNCHANGED <<pc[q], step[q], outcome[q]>>
  BY DEF TypeOK, Goto, run, files, Step, Attempt, TryLock, TryBusy, TryFails,
     RecordTruncate, RecordWrite, ProbeTruncate, ProbeUnlock, Finish, ReleaseTruncate,
     ReleaseUnlock, Released, Refuse, Sleep, Cancel, Kill
<1> QED
  BY <1>1 DEF Phase, Admitted

\* Every step of the protocol is a step of SingleFlight or leaves it unchanged.
LEMMA StepRefines ==
    ASSUME IInv, NEW p \in Runs, Step(p) \/ TryFails(p) \/ Cancel(p) \/ Kill(p)
    PROVE  Flight!Next \/ UNCHANGED Flight!vars
<1> USE DEF Goto, run, files
<1>t. /\ TypeOK /\ Owner(p)
      /\ pc \in [Runs -> Locations] /\ step \in [Runs -> {1, 2}]
      /\ outcome \in [Runs -> Outcomes]
  BY DEF IInv, TypeOK
<1>0. verb' = verb /\ root' = root
  BY DEF Step, Attempt, TryLock, TryBusy, TryFails, RecordTruncate, RecordWrite,
         ProbeTruncate, ProbeUnlock, Finish, ReleaseTruncate, ReleaseUnlock,
         Released, Refuse, Sleep, Cancel, Kill
<1>f. ASSUME NEW v, Phase'[p] = v
      PROVE  Phase' = [Phase EXCEPT ![p] = v]
  BY <1>f, <1>t, OthersKeepPhase DEF Phase
<1>s. ASSUME Phase'[p] = Phase[p] PROVE UNCHANGED Flight!vars
  BY <1>s, <1>0, <1>t, OthersKeepPhase DEF Phase, Flight!vars
<1>l. ASSUME Phase'[p] = "over" PROVE Flight!Next \/ UNCHANGED Flight!vars
  <2>1. CASE Phase[p] = "over"
    BY <1>l, <2>1, <1>s
  <2>2. CASE Phase[p] # "over"
    BY <1>l, <2>2, <1>f, <1>0 DEF Flight!Next, Flight!Leave
  <2> QED
    BY <2>1, <2>2
<1>1. CASE TryFails(p) \/ Finish(p) \/ Refuse(p) \/ Cancel(p) \/ Kill(p)
  <2>1. Phase'[p] = "over"
    BY <1>1, <1>t DEF TryFails, Finish, Refuse, Cancel, Kill, Phase
  <2> QED
    BY <2>1, <1>l
<1>2. CASE Attempt(p) \/ TryBusy(p) \/ RecordTruncate(p) \/ RecordWrite(p)
           \/ ProbeTruncate(p) \/ ProbeUnlock(p) \/ ReleaseTruncate(p)
           \/ ReleaseUnlock(p) \/ Released(p) \/ Sleep(p)
  <2>1. Phase'[p] = Phase[p]
    BY <1>2, <1>t DEF Attempt, TryBusy, RecordTruncate, RecordWrite, ProbeTruncate,
       ProbeUnlock, ReleaseTruncate, ReleaseUnlock, Released, Sleep, Phase, Admitted,
       Owner, Recording, Probes
  <2> QED
    BY <2>1, <1>s
<1>3. CASE TryLock(p) /\ step[p] = 1
  <2>1. ~Probes(p, 1)
    BY DEF Probes
  <2>2. Phase'[p] = Phase[p]
    BY <1>3, <1>t, <2>1 DEF TryLock, Phase, Admitted
  <2> QED
    BY <2>2, <1>s
<1>4. CASE TryLock(p) /\ step[p] = 2
  <2>1. outcome[p] = "none" /\ Phase[p] = "waiting"
    BY <1>4, <1>t DEF TryLock, Phase, Admitted, Owner, Releasing
  <2>2. Phase'[p] = "running"
    BY <1>4, <1>t, <2>1 DEF TryLock, Phase, Admitted
  <2>3. ASSUME NEW q \in Runs, Phase[q] = "running" PROVE ~Flight!Blocks(q, p)
    <3>1. q # p /\ q # None /\ p # None
      BY <2>1, <2>3, ConstantsAssumption
    <3>2. ex[root[q]] = q /\ (verb[q] = "apply" => ex[ApplyKey] = q)
      BY <2>3, RunningOwns
    <3>3. ex[Key(p, 1)] = p /\ ex[Key(p, 2)] = None
      BY <1>4, <1>t DEF TryLock, Conflict, Owner, Took1, Holds
    <3>4. verb[p] \in Verbs
      BY <1>t DEF TypeOK
    <3>5. CASE verb[p] = "apply"
      BY <3>1, <3>2, <3>3, <3>5, <1>t, KeyFacts DEF Flight!Blocks
    <3>6. CASE verb[p] = "build"
      BY <3>1, <3>2, <3>3, <3>6, <1>t, KeyFacts DEF Flight!Blocks
    <3> QED
      BY <3>4, <3>5, <3>6 DEF Verbs
  <2>4. Flight!Enter(p)
    BY <2>1, <2>2, <2>3, <1>f, <1>0 DEF Flight!Enter, Flight!Running
  <2> QED
    BY <2>4 DEF Flight!Next
<1> QED
  BY <1>1, <1>2, <1>3, <1>4, <1>t DEF Step

\* The flock protocol implements SingleFlight: initial states map to initial
\* states, and every step maps to an admission, an exit or nothing.
THEOREM Refinement == Spec => ImplementsSingleFlight
<1>1. Init => Flight!Init
  BY DEF Init, Flight!Init, Phase, Admitted, Verbs, Flight!Verbs
<1>2. IInv /\ [Next]_vars => [Flight!Next]_(Flight!vars)
  <2> SUFFICES ASSUME IInv, [Next]_vars PROVE Flight!Next \/ UNCHANGED Flight!vars
    OBVIOUS
  <2>1. CASE UNCHANGED vars
    BY <2>1 DEF vars, Flight!vars, Phase, Admitted
  <2>2. ASSUME NEW p \in Runs, Step(p) \/ TryFails(p) \/ Cancel(p) \/ Kill(p)
        PROVE  Flight!Next \/ UNCHANGED Flight!vars
    BY <2>2, StepRefines
  <2> QED
    BY <2>1, <2>2 DEF Next
<1> QED
  BY <1>1, <1>2, Invariance, PTL DEF Spec, ImplementsSingleFlight, Flight!Spec

\* No build is admitted while an apply runs.
THEOREM NoBuildJoins == Spec => NoBuildJoinsAnApply
<1>1. IInv /\ [Next]_vars =>
        [\A p, q \in Runs :
            /\ Phase[q] = "running" /\ verb[q] = "apply"
            /\ Phase[p] = "waiting" /\ verb[p] = "build"
            => Phase'[p] # "running"]_vars
  <2> SUFFICES ASSUME IInv, [Next]_vars, NEW p \in Runs, NEW q \in Runs,
                      Phase[q] = "running", verb[q] = "apply",
                      Phase[p] = "waiting", verb[p] = "build",
                      Phase'[p] = "running"
               PROVE  FALSE
    OBVIOUS
  <2>1. CASE UNCHANGED vars
    BY <2>1 DEF vars, Phase, Admitted
  <2>2. ASSUME NEW r \in Runs, Step(r) \/ TryFails(r) \/ Cancel(r) \/ Kill(r)
        PROVE  FALSE
    <3>1. Flight!Next
      BY <2>2, StepRefines DEF Flight!vars
    <3>2. PICK s \in Runs : Flight!Enter(s) \/ Flight!Leave(s)
      BY <3>1 DEF Flight!Next
    <3>3. Flight!Enter(p)
      BY <3>2 DEF Flight!Enter, Flight!Leave, Phase
    <3> QED
      BY <3>3 DEF Flight!Enter, Flight!Running, Flight!Blocks
  <2> QED
    BY <2>1, <2>2 DEF Next
<1> QED
  BY <1>1, Invariance, PTL DEF Spec, NoBuildJoinsAnApply
=============================================================================
