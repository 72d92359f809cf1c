--------------------------- MODULE ApplyStateProofs ---------------------------
(***************************************************************************)
(* Theorems about ApplyState for any number of repos, commits and edits,   *)
(* any workspace lock and any clones from one apply to the next.           *)
(*                                                                         *)
(* RecordIsContained is about records and the active system only; that a   *)
(* step keeps it depends on what the run read before: heads are read       *)
(* before the trees are evaluated (Order, Flow), and commits only go       *)
(* forward.  RunOK ties the run's own progress to what it will record.     *)
(***************************************************************************)
EXTENDS ApplyState, TLAPS

BeforeBuild == {"gate", "read", "capture"}
Evaluating == {"build", "switch"}
WithResult == {"probe", "setProfile", "activate", "readLock", "mark"}
Looping == {"gate", "read", "capture", "mark"}

\* What was recorded and read is never ahead of HEAD, and what was read from a
\* tree is neither ahead of HEAD nor behind the record.
Order == \A i \in Repos :
    /\ record[i] <= head[i]
    /\ heads[i] <= head[i]
    /\ system[i].from = "tree" => record[i] <= system[i].commit /\ system[i].commit <= head[i]
    /\ profile[i].from = "tree" => record[i] <= profile[i].commit /\ profile[i].commit <= head[i]
    /\ result[i].from = "tree" => result[i].commit <= head[i]

\* The gate has seen each repo it is done with at its record, and no older than
\* what is installed; a tree that was evaluated is at least as new as the captured
\* head and the record.
Flow ==
    /\ stage \in {"gate", "read"} => \A j \in dirs \ left :
          /\ heads[j] = record[j]
          /\ system[j].from = "tree" => system[j].commit <= heads[j]
          /\ profile[j].from = "tree" => profile[j].commit <= heads[j]
    /\ stage \in Evaluating \cup WithResult =>
          \A i \in Repos : result[i].from = "tree" =>
              heads[i] <= result[i].commit /\ record[i] <= result[i].commit

\* The trees are those of the terminal and of the overridden repos.
ReadAsPlanned(r) == \A i \in Repos :
    r[i].from # "nothing" => (r[i].from = "tree" <=> i \in {Terminal} \cup overridden)

Marked(i) == record[i] = heads[i] /\ (wasOverridden[i] <=> i \in overridden)

\* The progress of the run itself, whatever the user does.
RunOK ==
    /\ stage \in BeforeBuild => \A i \in Repos : result[i] = NotEvaluated
    /\ stage \in WithResult => Evaluated
    /\ stage # "idle" => ending = "none" /\ ReadAsPlanned(result)
    /\ stage \in Looping => left \subseteq dirs
    /\ stage \in BeforeBuild \cup Evaluating \cup {"probe", "setProfile"} => rootSteps = 0
    /\ stage = "activate" => rootSteps = 1 /\ profile = result
    /\ stage \in {"readLock", "mark"} => rootSteps = 2 /\ system = result /\ profile = result
    /\ stage = "mark" => \A j \in dirs \ left : Marked(j)
    /\ ending = "done" => \A i \in dirs : record[i] = heads[i]
    /\ OverridesAreTrue
    /\ CancelMessageIsTrue

-----------------------------------------------------------------------------
LEMMA ConstFacts ==
    /\ MaxCommit \in Nat /\ Clean \in Trees /\ Terminal \in Repos
    /\ Commits \subseteq 0..MaxCommit
    /\ NotEvaluated \in Contents /\ NotEvaluated.from = "nothing"
    /\ NoKey \in Revs /\ NoRev \in Revs
BY ApplyAssumption DEF Commits, Trees, Contents, NotEvaluated, NoKey, NoRev, Revs

\* The terminal's tree pins a commit, or none, for every repo.
LEMMA LockType ==
    ASSUME ApplyTypeOK
    PROVE  \A i \in Repos : LockOf[head[Terminal]][edit[Terminal]][i] \in 0..MaxCommit
<1>1. head[Terminal] \in 0..MaxCommit /\ edit[Terminal] \in Trees
  BY ConstFacts DEF ApplyTypeOK
<1>2. LockOf[head[Terminal]] \in [Trees -> [Repos -> 0..MaxCommit]]
  BY <1>1, ApplyAssumption
<1>3. LockOf[head[Terminal]][edit[Terminal]] \in [Repos -> 0..MaxCommit]
  BY <1>1, <1>2
<1> QED
  BY <1>3

\* The type invariant, in the parts that most actions leave alone.
LEMMA Same ==
    ASSUME ApplyTypeOK, UNCHANGED <<user, disk, dirs, heads, result, rootSteps>>,
           stage' \in Locations, repo' \in Repos, left' \subseteq Repos,
           \/ UNCHANGED local
           \/ /\ edges' = {} /\ overridden' = {} /\ asUser' = FALSE /\ cancelled' = FALSE
              /\ revs' = [i \in Repos |-> NoKey],
           ending' \in Outcomes
    PROVE  ApplyTypeOK'
BY ConstFacts DEF ApplyTypeOK, user, disk, written, local

\* Every operation keeps the types.
LEMMA TypeStep == ApplyTypeOK /\ RunOK /\ [ApplyNext]_applyVars => ApplyTypeOK'
<1> SUFFICES ASSUME ApplyTypeOK, RunOK, [ApplyNext]_applyVars PROVE ApplyTypeOK'
  OBVIOUS
<1> USE ConstFacts
<1>1. CASE UNCHANGED applyVars
  BY <1>1 DEF applyVars, user, disk, written, ApplyTypeOK
<1>2. ASSUME NEW i \in Repos, MoveHead(i) \/ EditTree(i) PROVE ApplyTypeOK'
  BY <1>2 DEF MoveHead, EditTree, ApplyTypeOK, user, disk, written, local
<1>3. ASSUME NEW i \in Repos, GateStatus(i) PROVE ApplyTypeOK'
  <2>1. /\ UNCHANGED <<user, disk, dirs, heads, result, rootSteps, local, ending>>
        /\ stage' \in Locations /\ repo' \in Repos /\ left' \subseteq Repos
    BY <1>3 DEF GateStatus, Goto, ApplyTypeOK, Locations
  <2> QED
    BY <2>1, Same DEF ApplyTypeOK
<1>4. ASSUME NEW i \in Repos, Capture(i) PROVE ApplyTypeOK'
  <2>1. heads' \in [Repos -> 0..MaxCommit]
    BY <1>4 DEF Capture, ApplyTypeOK
  <2>2. /\ UNCHANGED <<user, disk, dirs, result, rootSteps, repo, local, ending>>
        /\ stage' \in Locations /\ left' \subseteq Repos
    BY <1>4 DEF Capture, Goto, ApplyTypeOK, Locations
  <2> QED
    BY <2>1, <2>2 DEF ApplyTypeOK, user, disk, written, local
<1>5. ASSUME NEW i \in Repos, MarkApplied(i) PROVE ApplyTypeOK'
  <2>1. /\ record' \in [Repos -> 0..MaxCommit] /\ wasOverridden' \in [Repos -> BOOLEAN]
        /\ left' \subseteq Repos
    BY <1>5 DEF MarkApplied, Marks, ApplyTypeOK
  <2>2. /\ UNCHANGED <<user, profile, system, dirs, heads, result, rootSteps, repo>>
        /\ stage' \in Locations /\ ending' \in Outcomes
    BY <1>5 DEF MarkApplied, Marks, Goto, Ends, ApplyTypeOK, Locations, Outcomes
  <2>3. \/ UNCHANGED local
        \/ /\ edges' = {} /\ overridden' = {} /\ asUser' = FALSE /\ cancelled' = FALSE
           /\ revs' = [j \in Repos |-> NoKey]
    BY <1>5 DEF MarkApplied, Marks, Goto, Ends
  <2> QED
    BY <2>1, <2>2, <2>3 DEF ApplyTypeOK, user, local
<1>6. ASSUME NEW i \in Repos, EvaluateOverride(i) PROVE ApplyTypeOK'
  <2>1. [from |-> "tree", commit |-> head[i]] \in Contents
    BY DEF ApplyTypeOK, Contents
  <2> QED
    BY <1>6, <2>1 DEF EvaluateOverride, ApplyTypeOK, user, disk, written, local
<1>7. CASE EvaluateTerminal
  <2> DEFINE lock == LockOf[head[Terminal]][edit[Terminal]]
  <2>1. \A i \in Repos : lock[i] \in 0..MaxCommit
    BY LockType
  <2>2. \A i \in Repos : /\ [from |-> "tree", commit |-> head[i]] \in Contents
                         /\ [from |-> "lock", commit |-> lock[i]] \in Contents
    BY <2>1 DEF ApplyTypeOK, Contents
  <2>3. result' \in [Repos -> Contents]
    BY <1>7, <2>2 DEF EvaluateTerminal, ApplyTypeOK
  <2> QED
    BY <1>7, <2>3 DEF EvaluateTerminal, ApplyTypeOK, user, disk, written, local
<1>8. CASE Start
  <2>1. asUser' \in BOOLEAN /\ cancelled' \in BOOLEAN
    BY <1>8, Zenon DEF Start
  <2>2. edges' \subseteq Repos \ {Terminal} /\ overridden' \subseteq edges' /\ dirs' \subseteq Repos
    BY <1>8 DEF Start, Overrides
  <2>3. /\ result' \in [Repos -> Contents] /\ heads' \in [Repos -> 0..MaxCommit]
        /\ revs' \in [Repos -> Revs] /\ left' \subseteq Repos
    BY <1>8, <2>2 DEF Start
  <2>4. stage' \in Locations /\ ending' \in Outcomes /\ repo' \in Repos /\ rootSteps' \in 0..2
    BY <1>8 DEF Start, Locations, Outcomes
  <2> QED
    BY <1>8, <2>1, <2>2, <2>3, <2>4 DEF Start, ApplyTypeOK, user, disk, written
<1>9. CASE GateRead
  <2>1. heads' \in [Repos -> 0..MaxCommit]
    BY <1>9 DEF GateRead, ApplyTypeOK
  <2>2. /\ UNCHANGED <<user, disk, dirs, result, rootSteps, local, ending>>
        /\ stage' \in Locations /\ left' \subseteq Repos /\ repo' \in Repos
    BY <1>9 DEF GateRead, Goto, ApplyTypeOK, Locations
  <2> QED
    BY <2>1, <2>2 DEF ApplyTypeOK, user, disk, written, local
<1>10. CASE SkipBuild \/ Built \/ ProbeUsable \/ SwitchBuilt
  <2>1. /\ UNCHANGED <<user, disk, dirs, heads, result, rootSteps, repo, left>>
        /\ \/ UNCHANGED <<local, ending>>
           \/ /\ edges' = {} /\ overridden' = {} /\ asUser' = FALSE /\ cancelled' = FALSE
              /\ revs' = [i \in Repos |-> NoKey] /\ ending' \in Outcomes
    BY <1>10 DEF SkipBuild, Built, ProbeUsable, SwitchBuilt, Goto, Ends, Outcomes
  <2>2. stage' \in Locations
    BY <1>10 DEF SkipBuild, Built, ProbeUsable, SwitchBuilt, Goto, Ends, Locations
  <2> QED
    BY <2>1, <2>2, Same DEF ApplyTypeOK
<1>11. CASE ProbeUnusable
  <2>1. result' \in [Repos -> Contents] /\ stage' \in Locations /\ ending' \in Outcomes
    BY <1>11 DEF ProbeUnusable, Ends, Locations, Outcomes, ApplyTypeOK
  <2>2. /\ asUser' \in BOOLEAN /\ cancelled' \in BOOLEAN /\ revs' \in [Repos -> Revs]
        /\ edges' \subseteq Repos \ {Terminal} /\ overridden' \subseteq edges'
    BY <1>11 DEF ProbeUnusable, Ends, ApplyTypeOK
  <2> QED
    BY <1>11, <2>1, <2>2 DEF ProbeUnusable, ApplyTypeOK, user, disk, written
<1>12. CASE SetProfile \/ Activate
  <2>1. /\ UNCHANGED <<user, written, dirs, heads, result, repo, left>>
        /\ profile' \in [Repos -> Contents] /\ system' \in [Repos -> Contents]
        /\ rootSteps' \in 0..2 /\ stage' \in Locations /\ ending' \in Outcomes
    BY <1>12 DEF SetProfile, Activate, Goto, Ends, Locations, Outcomes, ApplyTypeOK, RunOK
  <2>2. \/ UNCHANGED local
        \/ /\ edges' = {} /\ overridden' = {} /\ asUser' = FALSE /\ cancelled' = FALSE
           /\ revs' = [i \in Repos |-> NoKey]
    BY <1>12 DEF SetProfile, Activate, Goto, Ends
  <2> QED
    BY <2>1, <2>2 DEF ApplyTypeOK, user, written, local
<1>13. CASE ReadLock
  <2>1. \A i \in Repos : LockOf[head[Terminal]][edit[Terminal]][i] \in Revs
    BY LockType DEF Revs, NoKey
  <2>2. revs' \in [Repos -> Revs]
    BY <1>13, <2>1 DEF ReadLock
  <2> QED
    BY <1>13, <2>2 DEF ReadLock, ApplyTypeOK, Locations, user, disk, written
<1>14. CASE Stop
  <2>1. /\ edges' = {} /\ overridden' = {} /\ dirs' = {} /\ left' = {}
        /\ stage' \in Locations /\ ending' \in Outcomes /\ rootSteps' = 0 /\ repo' = Terminal
        /\ UNCHANGED <<user, disk>>
    BY <1>14 DEF Stop, Ends, Locations, Outcomes
  <2>2. asUser' \in BOOLEAN /\ cancelled' \in BOOLEAN
    BY <1>14 DEF Stop, Ends
  <2>3. /\ revs' \in [Repos -> Revs] /\ heads' \in [Repos -> 0..MaxCommit]
        /\ result' \in [Repos -> Contents]
    BY <1>14 DEF Stop, Ends
  <2> QED
    BY <2>1, <2>2, <2>3 DEF ApplyTypeOK, user, disk, written
<1>15. CASE Cancel
  BY <1>15 DEF Cancel, ApplyTypeOK, user, disk, written
<1> QED
  BY <1>1, <1>2, <1>3, <1>4, <1>5, <1>6, <1>7, <1>8, <1>9, <1>10, <1>11, <1>12,
     <1>13, <1>14, <1>15 DEF ApplyNext

\* Every operation keeps the progress of the run.
LEMMA RunStep == ApplyTypeOK /\ RunOK /\ [ApplyNext]_applyVars => RunOK'
<1> SUFFICES ASSUME ApplyTypeOK, RunOK, [ApplyNext]_applyVars PROVE RunOK'
  OBVIOUS
<1> USE ConstFacts DEF BeforeBuild, Evaluating, WithResult, Looping
<1>1. CASE UNCHANGED applyVars
  BY <1>1 DEF applyVars, user, disk, written, RunOK, Evaluated, ReadAsPlanned, Marked,
              OverridesAreTrue, CancelMessageIsTrue
<1>2. ASSUME NEW i \in Repos, MoveHead(i) \/ EditTree(i) PROVE RunOK'
  <2>1. UNCHANGED <<disk, stage, repo, left, dirs, local, heads, result, rootSteps, ending>>
    BY <1>2 DEF MoveHead, EditTree
  <2> QED
    BY <2>1 DEF disk, written, local, RunOK, Evaluated, ReadAsPlanned, Marked,
                OverridesAreTrue, CancelMessageIsTrue
<1>3. ASSUME NEW i \in Repos, GateStatus(i) PROVE RunOK'
  <2>1. /\ UNCHANGED <<disk, dirs, local, heads, result, rootSteps, ending>>
        /\ stage = "gate" /\ stage' \in {"read", "capture"} /\ left' \subseteq dirs
    BY <1>3 DEF GateStatus, Goto, RunOK
  <2> QED
    BY <2>1 DEF disk, written, local, RunOK, Evaluated, ReadAsPlanned, Marked,
                OverridesAreTrue, CancelMessageIsTrue
<1>4. ASSUME NEW i \in Repos, Capture(i) PROVE RunOK'
  <2>1. /\ UNCHANGED <<disk, dirs, local, result, rootSteps, ending>>
        /\ stage = "capture" /\ stage' \in {"capture", "build", "switch"} /\ left' \subseteq dirs
    BY <1>4 DEF Capture, Goto, RunOK
  <2> QED
    BY <2>1 DEF disk, written, local, RunOK, Evaluated, ReadAsPlanned,
                OverridesAreTrue, CancelMessageIsTrue
<1>5. ASSUME NEW i \in Repos, MarkApplied(i) PROVE RunOK'
  <2>1. /\ stage = "mark" /\ left' = left \ {i} /\ left \subseteq dirs /\ i \in left
        /\ record' = [record EXCEPT ![i] = heads[i]]
        /\ wasOverridden' = [wasOverridden EXCEPT ![i] = (i \in overridden)]
        /\ UNCHANGED <<system, profile, dirs, heads, result, rootSteps>>
        /\ system = result /\ profile = result /\ rootSteps = 2
    BY <1>5 DEF MarkApplied, Marks, RunOK
  <2>2. \A j \in dirs \ left' : record'[j] = heads[j] /\ (wasOverridden'[j] <=> j \in overridden)
    <3> SUFFICES ASSUME NEW j \in dirs \ left'
                 PROVE  record'[j] = heads[j] /\ (wasOverridden'[j] <=> j \in overridden)
      OBVIOUS
    <3>1. CASE j = i
      BY <2>1, <3>1 DEF ApplyTypeOK
    <3>2. CASE j # i
      <4>1. Marked(j) /\ record'[j] = record[j] /\ wasOverridden'[j] = wasOverridden[j]
        BY <2>1, <3>2 DEF RunOK, ApplyTypeOK
      <4> QED
        BY <4>1 DEF Marked
    <3> QED
      BY <3>1, <3>2
  <2>3. CASE left' # {}
    <3>1. stage' = "mark" /\ UNCHANGED <<ending, local>>
      BY <1>5, <2>3 DEF MarkApplied, Marks, Goto
    <3> QED
      BY <2>1, <2>2, <3>1 DEF local, RunOK, Evaluated, ReadAsPlanned, Marked,
                              OverridesAreTrue, CancelMessageIsTrue
  <2>4. CASE left' = {}
    <3>1. stage' = "idle" /\ ending' = "done"
      BY <1>5, <2>4 DEF MarkApplied, Marks, Ends
    <3>2. \A j \in dirs : record'[j] = heads[j] /\ (wasOverridden'[j] <=> j \in overridden)
      BY <2>2, <2>4
    <3>3. \A j \in Repos : result[j].from = "tree" <=> j \in {Terminal} \cup overridden
      BY <2>1 DEF RunOK, Evaluated, ReadAsPlanned
    <3>4. OverridesAreTrue'
      BY <2>1, <3>2, <3>3 DEF OverridesAreTrue, ApplyTypeOK
    <3> QED
      BY <2>1, <3>1, <3>2, <3>4 DEF RunOK, CancelMessageIsTrue
  <2> QED
    BY <2>3, <2>4
<1>6. ASSUME NEW i \in Repos, EvaluateOverride(i) PROVE RunOK'
  <2>1. /\ UNCHANGED <<disk, stage, left, dirs, local, heads, rootSteps, ending>>
        /\ stage \in Evaluating /\ i \in overridden
        /\ result' = [result EXCEPT ![i] = [from |-> "tree", commit |-> head[i]]]
    BY <1>6 DEF EvaluateOverride
  <2>2. ReadAsPlanned(result')
    BY <2>1 DEF RunOK, ReadAsPlanned, ApplyTypeOK
  <2>3. stage \notin WithResult \cup Looping \cup BeforeBuild \cup {"idle"} /\ ending = "none"
    BY <2>1 DEF RunOK
  <2> QED
    BY <2>1, <2>2, <2>3 DEF disk, written, local, RunOK, ReadAsPlanned,
                            OverridesAreTrue, CancelMessageIsTrue
<1>7. CASE EvaluateTerminal
  <2>1. /\ UNCHANGED <<disk, stage, left, dirs, local, heads, rootSteps, ending>>
        /\ stage \in Evaluating
    BY <1>7 DEF EvaluateTerminal
  <2>2. \A i \in Repos : \/ i = Terminal /\ result'[i].from = "tree"
                         \/ i # Terminal /\ i \in overridden /\ result'[i] = result[i]
                         \/ i \notin {Terminal} \cup overridden /\ result'[i].from = "lock"
    BY <1>7 DEF EvaluateTerminal
  <2>3. ReadAsPlanned(result')
    BY <2>1, <2>2 DEF RunOK, ReadAsPlanned
  <2>4. stage \notin WithResult \cup Looping \cup BeforeBuild \cup {"idle"} /\ ending = "none"
    BY <2>1 DEF RunOK
  <2> QED
    BY <2>1, <2>3, <2>4 DEF disk, written, local, RunOK, ReadAsPlanned,
                            OverridesAreTrue, CancelMessageIsTrue
<1>8. CASE Start
  <2>1. /\ \A i \in Repos : result'[i] = NotEvaluated
        /\ stage' \in {"gate", "capture"} /\ ending' = "none" /\ rootSteps' = 0
        /\ left' \subseteq dirs'
    BY <1>8 DEF Start
  <2> QED
    BY <2>1 DEF RunOK, ReadAsPlanned, OverridesAreTrue, CancelMessageIsTrue
<1>9. CASE GateRead
  <2>1. /\ UNCHANGED <<disk, dirs, result, rootSteps, local, ending>>
        /\ stage = "read" /\ stage' \in {"gate", "capture"} /\ left' \subseteq dirs
    BY <1>9 DEF GateRead, Goto, RunOK
  <2> QED
    BY <2>1 DEF disk, written, local, RunOK, ReadAsPlanned,
                OverridesAreTrue, CancelMessageIsTrue
<1>10. CASE SkipBuild
  BY <1>10 DEF SkipBuild, Ends, RunOK, OverridesAreTrue, CancelMessageIsTrue
<1>11. CASE Built \/ ProbeUsable \/ SwitchBuilt
  <2>1. /\ UNCHANGED <<disk, dirs, heads, result, rootSteps, left>>
        /\ stage \in {"build", "switch", "probe"} /\ Evaluated
        /\ \/ stage' \in {"probe", "setProfile"} /\ UNCHANGED <<ending, local>>
           \/ stage' = "idle" /\ ending' = "cancelledBeforeRoot"
    BY <1>11 DEF Built, ProbeUsable, SwitchBuilt, Goto, Ends, RunOK
  <2> QED
    BY <2>1 DEF disk, written, local, RunOK, Evaluated, ReadAsPlanned,
                OverridesAreTrue, CancelMessageIsTrue
<1>12. CASE ProbeUnusable
  <2>1. /\ UNCHANGED <<disk, dirs, heads, rootSteps, left>> /\ stage = "probe"
        /\ \/ stage' = "switch" /\ UNCHANGED <<ending, overridden>>
              /\ \A i \in Repos : result'[i] = NotEvaluated
           \/ stage' = "idle" /\ ending' = "cancelledBeforeRoot" /\ UNCHANGED result
    BY <1>12 DEF ProbeUnusable, Ends
  <2> QED
    BY <2>1 DEF disk, written, RunOK, ReadAsPlanned, OverridesAreTrue, CancelMessageIsTrue
<1>13. CASE SetProfile
  <2>1. /\ UNCHANGED <<written, system, dirs, heads, result, left, local, ending>>
        /\ stage = "setProfile" /\ stage' = "activate" /\ profile' = result /\ rootSteps' = 1
    BY <1>13 DEF SetProfile, Goto, RunOK
  <2> QED
    BY <2>1 DEF written, local, RunOK, Evaluated, ReadAsPlanned,
                OverridesAreTrue, CancelMessageIsTrue
<1>14. CASE Activate
  <2>1. /\ UNCHANGED <<written, profile, dirs, heads, result, left>>
        /\ stage = "activate" /\ system' = result /\ rootSteps' = 2 /\ profile = result
        /\ \/ stage' = "readLock" /\ UNCHANGED <<ending, local>>
           \/ stage' = "idle" /\ ending' = "cancelledAfterRoot"
    BY <1>14 DEF Activate, Goto, Ends, RunOK
  <2> QED
    BY <2>1 DEF written, local, RunOK, Evaluated, ReadAsPlanned,
                OverridesAreTrue, CancelMessageIsTrue
<1>15. CASE ReadLock
  <2>1. /\ UNCHANGED <<disk, dirs, overridden, heads, result, rootSteps, ending>>
        /\ stage = "readLock" /\ stage' = "mark" /\ left' = dirs
    BY <1>15 DEF ReadLock
  <2> QED
    BY <2>1 DEF disk, written, RunOK, Evaluated, ReadAsPlanned, Marked,
                OverridesAreTrue, CancelMessageIsTrue
<1>16. CASE Stop
  BY <1>16 DEF Stop, Ends, RunOK, OverridesAreTrue, CancelMessageIsTrue
<1>17. CASE Cancel
  <2>1. UNCHANGED <<disk, stage, left, dirs, overridden, heads, result, rootSteps, ending>>
    BY <1>17 DEF Cancel
  <2> QED
    BY <2>1 DEF disk, written, RunOK, Evaluated, ReadAsPlanned, Marked,
                OverridesAreTrue, CancelMessageIsTrue
<1> QED
  BY <1>1, <1>2, <1>3, <1>4, <1>5, <1>6, <1>7, <1>8, <1>9, <1>10, <1>11, <1>12,
     <1>13, <1>14, <1>15, <1>16, <1>17 DEF ApplyNext

\* Numbers that Order and Flow compare.
LEMMA Numbers ==
    ASSUME ApplyTypeOK
    PROVE  \A i \in Repos :
             /\ head[i] \in Int /\ heads[i] \in Int /\ record[i] \in Int
             /\ head[i] >= 1 /\ heads[i] >= 0
             /\ system[i].commit \in Int /\ profile[i].commit \in Int /\ result[i].commit \in Int
BY DEF ApplyTypeOK, Contents, Commits

\* With commits that only go forward, every operation keeps Order and Flow.
LEMMA OrderStep ==
    ASSUME Forward, ApplyTypeOK, RunOK, Order, Flow, [ApplyNext]_applyVars
    PROVE  Order' /\ Flow'
<1> USE ConstFacts, Numbers DEF Evaluating, WithResult
<1>1. CASE UNCHANGED applyVars
  BY <1>1 DEF applyVars, user, disk, written, Order, Flow
<1>2. ASSUME NEW i \in Repos, MoveHead(i) PROVE Order' /\ Flow'
  <2>1. \A j \in Repos : head[j] <= head'[j] /\ head'[j] \in Int
    BY <1>2 DEF MoveHead, ApplyTypeOK, Commits
  <2>2. UNCHANGED <<disk, stage, left, dirs, heads, result>>
    BY <1>2 DEF MoveHead
  <2>3. Order'
    BY <2>1, <2>2 DEF Order, disk, written
  <2>4. Flow'
    BY <2>2 DEF Flow, disk, written
  <2> QED
    BY <2>3, <2>4
<1>3. CASE (\E i \in Repos : EditTree(i)) \/ Cancel
  <2>1. UNCHANGED <<head, disk, stage, left, dirs, heads, result>>
    BY <1>3 DEF EditTree, Cancel, user
  <2> QED
    BY <2>1 DEF Order, Flow, disk, written
<1>4. ASSUME NEW i \in Repos, GateStatus(i) PROVE Order' /\ Flow'
  <2>1. /\ UNCHANGED <<user, disk, dirs, heads, result>> /\ stage = "gate"
        /\ \/ stage' = "read" /\ left' = left
           \/ stage' = "capture"
    BY <1>4 DEF GateStatus, Goto
  <2> QED
    BY <2>1 DEF Order, Flow, user, disk, written
<1>5. ASSUME NEW i \in Repos, Capture(i) PROVE Order' /\ Flow'
  <2>1. /\ UNCHANGED <<user, disk, dirs, result>> /\ heads' = [heads EXCEPT ![i] = head[i]]
        /\ stage = "capture" /\ stage' \in {"capture"} \cup Evaluating
        /\ \A j \in Repos : result[j] = NotEvaluated
    BY <1>5 DEF Capture, Goto, RunOK, BeforeBuild
  <2>2. Order'
    BY <2>1 DEF Order, ApplyTypeOK, user, disk, written
  <2>3. Flow'
    BY <2>1 DEF Flow
  <2> QED
    BY <2>2, <2>3
<1>6. ASSUME NEW i \in Repos, MarkApplied(i) PROVE Order' /\ Flow'
  <2>1. /\ UNCHANGED <<user, system, profile, dirs, heads, result>>
        /\ record' = [record EXCEPT ![i] = heads[i]]
        /\ stage = "mark" /\ stage' \in {"mark", "idle"} /\ system = result /\ profile = result
    BY <1>6 DEF MarkApplied, Marks, Goto, Ends, RunOK
  <2>2. \A j \in Repos : record'[j] = record[j] \/ record'[j] = heads[j]
    BY <2>1 DEF ApplyTypeOK
  <2>3. \A j \in Repos : result[j].from = "tree" =>
            heads[j] <= result[j].commit /\ record[j] <= result[j].commit
    BY <2>1 DEF Flow
  <2>4. Order'
    BY <2>1, <2>2, <2>3 DEF Order, user
  <2>5. Flow'
    BY <2>1, <2>2, <2>3 DEF Flow
  <2> QED
    BY <2>4, <2>5
<1>7. ASSUME NEW i \in Repos, EvaluateOverride(i) PROVE Order' /\ Flow'
  <2>1. /\ UNCHANGED <<user, disk, stage, dirs, left, heads>> /\ stage \in Evaluating
        /\ \A j \in Repos : result'[j] = result[j] \/ result'[j].commit = head[j]
    BY <1>7 DEF EvaluateOverride, ApplyTypeOK
  <2>2. Order'
    BY <2>1 DEF Order, user, disk, written
  <2>3. Flow'
    BY <2>1 DEF Flow, Order, user, disk, written
  <2> QED
    BY <2>2, <2>3
<1>8. CASE EvaluateTerminal
  <2>1. /\ UNCHANGED <<user, disk, stage, dirs, left, heads>> /\ stage \in Evaluating
        /\ \A j \in Repos : \/ result'[j] = result[j] \/ result'[j].commit = head[j]
                            \/ result'[j].from = "lock"
    BY <1>8 DEF EvaluateTerminal
  <2>2. Order'
    BY <2>1 DEF Order, user, disk, written
  <2>3. Flow'
    BY <2>1 DEF Flow, Order, user, disk, written
  <2> QED
    BY <2>2, <2>3
<1>9. CASE Start
  <2>1. /\ UNCHANGED <<user, disk>> /\ stage' \in {"gate", "capture"} /\ left' = dirs'
        /\ \A i \in Repos : result'[i] = NotEvaluated /\ heads'[i] = 0
    BY <1>9 DEF Start
  <2>2. Order'
    BY <2>1 DEF Order, user, disk, written
  <2>3. Flow'
    BY <2>1 DEF Flow
  <2> QED
    BY <2>2, <2>3
<1>10. CASE GateRead
  <2>1. /\ repo \in Repos /\ heads' = [heads EXCEPT ![repo] = head[repo]]
        /\ UNCHANGED <<user, disk, dirs, result>> /\ stage = "read"
        /\ \/ stage' = "gate" /\ left' = left \ {repo} /\ record[repo] = head[repo]
           \/ stage' = "capture"
    BY <1>10 DEF GateRead, Goto, ApplyTypeOK
  <2>2. Order'
    BY <2>1 DEF Order, ApplyTypeOK, user, disk, written
  <2>3. CASE stage' = "gate"
    <3> SUFFICES ASSUME NEW j \in dirs \ left'
                 PROVE  /\ heads'[j] = record[j]
                        /\ system[j].from = "tree" => system[j].commit <= heads'[j]
                        /\ profile[j].from = "tree" => profile[j].commit <= heads'[j]
      BY <2>1, <2>2, <2>3 DEF Flow, disk, written
    <3>1. j \in Repos
      BY DEF ApplyTypeOK
    <3>2. CASE j = repo
      BY <2>1, <2>3, <3>1, <3>2 DEF Order, ApplyTypeOK
    <3>3. CASE j # repo
      <4>1. heads'[j] = heads[j] /\ j \in dirs \ left
        BY <2>1, <2>3, <3>1, <3>3 DEF ApplyTypeOK
      <4> QED
        BY <2>1, <4>1 DEF Flow
    <3> QED
      BY <3>2, <3>3
  <2>4. CASE stage' = "capture"
    BY <2>2, <2>4 DEF Flow
  <2> QED
    BY <2>1, <2>2, <2>3, <2>4
<1>11. CASE SkipBuild \/ Built \/ ProbeUsable \/ SwitchBuilt
  <2>1. /\ UNCHANGED <<user, disk, dirs, heads, result, left>>
        /\ \/ stage' = "idle"
           \/ stage \in {"build", "switch", "probe"} /\ stage' \in {"probe", "setProfile"}
    BY <1>11 DEF SkipBuild, Built, ProbeUsable, SwitchBuilt, Goto, Ends
  <2> QED
    BY <2>1 DEF Order, Flow, user, disk, written
<1>12. CASE ProbeUnusable
  <2>1. /\ UNCHANGED <<user, disk, heads>>
        /\ \/ stage' = "idle" /\ UNCHANGED result
           \/ stage' = "switch" /\ \A i \in Repos : result'[i] = NotEvaluated
    BY <1>12 DEF ProbeUnusable, Ends
  <2>2. Order'
    BY <2>1 DEF Order, user, disk, written
  <2>3. Flow'
    BY <2>1 DEF Flow
  <2> QED
    BY <2>2, <2>3
<1>13. CASE SetProfile \/ Activate
  <2>1. /\ UNCHANGED <<user, written, dirs, heads, result, left>>
        /\ stage \in {"setProfile", "activate"} /\ stage' \in {"activate", "readLock", "idle"}
        /\ profile' \in {profile, result} /\ system' \in {system, result}
    BY <1>13 DEF SetProfile, Activate, Goto, Ends
  <2>2. Order'
    BY <2>1 DEF Order, Flow, user, written
  <2>3. Flow'
    BY <2>1 DEF Flow, written
  <2> QED
    BY <2>2, <2>3
<1>14. CASE ReadLock
  <2>1. UNCHANGED <<user, disk, dirs, heads, result>> /\ stage = "readLock" /\ stage' = "mark"
    BY <1>14 DEF ReadLock
  <2> QED
    BY <2>1 DEF Order, Flow, user, disk, written
<1>15. CASE Stop
  <2>1. /\ UNCHANGED <<user, disk>> /\ stage' = "idle"
        /\ \A i \in Repos : result'[i] = NotEvaluated /\ heads'[i] = 0
    BY <1>15 DEF Stop, Ends
  <2> QED
    BY <2>1 DEF Order, Flow, user, disk, written
<1> QED
  BY <1>1, <1>2, <1>3, <1>4, <1>5, <1>6, <1>7, <1>8, <1>9, <1>10, <1>11, <1>12,
     <1>13, <1>14, <1>15 DEF ApplyNext

-----------------------------------------------------------------------------
IInv == ApplyTypeOK /\ RunOK /\ (Forward => Order /\ Flow)

THEOREM Invariance == ApplySpec => []IInv
<1>1. ApplyInit => IInv
  <2> SUFFICES ASSUME ApplyInit PROVE IInv
    OBVIOUS
  <2> USE ConstFacts
  <2>1. \A i \in Repos : record[i] = 0 /\ heads[i] = 0 /\ profile[i] = NotEvaluated
                          /\ system[i] = NotEvaluated /\ result[i] = NotEvaluated
    BY DEF ApplyInit, NoRecord
  <2>2. ApplyTypeOK
    <3>1. asUser \in BOOLEAN /\ cancelled \in BOOLEAN /\ wasOverridden \in [Repos -> BOOLEAN]
      BY DEF ApplyInit
    <3>2. /\ record \in [Repos -> 0..MaxCommit] /\ heads \in [Repos -> 0..MaxCommit]
          /\ profile \in [Repos -> Contents] /\ result \in [Repos -> Contents]
          /\ revs \in [Repos -> Revs] /\ edit \in [Repos -> Trees]
      BY DEF ApplyInit, NoRecord
    <3> QED
      BY <3>1, <3>2 DEF ApplyInit, ApplyTypeOK, Locations, Outcomes
  <2>3. RunOK
    BY DEF ApplyInit, RunOK, BeforeBuild, Evaluating, WithResult, Looping,
           OverridesAreTrue, CancelMessageIsTrue
  <2>4. Order
    <3>1. \A i \in Repos : head[i] \in Int /\ head[i] >= 1
      BY <2>2, Numbers
    <3>2. \A i \in Repos : record[i] <= head[i] /\ heads[i] <= head[i]
      <4> TAKE i \in Repos
      <4>1. record[i] = 0 /\ heads[i] = 0 /\ head[i] \in Int /\ head[i] >= 1
        BY <2>1, <3>1
      <4> HIDE ConstFacts
      <4> QED
        BY <4>1
    <3>3. \A i \in Repos : system[i].from # "tree" /\ profile[i].from # "tree" /\ result[i].from # "tree"
      BY <2>1
    <3> QED
      BY <3>2, <3>3 DEF Order
  <2>5. Flow
    BY DEF ApplyInit, Flow, Evaluating, WithResult
  <2> QED
    BY <2>2, <2>3, <2>4, <2>5 DEF IInv
<1>2. IInv /\ [ApplyNext]_applyVars => IInv'
  BY TypeStep, RunStep, OrderStep DEF IInv
<1> QED
  BY <1>1, <1>2, PTL DEF ApplySpec

\* Every variable of the apply keeps its type.
THEOREM TypeCorrect == ApplySpec => []ApplyTypeOK
BY Invariance, PTL DEF IInv

\* Of a repo that the running system has from its checkout, no record claims a
\* commit that the system does not contain.
THEOREM RecordsContained == ApplySpec => []RecordIsContained
<1>1. IInv => RecordIsContained
  BY DEF IInv, Order, RecordIsContained
<1> QED
  BY <1>1, Invariance, PTL

\* A cancelled run reports the truth about the root steps.
THEOREM CancelReported == ApplySpec => []CancelMessageIsTrue
<1>1. IInv => CancelMessageIsTrue
  BY DEF IInv, RunOK
<1> QED
  BY <1>1, Invariance, PTL

\* An apply after a successful one has nothing to do.
THEOREM Idempotent == ApplySpec => []NextApplySkips
<1>1. IInv => NextApplySkips
  BY DEF IInv, RunOK, ApplyTypeOK, NextApplySkips
<1> QED
  BY <1>1, Invariance, PTL

\* Records are neither ahead of the running system nor behind a successful apply,
\* and are right about which repos the apply read from their checkouts.
THEOREM RecordsExact == ApplySpec => []RecordsAreExact
<1>1. IInv => OverridesAreTrue
  BY DEF IInv, RunOK
<1>2. RecordIsContained /\ OverridesAreTrue /\ NextApplySkips => RecordsAreExact
  BY DEF RecordsAreExact
<1> QED
  BY <1>1, <1>2, Invariance, RecordsContained, Idempotent, PTL

\* A skipped apply leaves what was read from the checkouts at the heads the gate saw.
THEOREM SkipSound == ApplySpec => SkipIsSound
<1> DEFINE Right == (Forward /\ SkipBuild) =>
             \A i \in dirs : /\ system[i].from = "tree" => heads[i] = system[i].commit
                             /\ profile[i].from = "tree" => heads[i] = profile[i].commit
<1>1. IInv => Right
  <2> SUFFICES ASSUME IInv, Forward, SkipBuild, NEW i \in dirs
               PROVE  /\ system[i].from = "tree" => heads[i] = system[i].commit
                      /\ profile[i].from = "tree" => heads[i] = profile[i].commit
    OBVIOUS
  <2>1. i \in dirs \ left /\ stage = "gate" /\ i \in Repos
    BY DEF SkipBuild, IInv, ApplyTypeOK
  <2>2. /\ heads[i] = record[i]
        /\ system[i].from = "tree" => system[i].commit <= heads[i]
        /\ profile[i].from = "tree" => profile[i].commit <= heads[i]
    BY <2>1 DEF IInv, Flow
  <2>3. /\ system[i].from = "tree" => record[i] <= system[i].commit
        /\ profile[i].from = "tree" => record[i] <= profile[i].commit
    BY <2>1 DEF IInv, Order
  <2>4. record[i] \in Int /\ system[i].commit \in Int /\ profile[i].commit \in Int
    BY <2>1, Numbers DEF IInv
  <2> QED
    BY <2>2, <2>3, <2>4
<1> QED
  BY <1>1, Invariance, PTL DEF SkipIsSound
=============================================================================
