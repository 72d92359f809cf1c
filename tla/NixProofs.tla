------------------------------ MODULE NixProofs ------------------------------
(***************************************************************************)
(* What the nix log wrapper's activity machine reports of a log, for any   *)
(* activities and any order of lines; its directory, for any number of     *)
(* runs, lines and caps; and the hook bundle for any number of hooks,      *)
(* events and bundles: what a reader of a log finds, which hooks fire at   *)
(* which gate, and what an install and its doctor say of the files.        *)
(***************************************************************************)
EXTENDS LogWrapper, NixLog, Hooks, FiniteSetTheorems, TLAPS

-----------------------------------------------------------------------------
(* A set of numbers has a least one: the way this module reasons about     *)
(* sequences, for induction over data is out of reach.                     *)

LEMMA LeastOf ==
  ASSUME NEW S \in SUBSET Nat, S # {}
  PROVE  \E i \in S : \A j \in S : i <= j
<1> DEFINE F == {0..m : m \in S}  R == StrictSubsetOrdering(Nat)
<1>1. F \subseteq FiniteSubsetsOf(Nat) /\ F # {}
  <2>1. \A m \in S : IsFiniteSet(0..m) /\ 0..m \subseteq Nat
    BY FS_Interval
  <2> QED BY <2>1 DEF FiniteSubsetsOf
<1>2. IsWellFoundedOn(R, FiniteSubsetsOf(Nat))
  BY FS_StrictSubsetOrderingWellFounded
<1>3. PICK x \in F : \A y \in F : ~(<<y, x>> \in R)
  BY <1>1, <1>2, WFMin
<1>4. PICK m \in S : x = 0..m
  OBVIOUS
<1>5. ASSUME NEW j \in S, j < m  PROVE FALSE
  <2>1. 0..j \subseteq 0..m /\ m \in 0..m /\ m \notin 0..j /\ 0..m \subseteq Nat
    BY <1>5
  <2>2. <<0..j, 0..m>> \in R
    BY <2>1 DEF StrictSubsetOrdering
  <2> QED BY <2>2, <1>3, <1>4
<1> QED BY <1>5

-----------------------------------------------------------------------------
(* The log directory.                                                      *)

Early == {"idle", "sweep", "finalize", "remove", "create", "ready"}

\* How far a run is: its nix, its stream, and what the tailer has read of it.
Streams ==
  \A q \in Runs :
    /\ pc[q] \in Early => nix[q] = "none" /\ raw[q].lines = <<>> /\ tail[q] = NoTail
    /\ pc[q] \in {"drain", "close", "finish"} => nix[q] = "gone"
    /\ pc[q] \in {"done", "direct"} => nix[q] # "up"
    /\ pc[q] \in Early \ {"ready"} => ~raw[q].linked
    /\ raw[q].owed <= RawSize(q) /\ tail[q].offset <= RawSize(q)
    /\ pc[q] \in {"close", "finish"} => tail[q].offset = RawSize(q)

\* Of what the tailer has read, a warning was heard and a retained line counted,
\* or the parse cap was reached.
KeptUpTo(q, n) == {j \in Kept(raw[q].lines) : j <= n}
Heard(q) ==
  /\ \A i \in 1 .. tail[q].offset : raw[q].lines[i] = "warn" => tail[q].warned \/ tail[q].truncated
  /\ tail[q].truncated => tail[q].counted >= ParseCap
  /\ tail[q].counted >= ParseCap \/ tail[q].counted >= Cardinality(KeptUpTo(q, tail[q].offset))
Reads == \A q \in Runs : Heard(q)

\* A run has its pair of files while it writes, but for one that was silent, and
\* no sweep is about to take it.
Capped(n) == {i \in 1 .. n : i <= RetainedCap}
Pairs ==
  \A q \in Runs \ silent :
    /\ Holds(q) => raw[q].linked /\ out[q].linked
    /\ Holds(q) /\ ~tail[q].broken => Capped(tail[q].counted) \subseteq out[q].places
    /\ \A r \in Runs : pc[r] \in {"finalize", "remove"} /\ sweep[r].target = q => pc[q] \in Gone

\* The evidence is in the .jsonl when the .raw goes.
Owed(q) == Filtered(SubSeq(raw[q].lines, 1, raw[q].owed))
Saved ==
  \A q \in Runs \ (silent \cup twice) :
    /\ out[q].linked /\ ~raw[q].linked => Owed(q) \subseteq out[q].places
    /\ \A r \in Runs : pc[r] = "remove" /\ sweep[r].target = q /\ out[q].linked => Owed(q) \subseteq out[q].places

LogInv == TypeOK /\ Streams /\ Reads /\ Pairs /\ Saved /\ WarningNeverExitsZero

\* Retained lines are lines, and finitely many.
LEMMA KeptFinite ==
  ASSUME NEW s \in Seq(Kind)
  PROVE  /\ Kept(s) \subseteq 1 .. Len(s) /\ IsFiniteSet(Kept(s)) /\ Cardinality(Kept(s)) \in Nat
         /\ \A T \in SUBSET Kept(s) :
              IsFiniteSet(T) /\ Cardinality(T) \in Nat /\ Cardinality(T) <= Cardinality(Kept(s))
<1>1. Kept(s) \subseteq 1 .. Len(s)
  BY DEF Kept
<1>2. IsFiniteSet(1 .. Len(s))
  BY FS_Interval
<1>3. IsFiniteSet(Kept(s))
  BY <1>1, <1>2, FS_Subset
<1> QED BY <1>1, <1>3, FS_Subset, FS_CardinalityType

\* What Finalize writes of a beginning of the stream it also writes of more of it.
LEMMA FilteredGrows ==
  ASSUME NEW s \in Seq(Kind), NEW n \in Nat, n <= Len(s)
  PROVE  /\ SubSeq(s, 1, n) \in Seq(Kind)
         /\ Filtered(SubSeq(s, 1, n)) \subseteq Filtered(s)
         /\ \A k \in Kind : SubSeq(Append(s, k), 1, n) = SubSeq(s, 1, n)
<1> DEFINE t == SubSeq(s, 1, n)
<1>1. t \in Seq(Kind) /\ Len(t) = n /\ \A i \in 1 .. n : t[i] = s[i]
  OBVIOUS
<1>2. Kept(t) \subseteq Kept(s)
  BY <1>1 DEF Kept
<1>3. Cardinality(Kept(t)) \in Nat /\ Cardinality(Kept(s)) \in Nat /\ Cardinality(Kept(t)) <= Cardinality(Kept(s))
  BY <1>1, <1>2, KeptFinite
<1>4. Filtered(t) \subseteq Filtered(s)
  BY <1>3 DEF Filtered
<1>5. ASSUME NEW k \in Kind  PROVE SubSeq(Append(s, k), 1, n) = t
  <2> DEFINE u == SubSeq(Append(s, k), 1, n)
  <2>1. Append(s, k) \in Seq(Kind) /\ Len(Append(s, k)) = Len(s) + 1 /\ \A i \in 1 .. Len(s) : Append(s, k)[i] = s[i]
    OBVIOUS
  <2>2. u \in Seq(Kind) /\ Len(u) = n /\ \A i \in 1 .. n : u[i] = s[i]
    BY <2>1
  <2> QED BY <1>1, <2>2
<1> QED BY <1>1, <1>4, <1>5

\* A Poll reads to the end, and counts and hears what it reads.
LEMMA PollReads ==
  ASSUME TypeOK, NEW r \in Runs, Heard(r), tail[r].offset <= RawSize(r)
  PROVE  LET c == Consumed(r)
         IN /\ c \in [offset : Nat, counted : Nat, truncated : BOOLEAN, broken : BOOLEAN, warned : BOOLEAN]
            /\ c.offset = RawSize(r) /\ c.counted >= tail[r].counted /\ c.broken = tail[r].broken
            /\ \A i \in 1 .. RawSize(r) : raw[r].lines[i] = "warn" => c.warned \/ c.truncated
            /\ c.truncated => c.counted >= ParseCap
            /\ c.counted >= ParseCap \/ c.counted >= Cardinality(Kept(raw[r].lines))
<1> DEFINE t == tail[r]
           s == raw[r].lines
           K == Kept(s)
           U == Unread(r)
           P == Parsed(r)
           c == Consumed(r)
<1>1. /\ t \in [offset : Nat, counted : Nat, truncated : BOOLEAN, broken : BOOLEAN, warned : BOOLEAN]
      /\ s \in Seq(Kind) /\ Len(s) \in Nat /\ RawSize(r) = Len(s) /\ t.offset <= Len(s)
      /\ ParseCap \in Nat /\ RetainedCap \in Nat
  BY LogAssumption DEF TypeOK, RawSize
<1>2. /\ K \subseteq 1 .. Len(s) /\ IsFiniteSet(K) /\ Cardinality(K) \in Nat
      /\ \A T \in SUBSET K : IsFiniteSet(T) /\ Cardinality(T) \in Nat /\ Cardinality(T) <= Cardinality(K)
  BY <1>1, KeptFinite
<1>3. U = t.offset + 1 .. Len(s) /\ P \subseteq U
  BY <1>1 DEF Unread, Parsed
<1> DEFINE n == t.counted + Cardinality(P \cap K)
<1>4. Cardinality(P \cap K) \in Nat /\ n \in Nat /\ n >= t.counted
  <2>1. P \cap K \in SUBSET K
    OBVIOUS
  <2>2. Cardinality(P \cap K) \in Nat
    BY <2>1, <1>2, Zenon
  <2> HIDE DEF P, K, t
  <2> QED BY <2>2, <1>1
<1>5. /\ c.offset = Len(s) /\ c.counted = n /\ c.broken = t.broken
      /\ c.truncated = (t.truncated \/ P # U)
      /\ c.warned = (t.warned \/ \E i \in P : s[i] = "warn")
      /\ c = [offset |-> c.offset, counted |-> c.counted, truncated |-> c.truncated, broken |-> c.broken, warned |-> c.warned]
  <2> DEFINE b == t.truncated \/ P # U
             w == t.warned \/ \E i \in P : s[i] = "warn"
  <2>1. c = [t EXCEPT !.offset = RawSize(r), !.counted = n, !.truncated = b, !.warned = w]
    BY DEF Consumed
  <2>2. t = [offset |-> t.offset, counted |-> t.counted, truncated |-> t.truncated, broken |-> t.broken, warned |-> t.warned]
    BY <1>1
  <2> HIDE DEF b, w, n, t, c
  <2>3. c = [offset |-> RawSize(r), counted |-> n, truncated |-> b, broken |-> t.broken, warned |-> w]
    BY <2>1, <2>2
  <2>4. c.offset = RawSize(r) /\ c.counted = n /\ c.broken = t.broken /\ c.truncated = b /\ c.warned = w
    BY <2>3
  <2> QED BY <2>3, <2>4, <1>1, Zenon DEF b, w
<1>6. c \in [offset : Nat, counted : Nat, truncated : BOOLEAN, broken : BOOLEAN, warned : BOOLEAN]
  BY <1>1, <1>4, <1>5
<1>7. \A i \in 1 .. Len(s) : s[i] = "warn" => c.warned \/ c.truncated
  <2> SUFFICES ASSUME NEW i \in 1 .. Len(s), s[i] = "warn", ~c.truncated PROVE c.warned
    OBVIOUS
  <2>1. CASE i <= t.offset
    BY <2>1, <1>1, <1>5 DEF Heard
  <2>2. CASE i > t.offset
    <3>1. i \in U
      BY <2>2, <1>1, <1>3
    <3> QED BY <3>1, <1>5
  <2> QED BY <2>1, <2>2, <1>1
<1>8. t.truncated => t.counted >= ParseCap
  BY DEF Heard
<1>9. t.counted >= ParseCap => n >= ParseCap
  BY <1>1, <1>4
<1>10. P # U => n >= ParseCap
  <2> SUFFICES ASSUME P # U, ~(t.counted >= ParseCap) PROVE n >= ParseCap
    BY <1>9
  <2> DEFINE Late == U \ P
  <2>1. Late # {} /\ Late \in SUBSET Nat
    <3>1. U \subseteq Nat
      BY <1>1, <1>3
    <3> HIDE DEF U, P
    <3> QED BY <3>1, <1>3
  <2>2. PICK i \in Late : \A j \in Late : i <= j
    BY <2>1, LeastOf
  <2>3. i \in U /\ i \in Nat /\ ~t.truncated
    BY <2>1, <2>2, <1>8
  <2>4. t.counted + Cardinality(KeptBefore(r, i)) >= ParseCap
    <3>1. KeptBefore(r, i) \in SUBSET K
      BY DEF KeptBefore
    <3>2. Cardinality(KeptBefore(r, i)) \in Nat
      BY <3>1, <1>2, Zenon
    <3>3. ~(t.counted + Cardinality(KeptBefore(r, i)) < ParseCap)
      BY <2>2, <2>3 DEF Parsed
    <3> HIDE DEF t
    <3> QED BY <3>2, <3>3, <1>1
  <2>5. KeptBefore(r, i) \subseteq P \cap K
    <3>1. \A j \in U : j < i => j \in P
      BY <2>2, <2>3, <1>1, <1>3
    <3> QED BY <3>1 DEF KeptBefore
  <2>6. Cardinality(KeptBefore(r, i)) <= Cardinality(P \cap K) /\ Cardinality(KeptBefore(r, i)) \in Nat
    <3>1. IsFiniteSet(P \cap K)
      BY <1>2
    <3> QED BY <3>1, <2>5, FS_Subset, FS_CardinalityType
  <2> HIDE DEF P, K, t
  <2> QED BY <2>4, <2>6, <1>1, <1>4
<1>11. c.truncated => c.counted >= ParseCap
  BY <1>5, <1>8, <1>9, <1>10
<1>12. n >= ParseCap \/ n >= Cardinality(K)
  <2> SUFFICES ASSUME P = U, t.counted >= Cardinality(KeptUpTo(r, t.offset)) PROVE n >= Cardinality(K)
    BY <1>9, <1>10 DEF Heard
  <2> DEFINE A == KeptUpTo(r, t.offset)
             B == P \cap K
  <2>1. A \in SUBSET K /\ B \in SUBSET K /\ A \cup B = K /\ A \cap B = {}
    BY <1>1, <1>2, <1>3 DEF KeptUpTo
  <2>2. IsFiniteSet(A) /\ IsFiniteSet(B) /\ Cardinality(A) \in Nat /\ Cardinality(B) \in Nat
    BY <2>1, <1>2, Zenon
  <2>3. Cardinality(K) = Cardinality(A) + Cardinality(B) - Cardinality(A \cap B) /\ Cardinality({}) = 0
    BY <2>1, <2>2, FS_Union, FS_EmptySet
  <2>4. Cardinality(K) = Cardinality(A) + Cardinality(B)
    <3>1. A \cap B = {} /\ Cardinality(K) = Cardinality(A) + Cardinality(B) - Cardinality(A \cap B) /\ Cardinality({}) = 0
      BY <2>1, <2>3, Zenon
    <3>2. Cardinality(A \cap B) = 0
      BY <3>1, Zenon
    <3> HIDE DEF A, B, K
    <3> QED BY <2>2, <3>1, <3>2
  <2>5. t.counted >= Cardinality(A) /\ n = t.counted + Cardinality(B) /\ t.counted \in Nat
    BY <1>1
  <2> HIDE DEF A, B, K, t, n
  <2> QED BY <2>2, <2>4, <2>5
<1> QED BY <1>5, <1>6, <1>7, <1>11, <1>12, <1>4, <1>1

LEMMA LogInitInv == Init => LogInv
<1> SUFFICES ASSUME Init PROVE LogInv
  OBVIOUS
<1>1. TypeOK
  BY DEF Init, TypeOK, Step, Gone, NoRaw, NoOut, NoTail, Kind
<1>2. Streams
  BY DEF Init, Streams, Early, Gone, NoRaw, NoTail, RawSize
<1>3. Reads
  <2> SUFFICES ASSUME NEW q \in Runs PROVE Heard(q)
    BY DEF Reads
  <2>1. tail[q] = NoTail /\ raw[q] = NoRaw
    BY DEF Init
  <2>2. Kept(<<>>) = {}
    BY DEF Kept
  <2>3. KeptUpTo(q, 0) = {}
    BY <2>1, <2>2 DEF KeptUpTo, NoRaw
  <2>4. Cardinality(KeptUpTo(q, 0)) = 0
    BY <2>3, FS_EmptySet
  <2> QED BY <2>1, <2>4 DEF Heard, NoTail
<1>4. Pairs
  BY DEF Init, Pairs, Holds
<1>5. Saved
  BY DEF Init, Saved, NoOut
<1>6. WarningNeverExitsZero
  BY LogAssumption DEF Init, WarningNeverExitsZero
<1> QED BY <1>1, <1>2, <1>3, <1>4, <1>5, <1>6 DEF LogInv

\* The steps, by what they leave alone.
Files(r) == \/ FinalizeOpen(r) \/ FinalizeWrite(r) \/ FinalizeRemove(r) \/ Evict(r)
            \/ Create(r) \/ FailOpen(r) \/ Abandon(r) \/ CloseLogs(r) \/ Age(r)
Others(r) == \/ Start(r) \/ SweepSkip(r) \/ FinalizeFails(r) \/ CmdStart(r) \/ NixExit(r)
             \/ Reap(r) \/ Finish(r) \/ Kill(r)

RawFile == [lines : Seq(Kind), owed : Nat, linked : BOOLEAN, old : BOOLEAN]
OutFile == [places : SUBSET Nat, linked : BOOLEAN, old : BOOLEAN]
Listing == [todo : SUBSET Runs, target : Runs]
Tailer == [offset : Nat, counted : Nat, truncated : BOOLEAN, broken : BOOLEAN, warned : BOOLEAN]

\* A field of a file, a listing or a tailer that changes.
LEMMA FieldsChange ==
  /\ \A x \in RawFile, b \in BOOLEAN : [x EXCEPT !.linked = b] \in RawFile /\ [x EXCEPT !.old = b] \in RawFile
  /\ \A x \in RawFile, k \in Kind, n \in Nat :
       [x EXCEPT !.lines = Append(x.lines, k), !.old = FALSE, !.owed = n] \in RawFile
  /\ \A x \in OutFile, b \in BOOLEAN : [x EXCEPT !.linked = b] \in OutFile /\ [x EXCEPT !.old = b] \in OutFile
  /\ \A x \in OutFile, S \in SUBSET Nat, b \in BOOLEAN :
       [x EXCEPT !.places = x.places \cup S, !.old = b] \in OutFile
  /\ \A x \in Listing, S \in SUBSET Runs : [x EXCEPT !.todo = S] \in Listing
  /\ \A x \in Listing, q \in Runs : [x EXCEPT !.target = q] \in Listing
  /\ \A x \in Tailer : [x EXCEPT !.broken = TRUE] \in Tailer
  /\ NoRaw \in RawFile /\ [NoRaw EXCEPT !.linked = TRUE] \in RawFile
  /\ NoOut \in OutFile /\ [NoOut EXCEPT !.linked = TRUE] \in OutFile /\ NoTail \in Tailer
<1>1. ASSUME NEW x \in RawFile, NEW b \in BOOLEAN, NEW k \in Kind, NEW n \in Nat
      PROVE  /\ [x EXCEPT !.linked = b] \in RawFile
             /\ [x EXCEPT !.old = b] \in RawFile
             /\ [x EXCEPT !.lines = Append(x.lines, k), !.old = FALSE, !.owed = n] \in RawFile
  <2>1. x = [lines |-> x.lines, owed |-> x.owed, linked |-> x.linked, old |-> x.old] /\ x.lines \in Seq(Kind)
        /\ x.owed \in Nat /\ x.linked \in BOOLEAN /\ x.old \in BOOLEAN
    BY DEF RawFile
  <2>2. [x EXCEPT !.linked = b] = [lines |-> x.lines, owed |-> x.owed, linked |-> b, old |-> x.old]
    BY <2>1
  <2>3. [x EXCEPT !.old = b] = [lines |-> x.lines, owed |-> x.owed, linked |-> x.linked, old |-> b]
    BY <2>1
  <2>4. \A s \in Seq(Kind), c \in BOOLEAN : [x EXCEPT !.lines = s, !.old = c, !.owed = n] \in RawFile
    BY DEF RawFile
  <2>5. Append(x.lines, k) \in Seq(Kind)
    BY <2>1
  <2>6. FALSE \in BOOLEAN /\ [x EXCEPT !.linked = b] \in RawFile /\ [x EXCEPT !.old = b] \in RawFile
    BY <2>1, <2>2, <2>3 DEF RawFile
  <2> QED BY <2>4, <2>5, <2>6, Zenon
<1>2. ASSUME NEW x \in OutFile, NEW S \in SUBSET Nat, NEW b \in BOOLEAN
      PROVE  /\ [x EXCEPT !.linked = b] \in OutFile
             /\ [x EXCEPT !.old = b] \in OutFile
             /\ [x EXCEPT !.places = x.places \cup S, !.old = b] \in OutFile
  BY DEF OutFile
<1>3. /\ \A x \in Listing, S \in SUBSET Runs : [x EXCEPT !.todo = S] \in Listing
      /\ \A x \in Listing, q \in Runs : [x EXCEPT !.target = q] \in Listing
  BY DEF Listing
<1>4. \A x \in Tailer : [x EXCEPT !.broken = TRUE] \in Tailer
  BY DEF Tailer
<1>5. NoRaw \in RawFile /\ NoOut \in OutFile /\ NoTail \in Tailer
  BY DEF RawFile, OutFile, Tailer, NoRaw, NoOut, NoTail
<1>6. TRUE \in BOOLEAN /\ [NoRaw EXCEPT !.linked = TRUE] \in RawFile /\ [NoOut EXCEPT !.linked = TRUE] \in OutFile
  BY <1>5 DEF RawFile, OutFile
<1>7. "keep" \in Kind /\ 0 \in Nat /\ TRUE \in BOOLEAN
  BY DEF Kind
<1>8. \A x \in RawFile, b \in BOOLEAN : [x EXCEPT !.linked = b] \in RawFile /\ [x EXCEPT !.old = b] \in RawFile
  BY <1>1, <1>7
<1>9. \A x \in OutFile, b \in BOOLEAN : [x EXCEPT !.linked = b] \in OutFile /\ [x EXCEPT !.old = b] \in OutFile
  BY <1>2
<1> QED BY <1>1, <1>2, <1>3, <1>4, <1>5, <1>6, <1>8, <1>9, Zenon

LEMMA TypeStep == TypeOK /\ Streams /\ Reads /\ [Next]_vars => TypeOK'
<1> SUFFICES ASSUME TypeOK, Streams, Reads, [Next]_vars PROVE TypeOK'
  OBVIOUS
<1> DEFINE Codes == [Runs -> Nat]
<1>0. /\ pc \in [Runs -> Step] /\ nix \in [Runs -> {"none", "up", "gone"}] /\ raw \in [Runs -> RawFile]
      /\ out \in [Runs -> OutFile] /\ tail \in [Runs -> Tailer] /\ sweep \in [Runs -> Listing]
      /\ code \in [Runs -> Nat] /\ silent \subseteq Runs /\ twice \subseteq Runs
  BY DEF TypeOK, RawFile, OutFile, Tailer, Listing
<1> DEFINE Typed == /\ pc' \in [Runs -> Step] /\ nix' \in [Runs -> {"none", "up", "gone"}] /\ raw' \in [Runs -> RawFile]
                    /\ out' \in [Runs -> OutFile] /\ tail' \in [Runs -> Tailer] /\ sweep' \in [Runs -> Listing]
                    /\ code' \in [Runs -> Nat] /\ silent' \subseteq Runs /\ twice' \subseteq Runs
<1> SUFFICES Typed
  BY DEF TypeOK, RawFile, OutFile, Tailer, Listing
<1>1. CASE UNCHANGED vars
  BY <1>0, <1>1 DEF vars
<1>f. \A r \in Runs :
        /\ raw[r] \in RawFile /\ out[r] \in OutFile /\ tail[r] \in Tailer /\ sweep[r] \in Listing
        /\ sweep[r].todo \subseteq Runs /\ sweep[r].target \in Runs /\ raw[r].linked \in BOOLEAN
        /\ raw[r].owed \in Nat /\ raw[r].old \in BOOLEAN
  BY <1>0 DEF RawFile, Listing
<1>2. ASSUME NEW r \in Runs, Others(r)  PROVE Typed
  <2>1. CASE Start(r)
    <3>1. [sweep[r] EXCEPT !.todo = {q \in Runs : raw[q].linked}] \in Listing
      BY <1>f, FieldsChange
    <3> QED BY <1>0, <2>1, <3>1 DEF Start, Goto, Step, Gone
  <2>2. CASE SweepSkip(r)
    <3>1. PICK q \in sweep[r].todo : sweep' = [sweep EXCEPT ![r].todo = @ \ {q}]
      BY <2>2 DEF SweepSkip
    <3>2. [sweep[r] EXCEPT !.todo = sweep[r].todo \ {q}] \in Listing
      BY <1>f, FieldsChange
    <3> QED BY <1>0, <2>2, <3>1, <3>2 DEF SweepSkip
  <2>3. CASE FinalizeFails(r)
    <3>1. [sweep[r] EXCEPT !.target = r] \in Listing
      BY <1>f, FieldsChange
    <3> QED BY <1>0, <2>3, <3>1 DEF FinalizeFails, Goto, Step
  <2>4. CASE CmdStart(r)
    BY <1>0, <2>4 DEF CmdStart, Goto, Step
  <2>5. CASE NixExit(r)
    <3>1. code' = code \/ \E c \in {0, 1} : code' = [code EXCEPT ![r] = c]
      BY <2>5 DEF NixExit
    <3>2. code' \in [Runs -> Nat]
      BY <1>0, <3>1
    <3> QED BY <1>0, <2>5, <3>2 DEF NixExit
  <2>6. CASE Reap(r)
    BY <1>0, <2>6 DEF Reap, Goto, Step
  <2>7. CASE Finish(r)
    BY <1>0, <2>7 DEF Finish, Goto, Step, Gone
  <2>8. CASE Kill(r)
    <3>1. NoTail \in Tailer /\ [todo |-> {}, target |-> r] \in Listing
      BY FieldsChange DEF Listing
    <3> QED BY <1>0, <2>8, <3>1 DEF Kill, Goto, Step, Gone
  <2> QED BY <1>2, <2>1, <2>2, <2>3, <2>4, <2>5, <2>6, <2>7, <2>8 DEF Others
<1>3. ASSUME NEW r \in Runs, Files(r)  PROVE Typed
  <2>1. CASE FinalizeOpen(r)
    <3>1. PICK q \in sweep[r].todo :
            /\ sweep' = [sweep EXCEPT ![r] = [todo |-> @.todo \ {q}, target |-> q]]
            /\ out' = [out EXCEPT ![q] = [places |-> {}, linked |-> TRUE, old |-> FALSE]]
            /\ silent' = silent \/ silent' = silent \cup {q}
            /\ twice' = twice \/ twice' = twice \cup {q}
      BY <2>1 DEF FinalizeOpen
    <3>2. q \in Runs /\ [todo |-> sweep[r].todo \ {q}, target |-> q] \in Listing
          /\ [places |-> {}, linked |-> TRUE, old |-> FALSE] \in OutFile
      BY <1>f DEF Listing, OutFile
    <3> QED BY <1>0, <2>1, <3>1, <3>2 DEF FinalizeOpen, Goto, Step
  <2>2. CASE FinalizeWrite(r)
    <3> DEFINE q == sweep[r].target
    <3>1. Filtered(raw[q].lines) \in SUBSET Nat /\ q \in Runs /\ raw[q].old \in BOOLEAN
      BY <1>f DEF Filtered
    <3>2. [out[q] EXCEPT !.places = out[q].places \cup Filtered(raw[q].lines), !.old = raw[q].old] \in OutFile
      BY <1>f, <3>1, FieldsChange
    <3> QED BY <1>0, <2>2, <3>1, <3>2 DEF FinalizeWrite, Goto, Step
  <2>3. CASE FinalizeRemove(r)
    <3> DEFINE q == sweep[r].target
    <3>1. q \in Runs /\ [raw[q] EXCEPT !.linked = FALSE] \in RawFile /\ [sweep[r] EXCEPT !.target = r] \in Listing
      BY <1>f, FieldsChange
    <3> QED BY <1>0, <2>3, <3>1 DEF FinalizeRemove, Goto, Step
  <2>4. CASE Evict(r)
    <3>1. PICK S : out' = [q \in Runs |-> IF q \in S THEN NoOut ELSE out[q]]
      BY <2>4 DEF Evict
    <3>2. out' \in [Runs -> OutFile]
      BY <1>f, <3>1, FieldsChange
    <3> QED BY <1>0, <2>4, <3>2 DEF Evict, Goto, Step
  <2>5. CASE Create(r)
    BY <1>0, <2>5, FieldsChange DEF Create, Goto, Step
  <2>6. CASE FailOpen(r)
    BY <1>0, <2>6, FieldsChange DEF FailOpen, Goto, Step, Gone
  <2>7. CASE Abandon(r)
    BY <1>0, <2>7, FieldsChange DEF Abandon, Goto, Step, Gone
  <2>8. CASE CloseLogs(r)
    <3>1. [raw[r] EXCEPT !.linked = FALSE] \in RawFile
      BY <1>f, FieldsChange
    <3> QED BY <1>0, <2>8, <3>1 DEF CloseLogs, Goto, Step
  <2>9. CASE Age(r)
    <3>1. [raw[r] EXCEPT !.old = raw[r].linked] \in RawFile /\ [out[r] EXCEPT !.old = TRUE] \in OutFile
      BY <1>f, FieldsChange
    <3> QED BY <1>0, <2>9, <3>1 DEF Age
  <2> QED BY <1>3, <2>1, <2>2, <2>3, <2>4, <2>5, <2>6, <2>7, <2>8, <2>9 DEF Files
<1>4. ASSUME NEW r \in Runs, NixWrite(r)  PROVE Typed
  <2> DEFINE n == IF Alive(r) THEN raw[r].owed + 1 ELSE raw[r].owed
             b == out[r].old /\ ~raw[r].linked
  <2>1. PICK k \in Kind :
          raw' = [raw EXCEPT ![r].lines = Append(@, k), ![r].old = FALSE, ![r].owed = IF Alive(r) THEN @ + 1 ELSE @]
    BY <1>4 DEF NixWrite
  <2>2. n \in Nat /\ b \in BOOLEAN
    BY <1>f
  <2>3. [raw[r] EXCEPT !.lines = Append(raw[r].lines, k), !.old = FALSE, !.owed = n] \in RawFile
    BY <1>f, <2>2, FieldsChange
  <2>4. [out[r] EXCEPT !.old = b] \in OutFile
    BY <1>f, <2>2, FieldsChange
  <2>5. raw' = [raw EXCEPT ![r] = [raw[r] EXCEPT !.lines = Append(raw[r].lines, k), !.old = FALSE, !.owed = n]]
    BY <2>1
  <2> QED BY <1>0, <1>4, <2>3, <2>4, <2>5 DEF NixWrite
<1>5. ASSUME NEW r \in Runs, Follow(r) \/ Drain(r)  PROVE Typed
  <2>1. Consumed(r) \in Tailer
    BY PollReads DEF Streams, Reads, Tailer
  <2>2. [Consumed(r) EXCEPT !.broken = TRUE] \in Tailer
    BY <2>1, FieldsChange
  <2>3. tail' \in [Runs -> Tailer]
    BY <1>0, <1>5, <2>1, <2>2 DEF Poll, BadPoll, Follow, Drain
  <2>4. Written(r) \in SUBSET Nat
    BY <2>1, <1>f DEF Written, Tailer
  <2>5. [out[r] EXCEPT !.places = out[r].places \cup Written(r), !.old = FALSE] \in OutFile
    BY <1>f, <2>4, FieldsChange
  <2>6. out' \in [Runs -> OutFile]
    BY <1>0, <1>5, <2>5 DEF Poll, BadPoll, Follow, Drain
  <2> QED BY <1>0, <1>5, <2>3, <2>6 DEF Follow, Drain, Goto, Step
<1> QED BY <1>1, <1>2, <1>3, <1>4, <1>5 DEF Next, Sweeps, Observes, Others, Files

LEMMA StreamsStep == TypeOK /\ Streams /\ Reads /\ [Next]_vars => Streams'
<1> SUFFICES ASSUME TypeOK, Streams, Reads, [Next]_vars PROVE Streams'
  OBVIOUS
<1>0. /\ pc \in [Runs -> Step] /\ nix \in [Runs -> {"none", "up", "gone"}] /\ raw \in [Runs -> RawFile]
      /\ tail \in [Runs -> Tailer] /\ sweep \in [Runs -> Listing]
  BY DEF TypeOK, RawFile, Tailer, Listing
<1> DEFINE Stream(q) ==
      /\ pc[q] \in Early => nix[q] = "none" /\ raw[q].lines = <<>> /\ tail[q] = NoTail
      /\ pc[q] \in {"drain", "close", "finish"} => nix[q] = "gone"
      /\ pc[q] \in {"done", "direct"} => nix[q] # "up"
      /\ pc[q] \in Early \ {"ready"} => ~raw[q].linked
      /\ raw[q].owed <= RawSize(q) /\ tail[q].offset <= RawSize(q)
      /\ pc[q] \in {"close", "finish"} => tail[q].offset = RawSize(q)
<1> SUFFICES ASSUME NEW q \in Runs PROVE Stream(q)'
  BY DEF Streams
<1>s. \A p \in Runs : Stream(p)
  BY DEF Streams
<1>f. \A p \in Runs :
        /\ raw[p] \in RawFile /\ tail[p] \in Tailer /\ raw[p].lines \in Seq(Kind) /\ raw[p].owed \in Nat
        /\ raw[p].linked \in BOOLEAN /\ tail[p].offset \in Nat /\ RawSize(p) = Len(raw[p].lines)
        /\ sweep[p].target \in Runs
  BY <1>0 DEF RawFile, Tailer, Listing, RawSize
<1>n. NoTail.offset = 0 /\ NoRaw.lines = <<>> /\ NoRaw.owed = 0 /\ ~NoRaw.linked
      /\ [NoRaw EXCEPT !.linked = TRUE].lines = <<>> /\ [NoRaw EXCEPT !.linked = TRUE].owed = 0
      /\ Len(<<>>) = 0
  BY DEF NoTail, NoRaw
<1>1. CASE UNCHANGED vars
  BY <1>s, <1>1 DEF vars, RawSize
\* A step that moves a run on, without its stream.
<1>2. ASSUME NEW r \in Runs, Others(r)  PROVE Stream(q)'
  <2>1. raw' = raw
    BY <1>2 DEF Others, Start, SweepSkip, FinalizeFails, CmdStart, NixExit, Reap, Finish, Kill
  <2>2. CASE Start(r) \/ SweepSkip(r) \/ FinalizeFails(r)
    BY <1>0, <1>s, <2>1, <2>2 DEF Start, SweepSkip, FinalizeFails, Goto, Early, RawSize
  <2>3. CASE CmdStart(r)
    BY <1>0, <1>s, <2>1, <2>3 DEF CmdStart, Goto, Early, RawSize
  <2>4. CASE NixExit(r)
    BY <1>0, <1>s, <2>1, <2>4 DEF NixExit, RawSize
  <2>5. CASE Reap(r)
    BY <1>0, <1>s, <2>1, <2>5 DEF Reap, Goto, Early, RawSize
  <2>6. CASE Finish(r)
    BY <1>0, <1>s, <2>1, <2>6 DEF Finish, Goto, Early, RawSize
  <2>7. CASE Kill(r)
    BY <1>0, <1>s, <1>f, <1>n, <2>1, <2>7 DEF Kill, Goto, Early, RawSize
  <2> QED BY <1>2, <2>2, <2>3, <2>4, <2>5, <2>6, <2>7 DEF Others
\* A step that links or unlinks a file.
<1>3. ASSUME NEW r \in Runs, Files(r)  PROVE Stream(q)'
  <2>1. nix' = nix /\ tail' = tail
    BY <1>3 DEF Files, FinalizeOpen, FinalizeWrite, FinalizeRemove, Evict, Create, FailOpen, Abandon, CloseLogs, Age
  <2>2. CASE FinalizeOpen(r) \/ FinalizeWrite(r) \/ Evict(r)
    BY <1>0, <1>s, <2>1, <2>2 DEF FinalizeOpen, FinalizeWrite, Evict, Goto, Early, RawSize
  <2>3. CASE FinalizeRemove(r)
    <3>1. raw'[q].lines = raw[q].lines /\ raw'[q].owed = raw[q].owed /\ (raw'[q].linked => raw[q].linked)
      BY <1>0, <1>f, <2>3 DEF FinalizeRemove, RawFile
    <3> QED BY <1>0, <1>s, <2>1, <2>3, <3>1 DEF FinalizeRemove, Goto, Early, RawSize
  <2>4. CASE Create(r)
    <3>1. q = r => raw'[q] = [NoRaw EXCEPT !.linked = TRUE] /\ pc'[q] = "ready" /\ pc[q] \in Early
      BY <1>0, <2>4 DEF Create, Goto, Early
    <3>2. q # r => raw'[q] = raw[q] /\ pc'[q] = pc[q]
      BY <1>0, <2>4 DEF Create, Goto
    <3>3. q # r => Stream(q)'
      BY <3>2, <2>1, <1>s DEF RawSize
    <3>4. q = r => Stream(q)'
      BY <3>1, <2>1, <1>s, <1>n DEF RawSize, Early
    <3> QED BY <3>3, <3>4
  <2>5. CASE FailOpen(r) \/ Abandon(r)
    <3>1. q = r => raw'[q] = NoRaw /\ pc'[q] \in {"direct", "done"} /\ pc[q] \in Early
      BY <1>0, <2>5 DEF FailOpen, Abandon, Goto, Early
    <3>2. q # r => raw'[q] = raw[q] /\ pc'[q] = pc[q]
      BY <1>0, <2>5 DEF FailOpen, Abandon, Goto
    <3>3. q # r => Stream(q)'
      BY <3>2, <2>1, <1>s DEF RawSize
    <3>4. q = r => Stream(q)'
      BY <3>1, <2>1, <1>s, <1>n DEF RawSize, Early
    <3> QED BY <3>3, <3>4
  <2>6. CASE CloseLogs(r)
    <3>1. raw'[q].lines = raw[q].lines /\ raw'[q].owed = raw[q].owed /\ (raw'[q].linked => raw[q].linked)
      BY <1>0, <1>f, <2>6 DEF CloseLogs, RawFile
    <3>2. RawSize(q)' = RawSize(q)
      BY <3>1 DEF RawSize
    <3>3. pc'[q] = pc[q] \/ (pc[q] = "close" /\ pc'[q] = "finish")
      BY <1>0, <2>6 DEF CloseLogs, Goto
    <3> QED BY <1>s, <2>1, <3>1, <3>2, <3>3 DEF Early
  <2>7. CASE Age(r)
    <3>1. raw'[q].lines = raw[q].lines /\ raw'[q].owed = raw[q].owed /\ raw'[q].linked = raw[q].linked
      BY <1>0, <1>f, <2>7 DEF Age, RawFile
    <3> QED BY <1>s, <2>1, <2>7, <3>1 DEF Age, RawSize
  <2> QED BY <1>3, <2>2, <2>3, <2>4, <2>5, <2>6, <2>7 DEF Files
<1>4. ASSUME NEW r \in Runs, NixWrite(r)  PROVE Stream(q)'
  <2>1. q # r => raw'[q] = raw[q]
    BY <1>0, <1>4 DEF NixWrite
  <2>2. q = r => /\ pc[q] \in {"running", "killed"}
                 /\ \E k \in Kind : raw'[q].lines = Append(raw[q].lines, k)
                 /\ raw'[q].owed = raw[q].owed \/ raw'[q].owed = raw[q].owed + 1
    <3> HAVE q = r
    <3>1. pc[q] \in {"running", "killed"}
      BY <1>0, <1>4, <1>s DEF NixWrite, Early, Step, Gone
    <3>2. PICK k \in Kind : raw' = [raw EXCEPT ![r].lines = Append(@, k), ![r].old = FALSE,
                                               ![r].owed = IF Alive(r) THEN @ + 1 ELSE @]
      BY <1>4 DEF NixWrite
    <3>3. raw'[q].lines = Append(raw[q].lines, k)
      BY <1>0, <3>2 DEF RawFile
    <3>4. raw'[q].owed = IF Alive(r) THEN raw[q].owed + 1 ELSE raw[q].owed
      BY <1>0, <3>2 DEF RawFile
    <3> QED BY <3>1, <3>3, <3>4
  <2>3. q = r => RawSize(q)' = RawSize(q) + 1
    BY <2>2, <1>f DEF RawSize
  <2>4. pc' = pc /\ nix' = nix /\ tail' = tail
    BY <1>4 DEF NixWrite
  <2>5. q # r => Stream(q)'
    BY <2>1, <2>4, <1>s DEF RawSize
  <2>6. q = r => Stream(q)'
    <3> HAVE q = r
    <3>1. RawSize(q) \in Nat
      BY <1>f
    <3> QED BY <2>2, <2>3, <2>4, <1>s, <1>f, <3>1 DEF Early
  <2> QED BY <2>5, <2>6
<1>5. ASSUME NEW r \in Runs, Follow(r) \/ Drain(r)  PROVE Stream(q)'
  <2>1. Consumed(r) \in Tailer /\ Consumed(r).offset = RawSize(r)
    BY PollReads DEF Streams, Reads, Tailer
  <2>2. q # r => tail'[q] = tail[q]
    BY <1>0, <1>5 DEF Poll, BadPoll, Follow, Drain
  <2>3. q = r => tail'[q].offset = RawSize(q) /\ pc[q] \in {"running", "drain"}
    BY <1>0, <1>5, <2>1 DEF Poll, BadPoll, Follow, Drain, Tailer
  <2>4. raw' = raw /\ nix' = nix
    BY <1>5 DEF Follow, Drain
  <2>5. pc'[q] = pc[q] \/ (q = r /\ pc[q] = "drain" /\ pc'[q] = "close")
    BY <1>0, <1>5 DEF Follow, Drain, Goto
  <2>6. RawSize(q)' = RawSize(q) /\ RawSize(q) \in Nat
    BY <2>4, <1>f DEF RawSize
  <2> QED BY <1>s, <2>2, <2>3, <2>4, <2>5, <2>6 DEF Early
<1> QED BY <1>1, <1>2, <1>3, <1>4, <1>5 DEF Next, Sweeps, Observes, Others, Files

\* Only nix adds lines, and only while its run is watched are they owed.
LEMMA LinesGrow ==
  ASSUME TypeOK, Streams, [Next]_vars, NEW q \in Runs
  PROVE  \/ /\ raw'[q].lines = raw[q].lines /\ raw'[q].owed = raw[q].owed
         \/ /\ NixWrite(q)
            /\ \E k \in Kind : raw'[q].lines = Append(raw[q].lines, k)
            /\ raw'[q].linked = raw[q].linked
            /\ raw'[q].owed = IF Alive(q) THEN raw[q].owed + 1 ELSE raw[q].owed
            /\ pc[q] \in {"running", "killed"}
<1>0. /\ pc \in [Runs -> Step] /\ nix \in [Runs -> {"none", "up", "gone"}] /\ raw \in [Runs -> RawFile]
      /\ sweep \in [Runs -> Listing]
  BY DEF TypeOK, RawFile, Listing
<1>1. CASE UNCHANGED vars
  BY <1>1 DEF vars
<1>n. NoRaw.lines = <<>> /\ NoRaw.owed = 0
      /\ [NoRaw EXCEPT !.linked = TRUE].lines = <<>> /\ [NoRaw EXCEPT !.linked = TRUE].owed = 0
  BY DEF NoRaw
<1>e. pc[q] \in Early => raw[q].lines = <<>> /\ raw[q].owed = 0
  BY <1>0 DEF Streams, RawSize, RawFile
<1>2. ASSUME NEW r \in Runs, \/ Others(r) \/ Follow(r) \/ Drain(r) \/ FinalizeOpen(r) \/ FinalizeWrite(r) \/ Evict(r)
      PROVE  raw' = raw
  BY <1>2 DEF Others, Start, SweepSkip, FinalizeFails, CmdStart, NixExit, Reap, Finish, Kill, Follow, Drain,
              FinalizeOpen, FinalizeWrite, Evict
<1>3. ASSUME NEW r \in Runs, FinalizeRemove(r) \/ CloseLogs(r) \/ Age(r)
      PROVE  raw'[q].lines = raw[q].lines /\ raw'[q].owed = raw[q].owed
  <2>1. sweep[r].target \in Runs
    BY <1>0 DEF Listing
  <2>2. \/ \E s \in Runs : raw' = [raw EXCEPT ![s].linked = FALSE]
        \/ raw' = raw
        \/ raw' = [raw EXCEPT ![r].old = raw[r].linked]
    BY <1>3, <2>1 DEF FinalizeRemove, CloseLogs, Age
  <2>3. ASSUME NEW s \in Runs, raw' = [raw EXCEPT ![s].linked = FALSE]
        PROVE  raw'[q].lines = raw[q].lines /\ raw'[q].owed = raw[q].owed
    BY <1>0, <2>3 DEF RawFile
  <2>4. ASSUME raw' = [raw EXCEPT ![r].old = raw[r].linked]
        PROVE  raw'[q].lines = raw[q].lines /\ raw'[q].owed = raw[q].owed
    BY <1>0, <2>4 DEF RawFile
  <2> QED BY <2>2, <2>3, <2>4
<1>4. ASSUME NEW r \in Runs, Create(r) \/ FailOpen(r) \/ Abandon(r)
      PROVE  raw'[q].lines = raw[q].lines /\ raw'[q].owed = raw[q].owed
  <2>1. q # r => raw'[q] = raw[q]
    BY <1>0, <1>4 DEF Create, FailOpen, Abandon
  <2>2. q = r => pc[q] \in Early /\ raw'[q] \in {NoRaw, [NoRaw EXCEPT !.linked = TRUE]}
    BY <1>0, <1>4 DEF Create, FailOpen, Abandon, Early
  <2>3. q = r => raw'[q].lines = <<>> /\ raw'[q].owed = 0
    BY <2>2, <1>n
  <2> QED BY <2>1, <2>2, <2>3, <1>e
<1>5. ASSUME NEW r \in Runs, NixWrite(r), q # r  PROVE raw'[q] = raw[q]
  BY <1>0, <1>5 DEF NixWrite
<1>6. ASSUME NixWrite(q)
      PROVE  /\ \E k \in Kind : raw'[q].lines = Append(raw[q].lines, k)
             /\ raw'[q].linked = raw[q].linked
             /\ raw'[q].owed = IF Alive(q) THEN raw[q].owed + 1 ELSE raw[q].owed
             /\ pc[q] \in {"running", "killed"}
  <2>1. pc[q] \in {"running", "killed"}
    BY <1>0, <1>6 DEF NixWrite, Streams, Early, Step, Gone
  <2>2. PICK k \in Kind : raw' = [raw EXCEPT ![q].lines = Append(@, k), ![q].old = FALSE,
                                             ![q].owed = IF Alive(q) THEN @ + 1 ELSE @]
    BY <1>6 DEF NixWrite
  <2>3. raw'[q].lines = Append(raw[q].lines, k) /\ raw'[q].linked = raw[q].linked
    BY <1>0, <2>2 DEF RawFile
  <2>4. raw'[q].owed = IF Alive(q) THEN raw[q].owed + 1 ELSE raw[q].owed
    BY <1>0, <2>2 DEF RawFile
  <2> QED BY <2>1, <2>3, <2>4
<1>7. \/ UNCHANGED vars
      \/ \E r \in Runs : \/ Others(r) \/ Follow(r) \/ Drain(r) \/ FinalizeOpen(r) \/ FinalizeWrite(r) \/ Evict(r)
                         \/ FinalizeRemove(r) \/ CloseLogs(r) \/ Age(r)
                         \/ Create(r) \/ FailOpen(r) \/ Abandon(r) \/ NixWrite(r)
  BY DEF Next, Sweeps, Observes, Others
<1> QED BY <1>1, <1>2, <1>3, <1>4, <1>5, <1>6, <1>7

LEMMA ReadsStep == TypeOK /\ Streams /\ Reads /\ [Next]_vars => Reads'
<1> SUFFICES ASSUME TypeOK, Streams, Reads, [Next]_vars, NEW q \in Runs PROVE Heard(q)'
  BY DEF Reads
<1>0. tail \in [Runs -> Tailer] /\ raw \in [Runs -> RawFile]
  BY DEF TypeOK, RawFile, Tailer
<1>f. tail[q] \in Tailer /\ tail[q].offset \in Nat /\ raw[q].lines \in Seq(Kind) /\ tail[q].offset <= Len(raw[q].lines)
  BY <1>0 DEF Streams, RawSize, RawFile, Tailer
<1>h. Heard(q)
  BY DEF Reads
\* The tailer has read nothing new.
<1>1. ASSUME tail'[q] = tail[q]  PROVE Heard(q)'
  <2>1. CASE raw'[q].lines = raw[q].lines
    BY <1>1, <2>1, <1>h DEF Heard, KeptUpTo, Kept, RetainDrop
  <2>2. ASSUME NEW k \in Kind, raw'[q].lines = Append(raw[q].lines, k)  PROVE Heard(q)'
    <3> DEFINE s == raw[q].lines  n == tail[q].offset
    <3>1. \A i \in 1 .. n : Append(s, k)[i] = s[i]
      BY <1>f
    <3>2. KeptUpTo(q, n)' = KeptUpTo(q, n)
      <4>1. {j \in Kept(Append(s, k)) : j <= n} = {j \in Kept(s) : j <= n}
        BY <1>f, <3>1 DEF Kept
      <4> QED BY <4>1, <2>2, <1>1 DEF KeptUpTo, Kept
    <3> QED BY <1>1, <2>2, <3>1, <3>2, <1>h DEF Heard
  <2> QED BY <2>1, <2>2, LinesGrow
\* A killed run's tailer is no more.
<1>2. ASSUME Kill(q)  PROVE Heard(q)'
  <2>1. tail'[q] = NoTail
    BY <1>0, <1>2 DEF Kill
  <2>2. KeptUpTo(q, 0)' = {}
    <3>1. raw' = raw
      BY <1>2 DEF Kill
    <3>2. Kept(raw[q].lines) \subseteq 1 .. Len(raw[q].lines) /\ Len(raw[q].lines) \in Nat
      BY <1>f, KeptFinite
    <3> QED BY <3>1, <3>2 DEF KeptUpTo, Kept, RetainDrop
  <2>3. Cardinality(KeptUpTo(q, 0)') = 0
    BY <2>2, FS_EmptySet
  <2> QED BY <2>1, <2>2, <2>3 DEF Heard, NoTail
<1>3. ASSUME Follow(q) \/ Drain(q)  PROVE Heard(q)'
  <2> DEFINE c == Consumed(q)
  <2>1. /\ c \in Tailer /\ c.offset = RawSize(q)
        /\ \A i \in 1 .. RawSize(q) : raw[q].lines[i] = "warn" => c.warned \/ c.truncated
        /\ c.truncated => c.counted >= ParseCap
        /\ c.counted >= ParseCap \/ c.counted >= Cardinality(Kept(raw[q].lines))
    <3>1. tail[q].offset <= RawSize(q)
      BY DEF Streams
    <3> QED BY <3>1, <1>h, PollReads DEF Tailer
  <2>2. tail'[q] = c \/ tail'[q] = [c EXCEPT !.broken = TRUE]
    BY <1>0, <1>3 DEF Follow, Drain, Poll, BadPoll
  <2>3. tail'[q].offset = c.offset /\ tail'[q].warned = c.warned /\ tail'[q].truncated = c.truncated
        /\ tail'[q].counted = c.counted
    <3> HIDE DEF c
    <3> QED BY <2>1, <2>2 DEF Tailer
  <2>4. raw' = raw
    BY <1>3 DEF Follow, Drain
  <2>5. KeptUpTo(q, RawSize(q))' = Kept(raw[q].lines)
    <3>1. Kept(raw[q].lines) \subseteq 1 .. Len(raw[q].lines) /\ Len(raw[q].lines) \in Nat
      BY <1>f, KeptFinite
    <3> QED BY <2>4, <3>1 DEF KeptUpTo, Kept, RawSize, RetainDrop
  <2> HIDE DEF c
  <2>6. RawSize(q)' = RawSize(q)
    BY <2>4 DEF RawSize
  <2> QED BY <2>1, <2>3, <2>4, <2>5, <2>6 DEF Heard
<1>4. tail'[q] = tail[q] \/ Kill(q) \/ Follow(q) \/ Drain(q)
  <2>1. CASE UNCHANGED vars
    BY <2>1 DEF vars
  <2>2. ASSUME NEW r \in Runs, Files(r) \/ NixWrite(r)  PROVE tail' = tail
    BY <2>2 DEF Files, FinalizeOpen, FinalizeWrite, FinalizeRemove, Evict, Create, FailOpen, Abandon, CloseLogs,
                Age, NixWrite
  <2>3. ASSUME NEW r \in Runs, Start(r) \/ SweepSkip(r) \/ FinalizeFails(r) \/ CmdStart(r) \/ NixExit(r)
                               \/ Reap(r) \/ Finish(r)
        PROVE  tail' = tail
    BY <2>3 DEF Start, SweepSkip, FinalizeFails, CmdStart, NixExit, Reap, Finish
  <2>4. ASSUME NEW r \in Runs, Kill(r) \/ Follow(r) \/ Drain(r), r # q  PROVE tail'[q] = tail[q]
    BY <1>0, <2>4 DEF Kill, Follow, Drain, Poll, BadPoll
  <2> QED BY <2>1, <2>2, <2>3, <2>4 DEF Next, Sweeps, Observes, Files
<1> QED BY <1>1, <1>2, <1>3, <1>4

\* The guard is asked once nix's last line was read.
LEMMA WarnStep == TypeOK /\ Streams /\ Reads /\ WarningNeverExitsZero /\ [Next]_vars => WarningNeverExitsZero'
<1> SUFFICES ASSUME TypeOK, Streams, Reads, WarningNeverExitsZero, [Next]_vars, NEW q \in Guarded,
                    pc'[q] = "done", ~tail'[q].truncated,
                    NEW i \in DOMAIN raw'[q].lines, raw'[q].lines[i] = "warn"
             PROVE  code'[q] # 0
  BY DEF WarningNeverExitsZero
<1>0. /\ pc \in [Runs -> Step] /\ raw \in [Runs -> RawFile] /\ tail \in [Runs -> Tailer] /\ code \in [Runs -> Nat]
      /\ q \in Runs
  BY LogAssumption DEF TypeOK, RawFile, Tailer
<1>1. ASSUME NEW r \in Runs, Finish(r), r = q  PROVE code'[q] # 0
  <2>1. raw' = raw /\ tail' = tail /\ pc[q] = "finish" /\ code'[q] = IF code[q] = 0 /\ tail[q].warned THEN 3 ELSE code[q]
    BY <1>0, <1>1 DEF Finish
  <2>2. raw[q].lines \in Seq(Kind) /\ tail[q].offset = Len(raw[q].lines)
    BY <1>0, <2>1 DEF RawFile, Streams, RawSize
  <2>3. i \in 1 .. tail[q].offset /\ raw[q].lines[i] = "warn"
    BY <2>1, <2>2
  <2>4. tail[q].warned
    BY <1>0, <2>1, <2>3 DEF Reads, Heard
  <2> QED BY <2>1, <2>4
<1>2. ASSUME NEW r \in Runs, Abandon(r), r = q  PROVE code'[q] # 0
  BY <1>0, <1>2 DEF Abandon
<1>3. ASSUME pc[q] = "done", tail'[q] = tail[q], code'[q] = code[q]  PROVE code'[q] # 0
  <2>1. raw'[q].lines = raw[q].lines
    BY <1>0, <1>3, LinesGrow
  <2> QED BY <1>3, <2>1 DEF WarningNeverExitsZero
<1>4. CASE UNCHANGED vars
  BY <1>3, <1>4 DEF vars
<1>5. ASSUME NEW r \in Runs, Others(r), ~(Finish(r) /\ r = q)  PROVE code'[q] # 0
  <2>1. pc[q] = "done"
    BY <1>0, <1>5 DEF Others, Start, SweepSkip, FinalizeFails, CmdStart, NixExit, Reap, Finish, Kill, Goto
  <2>2. tail'[q] = tail[q]
    BY <1>0, <1>5, <2>1 DEF Others, Start, SweepSkip, FinalizeFails, CmdStart, NixExit, Reap, Finish, Kill, Alive, Gone
  <2>3. code'[q] = code[q]
    BY <1>0, <1>5, <2>1 DEF Others, Start, SweepSkip, FinalizeFails, CmdStart, NixExit, Reap, Finish, Kill, Alive, Gone
  <2> QED BY <1>3, <2>1, <2>2, <2>3
<1>6. ASSUME NEW r \in Runs, Files(r) \/ NixWrite(r), ~(Abandon(r) /\ r = q)  PROVE code'[q] # 0
  <2>1. pc[q] = "done"
    BY <1>0, <1>6 DEF Files, FinalizeOpen, FinalizeWrite, FinalizeRemove, Evict, Create, FailOpen, Abandon, CloseLogs,
                      Age, NixWrite, Goto
  <2>2. tail' = tail /\ code'[q] = code[q]
    BY <1>0, <1>6, <2>1 DEF Files, FinalizeOpen, FinalizeWrite, FinalizeRemove, Evict, Create, FailOpen, Abandon,
                            CloseLogs, Age, NixWrite
  <2> QED BY <1>3, <2>1, <2>2
<1>7. ASSUME NEW r \in Runs, Follow(r) \/ Drain(r)  PROVE code'[q] # 0
  <2>1. pc[q] = "done" /\ code' = code
    BY <1>0, <1>7 DEF Follow, Drain, Goto
  <2>2. tail'[q] = tail[q]
    BY <1>0, <1>7, <2>1 DEF Follow, Drain, Poll, BadPoll
  <2> QED BY <1>3, <2>1, <2>2
<1> QED BY <1>1, <1>2, <1>4, <1>5, <1>6, <1>7 DEF Next, Sweeps, Observes, Others, Files

\* A sweep starts to finalize a run.
Opens(r, q) ==
  /\ pc[r] = "sweep" /\ pc'[r] = "finalize" /\ sweep'[r].target = q
  /\ raw' = raw /\ raw[q].linked /\ (Alive(q) => raw[q].old /\ q \in silent')
  /\ \A s \in Runs : s # r => pc'[s] = pc[s] /\ sweep'[s] = sweep[s]
  /\ \A s \in Runs : pc[s] \in {"finalize", "remove"} /\ sweep[s].target = q => q \in twice'
  /\ \A p \in Runs : p # q => out'[p] = out[p]
  /\ silent \subseteq silent' /\ twice \subseteq twice'

LEMMA OpensOne ==
  ASSUME TypeOK, NEW r \in Runs, FinalizeOpen(r)
  PROVE  \E q \in Runs : Opens(r, q)
<1>0. /\ pc \in [Runs -> Step] /\ out \in [Runs -> OutFile] /\ sweep \in [Runs -> Listing]
  BY DEF TypeOK, OutFile, Listing
<1>1. PICK q \in sweep[r].todo :
       /\ raw[q].linked /\ (~Alive(q) \/ raw[q].old)
       /\ sweep' = [sweep EXCEPT ![r] = [todo |-> @.todo \ {q}, target |-> q]]
       /\ out' = [out EXCEPT ![q] = [places |-> {}, linked |-> TRUE, old |-> FALSE]]
       /\ silent' = IF Alive(q) THEN silent \cup {q} ELSE silent
       /\ twice' = IF \E s \in Runs : pc[s] \in {"finalize", "remove"} /\ sweep[s].target = q
                     THEN twice \cup {q} ELSE twice
  BY DEF FinalizeOpen
<1>2. q \in Runs
  BY <1>0 DEF Listing
<1>3. raw' = raw /\ pc[r] = "sweep" /\ pc' = [pc EXCEPT ![r] = "finalize"]
  BY DEF FinalizeOpen, Goto
<1>4. sweep'[r].target = q /\ \A s \in Runs : s # r => sweep'[s] = sweep[s]
  BY <1>0, <1>1
<1>5. \A p \in Runs : p # q => out'[p] = out[p]
  BY <1>0, <1>1
<1> QED BY <1>0, <1>1, <1>2, <1>3, <1>4, <1>5 DEF Opens

\* A dead run stays dead, and only Create makes a pair of files.
LEMMA RunsEnd ==
  ASSUME TypeOK, [Next]_vars, NEW q \in Runs
  PROVE  /\ pc[q] \in Gone => pc'[q] \in Gone
         /\ Holds(q)' => Holds(q) \/ Create(q)
         /\ silent \subseteq silent' /\ twice \subseteq twice'
<1>0. pc \in [Runs -> Step]
  BY DEF TypeOK
<1>1. CASE UNCHANGED vars
  BY <1>1 DEF vars, Holds
<1>2. ASSUME NEW r \in Runs, Others(r)
      PROVE  (pc[q] \in Gone => pc'[q] \in Gone) /\ (Holds(q)' => Holds(q)) /\ silent' = silent /\ twice' = twice
  BY <1>0, <1>2 DEF Others, Start, SweepSkip, FinalizeFails, CmdStart, NixExit, Reap, Finish, Kill, Goto, Gone, Holds, Alive
<1>3. ASSUME NEW r \in Runs, FinalizeOpen(r)
      PROVE  (pc[q] \in Gone => pc'[q] \in Gone) /\ (Holds(q)' => Holds(q)) /\ silent \subseteq silent' /\ twice \subseteq twice'
  BY <1>0, <1>3 DEF FinalizeOpen, Goto, Gone, Holds
<1>4. ASSUME NEW r \in Runs, Files(r), ~FinalizeOpen(r)
      PROVE  (pc[q] \in Gone => pc'[q] \in Gone) /\ (Holds(q)' => Holds(q) \/ (Create(r) /\ q = r))
             /\ silent' = silent /\ twice' = twice
  BY <1>0, <1>4 DEF Files, FinalizeWrite, FinalizeRemove, Evict, Create, FailOpen, Abandon, CloseLogs, Age, Goto, Gone, Holds
<1>5. ASSUME NEW r \in Runs, NixWrite(r) \/ Follow(r) \/ Drain(r)
      PROVE  (pc[q] \in Gone => pc'[q] \in Gone) /\ (Holds(q)' => Holds(q)) /\ silent' = silent /\ twice' = twice
  BY <1>0, <1>5 DEF NixWrite, Follow, Drain, Goto, Gone, Holds
<1> QED BY <1>1, <1>2, <1>3, <1>4, <1>5 DEF Next, Sweeps, Observes, Others, Files

\* What a step does to the name of a .raw.
LEMMA RawLinks ==
  ASSUME TypeOK, [Next]_vars, NEW q \in Runs
  PROVE  \/ raw'[q].linked = raw[q].linked
         \/ \E r \in Runs : FinalizeRemove(r) /\ sweep[r].target = q
         \/ Create(q) /\ raw'[q].linked
         \/ (FailOpen(q) \/ Abandon(q)) /\ ~out'[q].linked
         \/ CloseLogs(q) /\ ~tail[q].broken
<1>0. raw \in [Runs -> RawFile] /\ out \in [Runs -> OutFile] /\ sweep \in [Runs -> Listing]
  BY DEF TypeOK, RawFile, OutFile, Listing
<1>1. CASE UNCHANGED vars
  BY <1>1 DEF vars
<1>2. ASSUME NEW r \in Runs, \/ Others(r) \/ Follow(r) \/ Drain(r) \/ FinalizeOpen(r) \/ FinalizeWrite(r) \/ Evict(r)
      PROVE  raw' = raw
  BY <1>2 DEF Others, Start, SweepSkip, FinalizeFails, CmdStart, NixExit, Reap, Finish, Kill, Follow, Drain,
              FinalizeOpen, FinalizeWrite, Evict
<1>3. ASSUME NEW r \in Runs, FinalizeRemove(r), sweep[r].target # q  PROVE raw'[q] = raw[q]
  BY <1>0, <1>3 DEF FinalizeRemove
<1>4. ASSUME NEW r \in Runs, CloseLogs(r)  PROVE raw'[q] = raw[q] \/ (q = r /\ ~tail[q].broken)
  BY <1>0, <1>4 DEF CloseLogs
<1>5. ASSUME NEW r \in Runs, Create(r)  PROVE raw'[q] = raw[q] \/ (q = r /\ raw'[q].linked)
  BY <1>0, <1>5 DEF Create, NoRaw
<1>6. ASSUME NEW r \in Runs, FailOpen(r) \/ Abandon(r)  PROVE raw'[q] = raw[q] \/ (q = r /\ ~out'[q].linked)
  BY <1>0, <1>6 DEF FailOpen, Abandon, NoOut
<1>7. ASSUME NEW r \in Runs, NixWrite(r) \/ Age(r)  PROVE raw'[q].linked = raw[q].linked
  <2>1. q # r => raw'[q] = raw[q]
    BY <1>0, <1>7 DEF NixWrite, Age
  <2>2. q = r => raw'[q].linked = raw[q].linked
    <3>1. ASSUME q = r, NixWrite(r)  PROVE raw'[q].linked = raw[q].linked
      <4>1. PICK k \in Kind : raw' = [raw EXCEPT ![r].lines = Append(@, k), ![r].old = FALSE,
                                                 ![r].owed = IF Alive(r) THEN @ + 1 ELSE @]
        BY <3>1 DEF NixWrite
      <4> QED BY <1>0, <3>1, <4>1 DEF RawFile
    <3>2. ASSUME q = r, Age(r)  PROVE raw'[q].linked = raw[q].linked
      <4>1. raw' = [raw EXCEPT ![r].old = raw[r].linked]
        BY <3>2 DEF Age
      <4> QED BY <1>0, <3>2, <4>1 DEF RawFile
    <3> QED BY <1>7, <3>1, <3>2
  <2> QED BY <2>1, <2>2
<1> QED BY <1>1, <1>2, <1>3, <1>4, <1>5, <1>6, <1>7 DEF Next, Sweeps, Observes, Others

\* What a step does to a .jsonl.
LEMMA OutPlaces ==
  ASSUME TypeOK, [Next]_vars, NEW q \in Runs
  PROVE  \/ out'[q].linked = out[q].linked /\ out[q].places \subseteq out'[q].places
         \/ ~out'[q].linked /\ raw' = raw /\ ~raw[q].linked
         \/ ~out'[q].linked /\ (FailOpen(q) \/ Abandon(q))
         \/ Create(q)
         \/ \E r \in Runs : Opens(r, q)
<1>0. raw \in [Runs -> RawFile] /\ out \in [Runs -> OutFile] /\ sweep \in [Runs -> Listing]
  BY DEF TypeOK, RawFile, OutFile, Listing
<1>1. CASE UNCHANGED vars
  BY <1>1 DEF vars
<1>2. ASSUME NEW r \in Runs, Others(r) \/ FinalizeRemove(r) \/ CloseLogs(r)  PROVE out' = out
  BY <1>2 DEF Others, Start, SweepSkip, FinalizeFails, CmdStart, NixExit, Reap, Finish, Kill, FinalizeRemove, CloseLogs
<1>3. ASSUME NEW r \in Runs, FinalizeOpen(r)  PROVE out'[q] = out[q] \/ Opens(r, q)
  BY <1>3, OpensOne DEF Opens
<1>4. ASSUME NEW r \in Runs, \/ FinalizeWrite(r) \/ Follow(r) \/ Drain(r) \/ NixWrite(r) \/ Age(r)
      PROVE  out'[q].linked = out[q].linked /\ out[q].places \subseteq out'[q].places
  <2>1. \A p \in Runs : sweep[p].target \in Runs
    BY <1>0 DEF Listing
  <2>2. CASE FinalizeWrite(r)
    BY <1>0, <2>1, <2>2 DEF FinalizeWrite, OutFile
  <2>3. CASE Follow(r) \/ Drain(r)
    BY <1>0, <2>3 DEF Follow, Drain, Poll, BadPoll, OutFile
  <2>4. CASE NixWrite(r) \/ Age(r)
    <3>1. \E b : out' = [out EXCEPT ![r].old = b]
      BY <2>4, Zenon DEF NixWrite, Age
    <3> QED BY <1>0, <3>1 DEF OutFile
  <2> QED BY <1>4, <2>2, <2>3, <2>4
<1>5. ASSUME NEW r \in Runs, Evict(r)  PROVE out'[q] = out[q] \/ (~out'[q].linked /\ raw' = raw /\ ~raw[q].linked)
  <2>1. PICK S \in EvictionSets : out' = [p \in Runs |-> IF p \in S THEN NoOut ELSE out[p]]
    BY <1>5 DEF Evict
  <2>2. S \subseteq Evictable
    BY <2>1 DEF EvictionSets
  <2>3. q \in S => ~raw[q].linked /\ ~out'[q].linked
    BY <2>1, <2>2 DEF Evictable, NoOut
  <2> QED BY <1>5, <2>1, <2>3 DEF Evict
<1>6. ASSUME NEW r \in Runs, FailOpen(r) \/ Abandon(r)  PROVE out'[q] = out[q] \/ (q = r /\ ~out'[q].linked)
  BY <1>0, <1>6 DEF FailOpen, Abandon, NoOut
<1>7. ASSUME NEW r \in Runs, Create(r)  PROVE out'[q] = out[q] \/ q = r
  BY <1>0, <1>7 DEF Create
<1> QED BY <1>1, <1>2, <1>3, <1>4, <1>5, <1>6, <1>7 DEF Next, Sweeps, Observes, Others

\* How a run comes to be the target of a sweep.
LEMMA Targets ==
  ASSUME TypeOK, [Next]_vars, NEW q \in Runs, NEW r \in Runs,
         pc'[r] \in {"finalize", "remove"}, sweep'[r].target = q
  PROVE  \/ pc'[r] = pc[r] /\ sweep[r].target = q
         \/ Opens(r, q) /\ pc'[r] = "finalize"
         \/ FinalizeWrite(r) /\ sweep[r].target = q /\ pc[r] = "finalize"
<1>0. pc \in [Runs -> Step] /\ sweep \in [Runs -> Listing]
  BY DEF TypeOK, Listing
<1>1. CASE UNCHANGED vars
  BY <1>1 DEF vars
<1>2. ASSUME NEW s \in Runs, Others(s)  PROVE pc'[r] = pc[r] /\ sweep[r].target = q
  <2>1. pc'[r] = pc[r]
    BY <1>0, <1>2 DEF Others, Start, SweepSkip, FinalizeFails, CmdStart, NixExit, Reap, Finish, Kill, Goto
  <2>2. sweep'[r] = sweep[r]
    BY <1>0, <1>2, <2>1 DEF Others, Start, SweepSkip, FinalizeFails, CmdStart, NixExit, Reap, Finish, Kill, Goto, Alive, Gone
  <2> QED BY <2>1, <2>2
<1>3. ASSUME NEW s \in Runs, FinalizeOpen(s)
      PROVE  (pc'[r] = pc[r] /\ sweep[r].target = q) \/ (Opens(r, q) /\ pc'[r] = "finalize")
  <2>1. PICK p \in Runs : Opens(s, p)
    BY <1>3, OpensOne
  <2>2. r # s => pc'[r] = pc[r] /\ sweep'[r] = sweep[r]
    BY <2>1 DEF Opens
  <2>3. r = s => p = q /\ pc'[r] = "finalize"
    BY <2>1 DEF Opens
  <2> QED BY <2>1, <2>2, <2>3
<1>4. ASSUME NEW s \in Runs, FinalizeWrite(s)
      PROVE  (pc'[r] = pc[r] /\ sweep[r].target = q) \/ (FinalizeWrite(r) /\ sweep[r].target = q /\ pc[r] = "finalize")
  BY <1>0, <1>4 DEF FinalizeWrite, Goto
<1>5. ASSUME NEW s \in Runs, \/ FinalizeRemove(s) \/ Evict(s) \/ Create(s) \/ FailOpen(s) \/ Abandon(s)
                             \/ CloseLogs(s) \/ Age(s) \/ NixWrite(s) \/ Follow(s) \/ Drain(s)
      PROVE  pc'[r] = pc[r] /\ sweep[r].target = q
  <2>1. pc'[r] = pc[r] /\ ~(FinalizeRemove(s) /\ s = r)
    BY <1>0, <1>5 DEF FinalizeRemove, Evict, Create, FailOpen, Abandon, CloseLogs, Age, NixWrite, Follow, Drain, Goto
  <2>2. sweep'[r] = sweep[r]
    BY <1>0, <1>5, <2>1 DEF FinalizeRemove, Evict, Create, FailOpen, Abandon, CloseLogs, Age, NixWrite, Follow, Drain
  <2> QED BY <2>1, <2>2
<1> QED BY <1>1, <1>2, <1>3, <1>4, <1>5 DEF Next, Sweeps, Observes, Others, Files

LEMMA PairsStep == TypeOK /\ Streams /\ Reads /\ Pairs /\ [Next]_vars => Pairs'
<1> SUFFICES ASSUME TypeOK, Streams, Reads, Pairs, [Next]_vars, NEW q \in Runs \ silent'
             PROVE  /\ Holds(q)' => raw'[q].linked /\ out'[q].linked
                    /\ Holds(q)' /\ ~tail'[q].broken => Capped(tail'[q].counted) \subseteq out'[q].places
                    /\ \A r \in Runs : pc'[r] \in {"finalize", "remove"} /\ sweep'[r].target = q => pc'[q] \in Gone
  BY DEF Pairs, Capped
<1>0. /\ pc \in [Runs -> Step] /\ raw \in [Runs -> RawFile] /\ tail \in [Runs -> Tailer] /\ out \in [Runs -> OutFile]
      /\ sweep \in [Runs -> Listing] /\ silent \subseteq silent' /\ q \in Runs \ silent
  BY RunsEnd DEF TypeOK, RawFile, Tailer, OutFile, Listing
<1>p. /\ Holds(q) => raw[q].linked /\ out[q].linked
      /\ Holds(q) /\ ~tail[q].broken => Capped(tail[q].counted) \subseteq out[q].places
      /\ \A r \in Runs : pc[r] \in {"finalize", "remove"} /\ sweep[r].target = q => pc[q] \in Gone
  BY <1>0 DEF Pairs
<1>1. Holds(q)' => Holds(q) \/ Create(q)
  BY RunsEnd
<1>2. CASE Create(q)
  <2>1. /\ raw'[q] = [NoRaw EXCEPT !.linked = TRUE] /\ out'[q] = [NoOut EXCEPT !.linked = TRUE]
        /\ tail' = tail /\ pc[q] = "create" /\ sweep' = sweep /\ \A r \in Runs : r # q => pc'[r] = pc[r]
    BY <1>0, <1>2 DEF Create, Goto
  <2>2. raw'[q].linked /\ out'[q].linked /\ out'[q].places = {}
    BY <2>1 DEF NoRaw, NoOut
  <2>3. tail[q].counted = 0
    BY <2>1, <1>0 DEF Streams, Early, NoTail
  <2>4. Capped(tail'[q].counted) = {}
    BY <2>1, <2>3 DEF Capped
  <2>5. \A r \in Runs : ~(pc'[r] \in {"finalize", "remove"} /\ sweep'[r].target = q)
    <3>1. pc'[q] = "ready" /\ ~(pc[q] \in Gone)
      BY <1>0, <1>2 DEF Create, Goto, Gone
    <3> QED BY <2>1, <3>1, <1>p
  <2> QED BY <2>2, <2>4, <2>5
<1>3. CASE ~Create(q)
  <2>t. \A r \in Runs : pc'[r] \in {"finalize", "remove"} /\ sweep'[r].target = q => pc'[q] \in Gone
    <3> SUFFICES ASSUME NEW r \in Runs, pc'[r] \in {"finalize", "remove"}, sweep'[r].target = q  PROVE pc[q] \in Gone
      BY <1>0, RunsEnd
    <3>1. CASE Opens(r, q)
      <4>1. ~Alive(q) /\ raw[q].linked
        BY <3>1 DEF Opens
      <4> QED BY <4>1, <1>0 DEF Alive, Streams, Early
    <3> QED BY <3>1, <1>0, <1>p, Targets
  <2> SUFFICES ASSUME Holds(q)'
               PROVE  /\ raw'[q].linked /\ out'[q].linked
                      /\ ~tail'[q].broken => Capped(tail'[q].counted) \subseteq out'[q].places
    BY <2>t
  <2>h. Holds(q) /\ Alive(q) /\ raw[q].linked /\ out[q].linked
    BY <1>1, <1>3, <1>p DEF Holds, Alive, Gone
  <2>1. ~FailOpen(q) /\ ~Abandon(q) /\ ~CloseLogs(q)
    BY <1>0 DEF FailOpen, Abandon, CloseLogs, Goto, Holds
  <2>2. raw'[q].linked
    <3>1. ~\E r \in Runs : FinalizeRemove(r) /\ sweep[r].target = q
      BY <2>h, <1>p DEF FinalizeRemove, Alive
    <3> QED BY <3>1, <2>h, <2>1, <1>3, <1>0, RawLinks
  <2>3. out'[q].linked /\ out[q].places \subseteq out'[q].places
    <3>1. ~\E r \in Runs : Opens(r, q)
      BY <2>h DEF Opens
    <3> QED BY <3>1, <2>h, <2>1, <1>3, <1>0, OutPlaces
  <2>4. ASSUME tail'[q] = tail[q]
        PROVE  ~tail'[q].broken => Capped(tail'[q].counted) \subseteq out'[q].places
    BY <2>3, <2>4, <2>h, <1>p
  <2>5. ASSUME Follow(q) \/ Drain(q)
        PROVE  ~tail'[q].broken => Capped(tail'[q].counted) \subseteq out'[q].places
    <3> SUFFICES ASSUME ~tail'[q].broken  PROVE Capped(tail'[q].counted) \subseteq out'[q].places
      OBVIOUS
    <3> DEFINE c == Consumed(q)
    <3>1. c \in Tailer /\ c.counted \in Nat /\ c.counted >= tail[q].counted /\ c.broken = tail[q].broken
      <4>1. tail[q].offset <= RawSize(q) /\ Heard(q)
        BY DEF Streams, Reads
      <4> QED BY <4>1, PollReads DEF Tailer
    <3>2. Poll(q)
      <4>1. ASSUME BadPoll(q)  PROVE FALSE
        <5>1. tail'[q] = [c EXCEPT !.broken = TRUE]
          BY <1>0, <4>1 DEF BadPoll
        <5> HIDE DEF c
        <5>2. tail'[q].broken
          BY <5>1, <3>1 DEF Tailer
        <5> QED BY <5>2
      <4> QED BY <2>5, <4>1 DEF Follow, Drain
    <3>3. tail'[q] = c /\ ~tail[q].broken
      BY <1>0, <3>1, <3>2 DEF Poll
    <3>4. Written(q) \subseteq out'[q].places
      <4>1. Written(q) # {} => out' = [out EXCEPT ![q].places = @ \cup Written(q), ![q].old = FALSE]
        BY <3>2, <3>3, <2>h DEF Poll
      <4> QED BY <4>1, <1>0 DEF OutFile
    <3>5. Capped(c.counted) \subseteq Capped(tail[q].counted) \cup Written(q)
      <4>1. tail[q].counted \in Nat
        BY <1>0 DEF Tailer
      <4> QED BY <4>1, <3>1 DEF Capped, Written
    <3> HIDE DEF c
    <3> QED BY <3>3, <3>4, <3>5, <2>3, <2>h, <1>p
  <2>6. tail'[q] = tail[q] \/ Follow(q) \/ Drain(q)
    <3>1. CASE UNCHANGED vars
      BY <3>1 DEF vars
    <3>2. ASSUME NEW r \in Runs, Files(r) \/ NixWrite(r)  PROVE tail' = tail
      BY <3>2 DEF Files, FinalizeOpen, FinalizeWrite, FinalizeRemove, Evict, Create, FailOpen, Abandon, CloseLogs,
                  Age, NixWrite
    <3>3. ASSUME NEW r \in Runs, Start(r) \/ SweepSkip(r) \/ FinalizeFails(r) \/ CmdStart(r) \/ NixExit(r)
                                 \/ Reap(r) \/ Finish(r)
          PROVE  tail' = tail
      BY <3>3 DEF Start, SweepSkip, FinalizeFails, CmdStart, NixExit, Reap, Finish
    <3>4. ASSUME NEW r \in Runs, Kill(r)  PROVE tail'[q] = tail[q]
      BY <1>0, <3>4 DEF Kill, Goto, Holds
    <3>5. ASSUME NEW r \in Runs, Follow(r) \/ Drain(r), r # q  PROVE tail'[q] = tail[q]
      BY <1>0, <3>5 DEF Follow, Drain, Poll, BadPoll
    <3> QED BY <3>1, <3>2, <3>3, <3>4, <3>5 DEF Next, Sweeps, Observes, Files
  <2> QED BY <2>2, <2>3, <2>4, <2>5, <2>6
<1> QED BY <1>2, <1>3

LEMMA SavedStep == TypeOK /\ Streams /\ Reads /\ Pairs /\ Saved /\ [Next]_vars => Saved'
<1> SUFFICES ASSUME TypeOK, Streams, Reads, Pairs, Saved, [Next]_vars, NEW q \in Runs \ (silent' \cup twice')
             PROVE  /\ out'[q].linked /\ ~raw'[q].linked => Owed(q)' \subseteq out'[q].places
                    /\ \A r \in Runs : pc'[r] = "remove" /\ sweep'[r].target = q /\ out'[q].linked
                                       => Owed(q)' \subseteq out'[q].places
  BY DEF Saved
<1>0. /\ pc \in [Runs -> Step] /\ raw \in [Runs -> RawFile] /\ tail \in [Runs -> Tailer] /\ out \in [Runs -> OutFile]
      /\ sweep \in [Runs -> Listing] /\ q \in Runs \ (silent \cup twice) /\ q \in Runs \ silent
  BY RunsEnd DEF TypeOK, RawFile, Tailer, OutFile, Listing
<1>f. /\ raw[q].lines \in Seq(Kind) /\ raw[q].owed \in Nat /\ raw[q].owed <= Len(raw[q].lines)
      /\ raw[q].linked \in BOOLEAN
  BY <1>0 DEF RawFile, Streams, RawSize
<1>s. /\ out[q].linked /\ ~raw[q].linked => Owed(q) \subseteq out[q].places
      /\ \A r \in Runs : pc[r] = "remove" /\ sweep[r].target = q /\ out[q].linked => Owed(q) \subseteq out[q].places
  BY <1>0 DEF Saved
<1>p. /\ Holds(q) => raw[q].linked /\ out[q].linked
      /\ Holds(q) /\ ~tail[q].broken => Capped(tail[q].counted) \subseteq out[q].places
      /\ \A r \in Runs : pc[r] \in {"finalize", "remove"} /\ sweep[r].target = q => pc[q] \in Gone
  BY <1>0 DEF Pairs
<1>g. Owed(q) \subseteq Filtered(raw[q].lines)
  BY <1>f, FilteredGrows DEF Owed
\* What is owed grows only while the run has its pair.
<1>1. Owed(q)' = Owed(q) \/ (Holds(q) /\ Holds(q)' /\ raw'[q].linked)
  <2>1. CASE raw'[q].lines = raw[q].lines /\ raw'[q].owed = raw[q].owed
    BY <2>1 DEF Owed, Filtered, Kept, RetainDrop
  <2>2. ASSUME NixWrite(q), NEW k \in Kind, raw'[q].lines = Append(raw[q].lines, k), raw'[q].linked = raw[q].linked,
               raw'[q].owed = IF Alive(q) THEN raw[q].owed + 1 ELSE raw[q].owed, pc[q] \in {"running", "killed"}
        PROVE  Owed(q)' = Owed(q) \/ (Holds(q) /\ Holds(q)' /\ raw'[q].linked)
    <3>1. CASE Alive(q)
      <4>1. Holds(q) /\ pc' = pc
        BY <2>2, <3>1 DEF Alive, Gone, Holds, NixWrite
      <4> QED BY <4>1, <2>2, <1>p DEF Holds
    <3>2. CASE ~Alive(q)
      <4>1. SubSeq(raw'[q].lines, 1, raw'[q].owed) = SubSeq(raw[q].lines, 1, raw[q].owed)
        BY <2>2, <3>2, <1>f, FilteredGrows
      <4> QED BY <4>1 DEF Owed, Filtered, Kept, RetainDrop
    <3> QED BY <3>1, <3>2
  <2> QED BY <2>1, <2>2, <1>0, LinesGrow
\* While it has its pair, nobody is about to take it.
<1>2. ASSUME Holds(q), Holds(q)', raw'[q].linked
      PROVE  /\ out'[q].linked /\ ~raw'[q].linked => Owed(q)' \subseteq out'[q].places
             /\ \A r \in Runs : pc'[r] = "remove" /\ sweep'[r].target = q /\ out'[q].linked
                                => Owed(q)' \subseteq out'[q].places
  <2>1. Pairs'
    BY PairsStep
  <2>2. \A r \in Runs : ~(pc'[r] = "remove" /\ sweep'[r].target = q)
    BY <2>1, <1>2 DEF Pairs, Holds, Gone
  <2> QED BY <1>2, <2>2
<1>3. ASSUME Owed(q)' = Owed(q)
      PROVE  /\ out'[q].linked /\ ~raw'[q].linked => Owed(q) \subseteq out'[q].places
             /\ \A r \in Runs : pc'[r] = "remove" /\ sweep'[r].target = q /\ out'[q].linked
                                => Owed(q) \subseteq out'[q].places
  <2>1. CASE Create(q)
    <3>1. raw'[q].linked /\ sweep' = sweep /\ pc'[q] = "ready" /\ pc[q] = "create"
          /\ \A r \in Runs : r # q => pc'[r] = pc[r]
      BY <1>0, <2>1 DEF Create, Goto, NoRaw
    <3>2. \A r \in Runs : ~(pc'[r] = "remove" /\ sweep'[r].target = q)
      BY <3>1, <1>p DEF Gone
    <3> QED BY <3>1, <3>2
  <2>2. ASSUME NEW s \in Runs, Opens(s, q)
        PROVE  /\ raw'[q].linked
               /\ \A r \in Runs : ~(pc'[r] = "remove" /\ sweep'[r].target = q)
    <3>1. \A r \in Runs : ~(pc[r] = "remove" /\ sweep[r].target = q)
      BY <2>2 DEF Opens
    <3> QED BY <2>2, <3>1 DEF Opens
  <2>3. CASE ~out'[q].linked
    BY <2>3
  <2>4. ASSUME out'[q].linked, out'[q].linked = out[q].linked, out[q].places \subseteq out'[q].places, ~Create(q),
               ~\E r \in Runs : Opens(r, q)
        PROVE  /\ ~raw'[q].linked => Owed(q) \subseteq out'[q].places
               /\ \A r \in Runs : pc'[r] = "remove" /\ sweep'[r].target = q => Owed(q) \subseteq out'[q].places
    <3>1. ASSUME ~raw'[q].linked  PROVE Owed(q) \subseteq out[q].places
      <4>1. CASE raw'[q].linked = raw[q].linked
        BY <4>1, <3>1, <2>4, <1>s
      <4>2. ASSUME NEW r \in Runs, FinalizeRemove(r), sweep[r].target = q  PROVE Owed(q) \subseteq out[q].places
        BY <4>2, <2>4, <1>s DEF FinalizeRemove
      <4>3. ASSUME CloseLogs(q), ~tail[q].broken  PROVE Owed(q) \subseteq out[q].places
        <5>1. pc[q] = "close"
          BY <4>3 DEF CloseLogs
        <5>2. Capped(tail[q].counted) \subseteq out[q].places
          BY <5>1, <4>3, <1>p DEF Holds
        <5>3. tail[q].offset = RawSize(q) /\ tail[q].counted \in Nat
          BY <5>1, <1>0 DEF Streams, Tailer
        <5>4. Kept(raw[q].lines) \subseteq 1 .. Len(raw[q].lines) /\ Cardinality(Kept(raw[q].lines)) \in Nat
          BY <1>f, KeptFinite
        <5>5. KeptUpTo(q, tail[q].offset) = Kept(raw[q].lines)
          BY <5>3, <5>4, <1>f DEF KeptUpTo, RawSize
        <5>6. tail[q].counted >= ParseCap \/ tail[q].counted >= Cardinality(Kept(raw[q].lines))
          BY <5>5, <1>0 DEF Reads, Heard
        <5>7. Filtered(raw[q].lines) \subseteq Capped(tail[q].counted)
          <6> DEFINE n == Cardinality(Kept(raw[q].lines))  m == tail[q].counted
          <6>1. n \in Nat /\ m \in Nat /\ (m >= ParseCap \/ m >= n) /\ ParseCap \in Nat /\ RetainedCap \in Nat
                /\ RetainedCap <= ParseCap
            BY <5>3, <5>4, <5>6, LogAssumption
          <6>2. Filtered(raw[q].lines) = {i \in 1 .. n : i <= RetainedCap}
            BY DEF Filtered
          <6>3. Capped(m) = {i \in 1 .. m : i <= RetainedCap}
            BY DEF Capped
          <6> HIDE DEF n, m
          <6>4. {i \in 1 .. n : i <= RetainedCap} \subseteq {i \in 1 .. m : i <= RetainedCap}
            BY <6>1
          <6> QED BY <6>2, <6>3, <6>4 DEF m
        <5> QED BY <5>2, <5>7, <1>g
      <4>4. ~((FailOpen(q) \/ Abandon(q)) /\ ~out'[q].linked) /\ ~(Create(q) /\ raw'[q].linked)
        BY <2>4
      <4> QED BY <4>1, <4>2, <4>3, <4>4, <1>0, RawLinks
    <3>2. ASSUME NEW r \in Runs, pc'[r] = "remove", sweep'[r].target = q  PROVE Owed(q) \subseteq out'[q].places
      <4>1. CASE pc'[r] = pc[r] /\ sweep[r].target = q
        BY <4>1, <3>2, <2>4, <1>s
      <4>2. ASSUME FinalizeWrite(r), sweep[r].target = q  PROVE Owed(q) \subseteq out'[q].places
        <5>1. out' = [out EXCEPT ![q].places = @ \cup Filtered(raw[q].lines), ![q].old = raw[q].old]
          BY <4>2, <2>4 DEF FinalizeWrite
        <5>2. Filtered(raw[q].lines) \subseteq out'[q].places
          BY <5>1, <1>0 DEF OutFile
        <5> QED BY <5>2, <1>g
      <4>3. pc'[r] # "finalize"
        BY <3>2
      <4> QED BY <4>1, <4>2, <4>3, <3>2, <1>0, Targets
    <3> QED BY <3>1, <3>2, <2>4
  <2>5. ASSUME ~Create(q), ~\E r \in Runs : Opens(r, q)
        PROVE  ~out'[q].linked \/ (out'[q].linked = out[q].linked /\ out[q].places \subseteq out'[q].places)
    BY <2>5, <1>0, OutPlaces
  <2> QED BY <2>1, <2>2, <2>3, <2>4, <2>5
<1> QED BY <1>1, <1>2, <1>3

LEMMA LogStep == LogInv /\ [Next]_vars => LogInv'
  BY TypeStep, StreamsStep, ReadsStep, PairsStep, SavedStep, WarnStep DEF LogInv

THEOREM LogIsInductive == Spec => []LogInv
<1>1. Init => LogInv
  BY LogInitInv
<1>2. LogInv /\ [Next]_vars => LogInv'
  BY LogStep
<1> QED BY <1>1, <1>2, PTL DEF Spec

\* The evidence of a run is never deleted unfiltered, whoever completes its log.
THEOREM EvidenceIsKept == Spec => []EvidenceKept
<1>1. LogInv => EvidenceKept
  BY DEF LogInv, Saved, Owed, EvidenceKept
<1> QED BY <1>1, LogIsInductive, PTL

\* A guarded run whose nix warned of an unmatched override does not exit 0.
THEOREM WarningsAreHeard == Spec => []WarningNeverExitsZero
<1>1. LogInv => WarningNeverExitsZero
  BY DEF LogInv
<1> QED BY <1>1, LogIsInductive, PTL

\* No step of any wrapper's sweep takes the log of a run that is alive.
THEOREM LiveLogsAreLeftAlone == Spec => LiveLogIsLeftAlone
<1> DEFINE A == \A q \in Runs \ silent :
                  Holds(q) /\ Holds(q)' /\ ~raw[q].old => out'[q].linked /\ out[q].places \subseteq out'[q].places
<1>1. LogInv /\ [Next]_vars => A
  <2> SUFFICES ASSUME LogInv, [Next]_vars, NEW q \in Runs \ silent, Holds(q), Holds(q)', ~raw[q].old
               PROVE  out'[q].linked /\ out[q].places \subseteq out'[q].places
    OBVIOUS
  <2>0. pc \in [Runs -> Step] /\ q \in Runs /\ TypeOK
    BY DEF LogInv, TypeOK
  <2>1. raw[q].linked /\ out[q].linked
    BY DEF LogInv, Pairs
  <2>2. ~FailOpen(q) /\ ~Abandon(q) /\ ~Create(q)
    BY <2>0 DEF FailOpen, Abandon, Create, Goto, Holds
  <2>3. ~\E r \in Runs : Opens(r, q)
    BY DEF Opens, Holds, Alive, Gone
  <2> QED BY <2>0, <2>1, <2>2, <2>3, OutPlaces
<1>2. LogInv /\ [Next]_vars => [A]_vars
  BY <1>1
<1> QED BY <1>2, LogIsInductive, PTL DEF Spec, LiveLogIsLeftAlone
-----------------------------------------------------------------------------
(* The hooks that fire.                                                    *)

\* The recursion inside FlattenSeq has a solution.
LEMMA FlattenDefined ==
  ASSUME NEW S, NEW ss \in Seq(Seq(S))
  PROVE  \E f : f = [i \in 1 .. Len(ss) |-> IF i = 1 THEN ss[i] ELSE f[i - 1] \o ss[i]]
<1> DEFINE Solves(f, m) == f = [i \in 1 .. m |-> IF i = 1 THEN ss[i] ELSE f[i - 1] \o ss[i]]
           Hard == {m \in Nat : m <= Len(ss) /\ ~\E f : Solves(f, m)}
<1>0. Len(ss) \in Nat
  OBVIOUS
<1>1. CASE Hard = {}
  <2>1. ~(Len(ss) \in Hard)
    BY <1>1
  <2>2. \E f : Solves(f, Len(ss))
    <3> HIDE DEF Solves
    <3> QED BY <1>0, <2>1
  <2> QED BY <2>2
<1>2. ASSUME Hard # {}  PROVE FALSE
  <2>1. PICK m \in Hard : \A j \in Hard : m <= j
    <3>1. Hard \in SUBSET Nat
      OBVIOUS
    <3> HIDE DEF Hard
    <3> QED BY <1>2, <3>1, LeastOf
  <2>2. m \in Nat /\ m <= Len(ss)
    OBVIOUS
  <2>3. m # 0
    <3> DEFINE e == [i \in 1 .. 0 |-> ss[i]]
    <3>1. Solves(e, 0)
      OBVIOUS
    <3> QED BY <3>1
  <2>4. ~(m - 1 \in Hard) /\ m - 1 \in Nat /\ m - 1 <= Len(ss)
    <3> HIDE DEF Hard
    <3> QED BY <2>1, <2>2, <2>3, <1>0
  <2>5. PICK f : Solves(f, m - 1)
    <3> HIDE DEF Solves
    <3> QED BY <2>4
  <2> DEFINE g == [i \in 1 .. m |-> IF i = 1 THEN ss[i] ELSE f[i - 1] \o ss[i]]
  <2>6. \A i \in 1 .. m - 1 : g[i] = f[i]
    <3>1. \A i \in 1 .. m - 1 : i \in 1 .. m /\ f[i] = IF i = 1 THEN ss[i] ELSE f[i - 1] \o ss[i]
      <4>1. \A i \in 1 .. m - 1 : i \in 1 .. m
        BY <2>2, <2>3
      <4>2. \A i \in 1 .. m - 1 : f[i] = IF i = 1 THEN ss[i] ELSE f[i - 1] \o ss[i]
        BY <2>5, Zenon
      <4> QED BY <4>1, <4>2
    <3> QED BY <3>1
  <2>7. Solves(g, m)
    <3>1. \A i \in 1 .. m : i # 1 => g[i - 1] = f[i - 1]
      <4>1. \A i \in 1 .. m : i # 1 => i - 1 \in 1 .. m - 1
        BY <2>2, <2>3
      <4> HIDE DEF g
      <4> QED BY <4>1, <2>6
    <3> QED BY <3>1
  <2>8. \E h : Solves(h, m)
    BY <2>7
  <2> QED BY <2>8
<1> QED BY <1>1, <1>2

LEMMA FlattenSeqs ==
  ASSUME NEW S, NEW ss \in Seq(Seq(S))
  PROVE  FlattenSeq(ss) \in Seq(S)
<1> DEFINE n == Len(ss)
           Solves(f) == f = [i \in 1 .. n |-> IF i = 1 THEN ss[i] ELSE f[i - 1] \o ss[i]]
           f == CHOOSE f : Solves(f)
<1>0. n \in Nat /\ \A i \in 1 .. n : ss[i] \in Seq(S)
  OBVIOUS
<1>1. Solves(f)
  BY FlattenDefined
<1>2. FlattenSeq(ss) = IF n = 0 THEN ss ELSE f[n]
  BY DEF FlattenSeq
<1> HIDE DEF f
<1>3. \A i \in 1 .. n : f[i] = IF i = 1 THEN ss[i] ELSE f[i - 1] \o ss[i]
  BY <1>1
<1>4. ASSUME NEW m \in 1 .. n, f[m] \notin Seq(S)  PROVE FALSE
  <2> DEFINE Bad == {k \in Nat : k \in 1 .. n /\ f[k] \notin Seq(S)}
  <2>1. Bad # {} /\ Bad \in SUBSET Nat
    <3>1. m \in Nat
      BY <1>0
    <3>2. m \in Bad
      BY <3>1, <1>4, Zenon
    <3>3. Bad \subseteq Nat
      BY Zenon
    <3> QED BY <3>2, <3>3, Zenon
  <2>2. PICK k \in Bad : \A j \in Bad : k <= j
    <3> HIDE DEF Bad
    <3> QED BY <2>1, LeastOf
  <2>3. k \in 1 .. n /\ f[k] \notin Seq(S) /\ k \in Nat
    BY <2>2
  <2>4. k # 1
    BY <1>0, <1>3, <2>3
  <2>5. f[k - 1] \in Seq(S)
    BY <2>2, <2>3, <2>4, <1>0
  <2>6. f[k] = f[k - 1] \o ss[k] /\ ss[k] \in Seq(S)
    BY <1>0, <1>3, <2>3, <2>4
  <2>7. f[k] \in Seq(S)
    BY <2>5, <2>6
  <2> QED BY <2>3, <2>7
<1>5. CASE n = 0
  BY <1>2, <1>5
<1>6. CASE n # 0
  BY <1>0, <1>2, <1>4, <1>6
<1> QED BY <1>5, <1>6

Scopes == {"root", "lib", "top"}
HookEntries == Scopes \X {"check", "install", "other", "two", "malformed"}

LEMMA RowTypes ==
  ASSUME NEW hooks \in Seq(HookRows), NEW i \in DOMAIN hooks
  PROVE  /\ hooks[i] \in HookRows /\ hooks[i].scope \in Scopes
         /\ hooks[i].run \in Seq({"check", "install", "other", "two", "malformed"})
<1>1. hooks[i] \in HookRows
  OBVIOUS
<1> DEFINE W == SUBSET ({"pre", "post"} \X (HookableCommands \cup {"allow"}))
           R == Seq({"check", "install", "other", "two", "malformed"})
<1>2. HookRows = [scope : Scopes, when : W, run : R]
  BY DEF HookRows, Scopes
<1> HIDE DEF W, R
<1> QED BY <1>1, <1>2 DEF R

LEMMA EntriesFrom ==
  ASSUME NEW hooks \in Seq(HookRows), NEW scope \in Scopes, NEW ev
  PROVE  EntriesFor(hooks, scope, ev) \in Seq(Named(hooks, ev))
<1> DEFINE E == Named(hooks, ev)
           row(i) == IF hooks[i].scope = scope /\ ev \in hooks[i].when
                     THEN [j \in DOMAIN hooks[i].run |-> <<scope, hooks[i].run[j]>>] ELSE <<>>
           rows == [i \in DOMAIN hooks |-> row(i)]
<1>1. ASSUME NEW i \in DOMAIN hooks  PROVE row(i) \in Seq(E)
  <2>1. CASE hooks[i].scope = scope /\ ev \in hooks[i].when
    <3>1. hooks[i].run \in Seq({"check", "install", "other", "two", "malformed"})
      BY RowTypes
    <3>2. \A j \in DOMAIN hooks[i].run : <<scope, hooks[i].run[j]>> \in E
      <4>1. hooks[i] \in {h \in ToSet(hooks) : ev \in h.when}
        BY <2>1 DEF ToSet
      <4> QED BY <2>1, <4>1 DEF Named
    <3> HIDE DEF E
    <3>3. [j \in DOMAIN hooks[i].run |-> <<scope, hooks[i].run[j]>>] \in Seq(E)
      <4>1. DOMAIN hooks[i].run = 1 .. Len(hooks[i].run) /\ Len(hooks[i].run) \in Nat
        BY <3>1
      <4> DEFINE entry(j) == <<scope, hooks[i].run[j]>>
      <4>2. \A j \in 1 .. Len(hooks[i].run) : entry(j) \in E
        BY <3>2, <4>1
      <4>3. [j \in 1 .. Len(hooks[i].run) |-> entry(j)] \in Seq(E)
        <5> HIDE DEF entry
        <5> QED BY <4>1, <4>2
      <4> QED BY <4>1, <4>3
    <3> QED BY <2>1, <3>3
  <2>2. CASE ~(hooks[i].scope = scope /\ ev \in hooks[i].when)
    <3> HIDE DEF E
    <3>1. row(i) = <<>>
      BY <2>2
    <3> QED BY <3>1
  <2> QED BY <2>1, <2>2
<1>2. DOMAIN hooks = 1 .. Len(hooks) /\ Len(hooks) \in Nat
  OBVIOUS
<1> HIDE DEF row, E
<1>3. [i \in 1 .. Len(hooks) |-> row(i)] \in Seq(Seq(E))
  BY <1>1, <1>2
<1>4. rows \in Seq(Seq(E))
  BY <1>2, <1>3
<1>5. FlattenSeq(rows) \in Seq(E)
  <2> HIDE DEF rows
  <2> QED BY <1>4, FlattenSeqs
<1> QED BY <1>5 DEF EntriesFor, row, E

\* Nothing fires that no hook names for the event.
LEMMA FiredFrom ==
  ASSUME NEW hooks \in Seq(HookRows), NEW processed \in Seq(Scopes), NEW ev
  PROVE  Fired(hooks, ev, processed) \in Seq(Named(hooks, ev))
<1> DEFINE E == Named(hooks, ev)
           rows == [i \in DOMAIN processed |-> EntriesFor(hooks, processed[i], ev)]
<1>1. DOMAIN processed = 1 .. Len(processed) /\ Len(processed) \in Nat /\ \A i \in DOMAIN processed : processed[i] \in Scopes
  OBVIOUS
<1>2. \A i \in DOMAIN processed : EntriesFor(hooks, processed[i], ev) \in Seq(E)
  BY <1>1, EntriesFrom
<1>3. [i \in 1 .. Len(processed) |-> EntriesFor(hooks, processed[i], ev)] \in Seq(Seq(E))
  <2> HIDE DEF E
  <2> QED BY <1>1, <1>2
<1>4. rows \in Seq(Seq(E))
  BY <1>1, <1>3
<1>5. FlattenSeq(rows) \in Seq(E)
  <2> HIDE DEF rows
  <2> QED BY <1>4, FlattenSeqs
<1>6. EntriesFor(hooks, "root", ev) \in Seq(E)
  BY EntriesFrom DEF Scopes
<1> HIDE DEF E
<1>7. EntriesFor(hooks, "root", ev) \o FlattenSeq(rows) \in Seq(E)
  BY <1>5, <1>6
<1> QED BY <1>7 DEF Fired, E

\* A hook more names no less, and none names what it has no event for.
LEMMA NamedFacts ==
  ASSUME NEW hooks \in Seq(HookRows), NEW hook \in HookRows, NEW ev
  PROVE  /\ Named(hooks, ev) \subseteq HookEntries
         /\ Named(hooks, ev) \subseteq Named(Append(hooks, hook), ev)
         /\ ev[2] = "none" => Named(hooks, ev) = {}
<1>1. ToSet(hooks) \subseteq HookRows /\ ToSet(hooks) \subseteq ToSet(Append(hooks, hook))
  <2>1. \A i \in DOMAIN hooks : i \in DOMAIN Append(hooks, hook) /\ Append(hooks, hook)[i] = hooks[i]
    OBVIOUS
  <2> QED BY <2>1 DEF ToSet
<1>2. ASSUME NEW h \in HookRows, NEW i \in DOMAIN h.run  PROVE <<h.scope, h.run[i]>> \in HookEntries
  <2>1. h.scope \in Scopes /\ h.run[i] \in {"check", "install", "other", "two", "malformed"}
    <3>1. <<h>> \in Seq(HookRows) /\ 1 \in DOMAIN <<h>> /\ <<h>>[1] = h
      OBVIOUS
    <3>2. h.scope \in Scopes /\ h.run \in Seq({"check", "install", "other", "two", "malformed"})
      BY <3>1, RowTypes
    <3> QED BY <3>2
  <2> QED BY <2>1 DEF HookEntries
<1>3. ASSUME NEW h \in HookRows, ev[2] = "none"  PROVE ev \notin h.when
  <2>1. h.when \subseteq {"pre", "post"} \X (HookableCommands \cup {"allow"})
    BY DEF HookRows
  <2>2. "none" \notin HookableCommands \cup {"allow"}
    BY DEF HookableCommands
  <2> QED BY <2>1, <2>2, <1>3
<1> DEFINE Fitting(hs) == {h \in ToSet(hs) : ev \in h.when}
           Entries(h) == {<<h.scope, h.run[i]>> : i \in DOMAIN h.run}
<1>4. \A hs : Named(hs, ev) = UNION {Entries(h) : h \in Fitting(hs)}
  BY DEF Named
<1>5. Fitting(hooks) \subseteq Fitting(Append(hooks, hook)) /\ Fitting(hooks) \subseteq HookRows
  BY <1>1
<1>6. \A h \in HookRows : Entries(h) \subseteq HookEntries
  BY <1>2
<1>7. ev[2] = "none" => Fitting(hooks) = {}
  BY <1>1, <1>3
<1> HIDE DEF Fitting, Entries
<1> QED BY <1>4, <1>5, <1>6, <1>7

LEMMA SeqWidens ==
  ASSUME NEW S, NEW T, S \subseteq T, NEW s \in Seq(S)
  PROVE  s \in Seq(T)
<1>1. Len(s) \in Nat /\ s = [i \in 1 .. Len(s) |-> s[i]] /\ \A i \in 1 .. Len(s) : s[i] \in T
  OBVIOUS
<1>2. [i \in 1 .. Len(s) |-> s[i]] \in Seq(T)
  BY <1>1
<1> QED BY <1>1, <1>2, Zenon

LEMMA EmptySeq == ASSUME NEW S PROVE << >> \in Seq(S)
  OBVIOUS

LEMMA DeclaredFacts ==
  /\ Len(Declared) \in Nat /\ DOMAIN Declared = 1 .. Len(Declared)
  /\ \A v \in 1 .. Len(Declared) : Declared[v] \in Seq(HookRows)
  BY HooksAssumption

\* What fires is what the configuration that was loaded names for the event; there
\* is none for an event of no verb.
LEMMA FiredNowFacts ==
  ASSUME verb.conf \in 0 .. Len(Declared)
  PROVE  /\ Loaded \in Seq(HookRows)
         /\ \A phase : FiredNow(phase) \in Seq(Named(Loaded, <<phase, Row.event>>))
         /\ \A phase : FiredNow(phase) \in Seq(HookEntries)
         /\ Row.event = "none" => \A phase : FiredNow(phase) = <<>>
<1>1. Loaded \in Seq(HookRows)
  BY DeclaredFacts, EmptySeq DEF Loaded
<1>2. ProcessedReposFor(Row.event, Order, "top") \in Seq(Scopes)
  <2>1. /\ Order \in Seq(Scopes) /\ <<"top">> \in Seq(Scopes) /\ << >> \in Seq(Scopes)
    BY DEF Order, Scopes
  <2> QED BY <2>1 DEF ProcessedReposFor
<1>3. ASSUME NEW phase  PROVE FiredNow(phase) \in Seq(Named(Loaded, <<phase, Row.event>>))
  BY <1>1, <1>2, FiredFrom DEF FiredNow
<1>4. ProposedHook("top") \in HookRows
  BY DEF ProposedHook, HookRows, HookableCommands
<1>5. ASSUME NEW phase, Row.event = "none"  PROVE FiredNow(phase) = <<>>
  <2>1. Named(Loaded, <<phase, Row.event>>) = {}
    BY <1>1, <1>4, <1>5, NamedFacts
  <2>2. FiredNow(phase) \in Seq({})
    BY <1>3, <2>1
  <2> QED BY <2>2
<1>6. ASSUME NEW phase  PROVE FiredNow(phase) \in Seq(HookEntries)
  <2>1. Named(Loaded, <<phase, Row.event>>) \subseteq HookEntries
    BY <1>1, <1>4, NamedFacts
  <2> QED BY <1>3, <2>1, SeqWidens
<1> QED BY <1>1, <1>3, <1>5, <1>6

-----------------------------------------------------------------------------
(* The files: their types, and what a bundle's source.json tells of it.    *)

Libs == [head : {0, 1, 2}, work : {0, 1, 2}]
Froms == [index : {0, 1, 2}, lib : Libs]
OverridePins == [head : {0, 1, 2}, dirty : BOOLEAN]
Disks == [place : {1, 2}, path : Paths, stub : Stubs, index : [Checkouts -> {1, 2}],
          lib : [head : {1, 2}, work : {0, 1, 2}]]
BundleDirs == [pointer : {"none", "gen", "invalid"}, body : {"gone", "plain", "live"}, source : {"none", "ok"},
               stamp : {0, 1, 2}, pins : SUBSET OverridePins, place : {0, 1, 2}, from : Froms, torn : BOOLEAN]

FileTypes == disk \in Disks /\ bundles \in [{"shared", "private"} -> BundleDirs]

PinOf(lib) == [head |-> lib.head, dirty |-> lib.work # 0]
Tells(d, b) == b.source = "ok" /\ ~b.torn =>
  b.stamp = b.from.index /\ (d = "private" => b.pins = {PinOf(b.from.lib)})
SourcesTell == \A d \in {"shared", "private"} : Tells(d, bundles[d])

FilesInv == FileTypes /\ SourcesTell

LEMMA FilesInitInv == FilesInit => FilesInv
  BY DEF FilesInit, FilesInv, FileTypes, SourcesTell, Tells, NoBundle, Disks, BundleDirs, Froms, Libs, Paths, Stubs,
         Checkouts

\* The bundle that the installer leaves.
Made(c, built) ==
  [pointer |-> "gen", body |-> "live", source |-> "ok", stamp |-> disk.index[c],
   pins |-> Pins(c), place |-> disk.place, from |-> built, torn |-> built # Built(c)]

LEMMA InstallFacts ==
  ASSUME FilesInv, NEW c \in Checkouts, NEW built \in Froms, Swap(c, built), disk' \in {disk, SyncStubs(c)}
  PROVE  /\ FilesInv'
         /\ bundles'[Own(c)] = Made(c, built) /\ Made(c, built) \in BundleDirs
         /\ disk' \in {disk, [disk EXCEPT !.stub = "ours"]}
<1>1. disk.index[c] \in {1, 2} /\ disk.place \in {1, 2} /\ disk.lib \in [head : {1, 2}, work : {0, 1, 2}]
      /\ disk.index[c] \in {0, 1, 2} /\ disk.place \in {0, 1, 2}
  BY DEF FilesInv, FileTypes, Disks
<1>2. Pins(c) \in SUBSET OverridePins
  <2>1. (disk.lib.work # 0) \in BOOLEAN /\ disk.lib.head \in {0, 1, 2}
    BY <1>1
  <2>2. OverrideNow \in OverridePins
    BY <2>1 DEF OverrideNow, OverridePins
  <2> QED BY <2>2 DEF Pins
<1>3. (built # Built(c)) \in BOOLEAN
  OBVIOUS
<1>4. Made(c, built) \in BundleDirs
  BY <1>1, <1>2, <1>3 DEF Made, BundleDirs
<1>5. Own(c) \in {"shared", "private"} /\ (Own(c) = "private" => Linked(c))
  BY DEF Own
<1>6. bundles' = [bundles EXCEPT ![Own(c)] = Made(c, built)]
  BY DEF Swap, Made
<1>7. bundles' \in [{"shared", "private"} -> BundleDirs] /\ bundles'[Own(c)] = Made(c, built)
  BY <1>4, <1>5, <1>6 DEF FilesInv, FileTypes
<1>8. disk' \in {disk, [disk EXCEPT !.stub = "ours"]}
  BY DEF SyncStubs
<1>9. disk' \in Disks
  BY <1>8 DEF FilesInv, FileTypes, Disks, Stubs
<1>10. Tells(Own(c), Made(c, built))
  <2> SUFFICES ASSUME built = Built(c)
               PROVE  disk.index[c] = built.index /\ (Own(c) = "private" => Pins(c) = {PinOf(built.lib)})
    BY DEF Tells, Made
  <2> QED BY <1>5 DEF Built, Pins, OverrideNow, PinOf
<1>11. SourcesTell'
  <2> SUFFICES ASSUME NEW d \in {"shared", "private"}  PROVE Tells(d, bundles'[d])
    BY DEF SourcesTell, Tells
  <2>1. d # Own(c) => bundles'[d] = bundles[d]
    BY <1>6 DEF FilesInv, FileTypes
  <2> QED BY <2>1, <1>7, <1>10 DEF FilesInv, SourcesTell
<1> QED BY <1>4, <1>7, <1>8, <1>9, <1>11 DEF FilesInv, FileTypes

LEMMA FilesStep == FilesInv /\ FilesChange => FilesInv'
<1> SUFFICES ASSUME FilesInv, FilesChange PROVE FilesInv'
  OBVIOUS
<1>0. disk \in Disks /\ bundles \in [{"shared", "private"} -> BundleDirs] /\ SourcesTell
  BY DEF FilesInv, FileTypes
<1>1. ASSUME bundles' = bundles, disk' \in Disks  PROVE FilesInv'
  BY <1>0, <1>1 DEF FilesInv, FileTypes, SourcesTell, Tells
<1>2. CASE EditLib
  <2>1. disk.lib \in [head : {1, 2}, work : {0, 1, 2}]
    BY <1>0 DEF Disks
  <2>2. disk' = [disk EXCEPT !.lib.work = IF disk.lib.work = 2 THEN 1 ELSE disk.lib.work + 1]
    BY <1>2 DEF EditLib
  <2> DEFINE l == [disk.lib EXCEPT !.work = IF disk.lib.work = 2 THEN 1 ELSE disk.lib.work + 1]
  <2>3. l \in [head : {1, 2}, work : {0, 1, 2}]
    BY <2>1
  <2>4. disk' = [disk EXCEPT !.lib = l]
    BY <2>2, <1>0 DEF Disks
  <2> HIDE DEF l
  <2>5. disk' \in Disks
    BY <1>0, <2>3, <2>4 DEF Disks
  <2> QED BY <1>1, <1>2, <2>5 DEF EditLib
<1>3. CASE CommitLib
  <2>1. [head |-> 3 - disk.lib.head, work |-> 0] \in [head : {1, 2}, work : {0, 1, 2}]
    BY <1>0 DEF Disks
  <2>2. disk' \in Disks
    BY <1>0, <1>3, <2>1 DEF CommitLib, Disks
  <2> QED BY <1>1, <1>3, <2>2 DEF CommitLib
<1>4. CASE MoveClone
  <2>1. disk' \in Disks
    BY <1>0, <1>4 DEF MoveClone, Disks
  <2> QED BY <1>1, <1>4, <2>1 DEF MoveClone
<1>5. CASE SetHooksPath
  <2>1. disk' \in Disks
    BY <1>0, <1>5 DEF SetHooksPath, Disks
  <2> QED BY <1>1, <1>5, <2>1 DEF SetHooksPath
<1>6. CASE SetStub
  <2>1. disk' \in Disks
    BY <1>0, <1>6 DEF SetStub, Disks
  <2> QED BY <1>1, <1>6, <2>1 DEF SetStub
<1>7. ASSUME NEW c \in Checkouts, EditIndex(c)  PROVE FilesInv'
  <2> DEFINE x == [disk.index EXCEPT ![c] = 3 - disk.index[c]]
  <2>1. x \in [Checkouts -> {1, 2}]
    BY <1>0 DEF Disks
  <2>2. disk' = [disk EXCEPT !.index = x]
    BY <1>0, <1>7 DEF EditIndex, Disks
  <2> HIDE DEF x
  <2>3. disk' \in Disks
    BY <1>0, <2>1, <2>2 DEF Disks
  <2> QED BY <1>1, <1>7, <2>3 DEF EditIndex
<1>8. ASSUME NEW c \in Checkouts, InstallByHand(c)  PROVE FilesInv'
  <2>1. Built(c) \in Froms
    BY <1>0 DEF Built, Froms, Libs, Disks
  <2> QED BY <1>8, <2>1, InstallFacts DEF InstallByHand
<1>9. ASSUME NEW d \in {"shared", "private"}, NEW b \in BundleDirs, Tells(d, b),
             bundles' = [bundles EXCEPT ![d] = b], disk' = disk
      PROVE  FilesInv'
  <2>1. bundles' \in [{"shared", "private"} -> BundleDirs]
    BY <1>0, <1>9
  <2>2. \A e \in {"shared", "private"} : Tells(e, bundles'[e])
    BY <1>0, <1>9 DEF SourcesTell
  <2>3. SourcesTell'
    BY <2>2 DEF SourcesTell, Tells
  <2> QED BY <1>0, <1>9, <2>1, <2>3 DEF FilesInv, FileTypes
<1>10. ASSUME NEW d \in {"shared", "private"}, Collect(d)  PROVE FilesInv'
  <2> DEFINE b == [bundles[d] EXCEPT !.body = "gone"]
  <2>1. b \in BundleDirs /\ Tells(d, b)
    BY <1>0 DEF BundleDirs, SourcesTell, Tells
  <2> QED BY <1>9, <1>10, <2>1 DEF Collect
<1>11. ASSUME NEW d \in {"shared", "private"}, Damage(d)  PROVE FilesInv'
  <2>1. \A b \in {[bundles[d] EXCEPT !.pointer = "invalid"], [bundles[d] EXCEPT !.body = "plain"],
                  [bundles[d] EXCEPT !.source = "none"], NoBundle} : b \in BundleDirs /\ Tells(d, b)
    <3>1. NoBundle \in BundleDirs /\ Tells(d, NoBundle)
      BY DEF NoBundle, BundleDirs, Froms, Libs, Tells
    <3>2. [bundles[d] EXCEPT !.pointer = "invalid"] \in BundleDirs /\ Tells(d, [bundles[d] EXCEPT !.pointer = "invalid"])
      BY <1>0 DEF BundleDirs, SourcesTell, Tells
    <3>3. [bundles[d] EXCEPT !.body = "plain"] \in BundleDirs /\ Tells(d, [bundles[d] EXCEPT !.body = "plain"])
      BY <1>0 DEF BundleDirs, SourcesTell, Tells
    <3>4. [bundles[d] EXCEPT !.source = "none"] \in BundleDirs /\ Tells(d, [bundles[d] EXCEPT !.source = "none"])
      BY <1>0 DEF BundleDirs, SourcesTell, Tells
    <3> QED BY <3>1, <3>2, <3>3, <3>4
  <2> QED BY <1>9, <1>11, <2>1 DEF Damage
<1> QED BY <1>2, <1>3, <1>4, <1>5, <1>6, <1>7, <1>8, <1>10, <1>11 DEF FilesChange

\* The state that is reported: the first that applies.
LEMMA FirstState ==
  ASSUME NEW c \in Checkouts
  PROVE  \E i \in 1 .. 6 : /\ BundleState(c) = Precedence[i] /\ Precedence[i] \in Applying(c)
                           /\ \A j \in 1 .. i - 1 : Precedence[j] \notin Applying(c)
<1> DEFINE P(i) == /\ Precedence[i] \in Applying(c)
                   /\ \A j \in 1 .. i - 1 : Precedence[j] \notin Applying(c)
<1>1. DOMAIN Precedence = 1 .. 6
  BY DEF Precedence
<1>2. Precedence[6] \in Applying(c)
  <2>1. Precedence[6] = "missing" /\ 6 \in DOMAIN Precedence
    BY DEF Precedence
  <2> QED BY <2>1 DEF Applying
<1>3. \E i \in 1 .. 6 : P(i)
  <2> DEFINE I == {i \in Nat : i \in 1 .. 6 /\ Precedence[i] \in Applying(c)}
  <2>1. I # {} /\ I \in SUBSET Nat
    BY <1>2
  <2>2. PICK i \in I : \A j \in I : i <= j
    <3> HIDE DEF I
    <3> QED BY <2>1, LeastOf
  <2> QED BY <2>2
<1>4. BundleState(c) = Precedence[CHOOSE i \in DOMAIN Precedence : P(i)]
  BY DEF BundleState
<1> HIDE DEF P
<1>5. P(CHOOSE i \in DOMAIN Precedence : P(i)) /\ (CHOOSE i \in DOMAIN Precedence : P(i)) \in 1 .. 6
  BY <1>1, <1>3
<1> QED BY <1>4, <1>5 DEF P

LEMMA StateFacts ==
  ASSUME NEW c \in Checkouts
  PROVE  /\ Unreachable => BundleState(c) \in {"relocated", "unreachable"}
         /\ BundleState(c) = "present" => Rooted(Bundle(c)) /\ ~(Rooted(Bundle(c)) /\ Stale(c))
<1>1. PICK i \in 1 .. 6 : /\ BundleState(c) = Precedence[i] /\ Precedence[i] \in Applying(c)
                          /\ \A j \in 1 .. i - 1 : Precedence[j] \notin Applying(c)
  BY FirstState
<1>2. /\ Precedence[1] = "relocated" /\ Precedence[2] = "unreachable" /\ Precedence[3] = "broken"
      /\ Precedence[4] = "stale" /\ Precedence[5] = "present" /\ Precedence[6] = "missing"
      /\ DOMAIN Precedence = 1 .. 6
  BY DEF Precedence
<1>3. Unreachable => Precedence[2] \in Applying(c)
  BY <1>2 DEF Applying
<1>4. Unreachable => i \in {1, 2}
  BY <1>1, <1>3
<1>5. Rooted(Bundle(c)) /\ Stale(c) => Precedence[4] \in Applying(c)
  BY <1>2 DEF Applying
<1>6. Precedence[5] \in Applying(c) => Rooted(Bundle(c))
  BY <1>2 DEF Applying
<1>7. BundleState(c) = "present" => i = 5
  <2>1. i = 1 \/ i = 2 \/ i = 3 \/ i = 4 \/ i = 5 \/ i = 6
    OBVIOUS
  <2>2. Precedence[i] = "present" => i = 5
    BY <2>1, <1>2
  <2> QED BY <2>2, <1>1
<1> QED BY <1>1, <1>2, <1>4, <1>5, <1>6, <1>7

LEMMA HonestDoctor == FilesInv => DoctorIsHonest
<1> SUFFICES ASSUME FilesInv, NEW c \in Checkouts, BundleFindings(c) = {}, disk.path \notin OnTrust
             PROVE  Commit(c) = "hooks"
  BY DEF DoctorIsHonest
<1> DEFINE b == Bundle(c)
<1>0. /\ b \in BundleDirs /\ b.pointer \in {"none", "gen", "invalid"} /\ b.body \in {"gone", "plain", "live"}
      /\ disk.path \in Paths /\ disk.stub \in Stubs
  BY DEF FilesInv, FileTypes, Bundle, Selected, Own, Disks, BundleDirs
<1> HIDE DEF b
<1>1. b.pointer = "gen" /\ BundleState(c) # "relocated" /\ b.body = "live"
  BY <1>0 DEF BundleFindings, b
<1>2. Rooted(b) /\ ~BadStub /\ BundleState(c) # "unreachable"
  BY <1>1 DEF BundleFindings, Rooted, b
<1>3. ~Unreachable
  BY <1>1, <1>2, StateFacts
<1>4. disk.path[2] \in {"common", "dispatcher"}
  BY <1>0, <1>3 DEF Unreachable, OnTrust, Paths
<1>5. b = IF Linked(c) /\ bundles["private"].pointer # "none" THEN bundles["private"] ELSE bundles["shared"]
  BY DEF b, Bundle, Selected, Own
<1>6. StubRuns(c) = "hooks"
  BY <1>1, <1>5 DEF StubRuns
<1> QED BY <1>2, <1>4, <1>6 DEF Commit, BadStub

-----------------------------------------------------------------------------
(* The run of a verb.                                                      *)

InstallTop == <<"top", "install">>
Stages == {"idle", "pre", "post", "pre hooks", "post hooks", "body", "done"}

\* Any exit code a verb can have is left open.
Exits == {0, 1, 2, 75} \cup {Rows[n].openFails : n \in DOMAIN Rows}
           \cup {ExitCode(CommandFailed(k)) : k \in {0, 1, 2, 75}}
           \cup UNION {{ExitCode(e) : e \in Rows[n].ends} : n \in DOMAIN Rows}

Verb == [stage : Stages, name : DOMAIN Rows, where : Checkouts, conf : 0 .. Len(Declared),
         todo : Seq(HookEntries), from : Froms, swapped : BOOLEAN, ran : SUBSET ({"pre", "post"} \X HookEntries),
         warned : BOOLEAN, body : BOOLEAN, exit : Exits, fresh : BOOLEAN]

Configs == [file : 0 .. Len(Declared), record : 0 .. Garbled]
VerbTypes == verb \in Verb /\ config \in Configs

\* Where a run is, and what it has done by then.
Courses ==
  /\ verb.stage = "idle" => verb.ran = {} /\ verb.todo = <<>> /\ verb.from = NoBundle.from /\ ~verb.swapped
  /\ verb.stage \in {"idle", "pre", "pre hooks", "body"} => ~verb.body
  /\ verb.stage \in {"post", "post hooks"} => verb.body
  /\ verb.stage \in {"pre", "body", "post", "done"} => verb.todo = <<>>
  /\ ~verb.body => \A ran \in verb.ran : ran[1] = "pre"
  /\ verb.body => verb.exit \in {ExitCode(e) : e \in Row.ends}

\* While nobody interferes, what runs and what is still to run is what the record
\* vouches for.
Vouches(phase) == Named(Recorded, <<phase, Row.event>>)
Vouched == verb.fresh =>
  /\ verb.stage \in {"pre", "pre hooks", "body"} => verb.conf = config.file
  /\ verb.stage = "post" => verb.conf = config.file \/ config.file \in Grown(Loaded)
  /\ \A ran \in verb.ran : ran[2] \in Vouches(ran[1])
  /\ InHooks => verb.todo \in Seq(Vouches(Phase))

\* While nobody interferes, nix's bundle is of the checkout as it is, and what
\* the verb installed is current.
CurrentIn(c) ==
  LET b == bundles[Own(c)]
  IN /\ Rooted(b) /\ Bundle(c) = b
     /\ b.source = "ok" /\ ~b.torn =>
          /\ b.from.index = disk.index[c]
          /\ Linked(c) /\ b.from.lib.work = 0 => b.from.lib = disk.lib
Installed ==
  /\ verb.fresh /\ verb.swapped => CurrentIn(verb.where)
  /\ verb.fresh /\ verb.from # NoBundle.from => verb.from = Built(verb.where)
  /\ verb.fresh /\ verb.body /\ ~verb.warned /\ Contains(FiredNow("post"), InstallTop) =>
       /\ verb.stage = "done" => CurrentIn(verb.where)
       /\ verb.stage = "post hooks" => CurrentIn(verb.where) \/ Contains(verb.todo, InstallTop)

HookInv == FilesInv /\ VerbTypes /\ Courses /\ Vouched /\ Installed

LEMMA HookInitInv == HooksInit => HookInv
<1> SUFFICES ASSUME HooksInit PROVE HookInv
  OBVIOUS
<1>1. FilesInv
  BY FilesInitInv DEF HooksInit
<1>2. verb = Idle /\ config \in Configs
  <2>1. PICK v \in 1 .. Len(Declared) : \E k \in {0, v} : config = [file |-> v, record |-> k]
    BY DeclaredFacts DEF HooksInit
  <2> QED BY <2>1, DeclaredFacts DEF HooksInit, Configs, Garbled
<1>3. NoBundle.from \in Froms /\ NoBundle.from = [index |-> 0, lib |-> [head |-> 0, work |-> 0]]
  BY DEF NoBundle, Froms, Libs
<1>4. "status" \in DOMAIN Rows
  BY DEF Rows
<1>5. Idle \in Verb
  BY <1>3, <1>4, DeclaredFacts, EmptySeq DEF Idle, Verb, Stages, Exits, Checkouts
<1>6. VerbTypes
  BY <1>2, <1>5 DEF VerbTypes
<1>7. Courses
  BY <1>2 DEF Courses, Idle
<1>8. Vouched
  BY <1>2 DEF Vouched, Idle, InHooks
<1>9. Installed
  BY <1>2 DEF Installed, Idle
<1> QED BY <1>1, <1>6, <1>7, <1>8, <1>9 DEF HookInv

\* Only the names of the verb and of its configuration say what fires.
LEMMA FiredStays ==
  ASSUME verb'.conf = verb.conf, verb'.name = verb.name
  PROVE  /\ \A phase : FiredNow(phase)' = FiredNow(phase)
         /\ Row' = Row /\ Loaded' = Loaded
         /\ config'.record = config.record => \A phase : Vouches(phase)' = Vouches(phase)
  BY DEF FiredNow, Loaded, Row, Vouches, Recorded

LEMMA CurrentStays ==
  ASSUME NEW c, disk' = disk, bundles' = bundles
  PROVE  CurrentIn(c)' = CurrentIn(c) /\ Built(c)' = Built(c)
  BY DEF CurrentIn, Bundle, Selected, Own, Rooted, Built

\* The operator's changes: a run that they meet is disturbed.
LEMMA ChangesStep ==
  ASSUME HookInv, Changes, FilesInv', config' \in Configs
  PROVE  HookInv'
<1>0. verb \in Verb
  BY DEF HookInv, VerbTypes
<1>1. verb.stage # "done" /\ verb' = [verb EXCEPT !.fresh = (verb.stage = "idle")]
  BY DEF Changes
<1> DEFINE b == (verb.stage = "idle")
<1>2. b \in BOOLEAN
  OBVIOUS
<1>3. verb' = [verb EXCEPT !.fresh = b]
  BY <1>1
<1> HIDE DEF b
<1>4. verb' \in Verb
  BY <1>0, <1>2, <1>3 DEF Verb
<1>5. /\ verb'.stage = verb.stage /\ verb'.name = verb.name /\ verb'.where = verb.where /\ verb'.conf = verb.conf
      /\ verb'.todo = verb.todo /\ verb'.from = verb.from /\ verb'.ran = verb.ran /\ verb'.warned = verb.warned
      /\ verb'.body = verb.body /\ verb'.exit = verb.exit /\ verb'.fresh = b /\ verb'.swapped = verb.swapped
  BY <1>0, <1>3 DEF Verb
<1>6. Courses'
  BY <1>5, FiredStays DEF HookInv, Courses
<1>7. b => verb.stage = "idle" /\ verb.ran = {} /\ verb.todo = <<>> /\ verb.from = NoBundle.from /\ ~verb.body
           /\ ~verb.swapped
  BY DEF b, HookInv, Courses
<1>8. Vouched'
  BY <1>5, <1>7 DEF Vouched, InHooks
<1>9. Installed'
  BY <1>5, <1>7 DEF Installed, NoBundle
<1>10. VerbTypes'
  BY <1>4 DEF VerbTypes
<1> QED BY <1>6, <1>8, <1>9, <1>10 DEF HookInv

LEMMA OperatorStep ==
  HookInv /\ (Allow \/ Deny \/ EditConfig \/ RecordGarbled \/ Elsewhere) => HookInv'
<1> SUFFICES ASSUME HookInv, Allow \/ Deny \/ EditConfig \/ RecordGarbled \/ Elsewhere PROVE HookInv'
  OBVIOUS
<1> DEFINE C == Configs
<1>0. config \in C /\ FilesInv
  BY DEF HookInv, VerbTypes
<1>1. Changes
  BY DEF Allow, Deny, EditConfig, RecordGarbled, Elsewhere
<1>2. FilesInv'
  <2>1. CASE Elsewhere
    BY <1>0, <2>1, FilesStep DEF Elsewhere
  <2>2. CASE UNCHANGED files
    BY <1>0, <2>2 DEF files, FilesInv, FileTypes, SourcesTell, Tells
  <2> QED BY <2>1, <2>2 DEF Allow, Deny, EditConfig, RecordGarbled
<1>3. config' \in C
  <2>1. CASE Allow
    BY <1>0, <2>1, DeclaredFacts DEF Allow, Configs, Garbled
  <2>2. CASE Deny
    BY <1>0, <2>2, DeclaredFacts DEF Deny, Configs, Garbled
  <2>3. CASE EditConfig
    <3>1. PICK v \in 0 .. Len(Declared) : config' = [config EXCEPT !.file = v]
      BY <2>3 DEF EditConfig
    <3> QED BY <1>0, <3>1 DEF Configs
  <2>4. CASE RecordGarbled
    BY <1>0, <2>4, DeclaredFacts DEF RecordGarbled, Configs, Garbled
  <2>5. CASE Elsewhere
    BY <1>0, <2>5 DEF Elsewhere
  <2> QED BY <2>1, <2>2, <2>3, <2>4, <2>5
<1> QED BY <1>1, <1>2, <1>3, ChangesStep

\* A bundle that the gate accepts, and one that the installer leaves, are current.
LEMMA UpToDateIsCurrent ==
  ASSUME FilesInv, NEW c \in Checkouts, InstallHookUpToDate(c)
  PROVE  CurrentIn(c)
<1> DEFINE b == bundles[Own(c)]
<1>0. b \in BundleDirs /\ Tells(Own(c), b) /\ disk \in Disks
  BY DEF FilesInv, FileTypes, SourcesTell, Own
<1>1. Bundle(c) = b /\ Rooted(b) /\ ~Stale(c)
  BY StateFacts DEF InstallHookUpToDate, Bundle
<1> HIDE DEF b
<1>2. b.source = "ok" => b.stamp = disk.index[c] /\ \A pin \in b.pins : pin = OverrideNow
  BY <1>1 DEF Stale, ChangedOverrides
<1>3. ASSUME b.source = "ok", ~b.torn, Linked(c), b.from.lib.work = 0  PROVE b.from.lib = disk.lib
  <2>1. PinOf(b.from.lib) = OverrideNow
    BY <1>0, <1>2, <1>3 DEF Tells, Own
  <2>2. b.from.lib \in Libs /\ disk.lib \in [head : {1, 2}, work : {0, 1, 2}]
    BY <1>0 DEF BundleDirs, Froms, Disks
  <2> DEFINE l == b.from.lib  k == disk.lib
  <2>3. l = [head |-> l.head, work |-> l.work] /\ k = [head |-> k.head, work |-> k.work]
    BY <2>2 DEF Libs
  <2>4. [head |-> l.head, dirty |-> l.work # 0] = [head |-> k.head, dirty |-> k.work # 0]
    BY <2>1 DEF PinOf, OverrideNow
  <2>5. l.head = k.head /\ (l.work # 0) = (k.work # 0)
    <3> DEFINE p(x) == [head |-> x.head, dirty |-> x.work # 0]
    <3>1. p(l) = p(k) /\ p(l).head = l.head /\ p(k).head = k.head
      BY <2>4
    <3>2. p(l).dirty = (l.work # 0) /\ p(k).dirty = (k.work # 0)
      BY Zenon
    <3> HIDE DEF p
    <3> QED BY <3>1, <3>2, Zenon
  <2>6. l.work = 0 /\ k.work = 0
    <3>1. l.work = 0
      BY <1>3
    <3> HIDE DEF l, k
    <3> QED BY <3>1, <2>5
  <2> HIDE DEF l, k
  <2>7. l = k
    BY <2>3, <2>5, <2>6
  <2> QED BY <2>7 DEF l, k
<1> QED BY <1>0, <1>1, <1>2, <1>3 DEF CurrentIn, Tells, b

LEMMA MadeIsCurrent ==
  ASSUME FilesInv, NEW c \in Checkouts, NEW built \in Froms, Swap(c, built), disk' \in {disk, SyncStubs(c)}
  PROVE  FilesInv' /\ CurrentIn(c)' /\ Built(c)' = Built(c)
<1> DEFINE b == Made(c, built)
<1>1. FilesInv' /\ bundles'[Own(c)] = b /\ disk' \in {disk, [disk EXCEPT !.stub = "ours"]}
  BY InstallFacts
<1>2. disk'.index = disk.index /\ disk'.lib = disk.lib
  BY <1>1 DEF FilesInv, FileTypes, Disks
<1>3. b.pointer = "gen" /\ b.body = "live" /\ b.from = built /\ b.torn = (built # Built(c))
  BY DEF Made
<1> HIDE DEF b
<1>4. Bundle(c)' = b
  BY <1>1, <1>3 DEF Bundle, Selected
<1>5. ~b.torn => b.from.index = disk.index[c] /\ b.from.lib = disk.lib
  <2>1. ~b.torn => built = Built(c)
    BY <1>3, Zenon
  <2> QED BY <2>1, <1>3 DEF Built
<1>6. Built(c)' = Built(c)
  BY <1>2 DEF Built
<1> QED BY <1>1, <1>2, <1>3, <1>4, <1>5, <1>6 DEF CurrentIn, Rooted

LEMMA TailSeq ==
  ASSUME NEW S, NEW s \in Seq(S), s # <<>>
  PROVE  /\ Tail(s) \in Seq(S) /\ s[1] \in S
         /\ \A e : Contains(s, e) => e = s[1] \/ Contains(Tail(s), e)
<1>1. Tail(s) \in Seq(S) /\ Len(s) \in Nat /\ Len(s) > 0 /\ Len(Tail(s)) = Len(s) - 1
  OBVIOUS
<1>2. \A i \in 1 .. Len(s) - 1 : Tail(s)[i] = s[i + 1]
  OBVIOUS
<1>3. ASSUME NEW i \in 1 .. Len(s), i # 1  PROVE i - 1 \in 1 .. Len(Tail(s)) /\ Tail(s)[i - 1] = s[i]
  BY <1>1, <1>2, <1>3
<1>4. ASSUME NEW e, Contains(s, e)  PROVE e = s[1] \/ Contains(Tail(s), e)
  <2>1. PICK i \in 1 .. Len(s) : s[i] = e
    BY <1>4 DEF Contains
  <2> QED BY <2>1, <1>3 DEF Contains
<1> QED BY <1>1, <1>4

LEMMA EndsFacts ==
  ASSUME NEW run \in Verb, run.stage \in {"pre hooks", "post hooks"}, run.todo # <<>>,
         NEW k \in {0, 1, 2, 75}, HookEnds(run, k)
  PROVE  /\ verb' \in Verb
         /\ verb'.name = run.name /\ verb'.where = run.where /\ verb'.conf = run.conf /\ verb'.from = run.from
         /\ verb'.ran = run.ran /\ verb'.body = run.body /\ verb'.fresh = run.fresh /\ verb'.swapped = run.swapped
         /\ \/ verb'.stage = "done" /\ verb'.todo = <<>> /\ run.stage = "pre hooks"
            \/ /\ verb'.stage = run.stage /\ verb'.todo = Tail(run.todo) /\ verb'.exit = run.exit
               /\ IF k = 0 THEN verb'.warned = run.warned ELSE verb'.warned
<1>1. Tail(run.todo) \in Seq(HookEntries)
  <2>1. run.todo \in Seq(HookEntries)
    BY DEF Verb
  <2> QED BY <2>1, TailSeq
<1>2. CASE k = 0
  <2>1. verb' = [run EXCEPT !.todo = Tail(run.todo)]
    BY <1>2 DEF HookEnds
  <2> QED BY <1>1, <1>2, <2>1 DEF Verb
<1>3. CASE k # 0 /\ run.stage = "pre hooks"
  <2>1. verb' = [run EXCEPT !.stage = "done", !.exit = ExitCode(CommandFailed(k)), !.todo = <<>>]
    BY <1>3 DEF HookEnds
  <2> DEFINE x == ExitCode(CommandFailed(k))
  <2>2. x \in Exits
    BY DEF Exits
  <2>3. verb' = [run EXCEPT !.stage = "done", !.exit = x, !.todo = <<>>]
    BY <2>1
  <2>4. "done" \in Stages /\ << >> \in Seq(HookEntries)
    BY EmptySeq DEF Stages
  <2> HIDE DEF x
  <2> QED BY <1>3, <2>2, <2>3, <2>4 DEF Verb
<1>4. CASE k # 0 /\ run.stage # "pre hooks"
  <2>1. verb' = [run EXCEPT !.todo = Tail(run.todo), !.warned = TRUE]
    BY <1>4 DEF HookEnds
  <2> QED BY <1>1, <1>4, <2>1 DEF Verb
<1> QED BY <1>2, <1>3, <1>4

LEMMA QuietFiles == ASSUME HookInv, UNCHANGED files PROVE FilesInv' /\ \A c : CurrentIn(c)' = CurrentIn(c) /\ Built(c)' = Built(c)
<1>1. disk' = disk /\ bundles' = bundles
  BY DEF files
<1>2. FilesInv'
  BY <1>1 DEF HookInv, FilesInv, FileTypes, SourcesTell, Tells
<1> QED BY <1>1, <1>2, CurrentStays

\* Who has run: one hook more at most.
LEMMA OneMore ==
  ASSUME NEW ran, ran \in {verb.ran, verb.ran \cup {ThisHook}}, NEW e \in ran
  PROVE  e \in verb.ran \/ (e[1] = Phase /\ e[2] = verb.todo[1])
<1>1. ThisHook[1] = Phase /\ ThisHook[2] = verb.todo[1]
  BY DEF ThisHook
<1> QED BY <1>1

\* A hook has ended: the run stands as it stood, with this hook run.
LEMMA HookEnded ==
  ASSUME HookInv, InHooks, NEW run \in Verb, NEW k \in {0, 1, 2, 75}, HookEnds(run, k),
         run.stage = verb.stage, run.name = verb.name, run.where = verb.where, run.conf = verb.conf,
         run.todo = verb.todo, run.warned = verb.warned, run.body = verb.body, run.exit = verb.exit,
         run.fresh = verb.fresh, run.ran \in {verb.ran, verb.ran \cup {ThisHook}}, run.swapped \in {verb.swapped, FALSE},
         run.from = NoBundle.from \/ (run.from = verb.from /\ UNCHANGED files), config' = config, FilesInv',
         NEW c \in Checkouts, c = verb.where, CurrentIn(c) => CurrentIn(c)',
         verb.todo[1] = InstallTop /\ k = 0 /\ verb.fresh => CurrentIn(c)'
  PROVE  HookInv'
<1>0. /\ run.stage \in {"pre hooks", "post hooks"} /\ run.todo # <<>>
      /\ verb \in Verb /\ verb.todo \in Seq(HookEntries)
  BY DEF InHooks, HookInv, VerbTypes, Verb
<1>1. /\ verb' \in Verb
      /\ verb'.name = run.name /\ verb'.where = run.where /\ verb'.conf = run.conf /\ verb'.from = run.from
      /\ verb'.ran = run.ran /\ verb'.body = run.body /\ verb'.fresh = run.fresh /\ verb'.swapped = run.swapped
      /\ \/ verb'.stage = "done" /\ verb'.todo = <<>> /\ run.stage = "pre hooks"
         \/ /\ verb'.stage = run.stage /\ verb'.todo = Tail(run.todo) /\ verb'.exit = run.exit
            /\ IF k = 0 THEN verb'.warned = run.warned ELSE verb'.warned
  BY <1>0, EndsFacts, Zenon
<1>2. Row' = Row /\ FiredNow("post")' = FiredNow("post") /\ \A phase : Vouches(phase)' = Vouches(phase)
  BY <1>1, FiredStays
<1>t. Tail(verb.todo) \in Seq(HookEntries) /\ verb.todo[1] \in HookEntries
      /\ \A e : Contains(verb.todo, e) => e = verb.todo[1] \/ Contains(Tail(verb.todo), e)
  BY <1>0, TailSeq
<1>3. /\ verb.stage = "pre hooks" => ~verb.body /\ Phase = "pre"
      /\ ~verb.body => \A ran \in verb.ran : ran[1] = "pre"
  BY DEF HookInv, Courses, Phase
<1>4. verb.stage = "post hooks" => verb.body /\ verb.exit \in {ExitCode(e) : e \in Row.ends}
  BY DEF HookInv, Courses
<1>5. Courses'
  <2>1. ~verb'.body => \A ran \in verb'.ran : ran[1] = "pre"
    BY <1>0, <1>1, <1>3, <1>4, OneMore
  <2> QED BY <2>1, <1>0, <1>1, <1>2, <1>3, <1>4 DEF Courses
<1>6. Vouched'
  <2> SUFFICES ASSUME verb'.fresh PROVE Vouched'
    BY DEF Vouched
  <2>1. verb.fresh /\ verb.todo \in Seq(Vouches(Phase)) /\ \A ran \in verb.ran : ran[2] \in Vouches(ran[1])
    BY <1>1 DEF HookInv, Vouched
  <2>2. verb.stage = "pre hooks" => verb.conf = config.file
    BY <2>1 DEF HookInv, Vouched
  <2>3. Tail(verb.todo) \in Seq(Vouches(Phase)) /\ verb.todo[1] \in Vouches(Phase)
    BY <2>1, <1>0, TailSeq
  <2>4. \A ran \in verb'.ran : ran[2] \in Vouches(ran[1])
    BY <1>1, <2>1, <2>3, OneMore
  <2>5. \A ran \in verb'.ran : ran[2] \in Vouches(ran[1])'
    BY <1>2, <2>4
  <2>6. InHooks' => verb'.todo \in Seq(Vouches(Phase))'
    <3> SUFFICES ASSUME InHooks' PROVE verb'.todo \in Seq(Vouches(Phase))'
      OBVIOUS
    <3>1. verb'.stage = verb.stage /\ verb'.todo = Tail(verb.todo)
      BY <1>1 DEF InHooks
    <3>2. Phase' = Phase
      BY <3>1 DEF Phase
    <3>3. Vouches(Phase)' = Vouches(Phase)
      BY <3>2, <1>1 DEF Vouches, Row, Recorded
    <3> QED BY <3>1, <3>3, <2>3
  <2>7. verb'.stage \in {"pre", "pre hooks", "body"} => verb'.conf = config'.file
    BY <1>0, <1>1, <2>2
  <2>8. verb'.stage # "post"
    BY <1>0, <1>1
  <2> QED BY <2>5, <2>6, <2>7, <2>8 DEF Vouched
<1>7. Installed'
  <2>1. verb'.fresh /\ verb'.from # NoBundle.from => verb'.from = Built(c)'
    <3> SUFFICES ASSUME verb'.fresh, run.from = verb.from, UNCHANGED files, verb.from # NoBundle.from
                 PROVE  verb.from = Built(c)'
      BY <1>1
    <3>1. verb.from = Built(c)
      BY <1>1 DEF HookInv, Installed
    <3> QED BY <3>1, QuietFiles
  <2>2. ASSUME verb'.fresh, verb'.body, ~verb'.warned, Contains(FiredNow("post")', InstallTop)
        PROVE  /\ verb'.stage = "post hooks"
               /\ CurrentIn(c)' \/ Contains(verb'.todo, InstallTop)
    <3>1. verb.stage = "post hooks" /\ verb'.stage = "post hooks"
      BY <1>0, <1>1, <1>3, <2>2
    <3>2. k = 0 /\ ~verb.warned /\ verb'.todo = Tail(verb.todo)
      BY <3>1, <1>1, <2>2
    <3>3. CurrentIn(c) \/ Contains(verb.todo, InstallTop)
      BY <3>1, <3>2, <2>2, <1>1, <1>2 DEF HookInv, Installed
    <3>4. Contains(verb.todo, InstallTop) => verb.todo[1] = InstallTop \/ Contains(Tail(verb.todo), InstallTop)
      BY <1>t
    <3>5. verb.fresh
      BY <1>1, <2>2
    <3> QED BY <3>1, <3>2, <3>3, <3>4, <3>5, <1>1, Zenon
  <2>3. verb'.stage # "done" \/ ~(verb'.fresh /\ verb'.body /\ ~verb'.warned /\ Contains(FiredNow("post")', InstallTop))
    BY <2>2
  <2>4. c = verb'.where
    BY <1>1
  <2>5. verb'.fresh /\ verb'.swapped => CurrentIn(c)'
    BY <1>1 DEF HookInv, Installed
  <2> QED BY <2>1, <2>2, <2>3, <2>4, <2>5 DEF Installed, NoBundle
<1>8. VerbTypes'
  BY <1>1 DEF HookInv, VerbTypes
<1> QED BY <1>5, <1>6, <1>7, <1>8 DEF HookInv

\* The entry at the head.
LEMMA Heads ==
  ASSUME HookInv, InHooks
  PROVE  /\ verb.todo[1] \in HookEntries /\ verb \in Verb /\ verb.where \in Checkouts
         /\ ~Installs => verb.todo[1] # InstallTop
<1>1. verb.todo \in Seq(HookEntries) /\ verb.todo # <<>> /\ verb \in Verb /\ verb.where \in Checkouts
  BY DEF HookInv, VerbTypes, Verb, InHooks
<1>2. verb.todo[1] \in HookEntries
  BY <1>1, TailSeq
<1> QED BY <1>1, <1>2 DEF Installs, InstallTop

LEMMA CheckStep == HookInv /\ CheckRuns => HookInv'
<1> SUFFICES ASSUME HookInv, CheckRuns PROVE HookInv'
  OBVIOUS
<1> DEFINE run == [verb EXCEPT !.ran = verb.ran \cup {ThisHook}]
<1>1. InHooks /\ ~Installs /\ UNCHANGED files /\ config' = config
  BY DEF CheckRuns
<1>2. PICK k \in {0, 1, 75} : HookEnds(run, k)
  BY DEF CheckRuns
<1>3. /\ run \in Verb /\ run.stage = verb.stage /\ run.name = verb.name /\ run.where = verb.where /\ run.conf = verb.conf
      /\ run.todo = verb.todo /\ run.warned = verb.warned /\ run.body = verb.body /\ run.exit = verb.exit
      /\ run.fresh = verb.fresh /\ run.ran = verb.ran \cup {ThisHook} /\ run.from = verb.from
      /\ run.swapped = verb.swapped
  <2>1. ThisHook \in {"pre", "post"} \X HookEntries
    BY <1>1, Heads DEF ThisHook, Phase
  <2> DEFINE ran == verb.ran \cup {ThisHook}
  <2>2. ran \in SUBSET ({"pre", "post"} \X HookEntries) /\ verb \in Verb /\ run = [verb EXCEPT !.ran = ran]
    BY <2>1, <1>1, Heads DEF Verb
  <2> HIDE DEF ran
  <2>3. run \in Verb /\ run.ran = ran
    BY <2>2 DEF Verb
  <2> QED BY <2>2, <2>3 DEF Verb, ran
<1> HIDE DEF run
<1> QED BY <1>1, <1>2, <1>3, Heads, QuietFiles, HookEnded

LEMMA SkippedStep == HookInv /\ InstallSkipped => HookInv'
<1> SUFFICES ASSUME HookInv, InstallSkipped PROVE HookInv'
  OBVIOUS
<1>1. /\ InHooks /\ UNCHANGED files /\ config' = config /\ HookEnds(verb, 0) /\ InstallHookUpToDate(verb.where)
      /\ verb.from = NoBundle.from
  BY DEF InstallSkipped
<1>2. CurrentIn(verb.where)
  BY <1>1, Heads, UpToDateIsCurrent DEF HookInv
<1> QED BY <1>1, <1>2, Heads, QuietFiles, HookEnded

LEMMA BuildsStep == HookInv /\ InstallBuilds => HookInv'
<1> SUFFICES ASSUME HookInv, InstallBuilds PROVE HookInv'
  OBVIOUS
<1> DEFINE c == verb.where
<1>0. /\ InHooks /\ UNCHANGED files /\ config' = config
      /\ verb' = [verb EXCEPT !.from = Built(c), !.ran = verb.ran \cup {ThisHook}]
  BY DEF InstallBuilds
<1>1. verb.todo[1] \in HookEntries /\ verb \in Verb /\ c \in Checkouts /\ verb.todo # <<>>
      /\ verb.todo \in Seq(HookEntries) /\ verb.stage \in {"pre hooks", "post hooks"}
      /\ ThisHook \in {"pre", "post"} \X HookEntries
  BY <1>0, Heads DEF InHooks, ThisHook, Phase, Verb
<1>2. Built(c) \in Froms
  BY <1>1 DEF HookInv, FilesInv, FileTypes, Disks, Built, Froms, Libs
<1>3. /\ verb' \in Verb /\ verb'.stage = verb.stage /\ verb'.name = verb.name /\ verb'.where = c /\ verb'.conf = verb.conf
      /\ verb'.todo = verb.todo /\ verb'.warned = verb.warned /\ verb'.body = verb.body /\ verb'.exit = verb.exit
      /\ verb'.fresh = verb.fresh /\ verb'.ran = verb.ran \cup {ThisHook} /\ verb'.from = Built(c)
      /\ verb'.swapped = verb.swapped
  <2> DEFINE b == Built(c)  r == verb.ran \cup {ThisHook}
  <2>1. r \in SUBSET ({"pre", "post"} \X HookEntries)
    BY <1>1 DEF Verb
  <2>2. verb' = [verb EXCEPT !.from = b, !.ran = r] /\ b \in Froms
    BY <1>0, <1>2
  <2> HIDE DEF b, r
  <2>3. verb' \in Verb
    BY <1>1, <2>1, <2>2 DEF Verb
  <2>4. /\ verb'.stage = verb.stage /\ verb'.name = verb.name /\ verb'.where = verb.where /\ verb'.conf = verb.conf
        /\ verb'.todo = verb.todo /\ verb'.warned = verb.warned /\ verb'.body = verb.body /\ verb'.exit = verb.exit
        /\ verb'.fresh = verb.fresh /\ verb'.ran = r /\ verb'.from = b /\ verb'.swapped = verb.swapped
    BY <1>1, <2>2 DEF Verb
  <2> QED BY <2>3, <2>4 DEF b, r
<1>4. Row' = Row /\ FiredNow("post")' = FiredNow("post") /\ \A phase : Vouches(phase)' = Vouches(phase)
  BY <1>0, <1>3, FiredStays
<1>5. FilesInv' /\ CurrentIn(c)' = CurrentIn(c)
  BY <1>0, QuietFiles
<1>b. Built(verb.where)' = Built(c)
  BY <1>0, <1>3 DEF Built, files
<1>c. CurrentIn(verb.where)' = CurrentIn(c)
  BY <1>0, <1>3 DEF CurrentIn, Bundle, Selected, Own, Rooted, files
<1>6. ~verb'.body => \A ran \in verb'.ran : ran[1] = "pre"
  BY <1>1, <1>3 DEF HookInv, Courses, ThisHook, Phase
<1>7. Courses'
  BY <1>1, <1>3, <1>4, <1>6 DEF HookInv, Courses
<1>8. Vouched'
  <2> SUFFICES ASSUME verb'.fresh PROVE Vouched'
    BY DEF Vouched
  <2>1. /\ verb.todo \in Seq(Vouches(Phase)) /\ \A ran \in verb.ran : ran[2] \in Vouches(ran[1])
        /\ verb.stage = "pre hooks" => verb.conf = config.file
    BY <1>0, <1>3 DEF HookInv, Vouched
  <2>2. verb.todo[1] \in Vouches(Phase)
    BY <2>1, <1>1, TailSeq
  <2>3. \A ran \in verb'.ran : ran[2] \in Vouches(ran[1])
    BY <1>3, <2>1, <2>2, OneMore
  <2>4. \A ran \in verb'.ran : ran[2] \in Vouches(ran[1])'
    BY <1>4, <2>3
  <2>5. Vouches(Phase)' = Vouches(Phase)
    BY <1>0, <1>3 DEF Vouches, Row, Recorded, Phase
  <2> QED BY <2>1, <2>4, <2>5, <1>0, <1>1, <1>3 DEF Vouched
<1>9. Installed'
  BY <1>1, <1>3, <1>4, <1>b, <1>c DEF HookInv, Installed
<1> QED BY <1>0, <1>3, <1>5, <1>7, <1>8, <1>9 DEF HookInv, VerbTypes

LEMMA SwapsStep == HookInv /\ InstallSwaps => HookInv'
<1> SUFFICES ASSUME HookInv, InstallSwaps PROVE HookInv'
  OBVIOUS
<1> DEFINE c == verb.where
<1>0. /\ InHooks /\ disk' = disk /\ config' = config /\ Swap(c, verb.from)
      /\ verb' = [verb EXCEPT !.swapped = TRUE]
  BY DEF InstallSwaps
<1>1. verb \in Verb /\ c \in Checkouts /\ verb.from \in Froms
  BY <1>0, Heads DEF Verb
<1>2. /\ verb' \in Verb /\ verb'.stage = verb.stage /\ verb'.name = verb.name /\ verb'.where = c /\ verb'.conf = verb.conf
      /\ verb'.todo = verb.todo /\ verb'.warned = verb.warned /\ verb'.body = verb.body /\ verb'.exit = verb.exit
      /\ verb'.fresh = verb.fresh /\ verb'.ran = verb.ran /\ verb'.from = verb.from
  BY <1>0, <1>1 DEF Verb
<1>3. PICK d : d = c
  OBVIOUS
<1>4. FilesInv' /\ CurrentIn(d)' /\ Built(d)' = Built(d)
  BY <1>0, <1>1, <1>3, MadeIsCurrent DEF HookInv
<1>5. Row' = Row /\ FiredNow("post")' = FiredNow("post") /\ \A phase : Vouches(phase)' = Vouches(phase)
  BY <1>0, <1>2, FiredStays
<1>6. Courses'
  BY <1>0, <1>2, <1>5 DEF HookInv, Courses, InHooks
<1>7. Vouched'
  <2>1. Vouches(Phase)' = Vouches(Phase) /\ (InHooks' <=> InHooks)
    BY <1>0, <1>2 DEF Vouches, Row, Recorded, Phase, InHooks
  <2>2. Loaded' = Loaded
    BY <1>2 DEF Loaded
  <2> QED BY <1>0, <1>2, <1>5, <2>1, <2>2 DEF HookInv, Vouched, InHooks
<1>8. Installed'
  <2>1. CurrentIn(verb.where)' /\ Built(verb.where)' = Built(c)
    BY <1>2, <1>3, <1>4 DEF CurrentIn, Built, Bundle, Selected, Own, Rooted
  <2> QED BY <1>2, <1>5, <2>1 DEF HookInv, Installed
<1> QED BY <1>0, <1>2, <1>4, <1>6, <1>7, <1>8 DEF HookInv, VerbTypes

LEMMA InstallEndsStep == HookInv /\ InstallEnds => HookInv'
<1> SUFFICES ASSUME HookInv, InstallEnds PROVE HookInv'
  OBVIOUS
<1> DEFINE c == verb.where
           run == [verb EXCEPT !.from = NoBundle.from, !.swapped = FALSE]
<1>1. InHooks /\ Installs /\ config' = config /\ bundles' = bundles
  BY DEF InstallEnds
<1>2. verb \in Verb /\ c \in Checkouts /\ verb.from \in Froms
  BY <1>1, Heads DEF Verb
<1>3. NoBundle.from \in Froms
  BY DEF NoBundle, Froms, Libs
<1>4. /\ run \in Verb /\ run.stage = verb.stage /\ run.name = verb.name /\ run.where = verb.where /\ run.conf = verb.conf
      /\ run.todo = verb.todo /\ run.warned = verb.warned /\ run.body = verb.body /\ run.exit = verb.exit
      /\ run.fresh = verb.fresh /\ run.ran = verb.ran /\ run.from = NoBundle.from /\ run.swapped = FALSE
  BY <1>2, <1>3 DEF Verb
<1>5. \/ verb.swapped /\ disk' = SyncStubs(c) /\ HookEnds(run, 0)
      \/ UNCHANGED files /\ \E k \in {1, 2} : HookEnds(run, k)
  BY DEF InstallEnds, InstallOver, files
<1> HIDE DEF run
<1>6. ASSUME verb.swapped, disk' = SyncStubs(c), HookEnds(run, 0)  PROVE HookInv'
  <2>1. PICK d : d = c
    OBVIOUS
  <2>2. disk' \in {disk, [disk EXCEPT !.stub = "ours"]}
    BY <1>6 DEF SyncStubs
  <2>3. FilesInv'
    BY <1>1, <2>2 DEF HookInv, FilesInv, FileTypes, SourcesTell, Tells, Disks, Stubs
  <2>4. disk'.index = disk.index /\ disk'.lib = disk.lib
    BY <2>2 DEF HookInv, FilesInv, FileTypes, Disks
  <2>5. CurrentIn(d) => CurrentIn(d)'
    BY <1>1, <2>4 DEF CurrentIn, Bundle, Selected, Own, Rooted
  <2>6. verb.fresh => CurrentIn(d)
    BY <1>6, <2>1 DEF HookInv, Installed
  <2>7. PICK k \in {0, 1, 2, 75} : HookEnds(run, k)
    BY <1>6
  <2>8. verb.todo[1] = InstallTop /\ k = 0 /\ verb.fresh => CurrentIn(d)'
    BY <2>5, <2>6
  <2>9. run.ran \in {verb.ran, verb.ran \cup {ThisHook}} /\ run.swapped \in {verb.swapped, FALSE}
    BY <1>4
  <2>10. d \in Checkouts /\ d = verb.where
    BY <1>2, <2>1
  <2>11. HookInv /\ InHooks /\ config' = config /\ (run.from = NoBundle.from \/ (run.from = verb.from /\ UNCHANGED files))
    BY <1>1, <1>4
  <2> HIDE DEF c
  <2> QED BY <1>4, <2>3, <2>5, <2>7, <2>8, <2>9, <2>10, <2>11, HookEnded
<1>7. ASSUME UNCHANGED files, NEW k \in {1, 2}, HookEnds(run, k)  PROVE HookInv'
  <2>1. PICK d : d = c
    OBVIOUS
  <2>2. FilesInv' /\ CurrentIn(d)' = CurrentIn(d)
    BY <1>7, QuietFiles
  <2>3. k \in {0, 1, 2, 75} /\ ~(verb.todo[1] = InstallTop /\ k = 0 /\ verb.fresh)
    OBVIOUS
  <2>4. run.ran \in {verb.ran, verb.ran \cup {ThisHook}} /\ run.swapped \in {verb.swapped, FALSE}
    BY <1>4
  <2>5. d \in Checkouts /\ d = verb.where
    BY <1>2, <2>1
  <2>6. HookInv /\ InHooks /\ config' = config /\ (run.from = NoBundle.from \/ (run.from = verb.from /\ UNCHANGED files))
    BY <1>1, <1>4
  <2> HIDE DEF c
  <2> QED BY <1>4, <1>7, <2>2, <2>3, <2>4, <2>5, <2>6, HookEnded
<1> QED BY <1>5, <1>6, <1>7

\* A run with nothing done yet.
LEMMA IdleVerb == Idle \in Verb
<1>1. NoBundle.from \in Froms
  BY DEF NoBundle, Froms, Libs
<1>2. "status" \in DOMAIN Rows /\ 0 \in Exits /\ << >> \in Seq(HookEntries)
  BY EmptySeq DEF Rows, Exits
<1> QED BY <1>1, <1>2, DeclaredFacts DEF Idle, Verb, Stages, Checkouts

LEMMA Afresh ==
  ASSUME HookInv, verb' \in Verb, verb'.stage \in {"idle", "pre", "body", "done"}, verb'.todo = <<>>,
         verb'.from = NoBundle.from, verb'.ran = {}, verb'.body = FALSE, verb'.swapped = FALSE,
         verb'.stage \in {"pre", "body"} => verb'.conf = config.file, UNCHANGED files, config' = config
  PROVE  HookInv'
<1>1. Courses'
  BY DEF Courses, NoBundle
<1>2. Vouched'
  BY DEF Vouched, InHooks
<1>3. Installed'
  BY DEF Installed, NoBundle
<1> QED BY <1>1, <1>2, <1>3, QuietFiles DEF HookInv, VerbTypes

LEMMA BeginStep ==
  ASSUME HookInv, NEW name \in DOMAIN Rows, NEW w \in Checkouts, NEW stray \in BOOLEAN, Begin(name, w, stray)
  PROVE  HookInv'
<1> DEFINE s0 == IF Rows[name].event = "none" THEN "body" ELSE "pre"
           start == [Idle EXCEPT !.name = name, !.where = w, !.conf = config.file, !.stage = s0]
<1>0. config.file \in 0 .. Len(Declared) /\ s0 \in Stages /\ s0 \in {"pre", "body"} /\ "done" \in Stages
  BY DEF HookInv, VerbTypes, Configs, Stages
<1>1. /\ Idle.todo = <<>> /\ Idle.from = NoBundle.from /\ Idle.ran = {} /\ Idle.body = FALSE /\ Idle.swapped = FALSE
  BY DEF Idle
<1>2. verb' \in {[start EXCEPT !.stage = "done", !.exit = 1],
                 [start EXCEPT !.stage = "done", !.exit = Rows[name].openFails], start}
  BY DEF Begin
<1> HIDE DEF s0
<1>3. /\ start \in Verb /\ start.stage = s0 /\ start.conf = config.file /\ start.todo = <<>> /\ start.from = NoBundle.from
      /\ start.ran = {} /\ start.body = FALSE /\ start.swapped = FALSE
  BY <1>0, <1>1, IdleVerb DEF Verb
<1>4. UNCHANGED files /\ config' = config
  BY DEF Begin
<1>5. 1 \in Exits /\ Rows[name].openFails \in Exits
  BY DEF Exits
<1> HIDE DEF start
<1>6. ASSUME NEW x \in Exits, verb' = [start EXCEPT !.stage = "done", !.exit = x]  PROVE HookInv'
  <2>1. /\ verb' \in Verb /\ verb'.stage = "done" /\ verb'.todo = <<>> /\ verb'.from = NoBundle.from
        /\ verb'.ran = {} /\ verb'.body = FALSE /\ verb'.swapped = FALSE
    BY <1>0, <1>3, <1>6 DEF Verb
  <2> QED BY <1>4, <2>1, Afresh
<1>7. CASE verb' = start
  BY <1>0, <1>3, <1>4, <1>7, Afresh
<1> QED BY <1>2, <1>5, <1>6, <1>7

LEMMA OverStep == HookInv /\ Over => HookInv'
<1> SUFFICES ASSUME HookInv, Over PROVE HookInv'
  OBVIOUS
<1>1. /\ Idle.stage = "idle" /\ Idle.todo = <<>> /\ Idle.from = NoBundle.from /\ Idle.ran = {} /\ Idle.body = FALSE
      /\ Idle.swapped = FALSE
  BY DEF Idle
<1>2. verb' = Idle /\ UNCHANGED files /\ config' = config
  BY DEF Over
<1> QED BY <1>1, <1>2, IdleVerb, Afresh

\* A step of the run itself that leaves its files, its configuration and what it
\* is of.
LEMMA GateStep == ASSUME HookInv, NEW phase \in {"pre", "post"}, HookGate(phase) PROVE HookInv'
<1>0. /\ verb \in Verb /\ verb.stage = phase /\ verb.conf \in 0 .. Len(Declared) /\ UNCHANGED files
      /\ config' = config /\ verb.todo = <<>> /\ verb.where \in Checkouts
  BY DEF HookInv, VerbTypes, Verb, HookGate, Courses
<1>1. /\ FiredNow(phase) \in Seq(HookEntries) /\ FiredNow(phase) \in Seq(Named(Loaded, <<phase, Row.event>>))
      /\ Contains(<<>>, InstallTop) => FALSE
  BY <1>0, FiredNowFacts DEF Contains
<1> DEFINE t == IF phase = "pre" THEN "pre hooks" ELSE "post hooks"
           fired == FiredNow(phase)
<1>2. \/ verb' = [verb EXCEPT !.stage = t, !.todo = fired] /\ (fired = <<>> \/ EnsureAllowed)
      \/ verb' = [verb EXCEPT !.stage = "done", !.exit = 1, !.todo = <<>>] /\ phase = "pre"
      \/ verb' = [verb EXCEPT !.stage = "post hooks", !.warned = TRUE] /\ phase = "post"
  <2>1. CASE fired = <<>> \/ EnsureAllowed
    <3>1. verb' = [[verb EXCEPT !.stage = t] EXCEPT !.todo = fired]
      BY <2>1 DEF HookGate
    <3>2. \A f : [[verb EXCEPT !.stage = t] EXCEPT !.todo = f] = [verb EXCEPT !.stage = t, !.todo = f]
      OBVIOUS
    <3> HIDE DEF t, fired
    <3>3. verb' = [verb EXCEPT !.stage = t, !.todo = fired]
      BY <3>1, <3>2
    <3> QED BY <2>1, <3>3
  <2>2. CASE ~(fired = <<>> \/ EnsureAllowed) /\ phase = "pre"
    BY <2>2 DEF HookGate, Done
  <2>3. CASE ~(fired = <<>> \/ EnsureAllowed) /\ phase = "post"
    <3>1. verb' = [[verb EXCEPT !.stage = t] EXCEPT !.warned = TRUE]
      BY <2>3 DEF HookGate
    <3>2. \A f : [[verb EXCEPT !.stage = f] EXCEPT !.warned = TRUE] = [verb EXCEPT !.stage = f, !.warned = TRUE]
      OBVIOUS
    <3>3. t = "post hooks"
      BY <2>3
    <3> HIDE DEF t, fired
    <3> QED BY <2>3, <3>1, <3>2, <3>3
  <2> QED BY <2>1, <2>2, <2>3
<1>3. t \in Stages /\ "done" \in Stages /\ "post hooks" \in Stages /\ 1 \in Exits /\ << >> \in Seq(HookEntries)
  BY EmptySeq DEF Stages, Exits
<1>4. /\ verb' \in Verb
      /\ verb'.name = verb.name /\ verb'.where = verb.where /\ verb'.conf = verb.conf /\ verb'.from = verb.from
      /\ verb'.ran = verb.ran /\ verb'.body = verb.body /\ verb'.fresh = verb.fresh /\ verb'.swapped = verb.swapped
  <2> HIDE DEF t, fired
  <2> QED BY <1>0, <1>1, <1>2, <1>3 DEF Verb, fired
<1>5. \/ verb'.stage = t /\ verb'.todo = fired /\ (fired = <<>> \/ EnsureAllowed) /\ verb'.warned = verb.warned /\ verb'.exit = verb.exit
      \/ verb'.stage = "done" /\ verb'.todo = <<>> /\ phase = "pre"
      \/ verb'.stage = "post hooks" /\ verb'.todo = <<>> /\ phase = "post" /\ verb'.warned /\ verb'.exit = verb.exit
  <2> HIDE DEF t, fired
  <2> QED BY <1>0, <1>2 DEF Verb
<1>6. Row' = Row /\ FiredNow("post")' = FiredNow("post") /\ \A p : Vouches(p)' = Vouches(p)
  BY <1>0, <1>4, FiredStays
<1>7. phase = "pre" => ~verb.body /\ \A ran \in verb.ran : ran[1] = "pre"
  BY <1>0 DEF HookInv, Courses
<1>8. phase = "post" => verb.body /\ verb.exit \in {ExitCode(e) : e \in Row.ends}
  BY <1>0 DEF HookInv, Courses
<1> HIDE DEF fired
<1>9. Courses'
  <2>1. CASE phase = "pre"
    BY <2>1, <1>0, <1>4, <1>5, <1>6, <1>7 DEF Courses
  <2>2. CASE phase = "post"
    BY <2>2, <1>0, <1>4, <1>5, <1>6, <1>8 DEF Courses
  <2> QED BY <2>1, <2>2
<1>10. Vouched'
  <2> SUFFICES ASSUME verb'.fresh PROVE Vouched'
    BY DEF Vouched
  <2>1. /\ phase = "pre" => verb.conf = config.file
        /\ phase = "post" => verb.conf = config.file \/ config.file \in Grown(Loaded)
        /\ \A ran \in verb.ran : ran[2] \in Vouches(ran[1])
    BY <1>0, <1>4 DEF HookInv, Vouched
  <2>2. ASSUME EnsureAllowed  PROVE Named(Loaded, <<phase, Row.event>>) \subseteq Vouches(phase)
    <3>1. config.file \in 1 .. Len(Declared) /\ Recorded = Declared[config.file]
      BY <2>2, DeclaredFacts DEF EnsureAllowed, HookInv, VerbTypes, Configs, Recorded
    <3>2. CASE verb.conf = config.file
      BY <3>1, <3>2 DEF Vouches, Loaded
    <3>3. CASE config.file \in Grown(Loaded)
      <4>1. Recorded = Append(Loaded, ProposedHook("top"))
        BY <3>1, <3>3 DEF Grown
      <4>2. ProposedHook("top") \in HookRows
        BY DEF ProposedHook, HookRows, HookableCommands
      <4>3. Loaded \in Seq(HookRows)
        BY <1>0, FiredNowFacts
      <4> QED BY <4>1, <4>2, <4>3, NamedFacts DEF Vouches
    <3> QED BY <2>1, <3>2, <3>3
  <2>3. \A ran \in verb'.ran : ran[2] \in Vouches(ran[1])'
    BY <1>4, <1>6, <2>1
  <2>4. ASSUME InHooks'  PROVE verb'.todo \in Seq(Vouches(Phase))'
    <3>1. verb'.stage = t /\ verb'.todo = fired /\ fired # <<>> /\ EnsureAllowed
      BY <2>4, <1>5 DEF InHooks
    <3>2. Phase' = phase
      BY <3>1, <1>0 DEF Phase
    <3>3. Vouches(Phase)' = Vouches(phase)
      BY <3>2, <1>0, <1>4 DEF Vouches, Row, Recorded
    <3>4. fired \in Seq(Vouches(phase))
      BY <1>1, <2>2, <3>1, SeqWidens DEF fired
    <3> QED BY <3>1, <3>3, <3>4
  <2>5. verb'.stage \in {"pre", "pre hooks", "body"} => phase = "pre"
    BY <1>0, <1>5
  <2>6. verb'.stage # "post"
    BY <1>0, <1>5
  <2> QED BY <2>1, <2>3, <2>4, <2>5, <2>6, <1>0, <1>4 DEF Vouched
<1>11. Installed'
  <2>1. Built(verb.where)' = Built(verb.where)
    BY <1>0, <1>4 DEF Built, files
  <2>2. phase = "pre" => ~verb'.body
    BY <1>4, <1>7
  <2>3. phase = "post" => verb'.warned \/ verb'.todo = FiredNow("post")
    BY <1>5 DEF fired
  <2>4. phase = "post" => verb'.stage = "post hooks"
    BY <1>5
  <2>5. CurrentIn(verb.where)' = CurrentIn(verb.where)
    BY <1>0, <1>4 DEF CurrentIn, Bundle, Selected, Own, Rooted, files
  <2> QED BY <2>1, <2>2, <2>3, <2>4, <2>5, <1>4, <1>6 DEF HookInv, Installed
<1> QED BY <1>0, <1>4, <1>9, <1>10, <1>11, QuietFiles DEF HookInv, VerbTypes

LEMMA HooksEndStep == HookInv /\ HooksEnd => HookInv'
<1> SUFFICES ASSUME HookInv, HooksEnd PROVE HookInv'
  OBVIOUS
<1> DEFINE t == IF verb.stage = "pre hooks" THEN "body" ELSE "done"
<1>0. /\ verb \in Verb /\ verb.stage \in {"pre hooks", "post hooks"} /\ verb.todo = <<>> /\ UNCHANGED files /\ config' = config
  BY DEF HookInv, VerbTypes, HooksEnd
<1>1. verb' = [verb EXCEPT !.stage = t] /\ t \in Stages
  BY DEF HooksEnd, Stages
<1>2. t = IF verb.stage = "pre hooks" THEN "body" ELSE "done"
  OBVIOUS
<1> HIDE DEF t
<1>3. /\ verb' \in Verb /\ verb'.stage = t /\ verb'.name = verb.name /\ verb'.where = verb.where /\ verb'.conf = verb.conf
      /\ verb'.todo = verb.todo /\ verb'.from = verb.from /\ verb'.ran = verb.ran /\ verb'.warned = verb.warned
      /\ verb'.body = verb.body /\ verb'.exit = verb.exit /\ verb'.fresh = verb.fresh /\ verb'.swapped = verb.swapped
  BY <1>0, <1>1 DEF Verb
<1>4. Row' = Row /\ FiredNow("post")' = FiredNow("post") /\ ~Contains(<<>>, InstallTop)
      /\ \A phase : Vouches(phase)' = Vouches(phase)
  <2>1. ~Contains(<<>>, InstallTop)
    BY DEF Contains
  <2> QED BY <2>1, <1>0, <1>3, FiredStays
<1>5. Built(verb.where)' = Built(verb.where) /\ CurrentIn(verb.where)' = CurrentIn(verb.where)
  BY <1>0, <1>3 DEF CurrentIn, Bundle, Selected, Own, Rooted, Built, files
<1>6. Courses'
  BY <1>0, <1>2, <1>3, <1>4 DEF HookInv, Courses
<1>7. Vouched'
  BY <1>0, <1>2, <1>3, <1>4 DEF HookInv, Vouched, InHooks
<1>8. Installed'
  BY <1>0, <1>2, <1>3, <1>4, <1>5 DEF HookInv, Installed, Courses
<1> QED BY <1>0, <1>3, <1>6, <1>7, <1>8, QuietFiles DEF HookInv, VerbTypes

LEMMA InitEvent == "init" \in DOMAIN Rows /\ Rows["init"].event = "init"
<1>1. Rows["init"] = InitVerb
  BY DEF Rows
<1>2. InitVerb.event = "init"
  BY DEF InitVerb, Hooked, PlainVerb
<1> QED BY <1>1, <1>2 DEF Rows

LEMMA BodyStep == HookInv /\ BodyEnds => HookInv'
<1> SUFFICES ASSUME HookInv, BodyEnds PROVE HookInv'
  OBVIOUS
<1> DEFINE t == IF Row.event = "none" THEN "done" ELSE "post"
<1>0. /\ verb \in Verb /\ verb.stage = "body" /\ verb.todo = <<>> /\ ~verb.body /\ UNCHANGED files
      /\ verb.conf \in 0 .. Len(Declared) /\ verb.name \in DOMAIN Rows
  BY DEF HookInv, VerbTypes, Verb, Courses, BodyEnds
<1>1. PICK e \in Row.ends : verb' = [verb EXCEPT !.stage = t, !.body = TRUE, !.exit = ExitCode(e)]
  BY DEF BodyEnds
<1> DEFINE x == ExitCode(e)
<1>2. x \in {ExitCode(f) : f \in Row.ends} /\ x \in Exits
  BY <1>0 DEF Row, Exits
<1>3. verb' = [verb EXCEPT !.stage = t, !.body = TRUE, !.exit = x] /\ t \in Stages /\ t = IF Row.event = "none" THEN "done" ELSE "post"
  BY <1>1 DEF Stages
<1> HIDE DEF t, x
<1>4. /\ verb' \in Verb /\ verb'.stage = t /\ verb'.name = verb.name /\ verb'.where = verb.where /\ verb'.conf = verb.conf
      /\ verb'.todo = verb.todo /\ verb'.from = verb.from /\ verb'.ran = verb.ran /\ verb'.warned = verb.warned
      /\ verb'.body = TRUE /\ verb'.exit = x /\ verb'.fresh = verb.fresh /\ verb'.swapped = verb.swapped
  BY <1>0, <1>2, <1>3 DEF Verb
<1>5. /\ Row' = Row /\ FiredNow("post")' = FiredNow("post") /\ Loaded' = Loaded
      /\ config'.record = config.record => \A phase : Vouches(phase)' = Vouches(phase)
  BY <1>4, FiredStays
<1>6. ~Contains(<<>>, InstallTop) /\ (Row.event = "none" => FiredNow("post") = <<>>)
  BY <1>0, FiredNowFacts DEF Contains
<1>7. Built(verb.where)' = Built(verb.where)
  BY <1>0, <1>4 DEF Built, files
\* init may have written its configuration anew, but never the record.
<1>8. /\ config' \in Configs /\ config'.record = config.record
      /\ config'.file = config.file \/ (Row.event # "none" /\ config'.file \in Grown(Loaded))
  <2>1. Grown(Loaded) \subseteq 0 .. Len(Declared)
    BY DeclaredFacts DEF Grown
  <2>2. verb.name = "init" => Row.event # "none"
    BY InitEvent DEF Row
  <2>3. config' = config \/ (verb.name = "init" /\ \E v \in Grown(Loaded) : config' = [config EXCEPT !.file = v])
    BY DEF BodyEnds
  <2> QED BY <2>1, <2>2, <2>3 DEF HookInv, VerbTypes, Configs
<1>9. Courses'
  BY <1>0, <1>2, <1>3, <1>4, <1>5 DEF HookInv, Courses
<1>10. Vouched'
  <2>1. \A phase : Vouches(phase)' = Vouches(phase)
    BY <1>5, <1>8
  <2>2. verb.fresh => verb.conf = config.file /\ \A ran \in verb.ran : ran[2] \in Vouches(ran[1])
    BY <1>0 DEF HookInv, Vouched
  <2> QED BY <2>1, <2>2, <1>0, <1>3, <1>4, <1>5, <1>8 DEF Vouched, InHooks
<1>11. Installed'
  <2>1. CurrentIn(verb.where)' = CurrentIn(verb.where)
    BY <1>0, <1>4 DEF CurrentIn, Bundle, Selected, Own, Rooted, files
  <2> QED BY <2>1, <1>0, <1>3, <1>4, <1>5, <1>6, <1>7 DEF HookInv, Installed
<1> QED BY <1>0, <1>4, <1>8, <1>9, <1>10, <1>11, QuietFiles DEF HookInv, VerbTypes

LEMMA HookStep == HookInv /\ [HooksNext]_hookVars => HookInv'
<1> SUFFICES ASSUME HookInv, [HooksNext]_hookVars PROVE HookInv'
  OBVIOUS
<1>1. CASE UNCHANGED hookVars
  <2>1. UNCHANGED files /\ verb' = verb /\ config' = config
    BY <1>1 DEF hookVars, files
  <2>2. Row' = Row /\ FiredNow("post")' = FiredNow("post") /\ Loaded' = Loaded /\ \A phase : Vouches(phase)' = Vouches(phase)
    BY <2>1, FiredStays
  <2>3. Built(verb.where)' = Built(verb.where) /\ CurrentIn(verb.where)' = CurrentIn(verb.where)
    BY <2>1 DEF CurrentIn, Bundle, Selected, Own, Rooted, Built, files
  <2>5. Vouches(Phase)' = Vouches(Phase) /\ (InHooks' <=> InHooks)
    BY <2>1 DEF Vouches, Row, Recorded, Phase, InHooks
  <2>6. Vouched'
    BY <2>1, <2>2, <2>5 DEF HookInv, Vouched
  <2>4. Courses' /\ Vouched' /\ Installed' /\ VerbTypes'
    BY <2>1, <2>2, <2>3, <2>6 DEF HookInv, Courses, Installed, VerbTypes
  <2> QED BY <2>1, <2>4, QuietFiles DEF HookInv
<1> QED BY <1>1, BeginStep, GateStep, CheckStep, SkippedStep, BuildsStep, SwapsStep, InstallEndsStep, HooksEndStep, BodyStep, OverStep,
           OperatorStep DEF HooksNext

LEMMA HooksAlways == HooksInit /\ [][HooksNext]_hookVars => []HookInv
  BY HookInitInv, HookStep, PTL

\* Whatever hooks the configurations declare, nothing runs that is not vouched for,
\* and no hook changes how a verb ends.
THEOREM GatesHold == HooksInit /\ [][HooksNext]_hookVars => []HooksAreGated
<1>1. HookInv => HooksAreGated
  <2> SUFFICES ASSUME HookInv PROVE HooksAreGated
    OBVIOUS
  <2>1. verb.fresh => \A ran \in verb.ran : ran[2] \in Named(Recorded, <<ran[1], Row.event>>)
    BY DEF HookInv, Vouched, Vouches
  <2>2. ~verb.body => \A ran \in verb.ran : ran[1] = "pre"
    BY DEF HookInv, Courses
  <2>3. verb.body => verb.exit \in {ExitCode(e) : e \in Row.ends}
    BY DEF HookInv, Courses
  <2> QED BY <2>1, <2>2, <2>3 DEF HooksAreGated
<1> QED BY <1>1, HooksAlways, PTL

\* An install that was not disturbed left the hooks of the checkout as it is.
THEOREM InstallIsCurrent == HooksInit /\ [][HooksNext]_hookVars => []InstalledMeansCurrent
<1>1. HookInv => InstalledMeansCurrent
  BY DEF HookInv, Installed, InstalledMeansCurrent, CurrentIn, InstallTop
<1> QED BY <1>1, HooksAlways, PTL

\* Where the doctor has nothing to say, a commit runs the hooks, but for the two
\* kinds of hooksPath that it takes on trust.
THEOREM DoctorIsRight == HooksInit /\ [][HooksNext]_hookVars => []DoctorIsHonest
<1>1. HookInv => DoctorIsHonest
  BY HonestDoctor DEF HookInv
<1> QED BY <1>1, HooksAlways, PTL

-----------------------------------------------------------------------------
(* The activity machine.                                                   *)

Tracked == Drvs \cup Substs \cup Waits
Acts == Tracked \cup Copies \cup Aggs
Lines == [ev : {"start", "stop", "fail", "error", "progress"}, of : Acts \cup {"run"},
          v : {0} \cup Values \cup DrvKinds \cup RunKinds]

Spans == [act : Tracked, err : DrvKinds \cup {"no", "aborted"}, instant : BOOLEAN,
          spans : {0, 1}, bytes : {0} \cup Values]

StreamTypes ==
  /\ log \in Seq(Lines)
  /\ held \subseteq Drvs /\ copies \subseteq Copies /\ active \subseteq Tracked
  /\ failed \in [Drvs -> DrvKinds \cup {"no"}]
  /\ aggs \in [Aggs -> [seen : BOOLEAN, nested : BOOLEAN, last : {0} \cup Values, open : BOOLEAN]]
  /\ bytes \in [Substs -> {0} \cup Values]
  /\ kinds \subseteq DrvKinds \cup RunKinds
  /\ emitted \subseteq Spans
  /\ metrics \in [built : Nat, failed : Nat, substituted : Nat, timed : Nat]

\* What the machine remembers is what the log says so far.
Copying(c) ==
  \E j \in DOMAIN log :
    At(j, "start", c) /\ Before(j, "start", CopyOf[c]) /\ ~Before(j, "stop", CopyOf[c])
Plain ==
  \A i \in DOMAIN log : /\ log[i].ev \in {"start", "stop"} => log[i].v = 0
                        /\ log[i].ev = "fail" => log[i].v \in DrvKinds
Remembered ==
  /\ Plain
  /\ \A x \in Acts : Stopped(x) => Started(x)
  /\ \A d \in Drvs : failed[d] = IF Said(d) = {} THEN "no" ELSE log[Min(Said(d))].v
  /\ \A d \in Drvs : failed[d] # "no" => failed[d] \in kinds
  /\ copies = {c \in Copies : Started(c) /\ ~Stopped(c) /\ Copying(c)}
Folded ==
  /\ \A s \in Substs : bytes[s] = LastValue(About(s))
  /\ \A g \in Aggs : /\ aggs[g].seen <=> Reports(g) # {}
                     /\ aggs[g].nested <=> Inner(g)
                     /\ aggs[g].last = LastValue(Reports(g))
                     /\ aggs[g].open <=> Started(g)

\* One span per activity that is over, with the outcome known of it.
Ended(x) == IF x \in Drvs THEN failed[x] # "no" /\ x \notin active ELSE Stopped(x)
Running ==
  /\ active = {x \in Tracked : Started(x) /\ ~Stopped(x)}
  /\ held = {d \in Drvs : Stopped(d) /\ failed[d] = "no"}
  /\ {a.act : a \in emitted} = {x \in Tracked : Ended(x)}
  /\ \A a \in emitted : a.err = IF a.act \in Drvs THEN failed[a.act] ELSE "no"
Finished ==
  /\ {a.act : a \in emitted} = Seen
  /\ \A a \in emitted : a.err = Verdict(a.act)
  /\ (\E a \in emitted : a.err \in DrvKinds) => kind \in DrvKinds \cup {"signal", "none"}
Spanned ==
  /\ \A a, b \in emitted : a.act = b.act => a = b
  /\ \A a \in emitted : a.instant = ~Started(a.act)
  /\ \A a \in emitted : a.bytes = IF a.act \in Substs THEN bytes[a.act] ELSE 0
  /\ \A a \in emitted : a.spans = IF a.act \in brief THEN 0 ELSE 1
  /\ \A s \in brief : s \in Substs /\ Stopped(s)

\* The metrics count the builds and substitutions that were not aborted.
Builds(S) == {a \in S : a.act \in Drvs /\ a.err # "aborted"}
Fetched(S) == {a \in S : a.act \in Substs /\ a.err # "aborted"}
Counts ==
  /\ IsFiniteSet(emitted) /\ IsFiniteSet(active) /\ IsFiniteSet(held)
  /\ metrics.built + metrics.failed = Cardinality(Builds(emitted))
  /\ metrics.timed = Cardinality({a \in Builds(emitted) : ~a.instant})
  /\ metrics.substituted = Cardinality(Fetched(emitted))

StreamInv ==
  /\ StreamTypes /\ Remembered /\ Folded /\ Spanned /\ Counts
  /\ kind = "running" => Running
  /\ kind # "running" => Finished

-----------------------------------------------------------------------------
(* Lemmas.                                                                 *)

\* What nix reports of is one of five things.
LEMMA Disjoint ==
  /\ Drvs \cap Substs = {} /\ Drvs \cap Waits = {} /\ Drvs \cap Copies = {} /\ Drvs \cap Aggs = {}
  /\ Substs \cap Waits = {} /\ Substs \cap Copies = {} /\ Substs \cap Aggs = {}
  /\ Waits \cap Copies = {} /\ Waits \cap Aggs = {} /\ Copies \cap Aggs = {}
<1>1. \A i, j \in 1 .. 5 : i # j => Activities[i] \cap Activities[j] = {}
  BY NixLogAssumption
<1>2. /\ Activities[1] = Drvs /\ Activities[2] = Substs /\ Activities[3] = Waits
      /\ Activities[4] = Copies /\ Activities[5] = Aggs
  BY DEF Activities
<1> QED BY <1>1, <1>2

\* A line is added at the end of the log.
Says(ev, x, v) ==
  /\ Read(ev, x, v) /\ [ev |-> ev, of |-> x, v |-> v] \in Lines
  /\ ev \in {"start", "stop"} => v = 0
  /\ ev = "fail" => v \in DrvKinds
LEMMA Grows ==
  ASSUME NEW n \in Nat, n = Len(log),
         log \in Seq(Lines), Plain, NEW ev, NEW x, NEW v, Says(ev, x, v)
  PROVE  /\ log' \in Seq(Lines) /\ Plain' /\ kind' = kind /\ kind = "running"
         /\ DOMAIN log = 1 .. n /\ DOMAIN log' = 1 .. n + 1
         /\ \A i \in 1 .. n : log'[i] = log[i]
         /\ log'[n + 1] = [ev |-> ev, of |-> x, v |-> v]
<1> DEFINE line == [ev |-> ev, of |-> x, v |-> v]
<1>1. log' = Append(log, line) /\ kind' = kind /\ kind = "running" /\ line \in Lines
  BY DEF Read, Says
<1>2. line.ev = ev /\ line.v = v
  OBVIOUS
<1> HIDE DEF line
<1>3. /\ log' \in Seq(Lines) /\ DOMAIN log = 1 .. n /\ DOMAIN log' = 1 .. n + 1
      /\ \A i \in 1 .. n : log'[i] = log[i]
      /\ log'[n + 1] = line
  BY <1>1
<1>4. Plain'
  BY <1>2, <1>3 DEF Plain, Says
<1> QED BY <1>1, <1>3, <1>4 DEF line

\* What an earlier line says stays, and the new one says what it says.
LEMMA Reading ==
  ASSUME NEW n \in Nat, n = Len(log),
         log \in Seq(Lines), Plain, NEW ev, NEW x, NEW v, Says(ev, x, v)
  PROVE  /\ \A e, y : \A j \in 1 .. n : At(j, e, y)' <=> At(j, e, y)
         /\ \A e, y : At(n + 1, e, y)' <=> e = ev /\ y = x
         /\ \A e, y : \A j \in 1 .. n : Before(j, e, y)' <=> Before(j, e, y)
         /\ \A e, y : Before(n + 1, e, y)' <=> Before(n, e, y) \/ (e = ev /\ y = x)
<1>1. /\ \A i \in 1 .. n : log'[i] = log[i]
      /\ log'[n + 1].ev = ev /\ log'[n + 1].of = x
  <2>1. /\ \A i \in 1 .. n : log'[i] = log[i]
        /\ log'[n + 1] = [ev |-> ev, of |-> x, v |-> v]
    BY Grows
  <2> QED BY <2>1
<1>2. \A e, y : \A j \in 1 .. n : At(j, e, y)' <=> At(j, e, y)
  BY <1>1 DEF At
<1>3. \A e, y : At(n + 1, e, y)' <=> e = ev /\ y = x
  BY <1>1 DEF At
<1>4. \A e, y : \A j \in 1 .. n : Before(j, e, y)' <=> Before(j, e, y)
  BY <1>1, <1>2 DEF Before
<1>5. \A e, y : Before(n + 1, e, y)' <=> Before(n, e, y) \/ (e = ev /\ y = x)
  <2> SUFFICES ASSUME NEW e, NEW y
               PROVE  Before(n + 1, e, y)' <=> Before(n, e, y) \/ (e = ev /\ y = x)
    OBVIOUS
  <2>1. 1 .. n + 1 = 1 .. n \cup {n + 1}
    BY <1>1
  <2> QED BY <2>1, <1>2, <1>3 DEF Before
<1> QED BY <1>2, <1>3, <1>4, <1>5

LEMMA StartedIs ==
  ASSUME NEW n \in Nat, n = Len(log), log \in Seq(Lines), Plain
  PROVE  /\ \A y : Started(y) <=> Before(n, "start", y)
         /\ \A y : Stopped(y) <=> Before(n, "stop", y)
<1>1. /\ DOMAIN log = 1 .. n /\ \A i \in 1 .. n : log[i] \in Lines
      /\ \A i \in 1 .. n : log[i].ev \in {"start", "stop"} => log[i].v = 0
  BY DEF Plain
<1>2. \A i \in 1 .. n : \A e, y, w : log[i] = [ev |-> e, of |-> y, v |-> w]
                            <=> log[i].ev = e /\ log[i].of = y /\ log[i].v = w
  BY <1>1 DEF Lines
<1>3. \A y : \A i \in 1 .. n : /\ log[i] = [ev |-> "start", of |-> y, v |-> 0] <=> At(i, "start", y)
                               /\ log[i] = [ev |-> "stop", of |-> y, v |-> 0] <=> At(i, "stop", y)
  BY <1>1, <1>2 DEF At
<1> QED BY <1>1, <1>3 DEF Started, Stopped, Before

\* What the new line changes of what the log says.
LEMMA ReadingMore ==
  ASSUME NEW n \in Nat, n = Len(log),
         log \in Seq(Lines), Plain, NEW ev, NEW x, NEW v, Says(ev, x, v)
  PROVE  /\ \A y : Started(y)' <=> Started(y) \/ (ev = "start" /\ y = x)
         /\ \A y : Stopped(y)' <=> Stopped(y) \/ (ev = "stop" /\ y = x)
         /\ \A y : Said(y)' = Said(y) \cup (IF ev = "fail" /\ y = x THEN {n + 1} ELSE {})
         /\ \A y : Reports(y)' = Reports(y) \cup (IF ev = "progress" /\ y = x THEN {n + 1} ELSE {})
         /\ \A y : Copying(y)' <=> Copying(y) \/ (/\ ev = "start" /\ y = x
                                                  /\ Started(CopyOf[y]) \/ CopyOf[y] = x
                                                  /\ ~Stopped(CopyOf[y]))
<1>1. /\ DOMAIN log = 1 .. n /\ DOMAIN log' = 1 .. n + 1 /\ log' \in Seq(Lines) /\ Plain'
      /\ \A i \in 1 .. n : log'[i] = log[i]
      /\ log'[n + 1] = [ev |-> ev, of |-> x, v |-> v]
  BY Grows
<1>2. /\ \A e, y : \A j \in 1 .. n : At(j, e, y)' <=> At(j, e, y)
      /\ \A e, y : At(n + 1, e, y)' <=> e = ev /\ y = x
      /\ \A e, y : \A j \in 1 .. n : Before(j, e, y)' <=> Before(j, e, y)
      /\ \A e, y : Before(n + 1, e, y)' <=> Before(n, e, y) \/ (e = ev /\ y = x)
  BY Reading
<1>3. 1 .. n + 1 = 1 .. n \cup {n + 1} /\ n + 1 \notin 1 .. n
  OBVIOUS
<1>4. /\ \A y : Started(y) <=> Before(n, "start", y)
      /\ \A y : Stopped(y) <=> Before(n, "stop", y)
  BY StartedIs
<1>5. /\ \A y : Started(y)' <=> Started(y) \/ (ev = "start" /\ y = x)
      /\ \A y : Stopped(y)' <=> Stopped(y) \/ (ev = "stop" /\ y = x)
  <2>1. \A e, y : log'[n + 1] = [ev |-> e, of |-> y, v |-> 0] <=> e = ev /\ y = x /\ v = 0
    BY <1>1
  <2>2. \A e, y : (\E i \in DOMAIN log' : log'[i] = [ev |-> e, of |-> y, v |-> 0])
                  <=> \/ \E i \in DOMAIN log : log[i] = [ev |-> e, of |-> y, v |-> 0]
                      \/ e = ev /\ y = x /\ v = 0
    <3> DEFINE R(e, y) == [ev |-> e, of |-> y, v |-> 0]
    <3> SUFFICES ASSUME NEW e, NEW y
                 PROVE  (\E i \in DOMAIN log' : log'[i] = R(e, y))
                        <=> (\E i \in DOMAIN log : log[i] = R(e, y)) \/ (e = ev /\ y = x /\ v = 0)
      OBVIOUS
    <3>1. log'[n + 1] = R(e, y) <=> e = ev /\ y = x /\ v = 0
      BY <2>1
    <3> HIDE DEF R
    <3> QED BY <3>1, <1>1, <1>3
  <2> QED BY <2>2 DEF Started, Stopped, Says
<1>6. \A y : Said(y)' = Said(y) \cup (IF ev = "fail" /\ y = x THEN {n + 1} ELSE {})
  BY <1>1, <1>3 DEF Said
<1>7. \A y : Reports(y)' = Reports(y) \cup (IF ev = "progress" /\ y = x THEN {n + 1} ELSE {})
  BY <1>1, <1>2, <1>3 DEF Reports
<1>8. \A y : Copying(y)' <=> Copying(y) \/ (/\ ev = "start" /\ y = x
                                            /\ Started(CopyOf[y]) \/ CopyOf[y] = x
                                            /\ ~Stopped(CopyOf[y]))
  BY <1>1, <1>2, <1>3, <1>4 DEF Copying
<1> QED BY <1>5, <1>6, <1>7, <1>8

\* The last and the first of some lines.
LEMMA FirstAndLast ==
  ASSUME NEW n \in Nat, NEW S \in SUBSET (1 .. n)
  PROVE  /\ Max(S \cup {n + 1}) = n + 1 /\ Min({n + 1}) = n + 1
         /\ S # {} => Max(S) \in S /\ Min(S) \in S /\ Min(S \cup {n + 1}) = Min(S)
<1>1. Max(S \cup {n + 1}) = n + 1 /\ Min({n + 1}) = n + 1
  <2>1. /\ \A j \in S \cup {n + 1} : n + 1 >= j
        /\ \A k \in S \cup {n + 1} : (\A j \in S \cup {n + 1} : k >= j) => k = n + 1
    OBVIOUS
  <2>2. /\ \A j \in {n + 1} : n + 1 <= j
        /\ \A k \in {n + 1} : k = n + 1
    OBVIOUS
  <2>3. Max(S \cup {n + 1}) = n + 1
    BY <2>1 DEF Max
  <2>4. Min({n + 1}) = n + 1
    BY <2>2 DEF Min
  <2> QED BY <2>3, <2>4
<1>2. ASSUME S # {}  PROVE Max(S) \in S /\ Min(S) \in S /\ Min(S \cup {n + 1}) = Min(S)
  <2>1. PICK i \in S : \A j \in S : i <= j
    BY <1>2, LeastOf
  <2>2. Min(S) = i
    <3>1. \A k \in S : (\A j \in S : k <= j) => k = i
      BY <2>1
    <3> QED BY <2>1, <3>1 DEF Min
  <2>3. Min(S \cup {n + 1}) = i
    <3>1. i \in S \cup {n + 1} /\ \A j \in S \cup {n + 1} : i <= j
      BY <2>1
    <3>2. \A k \in S \cup {n + 1} : (\A j \in S \cup {n + 1} : k <= j) => k = i
      BY <2>1
    <3> QED BY <3>1, <3>2 DEF Min
  <2>4. Max(S) \in S
    <3> DEFINE T == {n - j : j \in S}
    <3>1. T \in SUBSET Nat /\ T # {}
      BY <1>2
    <3>2. PICK t \in T : \A u \in T : t <= u
      BY <3>1, LeastOf
    <3>3. PICK m \in S : t = n - m
      BY <3>2
    <3>4. \A j \in S : m >= j
      BY <3>2, <3>3
    <3> QED BY <3>3, <3>4 DEF Max
  <2> QED BY <2>2, <2>3, <2>4
<1> QED BY <1>1, <1>2

LEMMA AboutGrows ==
  ASSUME NEW n \in Nat, n = Len(log),
         log \in Seq(Lines), Plain, NEW ev, NEW x, NEW v, Says(ev, x, v)
  PROVE  /\ \A s \in Substs : About(s)' = About(s) \cup
                 (IF /\ ev = "progress" /\ Started(s) /\ ~Stopped(s)
                     /\ \/ x = s
                        \/ /\ x \in Copies /\ CopyOf[x] = s /\ Started(x) /\ ~Stopped(x) /\ Copying(x)
                    THEN {n + 1} ELSE {})
         /\ \A s : About(s) \subseteq 1 .. n
         /\ \A y : Reports(y) \subseteq 1 .. n
         /\ \A y : Said(y) \subseteq 1 .. n
<1>1. /\ DOMAIN log = 1 .. n /\ DOMAIN log' = 1 .. n + 1
      /\ \A i \in 1 .. n : log'[i] = log[i]
      /\ log'[n + 1] = [ev |-> ev, of |-> x, v |-> v]
  BY Grows
<1>2. /\ \A e, y : \A j \in 1 .. n : At(j, e, y)' <=> At(j, e, y)
      /\ \A e, y : At(n + 1, e, y)' <=> e = ev /\ y = x
      /\ \A e, y : \A j \in 1 .. n : Before(j, e, y)' <=> Before(j, e, y)
      /\ \A e, y : Before(n + 1, e, y)' <=> Before(n, e, y) \/ (e = ev /\ y = x)
  BY Reading
<1>3. 1 .. n + 1 = 1 .. n \cup {n + 1} /\ n + 1 \notin 1 .. n
  OBVIOUS
<1>4. /\ \A y : Started(y) <=> Before(n, "start", y)
      /\ \A y : Stopped(y) <=> Before(n, "stop", y)
  BY StartedIs
<1>5. ASSUME NEW s \in Substs
      PROVE  About(s)' = About(s) \cup
                 (IF /\ ev = "progress" /\ Started(s) /\ ~Stopped(s)
                     /\ \/ x = s
                        \/ /\ x \in Copies /\ CopyOf[x] = s /\ Started(x) /\ ~Stopped(x) /\ Copying(x)
                    THEN {n + 1} ELSE {})
  <2> DEFINE Under(i, y) == \E j \in 1 .. i : At(j, "start", y) /\ Before(j, "start", s)
             Of(i) == /\ log[i].ev = "progress" /\ Before(i, "start", s) /\ ~Before(i, "stop", s)
                      /\ \/ log[i].of = s
                         \/ /\ log[i].of \in Copies /\ CopyOf[log[i].of] = s
                            /\ ~Before(i, "stop", log[i].of)
                            /\ Under(i, log[i].of)
  <2>1. About(s) = {i \in 1 .. n : Of(i)} /\ About(s)' = {i \in 1 .. n + 1 : Of(i)'}
    BY <1>1 DEF About
  <2>2. ASSUME NEW i \in 1 .. n  PROVE Of(i)' <=> Of(i)
    <3>1. 1 .. i \subseteq 1 .. n /\ log'[i] = log[i]
      BY <1>1
    <3>2. \A y : Under(i, y)' <=> Under(i, y)
      BY <3>1, <1>2
    <3> HIDE DEF Under
    <3> QED BY <3>1, <3>2, <1>2
  <2>3. Of(n + 1)' <=> /\ ev = "progress" /\ Started(s) /\ ~Stopped(s)
                       /\ \/ x = s
                          \/ /\ x \in Copies /\ CopyOf[x] = s /\ Started(x) /\ ~Stopped(x) /\ Copying(x)
    <3> SUFFICES ASSUME ev = "progress"
                 PROVE  Of(n + 1)' <=> /\ Started(s) /\ ~Stopped(s)
                                       /\ \/ x = s
                                          \/ /\ x \in Copies /\ CopyOf[x] = s /\ Started(x)
                                             /\ ~Stopped(x) /\ Copying(x)
      BY <1>1
    <3>1. /\ \A y : Before(n + 1, "start", y)' <=> Started(y)
          /\ \A y : Before(n + 1, "stop", y)' <=> Stopped(y)
      BY <1>2, <1>4
    <3>2. Under(n + 1, x)' <=> \E j \in 1 .. n : At(j, "start", x) /\ Before(j, "start", s)
      BY <1>2, <1>3
    <3>3. \A y : Before(n, "stop", y) \/ \A j \in 1 .. n : ~Before(j, "stop", y)
      <4>1. \A j \in 1 .. n : 1 .. j \subseteq 1 .. n
        OBVIOUS
      <4> QED BY <4>1 DEF Before
    <3>4. ASSUME x \in Copies, CopyOf[x] = s, ~Stopped(s)
          PROVE  Under(n + 1, x)' <=> Copying(x)
      BY <3>2, <3>3, <3>4, <1>1, <1>4 DEF Copying
    <3>5. Copying(x) => Started(x)
      BY <1>1, <1>4 DEF Copying, Before
    <3> HIDE DEF Under
    <3> QED BY <3>1, <3>4, <3>5, <1>1
  <2> HIDE DEF Of
  <2> QED BY <2>1, <2>2, <2>3, <1>3
<1>6. /\ \A s : About(s) \subseteq 1 .. n
      /\ \A y : Reports(y) \subseteq 1 .. n
      /\ \A y : Said(y) \subseteq 1 .. n
  BY <1>1 DEF About, Reports, Said
<1> QED BY <1>5, <1>6

\* Every handler but Finish reads one line.
LEMMA HandlersRead ==
  /\ \A x \in Acts : OnStart(x) => Says("start", x, 0)
  /\ \A x \in Acts : OnStop(x) => Says("stop", x, 0)
  /\ \A x \in Acts, v \in Values : Progress(x, v) => Says("progress", x, v)
  /\ \A d \in Drvs, k \in DrvKinds : DrvFailed(d, k) => Says("fail", d, k)
  /\ \A k \in RunKinds : OtherError(k) => Says("error", "run", k)
BY DEF OnStart, OnStop, Progress, DrvFailed, OtherError, Says, Lines, Acts, Tracked

LEMMA LinesCount ==
  ASSUME log \in Seq(Lines)
  PROVE  \E n \in Nat : n = Len(log)
OBVIOUS

\* What was said of a build, and the last of what was reported.
LEMMA SaidKept ==
  ASSUME NEW n \in Nat, n = Len(log), StreamTypes, Remembered, NEW ev, NEW x, NEW v, Says(ev, x, v),
         NEW d \in Drvs
  PROVE  /\ ev = "fail" /\ d = x /\ failed[d] = "no" => Said(d)' # {} /\ log'[Min(Said(d)')].v = v
         /\ ~(ev = "fail" /\ d = x /\ failed[d] = "no")
              => (IF Said(d)' = {} THEN "no" ELSE log'[Min(Said(d)')].v) = failed[d]
         /\ failed[d] = "no" <=> Said(d) = {}
<1>1. log \in Seq(Lines) /\ Plain /\ failed[d] = IF Said(d) = {} THEN "no" ELSE log[Min(Said(d))].v
  BY DEF StreamTypes, Remembered
<1>2. /\ Said(d)' = Said(d) \cup (IF ev = "fail" /\ d = x THEN {n + 1} ELSE {})
      /\ Said(d) \subseteq 1 .. n
  BY <1>1, ReadingMore, AboutGrows
<1>3. /\ DOMAIN log = 1 .. n /\ \A i \in 1 .. n : log'[i] = log[i]
      /\ log'[n + 1] = [ev |-> ev, of |-> x, v |-> v]
  BY <1>1, Grows
<1>4. Said(d) # {} => log[Min(Said(d))].v \in DrvKinds /\ Min(Said(d)) \in 1 .. n
  <2> SUFFICES ASSUME Said(d) # {} PROVE log[Min(Said(d))].v \in DrvKinds /\ Min(Said(d)) \in 1 .. n
    OBVIOUS
  <2>1. Min(Said(d)) \in Said(d)
    BY <1>2, FirstAndLast
  <2> QED BY <2>1, <1>1, <1>2, <1>3 DEF Said, Plain
<1>5. "no" \notin DrvKinds
  BY NixLogAssumption
<1>6. failed[d] = "no" <=> Said(d) = {}
  BY <1>1, <1>4, <1>5
<1>7. Said(d) # {} => Min(Said(d)') = Min(Said(d))
  BY <1>2, FirstAndLast
<1>8. CASE Said(d) = {}
  <2>1. Min({n + 1}) = n + 1
    BY FirstAndLast, Zenon DEF Min
  <2> QED BY <2>1, <1>8, <1>2, <1>3, <1>6
<1>9. CASE Said(d) # {}
  BY <1>9, <1>1, <1>2, <1>3, <1>4, <1>6, <1>7
<1> QED BY <1>8, <1>9

LEMMA LastKept ==
  ASSUME NEW n \in Nat, n = Len(log), StreamTypes, Remembered, NEW ev, NEW x, NEW v, Says(ev, x, v)
  PROVE  /\ \A s \in Substs : LastValue(About(s))' =
                IF /\ ev = "progress" /\ Started(s) /\ ~Stopped(s)
                   /\ \/ x = s
                      \/ /\ x \in Copies /\ CopyOf[x] = s /\ Started(x) /\ ~Stopped(x) /\ Copying(x)
                THEN v ELSE LastValue(About(s))
         /\ \A y : LastValue(Reports(y))' =
                IF ev = "progress" /\ y = x THEN v ELSE LastValue(Reports(y))
         /\ \A g \in Aggs : Inner(g)' <=> \/ Inner(g)
                                          \/ ev = "start" /\ g = x /\ OuterOf[g] # g /\ Started(OuterOf[g])
<1>1. log \in Seq(Lines) /\ Plain
  BY DEF StreamTypes, Remembered
<1>2. /\ DOMAIN log = 1 .. n /\ DOMAIN log' = 1 .. n + 1 /\ \A i \in 1 .. n : log'[i] = log[i]
      /\ log'[n + 1] = [ev |-> ev, of |-> x, v |-> v]
  BY <1>1, Grows
<1>3. ASSUME NEW S \in SUBSET (1 .. n)
      PROVE  /\ log'[Max(S \cup {n + 1})].v = v
             /\ S # {} => log'[Max(S)].v = log[Max(S)].v
  <2>1. /\ Max(S \cup {n + 1}) = n + 1
        /\ S # {} => Max(S) \in 1 .. n
    BY FirstAndLast
  <2>2. log'[n + 1].v = v
    BY <1>2
  <2> QED BY <2>1, <2>2, <1>2
<1>4. \A s \in Substs : LastValue(About(s))' =
                IF /\ ev = "progress" /\ Started(s) /\ ~Stopped(s)
                   /\ \/ x = s
                      \/ /\ x \in Copies /\ CopyOf[x] = s /\ Started(x) /\ ~Stopped(x) /\ Copying(x)
                THEN v ELSE LastValue(About(s))
  <2> SUFFICES ASSUME NEW s \in Substs
               PROVE  LastValue(About(s))' =
                IF /\ ev = "progress" /\ Started(s) /\ ~Stopped(s)
                   /\ \/ x = s
                      \/ /\ x \in Copies /\ CopyOf[x] = s /\ Started(x) /\ ~Stopped(x) /\ Copying(x)
                THEN v ELSE LastValue(About(s))
    OBVIOUS
  <2> DEFINE P == /\ ev = "progress" /\ Started(s) /\ ~Stopped(s)
                  /\ \/ x = s
                     \/ /\ x \in Copies /\ CopyOf[x] = s /\ Started(x) /\ ~Stopped(x) /\ Copying(x)
  <2>1. About(s)' = About(s) \cup (IF P THEN {n + 1} ELSE {}) /\ About(s) \subseteq 1 .. n
    BY <1>1, AboutGrows
  <2> HIDE DEF P
  <2>2. LastValue(About(s))' = IF P THEN v ELSE LastValue(About(s))
    BY <2>1, <1>3 DEF LastValue
  <2> QED BY <2>2 DEF P
<1>5. ASSUME NEW y
      PROVE  LastValue(Reports(y))' =
                IF ev = "progress" /\ y = x THEN v ELSE LastValue(Reports(y))
  <2>1. /\ Reports(y)' = Reports(y) \cup (IF ev = "progress" /\ y = x THEN {n + 1} ELSE {})
        /\ Reports(y) \subseteq 1 .. n
    BY <1>1, AboutGrows, ReadingMore
  <2> QED BY <2>1, <1>3 DEF LastValue
<1>6. ASSUME NEW g \in Aggs
      PROVE  Inner(g)' <=> \/ Inner(g)
                           \/ ev = "start" /\ g = x /\ OuterOf[g] # g /\ Started(OuterOf[g])
  <2>1. /\ \A e, y : \A j \in 1 .. n : At(j, e, y)' <=> At(j, e, y)
        /\ \A e, y : At(n + 1, e, y)' <=> e = ev /\ y = x
        /\ \A e, y : \A j \in 1 .. n : Before(j, e, y)' <=> Before(j, e, y)
        /\ \A e, y : Before(n + 1, e, y)' <=> Before(n, e, y) \/ (e = ev /\ y = x)
    BY <1>1, Reading
  <2>2. \A y : Started(y) <=> Before(n, "start", y)
    BY <1>1, StartedIs
  <2>3. 1 .. n + 1 = 1 .. n \cup {n + 1}
    OBVIOUS
  <2> QED BY <2>1, <2>2, <2>3, <1>2 DEF Inner
<1> QED BY <1>4, <1>5, <1>6

LEMMA RememberedKept == StreamInv /\ StreamNext => Remembered'
<1> SUFFICES ASSUME StreamInv, StreamNext PROVE Remembered'
  OBVIOUS
<1>1. /\ StreamTypes /\ Remembered /\ log \in Seq(Lines) /\ Plain
      /\ \A x \in Acts : Stopped(x) => Started(x)
      /\ \A d \in Drvs : failed[d] # "no" => failed[d] \in kinds
      /\ copies = {c \in Copies : Started(c) /\ ~Stopped(c) /\ Copying(c)}
      /\ failed \in [Drvs -> DrvKinds \cup {"no"}]
  BY DEF StreamInv, StreamTypes, Remembered
<1>2. PICK n \in Nat : n = Len(log)
  BY <1>1, LinesCount
<1> DEFINE Told(d) == IF Said(d) = {} THEN "no" ELSE log[Min(Said(d))].v
<1>3. ASSUME NEW ev, NEW x, NEW v, Says(ev, x, v)
      PROVE  /\ Plain'
             /\ \A y : Started(y)' <=> Started(y) \/ (ev = "start" /\ y = x)
             /\ \A y : Stopped(y)' <=> Stopped(y) \/ (ev = "stop" /\ y = x)
             /\ \A y : Copying(y)' <=> Copying(y) \/ (/\ ev = "start" /\ y = x
                                                      /\ Started(CopyOf[y]) \/ CopyOf[y] = x
                                                      /\ ~Stopped(CopyOf[y]))
             /\ ev # "fail" => \A d \in Drvs : Told(d)' = failed[d]
             /\ ev = "fail" => \A d \in Drvs : Told(d)' = IF d = x /\ failed[d] = "no" THEN v ELSE failed[d]
  <2>1. Plain'
    BY <1>1, <1>2, <1>3, Grows
  <2>2. /\ \A y : Started(y)' <=> Started(y) \/ (ev = "start" /\ y = x)
        /\ \A y : Stopped(y)' <=> Stopped(y) \/ (ev = "stop" /\ y = x)
        /\ \A y : Copying(y)' <=> Copying(y) \/ (/\ ev = "start" /\ y = x
                                                 /\ Started(CopyOf[y]) \/ CopyOf[y] = x
                                                 /\ ~Stopped(CopyOf[y]))
    BY <1>1, <1>2, <1>3, ReadingMore
  <2>3. ASSUME NEW d \in Drvs
        PROVE  /\ ev # "fail" => Told(d)' = failed[d]
               /\ ev = "fail" => Told(d)' = IF d = x /\ failed[d] = "no" THEN v ELSE failed[d]
    BY <1>1, <1>2, <1>3, SaidKept
  <2> QED BY <2>1, <2>2, <2>3
<1> HIDE DEF Told
<1>4. Remembered <=> /\ Plain
                     /\ \A x \in Acts : Stopped(x) => Started(x)
                     /\ \A d \in Drvs : failed[d] = Told(d)
                     /\ \A d \in Drvs : failed[d] # "no" => failed[d] \in kinds
                     /\ copies = {c \in Copies : Started(c) /\ ~Stopped(c) /\ Copying(c)}
  BY DEF Remembered, Told
<1>5. ASSUME /\ Plain'
             /\ \A x \in Acts : Stopped(x)' => Started(x)'
             /\ \A d \in Drvs : failed'[d] = Told(d)'
             /\ \A d \in Drvs : failed'[d] # "no" => failed'[d] \in kinds'
             /\ copies' = {c \in Copies : Started(c)' /\ ~Stopped(c)' /\ Copying(c)'}
      PROVE  Remembered'
  BY <1>5 DEF Remembered, Told
<1>6. ASSUME NEW x \in Acts, OnStart(x)  PROVE Remembered'
  <2>1. Says("start", x, 0) /\ ~Started(x) /\ UNCHANGED <<failed, kinds>>
        /\ copies' = IF x \in Copies /\ CopyOf[x] \in active THEN copies \cup {x} ELSE copies
    BY <1>6, HandlersRead DEF OnStart
  <2>2. x \in Copies => CopyOf[x] \in Substs /\ CopyOf[x] # x
    BY NixLogAssumption, Disjoint
  <2>3. x \in Copies => (CopyOf[x] \in active <=> Started(CopyOf[x]) /\ ~Stopped(CopyOf[x]))
    <3>1. active = {y \in Tracked : Started(y) /\ ~Stopped(y)}
      <4>1. kind = "running"
        BY <2>1 DEF Says, Read
      <4> QED BY <4>1 DEF StreamInv, Running
    <3> QED BY <3>1, <2>2 DEF Tracked
  <2>4. ~Copying(x)
    <3>1. Copying(x) => Before(n, "start", x)
      BY <1>1, <1>2 DEF Copying, Before
    <3> QED BY <3>1, <1>1, <1>2, <2>1, StartedIs
  <2>5. ~Stopped(x)
    BY <1>1, <2>1
  <2>6. copies' = {c \in Copies : Started(c)' /\ ~Stopped(c)' /\ Copying(c)'}
    BY <2>1, <2>2, <2>3, <2>4, <2>5, <1>1, <1>3
  <2> QED BY <2>1, <2>6, <1>1, <1>3, <1>4, <1>5
<1>7. ASSUME NEW x \in Acts, OnStop(x)  PROVE Remembered'
  <2>1. /\ Says("stop", x, 0) /\ Started(x) /\ UNCHANGED <<failed, kinds>>
        /\ copies' = copies \ {x}
    BY <1>7, HandlersRead DEF OnStop
  <2> QED BY <2>1, <1>1, <1>3, <1>4, <1>5
<1>8. ASSUME NEW x \in Acts, NEW v \in Values, Progress(x, v)  PROVE Remembered'
  <2>1. Says("progress", x, v) /\ UNCHANGED <<failed, kinds, copies>>
    BY <1>8, HandlersRead DEF Progress
  <2> QED BY <2>1, <1>1, <1>3, <1>4, <1>5
<1>9. ASSUME NEW d \in Drvs, NEW k \in DrvKinds, DrvFailed(d, k)  PROVE Remembered'
  <2>1. Says("fail", d, k) /\ UNCHANGED copies
    BY <1>9, HandlersRead DEF DrvFailed
  <2>2. \/ failed[d] # "no" /\ UNCHANGED <<failed, kinds>>
        \/ failed[d] = "no" /\ failed' = [failed EXCEPT ![d] = k] /\ kinds' = kinds \cup {k}
    BY <1>9 DEF DrvFailed
  <2>3. \A e \in Drvs : failed'[e] = IF e = d /\ failed[e] = "no" THEN k ELSE failed[e]
    BY <2>2, <1>1
  <2>4. \A e \in Drvs : failed'[e] # "no" => failed'[e] \in kinds'
    BY <2>2, <1>1
  <2> QED BY <2>1, <2>3, <2>4, <1>1, <1>3, <1>5
<1>10. ASSUME NEW k \in RunKinds, OtherError(k)  PROVE Remembered'
  <2>1. Says("error", "run", k) /\ UNCHANGED <<failed, copies>> /\ kinds \subseteq kinds'
    BY <1>10, HandlersRead DEF OtherError
  <2> QED BY <2>1, <1>1, <1>3, <1>4, <1>5
<1>11. ASSUME NEW exit, FinishRun(exit)  PROVE Remembered'
  BY <1>11, <1>1 DEF FinishRun, Remembered, Plain, Stopped, Started, Said, Copying, At, Before
<1> QED BY <1>6, <1>7, <1>8, <1>9, <1>10, <1>11 DEF StreamNext, Acts, Tracked

LEMMA FoldedKept == StreamInv /\ StreamNext => Folded'
<1> SUFFICES ASSUME StreamInv, StreamNext PROVE Folded'
  OBVIOUS
<1>1. /\ StreamTypes /\ Remembered /\ Folded /\ log \in Seq(Lines) /\ Plain
      /\ copies = {c \in Copies : Started(c) /\ ~Stopped(c) /\ Copying(c)}
      /\ \A s \in Substs : bytes[s] = LastValue(About(s))
      /\ DOMAIN bytes = Substs
  BY DEF StreamInv, StreamTypes, Remembered, Folded
<1>a. \A g \in Aggs : aggs[g].last = LastValue(Reports(g))
  BY DEF StreamInv, Folded
<1>b. \A g \in Aggs : /\ aggs[g].seen <=> Reports(g) # {}
                      /\ aggs[g].nested <=> Inner(g)
                      /\ aggs[g].open <=> Started(g)
  BY DEF StreamInv, Folded
<1>c. aggs \in [Aggs -> [seen : BOOLEAN, nested : BOOLEAN, last : {0} \cup Values, open : BOOLEAN]]
  BY DEF StreamInv, StreamTypes
<1>2. PICK n \in Nat : n = Len(log)
  BY <1>1, LinesCount
<1>3. kind = "running" => active = {x \in Tracked : Started(x) /\ ~Stopped(x)}
  BY DEF StreamInv, Running
<1>4. ASSUME NEW ev, NEW x, NEW v, Says(ev, x, v)
      PROVE  /\ ev # "progress" => \A s \in Substs : LastValue(About(s))' = bytes[s]
             /\ \A g \in Aggs : LastValue(Reports(g))' = IF ev = "progress" /\ g = x THEN v ELSE aggs[g].last
             /\ \A g \in Aggs : (Reports(g) # {})' <=> aggs[g].seen \/ (ev = "progress" /\ g = x)
             /\ \A g \in Aggs : Inner(g)' <=> \/ aggs[g].nested
                                              \/ ev = "start" /\ g = x /\ OuterOf[g] # g /\ Started(OuterOf[g])
             /\ \A g \in Aggs : Started(g)' <=> aggs[g].open \/ (ev = "start" /\ g = x)
  <2>1. ev # "progress" => \A s \in Substs : LastValue(About(s))' = bytes[s]
    BY <1>1, <1>2, <1>4, LastKept
  <2>2. \A g \in Aggs : LastValue(Reports(g))' = IF ev = "progress" /\ g = x THEN v ELSE aggs[g].last
    <3>1. \A g : LastValue(Reports(g))' = IF ev = "progress" /\ g = x THEN v ELSE LastValue(Reports(g))
      BY <1>1, <1>2, <1>4, LastKept
    <3> QED BY <3>1, <1>a
  <2>3. \A g \in Aggs : (Reports(g) # {})' <=> aggs[g].seen \/ (ev = "progress" /\ g = x)
    <3>1. \A g : Reports(g)' = Reports(g) \cup (IF ev = "progress" /\ g = x THEN {n + 1} ELSE {})
      BY <1>1, <1>2, <1>4, ReadingMore
    <3> QED BY <3>1, <1>b
  <2>4. \A g \in Aggs : Inner(g)' <=> \/ aggs[g].nested
                                      \/ ev = "start" /\ g = x /\ OuterOf[g] # g /\ Started(OuterOf[g])
    <3>1. \A g \in Aggs : Inner(g)' <=> \/ Inner(g)
                                        \/ ev = "start" /\ g = x /\ OuterOf[g] # g /\ Started(OuterOf[g])
      BY <1>1, <1>2, <1>4, LastKept
    <3> QED BY <3>1, <1>b
  <2>5. \A g \in Aggs : Started(g)' <=> aggs[g].open \/ (ev = "start" /\ g = x)
    <3>1. \A g : Started(g)' <=> Started(g) \/ (ev = "start" /\ g = x)
      BY <1>1, <1>2, <1>4, ReadingMore
    <3> QED BY <3>1, <1>b
  <2> QED BY <2>1, <2>2, <2>3, <2>4, <2>5
<1>6. ASSUME /\ \A s \in Substs : bytes'[s] = LastValue(About(s))'
             /\ \A g \in Aggs : /\ aggs'[g].seen <=> (Reports(g) # {})'
                                /\ aggs'[g].nested <=> Inner(g)'
                                /\ aggs'[g].last = LastValue(Reports(g))'
                                /\ aggs'[g].open <=> Started(g)'
      PROVE  Folded'
  BY <1>6 DEF Folded
<1>7. ASSUME NEW ev \in {"stop", "fail", "error"}, NEW x, NEW v, Says(ev, x, v), UNCHANGED <<bytes, aggs>>
      PROVE  Folded'
  BY <1>4, <1>6, <1>7
<1>8. ASSUME NEW x \in Acts, OnStart(x)  PROVE Folded'
  <2>1. /\ Says("start", x, 0) /\ ~Started(x) /\ UNCHANGED bytes
        /\ aggs' = IF x \in Aggs
                   THEN [aggs EXCEPT ![x].open = TRUE,
                                     ![x].nested = OuterOf[x] # x /\ aggs[OuterOf[x]].open]
                   ELSE aggs
    BY <1>8, HandlersRead DEF OnStart
  <2>2. ASSUME NEW g \in Aggs
        PROVE  /\ aggs'[g].seen = aggs[g].seen /\ aggs'[g].last = aggs[g].last
               /\ aggs'[g].open <=> aggs[g].open \/ g = x
               /\ g # x => aggs'[g].nested = aggs[g].nested
               /\ g = x => (aggs'[g].nested <=> OuterOf[x] # x /\ aggs[OuterOf[x]].open)
    BY <2>1, <1>c
  <2>3. x \in Aggs => ~aggs[x].nested /\ OuterOf[x] \in Aggs
    <3>1. Inner(x) => Before(n, "start", x)
      BY <1>1, <1>2 DEF Inner, Before
    <3>2. Started(x) <=> Before(n, "start", x)
      BY <1>1, <1>2, StartedIs
    <3>3. x \in Aggs => ~aggs[x].nested
      BY <3>1, <3>2, <1>b, <2>1
    <3> QED BY <3>3, NixLogAssumption
  <2>4. ASSUME NEW g \in Aggs
        PROVE  /\ (Reports(g) # {})' <=> aggs[g].seen
               /\ g # x => (Inner(g)' <=> aggs[g].nested)
               /\ g = x => (Inner(g)' <=> OuterOf[x] # x /\ aggs[OuterOf[x]].open)
               /\ LastValue(Reports(g))' = aggs[g].last
               /\ Started(g)' <=> g = x \/ aggs[g].open
    <3>1. g = x => (Started(OuterOf[x]) <=> aggs[OuterOf[x]].open)
      BY <2>3, <1>b
    <3> QED BY <3>1, <2>1, <2>3, <1>4
  <2>5. \A s \in Substs : bytes'[s] = LastValue(About(s))'
    BY <2>1, <1>4
  <2>6. \A g \in Aggs : /\ aggs'[g].seen <=> (Reports(g) # {})'
                        /\ aggs'[g].nested <=> Inner(g)'
                        /\ aggs'[g].last = LastValue(Reports(g))'
                        /\ aggs'[g].open <=> Started(g)'
    BY <2>2, <2>4
  <2> QED BY <2>5, <2>6, <1>6
<1>9. ASSUME NEW x \in Acts, NEW v \in Values, Progress(x, v)  PROVE Folded'
  <2> DEFINE t == IF x \in copies THEN CopyOf[x] ELSE x
  <2>1. /\ Says("progress", x, v) /\ kind = "running"
        /\ aggs' = IF x \in Aggs THEN [aggs EXCEPT ![x].seen = TRUE, ![x].last = v] ELSE aggs
        /\ bytes' = IF t \in Substs \cap active THEN [bytes EXCEPT ![t] = v] ELSE bytes
    BY <1>9, HandlersRead DEF Progress, Read
  <2>2. ASSUME NEW s \in Substs
        PROVE  LastValue(About(s))' = IF s = t /\ s \in active THEN v ELSE bytes[s]
    <3>1. s \in active <=> Started(s) /\ ~Stopped(s)
      BY <2>1, <1>3 DEF Tracked
    <3>2. s = t <=> \/ x = s
                    \/ /\ x \in Copies /\ CopyOf[x] = s /\ Started(x) /\ ~Stopped(x) /\ Copying(x)
      BY <1>1, Disjoint
    <3> HIDE DEF t
    <3>3. LastValue(About(s))' =
                IF /\ "progress" = "progress" /\ Started(s) /\ ~Stopped(s)
                   /\ \/ x = s
                      \/ /\ x \in Copies /\ CopyOf[x] = s /\ Started(x) /\ ~Stopped(x) /\ Copying(x)
                THEN v ELSE LastValue(About(s))
      BY <2>1, <1>1, <1>2, LastKept
    <3> QED BY <3>1, <3>2, <3>3, <1>1
  <2>3. \A s \in Substs : bytes'[s] = LastValue(About(s))'
    <3> HIDE DEF t
    <3> QED BY <2>1, <2>2, <1>1
  <2>4. ASSUME NEW g \in Aggs
        PROVE  /\ aggs'[g].seen <=> aggs[g].seen \/ g = x
               /\ aggs'[g].nested = aggs[g].nested /\ aggs'[g].open = aggs[g].open
               /\ aggs'[g].last = IF g = x THEN v ELSE aggs[g].last
    BY <2>1, <1>c
  <2>5. ASSUME NEW g \in Aggs
        PROVE  /\ (Reports(g) # {})' <=> aggs[g].seen \/ g = x
               /\ Inner(g)' <=> aggs[g].nested
               /\ LastValue(Reports(g))' = IF g = x THEN v ELSE aggs[g].last
               /\ Started(g)' <=> aggs[g].open
    BY <2>1, <1>4
  <2> QED BY <2>3, <2>4, <2>5, <1>6
<1>10. ASSUME NEW exit, FinishRun(exit)  PROVE Folded'
  <2>1. UNCHANGED <<aggs, bytes, log>>
    BY <1>10 DEF FinishRun
  <2>2. /\ \A s : LastValue(About(s))' = LastValue(About(s))
        /\ \A g : /\ Reports(g)' = Reports(g) /\ Inner(g)' = Inner(g) /\ Started(g)' = Started(g)
                  /\ LastValue(Reports(g))' = LastValue(Reports(g))
    BY <2>1 DEF LastValue, About, Reports, Inner, Started, At, Before
  <2> QED BY <2>1, <2>2, <1>1, <1>a, <1>b, <1>6
<1>11. ASSUME NEW x \in Acts, OnStop(x)  PROVE Folded'
  <2>1. Says("stop", x, 0) /\ UNCHANGED <<bytes, aggs>>
    BY <1>11, HandlersRead DEF OnStop
  <2> QED BY <2>1, <1>7
<1>12. ASSUME NEW d \in Drvs, NEW k \in DrvKinds, DrvFailed(d, k)  PROVE Folded'
  <2>1. Says("fail", d, k) /\ UNCHANGED <<bytes, aggs>>
    BY <1>12, HandlersRead DEF DrvFailed
  <2> QED BY <2>1, <1>7
<1>13. ASSUME NEW k \in RunKinds, OtherError(k)  PROVE Folded'
  BY <1>13, <1>7, HandlersRead DEF OtherError
<1> QED BY <1>8, <1>9, <1>10, <1>11, <1>12, <1>13 DEF StreamNext, Acts, Tracked

LEMMA CardinalityOfBoth ==
  ASSUME NEW A, NEW B, IsFiniteSet(A), IsFiniteSet(B), A \cap B = {}
  PROVE  Cardinality(A \cup B) = Cardinality(A) + Cardinality(B)
<1>1. Cardinality(A \cup B) = Cardinality(A) + Cardinality(B) - Cardinality(A \cap B)
  BY FS_Union
<1>2. Cardinality(A \cap B) = 0
  <2>1. Cardinality({}) = 0
    BY FS_EmptySet
  <2>2. A \cap B = {}
    OBVIOUS
  <2> QED BY <2>1, <2>2, Zenon
<1>3. Cardinality(A) \in Nat /\ Cardinality(B) \in Nat
  BY FS_CardinalityType
<1> QED BY <1>1, <1>2, <1>3

\* What the recorder counts of finished activities.
LEMMA EmitCounts ==
  ASSUME StreamTypes, Counts, NEW S, IsFiniteSet(S), Emit(S), emitted \cap S = {},
         IsFiniteSet(active'), IsFiniteSet(held')
  PROVE  /\ Counts' /\ emitted' = emitted \cup S
         /\ metrics' \in [built : Nat, failed : Nat, substituted : Nat, timed : Nat]
<1> DEFINE No == {a \in Builds(S) : a.err = "no"}  Not == {a \in Builds(S) : a.err # "no"}
           Of == Fetched(S)
           Timed(T) == {a \in Builds(T) : ~a.instant}
<1>1. /\ emitted' = emitted \cup S
      /\ metrics' = [built |-> metrics.built + Cardinality(No), failed |-> metrics.failed + Cardinality(Not),
                     substituted |-> metrics.substituted + Cardinality(Of),
                     timed |-> metrics.timed + Cardinality(Timed(S))]
  <2>1. /\ {a \in {a \in S : a.err # "aborted"} : a.act \in Drvs} = Builds(S)
        /\ {a \in {a \in S : a.err # "aborted"} : a.act \in Substs} = Of
    BY DEF Builds, Fetched
  <2> QED BY <2>1 DEF Emit
<1>2. \A T : IsFiniteSet(T) => /\ IsFiniteSet(Builds(T)) /\ Cardinality(Builds(T)) \in Nat
                               /\ IsFiniteSet(Timed(T)) /\ Cardinality(Timed(T)) \in Nat
  <2> SUFFICES ASSUME NEW T, IsFiniteSet(T)
               PROVE  /\ IsFiniteSet(Builds(T)) /\ Cardinality(Builds(T)) \in Nat
                      /\ IsFiniteSet(Timed(T)) /\ Cardinality(Timed(T)) \in Nat
    OBVIOUS
  <2>1. Builds(T) \subseteq T /\ Timed(T) \subseteq T
    BY DEF Builds
  <2> QED BY <2>1, FS_Subset, FS_CardinalityType
<1>3. /\ IsFiniteSet(No) /\ IsFiniteSet(Not) /\ IsFiniteSet(Of)
      /\ Cardinality(No) \in Nat /\ Cardinality(Not) \in Nat /\ Cardinality(Of) \in Nat
  <2>1. No \subseteq S /\ Not \subseteq S /\ Of \subseteq S
    BY DEF Builds, Fetched
  <2> QED BY <2>1, FS_Subset, FS_CardinalityType
<1>4. Cardinality(Builds(S)) = Cardinality(No) + Cardinality(Not)
  <2>1. Builds(S) = No \cup Not /\ No \cap Not = {}
    OBVIOUS
  <2> HIDE DEF No, Not
  <2> QED BY <2>1, <1>3, CardinalityOfBoth
<1>5. /\ Cardinality(Builds(emitted \cup S)) = Cardinality(Builds(emitted)) + Cardinality(Builds(S))
      /\ Cardinality(Timed(emitted \cup S)) = Cardinality(Timed(emitted)) + Cardinality(Timed(S))
  <2>1. /\ Builds(emitted \cup S) = Builds(emitted) \cup Builds(S) /\ Builds(emitted) \cap Builds(S) = {}
        /\ Timed(emitted \cup S) = Timed(emitted) \cup Timed(S) /\ Timed(emitted) \cap Timed(S) = {}
    BY DEF Builds
  <2>2. IsFiniteSet(emitted)
    BY DEF Counts
  <2> HIDE DEF Timed
  <2>3. /\ IsFiniteSet(Builds(emitted)) /\ IsFiniteSet(Builds(S))
        /\ IsFiniteSet(Timed(emitted)) /\ IsFiniteSet(Timed(S))
        /\ Cardinality(Builds(emitted)) \in Nat /\ Cardinality(Builds(S)) \in Nat
        /\ Cardinality(Timed(emitted)) \in Nat /\ Cardinality(Timed(S)) \in Nat
    BY <2>2, <1>2
  <2> QED BY <2>1, <2>3, CardinalityOfBoth
<1>f. /\ Cardinality(Fetched(emitted \cup S)) = Cardinality(Fetched(emitted)) + Cardinality(Of)
      /\ Cardinality(Fetched(emitted)) \in Nat
  <2>1. /\ Fetched(emitted \cup S) = Fetched(emitted) \cup Of
        /\ Fetched(emitted) \cap Of = {} /\ Fetched(emitted) \subseteq emitted
    BY DEF Fetched
  <2>2. IsFiniteSet(Fetched(emitted))
    BY <2>1, FS_Subset DEF Counts
  <2> HIDE DEF Of
  <2> QED BY <2>1, <2>2, <1>3, CardinalityOfBoth, FS_CardinalityType
<1>6. /\ metrics.built \in Nat /\ metrics.failed \in Nat /\ metrics.substituted \in Nat /\ metrics.timed \in Nat
      /\ metrics.built + metrics.failed = Cardinality(Builds(emitted))
      /\ metrics.timed = Cardinality(Timed(emitted))
      /\ metrics.substituted = Cardinality(Fetched(emitted))
  BY DEF StreamTypes, Counts
<1>7. Cardinality(Timed(S)) \in Nat /\ Cardinality(Timed(emitted)) \in Nat /\ IsFiniteSet(emitted \cup S)
      /\ Cardinality(Builds(emitted)) \in Nat
  <2>1. IsFiniteSet(emitted)
    BY DEF Counts
  <2> QED BY <2>1, <1>2, FS_Union
<1> HIDE DEF No, Not, Of, Timed
<1>8. metrics' \in [built : Nat, failed : Nat, substituted : Nat, timed : Nat]
  BY <1>1, <1>3, <1>6, <1>7
<1>9. /\ metrics'.built + metrics'.failed = Cardinality(Builds(emitted \cup S))
      /\ metrics'.timed = Cardinality(Timed(emitted \cup S))
      /\ metrics'.substituted = Cardinality(Fetched(emitted \cup S))
  BY <1>1, <1>3, <1>4, <1>5, <1>f, <1>6, <1>7
<1>10. /\ Builds(emitted') = Builds(emitted)' /\ Fetched(emitted') = Fetched(emitted)'
       /\ Timed(emitted') = {a \in Builds(emitted)' : ~a.instant}
  BY DEF Builds, Fetched, Timed
<1>11. Counts'
  BY <1>1, <1>7, <1>9, <1>10 DEF Counts
<1> QED BY <1>1, <1>8, <1>11

\* A line that ends no activity, and one that ends x.
LEMMA NoSpan ==
  ASSUME StreamInv, kind = "running", NoEmit, IsFiniteSet(active'), IsFiniteSet(held'),
         UNCHANGED brief, \A y : Stopped(y) => Stopped(y)',
         \A y \in Tracked : Ended(y) => /\ Started(y)' <=> Started(y)
                                        /\ y \in Substs => bytes'[y] = bytes[y]
  PROVE  /\ Spanned' /\ Counts' /\ UNCHANGED <<emitted, metrics>>
         /\ \A a \in emitted : a.act \in Tracked /\ Ended(a.act)
<1>1. /\ Spanned /\ Counts /\ Running /\ UNCHANGED <<emitted, metrics>> /\ emitted \subseteq Spans
  BY DEF StreamInv, StreamTypes, NoEmit
<1>2. \A a \in emitted : a.act \in Tracked /\ Ended(a.act)
  <2>1. {a.act : a \in emitted} = {x \in Tracked : Ended(x)}
    BY <1>1 DEF Running
  <2> QED BY <2>1
<1>3. Spanned'
  <2>1. \A a \in emitted : a.instant = ~Started(a.act)'
    BY <1>1, <1>2 DEF Spanned
  <2>2. \A a \in emitted : a.bytes = IF a.act \in Substs THEN bytes'[a.act] ELSE 0
    BY <1>1, <1>2 DEF Spanned
  <2>3. \A a, b \in emitted : a.act = b.act => a = b
    BY <1>1 DEF Spanned
  <2>4. /\ \A a \in emitted : a.spans = IF a.act \in brief THEN 0 ELSE 1
        /\ \A s \in brief : s \in Substs /\ Stopped(s)'
    BY <1>1 DEF Spanned
  <2> QED BY <2>1, <2>2, <2>3, <2>4, <1>1 DEF Spanned
<1>4. Counts'
  BY <1>1 DEF Counts, Builds, Fetched
<1> QED BY <1>1, <1>2, <1>3, <1>4

LEMMA OneSpan ==
  ASSUME StreamInv, kind = "running", NEW x \in Tracked, NEW t \in Spans, Emit({t}),
         t.act = x, ~Ended(x), t.instant = ~Started(x), t.bytes = IF x \in Substs THEN bytes[x] ELSE 0,
         IsFiniteSet(active'), IsFiniteSet(held'), UNCHANGED bytes,
         \A y \in Tracked : Started(y)' <=> Started(y),
         \A y : Stopped(y) => Stopped(y)', t.spans = IF x \in brief' THEN 0 ELSE 1,
         \/ UNCHANGED brief
         \/ brief' = brief \cup {x} /\ x \in Substs /\ Stopped(x)'
  PROVE  /\ Spanned' /\ Counts' /\ emitted' = emitted \cup {t} /\ emitted' \subseteq Spans
         /\ metrics' \in [built : Nat, failed : Nat, substituted : Nat, timed : Nat]
         /\ \A a \in emitted : a.act \in Tracked /\ Ended(a.act) /\ a.act # x
         /\ {a.act : a \in emitted'} = {y \in Tracked : Ended(y)} \cup {x}
<1>1. /\ Spanned /\ Counts /\ Running /\ StreamTypes /\ emitted \subseteq Spans
  BY DEF StreamInv, StreamTypes
<1>2. {a.act : a \in emitted} = {y \in Tracked : Ended(y)}
  BY <1>1 DEF Running
<1>3. \A a \in emitted : a.act \in Tracked /\ Ended(a.act) /\ a.act # x
  BY <1>2
<1>4. emitted \cap {t} = {} /\ IsFiniteSet({t})
  BY <1>3, FS_Singleton
<1>5. /\ Counts' /\ emitted' = emitted \cup {t}
      /\ metrics' \in [built : Nat, failed : Nat, substituted : Nat, timed : Nat]
  BY <1>1, <1>4, EmitCounts
<1>6. Spanned'
  <2>1. \A a \in emitted' : a.instant = ~Started(a.act)'
    <3>1. \A a \in emitted : a.instant = ~Started(a.act)'
      BY <1>1, <1>3 DEF Spanned
    <3>2. t.instant = ~Started(t.act)'
      OBVIOUS
    <3> QED BY <3>1, <3>2, <1>5
  <2>2. \A a \in emitted' : a.bytes = IF a.act \in Substs THEN bytes'[a.act] ELSE 0
    BY <1>1, <1>5 DEF Spanned
  <2>3. \A a, b \in emitted' : a.act = b.act => a = b
    BY <1>1, <1>3, <1>5 DEF Spanned
  <2>4. \A a \in emitted' : a.spans = IF a.act \in brief' THEN 0 ELSE 1
    <3>1. ASSUME NEW a \in emitted PROVE a.spans = IF a.act \in brief' THEN 0 ELSE 1
      <4>1. a.act # x /\ a.spans = IF a.act \in brief THEN 0 ELSE 1
        BY <1>1, <1>3 DEF Spanned
      <4>2. a.act \in brief' <=> a.act \in brief
        BY <4>1
      <4> QED BY <4>1, <4>2
    <3> QED BY <3>1, <1>5
  <2>5. \A s \in brief' : s \in Substs /\ Stopped(s)'
    BY <1>1 DEF Spanned
  <2> QED BY <2>1, <2>2, <2>3, <2>4, <2>5 DEF Spanned
<1>7. {a.act : a \in emitted'} = {y \in Tracked : Ended(y)} \cup {x}
  BY <1>2, <1>5
<1> QED BY <1>1, <1>3, <1>5, <1>6, <1>7

\* The span of an activity is a span.
LEMMA SpanOf ==
  ASSUME StreamTypes, NEW x \in Tracked, NEW e \in DrvKinds \cup {"no", "aborted"}, NEW i \in BOOLEAN
  PROVE  \E t \in Spans : /\ t = Span(x, e, i) /\ t.act = x /\ t.err = e /\ t.instant = i
                          /\ t.bytes = IF x \in Substs THEN bytes[x] ELSE 0
                          /\ t.spans = IF x \in brief' THEN 0 ELSE 1
<1> DEFINE t == Span(x, e, i)
<1>1. bytes \in [Substs -> {0} \cup Values]
  BY DEF StreamTypes
<1>2. t = [act |-> x, err |-> e, instant |-> i, spans |-> IF x \in brief' THEN 0 ELSE 1,
           bytes |-> IF x \in Substs THEN bytes[x] ELSE 0]
  BY DEF Span
<1>3. (IF x \in Substs THEN bytes[x] ELSE 0) \in {0} \cup Values
  BY <1>1
<1> HIDE DEF t
<1>4. t \in Spans
  BY <1>2, <1>3 DEF Spans
<1>5. /\ t.act = x /\ t.err = e /\ t.instant = i
      /\ t.bytes = IF x \in Substs THEN bytes[x] ELSE 0
      /\ t.spans = IF x \in brief' THEN 0 ELSE 1
  BY <1>2
<1> QED BY <1>4, <1>5 DEF t

LEMMA SpansKept ==
  ASSUME StreamInv, NEW ev, NEW x, NEW v, Says(ev, x, v),
         \/ x \in Acts /\ OnStart(x) /\ ev = "start"
         \/ x \in Acts /\ OnStop(x) /\ ev = "stop"
         \/ x \in Acts /\ v \in Values /\ Progress(x, v) /\ ev = "progress"
         \/ x \in Drvs /\ v \in DrvKinds /\ DrvFailed(x, v) /\ ev = "fail"
         \/ v \in RunKinds /\ OtherError(v) /\ ev = "error"
  PROVE  /\ Spanned' /\ Counts' /\ Running' /\ emitted' \subseteq Spans
         /\ metrics' \in [built : Nat, failed : Nat, substituted : Nat, timed : Nat]
<1>1. /\ StreamTypes /\ Remembered /\ Counts /\ log \in Seq(Lines) /\ Plain
      /\ \A y \in Acts : Stopped(y) => Started(y)
      /\ failed \in [Drvs -> DrvKinds \cup {"no"}] /\ held \subseteq Drvs
      /\ emitted \subseteq Spans
      /\ metrics \in [built : Nat, failed : Nat, substituted : Nat, timed : Nat]
  BY DEF StreamInv, StreamTypes, Remembered
<1>2. PICK n \in Nat : n = Len(log)
  BY <1>1, LinesCount
<1>3. /\ kind = "running"
      /\ \A y : Started(y)' <=> Started(y) \/ (ev = "start" /\ y = x)
      /\ \A y : Stopped(y)' <=> Stopped(y) \/ (ev = "stop" /\ y = x)
      /\ \/ UNCHANGED brief
         \/ brief' = brief \cup {x} /\ x \in Substs /\ ev = "stop"
  BY <1>1, <1>2, ReadingMore DEF Says, Read
<1>4. /\ active = {y \in Tracked : Started(y) /\ ~Stopped(y)}
      /\ held = {d \in Drvs : Stopped(d) /\ failed[d] = "no"}
      /\ {a.act : a \in emitted} = {y \in Tracked : Ended(y)}
      /\ \A a \in emitted : a.err = IF a.act \in Drvs THEN failed[a.act] ELSE "no"
  BY <1>3 DEF StreamInv, Running
<1>5. IsFiniteSet(active) /\ IsFiniteSet(held)
  BY <1>1 DEF Counts
<1>6. /\ IsFiniteSet(active \cup {x}) /\ IsFiniteSet(active \ {x})
      /\ IsFiniteSet(held \cup {x}) /\ IsFiniteSet(held \ {x})
  BY <1>5, FS_AddElement, FS_RemoveElement
<1>7. \A y \in Tracked : Ended(y) => y \notin active
  BY <1>4 DEF Ended
<1>8. CASE x \in Acts /\ OnStart(x) /\ ev = "start"
  <2>1. /\ ~Started(x) /\ (x \in Drvs => failed[x] = "no")
        /\ active' = IF x \in Tracked THEN active \cup {x} ELSE active
        /\ NoEmit /\ UNCHANGED <<held, failed, bytes>>
    BY <1>8 DEF OnStart, Tracked
  <2>2. ~Ended(x)
    BY <2>1, <1>8, <1>1 DEF Ended
  <2>3. \A y \in Tracked : Ended(y) => (Started(y)' <=> Started(y))
    BY <2>2, <1>3
  <2>4. /\ Spanned' /\ Counts' /\ UNCHANGED <<emitted, metrics>>
        /\ \A a \in emitted : a.act \in Tracked /\ Ended(a.act)
    BY <2>1, <2>3, <1>3, <1>5, <1>6, <1>8, NoSpan
  <2>5. \A y \in Tracked : Ended(y)' <=> Ended(y)
    BY <2>1, <2>2, <1>3, <1>8 DEF Ended
  <2>6. Running'
    <3>1. active' = {y \in Tracked : Started(y)' /\ ~Stopped(y)'}
      BY <2>1, <1>1, <1>3, <1>4, <1>8
    <3>2. held' = {d \in Drvs : Stopped(d)' /\ failed'[d] = "no"}
      BY <2>1, <1>3, <1>4, <1>8
    <3>3. {a.act : a \in emitted'} = {y \in Tracked : Ended(y)'}
      BY <2>4, <2>5, <1>4
    <3>4. \A a \in emitted' : a.err = IF a.act \in Drvs THEN failed'[a.act] ELSE "no"
      BY <2>1, <2>4, <1>4
    <3> QED BY <3>1, <3>2, <3>3, <3>4 DEF Running
  <2> QED BY <2>4, <2>6, <1>1
<1>9. CASE x \in Acts /\ v \in Values /\ Progress(x, v) /\ ev = "progress"
  <2> DEFINE s == IF x \in copies THEN CopyOf[x] ELSE x
  <2>1. /\ NoEmit /\ UNCHANGED <<active, held, failed>>
        /\ bytes' = IF s \in Substs \cap active THEN [bytes EXCEPT ![s] = v] ELSE bytes
    BY <1>9 DEF Progress
  <2>2. \A y \in Tracked : Ended(y) /\ y \in Substs => bytes'[y] = bytes[y]
    <3>1. DOMAIN bytes = Substs
      BY <1>1 DEF StreamTypes
    <3> HIDE DEF s
    <3> QED BY <3>1, <2>1, <1>7
  <2>3. /\ Spanned' /\ Counts' /\ UNCHANGED <<emitted, metrics>>
        /\ \A a \in emitted : a.act \in Tracked /\ Ended(a.act)
    BY <2>1, <2>2, <1>3, <1>5, <1>9, NoSpan
  <2>4. \A y \in Tracked : Ended(y)' <=> Ended(y)
    BY <2>1, <1>3, <1>9 DEF Ended
  <2>5. Running'
    <3>1. active' = {y \in Tracked : Started(y)' /\ ~Stopped(y)'}
      BY <2>1, <1>3, <1>4, <1>9
    <3>2. held' = {d \in Drvs : Stopped(d)' /\ failed'[d] = "no"}
      BY <2>1, <1>3, <1>4, <1>9
    <3>3. {a.act : a \in emitted'} = {y \in Tracked : Ended(y)'}
      BY <2>3, <2>4, <1>4
    <3>4. \A a \in emitted' : a.err = IF a.act \in Drvs THEN failed'[a.act] ELSE "no"
      BY <2>1, <2>3, <1>4
    <3> QED BY <3>1, <3>2, <3>3, <3>4 DEF Running
  <2> QED BY <2>3, <2>5, <1>1
<1>10. ASSUME ev \in {"fail", "error"}, NoEmit, UNCHANGED <<active, held, failed, bytes>>
       PROVE  /\ Spanned' /\ Counts' /\ Running' /\ UNCHANGED <<emitted, metrics>>
  <2>1. /\ Spanned' /\ Counts' /\ UNCHANGED <<emitted, metrics>>
        /\ \A a \in emitted : a.act \in Tracked /\ Ended(a.act)
    BY <1>3, <1>5, <1>10, NoSpan
  <2>2. \A y \in Tracked : Ended(y)' <=> Ended(y)
    BY <1>3, <1>10 DEF Ended
  <2>3. Running'
    <3>1. active' = {y \in Tracked : Started(y)' /\ ~Stopped(y)'}
      BY <1>3, <1>4, <1>10
    <3>2. held' = {d \in Drvs : Stopped(d)' /\ failed'[d] = "no"}
      BY <1>3, <1>4, <1>10
    <3>3. {a.act : a \in emitted'} = {y \in Tracked : Ended(y)'}
      BY <2>1, <2>2, <1>4
    <3>4. \A a \in emitted' : a.err = IF a.act \in Drvs THEN failed'[a.act] ELSE "no"
      BY <2>1, <1>4, <1>10
    <3> QED BY <3>1, <3>2, <3>3, <3>4 DEF Running
  <2> QED BY <2>1, <2>3
<1>11. CASE v \in RunKinds /\ OtherError(v) /\ ev = "error"
  <2>1. NoEmit /\ UNCHANGED <<active, held, failed, bytes>>
    BY <1>11 DEF OtherError
  <2> QED BY <2>1, <1>1, <1>10, <1>11
<1>12. CASE x \in Drvs /\ v \in DrvKinds /\ DrvFailed(x, v) /\ ev = "fail"
  <2>1. CASE failed[x] # "no"
    <3>1. NoEmit /\ UNCHANGED <<active, held, failed, bytes>>
      BY <1>12, <2>1 DEF DrvFailed
    <3> QED BY <3>1, <1>1, <1>10, <1>12
  <2>2. CASE failed[x] = "no"
    <3>1. /\ failed' = [failed EXCEPT ![x] = v] /\ held' = held \ {x}
          /\ UNCHANGED <<active, bytes>>
          /\ IF x \in active THEN NoEmit ELSE Emit({Span(x, v, x \notin held)})
      BY <1>12, <2>2 DEF DrvFailed
    <3>2. ~Ended(x) /\ x \in Tracked /\ v # "no"
      BY <2>2, <1>12, NixLogAssumption DEF Ended, Tracked
    <3>3. /\ IsFiniteSet(active') /\ IsFiniteSet(held')
          /\ \A y \in Tracked : Started(y)' <=> Started(y)
      BY <3>1, <1>3, <1>5, <1>6, <1>12
    <3>4. \A y \in Tracked : Ended(y)' <=> Ended(y) \/ (y = x /\ x \notin active)
      BY <3>1, <3>2, <1>1, <1>3, <1>12 DEF Ended
    <3>5. active' = {y \in Tracked : Started(y)' /\ ~Stopped(y)'}
      BY <3>1, <1>3, <1>4, <1>12
    <3>6. held' = {d \in Drvs : Stopped(d)' /\ failed'[d] = "no"}
      BY <3>1, <3>2, <1>1, <1>3, <1>4, <1>12
    <3>7. \A y \in Drvs : y # x => failed'[y] = failed[y]
      BY <3>1, <1>1
    <3>8. CASE x \in active
      <4>1. /\ Spanned' /\ Counts' /\ UNCHANGED <<emitted, metrics>>
            /\ \A a \in emitted : a.act \in Tracked /\ Ended(a.act)
        BY <3>1, <3>3, <3>8, <1>3, <1>12, NoSpan
      <4>2. {a.act : a \in emitted'} = {y \in Tracked : Ended(y)'}
        BY <4>1, <3>4, <3>8, <1>4
      <4>3. \A a \in emitted' : a.err = IF a.act \in Drvs THEN failed'[a.act] ELSE "no"
        BY <4>1, <3>2, <3>7, <1>4
      <4>4. Running'
        BY <3>5, <3>6, <4>2, <4>3 DEF Running
      <4> QED BY <4>1, <4>4, <1>1
    <3>9. CASE x \notin active
      <4>1. (x \notin held) = ~Started(x)
        <5>1. x \notin held <=> ~Started(x)
          BY <3>2, <3>9, <2>2, <1>1, <1>4, <1>12 DEF Acts
        <5>2. Started(x) \in BOOLEAN
          BY DEF Started
        <5> QED BY <5>1, <5>2
      <4>2. PICK t \in Spans : /\ t = Span(x, v, x \notin held) /\ t.act = x /\ t.err = v
                               /\ t.instant = (x \notin held)
                               /\ t.bytes = IF x \in Substs THEN bytes[x] ELSE 0
                               /\ t.spans = IF x \in brief' THEN 0 ELSE 1
        <5>1. PICK i \in BOOLEAN : i = (x \notin held)
          OBVIOUS
        <5>2. \E t \in Spans : /\ t = Span(x, v, i) /\ t.act = x /\ t.err = v /\ t.instant = i
                               /\ t.bytes = IF x \in Substs THEN bytes[x] ELSE 0
                               /\ t.spans = IF x \in brief' THEN 0 ELSE 1
          BY <3>2, <1>1, <1>12, SpanOf
        <5> QED BY <5>1, <5>2
      <4>3. Emit({t})
        BY <4>2, <3>1, <3>9
      <4>4. /\ Spanned' /\ Counts' /\ emitted' = emitted \cup {t} /\ emitted' \subseteq Spans
            /\ metrics' \in [built : Nat, failed : Nat, substituted : Nat, timed : Nat]
            /\ \A a \in emitted : a.act \in Tracked /\ Ended(a.act) /\ a.act # x
            /\ {a.act : a \in emitted'} = {y \in Tracked : Ended(y)} \cup {x}
        BY <4>1, <4>2, <4>3, <3>1, <3>2, <3>3, <1>3, <1>12, OneSpan
      <4>5. {a.act : a \in emitted'} = {y \in Tracked : Ended(y)'}
        BY <4>4, <3>2, <3>4, <3>9
      <4>6. \A a \in emitted' : a.err = IF a.act \in Drvs THEN failed'[a.act] ELSE "no"
        <5>1. failed'[x] = v
          BY <3>1, <1>1, <1>12
        <5> QED BY <5>1, <4>2, <4>4, <3>7, <1>4, <1>12
      <4>7. Running'
        BY <3>5, <3>6, <4>5, <4>6 DEF Running
      <4> QED BY <4>4, <4>7
    <3> QED BY <3>8, <3>9
  <2> QED BY <2>1, <2>2
<1>13. CASE x \in Acts /\ OnStop(x) /\ ev = "stop"
  <2> DEFINE over == x \in Substs \cup Waits \/ (x \in Drvs /\ failed[x] # "no")
             e == IF x \in Drvs THEN failed[x] ELSE "no"
  <2>1. /\ Started(x) /\ ~Stopped(x) /\ active' = active \ {x} /\ UNCHANGED <<failed, bytes>>
        /\ held' = IF x \in Drvs /\ failed[x] = "no" THEN held \cup {x} ELSE held
    BY <1>13 DEF OnStop
  <2>2. IF over THEN Emit({Span(x, e, FALSE)}) ELSE NoEmit
    <3>1. /\ x \in Drvs /\ failed[x] # "no" => Emit({Span(x, failed[x], FALSE)})
          /\ ~(x \in Drvs /\ failed[x] # "no") /\ x \in Substs \cup Waits => Emit({Span(x, "no", FALSE)})
          /\ ~(x \in Drvs /\ failed[x] # "no") /\ x \notin Substs \cup Waits => NoEmit
      BY <1>13 DEF OnStop
    <3>2. x \in Substs \cup Waits => x \notin Drvs
      BY Disjoint
    <3> QED BY <3>1, <3>2
  <2>3. x \in Tracked => x \in active /\ ~Ended(x)
    BY <2>1, <1>4, <1>7
  <2>4. /\ IsFiniteSet(active') /\ IsFiniteSet(held')
        /\ \A y \in Tracked : Started(y)' <=> Started(y)
    BY <2>1, <1>3, <1>5, <1>6, <1>13
  <2>5. \A y \in Tracked : Ended(y)' <=> Ended(y) \/ (y = x /\ over)
    BY <2>1, <2>3, <1>3, <1>13, Disjoint DEF Ended, Tracked
  <2>6. active' = {y \in Tracked : Started(y)' /\ ~Stopped(y)'}
    BY <2>1, <1>3, <1>4, <1>13
  <2>7. held' = {d \in Drvs : Stopped(d)' /\ failed'[d] = "no"}
    BY <2>1, <1>1, <1>3, <1>4, <1>13
  <2>8. CASE ~over
    <3>1. /\ Spanned' /\ Counts' /\ UNCHANGED <<emitted, metrics>>
          /\ \A a \in emitted : a.act \in Tracked /\ Ended(a.act)
      BY <2>1, <2>2, <2>4, <2>8, <1>3, Disjoint, NoSpan
    <3>2. {a.act : a \in emitted'} = {y \in Tracked : Ended(y)'}
      BY <3>1, <2>5, <2>8, <1>4
    <3>3. \A a \in emitted' : a.err = IF a.act \in Drvs THEN failed'[a.act] ELSE "no"
      BY <3>1, <2>1, <1>4
    <3>4. Running'
      BY <2>6, <2>7, <3>2, <3>3 DEF Running
    <3> QED BY <3>1, <3>4, <1>1
  <2>9. CASE over
    <3>1. x \in Tracked /\ e \in DrvKinds \cup {"no", "aborted"}
      BY <2>9, <1>1 DEF Tracked
    <3>2. PICK t \in Spans : /\ t = Span(x, e, FALSE) /\ t.act = x /\ t.err = e /\ t.instant = FALSE
                             /\ t.bytes = IF x \in Substs THEN bytes[x] ELSE 0
                             /\ t.spans = IF x \in brief' THEN 0 ELSE 1
      <4>1. PICK f : f = e
        OBVIOUS
      <4>2. PICK i \in BOOLEAN : i = FALSE
        OBVIOUS
      <4>3. \E t \in Spans : /\ t = Span(x, f, i) /\ t.act = x /\ t.err = f /\ t.instant = i
                             /\ t.bytes = IF x \in Substs THEN bytes[x] ELSE 0
                             /\ t.spans = IF x \in brief' THEN 0 ELSE 1
        BY <4>1, <3>1, <1>1, SpanOf
      <4> QED BY <4>1, <4>2, <4>3
    <3>3. Emit({t})
      BY <3>2, <2>2, <2>9
    <3>4. t.instant = ~Started(x)
      BY <3>2, <2>1
    <3>5. /\ Spanned' /\ Counts' /\ emitted' = emitted \cup {t} /\ emitted' \subseteq Spans
          /\ metrics' \in [built : Nat, failed : Nat, substituted : Nat, timed : Nat]
          /\ \A a \in emitted : a.act \in Tracked /\ Ended(a.act) /\ a.act # x
          /\ {a.act : a \in emitted'} = {y \in Tracked : Ended(y)} \cup {x}
      BY <3>1, <3>2, <3>3, <3>4, <2>1, <2>3, <2>4, <1>3, <1>13, OneSpan
    <3>6. {a.act : a \in emitted'} = {y \in Tracked : Ended(y)'}
      BY <3>1, <3>5, <2>5, <2>9
    <3>7. \A a \in emitted' : a.err = IF a.act \in Drvs THEN failed'[a.act] ELSE "no"
      BY <3>2, <3>5, <2>1, <1>4
    <3>8. Running'
      BY <2>6, <2>7, <3>6, <3>7 DEF Running
    <3> QED BY <3>5, <3>8
  <2> QED BY <2>8, <2>9
<1> QED BY <1>8, <1>9, <1>11, <1>12, <1>13

LEMMA StreamTypesKept ==
  ASSUME StreamInv, NEW ev, NEW x, NEW v, Says(ev, x, v),
         \/ x \in Acts /\ OnStart(x) /\ ev = "start"
         \/ x \in Acts /\ OnStop(x) /\ ev = "stop"
         \/ x \in Acts /\ v \in Values /\ Progress(x, v) /\ ev = "progress"
         \/ x \in Drvs /\ v \in DrvKinds /\ DrvFailed(x, v) /\ ev = "fail"
         \/ v \in RunKinds /\ OtherError(v) /\ ev = "error"
  PROVE  StreamTypes'
<1>1. /\ emitted' \subseteq Spans
      /\ metrics' \in [built : Nat, failed : Nat, substituted : Nat, timed : Nat]
  BY SpansKept
<1>2. /\ log \in Seq(Lines) /\ Plain
      /\ held \subseteq Drvs /\ copies \subseteq Copies /\ active \subseteq Tracked
      /\ failed \in [Drvs -> DrvKinds \cup {"no"}]
      /\ bytes \in [Substs -> {0} \cup Values]
      /\ kinds \subseteq DrvKinds \cup RunKinds
  BY DEF StreamInv, StreamTypes, Remembered
<1>3. aggs \in [Aggs -> [seen : BOOLEAN, nested : BOOLEAN, last : {0} \cup Values, open : BOOLEAN]]
  BY DEF StreamInv, StreamTypes
<1>4. PICK n \in Nat : n = Len(log)
  BY <1>2, LinesCount
<1>5. log' \in Seq(Lines)
  BY <1>2, <1>4, Grows
<1>6. ASSUME /\ held' \subseteq Drvs /\ copies' \subseteq Copies /\ active' \subseteq Tracked
             /\ failed' \in [Drvs -> DrvKinds \cup {"no"}]
             /\ aggs' \in [Aggs -> [seen : BOOLEAN, nested : BOOLEAN, last : {0} \cup Values, open : BOOLEAN]]
             /\ bytes' \in [Substs -> {0} \cup Values]
             /\ kinds' \subseteq DrvKinds \cup RunKinds
      PROVE  StreamTypes'
  BY <1>1, <1>5, <1>6 DEF StreamTypes
<1>7. CASE x \in Acts /\ OnStart(x) /\ ev = "start"
  <2>1. /\ active' = IF x \in Tracked THEN active \cup {x} ELSE active
        /\ copies' = IF x \in Copies /\ CopyOf[x] \in active THEN copies \cup {x} ELSE copies
        /\ UNCHANGED <<held, failed, bytes, kinds>>
        /\ aggs' = IF x \in Aggs
                   THEN [aggs EXCEPT ![x].open = TRUE,
                                     ![x].nested = OuterOf[x] # x /\ aggs[OuterOf[x]].open]
                   ELSE aggs
    BY <1>7 DEF OnStart, Tracked
  <2>2. aggs' \in [Aggs -> [seen : BOOLEAN, nested : BOOLEAN, last : {0} \cup Values, open : BOOLEAN]]
    <3> DEFINE under == OuterOf[x] # x /\ aggs[OuterOf[x]].open
    <3>1. x \in Aggs => under \in BOOLEAN
      BY <1>3, NixLogAssumption
    <3> HIDE DEF under
    <3> QED BY <2>1, <3>1, <1>3 DEF under
  <2> QED BY <2>1, <2>2, <1>2, <1>6
<1>8. CASE x \in Acts /\ OnStop(x) /\ ev = "stop"
  <2>1. /\ active' = active \ {x} /\ copies' = copies \ {x}
        /\ held' = IF x \in Drvs /\ failed[x] = "no" THEN held \cup {x} ELSE held
        /\ UNCHANGED <<failed, aggs, bytes, kinds>>
    BY <1>8 DEF OnStop
  <2> QED BY <2>1, <1>2, <1>3, <1>6
<1>9. CASE x \in Acts /\ v \in Values /\ Progress(x, v) /\ ev = "progress"
  <2> DEFINE s == IF x \in copies THEN CopyOf[x] ELSE x
  <2>1. /\ UNCHANGED <<active, held, failed, copies, kinds>>
        /\ bytes' = IF s \in Substs \cap active THEN [bytes EXCEPT ![s] = v] ELSE bytes
        /\ aggs' = IF x \in Aggs THEN [aggs EXCEPT ![x].seen = TRUE, ![x].last = v] ELSE aggs
    BY <1>9 DEF Progress
  <2>2. aggs' \in [Aggs -> [seen : BOOLEAN, nested : BOOLEAN, last : {0} \cup Values, open : BOOLEAN]]
    BY <2>1, <1>3, <1>9
  <2>3. bytes' \in [Substs -> {0} \cup Values]
    <3> HIDE DEF s
    <3> QED BY <2>1, <1>2, <1>9
  <2> QED BY <2>1, <2>2, <2>3, <1>2, <1>6
<1>10. CASE x \in Drvs /\ v \in DrvKinds /\ DrvFailed(x, v) /\ ev = "fail"
  <2>1. /\ UNCHANGED <<active, aggs, copies, bytes>>
        /\ \/ UNCHANGED <<failed, kinds, held>>
           \/ /\ failed' = [failed EXCEPT ![x] = v] /\ kinds' = kinds \cup {v}
              /\ held' = held \ {x}
    BY <1>10 DEF DrvFailed
  <2> QED BY <2>1, <1>2, <1>3, <1>6, <1>10
<1>11. CASE v \in RunKinds /\ OtherError(v) /\ ev = "error"
  <2>1. /\ UNCHANGED <<active, held, failed, aggs, copies, bytes>>
        /\ kinds' = kinds \cup {v}
    BY <1>11 DEF OtherError
  <2> QED BY <2>1, <1>2, <1>3, <1>6, <1>11
<1> QED BY <1>7, <1>8, <1>9, <1>10, <1>11

\* The most specific kind a message named is the run's, but for a signal.
LEMMA KindIsSpecific ==
  ASSUME NEW exit, kinds \subseteq DrvKinds \cup RunKinds
  PROVE  /\ kinds \cap DrvKinds # {} => ErrorType(exit) \in DrvKinds \cup {"signal", "none"}
         /\ ErrorType(exit) # "running"
<1> DEFINE known == {i \in 1 .. 5 : KindPrecedence[i] \in kinds}
<1>1. /\ DOMAIN KindPrecedence = 1 .. 5
      /\ KindPrecedence[1] = "hash_mismatch" /\ KindPrecedence[2] = "build_failed"
      /\ KindPrecedence[3] = "dependency_failed" /\ KindPrecedence[4] = "eval_error"
      /\ KindPrecedence[5] = "other"
  BY DEF KindPrecedence
<1>2. known # {} => Min(known) \in known /\ \A j \in known : Min(known) <= j
  <2>1. known \in SUBSET Nat
    OBVIOUS
  <2> HIDE DEF known
  <2>2. known # {} => \E i \in known : \A j \in known : i <= j
    BY <2>1, LeastOf
  <2> QED BY <2>2 DEF Min
<1>3. ASSUME NEW b \in BOOLEAN
      PROVE  FailureKind(b) = IF b \/ "signal" \in kinds THEN "signal"
                              ELSE IF known = {} THEN "" ELSE KindPrecedence[Min(known)]
  BY <1>1 DEF FailureKind
<1>4. known # {} => KindPrecedence[Min(known)] \in kinds /\ KindPrecedence[Min(known)] # "running"
  BY <1>1, <1>2
<1>5. kinds \cap DrvKinds # {} => known # {} /\ KindPrecedence[Min(known)] \in DrvKinds
  <2> SUFFICES ASSUME NEW k \in kinds \cap DrvKinds
               PROVE  known # {} /\ KindPrecedence[Min(known)] \in DrvKinds
    OBVIOUS
  <2>1. k \in {KindPrecedence[1], KindPrecedence[2], KindPrecedence[3]}
    BY <1>1, NixLogAssumption
  <2>2. PICK i \in 1 .. 3 : k = KindPrecedence[i]
    BY <2>1
  <2>3. i \in known
    BY <2>2
  <2>4. Min(known) \in 1 .. 3
    <3>1. Min(known) \in 1 .. 5 /\ Min(known) <= i
      BY <2>3, <1>2
    <3> HIDE DEF known
    <3> QED BY <3>1
  <2>5. KindPrecedence[Min(known)] \in kinds
    BY <2>3, <1>4
  <2>6. KindPrecedence[Min(known)] \in {"hash_mismatch", "build_failed", "dependency_failed"}
    <3> HIDE DEF known
    <3> QED BY <2>4, <1>1
  <2> QED BY <2>3, <2>5, <2>6, NixLogAssumption
<1> HIDE DEF known
<1>6. \A b \in BOOLEAN : /\ FailureKind(b) # "running"
                         /\ kinds \cap DrvKinds # {} => FailureKind(b) \in DrvKinds \cup {"signal"}
                         /\ kinds \cap DrvKinds # {} => FailureKind(b) # ""
  <2>1. "" \notin DrvKinds
    BY NixLogAssumption
  <2> QED BY <2>1, <1>3, <1>4, <1>5
<1>7. PICK b \in BOOLEAN : b = (exit = "signal")
  OBVIOUS
<1>8. ErrorType(exit) = IF exit = "zero" THEN "none"
                        ELSE IF FailureKind(b) = "" THEN "nonzero_exit" ELSE FailureKind(b)
  BY <1>7 DEF ErrorType
<1> QED BY <1>6, <1>8

LEMMA FiniteImage ==
  ASSUME NEW A, IsFiniteSet(A), NEW f
  PROVE  IsFiniteSet({f[a] : a \in A})
<1> DEFINE B == {f[a] : a \in A}  g == [a \in A |-> f[a]]
<1>1. g \in Surjection(A, B)
  BY DEF Surjection
<1> HIDE DEF B, g
<1>2. IsFiniteSet(B)
  BY <1>1, FS_Surjection
<1> QED BY <1>2 DEF B

\* Finish gives every activity that is still without a span its one.
LEMMA FinishKept ==
  ASSUME StreamInv, NEW exit, FinishRun(exit)
  PROVE  StreamTypes' /\ Spanned' /\ Counts' /\ Finished' /\ kind' # "running"
<1>1. /\ StreamTypes /\ Remembered /\ Counts /\ Spanned /\ Running
      /\ \A y \in Acts : Stopped(y) => Started(y)
      /\ \A d \in Drvs : failed[d] = IF Said(d) = {} THEN "no" ELSE log[Min(Said(d))].v
      /\ \A d \in Drvs : failed[d] # "no" => failed[d] \in kinds
      /\ failed \in [Drvs -> DrvKinds \cup {"no"}] /\ held \subseteq Drvs /\ active \subseteq Tracked
      /\ emitted \subseteq Spans /\ kinds \subseteq DrvKinds \cup RunKinds
      /\ IsFiniteSet(active) /\ IsFiniteSet(held)
  BY DEF StreamInv, StreamTypes, Remembered, FinishRun, Counts
<1>2. /\ active = {y \in Tracked : Started(y) /\ ~Stopped(y)}
      /\ held = {d \in Drvs : Stopped(d) /\ failed[d] = "no"}
      /\ {a.act : a \in emitted} = {y \in Tracked : Ended(y)}
      /\ \A a \in emitted : a.err = IF a.act \in Drvs THEN failed[a.act] ELSE "no"
  BY <1>1 DEF Running
<1> DEFINE built == [d \in held |-> Span(d, "no", FALSE)]
           open == [x \in active |-> Span(x, "aborted", FALSE)]
<1>3. PICK S : S = {built[d] : d \in held} \cup {open[x] : x \in active}
  OBVIOUS
<1>4. /\ Emit(S) /\ held' = {} /\ active' = {} /\ kind' = ErrorType(exit)
      /\ UNCHANGED <<failed, aggs, copies, bytes, kinds, log, brief>>
  <2>1. S = {Span(d, "no", FALSE) : d \in held} \cup {Span(x, "aborted", FALSE) : x \in active}
    BY <1>3
  <2> QED BY <2>1 DEF FinishRun
<1>5. IsFiniteSet(S)
  <2> HIDE DEF built, open
  <2>1. IsFiniteSet({built[d] : d \in held}) /\ IsFiniteSet({open[x] : x \in active})
    BY <1>1, FiniteImage
  <2> QED BY <2>1, <1>3, FS_Union
<1>6. /\ \A d \in held : /\ built[d] \in Spans /\ built[d].act = d /\ built[d].err = "no"
                         /\ built[d].instant = FALSE
                         /\ built[d].bytes = IF d \in Substs THEN bytes[d] ELSE 0
                         /\ built[d].spans = IF d \in brief THEN 0 ELSE 1
      /\ \A x \in active : /\ open[x] \in Spans /\ open[x].act = x /\ open[x].err = "aborted"
                           /\ open[x].instant = FALSE
                           /\ open[x].bytes = IF x \in Substs THEN bytes[x] ELSE 0
                           /\ open[x].spans = IF x \in brief THEN 0 ELSE 1
  <2>1. PICK no \in BOOLEAN : no = FALSE
    OBVIOUS
  <2>2. ASSUME NEW d \in held
        PROVE  /\ built[d] \in Spans /\ built[d].act = d /\ built[d].err = "no"
               /\ built[d].instant = FALSE
               /\ built[d].bytes = IF d \in Substs THEN bytes[d] ELSE 0
               /\ built[d].spans = IF d \in brief THEN 0 ELSE 1
    <3>1. PICK t \in Spans : /\ t = Span(d, "no", no) /\ t.act = d /\ t.err = "no" /\ t.instant = no
                             /\ t.bytes = IF d \in Substs THEN bytes[d] ELSE 0
                             /\ t.spans = IF d \in brief' THEN 0 ELSE 1
      <4>1. d \in Tracked
        BY <1>1 DEF Tracked
      <4> QED BY <4>1, <1>1, SpanOf
    <3> QED BY <3>1, <2>1, <1>4
  <2>3. ASSUME NEW x \in active
        PROVE  /\ open[x] \in Spans /\ open[x].act = x /\ open[x].err = "aborted"
               /\ open[x].instant = FALSE
               /\ open[x].bytes = IF x \in Substs THEN bytes[x] ELSE 0
               /\ open[x].spans = IF x \in brief THEN 0 ELSE 1
    <3>1. PICK t \in Spans : /\ t = Span(x, "aborted", no) /\ t.act = x /\ t.err = "aborted" /\ t.instant = no
                             /\ t.bytes = IF x \in Substs THEN bytes[x] ELSE 0
                             /\ t.spans = IF x \in brief' THEN 0 ELSE 1
      BY <1>1, SpanOf
    <3> QED BY <3>1, <2>1, <1>4
  <2> QED BY <2>2, <2>3
<1> HIDE DEF built, open
<1>7. \A t \in S : /\ t \in Spans /\ t.instant = FALSE
                   /\ t.bytes = IF t.act \in Substs THEN bytes[t.act] ELSE 0
                   /\ t.spans = IF t.act \in brief THEN 0 ELSE 1
                   /\ \/ t.act \in held /\ t = built[t.act] /\ t.err = "no"
                      \/ t.act \in active /\ t = open[t.act] /\ t.err = "aborted"
  BY <1>3, <1>6
<1>8. \A y : (\E t \in S : t.act = y) <=> y \in held \/ y \in active
  BY <1>3, <1>6, <1>7
<1>9. /\ \A y \in Tracked : Ended(y) => y \notin active /\ y \notin held
      /\ held \cap active = {}
      /\ \A y \in held \cup active : Started(y) /\ y \in Tracked
  BY <1>1, <1>2 DEF Ended, Tracked, Acts
<1>10. \A a \in emitted : a.act \in Tracked /\ Ended(a.act)
  BY <1>2
<1>11. emitted \cap S = {}
  BY <1>7, <1>9, <1>10
<1>12. /\ Counts' /\ emitted' = emitted \cup S
       /\ metrics' \in [built : Nat, failed : Nat, substituted : Nat, timed : Nat]
  <2>1. IsFiniteSet(active') /\ IsFiniteSet(held')
    BY <1>4, FS_EmptySet
  <2> QED BY <2>1, <1>1, <1>4, <1>5, <1>11, EmitCounts
<1>13. StreamTypes'
  BY <1>1, <1>4, <1>7, <1>12 DEF StreamTypes
<1>14. /\ \A y : (Started(y)' <=> Started(y)) /\ (Stopped(y)' <=> Stopped(y))
       /\ \A y : Said(y)' = Said(y) /\ Verdict(y)' = Verdict(y)
       /\ Seen' = Seen
  BY <1>4 DEF Started, Stopped, Said, Verdict, Seen
<1>15. Spanned'
  <2>1. \A a \in emitted' : a.instant = ~Started(a.act)'
    <3>1. \A a \in emitted : a.instant = ~Started(a.act)'
      BY <1>1, <1>14 DEF Spanned
    <3>2. \A a \in S : a.instant = ~Started(a.act)'
      BY <1>7, <1>9, <1>14
    <3> QED BY <3>1, <3>2, <1>12
  <2>2. \A a \in emitted' : a.bytes = IF a.act \in Substs THEN bytes'[a.act] ELSE 0
    BY <1>1, <1>4, <1>7, <1>12 DEF Spanned
  <2>3. \A a, b \in emitted' : a.act = b.act => a = b
    <3>1. \A a, b \in emitted : a.act = b.act => a = b
      BY <1>1 DEF Spanned
    <3>2. \A a, b \in S : a.act = b.act => a = b
      BY <1>7, <1>9
    <3>3. \A a \in emitted, b \in S : a.act # b.act
      BY <1>7, <1>9, <1>10
    <3> QED BY <3>1, <3>2, <3>3, <1>12
  <2>4. /\ \A a \in emitted' : a.spans = IF a.act \in brief' THEN 0 ELSE 1
        /\ \A s \in brief' : s \in Substs /\ Stopped(s)'
    BY <1>1, <1>4, <1>7, <1>12, <1>14 DEF Spanned
  <2> QED BY <2>1, <2>2, <2>3, <2>4 DEF Spanned
<1>16. \A x \in Drvs : failed[x] = "no" <=> Said(x) = {}
  <2>1. PICK n \in Nat : n = Len(log)
    BY <1>1, LinesCount DEF StreamTypes
  <2>2. \A x \in Drvs : Said(x) # {} => log[Min(Said(x))].v # "no"
    <3> SUFFICES ASSUME NEW x \in Drvs, Said(x) # {} PROVE log[Min(Said(x))].v # "no"
      OBVIOUS
    <3>1. Plain /\ DOMAIN log = 1 .. n
      BY <1>1, <2>1 DEF Remembered, StreamTypes
    <3>2. Said(x) \subseteq 1 .. n
      BY <3>1 DEF Said
    <3>3. Min(Said(x)) \in Said(x)
      BY <3>2, FirstAndLast
    <3> QED BY <3>1, <3>3, NixLogAssumption DEF Said, Plain
  <2> QED BY <2>2, <1>1
<1>17. {a.act : a \in emitted'} = Seen
  <2>1. {a.act : a \in emitted'} = {y \in Tracked : Ended(y)} \cup held \cup active
    BY <1>2, <1>8, <1>12
  <2>2. ASSUME NEW y \in Tracked
        PROVE  Ended(y) \/ y \in held \/ y \in active
               <=> Started(y) \/ (y \in Drvs /\ Said(y) # {})
    BY <1>1, <1>2, <1>16 DEF Ended, Acts, Tracked
  <2>3. Seen = {y \in Tracked : Started(y) \/ (y \in Drvs /\ Said(y) # {})}
    BY DEF Seen, Tracked
  <2> QED BY <2>1, <2>2, <2>3, <1>9
<1>18. \A a \in emitted' : a.err = Verdict(a.act)
  <2>1. ASSUME NEW a \in emitted  PROVE a.err = Verdict(a.act)
    <3>1. ~(Started(a.act) /\ ~Stopped(a.act))
      BY <1>2, <1>9, <1>10
    <3>2. a.act \in Drvs => failed[a.act] # "no"
      BY <1>10 DEF Ended
    <3> QED BY <3>1, <3>2, <1>1, <1>2, <1>16 DEF Verdict
  <2>2. ASSUME NEW a \in S  PROVE a.err = Verdict(a.act)
    <3>1. CASE a.act \in held
      BY <3>1, <1>2, <1>7, <1>9, <1>16 DEF Verdict
    <3>2. CASE a.act \in active
      BY <3>2, <1>2, <1>7, <1>9 DEF Verdict
    <3> QED BY <3>1, <3>2, <1>7
  <2> QED BY <2>1, <2>2, <1>12
<1>19. /\ (\E a \in emitted' : a.err \in DrvKinds) => kind' \in DrvKinds \cup {"signal", "none"}
       /\ kind' # "running"
  <2>1. "no" \notin DrvKinds /\ "aborted" \notin DrvKinds
    BY NixLogAssumption
  <2>2. (\E a \in emitted' : a.err \in DrvKinds) => kinds \cap DrvKinds # {}
    BY <2>1, <1>1, <1>2, <1>7, <1>12
  <2> QED BY <2>2, <1>1, <1>4, KindIsSpecific
<1>20. Finished'
  BY <1>14, <1>17, <1>18, <1>19 DEF Finished
<1> QED BY <1>12, <1>13, <1>15, <1>19, <1>20

LEMMA StreamInitInv == StreamInit => StreamInv
<1> SUFFICES ASSUME StreamInit PROVE StreamInv
  OBVIOUS
<1>1. /\ active = {} /\ held = {} /\ copies = {} /\ emitted = {} /\ brief = {} /\ kinds = {}
      /\ log = <<>>
      /\ failed = [d \in Drvs |-> "no"] /\ bytes = [s \in Substs |-> 0]
      /\ aggs = [a \in Aggs |-> [seen |-> FALSE, nested |-> FALSE, last |-> 0, open |-> FALSE]]
      /\ metrics = [built |-> 0, failed |-> 0, substituted |-> 0, timed |-> 0]
      /\ kind = "running"
  BY DEF StreamInit, NoAgg
<1>2. DOMAIN log = {}
  BY <1>1
<1>3. StreamTypes
  <2>1. log \in Seq(Lines)
    BY <1>1
  <2>2. /\ aggs \in [Aggs -> [seen : BOOLEAN, nested : BOOLEAN, last : {0} \cup Values, open : BOOLEAN]]
        /\ metrics \in [built : Nat, failed : Nat, substituted : Nat, timed : Nat]
    BY <1>1
  <2> QED BY <2>1, <2>2, <1>1 DEF StreamTypes
<1>4. /\ \A y : ~Started(y) /\ ~Stopped(y) /\ Said(y) = {} /\ About(y) = {} /\ Reports(y) = {}
      /\ \A y : ~Inner(y)
  BY <1>2 DEF Started, Stopped, Said, About, Reports, Inner
<1>5. Remembered
  BY <1>1, <1>2, <1>4 DEF Remembered, Plain
<1>6. Folded
  BY <1>1, <1>4 DEF Folded, LastValue
<1>7. Spanned /\ Running
  BY <1>1, <1>4 DEF Spanned, Running, Ended
<1>8. Counts
  <2>1. /\ IsFiniteSet({}) /\ Cardinality({}) = 0
    BY FS_EmptySet
  <2>2. Builds(emitted) = {} /\ Fetched(emitted) = {} /\ {a \in Builds(emitted) : ~a.instant} = {}
    BY <1>1 DEF Builds, Fetched
  <2>3. metrics.built = 0 /\ metrics.failed = 0 /\ metrics.timed = 0 /\ metrics.substituted = 0
    BY <1>1
  <2> QED BY <2>1, <2>2, <2>3, <1>1 DEF Counts
<1> QED BY <1>1, <1>3, <1>5, <1>6, <1>7, <1>8 DEF StreamInv

LEMMA StreamStep == StreamInv /\ [StreamNext]_streamVars => StreamInv'
<1> SUFFICES ASSUME StreamInv, [StreamNext]_streamVars PROVE StreamInv'
  OBVIOUS
<1>1. ASSUME NEW ev, NEW x, NEW v, Says(ev, x, v), StreamNext,
             \/ x \in Acts /\ OnStart(x) /\ ev = "start"
             \/ x \in Acts /\ OnStop(x) /\ ev = "stop"
             \/ x \in Acts /\ v \in Values /\ Progress(x, v) /\ ev = "progress"
             \/ x \in Drvs /\ v \in DrvKinds /\ DrvFailed(x, v) /\ ev = "fail"
             \/ v \in RunKinds /\ OtherError(v) /\ ev = "error"
      PROVE  StreamInv'
  <2>1. Spanned' /\ Counts' /\ Running'
    BY <1>1, SpansKept
  <2>2. StreamTypes'
    BY <1>1, StreamTypesKept
  <2>3. Remembered' /\ Folded'
    BY <1>1, RememberedKept, FoldedKept
  <2>4. kind' = "running"
    BY <1>1 DEF Says, Read
  <2> QED BY <2>1, <2>2, <2>3, <2>4 DEF StreamInv
<1>2. ASSUME NEW exit, FinishRun(exit), StreamNext  PROVE StreamInv'
  <2>1. StreamTypes' /\ Spanned' /\ Counts' /\ Finished' /\ kind' # "running"
    BY <1>2, FinishKept
  <2>2. Remembered' /\ Folded'
    BY <1>2, RememberedKept, FoldedKept
  <2> QED BY <2>1, <2>2 DEF StreamInv
<1>3. ASSUME UNCHANGED streamVars  PROVE StreamInv'
  <2>1. UNCHANGED <<active, held, failed, aggs, copies, bytes, kinds, emitted, brief, metrics,
                    kind, log>>
    BY <1>3 DEF streamVars
  <2>2. /\ \A y : Started(y)' = Started(y) /\ Stopped(y)' = Stopped(y) /\ Said(y)' = Said(y)
        /\ \A y : Copying(y)' = Copying(y) /\ Verdict(y)' = Verdict(y)
        /\ Seen' = Seen /\ Plain' = Plain
    BY <2>1 DEF Started, Stopped, Said, Copying, At, Before, Verdict, Seen, Plain
  <2>3. /\ \A y : LastValue(About(y))' = LastValue(About(y))
        /\ \A y : LastValue(Reports(y))' = LastValue(Reports(y))
        /\ \A y : Reports(y)' = Reports(y) /\ Inner(y)' = Inner(y)
    BY <2>1 DEF LastValue, About, Reports, Inner, At, Before
  <2>4. StreamTypes /\ Remembered /\ Folded /\ Spanned /\ Counts
    BY DEF StreamInv
  <2>5. StreamTypes' /\ Counts'
    BY <2>1, <2>4 DEF StreamTypes, Counts, Builds, Fetched
  <2>6. Remembered'
    BY <2>1, <2>2, <2>4 DEF Remembered
  <2>7. Folded'
    BY <2>1, <2>2, <2>3, <2>4 DEF Folded
  <2>8. Spanned'
    BY <2>1, <2>2, <2>4 DEF Spanned
  <2>9. /\ kind' = "running" => Running'
        /\ kind' # "running" => Finished'
    BY <2>1, <2>2 DEF StreamInv, Running, Finished, Ended
  <2> QED BY <2>5, <2>6, <2>7, <2>8, <2>9 DEF StreamInv
<1>4. CASE StreamNext
  <2>1. ASSUME NEW x \in Acts, OnStart(x)  PROVE StreamInv'
    BY <2>1, <1>1, <1>4, HandlersRead
  <2>2. ASSUME NEW x \in Acts, OnStop(x)  PROVE StreamInv'
    BY <2>2, <1>1, <1>4, HandlersRead
  <2>3. ASSUME NEW x \in Acts, NEW v \in Values, Progress(x, v)  PROVE StreamInv'
    BY <2>3, <1>1, <1>4, HandlersRead
  <2>4. ASSUME NEW d \in Drvs, NEW k \in DrvKinds, DrvFailed(d, k)  PROVE StreamInv'
    BY <2>4, <1>1, <1>4, HandlersRead
  <2>5. ASSUME NEW k \in RunKinds, OtherError(k)  PROVE StreamInv'
    BY <2>5, <1>1, <1>4, HandlersRead
  <2> QED BY <2>1, <2>2, <2>3, <2>4, <2>5, <1>2, <1>4 DEF StreamNext, Acts, Tracked
<1> QED BY <1>3, <1>4

LEMMA StreamAlways == StreamSpec => []StreamInv
<1> QED BY StreamInitInv, StreamStep, PTL DEF StreamSpec

\* As many spans as activities of the log, as many durations as stopped builds.
LEMMA AsManySpans ==
  ASSUME NEW S \in SUBSET emitted, StreamInv
  PROVE  Cardinality(S) = Cardinality({a.act : a \in S})
<1> DEFINE of == [a \in S |-> a.act]  T == {a.act : a \in S}
<1>1. \A a, b \in S : of[a] = of[b] => a = b
  BY DEF StreamInv, Spanned
<1>2. of \in [S -> T] /\ \A t \in T : \E a \in S : of[a] = t
  OBVIOUS
<1> HIDE DEF of, T
<1>3. of \in Bijection(S, T)
  BY <1>1, <1>2 DEF Bijection, Injection, Surjection, IsInjective
<1>4. IsFiniteSet(S)
  BY FS_Subset DEF StreamInv, Counts
<1>5. ExistsBijection(S, T)
  BY <1>3 DEF ExistsBijection
<1>6. Cardinality(T) = Cardinality(S)
  BY <1>4, <1>5, FS_Bijection
<1> QED BY <1>6 DEF T

\* Of any log, in any order of its lines, what is reported is what the log says
\* as a whole (nixlog.go, the header and fold; LogIsReported).
THEOREM LogIsRight == StreamSpec => []LogIsReported
<1>1. StreamInv => LogIsReported
  <2> SUFFICES ASSUME StreamInv PROVE LogIsReported
    OBVIOUS
  <2>1. /\ StreamTypes /\ Remembered /\ Folded /\ Spanned /\ Counts
        /\ emitted \subseteq Spans /\ \A x \in Acts : Stopped(x) => Started(x)
    BY DEF StreamInv, StreamTypes, Remembered
  <2>2. ASSUME kind # "running"
        PROVE  /\ {a.act : a \in emitted} = Seen
               /\ \A a \in emitted : a.err = Verdict(a.act)
               /\ (\E a \in emitted : a.err \in DrvKinds) => kind \in DrvKinds \cup {"signal", "none"}
    BY <2>2 DEF StreamInv, Finished
  <2>3. /\ Traced \in SUBSET emitted
        /\ \A a \in emitted : a \in Traced <=> a.act \notin brief
        /\ \A s \in brief : s \in Substs /\ Stopped(s)
    BY <2>1 DEF Traced, Spanned
  <2>t. ASSUME kind # "running"
        PROVE  /\ {a.act : a \in Traced} = Seen \ brief
               /\ Cardinality(Traced) = Cardinality(Seen \ brief)
    <3>1. {a.act : a \in Traced} = Seen \ brief
      BY <2>2, <2>3, <2>t
    <3>2. Cardinality(Traced) = Cardinality({a.act : a \in Traced})
      BY <2>3, AsManySpans
    <3> QED BY <3>1, <3>2
  <2>4. /\ metrics.built + metrics.failed
             = Cardinality({a \in Traced : a.act \in Drvs /\ a.err # "aborted"})
        /\ metrics.timed = Cardinality({a \in Builds(emitted) : ~a.instant})
        /\ metrics.substituted = Cardinality(Fetched(emitted))
    <3>1. {a \in Traced : a.act \in Drvs /\ a.err # "aborted"} = Builds(emitted)
      BY <2>3, Disjoint DEF Builds
    <3> QED BY <2>1, <3>1 DEF Counts
  <2>5. ASSUME kind # "running"  PROVE metrics.timed = Cardinality({d \in Drvs : Stopped(d)})
    <3> DEFINE S == {a \in Builds(emitted) : ~a.instant}
    <3>1. "no" \notin DrvKinds /\ "aborted" \notin DrvKinds /\ "aborted" # "no"
      BY NixLogAssumption
    <3>2. \A a \in emitted : /\ a.instant = ~Started(a.act)
                           /\ a.err = Verdict(a.act)
      BY <2>1, <2>2, <2>5 DEF Spanned
    <3>3. ASSUME NEW a \in emitted, a.act \in Drvs
          PROVE  a.err = "aborted" <=> Started(a.act) /\ ~Stopped(a.act)
      <4>1. Said(a.act) # {} => log[Min(Said(a.act))].v # "aborted"
        <5> SUFFICES ASSUME Said(a.act) # {} PROVE log[Min(Said(a.act))].v # "aborted"
          OBVIOUS
        <5>1. /\ failed[a.act] = log[Min(Said(a.act))].v
              /\ failed[a.act] \in DrvKinds \cup {"no"}
          BY <2>1, <3>3 DEF Remembered, StreamTypes
        <5> QED BY <5>1, <3>1
      <4> QED BY <4>1, <3>1, <3>2 DEF Verdict
    <3>4. \A a \in S : Stopped(a.act) /\ a.act \in Drvs
      BY <3>2, <3>3 DEF Builds
    <3>5. ASSUME NEW d \in Drvs, Stopped(d)  PROVE \E a \in S : a.act = d
      <4>1. Started(d)
        BY <2>1, <3>5 DEF Acts, Tracked
      <4>2. d \in Seen
        BY <4>1 DEF Seen
      <4>3. PICK a \in emitted : a.act = d
        BY <4>2, <2>2, <2>5
      <4> QED BY <4>1, <4>3, <3>2, <3>3, <3>5 DEF Builds
    <3>6. {a.act : a \in S} = {d \in Drvs : Stopped(d)}
      BY <3>4, <3>5
    <3>7. S \in SUBSET emitted
      BY DEF Builds
    <3> HIDE DEF S
    <3>8. Cardinality(S) = Cardinality({a.act : a \in S})
      BY <3>7, AsManySpans
    <3> QED BY <3>6, <3>8, <2>4 DEF S
  <2>s. ASSUME kind # "running"  PROVE metrics.substituted = Cardinality({s \in Substs : Stopped(s)})
    <3>1. {a.act : a \in Fetched(emitted)} = {s \in Substs : Stopped(s)}
      <4>1. ASSUME NEW a \in emitted, a.act \in Substs
            PROVE  a.err = "aborted" <=> Started(a.act) /\ ~Stopped(a.act)
        <5>1. a.err = Verdict(a.act) /\ a.act \notin Drvs
          BY <2>2, <2>s, <4>1, Disjoint
        <5> QED BY <5>1 DEF Verdict
      <4>2. \A a \in emitted : a.act \in Seen
        BY <2>2, <2>s
      <4>3. ASSUME NEW s \in Substs
            PROVE  s \in Seen <=> Started(s)
        BY <4>3, Disjoint DEF Seen
      <4>4. ASSUME NEW s \in Substs, Stopped(s) PROVE \E a \in Fetched(emitted) : a.act = s
        <5>1. Started(s)
          BY <2>1, <4>4 DEF Acts, Tracked
        <5>2. PICK a \in emitted : a.act = s
          BY <2>2, <2>s, <4>3, <5>1
        <5> QED BY <4>1, <4>4, <5>2 DEF Fetched
      <4>5. \A a \in Fetched(emitted) : a.act \in Substs /\ Stopped(a.act)
        BY <4>1, <4>2, <4>3 DEF Fetched
      <4> QED BY <4>4, <4>5
    <3>2. Fetched(emitted) \in SUBSET emitted
      BY DEF Fetched
    <3>3. Cardinality(Fetched(emitted)) = Cardinality({a.act : a \in Fetched(emitted)})
      BY <3>2, AsManySpans
    <3> QED BY <3>1, <3>3, <2>4
  <2>6. OneOutcomeEach
    <3>1. ASSUME kind # "running"
          PROVE  /\ \A a \in Traced : a.err = Verdict(a.act)
                 /\ (\E a \in Traced : a.err \in DrvKinds) => kind \in DrvKinds \cup {"signal", "none"}
      BY <2>2, <2>3, <3>1
    <3> QED BY <3>1, <2>t, <2>4, <2>5, <2>s, Zenon DEF OneOutcomeEach
  <2>7. ProgressIsAttributed
    <3>1. \A a \in Traced : a.act \in Substs => a.bytes = LastValue(About(a.act))
      BY <2>1, <2>3 DEF Spanned, Folded
    <3>2. /\ [a \in Aggs |-> aggs[a].last] = [g \in Aggs |-> LastValue(Reports(g))]
          /\ {a \in Aggs : aggs[a].seen /\ ~aggs[a].nested} = {g \in Aggs : Reports(g) # {} /\ ~Inner(g)}
      BY <2>1 DEF Folded
    <3> QED BY <3>1, <3>2, Zenon DEF ProgressIsAttributed, Expected
  <2> QED BY <2>6, <2>7 DEF LogIsReported
<1> QED BY <1>1, StreamAlways, PTL
===============================================================================
