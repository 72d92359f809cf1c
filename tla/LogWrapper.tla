----------------------------- MODULE LogWrapper -----------------------------
(***************************************************************************)
(* The log directory of pg-nix-log-wrapped and the wrapper processes that  *)
(* share it.  A run owns two files with one stem: the scratch .raw that    *)
(* nix itself writes and the retained .jsonl, a filtered copy.  A wrapper  *)
(* first sweeps the directory (finalizing the .raw of dead runs, evicting  *)
(* old .jsonl files), creates its pair, starts nix, tails the .raw and, in *)
(* the end, completes the .jsonl and deletes the .raw.  Any wrapper may be *)
(* killed between two steps; nix then keeps writing on its own.            *)
(*                                                                         *)
(* A line is "keep" (retained), "drop" (progress or set-phase, omitted) or *)
(* "warn" (retained, and nix's unmatched --override-input warning).  The   *)
(* i-th retained line has its place in the .jsonl whoever writes it, so a  *)
(* .jsonl is the set of the places that hold their line.                   *)
(***************************************************************************)
EXTENDS Naturals, Sequences, FiniteSets, FiniteSetsExt, SequencesExt

CONSTANTS Runs,         \* wrapper processes (one run each)
          Guarded,      \* the runs whose CMD carries --override-input
          MaxLines,     \* bound: lines nix writes per run
          ParseCap,     \* tailer: retained lines after which parsing stops
          RetainedCap,  \* places a .jsonl has
          TotalCap,     \* lines the whole directory may hold after a sweep
          NoTelemetry   \* the runs whose telemetry cannot be set up

ASSUME LogAssumption ==
  /\ Guarded \subseteq Runs /\ NoTelemetry \subseteq Runs /\ IsFiniteSet(Runs)
  /\ {MaxLines, ParseCap, RetainedCap, TotalCap} \subseteq Nat
  /\ RetainedCap <= ParseCap

VARIABLES pc, nix, raw, out, tail, sweep, code,
          silent,       \* history: runs finalized while alive (silent beyond MaxAge)
          twice         \* history: runs two sweeps finalized at the same time

vars == <<pc, nix, raw, out, tail, sweep, code, silent, twice>>

Kind == {"keep", "drop", "warn"}
Gone == {"done", "killed", "direct"}
Step == {"idle", "sweep", "finalize", "remove", "create", "ready",
         "running", "drain", "close", "finish"} \cup Gone

----------------------------------------------------------------------------
(* Files.                                                                  *)

\* A .raw: its complete lines, how many of them were written under a living
\* wrapper, whether its name is still in the directory, and whether its mtime
\* is beyond the retention window (MaxAge).  A trailing line without newline is
\* read by nobody and left out.
NoRaw == [lines |-> <<>>, owed |-> 0, linked |-> FALSE, old |-> FALSE]
NoOut == [places |-> {}, linked |-> FALSE, old |-> FALSE]

\* The tailer and the writer behind it: lines read, lines retained so far, the
\* parse cap was hit, a write failed (for good), the guard saw a warning.
NoTail == [offset |-> 0, counted |-> 0, truncated |-> FALSE, broken |-> FALSE,
           warned |-> FALSE]

\* The retained rule: progress and set-phase results are omitted, the rest kept.
RetainDrop(k) == k = "drop"

Kept(lines) == {i \in DOMAIN lines : ~RetainDrop(lines[i])}

\* What Finalize writes for these lines: a prefix, up to the cap.
Filtered(lines) == {i \in 1 .. Cardinality(Kept(lines)) : i <= RetainedCap}

\* A retained file's length: up to its last place that holds a line.
OutSize(q) == IF out[q].places = {} THEN 0 ELSE Max(out[q].places)
RawSize(q) == Len(raw[q].lines)

Alive(q) == pc[q] \notin Gone \cup {"idle"}

\* Variant: a live run's .jsonl counts as finished.
EvictableAnyRun == {q \in Runs : out[q].linked}

\* The finalized .jsonl files: those whose stem holds no .raw any more.
Evictable == {q \in Runs : out[q].linked /\ ~raw[q].linked}

Total == FoldSet(LAMBDA q, n : n + (IF raw[q].linked THEN RawSize(q) ELSE 0)
                                 + (IF out[q].linked THEN OutSize(q) ELSE 0),
                 0, Runs)

Init ==
  /\ pc = [r \in Runs |-> "idle"]
  /\ nix = [r \in Runs |-> "none"]
  /\ raw = [r \in Runs |-> NoRaw]
  /\ out = [r \in Runs |-> NoOut]
  /\ tail = [r \in Runs |-> NoTail]
  /\ sweep = [r \in Runs |-> [todo |-> {}, target |-> r]]
  /\ code = [r \in Runs |-> 0]
  /\ silent = {}
  /\ twice = {}

Goto(r, l) == pc' = [pc EXCEPT ![r] = l]

----------------------------------------------------------------------------
(* The sweep, at the start of every observed run.                          *)

\* setup up to the first ReadDir of SweepWith.
Start(r) ==
  /\ pc[r] = "idle"
  /\ sweep' = [sweep EXCEPT ![r].todo = {q \in Runs : raw[q].linked}]
  /\ Goto(r, "sweep")
  /\ UNCHANGED <<nix, raw, out, tail, code, silent, twice>>

\* A listed .raw that is gone, or is young and whose pid answers: the run's
\* own process, or another process that was given the dead run's pid.
SweepSkip(r) ==
  /\ pc[r] = "sweep"
  /\ \E q \in sweep[r].todo :
       /\ ~raw[q].linked \/ ~raw[q].old
       /\ sweep' = [sweep EXCEPT ![r].todo = @ \ {q}]
  /\ UNCHANGED <<pc, nix, raw, out, tail, code, silent, twice>>

\* Finalize opens the .raw and creates or truncates its .jsonl.
FinalizeOpen(r) ==
  /\ pc[r] = "sweep"
  /\ \E q \in sweep[r].todo :
       /\ raw[q].linked
       /\ ~Alive(q) \/ raw[q].old
       /\ sweep' = [sweep EXCEPT ![r] = [todo |-> @.todo \ {q}, target |-> q]]
       /\ out' = [out EXCEPT ![q] = [places |-> {}, linked |-> TRUE,
                                     old |-> FALSE]]
       /\ silent' = IF Alive(q) THEN silent \cup {q} ELSE silent
       /\ twice' = IF \E s \in Runs : pc[s] \in {"finalize", "remove"}
                                      /\ sweep[s].target = q
                     THEN twice \cup {q} ELSE twice
  /\ Goto(r, "finalize")
  /\ UNCHANGED <<nix, raw, tail, code>>

\* Every complete line is filtered into the .jsonl, up to the cap, and the
\* file is stamped with the .raw's age.  An unlinked file takes the bytes
\* with it.
FinalizeWrite(r) ==
  /\ pc[r] = "finalize"
  /\ LET q == sweep[r].target IN
       out' = IF out[q].linked
                THEN [out EXCEPT ![q].places = @ \cup Filtered(raw[q].lines),
                                 ![q].old = raw[q].old]
                ELSE out
  /\ Goto(r, "remove")
  /\ UNCHANGED <<nix, raw, tail, sweep, code, silent, twice>>

\* A write error: the .raw stays for the next sweep.
FinalizeFails(r) ==
  /\ pc[r] = "finalize"
  /\ sweep' = [sweep EXCEPT ![r].target = r]
  /\ Goto(r, "sweep")
  /\ UNCHANGED <<nix, raw, out, tail, code, silent, twice>>

FinalizeRemove(r) ==
  /\ pc[r] = "remove"
  /\ raw' = [raw EXCEPT ![sweep[r].target].linked = FALSE]
  /\ sweep' = [sweep EXCEPT ![r].target = r]
  /\ Goto(r, "sweep")
  /\ UNCHANGED <<nix, out, tail, code, silent, twice>>

SizeOf(S) == MapThenSumSet(OutSize, S)

\* The sets a sweep may evict from one listing: every expired .jsonl, then
\* (oldest first: in some order) until the directory is within its cap.
EvictionSets ==
  LET expired == {q \in Evictable : out[q].old}
      fits(S) == Total - SizeOf(S) <= TotalCap
  IN {S \in SUBSET Evictable :
        /\ expired \subseteq S
        /\ fits(S) \/ S = Evictable
        /\ S = expired \/ \E last \in S \ expired : ~fits(S \ {last})}

\* The second listing and the evictions it leads to.
Evict(r) ==
  /\ pc[r] = "sweep" /\ sweep[r].todo = {}
  /\ \E S \in EvictionSets :
       out' = [q \in Runs |-> IF q \in S THEN NoOut ELSE out[q]]
  /\ Goto(r, "create")
  /\ UNCHANGED <<nix, raw, tail, sweep, code, silent, twice>>

----------------------------------------------------------------------------
(* A run: its pair of files, nix, and the tailer.                          *)

\* Create, and the rest of setup.
Create(r) ==
  /\ pc[r] = "create"
  /\ raw' = [raw EXCEPT ![r] = [NoRaw EXCEPT !.linked = TRUE]]
  /\ out' = [out EXCEPT ![r] = [NoOut EXCEPT !.linked = TRUE]]
  /\ Goto(r, "ready")
  /\ UNCHANGED <<nix, tail, sweep, code, silent, twice>>

\* No directory, no file or (later) no telemetry: CMD is exec'ed unobserved.
FailOpen(r) ==
  /\ pc[r] \in {"idle", "create", "ready"}
  /\ raw' = [raw EXCEPT ![r] = NoRaw]
  /\ out' = [out EXCEPT ![r] = NoOut]
  /\ Goto(r, "direct")
  /\ UNCHANGED <<nix, tail, sweep, code, silent, twice>>

CmdStart(r) ==
  /\ pc[r] = "ready" /\ r \notin NoTelemetry
  /\ nix' = [nix EXCEPT ![r] = "up"]
  /\ Goto(r, "running")
  /\ UNCHANGED <<raw, out, tail, sweep, code, silent, twice>>

\* CMD could not be started: abandon removes both files.
Abandon(r) ==
  /\ pc[r] = "ready" /\ r \notin NoTelemetry
  /\ raw' = [raw EXCEPT ![r] = NoRaw]
  /\ out' = [out EXCEPT ![r] = NoOut]
  /\ code' = [code EXCEPT ![r] = 126]
  /\ Goto(r, "done")
  /\ UNCHANGED <<nix, tail, sweep, silent, twice>>

\* nix appends a line to the file it opened, linked or not.  The two files of a
\* run age together.
NixWrite(r) ==
  /\ nix[r] = "up" /\ Len(raw[r].lines) < MaxLines
  /\ \E k \in Kind :
       raw' = [raw EXCEPT ![r].lines = Append(@, k), ![r].old = FALSE,
                          ![r].owed = IF Alive(r) THEN @ + 1 ELSE @]
  /\ out' = [out EXCEPT ![r].old = @ /\ ~raw[r].linked]
  /\ UNCHANGED <<pc, nix, tail, sweep, code, silent, twice>>

\* nix ends: by itself, or by the signal it or the wrapper received.
NixExit(r) ==
  /\ nix[r] = "up"
  /\ nix' = [nix EXCEPT ![r] = "gone"]
  /\ IF Alive(r) THEN \E c \in {0, 1} : code' = [code EXCEPT ![r] = c]
                 ELSE UNCHANGED code
  /\ UNCHANGED <<pc, raw, out, tail, sweep, silent, twice>>

\* The lines that the tailer has yet to read, and those of them that it parses:
\* the parse cap counts retained lines and, once reached, ends parsing.
Unread(r) == tail[r].offset + 1 .. RawSize(r)
KeptBefore(r, i) == {j \in Unread(r) \cap Kept(raw[r].lines) : j < i}
Parsed(r) ==
  {i \in Unread(r) : /\ ~tail[r].truncated
                     /\ tail[r].counted + Cardinality(KeptBefore(r, i)) < ParseCap}

\* consume, of every complete line in turn: the guard and the processor see what
\* is parsed.
Consumed(r) ==
  [tail[r] EXCEPT !.offset = RawSize(r),
                  !.counted = @ + Cardinality(Parsed(r) \cap Kept(raw[r].lines)),
                  !.truncated = @ \/ Parsed(r) # Unread(r),
                  !.warned = @ \/ \E i \in Parsed(r) : raw[r].lines[i] = "warn"]

\* WriteLine: the next places, as long as the cap has room.
Written(r) == {i \in tail[r].counted + 1 .. Consumed(r).counted : i <= RetainedCap}

\* One Poll: everything appended so far, flushed to the .jsonl at its end.
Poll(r) ==
  /\ tail' = [tail EXCEPT ![r] = Consumed(r)]
  /\ out' = IF out[r].linked /\ ~tail[r].broken /\ Written(r) # {}
              THEN [out EXCEPT ![r].places = @ \cup Written(r), ![r].old = FALSE]
              ELSE out

\* The same with a disk that refuses the bytes: nothing is written any more.
BadPoll(r) ==
  /\ Written(r) # {}
  /\ tail' = [tail EXCEPT ![r] = [Consumed(r) EXCEPT !.broken = TRUE]]
  /\ UNCHANGED out

Follow(r) ==
  /\ pc[r] = "running" /\ tail[r].offset < RawSize(r)
  /\ Poll(r) \/ BadPoll(r)
  /\ UNCHANGED <<pc, nix, raw, sweep, code, silent, twice>>

\* cmd.Wait returned; stop is closed.
Reap(r) ==
  /\ pc[r] = "running" /\ nix[r] = "gone"
  /\ Goto(r, "drain")
  /\ UNCHANGED <<nix, raw, out, tail, sweep, code, silent, twice>>

\* Variant: the run ends without a final drain.
DrainNothing(r) ==
  /\ pc[r] = "drain"
  /\ Goto(r, "close")
  /\ UNCHANGED <<nix, raw, out, tail, sweep, code, silent, twice>>

\* The final drain: nix is gone, so one Poll reaches the end of the file.
Drain(r) ==
  /\ pc[r] = "drain"
  /\ Poll(r) \/ BadPoll(r)
  /\ Goto(r, "close")
  /\ UNCHANGED <<nix, raw, sweep, code, silent, twice>>

\* Variant: the .raw goes whether or not the .jsonl could be flushed.
CloseLogsAnyway(r) ==
  /\ pc[r] = "close"
  /\ raw' = [raw EXCEPT ![r].linked = FALSE]
  /\ Goto(r, "finish")
  /\ UNCHANGED <<nix, out, tail, sweep, code, silent, twice>>

\* closeLogs: the .raw goes once the .jsonl is flushed and closed.
CloseLogs(r) ==
  /\ pc[r] = "close"
  /\ raw' = IF tail[r].broken THEN raw ELSE [raw EXCEPT ![r].linked = FALSE]
  /\ Goto(r, "finish")
  /\ UNCHANGED <<nix, out, tail, sweep, code, silent, twice>>

\* The guard turns a would-be exit 0 into 3; then telemetry is flushed.
Finish(r) ==
  /\ pc[r] = "finish"
  /\ code' = [code EXCEPT ![r] =
                IF @ = 0 /\ r \in Guarded /\ tail[r].warned THEN 3 ELSE @]
  /\ Goto(r, "done")
  /\ UNCHANGED <<nix, raw, out, tail, sweep, silent, twice>>

----------------------------------------------------------------------------

\* SIGKILL of the wrapper alone: nix goes on, nothing in memory is flushed.
Kill(r) ==
  /\ Alive(r)
  /\ tail' = [tail EXCEPT ![r] = NoTail]
  /\ sweep' = [sweep EXCEPT ![r] = [todo |-> {}, target |-> r]]
  /\ code' = [code EXCEPT ![r] = 0]
  /\ Goto(r, "killed")
  /\ UNCHANGED <<nix, raw, out, silent, twice>>

\* A week passes in which nobody writes the files of q.
Age(q) ==
  /\ out[q].linked /\ ~out[q].old
  /\ out' = [out EXCEPT ![q].old = TRUE]
  /\ raw' = [raw EXCEPT ![q].old = raw[q].linked]
  /\ UNCHANGED <<pc, nix, tail, sweep, code, silent, twice>>

Sweeps(r) == SweepSkip(r) \/ FinalizeOpen(r) \/ FinalizeWrite(r)
             \/ FinalizeFails(r) \/ FinalizeRemove(r) \/ Evict(r)

Observes(r) == Create(r) \/ CmdStart(r) \/ Follow(r) \/ Reap(r) \/ Drain(r)
               \/ CloseLogs(r) \/ Finish(r)

Next ==
  \/ \E r \in Runs :
       \/ Start(r) \/ Sweeps(r) \/ Observes(r)
       \/ FailOpen(r) \/ Abandon(r) \/ Kill(r)
       \/ NixWrite(r) \/ NixExit(r) \/ Age(r)

Spec == Init /\ [][Next]_vars

----------------------------------------------------------------------------
(* Properties.                                                             *)

TypeOK ==
  /\ pc \in [Runs -> Step]
  /\ nix \in [Runs -> {"none", "up", "gone"}]
  /\ raw \in [Runs -> [lines : Seq(Kind), owed : Nat, linked : BOOLEAN,
                       old : BOOLEAN]]
  /\ out \in [Runs -> [places : SUBSET Nat, linked : BOOLEAN, old : BOOLEAN]]
  /\ tail \in [Runs -> [offset : Nat, counted : Nat, truncated : BOOLEAN,
                        broken : BOOLEAN, warned : BOOLEAN]]
  /\ sweep \in [Runs -> [todo : SUBSET Runs, target : Runs]]
  /\ code \in [Runs -> Nat]
  /\ silent \subseteq Runs
  /\ twice \subseteq Runs

\* The evidence of a run is never deleted unfiltered (logdir.go, SweepWith):
\* once the .raw of a run has gone and its .jsonl is still there, the .jsonl
\* holds every line to be kept that nix wrote while its wrapper lived, whoever
\* completed it: the run, or a later sweep, whatever was killed or failed on
\* the way.  Two cases the code leaves open are excepted: a run that was silent
\* for longer than the retention window is finalized alive, and two sweeps may
\* finalize one run at the same time.
EvidenceKept ==
  \A q \in Runs \ (silent \cup twice) :
    out[q].linked /\ ~raw[q].linked =>
      Filtered(SubSeq(raw[q].lines, 1, raw[q].owed)) \subseteq out[q].places

\* A retained log is a prefix of the stream, never a prefix with holes
\* (retain.go, WriteLine), for a live run, a finished and a finalized one.
NoHoles ==
  \A q \in Runs \ silent : out[q].places = 1 .. OutSize(q)

\* A run between Create and closeLogs.
Holds(q) == pc[q] \in {"ready", "running", "drain", "close"}

\* A step of another run's sweep never takes the log of a run that is alive
\* and wrote within the window (logdir.go, SweepWith: "a live .raw is never
\* evicted, and neither is the .jsonl of a live run").
LiveLogIsLeftAlone ==
  [][\A q \in Runs \ silent :
       Holds(q) /\ Holds(q)' /\ ~raw[q].old
       => out'[q].linked /\ out[q].places \subseteq out'[q].places]_vars

\* A guarded run that ends with exit 0 had no unmatched override: whatever nix
\* wrote, in whatever order exit and tailer come, its warning was read before
\* the exit code was decided (overrideguard.go), unless the parse cap ended the
\* reading first.
WarningNeverExitsZero ==
  \A r \in Guarded :
    /\ pc[r] = "done" /\ ~tail[r].truncated
    /\ \E i \in DOMAIN raw[r].lines : raw[r].lines[i] = "warn"
    => code[r] # 0
=============================================================================
