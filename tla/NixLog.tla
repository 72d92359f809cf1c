------------------------------- MODULE NixLog -------------------------------
(***************************************************************************)
(* The activity machine of the nix log wrapper (nixlog.Processor) and the  *)
(* recorder behind it: nix's activity stream, line by line, becomes one    *)
(* span per build, wait and substitution that is long enough for one,      *)
(* delta metrics and a summary of the run.  nix does not say on "stop"     *)
(* whether a build failed: a message that names the derivation does,       *)
(* before the stop, after it, or without any start at all, so a stopped    *)
(* build is held until a message names it or the run ends.                 *)
(*                                                                         *)
(* The machine keeps what the code keeps; log is the history of the lines, *)
(* from which the properties read what should have come out.               *)
(***************************************************************************)
EXTENDS Naturals, Sequences, FiniteSets, FiniteSetsExt, SequencesExt

CONSTANTS Drvs,          \* derivations: one build activity each
          Substs,        \* substitution activities
          Waits,         \* build-wait activities
          Copies,        \* CopyPath activities
          Aggs,          \* aggregate (Builds, CopyPaths) activities
          CopyOf,        \* [Copies -> Substs]: a copy's parent
          OuterOf,       \* [Aggs -> Aggs]: an aggregate's parent, itself if none
          Values,        \* progress values
          DrvKinds,      \* what a message may say of a derivation
          RunKinds,      \* what any other error message may say of the run
          MaxFailedDrvs, \* names the summary keeps
          MaxLog         \* bound: lines of the log

\* nix gives an activity one type.
Activities == <<Drvs, Substs, Waits, Copies, Aggs>>

ASSUME NixLogAssumption ==
  /\ DrvKinds \subseteq {"build_failed", "dependency_failed", "hash_mismatch"}
  /\ RunKinds \subseteq {"eval_error", "other", "signal"}
  /\ CopyOf \in [Copies -> Substs] /\ OuterOf \in [Aggs -> Aggs]
  /\ \A i, j \in 1 .. 5 : i # j => Activities[i] \cap Activities[j] = {}

VARIABLES active,    \* open builds, substitutions and waits
          held,      \* stopped builds that wait for a message
          failed,    \* [Drvs -> what the first message said, or "no"]
          aggs,      \* [Aggs -> [seen, nested, last]], "unseen" before the start
          copies,    \* open copies under an open substitution
          bytes,     \* [Substs -> last progress, 0 for none]
          kinds,     \* failure kinds seen in messages
          names,     \* the failing derivations kept, in order
          emitted,   \* finished activities, as the recorder gets them
          brief,     \* history: substitutions stamped shorter than MinSubstituteSpan
          metrics,   \* derivation counter by outcome, and build durations
          kind,      \* error.type of the finished run
          log        \* history: the lines

streamVars == <<active, held, failed, aggs, copies, bytes, kinds, names, emitted,
          brief, metrics, kind, log>>

NoAgg == [seen |-> FALSE, nested |-> FALSE, last |-> 0, open |-> FALSE]

StreamInit ==
  /\ active = {} /\ held = {} /\ copies = {} /\ emitted = {} /\ brief = {} /\ kinds = {}
  /\ failed = [d \in Drvs |-> "no"]
  /\ aggs = [a \in Aggs |-> NoAgg]
  /\ bytes = [s \in Substs |-> 0]
  /\ names = <<>> /\ log = <<>>
  /\ metrics = [built |-> 0, failed |-> 0, substituted |-> 0, timed |-> 0]
  /\ kind = "running"

----------------------------------------------------------------------------
(* The recorder.                                                           *)

\* A finished activity, and the spans it becomes: none when it is a substitution
\* shorter than MinSubstituteSpan (Activity.NoSpan).
Span(x, err, instant) ==
  [act |-> x, err |-> err, instant |-> instant,
   spans |-> IF x \in brief' THEN 0 ELSE 1,
   bytes |-> IF x \in Substs THEN bytes[x] ELSE 0]

\* Emit for a set of finished activities: metrics count builds and
\* substitutions by outcome, with a span or without, but not those nix left open;
\* only a build that was started has a duration.
Emit(S) ==
  LET counted == {a \in S : a.err # "aborted"}
      builds == {a \in counted : a.act \in Drvs}
  IN /\ emitted' = emitted \cup S
     /\ metrics' =
          [built |-> metrics.built + Cardinality({a \in builds : a.err = "no"}),
           failed |-> metrics.failed + Cardinality({a \in builds : a.err # "no"}),
           substituted |-> metrics.substituted
                           + Cardinality({a \in counted : a.act \in Substs}),
           timed |-> metrics.timed + Cardinality({a \in builds : ~a.instant})]

\* What the tracer gets of them.
Traced == {a \in emitted : a.spans = 1}

NoEmit == UNCHANGED <<emitted, metrics>>

----------------------------------------------------------------------------
(* One line.                                                               *)

Started(x) == \E i \in DOMAIN log : log[i] = [ev |-> "start", of |-> x, v |-> 0]
Stopped(x) == \E i \in DOMAIN log : log[i] = [ev |-> "stop", of |-> x, v |-> 0]

\* A line is stamped as it is read: the stop of a substitution tells whether it
\* was shorter than MinSubstituteSpan.
Read(ev, x, v) ==
  /\ kind = "running" /\ Len(log) < MaxLog
  /\ log' = Append(log, [ev |-> ev, of |-> x, v |-> v])
  /\ brief' \in IF ev = "stop" /\ x \in Substs THEN {brief, brief \cup {x}} ELSE {brief}
  /\ UNCHANGED kind

\* start: spans' activities are opened, a copy is remembered under its open
\* substitution, an aggregate is remembered for the whole run.  A derivation a
\* message named as failed is not started afterwards.
OnStart(x) ==
  /\ ~Started(x) /\ (x \in Drvs => failed[x] = "no")
  /\ Read("start", x, 0)
  /\ active' = IF x \in Drvs \cup Substs \cup Waits THEN active \cup {x} ELSE active
  /\ copies' = IF x \in Copies /\ CopyOf[x] \in active
                 THEN copies \cup {x} ELSE copies
  /\ aggs' = IF x \in Aggs
               THEN [aggs EXCEPT ![x].open = TRUE,
                       ![x].nested = OuterOf[x] # x /\ aggs[OuterOf[x]].open]
               ELSE aggs
  /\ NoEmit
  /\ UNCHANGED <<held, failed, bytes, kinds, names>>

\* Variant: a stopped build is emitted as built at once.
OnStopAtOnce(x) ==
  /\ Started(x) /\ ~Stopped(x)
  /\ Read("stop", x, 0)
  /\ copies' = copies \ {x}
  /\ active' = active \ {x}
  /\ IF x \in Drvs /\ failed[x] # "no" THEN Emit({Span(x, failed[x], FALSE)})
     ELSE IF x \in Drvs \cup Substs \cup Waits THEN Emit({Span(x, "no", FALSE)})
     ELSE NoEmit
  /\ UNCHANGED <<held, failed, aggs, bytes, kinds, names>>

\* stop: a build a message already named is emitted failed, any other build is
\* held; substitutions and waits are emitted.
OnStop(x) ==
  /\ Started(x) /\ ~Stopped(x)
  /\ Read("stop", x, 0)
  /\ copies' = copies \ {x}
  /\ active' = active \ {x}
  /\ held' = IF x \in Drvs /\ failed[x] = "no" THEN held \cup {x} ELSE held
  /\ IF x \in Drvs /\ failed[x] # "no" THEN Emit({Span(x, failed[x], FALSE)})
     ELSE IF x \in Substs \cup Waits THEN Emit({Span(x, "no", FALSE)})
     ELSE NoEmit
  /\ UNCHANGED <<failed, aggs, bytes, kinds, names>>

\* A level-0 message names a derivation (buildFailed): the first one counts.
\* A held build is released failed, an open one will be on its stop, and one
\* that never started is emitted from the message alone.
DrvFailed(d, k) ==
  /\ Read("fail", d, k)
  /\ IF failed[d] # "no" THEN NoEmit /\ UNCHANGED <<failed, kinds, names, held>>
     ELSE /\ failed' = [failed EXCEPT ![d] = k]
          /\ kinds' = kinds \cup {k}
          /\ names' = IF Len(names) < MaxFailedDrvs THEN Append(names, d) ELSE names
          /\ held' = held \ {d}
          /\ IF d \in active THEN NoEmit
             ELSE Emit({Span(d, k, d \notin held)})
  /\ UNCHANGED <<active, aggs, copies, bytes>>

\* Any other level-0 error message: it only classifies the run.
OtherError(k) ==
  /\ k \notin kinds
  /\ Read("error", "run", k)
  /\ kinds' = kinds \cup {k}
  /\ NoEmit
  /\ UNCHANGED <<active, held, failed, aggs, copies, bytes, names>>

\* Progress of an aggregate, an open substitution or its open copy is folded,
\* the last value wins; any other progress is dropped.
Progress(x, v) ==
  /\ Started(x)
  /\ Read("progress", x, v)
  /\ aggs' = IF x \in Aggs
               THEN [aggs EXCEPT ![x].seen = TRUE, ![x].last = v] ELSE aggs
  /\ LET s == IF x \in copies THEN CopyOf[x] ELSE x IN
       bytes' = IF s \in Substs \cap active THEN [bytes EXCEPT ![s] = v] ELSE bytes
  /\ NoEmit
  /\ UNCHANGED <<active, held, failed, copies, kinds, names>>

----------------------------------------------------------------------------
(* The end of the run.                                                     *)

KindPrecedence == <<"hash_mismatch", "build_failed", "dependency_failed",
                    "eval_error", "other">>

\* An exit by signal, or an interrupted message, wins; then the most specific
\* kind a message named; "" when nothing more than the exit code is known.
FailureKind(bySignal) ==
  LET known == {i \in DOMAIN KindPrecedence : KindPrecedence[i] \in kinds}
  IN IF bySignal \/ "signal" \in kinds THEN "signal"
     ELSE IF known = {} THEN "" ELSE KindPrecedence[Min(known)]

\* error.type of the invocation, and none for exit 0.
ErrorType(exit) ==
  CASE exit = "zero" -> "none"
    [] exit # "zero" /\ FailureKind(exit = "signal") = "" -> "nonzero_exit"
    [] OTHER -> FailureKind(exit = "signal")

\* Finish: held builds succeeded, whatever is open was aborted.
FinishRun(exit) ==
  /\ kind = "running"
  /\ UNCHANGED brief
  /\ Emit({Span(d, "no", FALSE) : d \in held}
          \cup {Span(x, "aborted", FALSE) : x \in active})
  /\ held' = {} /\ active' = {}
  /\ kind' = ErrorType(exit)
  /\ UNCHANGED <<failed, aggs, copies, bytes, kinds, names, log>>

Summed(f, S) == MapThenSumSet(LAMBDA a : f[a], S)

\* Summary: the outermost aggregates that reported, summed.
Expected ==
  Summed([a \in Aggs |-> aggs[a].last], {a \in Aggs : aggs[a].seen /\ ~aggs[a].nested})

StreamNext ==
  \/ \E x \in Drvs \cup Substs \cup Waits \cup Copies \cup Aggs :
       \/ OnStart(x) \/ OnStop(x)
       \/ \E v \in Values : Progress(x, v)
  \/ \E d \in Drvs, k \in DrvKinds : DrvFailed(d, k)
  \/ \E k \in RunKinds : OtherError(k)
  \/ \E exit \in {"zero", "nonzero", "signal"} : FinishRun(exit)

StreamSpec == StreamInit /\ [][StreamNext]_streamVars

----------------------------------------------------------------------------
(* Properties.                                                             *)

Said(d) == {i \in DOMAIN log : log[i].ev = "fail" /\ log[i].of = d}

\* What a reader of the whole log says of an activity.
Verdict(x) ==
  IF Started(x) /\ ~Stopped(x) THEN "aborted"
  ELSE IF x \in Drvs /\ Said(x) # {} THEN log[Min(Said(x))].v ELSE "no"

Seen == {x \in Drvs \cup Substs \cup Waits :
           Started(x) \/ (x \in Drvs /\ Said(x) # {})}

\* One outcome per activity, whatever the order of its lines (nixlog.go, the
\* header: a failure message may come before the stop, long after it, or for a
\* build that never started): a finished run has exactly one span for every
\* build, wait and substitution of its log, except the substitutions that were
\* too short for one, with the verdict the whole log gives; its metrics count
\* every build and substitution once, those too short for a span included, and
\* its error.type is not less specific than its failed spans.
OneOutcomeEach ==
  kind # "running" =>
    /\ {a.act : a \in Traced} = Seen \ brief
    /\ \A a \in Traced : a.err = Verdict(a.act)
    /\ Cardinality(Traced) = Cardinality(Seen \ brief)
    /\ metrics.built + metrics.failed
         = Cardinality({a \in Traced : a.act \in Drvs /\ a.err # "aborted"})
    /\ metrics.timed = Cardinality({d \in Drvs : Stopped(d)})
    /\ metrics.substituted = Cardinality({s \in Substs : Stopped(s)})
    /\ (\E a \in Traced : a.err \in DrvKinds)
         => kind \in DrvKinds \cup {"signal", "none"}

LastValue(S) == IF S = {} THEN 0 ELSE log[Max(S)].v
At(i, ev, x) == log[i].ev = ev /\ log[i].of = x
Before(i, ev, x) == \E j \in 1 .. i : At(j, ev, x)

\* The progress lines that are about s: its own and those of a copy that was
\* started under it, while both were open.
About(s) ==
  {i \in DOMAIN log :
     /\ log[i].ev = "progress" /\ Before(i, "start", s) /\ ~Before(i, "stop", s)
     /\ \/ log[i].of = s
        \/ /\ log[i].of \in Copies /\ CopyOf[log[i].of] = s
           /\ ~Before(i, "stop", log[i].of)
           /\ \E j \in 1 .. i : At(j, "start", log[i].of) /\ Before(j, "start", s)}

\* What a reader of the whole log says of an aggregate: its progress, and
\* whether it was started under another one.
Reports(g) == {i \in DOMAIN log : At(i, "progress", g)}
Inner(g) ==
  \E i \in DOMAIN log : /\ At(i, "start", g) /\ OuterOf[g] # g
                        /\ Before(i, "start", OuterOf[g])

\* Progress ends up where it belongs (nixlog.go, fold and Summary): the bytes of
\* a substitution are the last progress nix reported for it while it was open,
\* not what came for a stopped one; the totals of the run sum the last progress
\* of the aggregates, an inner one counted through the outer one only.
ProgressIsAttributed ==
  /\ \A a \in Traced : a.act \in Substs => a.bytes = LastValue(About(a.act))
  /\ Expected = Summed([g \in Aggs |-> LastValue(Reports(g))],
                      {g \in Aggs : Reports(g) # {} /\ ~Inner(g)})

\* What is reported of a log is what the whole log says, activity by activity.
LogIsReported == OneOutcomeEach /\ ProgressIsAttributed
=============================================================================
