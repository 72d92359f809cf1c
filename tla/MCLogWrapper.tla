---------------------------- MODULE MCLogWrapper ----------------------------
(***************************************************************************)
(* TLC instance of the nix log wrapper: the log directory with its wrapper *)
(* processes (LogWrapper) and the activity machine that reads one run's    *)
(* stream (NixLog).  The two share no state: the machine sees the lines in *)
(* the order the tailer hands them on.  A behaviour is about one of them.  *)
(***************************************************************************)
EXTENDS LogWrapper, NixLog, TLC

VARIABLE focus

MCCopyOf == [c \in Copies |-> CHOOSE s \in Substs : TRUE]
MCOuterOf == [a \in Aggs |-> IF a = "b2" THEN "b1" ELSE a]

MCInit ==
  /\ focus \in {"directory", "stream"}
  /\ Init /\ StreamInit

MCNext ==
  /\ UNCHANGED focus
  /\ \/ focus = "directory" /\ Next /\ UNCHANGED streamVars
     \/ focus = "stream" /\ StreamNext /\ UNCHANGED vars

MCSpec == MCInit /\ [][MCNext]_<<vars, streamVars, focus>>

Sym == Permutations(NoTelemetry)
=============================================================================
