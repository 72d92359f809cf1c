------------------------------ MODULE MCRecords ------------------------------
(***************************************************************************)
(* TLC instance of ApplyState and TriageFiler, two components that write   *)
(* down what they have done and read it before they do it again.  A        *)
(* behaviour is about one of them, and the variables of the other rest.    *)
(* Only the first of the two packages is edited.                           *)
(***************************************************************************)
EXTENDS MCApplyState, MCTriageFiler

VARIABLE focus

MCInit ==
  /\ focus \in {"apply", "filer"}
  /\ ApplyInit /\ Init
  /\ focus = "filer" => head = [i \in Repos |-> 1]

MCNext ==
  /\ \/ focus = "apply" /\ ApplyNext /\ UNCHANGED vars
     \/ focus = "filer" /\ Next /\ version'[p2] = 1 /\ UNCHANGED applyVars
  /\ UNCHANGED focus

MCSpec == MCInit /\ [][MCNext]_<<focus, applyVars, vars>>

MCView == IF focus = "apply" THEN <<applyVars>> ELSE <<View>>
=============================================================================
