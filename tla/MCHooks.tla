------------------------------- MODULE MCHooks -------------------------------
(***************************************************************************)
(* TLC instance of Hooks: two verbs, and two changes of the operator's     *)
(* before, between or during them.                                         *)
(***************************************************************************)
EXTENDS Hooks

\* A check at the root before a build and after an init, one in lib before and after an
\* update; then top's install besides; then two that are not accepted.
MCGate == [scope |-> "root", when |-> {<<"pre", "build">>, <<"post", "init">>}, run |-> <<"check">>]
MCLib == [scope |-> "lib", when |-> {<<"pre", "update">>, <<"post", "update">>}, run |-> <<"check">>]
MCDeclared ==
  LET both == <<MCLib, MCGate>>
  IN <<both, Append(both, ProposedHook("top")),
       Append(both, [MCGate EXCEPT !.run = <<"install">>]),
       Append(both, [MCLib EXCEPT !.when = {<<"post", "allow">>}])>>

MCSpec == HooksInit /\ [][HooksNext]_hookVars
=============================================================================
