----------------------------- MODULE MCApplyState -----------------------------
(* Instances of ApplyState for TLC: the terminal and one other repo, which a   *)
(* clean terminal pins at the number of the terminal's own commit; an edit of  *)
(* the first commit relocks, an edit of the second takes the pin away.         *)
EXTENDS ApplyState

CONSTANT edited

MCRepos == {1, 2}
MCEdits == {edited}
MCLockOf == [c \in 0..MaxCommit |-> [t \in Trees |->
                [i \in Repos |-> IF t = Clean THEN c ELSE IF c = 1 THEN 2 ELSE 0]]]
=============================================================================
