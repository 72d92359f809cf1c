--------------------------- MODULE MCUpdateWorktree ---------------------------
(* Instance of UpdateWorktree for TLC. *)
EXTENDS UpdateWorktree
=============================================================================
