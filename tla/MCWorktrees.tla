---------------------------- MODULE MCWorktrees ----------------------------
(* Small instances of Worktrees. *)
EXTENDS Worktrees
=============================================================================
