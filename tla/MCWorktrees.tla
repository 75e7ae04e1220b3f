---------------------------- MODULE MCWorktrees ----------------------------
(* Small instances of Worktrees for TLC. *)
EXTENDS Worktrees, TLC

SymmetricTrees == Permutations(Trees)

=============================================================================
