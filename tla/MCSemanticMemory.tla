-------------------------- MODULE MCSemanticMemory --------------------------
(* Symmetry for TLC: memories, writers and synchronizers are alike.        *)
EXTENDS SemanticMemory, TLC

Symmetry == Permutations(Memories) \cup Permutations(Writers)
              \cup Permutations(Synchronizers)
=============================================================================
