-------------------------- MODULE MCAgentSupervisor --------------------------
(* Small instances of AgentSupervisor for TLC. *)
EXTENDS AgentSupervisor, TLC

CONSTANTS k1, k2, sA, sB, w

\* Two sessions over one workspace: distinct keys, and one key used twice.
MCInputs ==
  { [key |-> k1, session |-> sA, root |-> w],
    [key |-> k2, session |-> sA, root |-> NoRoot],
    [key |-> k2, session |-> sB, root |-> w] }
\* Two sessions that never compete for a key or for each other's turn.
MCTwoInputs ==
  { [key |-> k1, session |-> sA, root |-> w],
    [key |-> k2, session |-> sB, root |-> w] }
MCOverlap == { <<w, w>> }

\* The two requests of MCTwoInputs may change places.
SymmetricInputs ==
  { p \in Permutations({k1, k2, sA, sB}) :
      p[k1] \in {k1, k2} /\ (p[k1] = k1 <=> p[sA] = sA) }

=============================================================================
