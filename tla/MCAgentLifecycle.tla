-------------------------- MODULE MCAgentLifecycle --------------------------
(***************************************************************************)
(* Model values for the runs of AgentLifecycle.                            *)
(***************************************************************************)
EXTENDS AgentLifecycle, TLC

Symmetry == Permutations(Callers) \cup Permutations(Workers)

=============================================================================
