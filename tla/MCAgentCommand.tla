--------------------------- MODULE MCAgentCommand ---------------------------
(* Instances of AgentCommand for TLC.                                      *)
EXTENDS AgentCommand, TLC

Symmetry == Permutations(Calls)
=============================================================================
