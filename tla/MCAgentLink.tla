---------------------------- MODULE MCAgentLink ----------------------------
(* Instances of AgentLink for TLC.                                         *)
EXTENDS AgentLink, TLC

Symmetry == Permutations(Agents) \cup Permutations(Sockets)
                \cup Permutations(Shells)
=============================================================================
