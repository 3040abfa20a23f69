--------------------------- MODULE MCAgentThreads ---------------------------
(* Instances of AgentThreads for TLC.                                      *)
EXTENDS AgentThreads, TLC

AgentSymmetry == Permutations(Agents)
=============================================================================
