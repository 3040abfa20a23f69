----------------------------- MODULE MCAgentLink ----------------------------
(* Instances of AgentLink: see the .cfg files. *)
EXTENDS AgentLink
=============================================================================
