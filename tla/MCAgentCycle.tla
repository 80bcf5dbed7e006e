---------------------------- MODULE MCAgentCycle ----------------------------
(* The policies of MCAgent for the agent with the observer of its cycles. *)
EXTENDS MCAgent, AgentCycle
=============================================================================
