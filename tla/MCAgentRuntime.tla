---------------------------- MODULE MCAgentRuntime ----------------------------
(***************************************************************************)
(* Instance of AgentRuntime for TLC: the pods and the neighbours are model *)
(* values, given in the configurations.                                    *)
(***************************************************************************)
EXTENDS AgentRuntime

===============================================================================
