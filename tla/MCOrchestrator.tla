---------------------------- MODULE MCOrchestrator ----------------------------
(***************************************************************************)
(* Instance of Orchestrator for TLC: its constants are numbers, given in   *)
(* the configuration.                                                      *)
(***************************************************************************)
EXTENDS Orchestrator

===============================================================================
