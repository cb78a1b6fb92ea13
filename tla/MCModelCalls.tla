------------------------------ MODULE MCModelCalls ------------------------------
(***************************************************************************)
(* Two projects of one process; the projects are given in the              *)
(* configuration.                                                          *)
(***************************************************************************)
EXTENDS ModelCalls
================================================================================
