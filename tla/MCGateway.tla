------------------------------- MODULE MCGateway -------------------------------
(***************************************************************************)
(* Two tries at one project by a user who may choose one of two providers  *)
(* and adds, prefers and deletes a key of one of them, and a pool of two   *)
(* connections: both tries together can take all of it.                    *)
(***************************************************************************)
EXTENDS Gateway
CONSTANTS a1, a2, k1, openai, google

MCAttempt == {a1, a2}
MCKey == {k1}
MCProvider == {openai, google}
MCProviderOf == [k \in MCKey |-> openai]
================================================================================
