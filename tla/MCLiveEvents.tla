------------------------------ MODULE MCLiveEvents ------------------------------
(* A coroutine of the engine that emits twice, a second one that emits once, and *)
(* two connections, the first of which may command.                              *)
EXTENDS LiveEvents, TLC

CONSTANTS lifecycle, alert, c1

Emits == [s \in Source |-> CASE s = lifecycle -> 2 [] s \in {alert, c1} -> 1 [] OTHER -> 0]

===============================================================================
