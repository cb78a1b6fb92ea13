---------------------------- MODULE MCExpertRouting ----------------------------
(***************************************************************************)
(* An expert that takes one task at once and one that takes two, with the  *)
(* vectors of the registry, and three tasks, so that both can be full.     *)
(* The requests: a type that maps to the first expert, the same with an    *)
(* ensemble forced, a type that names the second's work with a skill of    *)
(* the first and a hint at its work, and one of which nothing is known,    *)
(* critical or not.                                                        *)
(***************************************************************************)
EXTENDS ExpertRouting, TLC
CONSTANTS qa, backend, t1, t2, t3

MCExperts == <<qa, backend>>
MCMaxConcurrent == [e \in {qa, backend} |-> IF e = qa THEN 1 ELSE 2]
MCTask == {t1, t2, t3}

Vector(strategy, architecture, code, pages, testing, devops, cost, security) ==
  ("strategy" :> strategy) @@ ("architecture" :> architecture) @@ ("backend_code" :> code)
    @@ ("frontend_code" :> pages) @@ ("testing" :> testing) @@ ("devops" :> devops)
    @@ ("cost_optimization" :> cost) @@ ("security" :> security)
MCCapability ==
  (qa :> Vector(4, 6, 12, 12, 19, 6, 4, 15)) @@ (backend :> Vector(2, 8, 19, 2, 12, 8, 6, 10))

Asks(direct, named, hinted, skilled, critical, forced) ==
  [direct |-> direct, served |-> None, named |-> named, hinted |-> hinted,
   skilled |-> skilled, critical |-> critical, forced |-> forced]
MCRequest == {
  Asks(qa, {"testing"}, {}, {}, FALSE, FALSE),
  Asks(qa, {"testing"}, {}, {}, FALSE, TRUE),
  Asks(None, {"backend_code"}, {"testing"}, {qa}, FALSE, FALSE),
  Asks(None, {}, {}, {}, FALSE, FALSE),
  Asks(None, {}, {}, {}, TRUE, FALSE)}
MCNearness == {(qa :> 600) @@ (backend :> 600), (qa :> 0) @@ (backend :> 700)}
MCLatency == {100, 40000}
MCPrice == {0, 1500}

Tasks == Permutations(MCTask)
================================================================================
