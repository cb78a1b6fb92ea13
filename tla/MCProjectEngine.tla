--------------------------- MODULE MCProjectEngine ---------------------------
(***************************************************************************)
(* Instance of ProjectEngine for TLC: the standard plan, and answers of    *)
(* the language model with a fork, a forward reference, a self-dependency  *)
(* (a cycle), a declared cycle (which the dropped forward edge opens) and  *)
(* no task at all.                                                         *)
(***************************************************************************)
EXTENDS ProjectEngine, TLC

MCTask == {"repo", "backend", "frontend", "tests", "docker", "infra", "deploy",
           "finance"}

Answer(order, declared) ==
  [ order |-> order,
    dependencies |-> [t \in MCTask |->
                        IF t \in DOMAIN declared THEN declared[t] ELSE {}] ]

MCPlans ==
  { Answer(<<"repo", "backend", "tests">>,
           "backend" :> {"repo"} @@ "tests" :> {"repo"}),
    Answer(<<"tests", "repo", "backend">>,
           "tests" :> {"backend", "repo"} @@ "backend" :> {"repo"}),
    Answer(<<"repo", "backend">>, "repo" :> {"backend"} @@ "backend" :> {"repo"}),
    Answer(<<"repo", "backend">>, "repo" :> {"repo"} @@ "backend" :> {"repo"}),
    Answer(<<>>, "repo" :> {}) }

===============================================================================
