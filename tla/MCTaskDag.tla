------------------------------ MODULE MCTaskDag ------------------------------
(***************************************************************************)
(* Instance of TaskDag for TLC: a chain, a fork, a join, two independent   *)
(* tasks beside a third, and two graphs that Validate rejects.             *)
(***************************************************************************)
EXTENDS TaskDag, TLC

CONSTANTS t1, t2, t3

MCTask == {t1, t2, t3}

MCMaxRetries == (t1 :> 1) @@ (t2 :> 1) @@ (t3 :> 1)

Graph(a, b, c) == (t1 :> a) @@ (t2 :> b) @@ (t3 :> c)

MCGraphs ==
  { Graph({}, {t1}, {t2}),      \* chain
    Graph({}, {t1}, {t1}),      \* fork
    Graph({}, {}, {t1, t2}),    \* join
    Graph({}, {t1}, {t1, t2}),  \* chain with a short cut
    Graph({t3}, {t1}, {t2}),    \* cycle
    Graph({t1}, {}, {t2}) }     \* self-loop

===============================================================================
