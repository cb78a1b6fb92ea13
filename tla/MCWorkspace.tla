------------------------------- MODULE MCWorkspace -------------------------------
(***************************************************************************)
(* A project's workspace, or the backend that an agent has written into    *)
(* it.  The two share no state: the initial state names the part that runs *)
(* while the other, of which one initial state will do, stays as it is.    *)
(*                                                                         *)
(* The workspace's tasks are an engineer's, then its tests and its         *)
(* infrastructure, side by side.                                           *)
(***************************************************************************)
EXTENDS Workspace, GeneratedApp

CONSTANTS backend, tests, docker, main, suite, report, compose, url,
          e1, active

VARIABLE part

Roles3 ==
  [t \in Task |->
     CASE t = backend -> "Engineer_Backend" [] t = tests -> "QA" [] t = docker -> "DevOps"]
Dependencies == [t \in Task |-> IF t = backend THEN {} ELSE {backend}]
WritesFirst ==
  [t \in Task |->
     CASE t = backend -> {main} [] t = tests -> {suite} [] t = docker -> {compose}]
WritesLast ==
  [t \in Task |-> CASE t = backend -> {} [] t = tests -> {report} [] t = docker -> {url}]

---------------------------------------------------------------------------------

MCInit ==
  /\ Init /\ AppInit
  /\ \/ part = "app"
     \/ part = "workspace" /\ [owner |-> FirstItem, status |-> active] \in items[FirstItem]
                           /\ \A a \in accounts : a.email = e1

MCNext ==
  /\ \/ part = "workspace" /\ Next /\ UNCHANGED appVars
     \/ part = "app" /\ AppNext /\ UNCHANGED vars
  /\ UNCHANGED part

MCSpec == MCInit /\ [][MCNext]_<<vars, appVars, part>>
=================================================================================
